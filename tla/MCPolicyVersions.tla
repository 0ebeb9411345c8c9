-------------------------- MODULE MCPolicyVersions --------------------------
(* Instances of PolicyVersions for TLC.                                    *)
EXTENDS PolicyVersions, TLC

Interchangeable ==
    Permutations(VersionIds) \cup Permutations(RequestIds)
        \cup Permutations(Contents) \cup Permutations(Workers)

\* The two ways to activate a version, up to replacement, and archiving.
ActivationRace ==
    {"create", "submit", "approve", "activate", "archive",
     "request_review", "approve_request", "activate_request"}

\* The ways to insert a version.
CreationRace ==
    {"create", "submit", "approve", "rollback_copy"}

\* Drafts, their content and the requests about them.
ReviewRace ==
    {"create", "update_draft", "request_review", "assign", "approve_request",
     "reject_request", "activate_request"}

\* Only the direct lifecycle.
DirectLifecycle ==
    {"create", "submit", "approve", "reject", "activate"}
=============================================================================

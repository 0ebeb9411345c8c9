------------------------- MODULE ActivationContract -------------------------
(***************************************************************************)
(* What the policy-version API promises the runtime: the version that the  *)
(* runtime prefers for a policy is one that has an approval on record.     *)
(* It says nothing of drafts, requests, sessions or the database.          *)
(***************************************************************************)
CONSTANTS Policies, VersionIds, None

VARIABLES
    approved,    \* versions with an approval on record
    preferred    \* per policy, the version the runtime evaluates, or None

vars == <<approved, preferred>>

Init ==
    /\ approved = {}
    /\ preferred = [p \in Policies |-> None]

Approve(v) == approved' = approved \cup {v} /\ UNCHANGED preferred

\* A policy gets another version, or none and falls back to its live rules.
Prefer(p, v) ==
    /\ v \in approved \cup {None}
    /\ preferred' = [preferred EXCEPT ![p] = v]
    /\ UNCHANGED approved

Next ==
    \/ \E v \in VersionIds : Approve(v)
    \/ \E p \in Policies, v \in VersionIds \cup {None} : Prefer(p, v)

Spec == Init /\ [][Next]_vars
=============================================================================

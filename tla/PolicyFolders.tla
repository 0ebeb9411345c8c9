--------------------------- MODULE PolicyFolders ---------------------------
(***************************************************************************)
(* Policy folders: the repository pane of Policy Studio (apps/web/app/     *)
(* policies/policy-repository.tsx, the folder handlers of                  *)
(* policy-studio.tsx) and the endpoints behind it (policy_folders.py, the  *)
(* folder part of update_policy in policies.py).                           *)
(*                                                                         *)
(* The page has a request of every kind under way at most; another user    *)
(* moves policies as well.  An endpoint that reads before it writes takes  *)
(* two steps.  The names of the folders are left out.                      *)
(*                                                                         *)
(* At this commit lib/policies.ts lacks the folder requests that           *)
(* policy-studio.tsx imports from it: each of them fails as it stands.     *)
(* They are taken to be the calls that the handlers and the endpoints      *)
(* expect of each other (and may fail, which is the page as it stands).    *)
(***************************************************************************)
EXTENDS Naturals, FiniteSets

CONSTANTS
    Policies,
    Folders,      \* the folders that exist at some time
    Existing,     \* those that exist to begin with
    MaxClicks,    \* bounds what the user does
    MaxTroubles,  \* bounds lost requests and other users' moves
    None

Kinds == {"create", "rename", "delete", "move"}

FoldersAssumption == Existing \subseteq Folders /\ None \notin Folders

VARIABLES
    exists,    \* backend: policy_folders
    folderOf,  \* backend: policies.folder_id
    shown,     \* policyFoldersState: how often each folder is in the list
    listed,    \* policiesState: the folder of each policy
    requests,     \* the request of each kind that is under way
    reads,     \* what listPolicyFolders and fetchPolicies have read
    lifecycle, \* policyLifecycleState
    clicks,    \* bound
    troubles   \* bound

backend == <<exists, folderOf>>
page    == <<shown, listed, lifecycle>>
vars    == <<backend, page, requests, reads, clicks, troubles>>

NoCall == [ st |-> "none", folder |-> None, policy |-> None ]

Occurs(S) == [f \in Folders |-> IF f \in S THEN 1 ELSE 0]

Trouble == troubles < MaxTroubles /\ troubles' = troubles + 1

Click == clicks < MaxClicks /\ clicks' = clicks + 1

-----------------------------------------------------------------------------
\* Loading.  Refresh reads the policies and the folders anew.

Refresh ==
    /\ Click
    /\ reads.folders = "done" /\ reads.policies = "done"
    /\ reads' = [reads EXCEPT !.folders = "sent", !.policies = "sent"]
    /\ shown' = [shown EXCEPT !.st = "loading"]
    /\ listed' = [listed EXCEPT !.st = "loading"]
    /\ UNCHANGED <<backend, requests, lifecycle, troubles>>

list_policy_folders ==
    /\ reads.folders = "sent"
    /\ reads' = [reads EXCEPT !.folders = "read", !.exists = exists]
    /\ UNCHANGED <<backend, page, requests, clicks, troubles>>

loadPolicyFolders ==
    \/ /\ reads.folders = "read"
       /\ shown' = [ st |-> "ready", rows |-> Occurs(reads.exists) ]
       /\ reads' = [reads EXCEPT !.folders = "done", !.exists = {}]
       /\ UNCHANGED <<backend, listed, lifecycle, requests, clicks, troubles>>
    \/ /\ reads.folders = "sent"
       /\ Trouble
       /\ shown' = [shown EXCEPT !.st = "error"]
       /\ reads' = [reads EXCEPT !.folders = "done"]
       /\ UNCHANGED <<backend, listed, lifecycle, requests, clicks>>

loadPolicies ==
    /\ reads.policies = "sent"
    /\ reads' = [reads EXCEPT !.policies = "done"]
    /\ \/ listed' = [ st |-> "ready", of |-> folderOf ] /\ UNCHANGED troubles
       \/ listed' = [listed EXCEPT !.st = "error"] /\ Trouble
    /\ UNCHANGED <<backend, shown, lifecycle, requests, clicks>>

-----------------------------------------------------------------------------
\* The groups of the list.

\* Mutant: a policy is listed under the folders that the page knows only.
groupPoliciesKnown(p) ==
    { f \in Folders : shown.st = "ready" /\ shown.rows[f] > 0 /\ listed.of[p] = f }
    \cup { "uncategorized" : x \in {listed.of[p]} \cap {None} }

\* The groups that a policy is listed in: while the folders are not there, or do
\* not contain the policy's, it has a group for that.
groupPoliciesByFolder(p) ==
    LET known == { f \in Folders : shown.st = "ready" /\ shown.rows[f] > 0 } IN
    CASE listed.of[p] = None     -> {"uncategorized"}
      [] listed.of[p] \in known  -> {listed.of[p]}
      [] OTHER                   -> { IF shown.st = "ready" THEN "folder-unavailable"
                                      ELSE "folder-labels-loading" }

\* The repository shows the list, with the actions of the folders it knows.
Offered(f) == listed.st = "ready" /\ shown.st = "ready" /\ shown.rows[f] > 0

-----------------------------------------------------------------------------
\* What the user does.

Send(kind, f, p) ==
    /\ Click
    /\ requests[kind].st = "none"
    /\ requests' = [requests EXCEPT ![kind] = [ st |-> "sent", folder |-> f, policy |-> p ]]
    /\ lifecycle' = "submitting"
    /\ UNCHANGED <<backend, shown, listed, reads, troubles>>

handleCreateFolder(f) ==
    /\ f \notin exists \cup Existing
    /\ Send("create", f, None)

handleRenameFolder(f) == Offered(f) /\ Send("rename", f, None)

\* Only a folder without listed policies is deleted.
handleDeleteFolder(f) ==
    /\ Offered(f)
    /\ \A p \in Policies : listed.of[p] # f
    /\ Send("delete", f, None)

handleMovePolicyToFolder(p, f) ==
    /\ listed.st = "ready" /\ shown.st = "ready" /\ listed.of[p] # f
    /\ f \in {None} \cup {g \in Folders : Offered(g)}
    /\ Send("move", f, p)

-----------------------------------------------------------------------------
\* The backend.

Answer(kind, st) ==
    /\ requests' = [requests EXCEPT ![kind].st = st]
    /\ UNCHANGED <<page, reads, clicks>>

create_policy_folder ==
    /\ requests["create"].st = "sent"
    /\ exists' = exists \cup {requests["create"].folder}
    /\ Answer("create", "ok")
    /\ UNCHANGED <<folderOf, troubles>>

update_policy_folder ==
    /\ requests["rename"].st = "sent"
    /\ Answer("rename", IF requests["rename"].folder \in exists THEN "ok" ELSE "failed")
    /\ UNCHANGED <<backend, troubles>>

\* delete_policy_folder up to its check ...
CheckDelete ==
    LET f == requests["delete"].folder IN
    /\ requests["delete"].st = "sent"
    /\ Answer("delete", IF f \in exists /\ \A p \in Policies : folderOf[p] # f
                        THEN "checked" ELSE "failed")
    /\ UNCHANGED <<backend, troubles>>

\* ... and from session.delete to the commit: the ORM takes the policies that are
\* in the folder by now out of it, unless one comes in even later, which the
\* foreign key refuses.
FlushDelete ==
    LET f == requests["delete"].folder IN
    /\ requests["delete"].st = "checked"
    /\ \/ /\ folderOf' = [p \in Policies |-> IF folderOf[p] = f THEN None ELSE folderOf[p]]
          /\ exists' = exists \ {f}
          /\ Answer("delete", "ok")
       \/ /\ \E p \in Policies : folderOf[p] = f
          /\ Answer("delete", "failed")
          /\ UNCHANGED backend
    /\ UNCHANGED troubles

\* update_policy up to its check of the folder ...
CheckMove ==
    /\ requests["move"].st = "sent"
    /\ Answer("move", IF requests["move"].folder \in exists \cup {None}
                      THEN "checked" ELSE "failed")
    /\ UNCHANGED <<backend, troubles>>

\* ... and its commit, with the foreign key.
CommitMove ==
    LET f == requests["move"].folder IN
    /\ requests["move"].st = "checked"
    /\ \/ /\ f \in exists \cup {None}
          /\ folderOf' = [folderOf EXCEPT ![requests["move"].policy] = f]
          /\ Answer("move", "ok")
       \/ /\ f \notin exists \cup {None}
          /\ Answer("move", "failed")
          /\ UNCHANGED folderOf
    /\ UNCHANGED <<exists, troubles>>

LoseCall(kind) ==
    /\ requests[kind].st \in {"sent", "ok"}
    /\ Trouble
    /\ Answer(kind, "failed")
    /\ UNCHANGED backend

OthersMove(p) ==
    /\ \E f \in (exists \cup {None}) \ {folderOf[p]} :
            folderOf' = [folderOf EXCEPT ![p] = f]
    /\ Trouble
    /\ UNCHANGED <<exists, page, requests, reads, clicks>>

-----------------------------------------------------------------------------
\* The handlers after their awaits.

Ended(kind, result) ==
    /\ requests' = [requests EXCEPT ![kind] = NoCall]
    /\ lifecycle' = result
    /\ UNCHANGED <<backend, reads, clicks, troubles>>

\* A folder that answers while the list is not there becomes the whole list.
ShowCreated ==
    LET f == requests["create"].folder IN
    /\ requests["create"].st = "ok"
    /\ shown' = [ st |-> "ready",
                  rows |-> IF shown.st = "ready" THEN [shown.rows EXCEPT ![f] = @ + 1]
                           ELSE Occurs({f}) ]
    /\ Ended("create", "success") /\ UNCHANGED listed

ShowRenamed ==
    /\ requests["rename"].st = "ok"
    /\ shown' = IF shown.st = "ready" THEN shown
                ELSE [ st |-> "ready", rows |-> Occurs({requests["rename"].folder}) ]
    /\ Ended("rename", "success") /\ UNCHANGED listed

ShowDeleted ==
    /\ requests["delete"].st = "ok"
    /\ shown' = IF shown.st = "ready" THEN [shown EXCEPT !.rows[requests["delete"].folder] = 0]
                ELSE shown
    /\ Ended("delete", "success") /\ UNCHANGED listed

ShowMoved ==
    /\ requests["move"].st = "ok"
    /\ listed' = IF listed.st = "ready"
                 THEN [listed EXCEPT !.of[requests["move"].policy] = requests["move"].folder]
                 ELSE listed
    /\ Ended("move", "success") /\ UNCHANGED shown

\* Mutant: a failed deletion is not caught.
ShowFailureUnlessDelete(kind) ==
    /\ requests[kind].st = "failed"
    /\ IF kind = "delete" THEN Ended(kind, lifecycle) ELSE Ended(kind, "error")
    /\ UNCHANGED <<shown, listed>>

ShowFailure(kind) ==
    /\ requests[kind].st = "failed"
    /\ Ended(kind, "error") /\ UNCHANGED <<shown, listed>>

-----------------------------------------------------------------------------
Init ==
    /\ exists = Existing
    /\ folderOf \in [Policies -> Existing \cup {None}]
    /\ shown = [ st |-> "loading", rows |-> Occurs({}) ]
    /\ listed = [ st |-> "loading", of |-> [p \in Policies |-> None] ]
    /\ requests = [k \in Kinds |-> NoCall]
    /\ reads = [ folders |-> "sent", policies |-> "sent", exists |-> {} ]
    /\ lifecycle = "idle" /\ clicks = 0 /\ troubles = 0

Load == list_policy_folders \/ loadPolicyFolders \/ loadPolicies

Serve ==
    \/ create_policy_folder \/ update_policy_folder
    \/ CheckDelete \/ FlushDelete \/ CheckMove \/ CommitMove

Show ==
    \/ ShowCreated \/ ShowRenamed \/ ShowDeleted \/ ShowMoved
    \/ \E k \in Kinds : ShowFailure(k)

Answers == Load \/ Serve \/ Show

Next ==
    \/ Refresh \/ Answers
    \/ \E f \in Folders : handleCreateFolder(f) \/ handleRenameFolder(f) \/ handleDeleteFolder(f)
    \/ \E p \in Policies, f \in Folders \cup {None} : handleMovePolicyToFolder(p, f)
    \/ \E k \in Kinds : LoseCall(k)
    \/ \E p \in Policies : OthersMove(p)

Spec == Init /\ [][Next]_vars

\* Every request ends with an answer or an error, which the browser handles.
FairSpec == Spec /\ WF_vars(Answers)

-----------------------------------------------------------------------------
\* Properties.

\* No policy disappears from the repository, whatever happens to its folder here
\* or elsewhere and in whatever order the lists arrive.
NoPolicyDisappears ==
    listed.st = "ready" => \A p \in Policies : groupPoliciesByFolder(p) # {}

\* The pane is busy with what the user started.
Waiting == IF lifecycle = "submitting" THEN {"pane"} ELSE {}

\* "Deleting a non-empty PolicyFolder is blocked; callers must move Policies before
\* deleting the folder." (docs/DOMAIN_MODEL.md)
NonEmptyFolderStays ==
    [][ \A f \in exists \ exists' : \A p \in Policies : folderOf[p] # f ]_vars

=============================================================================

--------------------------- MODULE PolicyReviews ---------------------------
(***************************************************************************)
(* The older queue of policy reviews in apps/web/app/human-approvals/      *)
(* policy-reviews-list.tsx, which no route mounts any more.  The Review    *)
(* Inbox (ReviewInbox) has one action at a time and one list per status;   *)
(* here decisions and activations, assignments, and rollback drafts each   *)
(* have a message and a lock of their own, and every action that succeeds  *)
(* loads the pending and the approved requests again, by two queries.  The *)
(* requests are about policies of their own, the viewer is a reviewer but  *)
(* no platform_admin; notes, names and all of a diff but the version to    *)
(* roll back to are left out.                                              *)
(***************************************************************************)
EXTENDS Naturals, FiniteSets

CONSTANTS
    Reviews,      \* the review requests
    Own,          \* those that the viewer has asked for
    Replacing,    \* those whose policy has an active version already
    MaxPosts,     \* bounds the POSTs; each can start one more load
    MaxTroubles,  \* bounds failing requests and what others do
    None

OwnAssumption == Own \cup Replacing \subseteq Reviews

VARIABLES
    review,    \* backend: status, assignee and rollback drafts of each request
    reviewer,  \* actorState
    queued,    \* state and diffsById
    posts,     \* the POSTs that handlers wait for
    gets,      \* the calls of loadPolicyReviews
    says,      \* actionState, assignmentState and rollbackState
    crossed,   \* history: loads overlapped, somebody else decided or an answer was lost
    hopped,    \* history: a rollback draft was begun while another one's was under way
    troubles   \* bound

vars == <<review, reviewer, queued, posts, gets, says, crossed, hopped, troubles>>

PostIds == 1..MaxPosts
GetIds  == 0..MaxPosts
Lists   == {"pending", "approved"}
Locks   == {"action", "assignment", "rollback"}

\* The state that an action reports to and, for rollback drafts apart, is locked by.
LockOf == [ approve |-> "action", reject |-> "action", activate |-> "action",
            assign |-> "assignment", rollback |-> "rollback" ]

NoPost == [ st |-> "none", act |-> "none", on |-> None, arg |-> None ]
NoRows == [l \in Lists |-> [r \in {} |-> None]]
NoGet  == [ st |-> "none", left |-> {}, rows |-> NoRows ]
Asked  == [NoGet EXCEPT !.st = "sent", !.left = Lists]
Idle   == [ on |-> None, st |-> "idle" ]

Trouble == troubles < MaxTroubles /\ troubles' = troubles + 1

-----------------------------------------------------------------------------
\* The backend (PolicyVersions has its checks in full).

Accepted(act, r, arg) ==
    CASE act = "assign"   -> review[r].status = "pending"
      [] act = "activate" -> /\ review[r].status = "approved" /\ ~review[r].active
                             /\ r \in Replacing => arg = "replace"
      [] act = "rollback" -> TRUE
      [] OTHER            -> /\ review[r].status = "pending" /\ r \notin Own
                             /\ review[r].assigned \in {None, "viewer"}

Apply(act, r, arg) ==
    review' = [review EXCEPT ![r] =
        CASE act = "assign"   -> [@ EXCEPT !.assigned = arg]
          [] act = "activate" -> [@ EXCEPT !.active = TRUE]
          [] act = "rollback" -> [@ EXCEPT !.drafts = @ + 1]
          [] act = "approve"  -> [@ EXCEPT !.status = "approved"]
          [] act = "reject"   -> [@ EXCEPT !.status = "rejected"]]

\* Another reviewer approves or rejects a request.
OthersReview ==
    /\ \E r \in Reviews, s \in {"approved", "rejected"} :
        review[r].status = "pending" /\ review' = [review EXCEPT ![r].status = s]
    /\ Trouble
    /\ crossed' = TRUE
    /\ UNCHANGED <<reviewer, queued, posts, gets, says, hopped>>

-----------------------------------------------------------------------------
\* Loading.

\* The answer to loadCurrentActor; the roles are a reviewer's.
ShowActor ==
    /\ reviewer = "loading"
    /\ \/ reviewer' = "ready" /\ UNCHANGED troubles
       \/ reviewer' = "error" /\ Trouble
    /\ UNCHANGED <<review, queued, posts, gets, says, crossed, hopped>>

Open(l) == { r \in Reviews : review[r].status = l }

\* One of the two queries of a load is answered: the requests with their assignees.
ReadReviews(g, l) ==
    /\ gets[g].st = "sent" /\ l \in gets[g].left
    /\ gets' = [gets EXCEPT ![g].left = @ \ {l},
                            ![g].rows[l] = [r \in Open(l) |-> review[r].assigned]]
    /\ UNCHANGED <<review, reviewer, queued, posts, says, crossed, hopped, troubles>>

Requested(g) == UNION { DOMAIN gets[g].rows[l] : l \in Lists }

\* Both are there: the rows are shown with their diffs on loading.
ShowReviews(g) ==
    /\ gets[g].st = "sent" /\ gets[g].left = {}
    /\ queued' = [ st |-> "ready", rows |-> gets[g].rows,
                   diffs |-> [r \in Requested(g) |-> "loading"] ]
    /\ gets' = [gets EXCEPT ![g].st = "diffs"]
    /\ UNCHANGED <<review, reviewer, posts, says, crossed, hopped, troubles>>

\* A query fails, and the whole load with it.
FailReviews(g) ==
    /\ gets[g].st = "sent" /\ gets[g].left # {}
    /\ queued' = [queued EXCEPT !.st = "error"]
    /\ gets' = [gets EXCEPT ![g] = [NoGet EXCEPT !.st = "done"]]
    /\ Trouble
    /\ UNCHANGED <<review, reviewer, posts, says, crossed, hopped>>

\* rollbackSourceVersionId: the version that this one replaces or has replaced.
rollbackSource(r) == IF r \in Replacing THEN "source" ELSE "no source"

\* All diffs have been answered; they replace those of every other load.
ShowDiffs(g) ==
    /\ gets[g].st = "diffs"
    /\ \E failed \in {{}} \cup {{r} : r \in Requested(g)} :
        /\ IF failed = {} THEN UNCHANGED troubles ELSE Trouble
        /\ queued' = [queued EXCEPT !.diffs =
                        [r \in Requested(g) |-> IF r \in failed THEN "error" ELSE rollbackSource(r)]]
    /\ gets' = [gets EXCEPT ![g] = [NoGet EXCEPT !.st = "done"]]
    /\ UNCHANGED <<review, reviewer, posts, says, crossed, hopped>>

-----------------------------------------------------------------------------
\* The handlers up to their await, and what enables their buttons.

\* policyReviewRoleAccess and policyReviewDecisionAccess
policyReviewRoleAccess == reviewer = "ready"

policyReviewDecisionAccess(r) ==
    policyReviewRoleAccess /\ queued.rows["pending"][r] \in {None, "viewer"}

Listed(l) == IF queued.st = "ready" THEN DOMAIN queued.rows[l] ELSE {}

decisionEnabled(r) ==
    /\ r \in Listed("pending")
    /\ says.action.st # "submitting" /\ policyReviewDecisionAccess(r)

assignmentEnabled(r) ==
    /\ r \in Listed("pending")
    /\ says.assignment.st # "submitting" /\ policyReviewRoleAccess

activateEnabled(r) ==
    /\ r \in Listed("approved")
    /\ says.action.st # "submitting" /\ policyReviewRoleAccess

\* The button is locked only while its own row is the one that is being submitted.
rollbackEnabled(r) ==
    /\ r \in Listed("pending") \cup Listed("approved")
    /\ r \in DOMAIN queued.diffs /\ queued.diffs[r] = "source"
    /\ ~(says.rollback.on = r /\ says.rollback.st = "submitting")

Submit(act, r, arg) ==
    /\ \E p \in PostIds :
        /\ \A o \in PostIds : posts[o].st = "none" <=> o >= p
        /\ posts' = [posts EXCEPT ![p] = [ st |-> "sent", act |-> act, on |-> r, arg |-> arg ]]
    /\ says' = [says EXCEPT ![LockOf[act]] = [ on |-> r, st |-> "submitting" ]]
    /\ UNCHANGED <<review, reviewer, queued, gets, crossed, troubles>>

handleDecision ==
    /\ \E r \in Reviews, act \in {"approve", "reject"} :
        decisionEnabled(r) /\ Submit(act, r, None)
    /\ UNCHANGED hopped

\* Without an actor id nothing is sent.
handleAssign ==
    /\ \E r \in Reviews, to \in {None, "viewer", "other"} :
        /\ assignmentEnabled(r)
        /\ IF to = None
           THEN /\ says' = [says EXCEPT !.assignment = [ on |-> r, st |-> "error" ]]
                /\ UNCHANGED <<review, reviewer, queued, posts, gets, crossed, troubles>>
           ELSE Submit("assign", r, to)
    /\ UNCHANGED hopped

handleActivate ==
    /\ \E r \in Reviews, arg \in {"replace", None} :
        activateEnabled(r) /\ Submit("activate", r, arg)
    /\ UNCHANGED hopped

handleCreateRollbackDraft ==
    \E r \in Reviews :
        /\ rollbackEnabled(r) /\ Submit("rollback", r, None)
        /\ hopped' = (hopped \/ (says.rollback.st = "submitting" /\ says.rollback.on # r))

\* The backend handles a POST, which may fail on the way there or back.
ServePost(p) ==
    /\ posts[p].st = "sent"
    /\ LET c == posts[p] IN
       \/ /\ Accepted(c.act, c.on, c.arg)
          /\ Apply(c.act, c.on, c.arg)
          /\ posts' = [posts EXCEPT ![p].st = "ok"]
          /\ UNCHANGED <<crossed, troubles>>
       \/ /\ Accepted(c.act, c.on, c.arg)
          /\ Apply(c.act, c.on, c.arg)
          /\ posts' = [posts EXCEPT ![p].st = "failed"]
          /\ crossed' = TRUE /\ Trouble
       \/ /\ ~Accepted(c.act, c.on, c.arg)
          /\ posts' = [posts EXCEPT ![p].st = "failed"]
          /\ UNCHANGED <<review, crossed, troubles>>
    /\ UNCHANGED <<reviewer, queued, gets, says, hopped>>

Running == { g \in GetIds : gets[g].st \in {"sent", "diffs"} }

\* A handler goes on with success: it says so and loads the requests again.
Succeeds(p) ==
    /\ posts[p].st = "ok"
    /\ says' = [says EXCEPT ![LockOf[posts[p].act]] = [ on |-> posts[p].on, st |-> "success" ]]
    /\ posts' = [posts EXCEPT ![p] = [NoPost EXCEPT !.st = "done"]]
    /\ gets' = [gets EXCEPT ![p] = Asked]
    /\ queued' = [queued EXCEPT !.st = "loading"]
    /\ crossed' = (crossed \/ Running # {})
    /\ UNCHANGED <<review, reviewer, hopped, troubles>>

Fails(p) ==
    /\ posts[p].st = "failed"
    /\ says' = [says EXCEPT ![LockOf[posts[p].act]] = [ on |-> posts[p].on, st |-> "error" ]]
    /\ posts' = [posts EXCEPT ![p] = [NoPost EXCEPT !.st = "done"]]
    /\ UNCHANGED <<review, reviewer, queued, gets, crossed, hopped, troubles>>

-----------------------------------------------------------------------------
\* The mount effect has started a load.
Init ==
    /\ review = [r \in Reviews |-> [ status |-> "pending", assigned |-> None,
                                     active |-> FALSE, drafts |-> 0 ]]
    /\ reviewer = "loading"
    /\ queued = [ st |-> "loading", rows |-> NoRows, diffs |-> [r \in {} |-> None] ]
    /\ posts = [p \in PostIds |-> NoPost]
    /\ gets = [g \in GetIds |-> IF g = 0 THEN Asked ELSE NoGet]
    /\ says = [k \in Locks |-> Idle]
    /\ crossed = FALSE /\ hopped = FALSE /\ troubles = 0

Answers ==
    \/ ShowActor
    \/ \E g \in GetIds : ShowReviews(g) \/ FailReviews(g) \/ ShowDiffs(g)
                           \/ \E l \in Lists : ReadReviews(g, l)
    \/ \E p \in PostIds : ServePost(p) \/ Succeeds(p) \/ Fails(p)

Next == Answers \/ OthersReview \/ handleDecision \/ handleAssign \/ handleActivate
            \/ handleCreateRollbackDraft

Spec == Init /\ [][Next]_vars

-----------------------------------------------------------------------------
\* Properties.

\* Once no load and no POST is under way, the queue lists each open request once, with
\* its status and assignee, unless loads overlapped, an answer was lost or somebody else
\* decided meanwhile: the two queries of one load are no single look at the backend.
OpenReviewsAreListed ==
    /\ queued.st = "ready" /\ ~crossed /\ Running = {}
    /\ \A p \in PostIds : posts[p].st \notin {"sent", "ok"}
    => \A l \in Lists : queued.rows[l] = [r \in Open(l) |-> review[r].assigned]

InFlight(lock) ==
    { p \in PostIds : posts[p].st \in {"sent", "ok", "failed"} /\ LockOf[posts[p].act] = lock }

\* No second decision or activation is sent while one is under way, nor a second
\* assignment; nor a second rollback draft of one request, unless a draft was begun in
\* another row before the first one was answered.
OneAtATime ==
    /\ \A lock \in {"action", "assignment"} : Cardinality(InFlight(lock)) <= 1
    /\ ~hopped => Cardinality(InFlight("rollback")) <= 1

\* The actor, the list, the diffs of its rows and the actions on loading.  A late
\* answer with another load's diffs leaves a row without any, which reads as loading.
Waiting ==
    (IF reviewer = "loading" THEN {"actor"} ELSE {})
    \cup (IF queued.st = "loading" THEN {"list"} ELSE {})
    \cup { r \in Listed("pending") \cup Listed("approved") :
             /\ ~crossed \/ r \in DOMAIN queued.diffs
             /\ r \in DOMAIN queued.diffs => queued.diffs[r] = "loading" }
    \cup { k \in Locks : says[k].st = "submitting" }

=============================================================================

----------------------------- MODULE ReviewInbox -----------------------------
(***************************************************************************)
(* The Review Inbox page (apps/web/app/human-approvals/review-inbox.tsx):  *)
(* one reviewer's browser tab, the requests it has in flight and the       *)
(* backend's answers to them, while colleagues work on the same items.     *)
(*                                                                         *)
(* A handler runs up to its await in one step, and again in one step when  *)
(* the answer arrives; everything else may happen in between.  A GET is    *)
(* answered with what the backend holds when it is served, and its answer  *)
(* is used later.  The tabs and the selection are left out: every listed   *)
(* item lies under some tab, so the reviewer can bring up any of them.     *)
(* Notes, names and diffs are left out: the page only displays them.       *)
(***************************************************************************)
EXTENDS Naturals, Sequences, FiniteSets

CONSTANTS
    Requests,    \* PolicyVersion review requests, all about one policy
    Approvals,   \* runtime HumanApprovals
    Me,          \* the reviewer in front of the page
    Colleagues,  \* the others who review
    Admins,      \* those with the platform_admin role
    Requester,   \* who asked for the review or the approval, by item
    MaxLoads,    \* bounds how often the inbox is loaded
    MaxTroubles, \* bounds the HTTP requests that fail and what colleagues do
    Earlier,     \* stands for the version that is active to begin with
    None

Items == Requests \cup Approvals
Actors == {Me} \cup Colleagues

ASSUME ItemsAssumption == Requests \cap Approvals = {} /\ None \notin Items \cup Actors
ASSUME RequesterAssumption == DOMAIN Requester = Items
ASSUME MaxLoadsAssumption == MaxLoads \in Nat \ {0}

VARIABLES
    item,      \* backend: status and assignee of every item
    live,      \* backend: the request whose version is active, Earlier or None
    activated, \* backend: the requests whose versions were ever activated
    log,       \* backend: what was accepted from this reviewer
    me,        \* actorState
    inbox,     \* inboxState
    loads,     \* the calls of loadInbox that were started
    call,      \* the POST in flight that a handler waits for
    action,    \* actionState
    decided,   \* history: items this page was told it has decided
    troubles   \* history: how many HTTP requests failed and colleagues acted

backend == <<item, live, activated, log>>
page    == <<me, inbox, loads, call, action, decided>>
vars    == <<item, live, activated, log, me, inbox, loads, call, action, decided, troubles>>

Row == [ status : {"pending", "approved", "rejected", "unlisted"},
         assigned : Actors \cup {None} ]

Unlisted == [ status |-> "unlisted", assigned |-> None ]

\* Mutant: the statuses in the opposite order.
StatusesDecidedFirst == <<"rejected", "approved", "pending">>

\* POLICY_REVIEW_INBOX_STATUSES, without "canceled": no endpoint cancels a review
\* request, so that query only ever returns the empty list.
Statuses == <<"pending", "approved", "rejected">>

\* What one call of loadInbox asks for: the approvals, and the review requests
\* of each status, all at once.
Queries == {"approvals"} \cup { Statuses[i] : i \in 1..Len(Statuses) }

LoadIds == 1..MaxLoads

\* An answer is the set of items it lists, with their rows.
Waiting == [ st |-> "sent", rows |-> {} ]
NotStarted == [ st |-> "none", answer |-> [ q \in Queries |-> Waiting ] ]

NoCall == [ act |-> "none", on |-> None, to |-> None, replace |-> FALSE, st |-> "none" ]

-----------------------------------------------------------------------------
\* The backend.

IsReviewed(x) == x \in Requests

\* The handlers' checks: still pending, not one's own request, and a review
\* that is assigned to somebody is decided by them or by an administrator.
MayDecide(a, x) ==
    /\ item[x].status = "pending"
    /\ a \in Admins \/ a # Requester[x]
    /\ a \in Admins \/ item[x].assigned \in {None, a}

MayAssign(x) == IsReviewed(x) /\ item[x].status = "pending"

MayActivate(x, replace) ==
    /\ IsReviewed(x)
    /\ item[x].status = "approved"
    /\ x \notin activated
    /\ live = None \/ replace

Accepted(a, c) ==
    CASE c.act \in {"approve", "reject"} -> MayDecide(a, c.on)
      [] c.act = "assign"                -> MayAssign(c.on)
      [] c.act = "activate"              -> MayActivate(c.on, c.replace)

\* Mutant: the action's name is stored for the status.
OutcomeIsAction(act) == act

Outcome(act) == [ approve |-> "approved", reject |-> "rejected" ][act]

\* The effect of an accepted POST.
Apply(a, c) ==
    /\ log' = IF a = Me THEN log \cup {[ act |-> c.act, on |-> c.on ]} ELSE log
    /\ item' = CASE c.act \in {"approve", "reject"} ->
                        [item EXCEPT ![c.on].status = Outcome(c.act)]
                 [] c.act = "assign" -> [item EXCEPT ![c.on].assigned = c.to]
                 [] OTHER -> item
    /\ IF c.act = "activate" THEN live' = c.on /\ activated' = activated \cup {c.on}
       ELSE UNCHANGED <<live, activated>>

Post(act, x) == [NoCall EXCEPT !.act = act, !.on = x, !.st = "sent"]

Posts(act) ==
    CASE act = "assign"   -> { [Post(act, x) EXCEPT !.to = a] : x \in Requests, a \in Actors }
      [] act = "activate" -> { [Post(act, x) EXCEPT !.replace = b] :
                                 x \in Requests, b \in BOOLEAN }
      [] OTHER            -> { Post(act, x) : x \in Items }

Trouble == troubles < MaxTroubles /\ troubles' = troubles + 1

\* A colleague works on an item in a page of their own.
ColleagueActs(a) ==
    \E act \in {"approve", "reject", "assign", "activate"} : \E c \in Posts(act) :
        /\ Accepted(a, c)
        /\ c.to # item[c.on].assigned \/ act # "assign"
        /\ Apply(a, c)
        /\ Trouble
        /\ UNCHANGED page

-----------------------------------------------------------------------------
\* Access as the page sees it.

\* actorState is "ready" with the reviewer's roles only once GET /me was answered.
policyReviewRoleAccess == me = "ready"

policyReviewDecisionAccess(row) ==
    /\ policyReviewRoleAccess
    /\ Me \in Admins \/ row.assigned \in {None, Me}

\* Mutant: the buttons are disabled for the item that is being submitted only.
IsSubmittingThisItem(x) == action.st = "submitting" /\ action.on = x

IsSubmitting(x) == action.st = "submitting"

Listed(x) == inbox.st = "ready" /\ inbox.rows[x].status # "unlisted"

PolicyDecisionEnabled(x) ==
    /\ x \in Requests /\ Listed(x) /\ inbox.rows[x].status = "pending"
    /\ ~IsSubmitting(x) /\ policyReviewDecisionAccess(inbox.rows[x])

RuntimeDecisionEnabled(x) ==
    /\ x \in Approvals /\ Listed(x) /\ inbox.rows[x].status = "pending"
    /\ ~IsSubmitting(x) /\ policyReviewRoleAccess

AssignmentEnabled(x) ==
    /\ x \in Requests /\ Listed(x) /\ inbox.rows[x].status = "pending"
    /\ ~IsSubmitting(x) /\ policyReviewRoleAccess

ActivateEnabled(x) ==
    /\ x \in Requests /\ Listed(x) /\ inbox.rows[x].status = "approved"
    /\ ~IsSubmitting(x) /\ policyReviewRoleAccess

\* Mutant: the lane depends on the role alone, not on the assignment.
TabByRole(x) ==
    LET status == inbox.rows[x].status IN
    CASE status \notin {"pending", "approved"}           -> "completed"
      [] status = "approved"                             -> "approved"
      [] status = "pending" /\ policyReviewRoleAccess    -> "mine"
      [] status = "pending" /\ ~policyReviewRoleAccess   -> "waiting"

\* The lane an item is put into.
Tab(x) ==
    LET row == inbox.rows[x]
        mine == IF x \in Requests THEN policyReviewDecisionAccess(row)
                                  ELSE policyReviewRoleAccess IN
    CASE row.status \notin {"pending", "approved"} -> "completed"
      [] row.status = "approved"                   -> "approved"
      [] row.status = "pending" /\ mine            -> "mine"
      [] row.status = "pending" /\ ~mine           -> "waiting"

-----------------------------------------------------------------------------
\* Loading.

Newest == Cardinality({ l \in LoadIds : loads[l].st # "none" })

\* loadInbox up to its first await.
StartLoad ==
    /\ Newest < MaxLoads
    /\ loads' = [loads EXCEPT ![Newest + 1] =
                    [ st |-> "reading", answer |-> [ q \in Queries |-> Waiting ] ]]
    /\ inbox' = [inbox EXCEPT !.st = "loading"]

AnswerTo(q) ==
    [ st |-> "ok",
      rows |-> { <<x, item[x]>> : x \in { y \in Items :
                    IF q = "approvals" THEN y \in Approvals
                    ELSE y \in Requests /\ item[y].status = q } } ]

\* The backend answers one of the load's queries.
AnswerQuery(l, q) ==
    /\ loads[l].st = "reading"
    /\ loads[l].answer[q] = Waiting
    /\ loads' = [loads EXCEPT ![l].answer[q] = AnswerTo(q)]
    /\ UNCHANGED <<backend, me, inbox, call, action, decided, troubles>>

\* ... or the query fails, which the page keeps as a warning and no rows.
FailQuery(l, q) ==
    /\ loads[l].st = "reading" /\ loads[l].answer[q] = Waiting
    /\ Trouble
    /\ loads' = [loads EXCEPT ![l].answer[q].st = "failed"]
    /\ UNCHANGED <<backend, me, inbox, call, action, decided>>

Rows(l, q) == loads[l].answer[q].rows

Failed(l) == \E q \in Queries : loads[l].answer[q].st = "failed"

\* dedupePolicyReviews: the answers are put one after the other in the order of
\* Statuses, and the Map keeps the last row of each id.
Deduped(l, x) ==
    LET holding == { i \in 1..Len(Statuses) :
                        \E p \in Rows(l, Statuses[i]) : p[1] = x } IN
    IF holding = {} THEN Unlisted
    ELSE LET last == CHOOSE i \in holding : \A j \in holding : j <= i IN
         (CHOOSE p \in Rows(l, Statuses[last]) : p[1] = x)[2]

Fetched(l) ==
    [ x \in Items |->
        IF x \in Requests THEN Deduped(l, x)
        ELSE IF \E p \in Rows(l, "approvals") : p[1] = x
             THEN (CHOOSE p \in Rows(l, "approvals") : p[1] = x)[2]
             ELSE Unlisted ]

\* Mutant: a query that fails is not caught, so nothing is shown.
ShowLoadWithoutCatch(l) ==
    /\ loads[l].st = "reading"
    /\ \A q \in Queries : loads[l].answer[q] # Waiting
    /\ ~Failed(l)
    /\ inbox' = [ st |-> "ready", of |-> l, rows |-> Fetched(l) ]
    /\ loads' = [loads EXCEPT ![l] = [NotStarted EXCEPT !.st = "done"]]
    /\ UNCHANGED <<backend, me, call, action, decided, troubles>>

\* loadInbox after its first await: an error when there are warnings and
\* nothing at all to show, else the rows (it goes on to fetch the diffs).
ShowLoad(l) ==
    /\ loads[l].st = "reading"
    /\ \A q \in Queries : loads[l].answer[q] # Waiting
    /\ IF Failed(l) /\ \A x \in Items : Fetched(l)[x] = Unlisted
       THEN inbox' = [inbox EXCEPT !.st = "error", !.of = l]
       ELSE inbox' = [ st |-> "ready", of |-> l, rows |-> Fetched(l) ]
    /\ loads' = [loads EXCEPT ![l] = [NotStarted EXCEPT !.st = "done"]]
    /\ UNCHANGED <<backend, me, call, action, decided, troubles>>

\* The answer to GET /me, or its failure.
ShowActor ==
    /\ me = "loading"
    /\ \/ me' = "ready" /\ UNCHANGED troubles
       \/ me' = "error" /\ Trouble
    /\ UNCHANGED <<backend, inbox, loads, call, action, decided>>

\* The Refresh button; it leaves room for the load that a handler will start.
Refresh ==
    /\ call.st = "none" \/ Newest + 1 < MaxLoads
    /\ StartLoad
    /\ me' = "loading"
    /\ UNCHANGED <<backend, call, action, decided, troubles>>

-----------------------------------------------------------------------------
\* The four handlers: what they do before they await the POST.

Submit(c) ==
    /\ Newest < MaxLoads
    /\ call' = c
    /\ action' = [ on |-> c.on, act |-> c.act, st |-> "submitting" ]
    /\ UNCHANGED <<backend, me, inbox, loads, decided, troubles>>

handlePolicyDecision ==
    \E x \in Requests, act \in {"approve", "reject"} :
        PolicyDecisionEnabled(x) /\ Submit(Post(act, x))

handleRuntimeAction ==
    \E x \in Approvals, act \in {"approve", "reject"} :
        RuntimeDecisionEnabled(x) /\ Submit(Post(act, x))

\* Without a reviewer id nothing is sent.
handleAssign ==
    \E c \in Posts("assign") \cup { Post("assign", x) : x \in Requests } :
        /\ AssignmentEnabled(c.on)
        /\ IF c.to = None
           THEN /\ action' = [ on |-> c.on, act |-> "assign", st |-> "error" ]
                /\ UNCHANGED <<backend, me, inbox, loads, call, decided, troubles>>
           ELSE Submit(c)

handleActivate ==
    \E c \in Posts("activate") : ActivateEnabled(c.on) /\ Submit(c)

\* The backend handles the POST; it may fail on the way there or back.
ServePost ==
    /\ call.st = "sent"
    /\ \/ /\ Accepted(Me, call)
          /\ Apply(Me, call)
          /\ \/ call' = [call EXCEPT !.st = "ok"] /\ UNCHANGED troubles
             \/ /\ Trouble
                /\ call' = [call EXCEPT !.st = "failed"]
       \/ /\ ~Accepted(Me, call)
          /\ call' = [call EXCEPT !.st = "failed"]
          /\ UNCHANGED <<backend, troubles>>
       \/ /\ Trouble
          /\ call' = [call EXCEPT !.st = "failed"]
          /\ UNCHANGED backend
    /\ UNCHANGED <<me, inbox, loads, action, decided>>

\* Mutant: the result of the POST is not looked at.
SucceededAlways(c) == c.st # "sent"

\* postApiJson throws unless response.ok.
Succeeded(c) == c.st = "ok"

\* Mutant: the list is loaded again only after an assignment or an activation.
refreshAfterActionNotDecision ==
    IF call.act \in {"approve", "reject"} THEN UNCHANGED <<inbox, loads>> ELSE StartLoad

refreshAfterAction == StartLoad

\* The handlers when the POST has been answered.
HandlerResumes ==
    /\ call.st \in {"ok", "failed"}
    /\ action' = [action EXCEPT !.on = call.on, !.act = call.act,
                                !.st = IF Succeeded(call) THEN "success" ELSE "error"]
    /\ IF Succeeded(call)
       THEN /\ refreshAfterAction
            /\ decided' = IF call.act \in {"approve", "reject"}
                          THEN decided \cup {call.on} ELSE decided
       ELSE UNCHANGED <<inbox, loads, decided>>
    /\ call' = NoCall
    /\ UNCHANGED <<backend, me, troubles>>

-----------------------------------------------------------------------------
\* The effect of the mount has started the first load and asked for the actor,
\* and the backend has answered that load before anybody did anything else.
Init ==
    /\ item = [ x \in Items |-> [ status |-> "pending", assigned |-> None ] ]
    /\ live = Earlier
    /\ activated = {}
    /\ log = {}
    /\ me = "loading"
    /\ inbox = [ st |-> "loading", of |-> 0, rows |-> [ x \in Items |-> Unlisted ] ]
    /\ loads = [ l \in LoadIds |->
                    IF l = 1 THEN [ st |-> "reading", answer |-> [ q \in Queries |-> AnswerTo(q) ] ]
                    ELSE NotStarted ]
    /\ call = NoCall
    /\ action = [ on |-> None, act |-> "none", st |-> "idle" ]
    /\ decided = {}
    /\ troubles = 0

Loading ==
    \E l \in LoadIds : \/ ShowLoad(l)
                       \/ \E q \in Queries : AnswerQuery(l, q) \/ FailQuery(l, q)

Answers == Loading \/ ShowActor \/ ServePost \/ HandlerResumes

Clicks == handlePolicyDecision \/ handleRuntimeAction \/ handleAssign \/ handleActivate \/ Refresh

Next == Answers \/ Clicks \/ \E a \in Colleagues : ColleagueActs(a)

\* Every request is answered or fails, and the browser runs what waits for it.
Fairness ==
    /\ \A l \in LoadIds :
          /\ WF_vars(ShowLoad(l))
          /\ \A q \in Queries : WF_vars(AnswerQuery(l, q))
    /\ WF_vars(ShowActor) /\ WF_vars(ServePost) /\ WF_vars(HandlerResumes)

Spec == Init /\ [][Next]_vars

FairSpec == Spec /\ Fairness

-----------------------------------------------------------------------------
\* Properties.

\* Every variable of the page and of the backend has its type.
TypeOK ==
    /\ item \in [Items -> Row]
    /\ live \in Requests \cup {Earlier, None} /\ activated \subseteq Requests
    /\ log \subseteq [ on : Items, act : {"approve", "reject", "assign", "activate"} ]
    /\ me \in {"loading", "ready", "error"}
    /\ inbox.st \in {"loading", "ready", "error"} /\ inbox.of \in 0..Newest
    /\ inbox.rows \in [Items -> Row]
    /\ \A l \in LoadIds : loads[l].st \in {"none", "reading", "done"}
    /\ call.st \in {"none", "sent", "ok", "failed"} /\ call.on \in Items \cup {None}
    /\ action.st \in {"idle", "submitting", "success", "error"}
    /\ decided \subseteq Items

\* "HumanApproval approved", "Policy review approved", "Reviewer assigned" and
\* "activated" are shown only for what the backend has accepted from this
\* reviewer, however the POST ends and whoever else works on the item.
SuccessIsRecorded ==
    action.st = "success" => [ act |-> action.act, on |-> action.on ] \in log

\* While a decision, assignment or activation is in flight no other one is sent
\* from the page, although Refresh brings the list and its buttons back.
OneCallAtATime ==
    [][ call.st # "none" /\ call'.st # "none" =>
            call'.on = call.on /\ call'.act = call.act ]_vars

\* What the newest load shows never offers for decision what this reviewer was
\* already told to have decided (refreshAfterAction comes after the answer).
OwnDecisionIsShown ==
    inbox.st = "ready" /\ inbox.of = Newest =>
        \A x \in decided : inbox.rows[x].status # "pending"

\* The lane Mine holds exactly what this reviewer can decide as soon as nothing is
\* in flight, also after a reassignment or while GET /me is being asked again.
MineIsWhatICanDecide ==
    \A x \in Items : Listed(x) /\ call.st = "none" =>
        (Tab(x) = "mine" <=> PolicyDecisionEnabled(x) \/ RuntimeDecisionEnabled(x))

\* The queries of a load see as many moments.  Still, a load that had no
\* failure lists every item that is pending when it is shown, and an item that
\* any of its answers saw decided is not shown as pending (the order of the
\* statuses decides which of two rows dedupePolicyReviews keeps).
LoadShowsLatestSeen ==
    [][ \A l \in LoadIds : loads[l].st = "reading" /\ loads'[l].st = "done" /\ inbox'.st = "ready" =>
          \A x \in Items :
            /\ ~Failed(l) /\ item[x].status = "pending" => inbox'.rows[x].status = "pending"
            /\ (\E q \in Queries : \E p \in Rows(l, q) :
                    p[1] = x /\ p[2].status # "pending")
                  => inbox'.rows[x].status # "pending" ]_vars

\* The inbox does not stay on "Loading review inbox", whatever fails.
LoadingEnds == inbox.st = "loading" ~> inbox.st # "loading"

=============================================================================

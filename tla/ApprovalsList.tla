--------------------------- MODULE ApprovalsList ---------------------------
(***************************************************************************)
(* The read-only queue of runtime approvals in apps/web/app/human-approvals*)
(* /human-approvals-list.tsx, which no route mounts any more: a status     *)
(* filter, and the approvals that the backend lists for it.                *)
(***************************************************************************)
EXTENDS Naturals, FiniteSets

CONSTANTS
    Approvals,    \* the approvals
    StatusFilters,\* the filters that are used, "all" among them
    MaxSwitches,  \* bounds how often the filter is changed
    MaxTroubles,  \* bounds failing requests and others' decisions
    None

VARIABLES
    verdict,  \* backend: the status of each approval
    queue,    \* state and statusFilter
    queries,  \* the calls of loadHumanApprovals
    troubles  \* bound

vars == <<verdict, queue, queries, troubles>>

QueryIds == 0..MaxSwitches
NoQuery  == [ st |-> "no", filter |-> "all", rows |-> [a \in {} |-> None] ]

Trouble == troubles < MaxTroubles /\ troubles' = troubles + 1

OthersDecide ==
    /\ \E a \in Approvals, s \in {"approved", "rejected", "cancelled"} :
        verdict[a] = "pending" /\ verdict' = [verdict EXCEPT ![a] = s]
    /\ Trouble
    /\ UNCHANGED <<queue, queries>>

\* The effect on another filter: its cleanup aborts the last load, and a new one starts.
LoadEffect(q, f) ==
    /\ queries' = [p \in QueryIds |->
            IF p = q THEN [NoQuery EXCEPT !.st = "sent", !.filter = f]
            ELSE IF p < q THEN [NoQuery EXCEPT !.st = "done"] ELSE NoQuery]
    /\ queue' = [queue EXCEPT !.st = "loading", !.filter = f]

ChangeStatusFilter ==
    /\ \E f \in StatusFilters \ {queue.filter}, q \in QueryIds :
        /\ \A p \in QueryIds : queries[p].st = "no" <=> p >= q
        /\ LoadEffect(q, f)
    /\ UNCHANGED <<verdict, troubles>>

\* The backend lists the approvals of the status that was asked for.
AnswerQueue(q) ==
    /\ queries[q].st = "sent"
    /\ LET listed == { a \in Approvals : queries[q].filter \in {"all", verdict[a]} } IN
       queries' = [queries EXCEPT ![q].st = "got", ![q].rows = [a \in listed |-> verdict[a]]]
    /\ UNCHANGED <<verdict, queue, troubles>>

ShowQueue(q) ==
    /\ queries[q].st = "got"
    /\ queue' = [queue EXCEPT !.st = "ready", !.rows = queries[q].rows]
    /\ queries' = [queries EXCEPT ![q] = [NoQuery EXCEPT !.st = "done"]]
    /\ UNCHANGED <<verdict, troubles>>

FailQueue(q) ==
    /\ queries[q].st = "sent"
    /\ queue' = [queue EXCEPT !.st = "error"]
    /\ queries' = [queries EXCEPT ![q] = [NoQuery EXCEPT !.st = "done"]]
    /\ Trouble
    /\ UNCHANGED verdict

Init ==
    /\ verdict \in [Approvals -> {"pending", "approved"}]
    /\ queue = [ st |-> "loading", filter |-> "all", rows |-> [a \in {} |-> None] ]
    /\ queries = [q \in QueryIds |-> IF q = 0 THEN [NoQuery EXCEPT !.st = "sent"] ELSE NoQuery]
    /\ troubles = 0

Answers == \E q \in QueryIds : AnswerQueue(q) \/ ShowQueue(q) \/ FailQueue(q)

Next == Answers \/ ChangeStatusFilter \/ OthersDecide

Spec == Init /\ [][Next]_vars

-----------------------------------------------------------------------------
\* Properties.

\* The approvals that are listed belong under the filter, however quickly it is
\* changed, and while nobody decides anything none of them is missing.
QueueIsOfTheFilter ==
    queue.st = "ready" =>
        /\ \A a \in DOMAIN queue.rows : queue.filter \in {"all", queue.rows[a]}
        /\ troubles = 0 =>
            queue.rows = [a \in { b \in Approvals : queue.filter \in {"all", verdict[b]} }
                            |-> verdict[a]]

\* The list on loading.
Waiting == IF queue.st = "loading" THEN {"approvals"} ELSE {}

=============================================================================

--------------------------- MODULE GrantsWorkflow ---------------------------
(***************************************************************************)
(* The table of access grants in apps/web/app/access-data/                 *)
(* access-grants-workflow.tsx, which no route mounts any more.  Unlike     *)
(* Access & Data (AccessInventory) it gives each row its own buttons, note *)
(* and message, and reads the whole list again after every transition.     *)
(* What a row remembers is lost when the row leaves the table.  The filter *)
(* for targets and the search are left out: they filter as the status does.*)
(***************************************************************************)
EXTENDS Naturals, FiniteSets, GrantStatuses

CONSTANTS
    FirstStatus,  \* the grants with their statuses
    Filters,      \* the status filters that are used
    MaxCalls,     \* bounds the transitions that are sent
    MaxTroubles,  \* bounds failing requests and other users' transitions
    None

Grants  == DOMAIN FirstStatus
CallIds == 1..MaxCalls

VARIABLES
    standing, \* backend: access_grants.status
    table,    \* state, refreshState and statusFilter
    said,     \* actionState of every row
    sends,    \* the transitions, each with the refresh that follows it
    blurred,  \* history: something made the list older than the grants
    troubles  \* bound

vars == <<standing, table, said, sends, blurred, troubles>>

NoSend == [ st |-> "none", on |-> None, act |-> "none", mounted |-> FALSE,
            recorded |-> FALSE, read |-> FirstStatus ]

UnderWay(c) == sends[c].st \in {"sent", "ok", "refresh", "got", "failed"}

Trouble == troubles < MaxTroubles /\ troubles' = troubles + 1

-----------------------------------------------------------------------------
\* The backend.

Transition(g, act) ==
    /\ standing[g] \in AllowedFrom[act]
    /\ standing' = [standing EXCEPT ![g] = Target[act]]

OthersAct ==
    /\ \E g \in Grants, act \in Actions : Transition(g, act)
    /\ Trouble
    /\ blurred' = TRUE
    /\ UNCHANGED <<table, said, sends>>

-----------------------------------------------------------------------------
\* The table.

filteredGrants(t) ==
    { g \in Grants : t.st = "ready" /\ (t.filter = "all" \/ t.rows[g] = t.filter) }

\* A render: rows that are no longer there forget what they were doing, and what
\* is still under way no longer finds them.
Render(t, s, c) ==
    /\ table' = t
    /\ said' = [g \in Grants |-> IF g \in filteredGrants(t) THEN s[g] ELSE "idle"]
    /\ sends' = [d \in CallIds |-> [c[d] EXCEPT
                    !.mounted = @ /\ c[d].on \in filteredGrants(t)]]

\* The answer to the load that the mount effect has started.
ShowAccessGrants ==
    /\ table.st = "loading"
    /\ \/ Render([table EXCEPT !.st = "ready", !.rows = standing], said, sends)
          /\ blurred' = FALSE /\ UNCHANGED troubles
       \/ Render([table EXCEPT !.st = "error"], said, sends)
          /\ Trouble /\ UNCHANGED blurred
    /\ UNCHANGED standing

ChangeFilter ==
    /\ table.st = "ready"
    /\ \E f \in Filters \ {table.filter} : Render([table EXCEPT !.filter = f], said, sends)
    /\ UNCHANGED <<standing, blurred, troubles>>

transitionActionsForStatus(s) ==
    CASE s = "active"         -> {"suspend", "revoke", "expire"}
      [] s = "pending_review" -> {"revoke", "expire"}
      [] s = "suspended"      -> {"reactivate", "revoke", "expire"}
      [] OTHER                -> {}

\* handleTransition up to its await, by a button of a row that is not busy.
handleTransition ==
    /\ \E g \in filteredGrants(table), c \in CallIds :
        /\ said[g] # "loading"
        /\ \A d \in CallIds : sends[d].st = "none" <=> d >= c
        /\ \E act \in transitionActionsForStatus(table.rows[g]) :
            sends' = [sends EXCEPT ![c] = [NoSend EXCEPT !.st = "sent", !.on = g,
                                           !.act = act, !.mounted = TRUE]]
        /\ said' = [said EXCEPT ![g] = "loading"]
        /\ blurred' = (blurred \/ \E d \in CallIds : UnderWay(d) /\ sends[d].on = g)
    /\ UNCHANGED <<standing, table, troubles>>

\* The backend handles the POST, or it is lost on the way there or back.
ServeTransition(c) ==
    /\ sends[c].st = "sent"
    /\ \/ /\ Transition(sends[c].on, sends[c].act)
          /\ sends' = [sends EXCEPT ![c].st = "ok", ![c].recorded = TRUE]
          /\ UNCHANGED <<blurred, troubles>>
       \/ /\ Transition(sends[c].on, sends[c].act)
          /\ sends' = [sends EXCEPT ![c].st = "failed"]
          /\ blurred' = TRUE /\ Trouble
       \/ /\ standing[sends[c].on] \notin AllowedFrom[sends[c].act]
          /\ sends' = [sends EXCEPT ![c].st = "failed"]
          /\ UNCHANGED <<standing, blurred, troubles>>
    /\ UNCHANGED <<table, said>>

Refreshing == { d \in CallIds : sends[d].st \in {"refresh", "got"} }

\* refreshAccessGrants up to its await: the row is replaced at once.
refreshAccessGrants(c) ==
    /\ sends[c].st = "ok"
    /\ Render([table EXCEPT !.rows[sends[c].on] = Target[sends[c].act], !.refresh = "loading"],
              said, [sends EXCEPT ![c].st = "refresh"])
    /\ blurred' = (blurred \/ Refreshing # {})
    /\ UNCHANGED <<standing, troubles>>

\* The backend answers GET /access-grants.
ReadGrants(c) ==
    /\ sends[c].st = "refresh"
    /\ sends' = [sends EXCEPT ![c].st = "got", ![c].read = standing]
    /\ UNCHANGED <<standing, table, said, blurred, troubles>>

\* A row that has been in the table all the time keeps how its transition has ended
\* (and shows it while the grant has a status that can still change).
Ended(c, message, t) ==
    LET call == sends[c]
        shown == call.mounted /\ call.on \in filteredGrants(t) IN
    Render(t, IF shown THEN [said EXCEPT ![call.on] = message] ELSE said,
           [sends EXCEPT ![c] = [NoSend EXCEPT !.st = IF shown THEN message ELSE "forgotten",
                                               !.on = call.on, !.recorded = call.recorded]])

\* The rest of refreshAccessGrants, which catches what fails, and of handleTransition.
RefreshEnds(c) ==
    /\ \/ /\ sends[c].st = "got"
          /\ Ended(c, "success", [table EXCEPT !.rows = sends[c].read, !.refresh = "success"])
          /\ UNCHANGED troubles
       \/ /\ sends[c].st = "refresh"
          /\ Ended(c, "success", [table EXCEPT !.refresh = "error"])
          /\ Trouble
    /\ UNCHANGED <<standing, blurred>>

TransitionFails(c) ==
    /\ sends[c].st = "failed"
    /\ Ended(c, "error", table)
    /\ UNCHANGED <<standing, blurred, troubles>>

-----------------------------------------------------------------------------
Init ==
    /\ standing = FirstStatus
    /\ table = [ st |-> "loading", rows |-> FirstStatus, filter |-> "all", refresh |-> "idle" ]
    /\ said = [g \in Grants |-> "idle"]
    /\ sends = [c \in CallIds |-> NoSend]
    /\ blurred = FALSE /\ troubles = 0

Answers ==
    \/ ShowAccessGrants
    \/ \E c \in CallIds : ServeTransition(c) \/ refreshAccessGrants(c) \/ ReadGrants(c)
                            \/ RefreshEnds(c) \/ TransitionFails(c)

Next == Answers \/ ChangeFilter \/ handleTransition \/ OthersAct

Spec == Init /\ [][Next]_vars

-----------------------------------------------------------------------------
\* Properties.

\* A row says that its transition is made exactly when the backend has answered so,
\* also when the refresh that follows fails.
RowsTellTheOutcome ==
    \A c \in CallIds : /\ sends[c].st = "success" => sends[c].recorded
                       /\ sends[c].st = "error" => ~sends[c].recorded

\* Once nothing is under way the table shows the grants as they are, unless two
\* refreshes were under way at once, an answer was lost, somebody else acted, or a row
\* that a filter had hidden and shown again, which forgets what is under way, was acted
\* on a second time: a failed refresh alone leaves no old status behind.
TableCatchesUp ==
    /\ table.st = "ready" /\ ~blurred
    /\ \A c \in CallIds : ~UnderWay(c)
    => table.rows = standing

\* The table on loading, a refresh and the rows that are busy.
Waiting ==
    (IF "loading" \in {table.st, table.refresh} THEN {"table"} ELSE {})
    \cup { g \in Grants : said[g] = "loading" }

=============================================================================

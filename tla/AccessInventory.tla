--------------------------- MODULE AccessInventory ---------------------------
(***************************************************************************)
(* The Access & Data page (apps/web/app/access-data/                       *)
(* access-inventory-matrix.tsx) with the access grants of the backend      *)
(* (access_grants.py), which other users change as well.                   *)
(*                                                                         *)
(* The page loads the grants, keeps one of them selected and sends         *)
(* lifecycle transitions for it.  A handler runs up to its await in one    *)
(* step and again when the answer arrives; the effects that React runs     *)
(* after a render belong to the step that caused the render.  The search   *)
(* box is left out: it filters as the status does.  The other lists of the *)
(* page are the subject of InventoryLists.                                 *)
(***************************************************************************)
EXTENDS Naturals, Sequences, SequencesExt, GrantStatuses

CONSTANTS
    GrantOrder,   \* the grants, in the order in which the backend lists them
    FirstStatus,  \* their statuses to begin with
    Filters,      \* the status filters that are used
    MaxLoads,     \* bounds how often the lists are loaded
    MaxCalls,     \* bounds the transitions that are sent
    MaxTroubles,  \* bounds failing HTTP requests and other users' transitions
    None

Grants == ToSet(GrantOrder)

GrantsAssumption ==
    /\ GrantOrder \in Seq(Grants) /\ None \notin Grants
    /\ FirstStatus \in [Grants -> Statuses]

FiltersAssumption == "all" \in Filters /\ Filters \subseteq Statuses \cup {"all"}

VARIABLES
    status,   \* backend: access_grants.status
    grants,   \* accessGrantsState
    loads,    \* the calls of loadAccessData, up to the answer about the grants
    filter,   \* grantStatusFilter
    selected, \* selectedGrantId
    note,     \* transitionNote: the grant it was typed for
    action,   \* actionState, with the grant it is about
    calls,    \* the POSTs sent by handleTransition
    troubles  \* history: requests that failed and transitions of others

view == <<filter, selected, note, action>>
vars == <<status, grants, loads, filter, selected, note, action, calls, troubles>>

LoadIds == 1..MaxLoads
CallIds == 1..MaxCalls

Idle == [ st |-> "idle", on |-> None ]
NoCall == [ st |-> "none", on |-> None, act |-> "none", note |-> None, seen |-> "none" ]

\* A load of the grants, and the statuses that it has read.
NoLoad == [ st |-> "none", read |-> FirstStatus ]
Asked  == [ st |-> "sent", read |-> FirstStatus ]

Trouble == troubles < MaxTroubles /\ troubles' = troubles + 1

-----------------------------------------------------------------------------
\* The backend.

Transition(g, act) ==
    /\ status[g] \in AllowedFrom[act]
    /\ status' = [status EXCEPT ![g] = Target[act]]

OthersAct(g) ==
    /\ \E act \in Actions : Transition(g, act)
    /\ Trouble
    /\ UNCHANGED <<grants, loads, view, calls>>

-----------------------------------------------------------------------------
\* Selection.

Visible(state, f) ==
    { g \in Grants : state.st = "ready" /\ (f = "all" \/ state.rows[g] = f) }

First(S) == GrantOrder[CHOOSE i \in DOMAIN GrantOrder :
                GrantOrder[i] \in S /\ \A j \in 1..(i - 1) : GrantOrder[j] \notin S]

\* Mutant: a selection is kept as long as the grant exists.
KeepSelectionKnown(state, f, sel) ==
    CASE sel # None                            -> sel
      [] sel = None /\ Visible(state, f) = {} -> None
      [] OTHER                                 -> First(Visible(state, f))

\* The effect on [filteredGrants, selectedGrantId].
KeepSelectionVisible(state, f, sel) ==
    LET visible == Visible(state, f) IN
    CASE visible = {}   -> None
      [] sel \in visible -> sel
      [] OTHER          -> First(visible)

\* Mutant: the effect on [selectedGrantId] leaves the note.
SettleKeepsNote(state, f, sel, n, a) ==
    LET final == KeepSelectionVisible(state, f, sel) IN
    /\ grants' = state /\ filter' = f
    /\ selected' = final
    /\ note' = n
    /\ action' = IF sel # selected \/ final # sel THEN Idle ELSE a

\* A render with the given state, and its effects: a changed selection clears
\* the note and the message.
Settle(state, f, sel, n, a) ==
    LET final == KeepSelectionVisible(state, f, sel)
        changed == sel # selected \/ final # sel IN
    /\ grants' = state /\ filter' = f
    /\ selected' = final
    /\ note' = IF changed THEN None ELSE n
    /\ action' = IF changed THEN Idle ELSE a

SelectGrant ==
    /\ \E g \in Visible(grants, filter) \ {selected} :
            Settle(grants, filter, g, note, action)
    /\ UNCHANGED <<status, loads, calls, troubles>>

ChangeFilter ==
    /\ grants.st = "ready"
    /\ \E f \in Filters \ {filter} : Settle(grants, f, selected, note, action)
    /\ UNCHANGED <<status, loads, calls, troubles>>

TypeNote ==
    /\ selected # None
    /\ note' = selected
    /\ UNCHANGED <<status, grants, loads, filter, selected, action, calls, troubles>>

-----------------------------------------------------------------------------
\* Loading.

Started == { l \in LoadIds : loads[l].st # "none" }

\* loadAccessData, started by the Refresh button.
Refresh ==
    /\ \E l \in LoadIds \ Started : loads' = [loads EXCEPT ![l] = Asked]
    /\ Settle([grants EXCEPT !.st = "loading"], filter, selected, note, action)
    /\ UNCHANGED <<status, calls, troubles>>

\* The backend answers GET /access-grants.
ReadGrants(l) ==
    /\ loads[l].st = "sent"
    /\ loads' = [loads EXCEPT ![l].st = "got", ![l].read = status]
    /\ UNCHANGED <<status, grants, view, calls, troubles>>

ShowGrants(l) ==
    /\ loads[l].st = "got"
    /\ loads' = [loads EXCEPT ![l].st = "done", ![l].read = FirstStatus]
    /\ Settle([ st |-> "ready", rows |-> loads[l].read ], filter, selected, note, action)
    /\ UNCHANGED <<status, calls, troubles>>

FailGrants(l) ==
    /\ loads[l].st = "sent"
    /\ Trouble
    /\ loads' = [loads EXCEPT ![l].st = "done"]
    /\ Settle([grants EXCEPT !.st = "error"], filter, selected, note, action)
    /\ UNCHANGED <<status, calls>>

-----------------------------------------------------------------------------
\* Transitions.

\* Mutant: a grant under review can be suspended as well.
transitionActionsSuspendPending(s) ==
    CASE s \in {"active", "pending_review"} -> {"suspend", "revoke", "expire"}
      [] s = "suspended"                    -> {"reactivate", "revoke", "expire"}
      [] OTHER                              -> {}

transitionActionsForStatus(s) ==
    CASE s = "active"         -> {"suspend", "revoke", "expire"}
      [] s = "pending_review" -> {"revoke", "expire"}
      [] s = "suspended"      -> {"reactivate", "revoke", "expire"}
      [] OTHER                -> {}

\* A click on one of the selected grant's actions.
handleTransition(act) ==
    /\ selected # None
    /\ action.st # "loading"
    /\ act \in transitionActionsForStatus(grants.rows[selected])
    /\ \E c \in CallIds :
        /\ \A d \in CallIds : calls[d].st = "none" <=> d >= c
        /\ calls' = [calls EXCEPT ![c] = [ st |-> "sent", on |-> selected, act |-> act,
                            note |-> note, seen |-> grants.rows[selected] ]]
    /\ action' = [ st |-> "loading", on |-> selected ]
    /\ UNCHANGED <<status, grants, loads, filter, selected, note, troubles>>

\* The backend handles the POST, or it is lost on the way there or back.
ServeCall(c) ==
    /\ calls[c].st = "sent"
    /\ \/ /\ Transition(calls[c].on, calls[c].act)
          /\ \/ calls' = [calls EXCEPT ![c].st = "ok"] /\ UNCHANGED troubles
             \/ calls' = [calls EXCEPT ![c].st = "failed"] /\ Trouble
       \/ /\ status[calls[c].on] \notin AllowedFrom[calls[c].act]
          /\ calls' = [calls EXCEPT ![c].st = "refused"]
          /\ UNCHANGED <<status, troubles>>
       \/ /\ calls' = [calls EXCEPT ![c].st = "failed"]
          /\ Trouble
          /\ UNCHANGED status
    /\ UNCHANGED <<grants, loads, view>>

\* Mutant: the message is set after the effects, in a render of its own.
TransitionSucceedsMessageLast(c) ==
    /\ calls[c].st = "ok"
    /\ LET g == calls[c].on
           state == IF grants.st = "ready"
                    THEN [grants EXCEPT !.rows[g] = Target[calls[c].act]] ELSE grants IN
        /\ grants' = state /\ note' = None /\ filter' = filter
        /\ selected' = KeepSelectionVisible(state, filter, g)
        /\ action' = [ st |-> "success", on |-> g ]
    /\ calls' = [calls EXCEPT ![c] = [NoCall EXCEPT !.st = "done"]]
    /\ UNCHANGED <<status, loads, troubles>>

\* handleTransition after its await: the row is replaced if the list is there,
\* and the grant becomes the selected one again.
TransitionSucceeds(c) ==
    /\ calls[c].st = "ok"
    /\ LET g == calls[c].on
           state == IF grants.st = "ready"
                    THEN [grants EXCEPT !.rows[g] = Target[calls[c].act]] ELSE grants IN
       Settle(state, filter, g, None, [ st |-> "success", on |-> g ])
    /\ calls' = [calls EXCEPT ![c] = [NoCall EXCEPT !.st = "done"]]
    /\ UNCHANGED <<status, loads, troubles>>

\* Mutant: only a refusal is caught, a lost request is not.
TransitionFailsIfRefused(c) ==
    /\ calls[c].st = "refused"
    /\ action' = [ st |-> "error", on |-> calls[c].on ]
    /\ calls' = [calls EXCEPT ![c] = [NoCall EXCEPT !.st = "done"]]
    /\ UNCHANGED <<status, grants, loads, filter, selected, note, troubles>>

TransitionFails(c) ==
    /\ calls[c].st \in {"refused", "failed"}
    /\ action' = [ st |-> "error", on |-> calls[c].on ]
    /\ calls' = [calls EXCEPT ![c] = [NoCall EXCEPT !.st = "done"]]
    /\ UNCHANGED <<status, grants, loads, filter, selected, note, troubles>>

-----------------------------------------------------------------------------
\* The mount effect has started the first load.
Init ==
    /\ status = FirstStatus
    /\ grants = [ st |-> "loading", rows |-> FirstStatus ]
    /\ loads = [ l \in LoadIds |-> IF l = 1 THEN Asked ELSE NoLoad ]
    /\ filter = "all" /\ selected = None /\ note = None /\ action = Idle
    /\ calls = [ c \in CallIds |-> NoCall ]
    /\ troubles = 0

LoadStep(l) == ReadGrants(l) \/ ShowGrants(l)

CallStep(c) == ServeCall(c) \/ TransitionSucceeds(c) \/ TransitionFails(c)

Answers == (\E l \in LoadIds : LoadStep(l)) \/ \E c \in CallIds : CallStep(c)

Next ==
    \/ SelectGrant \/ ChangeFilter \/ TypeNote \/ Refresh
    \/ \E act \in Actions : handleTransition(act)
    \/ Answers
    \/ \E l \in LoadIds : FailGrants(l)
    \/ \E g \in Grants : OthersAct(g)

Spec == Init /\ [][Next]_vars

\* Every request ends with an answer or an error, which the browser handles.
FairSpec == Spec /\ WF_vars(Answers)

-----------------------------------------------------------------------------
\* Properties.

Call == [ st : {"none", "sent", "ok", "refused", "failed", "done"}, on : Grants \cup {None},
          act : Actions \cup {"none"}, note : Grants \cup {None}, seen : Statuses \cup {"none"} ]

TypeOK ==
    /\ status \in [Grants -> Statuses]
    /\ grants \in [ st : {"loading", "ready", "error"}, rows : [Grants -> Statuses] ]
    /\ loads \in [LoadIds -> [ st : {"none", "sent", "got", "done"}, read : [Grants -> Statuses] ]]
    /\ filter \in Filters
    /\ selected \in Grants \cup {None} /\ note \in Grants \cup {None}
    /\ action \in [ st : {"idle", "loading", "success", "error"}, on : Grants \cup {None} ]
    /\ calls \in [CallIds -> Call]

\* A note is only ever sent with a transition of the grant it was written for,
\* whatever changes the selection: a click, a filter, a refresh or a late answer.
NoteGoesWithItsGrant ==
    \A c \in CallIds : calls[c].note \in {None, calls[c].on}

\* "Access Grant ... submitted." stands under the grant it is about: when another
\* grant has been selected meanwhile, or the grant has left the filter, the
\* message is not shown.
SuccessIsAboutSelection == action.st = "success" => action.on = selected

\* What is selected can be seen in the list, so a click never acts on a grant
\* that the filter or a refresh has taken off the page.
SelectionIsVisible ==
    selected = None \/ selected \in Visible(grants, filter)

GrantActionsStayTogether ==
    NoteGoesWithItsGrant /\ SuccessIsAboutSelection /\ SelectionIsVisible

\* A step: the page offers what the backend accepts, so that a transition is only
\* refused when the grant has changed since the row was read.
RefusedOnlyIfStale ==
    \A c \in CallIds : calls[c].st = "sent" /\ calls'[c].st = "refused"
        => status[calls[c].on] # calls[c].seen

\* A transition that was clicked keeps its button spinning until it has ended.
Waiting == IF action.st = "loading" THEN {"transition"} ELSE {}

=============================================================================

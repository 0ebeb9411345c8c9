------------------------ MODULE AccessInventoryProofs ------------------------
(***************************************************************************)
(* Proofs about AccessInventory, for any grants, filters and bounds.       *)
(*                                                                         *)
(* The invariant ties what stands beside a grant - its note, its message   *)
(* and the transitions sent with them - to the selection, and what was     *)
(* sent to the row it was sent from.  Every change of what is selected or  *)
(* listed goes through Settle, so that one lemma about it carries most of  *)
(* the proof.                                                              *)
(***************************************************************************)
EXTENDS AccessInventory, NaturalsInduction, WellFoundedInduction, TLAPS

Rows        == [ st : {"loading", "ready", "error"}, rows : [Grants -> Statuses] ]
ActionState == [ st : {"idle", "loading", "success", "error"}, on : Grants \cup {None} ]

\* A transition that is under way was offered for the row it was sent from.
SentAsOffered ==
    \A c \in CallIds : calls[c].st = "sent" =>
        calls[c].on \in Grants /\ calls[c].act \in transitionActionsForStatus(calls[c].seen)

SucceededOnGrant == \A c \in CallIds : calls[c].st = "ok" => calls[c].on \in Grants
                                                          /\ calls[c].act \in Actions

NoteIsOfSelection == note \in {None, selected}

Inv ==
    /\ TypeOK
    /\ SentAsOffered /\ SucceededOnGrant
    /\ NoteIsOfSelection
    /\ GrantActionsStayTogether

-----------------------------------------------------------------------------
\* Selection.

\* The first listed grant of a set of grants is one of them: filteredGrants[0].
LEMMA FirstIsMember ==
    ASSUME GrantsAssumption, NEW S, S \subseteq Grants, S # {}
    PROVE  First(S) \in S
<1> DEFINE T == { i \in DOMAIN GrantOrder : GrantOrder[i] \in S }
<1>1. T # {}
    BY DEF Grants, ToSet
<1>2. T \subseteq Nat
    BY DEF GrantsAssumption
<1>3. PICK i \in T : \A j \in T : ~ (<<j, i>> \in OpToRel(<, Nat))
    <2> HIDE DEF T
    <2> QED BY <1>1, <1>2, NatLessThanWellFounded, WFMin
<1>4. \A j \in T : ~ (j < i)
    BY <1>2, <1>3 DEF OpToRel
<1>5. GrantOrder[i] \in S /\ \A j \in 1 .. (i - 1) : GrantOrder[j] \notin S
    BY <1>4 DEF GrantsAssumption
<1> QED
    BY <1>5 DEF First

\* The effect selects what is listed, or nothing when nothing is.
LEMMA KeptSelectionIsVisible ==
    ASSUME GrantsAssumption, NEW state, NEW f, NEW sel,
           NEW final, final = KeepSelectionVisible(state, f, sel)
    PROVE  final = None \/ final \in Visible(state, f)
<1> DEFINE visible == Visible(state, f)
<1>1. visible \subseteq Grants
    BY DEF Visible
<1>2. CASE visible = {}
    BY <1>2 DEF KeepSelectionVisible
<1>3. CASE visible # {}
    <2>1. First(visible) \in visible
        <3> HIDE DEF visible
        <3> QED BY <1>1, <1>3, FirstIsMember
    <2> QED BY <1>3, <2>1 DEF KeepSelectionVisible
<1> QED BY <1>2, <1>3

\* A render leaves a selection that is listed, and beside it a note and a message
\* that are about it.
LEMMA SettleKeeps ==
    ASSUME GrantsAssumption,
           NEW state \in Rows, NEW f \in Filters, NEW sel \in Grants \cup {None},
           NEW n, NEW a \in ActionState,
           sel = selected => n \in {None, sel} /\ (a.st = "success" => a.on = sel),
           Settle(state, f, sel, n, a)
    PROVE  /\ grants' \in Rows /\ filter' \in Filters
           /\ selected' \in Grants \cup {None} /\ note' \in Grants \cup {None}
           /\ action' \in ActionState
           /\ NoteIsOfSelection' /\ SuccessIsAboutSelection' /\ SelectionIsVisible'
<1> DEFINE final == KeepSelectionVisible(state, f, sel)
           changed == sel # selected \/ final # sel
<1>1. final = None \/ final \in Visible(state, f)
    BY KeptSelectionIsVisible
<1>2. final \in Grants \cup {None}
    BY <1>1 DEF Visible
<1>3. /\ grants' = state /\ filter' = f /\ selected' = final
      /\ note' = (IF changed THEN None ELSE n) /\ action' = (IF changed THEN Idle ELSE a)
    BY DEF Settle
<1> HIDE DEF final
<1>4. SelectionIsVisible'
    BY <1>1, <1>3 DEF SelectionIsVisible, Visible
<1>5. NoteIsOfSelection' /\ note' \in Grants \cup {None}
    BY <1>2, <1>3 DEF NoteIsOfSelection
<1>6. SuccessIsAboutSelection' /\ action' \in ActionState
    BY <1>3 DEF SuccessIsAboutSelection, Idle, ActionState
<1> QED BY <1>2, <1>3, <1>4, <1>5, <1>6

-----------------------------------------------------------------------------
\* The steps.

\* What Settle and the steps that only change the page leave alone.
LEMMA PageStepKeeps ==
    ASSUME GrantsAssumption, Inv,
           NEW state \in Rows, NEW f \in Filters, NEW sel \in Grants \cup {None},
           Settle(state, f, sel, note, action),
           loads' \in [LoadIds -> [ st : {"none", "sent", "got", "done"},
                                    read : [Grants -> Statuses] ]],
           UNCHANGED <<status, calls>>
    PROVE  Inv'
<1>1. action \in ActionState /\ note \in {None, selected}
      /\ (action.st = "success" => action.on = selected)
    BY DEF Inv, TypeOK, ActionState, NoteIsOfSelection, GrantActionsStayTogether,
           SuccessIsAboutSelection
<1>2. /\ grants' \in Rows /\ filter' \in Filters
      /\ selected' \in Grants \cup {None} /\ note' \in Grants \cup {None}
      /\ action' \in ActionState
      /\ NoteIsOfSelection' /\ SuccessIsAboutSelection' /\ SelectionIsVisible'
    BY <1>1, SettleKeeps
<1>3. TypeOK'
    BY <1>2 DEF Inv, TypeOK, Rows, ActionState
<1>4. SentAsOffered' /\ SucceededOnGrant' /\ NoteGoesWithItsGrant'
    BY DEF Inv, SentAsOffered, SucceededOnGrant, GrantActionsStayTogether, NoteGoesWithItsGrant
<1> QED
    BY <1>2, <1>3, <1>4 DEF Inv, GrantActionsStayTogether

\* A step that leaves the page's own state alone.
LEMMA BackendStepKeeps ==
    ASSUME Inv, TypeOK', SentAsOffered', SucceededOnGrant', NoteGoesWithItsGrant',
           UNCHANGED <<grants, view>>
    PROVE  Inv'
BY DEF Inv, view, NoteIsOfSelection, GrantActionsStayTogether, SuccessIsAboutSelection,
       SelectionIsVisible, Visible

\* What the page offers, the backend accepts from that status.
LEMMA OfferedIsAllowed ==
    ASSUME NEW s, NEW act \in transitionActionsForStatus(s)
    PROVE  act \in Actions /\ s \in AllowedFrom[act]
BY DEF transitionActionsForStatus, Actions, AllowedFrom

LEMMA TargetIsStatus == \A act \in Actions : Target[act] \in Statuses
BY DEF Target, Actions, Statuses

\* The effects of the first render select nothing, because nothing is listed yet.
LEMMA InitEstablishes ==
    ASSUME GrantsAssumption, FiltersAssumption, Init
    PROVE  Inv
<1>1. TypeOK
    BY DEF Init, TypeOK, GrantsAssumption, FiltersAssumption, Asked, NoLoad, Idle, NoCall, Call
<1>2. SentAsOffered /\ SucceededOnGrant /\ NoteGoesWithItsGrant
    BY DEF Init, SentAsOffered, SucceededOnGrant, NoteGoesWithItsGrant, NoCall
<1>3. NoteIsOfSelection /\ SuccessIsAboutSelection /\ SelectionIsVisible
    BY DEF Init, NoteIsOfSelection, SuccessIsAboutSelection, SelectionIsVisible, Idle
<1> QED BY <1>1, <1>2, <1>3 DEF Inv, GrantActionsStayTogether

LEMMA NextPreserves ==
    ASSUME GrantsAssumption, Inv, [Next]_vars
    PROVE  Inv'
<1> USE DEF Inv
<1>1. CASE SelectGrant
    <2>1. PICK g \in Visible(grants, filter) : Settle(grants, filter, g, note, action)
        BY <1>1 DEF SelectGrant
    <2>2. g \in Grants /\ grants \in Rows /\ filter \in Filters
        BY DEF Visible, TypeOK, Rows
    <2> QED BY <1>1, <2>1, <2>2, PageStepKeeps DEF SelectGrant, TypeOK
<1>2. CASE ChangeFilter
    <2>1. PICK f \in Filters : Settle(grants, f, selected, note, action)
        BY <1>2 DEF ChangeFilter
    <2>2. grants \in Rows /\ selected \in Grants \cup {None}
        BY DEF TypeOK, Rows
    <2> QED BY <1>2, <2>1, <2>2, PageStepKeeps DEF ChangeFilter, TypeOK
<1>3. CASE TypeNote
    <2>1. TypeOK'
        BY <1>3 DEF TypeNote, TypeOK
    <2>2. SentAsOffered' /\ SucceededOnGrant' /\ NoteGoesWithItsGrant' /\ NoteIsOfSelection'
        BY <1>3 DEF TypeNote, SentAsOffered, SucceededOnGrant, GrantActionsStayTogether,
                    NoteGoesWithItsGrant, NoteIsOfSelection
    <2>3. SuccessIsAboutSelection' /\ SelectionIsVisible'
        BY <1>3 DEF TypeNote, GrantActionsStayTogether, SuccessIsAboutSelection,
                    SelectionIsVisible, Visible
    <2> QED BY <2>1, <2>2, <2>3 DEF GrantActionsStayTogether
<1>4. CASE Refresh
    <2>1. PICK l \in LoadIds : loads' = [loads EXCEPT ![l] = Asked]
        BY <1>4 DEF Refresh
    <2>2. loads' \in [LoadIds -> [ st : {"none", "sent", "got", "done"},
                                   read : [Grants -> Statuses] ]]
        BY <2>1 DEF TypeOK, Asked, GrantsAssumption
    <2>3. [grants EXCEPT !.st = "loading"] \in Rows /\ filter \in Filters
          /\ selected \in Grants \cup {None}
        BY DEF TypeOK, Rows
    <2> QED BY <1>4, <2>2, <2>3, PageStepKeeps DEF Refresh
<1>5. ASSUME NEW act \in Actions, handleTransition(act)
      PROVE  Inv'
    <2>1. PICK c \in CallIds :
            calls' = [calls EXCEPT ![c] = [ st |-> "sent", on |-> selected, act |-> act,
                                note |-> note, seen |-> grants.rows[selected] ]]
        BY <1>5 DEF handleTransition
    <2>2. selected \in Grants /\ grants.rows[selected] \in Statuses
          /\ act \in transitionActionsForStatus(grants.rows[selected])
        BY <1>5 DEF handleTransition, TypeOK
    <2>3. TypeOK'
        BY <1>5, <2>1, <2>2 DEF handleTransition, TypeOK, Call
    <2>4. SentAsOffered' /\ SucceededOnGrant'
        BY <2>1, <2>2 DEF SentAsOffered, SucceededOnGrant, TypeOK
    <2>5. NoteGoesWithItsGrant'
        BY <2>1 DEF GrantActionsStayTogether, NoteGoesWithItsGrant, NoteIsOfSelection, TypeOK
    <2>6. NoteIsOfSelection' /\ SuccessIsAboutSelection' /\ SelectionIsVisible'
        BY <1>5 DEF handleTransition, GrantActionsStayTogether, NoteIsOfSelection,
                    SuccessIsAboutSelection, SelectionIsVisible, Visible
    <2> QED BY <2>3, <2>4, <2>5, <2>6 DEF GrantActionsStayTogether
<1>6. ASSUME NEW l \in LoadIds, ReadGrants(l)
      PROVE  Inv'
    <2>1. TypeOK'
        BY <1>6 DEF ReadGrants, TypeOK, view
    <2>2. SentAsOffered' /\ SucceededOnGrant' /\ NoteGoesWithItsGrant'
        BY <1>6 DEF ReadGrants, SentAsOffered, SucceededOnGrant, GrantActionsStayTogether,
                    NoteGoesWithItsGrant
    <2> QED BY <1>6, <2>1, <2>2, BackendStepKeeps DEF ReadGrants
<1>7. ASSUME NEW l \in LoadIds, ShowGrants(l)
      PROVE  Inv'
    <2>1. loads' \in [LoadIds -> [ st : {"none", "sent", "got", "done"},
                                   read : [Grants -> Statuses] ]]
        BY <1>7, ZenonT(60) DEF ShowGrants, TypeOK, GrantsAssumption
    <2>2. [ st |-> "ready", rows |-> loads[l].read ] \in Rows /\ filter \in Filters
          /\ selected \in Grants \cup {None}
        BY DEF TypeOK, Rows
    <2> QED BY <1>7, <2>1, <2>2, PageStepKeeps DEF ShowGrants
<1>8. ASSUME NEW l \in LoadIds, FailGrants(l)
      PROVE  Inv'
    <2>1. loads' \in [LoadIds -> [ st : {"none", "sent", "got", "done"},
                                   read : [Grants -> Statuses] ]]
        BY <1>8 DEF FailGrants, TypeOK
    <2>2. [grants EXCEPT !.st = "error"] \in Rows /\ filter \in Filters
          /\ selected \in Grants \cup {None}
        BY DEF TypeOK, Rows
    <2> QED BY <1>8, <2>1, <2>2, PageStepKeeps DEF FailGrants
<1>9. ASSUME NEW g \in Grants, OthersAct(g)
      PROVE  Inv'
    <2>1. PICK act \in Actions : Transition(g, act)
        BY <1>9 DEF OthersAct
    <2>2. TypeOK'
        BY <1>9, <2>1, TargetIsStatus DEF OthersAct, Transition, TypeOK, view
    <2>3. SentAsOffered' /\ SucceededOnGrant' /\ NoteGoesWithItsGrant'
        BY <1>9 DEF OthersAct, SentAsOffered, SucceededOnGrant, GrantActionsStayTogether,
                    NoteGoesWithItsGrant
    <2> QED BY <1>9, <2>2, <2>3, BackendStepKeeps DEF OthersAct
<1>10. ASSUME NEW c \in CallIds, ServeCall(c)
       PROVE  Inv'
    <2>1. PICK answer \in {"ok", "failed", "refused"} :
            calls' = [calls EXCEPT ![c].st = answer]
        BY <1>10 DEF ServeCall
    <2>2. calls[c].on \in Grants /\ calls[c].act \in Actions
        BY <1>10, OfferedIsAllowed DEF ServeCall, SentAsOffered
    <2>3. status' \in [Grants -> Statuses]
        BY <1>10, <2>2, TargetIsStatus DEF ServeCall, Transition, TypeOK
    <2>4. calls' \in [CallIds -> Call]
        BY <2>1 DEF TypeOK, Call
    <2>5. TypeOK'
        BY <1>10, <2>3, <2>4 DEF ServeCall, TypeOK, view
    <2>6. SentAsOffered' /\ SucceededOnGrant' /\ NoteGoesWithItsGrant'
        BY <2>1, <2>2 DEF SentAsOffered, SucceededOnGrant, GrantActionsStayTogether,
                          NoteGoesWithItsGrant, TypeOK, Call
    <2> QED BY <1>10, <2>5, <2>6, BackendStepKeeps DEF ServeCall
<1>11. ASSUME NEW c \in CallIds, TransitionSucceeds(c)
       PROVE  Inv'
    <2> DEFINE g     == calls[c].on
               state == IF grants.st = "ready"
                        THEN [grants EXCEPT !.rows[g] = Target[calls[c].act]] ELSE grants
               done  == [ st |-> "success", on |-> g ]
    <2>1. g \in Grants /\ calls[c].act \in Actions
        BY <1>11 DEF TransitionSucceeds, SucceededOnGrant
    <2>2. state \in Rows /\ filter \in Filters /\ done \in ActionState
        BY <2>1, TargetIsStatus DEF TypeOK, Rows, ActionState
    <2>3. Settle(state, filter, g, None, done)
        BY <1>11 DEF TransitionSucceeds
    <2>4. /\ grants' \in Rows /\ filter' \in Filters
          /\ selected' \in Grants \cup {None} /\ note' \in Grants \cup {None}
          /\ action' \in ActionState
          /\ NoteIsOfSelection' /\ SuccessIsAboutSelection' /\ SelectionIsVisible'
        <3> HIDE DEF state, g
        <3> QED BY <2>1, <2>2, <2>3, SettleKeeps
    <2>5. calls' = [calls EXCEPT ![c] = [NoCall EXCEPT !.st = "done"]]
          /\ UNCHANGED <<status, loads>>
        BY <1>11 DEF TransitionSucceeds
    <2>6. TypeOK'
        BY <2>4, <2>5 DEF TypeOK, Rows, ActionState, NoCall, Call
    <2>7. SentAsOffered' /\ SucceededOnGrant' /\ NoteGoesWithItsGrant'
        BY <2>5 DEF SentAsOffered, SucceededOnGrant, GrantActionsStayTogether,
                    NoteGoesWithItsGrant, NoCall, TypeOK
    <2> QED BY <2>4, <2>6, <2>7 DEF GrantActionsStayTogether
<1>12. ASSUME NEW c \in CallIds, TransitionFails(c)
       PROVE  Inv'
    <2>1. TypeOK'
        BY <1>12 DEF TransitionFails, TypeOK, NoCall, Call
    <2>2. SentAsOffered' /\ SucceededOnGrant' /\ NoteGoesWithItsGrant'
        BY <1>12 DEF TransitionFails, SentAsOffered, SucceededOnGrant,
                     GrantActionsStayTogether, NoteGoesWithItsGrant, NoCall, TypeOK
    <2>3. NoteIsOfSelection' /\ SuccessIsAboutSelection' /\ SelectionIsVisible'
        BY <1>12 DEF TransitionFails, GrantActionsStayTogether, NoteIsOfSelection,
                     SuccessIsAboutSelection, SelectionIsVisible, Visible
    <2> QED BY <2>1, <2>2, <2>3 DEF GrantActionsStayTogether
<1>13. CASE UNCHANGED vars
    BY <1>13 DEF vars, TypeOK, SentAsOffered, SucceededOnGrant, NoteIsOfSelection,
                 GrantActionsStayTogether, NoteGoesWithItsGrant, SuccessIsAboutSelection,
                 SelectionIsVisible, Visible
<1> QED
    BY <1>1, <1>2, <1>3, <1>4, <1>5, <1>6, <1>7, <1>8, <1>9, <1>10, <1>11, <1>12, <1>13
    DEF Next, Answers, LoadStep, CallStep

-----------------------------------------------------------------------------
\* Results.

\* Inv is an invariant of the page, whatever grants, filters and bounds there are.
LEMMA InvHolds ==
    ASSUME GrantsAssumption, FiltersAssumption
    PROVE  Spec => []Inv
<1>1. Init => Inv
    BY InitEstablishes
<1>2. Inv /\ [Next]_vars => Inv'
    BY NextPreserves
<1> QED BY <1>1, <1>2, PTL DEF Spec

\* A note and a message belong to the grant that they stand under, and what a click
\* acts on is on the page, for any number of grants, loads and transitions.
THEOREM GrantPageIsCoherent ==
    ASSUME GrantsAssumption, FiltersAssumption
    PROVE  Spec => []GrantActionsStayTogether
<1>1. Inv => GrantActionsStayTogether
    BY DEF Inv
<1> QED BY <1>1, InvHolds, PTL

\* The backend refuses an offered transition only when the grant has changed since
\* its row was read: the tables of page and backend agree for every status.
THEOREM OfferedTransitionsAreAccepted ==
    ASSUME GrantsAssumption, FiltersAssumption
    PROVE  Spec => [][RefusedOnlyIfStale]_vars
<1>1. ASSUME Inv, Next
      PROVE  RefusedOnlyIfStale
    <2> SUFFICES ASSUME NEW c \in CallIds, calls[c].st = "sent", calls'[c].st = "refused"
                 PROVE  status[calls[c].on] # calls[c].seen
        BY DEF RefusedOnlyIfStale
    <2>1. calls[c].seen \in AllowedFrom[calls[c].act]
        BY <1>1, OfferedIsAllowed DEF Inv, SentAsOffered
    <2>2. status[calls[c].on] \notin AllowedFrom[calls[c].act]
        <3> USE <1>1 DEF Inv, TypeOK, Call
        <3>1. ASSUME NEW act \in Actions
              PROVE  ~ handleTransition(act)
            BY DEF handleTransition
        <3>2. ASSUME NEW d \in CallIds, ServeCall(d)
              PROVE  status[calls[c].on] \notin AllowedFrom[calls[c].act]
            BY <3>2 DEF ServeCall
        <3>3. ASSUME NEW d \in CallIds, TransitionSucceeds(d) \/ TransitionFails(d)
              PROVE  FALSE
            BY <3>3 DEF TransitionSucceeds, TransitionFails, NoCall
        <3>4. calls' # calls
            OBVIOUS
        <3> QED
            BY <3>1, <3>2, <3>3, <3>4
            DEF Next, Answers, LoadStep, CallStep, SelectGrant, ChangeFilter, TypeNote, Refresh,
                ReadGrants, ShowGrants, FailGrants, OthersAct
    <2> QED BY <2>1, <2>2
<1> QED BY <1>1, InvHolds, PTL DEF Spec
=============================================================================

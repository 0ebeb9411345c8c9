---------------------------- MODULE ConsoleProofs ----------------------------
(***************************************************************************)
(* What AccessInventoryProofs proves of the Access & Data page holds of it *)
(* as a part of Console, for any constants: while the page is mounted each *)
(* step of Console is one of the page's own specification, and while it is *)
(* not there is nothing to show.  The two modules name the same formulas   *)
(* through two instances, which the first lemmas relate.                   *)
(*                                                                         *)
(* The other parts have their invariants here, one section each: the agent *)
(* form, the lists, the records, the grant table, the source panel, the    *)
(* two older queues and the policy editor.                                 *)
(***************************************************************************)
EXTENDS Console, FiniteSetTheorems, WellFoundedInduction, TLAPS

Proofs == INSTANCE AccessInventoryProofs

LEMMA SameInit == Access!Init <=> Proofs!Init
BY DEF Access!Init, Proofs!Init, Access!LoadIds, Proofs!LoadIds, Access!CallIds, Proofs!CallIds,
       Access!Asked, Proofs!Asked, Access!NoLoad, Proofs!NoLoad, Access!NoCall, Proofs!NoCall,
       Access!Idle, Proofs!Idle

LEMMA SameNext == Access!Next <=> Proofs!Next
BY Zenon
DEF Access!Grants, Access!ToSet, Access!Actions, Access!Idle, Access!NoCall, Access!LoadIds,
    Access!CallIds, Access!view, Access!Asked, Access!NoLoad, Access!Trouble, Access!Target,
    Access!AllowedFrom, Access!Transition, Access!OthersAct, Access!Visible, Access!First,
    Access!KeepSelectionVisible, Access!Settle, Access!SelectGrant, Access!ChangeFilter,
    Access!TypeNote, Access!Started, Access!Refresh, Access!ReadGrants, Access!ShowGrants,
    Access!FailGrants, Access!transitionActionsForStatus, Access!handleTransition,
    Access!ServeCall, Access!TransitionSucceeds, Access!TransitionFails, Access!LoadStep,
    Access!CallStep, Access!Answers, Access!Next,
    Proofs!Grants, Proofs!ToSet, Proofs!Actions, Proofs!Idle, Proofs!NoCall, Proofs!LoadIds,
    Proofs!CallIds, Proofs!view, Proofs!Asked, Proofs!NoLoad, Proofs!Trouble, Proofs!Target,
    Proofs!AllowedFrom, Proofs!Transition, Proofs!OthersAct, Proofs!Visible, Proofs!First,
    Proofs!KeepSelectionVisible, Proofs!Settle, Proofs!SelectGrant, Proofs!ChangeFilter,
    Proofs!TypeNote, Proofs!Started, Proofs!Refresh, Proofs!ReadGrants, Proofs!ShowGrants,
    Proofs!FailGrants, Proofs!transitionActionsForStatus, Proofs!handleTransition,
    Proofs!ServeCall, Proofs!TransitionSucceeds, Proofs!TransitionFails, Proofs!LoadStep,
    Proofs!CallStep, Proofs!Answers, Proofs!Next

LEMMA SameAssumptions == Proofs!GrantsAssumption /\ Proofs!FiltersAssumption
BY PartsAssumption
DEF Access!GrantsAssumption, Proofs!GrantsAssumption, Access!FiltersAssumption,
    Proofs!FiltersAssumption, Access!Grants, Proofs!Grants, Access!ToSet, Proofs!ToSet,
    Access!Statuses, Proofs!Statuses

\* The page that is mounted stays mounted, and when it is Access & Data each step is
\* one of that page or leaves it as it is.
LEMMA StepOfPage ==
    ASSUME [Next]_vars
    PROVE  /\ mounted' = mounted
           /\ mounted = "access" => [Proofs!Next]_(Proofs!vars)
<1>1. CASE OnlyAccess /\ Access!Next
    BY <1>1, SameNext DEF OnlyAccess
<1>2. CASE OnlyEditor /\ EditorNext
    BY <1>2 DEF OnlyEditor
<1>3. CASE OnlyLists \/ OnlyForm \/ OnlyFolders \/ OnlyRecords
    BY <1>3 DEF OnlyLists, OnlyForm, OnlyFolders, OnlyRecords
<1>4. CASE OnlyGrantTable \/ OnlySourceReview \/ OnlyQueue \/ OnlyReviewQueue
    BY <1>4 DEF OnlyGrantTable, OnlySourceReview, OnlyQueue, OnlyReviewQueue
<1>5. CASE UNCHANGED vars
    BY <1>5 DEF vars, pageVars, accessVars, Proofs!vars
<1> QED
    BY <1>1, <1>2, <1>3, <1>4, <1>5 DEF Next

\* In Console, too, a note and a message stand under the grant they belong to and what
\* a click acts on is on the page, for any grants, filters and number of transitions.
THEOREM GrantActionsInConsole == Spec => []GrantActionsStayTogether
<1>1. Init /\ mounted = "access" => Proofs!Init
    BY SameInit DEF Init
<1>2. (mounted = "access") /\ [Next]_vars => (mounted = "access")' /\ [Proofs!Next]_(Proofs!vars)
    BY StepOfPage
<1>3. ~(mounted = "access") /\ [Next]_vars => ~(mounted = "access")'
    BY StepOfPage
<1>4. Proofs!Init /\ [][Proofs!Next]_(Proofs!vars) => []Proofs!GrantActionsStayTogether
    BY Proofs!GrantPageIsCoherent, SameAssumptions DEF Proofs!Spec
<1>5. Proofs!GrantActionsStayTogether => GrantActionsStayTogether
    BY DEF Proofs!GrantActionsStayTogether, GrantActionsStayTogether,
           Access!GrantActionsStayTogether, Access!NoteGoesWithItsGrant,
           Proofs!NoteGoesWithItsGrant, Access!SuccessIsAboutSelection,
           Proofs!SuccessIsAboutSelection, Access!SelectionIsVisible,
           Proofs!SelectionIsVisible, Access!CallIds, Proofs!CallIds, Access!Visible, Proofs!Visible, Access!Grants,
           Proofs!Grants, Access!ToSet, Proofs!ToSet
<1>6. ~(mounted = "access") => GrantActionsStayTogether
    BY DEF GrantActionsStayTogether
<1> QED
    BY <1>1, <1>2, <1>3, <1>4, <1>5, <1>6, PTL DEF Spec

\* In Console, too, the backend refuses an offered transition only when the grant has
\* changed since its row was read.
THEOREM TransitionsInConsole == Spec => RefusedOnlyIfStale
<1>1. Init /\ mounted = "access" => Proofs!Init
    BY SameInit DEF Init
<1>2. (mounted = "access") /\ [Next]_vars => (mounted = "access")' /\ [Proofs!Next]_(Proofs!vars)
    BY StepOfPage
<1>3. ~(mounted = "access") /\ [Next]_vars => ~(mounted = "access")'
    BY StepOfPage
<1>4. Proofs!Init /\ [][Proofs!Next]_(Proofs!vars) => [][Proofs!RefusedOnlyIfStale]_(Proofs!vars)
    BY Proofs!OfferedTransitionsAreAccepted, SameAssumptions DEF Proofs!Spec
<1>5. (mounted = "access") /\ [Next]_vars /\ [Proofs!RefusedOnlyIfStale]_(Proofs!vars)
        => [mounted = "access" => Access!RefusedOnlyIfStale]_vars
    BY DEF Proofs!vars, Proofs!RefusedOnlyIfStale, Access!RefusedOnlyIfStale,
           Access!CallIds, Proofs!CallIds
<1>6. ~(mounted = "access") => [mounted = "access" => Access!RefusedOnlyIfStale]_vars
    OBVIOUS
<1> QED
    BY <1>1, <1>2, <1>3, <1>4, <1>5, <1>6, PTL DEF Spec, RefusedOnlyIfStale

-----------------------------------------------------------------------------
\* The agent form.

Rows == [ name : {"", "old", "bot"}, status : Form!Statuses \cup {""} ]

Forms ==
    [ mode : {"create", "edit"}, profile : {"loading", "ready", "error"},
      values : Rows, initial : Rows, confirmed : Form!Statuses \cup {None},
      refused : SUBSET {"name", "status"},
      inventory : [Targets -> {"loading", "ready", "error"}],
      existing : SUBSET Targets,
      proposals : [Targets -> {"none", "unnamed", "named"}],
      step : Nat, furthest : Nat,
      submission : {"idle", "submitting", "error", "partial"},
      failed : SUBSET Targets, created : BOOLEAN, left : {"no", "user", "saved"} ]

FormTypeOK ==
    /\ ui \in Forms
    /\ sub \in [ st : {"none", "agent", "grants"}, values : Rows,
                 confirmed : Form!Statuses \cup {None}, props : SUBSET Targets,
                 todo : SUBSET Targets, failed : SUBSET Targets ]
    /\ agent \in Rows /\ agents \in Nat
    /\ granted \in [Targets -> Nat] /\ lost \in [Targets \cup {"agent"} -> Nat]

\* Before the profile is there nothing is selected or submitted; only a registration
\* has no values that it started from.
FormStarts ==
    /\ ui.profile # "ready" => /\ ui.mode = "edit" /\ sub.st = "none" /\ ui.existing = {}
                               /\ \A t \in Targets : ui.proposals[t] = "none"
    /\ ui.created => ui.mode = "create"
    /\ ~Form!Known(ui) => ui.initial.status = ""

\* A created agent is remembered, unless the answer was lost.
AgentRemembered == agents <= lost["agent"] + (IF ui.created THEN 1 ELSE 0)

\* What is proposed, still to be declared, or has failed is not known to have a grant;
\* what has a grant is known to, unless the answer was lost.
GrantsRemembered ==
    /\ sub.st # "none" => /\ Form!Submitting(ui)
                          /\ (sub.todo \cup sub.failed) \cap ui.existing = {}
    /\ sub.st # "grants" => \A t \in ui.existing : ui.proposals[t] = "none"
    /\ \A t \in Targets : /\ granted[t] <= lost[t] + 1
                          /\ ui.profile = "ready" /\ granted[t] > lost[t] => t \in ui.existing

\* A confirmation is one of the status in the form, and the submission has the
\* confirmation of the status it sends.
ConfirmationFits ==
    /\ \/ ui.confirmed \in {None, ui.values.status}
       \/ ui.values.status = ui.initial.status
    /\ sub.st = "agent" /\ sub.values.status \in Form!Sensitive
       /\ sub.values.status # (IF Form!Known(ui) THEN ui.initial.status ELSE "")
       => sub.confirmed = sub.values.status

\* Each declaration of a submission is still to be made, made, or has failed.
NothingForgotten ==
    /\ sub.st = "agent" => sub.todo = sub.props /\ sub.failed = {}
    /\ sub.st = "grants" =>
        /\ sub.todo \cap sub.failed = {}
        /\ \A t \in sub.props : t \in sub.todo \/ t \in sub.failed \/ granted[t] > 0

FormInv == /\ FormTypeOK /\ FormStarts /\ AgentRemembered /\ GrantsRemembered
           /\ ConfirmationFits /\ NothingForgotten

\* The older queue of policy reviews: a POST that is under way is the one its lock is
\* set for; rollback drafts have one lock for all rows.
PostsOK ==
    /\ posts \in [ReviewQueue!PostIds ->
            [ st : {"none", "sent", "ok", "failed", "done"},
              act : {"none", "approve", "reject", "activate", "assign", "rollback"},
              on : Reviews \cup {None}, arg : {"viewer", "other", "replace", None} ]]
    /\ says \in [ReviewQueue!Locks -> [ on : Reviews \cup {None},
                    st : {"idle", "submitting", "success", "error"} ]]
    /\ hopped \in BOOLEAN

LocksOK ==
    /\ \A lock \in {"action", "assignment"} : \A p \in ReviewQueue!InFlight(lock) :
        says[lock].st = "submitting" /\ ReviewQueue!InFlight(lock) = {p}
    /\ ~hopped => \A p \in ReviewQueue!InFlight("rollback") :
        /\ says.rollback.st = "submitting" /\ says.rollback.on = posts[p].on
        /\ ReviewQueue!InFlight("rollback") = {p}

PartInv ==
    /\ mounted = "form" => FormInv
    /\ mounted = "reviews" => PostsOK /\ LocksOK

LEMMA FormStart == Form!Init => FormInv
<1> SUFFICES ASSUME Form!Init PROVE FormInv
    OBVIOUS
<1>1. PICK m \in {"create", "edit"} :
        /\ ui = [ mode |-> m, profile |-> IF m = "edit" THEN "loading" ELSE "ready",
                  values |-> Form!EMPTY_AGENT_FORM, initial |-> Form!EMPTY_AGENT_FORM,
                  confirmed |-> None, refused |-> {},
                  inventory |-> Form!Loading, existing |-> {},
                  proposals |-> [t \in Targets |-> "none"],
                  step |-> 1, furthest |-> 1,
                  submission |-> "idle", failed |-> {}, created |-> FALSE, left |-> "no" ]
        /\ agent = IF m = "edit" THEN Form!Stored ELSE Form!EMPTY_AGENT_FORM
        /\ granted = [t \in Targets |-> IF m = "edit" /\ t \in Declared THEN 1 ELSE 0]
    BY Zenon DEF Form!Init, Form!IdentityStep
<1>2. /\ sub = Form!NoSubmission /\ agents = 0
      /\ lost = [t \in Targets \cup {"agent"} |-> 0]
    BY DEF Form!Init
<1>3. /\ Form!EMPTY_AGENT_FORM \in Rows /\ Form!Stored \in Rows
      /\ Form!EMPTY_AGENT_FORM.status = ""
    BY DEF Form!EMPTY_AGENT_FORM, Form!Stored, Rows, Form!Statuses
<1>4. Form!Loading \in [Targets -> {"loading", "ready", "error"}]
    BY DEF Form!Loading
<1>5. FormTypeOK
    BY <1>1, <1>2, <1>3, <1>4 DEF FormTypeOK, Forms, Form!NoSubmission
<1>6. AgentRemembered
    BY <1>1, <1>2 DEF AgentRemembered
<1>7. FormStarts
    BY <1>1, <1>2, <1>3 DEF FormStarts, Form!NoSubmission, Form!Known
<1>8. ConfirmationFits /\ NothingForgotten /\ GrantsRemembered
    <2>1. sub.st = "none" /\ ui.confirmed = None /\ ui.existing = {}
        BY <1>1, <1>2 DEF Form!NoSubmission
    <2>2. \A t \in Targets : granted[t] \in {0, 1} /\ lost[t] = 0
                              /\ (ui.profile = "ready" => granted[t] = 0)
        BY <1>1, <1>2
    <2> QED
        BY <2>1, <2>2 DEF ConfirmationFits, NothingForgotten, GrantsRemembered
<1> QED
    BY <1>5, <1>6, <1>7, <1>8 DEF FormInv

\* The form u differs from ui in nothing but what the user may change.
Edited(u) ==
    /\ u \in Forms
    /\ u.mode = ui.mode /\ (u.profile = "ready" <=> ui.profile = "ready")
    /\ u.created = ui.created
    /\ u.initial = ui.initial /\ u.existing = ui.existing
    /\ Form!Submitting(ui) => Form!Submitting(u)
    /\ \A t \in Targets : u.proposals[t] # ui.proposals[t] =>
            /\ ui.profile = "ready"
            /\ t \in ui.existing /\ sub.st # "grants" => u.proposals[t] = "none"
    /\ u.confirmed \in {None, u.values.status} \/ u.values.status = u.initial.status

LEMMA EditingKeepsInv ==
    ASSUME FormInv, Edited(ui'), UNCHANGED <<sub, agent, agents, granted, lost>>
    PROVE  FormInv'
<1> USE DEF FormInv, Edited
<1>1. FormTypeOK'
    BY DEF FormTypeOK
<1>2. FormStarts'
    BY DEF FormStarts, Form!Known, FormTypeOK
<1>3. AgentRemembered'
    BY DEF AgentRemembered
<1>4. GrantsRemembered'
    BY DEF GrantsRemembered, FormTypeOK, Forms, Form!Submitting
<1>5. ConfirmationFits' /\ NothingForgotten'
    BY DEF ConfirmationFits, NothingForgotten, Form!Known
<1> QED
    BY <1>1, <1>2, <1>3, <1>4, <1>5

\* Everything before a submission but the answer with the profile.
LEMMA FormEdits ==
    ASSUME FormInv,
           \/ Form!LoadInventory \/ Form!RetryInventory \/ Form!RetryProfile
           \/ Form!ChangeName \/ Form!ChangeStatus \/ Form!Confirm
           \/ \E t \in Targets : Form!handleToggleTarget(t) \/ Form!handleUpdateProposal(t)
           \/ Form!handleContinue \/ Form!SelectStep \/ Form!handleReset \/ Form!Leave
           \/ Form!SubmitIncomplete \/ Form!SubmitNothing
    PROVE  FormInv' /\ UNCHANGED <<sub, agent, agents, granted, lost>>
<1> USE DEF Form!Click, Form!Here, Form!IdentityStep, Form!RiskStep,
            Form!AccessStep, Form!ReviewStep
<1>1. UNCHANGED <<sub, agent, agents, granted, lost>>
    BY DEF Form!LoadInventory, Form!RetryInventory, Form!RetryProfile,
           Form!ChangeName, Form!ChangeStatus, Form!Confirm, Form!handleToggleTarget,
           Form!handleUpdateProposal, Form!handleContinue, Form!SelectStep, Form!handleReset,
           Form!Leave, Form!SubmitIncomplete, Form!SubmitNothing
<1>2. /\ ui \in Forms
      /\ ui.confirmed \in {None, ui.values.status} \/ ui.values.status = ui.initial.status
      /\ ui.profile # "ready" => ui.existing = {}
      /\ \A t \in ui.existing : ui.proposals[t] = "none" \/ sub.st = "grants"
    BY DEF FormInv, FormTypeOK, ConfirmationFits, FormStarts, GrantsRemembered
<1>3. CASE Form!LoadInventory \/ Form!RetryInventory
    <2>1. PICK i \in [Targets -> {"loading", "ready", "error"}] :
                ui' = [ui EXCEPT !.inventory = i]
        BY <1>3 DEF Form!LoadInventory, Form!RetryInventory, Form!Loading
    <2> QED
        BY <1>1, <1>2, <2>1, EditingKeepsInv DEF Edited, Forms, Form!Submitting
<1>4. CASE Form!RetryProfile
    BY <1>1, <1>2, <1>4, EditingKeepsInv DEF Form!RetryProfile, Edited, Forms, Form!Submitting
<1>5. CASE Form!ChangeName \/ Form!ChangeStatus
    <2>1. PICK v \in Rows, r \in SUBSET {"name", "status"}, c \in {ui.confirmed, None} :
            /\ ui' = [ui EXCEPT !.values = v, !.refused = r, !.confirmed = c,
                                !.submission = IF @ = "error" THEN "idle" ELSE @]
            /\ v.status = ui.values.status \/ c = None
        <3>1. CASE Form!ChangeName
            <4>1. PICK name \in {"", "bot"} : ui' = Form!Changed(ui, "name", name)
                BY <3>1 DEF Form!ChangeName
            <4> DEFINE v == [ui.values EXCEPT !.name = name]
            <4>2. v \in Rows /\ v.status = ui.values.status
                BY <1>2 DEF Forms, Rows
            <4>3. ui' = [ui EXCEPT !.values = v, !.refused = ui.refused \ {"name"},
                                   !.confirmed = ui.confirmed,
                                   !.submission = IF @ = "error" THEN "idle" ELSE @]
                BY <1>2, <4>1 DEF Form!Changed, Form!ErrorGone, Forms
            <4>4. ui.refused \ {"name"} \in SUBSET {"name", "status"}
                BY <1>2 DEF Forms
            <4> QED
                BY <4>2, <4>3, <4>4
        <3>2. CASE Form!ChangeStatus
            <4>1. PICK value \in Form!Statuses :
                        ui' = [Form!Changed(ui, "status", value) EXCEPT !.confirmed = None]
                BY <3>2 DEF Form!ChangeStatus
            <4> DEFINE v == [ui.values EXCEPT !.status = value]
            <4>2. v \in Rows
                BY <1>2 DEF Forms, Rows
            <4>3. ui' = [ui EXCEPT !.values = v, !.refused = ui.refused \ {"status"},
                                   !.confirmed = None,
                                   !.submission = IF @ = "error" THEN "idle" ELSE @]
                BY <1>2, <4>1 DEF Form!Changed, Form!ErrorGone, Forms
            <4>4. ui.refused \ {"status"} \in SUBSET {"name", "status"}
                BY <1>2 DEF Forms
            <4> QED
                BY <4>2, <4>3, <4>4
        <3> QED
            BY <1>5, <3>1, <3>2
    <2> QED
        BY <1>1, <1>2, <2>1, EditingKeepsInv DEF Edited, Forms, Form!Submitting
<1>6. CASE Form!Confirm
    <2>1. ui.values.status \in Form!Statuses
        BY <1>6 DEF Form!Confirm, Form!needsStatusConfirmation, Form!Sensitive, Form!Statuses
    <2>2. PICK c \in {None, ui.values.status} : ui' = [ui EXCEPT !.confirmed = c]
        BY <1>2, <1>6 DEF Form!Confirm, Forms
    <2> QED
        BY <1>1, <1>2, <2>1, <2>2, EditingKeepsInv DEF Edited, Forms, Form!Submitting
<1>7. ASSUME NEW t \in Targets, Form!handleToggleTarget(t) PROVE FormInv'
    <2>1. ui.profile = "ready" /\ t \notin ui.existing
        BY <1>7 DEF Form!handleToggleTarget
    <2>2. PICK p \in {"none", "unnamed"}, s \in {"submitting", "idle"} :
            /\ ui' = [ui EXCEPT !.proposals = [@ EXCEPT ![t] = p], !.submission = s, !.failed = {}]
            /\ ui.submission = "submitting" => s = "submitting"
        BY <1>2, <1>7 DEF Form!handleToggleTarget, Forms
    <2> QED
        BY <1>1, <1>2, <2>1, <2>2, EditingKeepsInv DEF Edited, Forms, Form!Submitting
<1>8. ASSUME NEW t \in Targets, Form!handleUpdateProposal(t) PROVE FormInv'
    <2>1. ui.profile = "ready" /\ ui.proposals[t] = "unnamed"
        BY <1>8 DEF Form!handleUpdateProposal
    <2>2. ui' = [ui EXCEPT !.proposals = [@ EXCEPT ![t] = "named"],
                           !.submission = IF @ = "error" THEN "idle" ELSE @]
        BY <1>2, <1>8 DEF Form!handleUpdateProposal, Form!ErrorGone, Forms
    <2> QED
        BY <1>1, <1>2, <2>1, <2>2, EditingKeepsInv DEF Edited, Forms, Form!Submitting
<1>9. CASE Form!handleContinue \/ Form!SelectStep \/ Form!Leave
    <2>1. CASE Form!handleContinue
        <3> DEFINE f == IF ui.furthest > ui.step THEN ui.furthest ELSE ui.step + 1
        <3>1. ui.step + 1 \in Nat /\ f \in Nat
            BY <1>2 DEF Forms
        <3>2. ui' = [ui EXCEPT !.step = ui.step + 1, !.furthest = f]
            BY <1>2, <2>1 DEF Form!handleContinue, Forms
        <3> HIDE DEF f
        <3> QED
            BY <1>1, <1>2, <3>1, <3>2, EditingKeepsInv DEF Edited, Forms, Form!Submitting
    <2>2. CASE Form!SelectStep
        <3>1. PICK s \in 1..ui.furthest : ui' = [ui EXCEPT !.step = s]
            BY <2>2 DEF Form!SelectStep
        <3>2. s \in Nat
            BY <1>2 DEF Forms
        <3> QED
            BY <1>1, <1>2, <3>1, <3>2, EditingKeepsInv DEF Edited, Forms, Form!Submitting
    <2>3. CASE Form!Leave
        BY <1>1, <1>2, <2>3, EditingKeepsInv DEF Form!Leave, Edited, Forms, Form!Submitting
    <2> QED
        BY <1>9, <2>1, <2>2, <2>3
<1>10. CASE Form!handleReset
    <2>1. ui.profile = "ready" /\ ui.submission # "submitting"
        BY <1>10 DEF Form!handleReset, Form!Submitting
    <2> QED
        BY <1>1, <1>2, <1>10, <2>1, EditingKeepsInv
        DEF Form!handleReset, Edited, Forms, Form!Submitting
<1>11. CASE Form!SubmitIncomplete \/ Form!SubmitNothing
    <2>1. ui.submission # "submitting"
        BY <1>11 DEF Form!SubmitIncomplete, Form!SubmitNothing, Form!SubmitOffered,
                     Form!Submitting
    <2>2. PICK s \in Nat :
                ui' = [ui EXCEPT !.submission = "error", !.failed = {}, !.step = s]
        <3>1. CASE Form!SubmitIncomplete
            <4>1. \A fields, unnamed, missing :
                        Form!firstInvalidStep(fields, unnamed, missing) \in Nat
                BY DEF Form!firstInvalidStep
            <4> QED
                BY <3>1, <4>1 DEF Form!SubmitIncomplete
        <3>2. CASE Form!SubmitNothing
            BY <1>2, <3>2 DEF Form!SubmitNothing, Forms
        <3> QED
            BY <1>11, <3>1, <3>2
    <2> QED
        BY <1>1, <1>2, <2>1, <2>2, EditingKeepsInv DEF Edited, Forms, Form!Submitting
<1> QED
    BY <1>1, <1>3, <1>4, <1>5, <1>6, <1>7, <1>8, <1>9, <1>10, <1>11

LEMMA FormProfile ==
    ASSUME FormInv, Form!LoadProfile
    PROVE  FormInv' /\ UNCHANGED <<sub, agent, agents, granted, lost>>
<1>1. /\ ui.left = "no" /\ ui.profile = "loading"
      /\ UNCHANGED <<sub, agent, agents, granted, lost>>
      /\ \/ ui' = [ui EXCEPT !.profile = "ready", !.values = agent, !.initial = agent,
                             !.existing = {t \in Targets : granted[t] > 0}]
         \/ ui' = [ui EXCEPT !.profile = "error"]
    BY DEF Form!LoadProfile
<1>2. /\ ui \in Forms /\ agent \in Rows /\ sub.st = "none" /\ ui.mode = "edit"
      /\ ui.existing = {} /\ \A t \in Targets : ui.proposals[t] = "none"
      /\ granted \in [Targets -> Nat] /\ lost \in [Targets \cup {"agent"} -> Nat]
    BY <1>1 DEF FormInv, FormTypeOK, FormStarts
<1>3. CASE ui' = [ui EXCEPT !.profile = "error"]
    BY <1>1, <1>2, <1>3, EditingKeepsInv
    DEF Edited, Forms, Form!Submitting, FormInv, ConfirmationFits
<1>4. CASE ui' = [ui EXCEPT !.profile = "ready", !.values = agent, !.initial = agent,
                            !.existing = {t \in Targets : granted[t] > 0}]
    <2>1. /\ ui' \in Forms /\ ui'.mode = ui.mode /\ ui'.created = ui.created
          /\ ui'.values = agent /\ ui'.initial = agent /\ ui'.profile = "ready"
          /\ ui'.existing = {t \in Targets : granted[t] > 0}
          /\ ui'.proposals = ui.proposals
        BY <1>2, <1>4 DEF Forms
    <2>2. FormTypeOK'
        BY <1>1, <2>1 DEF FormInv, FormTypeOK
    <2>3. FormStarts' /\ AgentRemembered'
        BY <1>1, <1>2, <2>1 DEF FormInv, FormStarts, AgentRemembered, Form!Known
    <2>4. GrantsRemembered'
        BY <1>1, <1>2, <2>1 DEF FormInv, GrantsRemembered
    <2>5. ConfirmationFits' /\ NothingForgotten'
        BY <1>1, <1>2, <2>1 DEF ConfirmationFits, NothingForgotten
    <2> QED
        BY <1>1, <2>2, <2>3, <2>4, <2>5 DEF FormInv
<1> QED
    BY <1>1, <1>3, <1>4

\* A submission starts: what it captures is the form as it is, with its confirmation.
LEMMA FormSubmit ==
    ASSUME FormInv, Form!handleSubmit
    PROVE  FormInv' /\ UNCHANGED <<agent, agents, granted, lost>> /\ sub.st = "none"
<1>1. /\ ui.profile = "ready" /\ ui.submission # "submitting"
      /\ ui' = [ui EXCEPT !.submission = "submitting", !.failed = {}]
      /\ UNCHANGED <<agent, agents, granted, lost>>
      /\ ~Form!ConfirmationMissing(ui)
    BY DEF Form!handleSubmit, Form!Here, Form!SubmitOffered, Form!Submitting, Form!Incomplete
<1>2. PICK st \in {"agent", "grants"}, props \in SUBSET Targets :
        /\ sub' = [ st |-> st, values |-> ui.values, confirmed |-> ui.confirmed,
                    props |-> props, todo |-> props, failed |-> {} ]
        /\ props = {t \in Targets : ui.proposals[t] # "none"}
    BY DEF Form!handleSubmit, Form!Selected
<1>3. /\ FormTypeOK /\ FormStarts /\ AgentRemembered /\ GrantsRemembered /\ ConfirmationFits
      /\ ui \in Forms /\ sub.st = "none"
    BY <1>1 DEF FormInv, FormTypeOK, GrantsRemembered, Form!Submitting
<1>4. /\ ui' \in Forms /\ ui'.mode = ui.mode /\ ui'.profile = "ready"
      /\ ui'.created = ui.created /\ ui'.values = ui.values /\ ui'.initial = ui.initial
      /\ ui'.confirmed = ui.confirmed /\ ui'.existing = ui.existing
      /\ ui'.proposals = ui.proposals /\ ui'.submission = "submitting"
    BY <1>1, <1>3 DEF Forms
<1>5. /\ sub'.st = st /\ sub'.values = ui.values /\ sub'.confirmed = ui.confirmed
      /\ sub'.props = props /\ sub'.todo = props /\ sub'.failed = {}
    BY <1>2
<1>6. FormTypeOK'
    BY <1>1, <1>2, <1>3, <1>4 DEF FormTypeOK, Forms
<1>7. FormStarts' /\ AgentRemembered'
    BY <1>1, <1>3, <1>4 DEF FormStarts, AgentRemembered, Form!Known
<1>8. GrantsRemembered'
    <2>1. \A t \in ui.existing : ui.proposals[t] = "none" /\ t \in Targets
        BY <1>3 DEF GrantsRemembered, Forms
    <2> QED
        BY <1>1, <1>2, <1>3, <1>4, <1>5, <2>1 DEF GrantsRemembered, Form!Submitting
<1>9. ConfirmationFits'
    BY <1>1, <1>3, <1>4, <1>5
    DEF ConfirmationFits, FormStarts, Form!ConfirmationMissing, Form!needsStatusConfirmation,
        Form!Known, Form!Sensitive
<1>10. NothingForgotten'
    BY <1>5 DEF NothingForgotten
<1> QED
    BY <1>1, <1>3, <1>6, <1>7, <1>8, <1>9, <1>10 DEF FormInv

\* The agent is saved, or may have been.
LEMMA FormStored ==
    ASSUME FormInv, sub.st = "agent", Form!StoreAgent
    PROVE  /\ agent' \in Rows /\ agents' \in Nat
           /\ agents' = IF Form!Known(ui) THEN agents ELSE agents + 1
           /\ agent'.status # agent.status /\ agent'.status \in Form!Sensitive
                => sub.confirmed = agent'.status
<1>1. /\ agent \in Rows /\ agents \in Nat /\ sub.values \in Rows /\ ui.initial \in Rows
      /\ sub.values.status \in Form!Sensitive
           /\ sub.values.status # (IF Form!Known(ui) THEN ui.initial.status ELSE "")
           => sub.confirmed = sub.values.status
      /\ ui.initial.status = "" \/ Form!Known(ui)
    BY DEF FormInv, FormTypeOK, Forms, ConfirmationFits, FormStarts
<1>2. CASE Form!Known(ui)
    <2> DEFINE patch == Form!buildAgentPatch(sub.values, ui.initial)
    <2>1. /\ agent' = [f \in {"name", "status"} |->
                            IF f \in patch THEN sub.values[f] ELSE agent[f]]
          /\ agents' = agents
        BY <1>1, <1>2 DEF Form!StoreAgent, Rows
    <2>2. "status" \in patch => sub.values.status # ui.initial.status
        BY DEF Form!buildAgentPatch
    <2> HIDE DEF patch
    <2>3. agent' \in Rows /\ agent'.status = IF "status" \in patch THEN sub.values.status
                                             ELSE agent.status
        BY <1>1, <2>1 DEF Rows
    <2> QED
        BY <1>1, <1>2, <2>1, <2>2, <2>3
<1>3. CASE ~Form!Known(ui)
    <2>1. agent' = sub.values /\ agents' = agents + 1
        BY <1>3 DEF Form!StoreAgent
    <2>2. sub.values.status \in Form!Sensitive => sub.values.status # ""
        BY DEF Form!Sensitive
    <2> QED
        <3>1. agents' \in Nat
            <4>1. agents \in Nat
                BY <1>1
            <4>2. agents' = agents + 1
                BY <2>1
            <4> QED
                BY <4>1, <4>2
        <3>2. agent' \in Rows
            BY <1>1, <2>1
        <3>3. sub.values.status \in Form!Sensitive => sub.confirmed = sub.values.status
            BY <1>1, <1>3, <2>2 DEF Form!Known
        <3>4. agents' = IF Form!Known(ui) THEN agents ELSE agents + 1
            BY <1>3, <2>1, Zenon
        <3> QED
            BY <2>1, <3>1, <3>2, <3>3, <3>4
<1> QED
    BY <1>2, <1>3

LEMMA FormSaved ==
    ASSUME FormInv, Form!AgentSaved
    PROVE  FormInv' /\ Form!SensitiveStatusConfirmed /\ Form!NothingDroppedSilently
<1>1. /\ sub.st = "agent" /\ UNCHANGED <<granted, lost>>
      /\ agent' \in Rows /\ agents' = IF Form!Known(ui) THEN agents ELSE agents + 1
      /\ agents' \in Nat
      /\ Form!SensitiveStatusConfirmed
    BY FormStored DEF Form!AgentSaved, Form!SensitiveStatusConfirmed
<1>2. /\ ui \in Forms /\ sub.props \in SUBSET Targets /\ sub.todo = sub.props /\ sub.failed = {}
      /\ agents \in Nat /\ lost \in [Targets \cup {"agent"} -> Nat]
      /\ ui.profile = "ready" /\ ui.submission = "submitting"
      /\ sub \in [ st : {"none", "agent", "grants"}, values : Rows,
                   confirmed : Form!Statuses \cup {None}, props : SUBSET Targets,
                   todo : SUBSET Targets, failed : SUBSET Targets ]
    BY <1>1 DEF FormInv, FormTypeOK, FormStarts, GrantsRemembered, NothingForgotten,
                Form!Submitting
<1>3. PICK l \in {"no", "user", "saved"}, c \in BOOLEAN :
        /\ ui' = [ui EXCEPT !.created = c, !.values = agent', !.initial = agent',
                            !.refused = {}, !.left = l]
        /\ c = (ui.mode = "create")
    <2>1. PICK c \in BOOLEAN : c = (ui.mode = "create")
        OBVIOUS
    <2>2. Form!ShowSaved(ui, agent') = [ui EXCEPT !.created = c, !.values = agent',
                                                  !.initial = agent', !.refused = {}]
        BY <2>1, Zenon DEF Form!ShowSaved
    <2>3. CASE sub.props = {}
        <3>1. ui' = [ui EXCEPT !.created = c, !.values = agent', !.initial = agent',
                               !.refused = {}, !.left = "saved"]
            BY <2>2, <2>3, <1>2 DEF Form!AgentSaved, Forms
        <3> QED
            BY <2>1, <3>1
    <2>4. CASE sub.props # {}
        <3>1. /\ ui' = [ui EXCEPT !.created = c, !.values = agent', !.initial = agent',
                                  !.refused = {}, !.left = ui.left]
              /\ ui.left \in {"no", "user", "saved"}
            <4>1. ui' = [ui EXCEPT !.created = c, !.values = agent', !.initial = agent',
                                   !.refused = {}]
                BY <2>2, <2>4 DEF Form!AgentSaved
            <4> QED
                BY <1>2, <4>1 DEF Forms
        <3> QED
            BY <2>1, <3>1
    <2> QED
        BY <2>3, <2>4
<1>4. /\ ui' \in Forms /\ ui'.mode = ui.mode /\ ui'.profile = "ready"
      /\ ui'.created = (ui.mode = "create") /\ ui'.values = agent' /\ ui'.initial = agent'
      /\ ui'.existing = ui.existing /\ ui'.proposals = ui.proposals
      /\ ui'.submission = "submitting"
    BY <1>1, <1>2, <1>3 DEF Forms
<1>5. \/ sub.props = {} /\ sub' = Form!NoSubmission
      \/ sub' = [sub EXCEPT !.st = "grants"]
    BY DEF Form!AgentSaved
<1>6. FormTypeOK'
    <2>1. Form!NoSubmission \in [ st : {"none", "agent", "grants"}, values : Rows,
                   confirmed : Form!Statuses \cup {None}, props : SUBSET Targets,
                   todo : SUBSET Targets, failed : SUBSET Targets ]
        BY DEF Form!NoSubmission, Form!EMPTY_AGENT_FORM, Rows
    <2>2. sub' \in [ st : {"none", "agent", "grants"}, values : Rows,
                   confirmed : Form!Statuses \cup {None}, props : SUBSET Targets,
                   todo : SUBSET Targets, failed : SUBSET Targets ]
        BY <1>2, <1>5, <2>1
    <2> QED
        BY <1>1, <1>4, <2>2 DEF FormInv, FormTypeOK
<1>7. FormStarts' /\ AgentRemembered'
    <2>1. ui.mode \in {"create", "edit"} /\ (ui.created => ui.mode = "create")
          /\ ui.created \in BOOLEAN
        BY <1>2 DEF FormInv, FormStarts, Forms
    <2>2. agents' <= lost["agent"] + (IF ui.mode = "create" THEN 1 ELSE 0)
        <3>1. agents <= lost["agent"] + (IF ui.created THEN 1 ELSE 0)
            BY DEF FormInv, AgentRemembered
        <3>2. lost["agent"] \in Nat
            BY <1>2
        <3> QED
            BY <1>1, <1>2, <2>1, <3>1, <3>2 DEF Form!Known
    <2> QED
        BY <1>1, <1>4, <2>1, <2>2 DEF FormStarts, AgentRemembered, Form!Known
<1>8. GrantsRemembered'
    <2>1. /\ \A t \in ui.existing : ui.proposals[t] = "none"
          /\ (sub.todo \cup sub.failed) \cap ui.existing = {}
          /\ \A t \in Targets : /\ granted[t] <= lost[t] + 1
                                /\ granted[t] > lost[t] => t \in ui.existing
        BY <1>1, <1>2 DEF FormInv, GrantsRemembered
    <2>2. sub'.st # "none" => sub'.todo = sub.todo /\ sub'.failed = sub.failed
        BY <1>2, <1>5 DEF Form!NoSubmission
    <2> QED
        BY <1>1, <1>4, <2>1, <2>2 DEF GrantsRemembered, Form!Submitting
<1>9. ConfirmationFits'
    <2>1. sub'.st # "agent"
        BY <1>2, <1>5 DEF Form!NoSubmission
    <2> QED
        BY <1>4, <2>1 DEF ConfirmationFits
<1>10. NothingForgotten' /\ Form!NothingDroppedSilently
    BY <1>1, <1>2, <1>5
    DEF NothingForgotten, Form!NothingDroppedSilently, Form!NoSubmission
<1> QED
    BY <1>1, <1>6, <1>7, <1>8, <1>9, <1>10 DEF FormInv

LEMMA FormRefused ==
    ASSUME FormInv, Form!AgentFails
    PROVE  FormInv' /\ Form!SensitiveStatusConfirmed /\ Form!NothingDroppedSilently
<1>1. /\ sub.st = "agent" /\ sub' = Form!NoSubmission /\ UNCHANGED granted
    BY DEF Form!AgentFails
<1>2. /\ ui \in Forms /\ agents \in Nat /\ lost \in [Targets \cup {"agent"} -> Nat]
      /\ agent \in Rows /\ ui.profile = "ready"
    BY <1>1 DEF FormInv, FormTypeOK, FormStarts
<1>3. PICK r \in SUBSET {"name", "status"}, s \in Nat :
        ui' = [ui EXCEPT !.submission = "error", !.refused = r, !.step = s]
    <2>1. ui.refused \in SUBSET {"name", "status"} /\ ui.step \in Nat
        BY <1>2 DEF Forms
    <2>2. CASE ui' = [ui EXCEPT !.submission = "error"]
        <3>1. ui' = [ui EXCEPT !.submission = "error", !.refused = ui.refused, !.step = ui.step]
            BY <1>2, <2>2 DEF Forms
        <3> QED
            BY <2>1, <3>1
    <2>3. ASSUME NEW fields \in {{}, {"name"}, {"status"}},
                 ui' = [ui EXCEPT !.submission = "error", !.refused = @ \cup fields,
                                  !.step = IF fields = {} THEN @
                                           ELSE Form!firstInvalidStep(fields, {}, FALSE)]
          PROVE  \E r \in SUBSET {"name", "status"}, s \in Nat :
                    ui' = [ui EXCEPT !.submission = "error", !.refused = r, !.step = s]
        <3> DEFINE s == IF fields = {} THEN ui.step
                        ELSE Form!firstInvalidStep(fields, {}, FALSE)
        <3>1. s \in Nat
            BY <2>1 DEF Form!firstInvalidStep, Form!IdentityStep, Form!RiskStep,
                        Form!AccessStep, Form!ReviewStep
        <3>2. ui' = [ui EXCEPT !.submission = "error", !.refused = ui.refused \cup fields,
                               !.step = s]
            BY <1>2, <2>3 DEF Forms
        <3>3. ui.refused \cup fields \in SUBSET {"name", "status"}
            BY <2>1
        <3> HIDE DEF s
        <3> QED
            BY <3>1, <3>2, <3>3
    <2> QED
        BY <2>2, <2>3 DEF Form!AgentFails
<1>4. /\ ui' \in Forms /\ ui'.mode = ui.mode /\ ui'.profile = "ready"
      /\ ui'.created = ui.created /\ ui'.values = ui.values /\ ui'.initial = ui.initial
      /\ ui'.confirmed = ui.confirmed /\ ui'.existing = ui.existing
      /\ ui'.proposals = ui.proposals /\ ui'.submission = "error"
    BY <1>2, <1>3 DEF Forms
<1>5. /\ agent' \in Rows /\ agents' \in Nat /\ lost' \in [Targets \cup {"agent"} -> Nat]
      /\ \A t \in Targets : lost'[t] >= lost[t]
      /\ agents' - lost'["agent"] = agents - lost["agent"]
      /\ Form!SensitiveStatusConfirmed
    <2>1. CASE UNCHANGED <<agent, agents, lost>>
        BY <1>2, <2>1 DEF Form!SensitiveStatusConfirmed
    <2>2. CASE Form!StoreAgent /\ lost' = IF agents' = agents THEN lost
                                          ELSE [lost EXCEPT !.agent = @ + 1]
        <3>1. /\ agent' \in Rows /\ agents' \in Nat /\ Form!SensitiveStatusConfirmed
              /\ agents' = agents \/ agents' = agents + 1
            BY <1>1, <2>2, FormStored DEF Form!SensitiveStatusConfirmed
        <3> QED
            BY <1>2, <2>2, <3>1
    <2> QED
        BY <2>1, <2>2 DEF Form!AgentFails
<1>6. FormTypeOK'
    BY <1>1, <1>4, <1>5
    DEF FormInv, FormTypeOK, Form!NoSubmission, Form!EMPTY_AGENT_FORM, Rows
<1>7. FormStarts' /\ AgentRemembered'
    <2>1. agents <= lost["agent"] + (IF ui.created THEN 1 ELSE 0)
        BY DEF FormInv, AgentRemembered
    <2>2. AgentRemembered'
        BY <1>2, <1>4, <1>5, <2>1 DEF AgentRemembered
    <2> QED
        BY <1>4, <2>2 DEF FormInv, FormStarts, Form!Known
<1>8. GrantsRemembered'
    <2>1. \A t \in Targets : granted[t] \in Nat /\ lost[t] \in Nat /\ lost'[t] \in Nat
        BY <1>2, <1>5 DEF FormInv, FormTypeOK
    <2>2. sub'.st = "none"
        BY <1>1 DEF Form!NoSubmission
    <2> QED
        BY <1>1, <1>2, <1>4, <1>5, <2>1, <2>2 DEF FormInv, GrantsRemembered
<1>9. ConfirmationFits' /\ NothingForgotten' /\ Form!NothingDroppedSilently
    BY <1>1, <1>4
    DEF FormInv, ConfirmationFits, NothingForgotten, Form!NothingDroppedSilently,
        Form!NoSubmission
<1> QED
    BY <1>5, <1>6, <1>7, <1>8, <1>9 DEF FormInv

\* The loop over the declarations: what one turn makes of the submission and the form.
LEMMA GrantTurn ==
    ASSUME FormInv, sub.st = "grants", NEW t \in sub.todo, NEW ok \in BOOLEAN, NEW u,
           u = IF ok THEN [ui EXCEPT !.existing = @ \cup {t}] ELSE ui,
           Form!GrantAnswered(u, t, ok),
           UNCHANGED <<agent, agents>>,
           granted' \in [Targets -> Nat], lost' \in [Targets \cup {"agent"} -> Nat],
           lost'["agent"] >= lost["agent"],
           \A s \in Targets \ {t} : granted'[s] = granted[s] /\ lost'[s] = lost[s],
           IF ok THEN granted'[t] = granted[t] + 1 /\ lost'[t] = lost[t]
                 ELSE granted'[t] - lost'[t] = granted[t] - lost[t]
                      /\ granted'[t] >= granted[t]
    PROVE  FormInv' /\ Form!NothingDroppedSilently /\ Form!SensitiveStatusConfirmed
<1> DEFINE failed == IF ok THEN sub.failed ELSE sub.failed \cup {t}
           s == [sub EXCEPT !.todo = @ \ {t}, !.failed = failed]
<1>1. /\ ui \in Forms /\ ui.profile = "ready" /\ ui.submission = "submitting"
      /\ sub \in [ st : {"none", "agent", "grants"}, values : Rows,
                   confirmed : Form!Statuses \cup {None}, props : SUBSET Targets,
                   todo : SUBSET Targets, failed : SUBSET Targets ]
      /\ (sub.todo \cup sub.failed) \cap ui.existing = {}
      /\ agent \in Rows /\ agents \in Nat
      /\ granted \in [Targets -> Nat] /\ lost \in [Targets \cup {"agent"} -> Nat]
      /\ t \in Targets /\ sub.todo \cap sub.failed = {}
    BY DEF FormInv, FormTypeOK, FormStarts, GrantsRemembered, NothingForgotten, Form!Submitting
<1>2. /\ u \in Forms /\ u.mode = ui.mode /\ u.profile = "ready" /\ u.created = ui.created
      /\ u.values = ui.values /\ u.initial = ui.initial /\ u.confirmed = ui.confirmed
      /\ u.proposals = ui.proposals /\ u.submission = "submitting" /\ u.left = ui.left
      /\ u.existing = (IF ok THEN ui.existing \cup {t} ELSE ui.existing)
    BY <1>1 DEF Forms
<1>3. /\ s.st = "grants" /\ s.todo = sub.todo \ {t} /\ s.failed = failed
      /\ s.props = sub.props /\ failed \in SUBSET Targets
      /\ s \in [ st : {"none", "agent", "grants"}, values : Rows,
                 confirmed : Form!Statuses \cup {None}, props : SUBSET Targets,
                 todo : SUBSET Targets, failed : SUBSET Targets ]
    BY <1>1
<1>4. IF s.todo # {} THEN ui' = u /\ sub' = s
      ELSE ui' = Form!GrantsDone(u, s.failed) /\ sub' = Form!NoSubmission
    BY <1>1 DEF Form!GrantAnswered
<1> HIDE DEF s
<1>5. /\ (s.todo \cup failed) \cap u.existing = {} /\ s.todo \cap failed = {}
      /\ \A r \in sub.props : r \in s.todo \/ r \in failed \/ granted'[r] > 0
      /\ \A r \in Targets : /\ granted'[r] <= lost'[r] + 1
                            /\ granted'[r] > lost'[r] => r \in u.existing
    <2>1. \A r \in Targets : /\ granted[r] <= lost[r] + 1
                             /\ granted[r] > lost[r] => r \in ui.existing
                             /\ granted[r] \in Nat /\ lost[r] \in Nat
                             /\ granted'[r] \in Nat /\ lost'[r] \in Nat
        BY <1>1 DEF FormInv, GrantsRemembered
    <2>2. \A r \in sub.props : r \in sub.todo \/ r \in sub.failed \/ granted[r] > 0
        BY DEF FormInv, NothingForgotten
    <2>3. (s.todo \cup failed) \cap u.existing = {} /\ s.todo \cap failed = {}
        BY <1>1, <1>2, <1>3
    <2>4. ASSUME NEW r \in Targets
          PROVE  /\ granted'[r] <= lost'[r] + 1
                 /\ granted'[r] > lost'[r] => r \in u.existing
                 /\ granted[r] > 0 => granted'[r] > 0
                 /\ r = t => ~ok \/ granted'[r] > 0
        BY <1>1, <1>2, <2>1
    <2>5. \A r \in sub.props : r \in s.todo \/ r \in failed \/ granted'[r] > 0
        BY <1>1, <1>3, <2>2, <2>4
    <2> QED
        BY <2>3, <2>4, <2>5
<1>6. agents' <= lost'["agent"] + (IF ui.created THEN 1 ELSE 0)
    <2>1. /\ lost["agent"] \in Nat /\ lost'["agent"] \in Nat /\ agents' = agents
          /\ agents <= lost["agent"] + (IF ui.created THEN 1 ELSE 0)
        BY <1>1 DEF FormInv, AgentRemembered
    <2> QED
        BY <1>1, <2>1
<1>7. CASE s.todo # {}
    <2>1. ui' = u /\ sub' = s
        BY <1>4, <1>7
    <2>2. FormTypeOK'
        BY <1>1, <1>2, <1>3, <2>1 DEF FormTypeOK
    <2>3. FormStarts' /\ AgentRemembered'
        BY <1>1, <1>2, <1>6, <2>1 DEF FormInv, FormStarts, AgentRemembered, Form!Known
    <2>4. GrantsRemembered'
        BY <1>2, <1>3, <1>5, <2>1 DEF GrantsRemembered, Form!Submitting
    <2>5. ConfirmationFits' /\ NothingForgotten'
        BY <1>2, <1>3, <1>5, <2>1 DEF FormInv, ConfirmationFits, NothingForgotten
    <2> QED
        BY <1>3, <2>1, <2>2, <2>3, <2>4, <2>5
        DEF FormInv, Form!NothingDroppedSilently, Form!SensitiveStatusConfirmed
<1>8. CASE s.todo = {}
    <2>1. ui' = Form!GrantsDone(u, failed) /\ sub' = Form!NoSubmission
        BY <1>3, <1>4, <1>8
    <2>2. /\ ui' \in Forms /\ ui'.mode = ui.mode /\ ui'.profile = "ready"
          /\ ui'.created = ui.created /\ ui'.values = ui.values /\ ui'.initial = ui.initial
          /\ ui'.confirmed = ui.confirmed /\ ui'.existing = u.existing
          /\ \A r \in Targets : r \in failed \/ ui'.proposals[r] = "none"
          /\ failed = {} \/ ui'.failed = failed
        <3>1. CASE failed = {}
            BY <1>2, <2>1, <3>1 DEF Form!GrantsDone, Forms
        <3>2. CASE failed # {}
            <4> DEFINE p == [r \in Targets |-> IF r \in failed THEN u.proposals[r] ELSE "none"]
            <4>1. ui' = [u EXCEPT !.submission = "partial", !.failed = failed, !.proposals = p]
                BY <1>2, <2>1, <3>2 DEF Form!GrantsDone, Forms
            <4>2. p \in [Targets -> {"none", "unnamed", "named"}]
                  /\ \A r \in Targets : r \in failed \/ p[r] = "none"
                BY <1>2 DEF Forms
            <4> HIDE DEF p
            <4> QED
                BY <1>2, <1>3, <4>1, <4>2 DEF Forms
        <3> QED
            BY <3>1, <3>2
    <2>3. FormTypeOK'
        BY <1>1, <2>1, <2>2
        DEF FormTypeOK, Form!NoSubmission, Form!EMPTY_AGENT_FORM, Rows
    <2>4. FormStarts' /\ AgentRemembered'
        BY <1>1, <1>6, <2>2 DEF FormInv, FormStarts, AgentRemembered, Form!Known
    <2>5. GrantsRemembered'
        <3>1. \A r \in u.existing : r \notin failed /\ r \in Targets
            BY <1>2, <1>5 DEF Forms
        <3> QED
            BY <1>5, <2>1, <2>2, <3>1 DEF GrantsRemembered, Form!NoSubmission
    <2>6. ConfirmationFits' /\ NothingForgotten'
        BY <2>1, <2>2 DEF FormInv, ConfirmationFits, NothingForgotten, Form!NoSubmission
    <2>7. \A r \in sub.props : granted'[r] > 0 \/ r \in ui'.failed
        BY <1>5, <1>8, <2>2
    <2> QED
        BY <2>3, <2>4, <2>5, <2>6, <2>7
        DEF FormInv, Form!NothingDroppedSilently, Form!SensitiveStatusConfirmed
<1> QED
    BY <1>7, <1>8

\* Every step of the form keeps the invariant and is one that the properties allow.
LEMMA FormStep ==
    ASSUME FormInv, Form!Next
    PROVE  FormInv' /\ Form!SensitiveStatusConfirmed /\ Form!NothingDroppedSilently
<1>1. CASE \/ Form!LoadInventory \/ Form!RetryInventory \/ Form!RetryProfile
           \/ Form!ChangeName \/ Form!ChangeStatus \/ Form!Confirm
           \/ \E t \in Targets : Form!handleToggleTarget(t) \/ Form!handleUpdateProposal(t)
           \/ Form!handleContinue \/ Form!SelectStep \/ Form!handleReset \/ Form!Leave
           \/ Form!SubmitIncomplete \/ Form!SubmitNothing
    <2>1. FormInv' /\ UNCHANGED <<sub, agent>>
        BY <1>1, FormEdits
    <2> QED
        BY <2>1 DEF Form!SensitiveStatusConfirmed, Form!NothingDroppedSilently
<1>2. CASE Form!LoadProfile
    BY <1>2, FormProfile DEF Form!SensitiveStatusConfirmed, Form!NothingDroppedSilently
<1>3. CASE Form!handleSubmit
    BY <1>3, FormSubmit DEF Form!SensitiveStatusConfirmed, Form!NothingDroppedSilently
<1>4. CASE Form!AgentSaved \/ Form!AgentFails
    BY <1>4, FormSaved, FormRefused
<1>5. ASSUME NEW t \in Targets, Form!CreateGrant(t) \/ Form!GrantFails(t)
      PROVE  FormInv' /\ Form!SensitiveStatusConfirmed /\ Form!NothingDroppedSilently
    <2>1. /\ sub.st = "grants" /\ t \in sub.todo /\ UNCHANGED <<agent, agents>>
          /\ granted \in [Targets -> Nat] /\ lost \in [Targets \cup {"agent"} -> Nat]
        BY <1>5 DEF Form!CreateGrant, Form!GrantFails, FormInv, FormTypeOK
    <2>2. CASE Form!CreateGrant(t)
        <3>1. PICK u : u = [ui EXCEPT !.existing = @ \cup {t}]
            OBVIOUS
        <3>2. /\ granted' = [granted EXCEPT ![t] = @ + 1] /\ lost' = lost
              /\ Form!GrantAnswered(u, t, TRUE)
            BY <2>2, <3>1 DEF Form!CreateGrant
        <3>3. /\ granted' \in [Targets -> Nat] /\ granted'[t] = granted[t] + 1
              /\ \A s \in Targets \ {t} : granted'[s] = granted[s]
              /\ lost["agent"] \in Nat
            BY <2>1, <3>2
        <3>4. /\ u = IF TRUE THEN [ui EXCEPT !.existing = @ \cup {t}] ELSE ui
              /\ IF TRUE THEN granted'[t] = granted[t] + 1 /\ lost'[t] = lost[t]
                         ELSE granted'[t] - lost'[t] = granted[t] - lost[t]
                              /\ granted'[t] >= granted[t]
            BY <3>1, <3>2, <3>3
        <3>5. /\ lost'["agent"] >= lost["agent"] /\ lost' \in [Targets \cup {"agent"} -> Nat]
              /\ \A s \in Targets \ {t} : granted'[s] = granted[s] /\ lost'[s] = lost[s]
            BY <2>1, <3>2, <3>3
        <3> QED
            BY <2>1, <3>2, <3>3, <3>4, <3>5, GrantTurn
    <2>3. CASE Form!GrantFails(t)
        <3>1. /\ \/ UNCHANGED <<granted, lost>>
                 \/ granted' = [granted EXCEPT ![t] = @ + 1] /\ lost' = [lost EXCEPT ![t] = @ + 1]
              /\ Form!GrantAnswered(ui, t, FALSE)
            BY <2>3 DEF Form!GrantFails
        <3>2. /\ granted' \in [Targets -> Nat] /\ lost' \in [Targets \cup {"agent"} -> Nat]
              /\ granted'[t] - lost'[t] = granted[t] - lost[t] /\ granted'[t] >= granted[t]
              /\ \A s \in Targets \ {t} : granted'[s] = granted[s] /\ lost'[s] = lost[s]
              /\ lost'["agent"] >= lost["agent"]
            BY <2>1, <3>1
        <3> QED
            BY <2>1, <3>1, <3>2, GrantTurn
    <2> QED
        BY <1>5, <2>2, <2>3
<1> QED
    BY <1>1, <1>2, <1>3, <1>4, <1>5 DEF Form!Next, Form!Answers

-----------------------------------------------------------------------------
\* The older queue of policy reviews.

LEMMA ReviewsStart == ReviewQueue!Init => PostsOK /\ LocksOK
<1> SUFFICES ASSUME ReviewQueue!Init PROVE PostsOK /\ LocksOK
    OBVIOUS
<1>1. /\ posts = [p \in ReviewQueue!PostIds |-> ReviewQueue!NoPost]
      /\ says = [k \in ReviewQueue!Locks |-> ReviewQueue!Idle]
      /\ hopped = FALSE
    BY DEF ReviewQueue!Init
<1>2. PostsOK
    BY <1>1 DEF PostsOK, ReviewQueue!NoPost, ReviewQueue!Idle
<1>3. \A lock : ReviewQueue!InFlight(lock) = {}
    BY <1>1 DEF ReviewQueue!NoPost, ReviewQueue!InFlight
<1> QED
    BY <1>2, <1>3 DEF LocksOK

LEMMA ReviewsStep ==
    ASSUME PostsOK, LocksOK, ReviewQueue!Next
    PROVE  (PostsOK /\ LocksOK)'
<1> USE DEF ReviewQueue!LockOf, ReviewQueue!Locks
<1>1. CASE UNCHANGED <<posts, says, hopped>>
    BY <1>1 DEF PostsOK, LocksOK, ReviewQueue!InFlight
<1>2. ASSUME NEW r \in Reviews, NEW act \in DOMAIN ReviewQueue!LockOf,
             NEW arg \in {"viewer", "other", "replace", None},
             ReviewQueue!Submit(act, r, arg),
             act # "rollback" => says[ReviewQueue!LockOf[act]].st # "submitting" /\ hopped' = hopped,
             act = "rollback" => hopped' \in BOOLEAN /\ (hopped => hopped')
                                 /\ (~hopped' => says.rollback.st # "submitting")
      PROVE  (PostsOK /\ LocksOK)'
    <2>1. PICK p \in ReviewQueue!PostIds :
            /\ posts' = [posts EXCEPT ![p] = [ st |-> "sent", act |-> act, on |-> r, arg |-> arg ]]
            /\ says' = [says EXCEPT ![ReviewQueue!LockOf[act]] = [ on |-> r, st |-> "submitting" ]]
        BY <1>2 DEF ReviewQueue!Submit
    <2>2. PostsOK'
        BY <1>2, <2>1 DEF PostsOK
    <2>3. \A lock \in ReviewQueue!Locks :
            ReviewQueue!InFlight(lock)' = IF lock = ReviewQueue!LockOf[act]
                                          THEN ReviewQueue!InFlight(lock) \cup {p}
                                          ELSE ReviewQueue!InFlight(lock) \ {p}
        BY <1>2, <2>1 DEF PostsOK, ReviewQueue!InFlight
    <2> QED
        BY <1>2, <2>1, <2>2, <2>3 DEF LocksOK, PostsOK
<1>3. ASSUME NEW p \in ReviewQueue!PostIds, ReviewQueue!ServePost(p)
      PROVE  (PostsOK /\ LocksOK)'
    <2>1. PICK st \in {"ok", "failed"} : posts' = [posts EXCEPT ![p].st = st]
        BY <1>3 DEF ReviewQueue!ServePost
    <2>2. posts[p].st = "sent" /\ UNCHANGED <<says, hopped>>
        BY <1>3 DEF ReviewQueue!ServePost
    <2>3. \A lock : ReviewQueue!InFlight(lock)' = ReviewQueue!InFlight(lock)
        BY <2>1, <2>2 DEF PostsOK, ReviewQueue!InFlight
    <2> QED
        BY <2>1, <2>2, <2>3 DEF LocksOK, PostsOK
<1>4. ASSUME NEW p \in ReviewQueue!PostIds, ReviewQueue!Succeeds(p) \/ ReviewQueue!Fails(p)
      PROVE  (PostsOK /\ LocksOK)'
    <2>1. PICK st \in {"success", "error"} :
            /\ says' = [says EXCEPT ![ReviewQueue!LockOf[posts[p].act]] =
                                [ on |-> posts[p].on, st |-> st ]]
            /\ posts' = [posts EXCEPT ![p] = [ReviewQueue!NoPost EXCEPT !.st = "done"]]
        BY <1>4 DEF ReviewQueue!Succeeds, ReviewQueue!Fails
    <2>2. posts[p].st \in {"ok", "failed"} /\ hopped' = hopped
        BY <1>4 DEF ReviewQueue!Succeeds, ReviewQueue!Fails
    <2>3. \A lock \in ReviewQueue!Locks :
            ReviewQueue!InFlight(lock)' = ReviewQueue!InFlight(lock) \ {p}
        BY <2>1, <2>2 DEF PostsOK, ReviewQueue!InFlight, ReviewQueue!NoPost
    <2>4. PostsOK'
        BY <2>1, <2>2 DEF PostsOK, ReviewQueue!NoPost
    <2>5. ASSUME NEW lock \in {"action", "assignment"}, NEW q \in ReviewQueue!InFlight(lock)'
          PROVE  says'[lock].st = "submitting" /\ ReviewQueue!InFlight(lock)' = {q}
        <3>1. q \in ReviewQueue!InFlight(lock) /\ q # p
            BY <2>3, <2>5
        <3>2. says[lock].st = "submitting" /\ ReviewQueue!InFlight(lock) = {q}
            BY <3>1 DEF LocksOK
        <3>3. p \notin ReviewQueue!InFlight(lock)
            BY <3>1, <3>2
        <3>4. ReviewQueue!LockOf[posts[p].act] # lock
            BY <2>2, <3>3 DEF ReviewQueue!InFlight
        <3> QED
            BY <2>1, <2>3, <3>2, <3>3, <3>4 DEF PostsOK
    <2>6. ASSUME ~hopped, NEW q \in ReviewQueue!InFlight("rollback")'
          PROVE  /\ says'.rollback.st = "submitting" /\ says'.rollback.on = posts'[q].on
                 /\ ReviewQueue!InFlight("rollback")' = {q}
        <3>1. q \in ReviewQueue!InFlight("rollback") /\ q # p
            BY <2>3, <2>6
        <3>2. /\ says.rollback.st = "submitting" /\ says.rollback.on = posts[q].on
              /\ ReviewQueue!InFlight("rollback") = {q}
            BY <2>6, <3>1 DEF LocksOK
        <3>3. p \notin ReviewQueue!InFlight("rollback")
            BY <3>1, <3>2
        <3>4. ReviewQueue!LockOf[posts[p].act] # "rollback"
            BY <2>2, <3>3 DEF ReviewQueue!InFlight
        <3>5. posts'[q] = posts[q]
            BY <2>1, <3>1 DEF PostsOK, ReviewQueue!InFlight
        <3> QED
            BY <2>1, <2>3, <3>2, <3>3, <3>4, <3>5 DEF PostsOK
    <2> QED
        BY <2>2, <2>4, <2>5, <2>6 DEF LocksOK
<1>5. ASSUME NEW r \in Reviews, NEW act \in {"approve", "reject", "activate"},
             NEW arg \in {"replace", None},
             ReviewQueue!Submit(act, r, arg), says.action.st # "submitting", hopped' = hopped
      PROVE  (PostsOK /\ LocksOK)'
    <2>1. /\ act \in DOMAIN ReviewQueue!LockOf /\ ReviewQueue!LockOf[act] = "action"
          /\ act # "rollback" /\ arg \in {"viewer", "other", "replace", None}
        OBVIOUS
    <2> QED
        BY <1>2, <1>5, <2>1
<1>6. CASE ReviewQueue!handleDecision \/ ReviewQueue!handleActivate
    BY <1>5, <1>6 DEF ReviewQueue!handleDecision, ReviewQueue!handleActivate,
        ReviewQueue!decisionEnabled, ReviewQueue!activateEnabled
<1>7. CASE ReviewQueue!handleAssign
    <2>1. PICK r \in Reviews, to \in {None, "viewer", "other"} :
            /\ says.assignment.st # "submitting" /\ hopped' = hopped
            /\ IF to = None
               THEN /\ says' = [says EXCEPT !.assignment = [ on |-> r, st |-> "error" ]]
                    /\ UNCHANGED posts
               ELSE ReviewQueue!Submit("assign", r, to)
        BY <1>7 DEF ReviewQueue!handleAssign, ReviewQueue!assignmentEnabled
    <2>2. CASE to = None
        <3>1. PostsOK'
            BY <2>1, <2>2 DEF PostsOK
        <3>2. \A lock : ReviewQueue!InFlight(lock)' = ReviewQueue!InFlight(lock)
            BY <2>1, <2>2 DEF ReviewQueue!InFlight
        <3> QED
            BY <2>1, <2>2, <3>1, <3>2 DEF LocksOK, PostsOK
    <2>3. CASE to # None
        BY <1>2, <2>1, <2>3
    <2> QED
        BY <2>2, <2>3
<1>8. CASE ReviewQueue!handleCreateRollbackDraft
    <2>1. PICK r \in Reviews :
            /\ ReviewQueue!Submit("rollback", r, None)
            /\ ~(says.rollback.on = r /\ says.rollback.st = "submitting")
            /\ hopped' = (hopped \/ (says.rollback.st = "submitting" /\ says.rollback.on # r))
        BY <1>8 DEF ReviewQueue!handleCreateRollbackDraft, ReviewQueue!rollbackEnabled
    <2>2. hopped' \in BOOLEAN /\ (hopped => hopped')
          /\ (~hopped' => says.rollback.st # "submitting")
        BY <2>1
    <2> QED
        BY <1>2, <2>1, <2>2
<1> QED
    BY <1>1, <1>3, <1>4, <1>5, <1>6, <1>7, <1>8 DEF ReviewQueue!Next, ReviewQueue!Answers,
        ReviewQueue!ShowActor, ReviewQueue!ShowReviews, ReviewQueue!FailReviews,
        ReviewQueue!ShowDiffs, ReviewQueue!ReadReviews, ReviewQueue!OthersReview

LEMMA NoneTwice ==
    ASSUME PostsOK, LocksOK
    PROVE  ReviewQueue!OneAtATime
<1>1. ASSUME NEW lock,
             \A p \in ReviewQueue!InFlight(lock) : ReviewQueue!InFlight(lock) = {p}
      PROVE  Cardinality(ReviewQueue!InFlight(lock)) <= 1
    <2>1. CASE ReviewQueue!InFlight(lock) = {}
        BY <2>1, FS_EmptySet
    <2>2. ASSUME NEW p \in ReviewQueue!InFlight(lock)
          PROVE  Cardinality(ReviewQueue!InFlight(lock)) = 1
        BY <1>1, <2>2, FS_Singleton
    <2> QED
        BY <2>1, <2>2
<1>2. \A lock \in {"action", "assignment"} : Cardinality(ReviewQueue!InFlight(lock)) <= 1
    <2> SUFFICES ASSUME NEW lock \in {"action", "assignment"}
                 PROVE  Cardinality(ReviewQueue!InFlight(lock)) <= 1
        OBVIOUS
    <2>1. \A p \in ReviewQueue!InFlight(lock) : ReviewQueue!InFlight(lock) = {p}
        BY DEF LocksOK
    <2> QED
        BY <1>1, <2>1
<1>3. ~hopped => Cardinality(ReviewQueue!InFlight("rollback")) <= 1
    <2> SUFFICES ASSUME ~hopped
                 PROVE  Cardinality(ReviewQueue!InFlight("rollback")) <= 1
        OBVIOUS
    <2>1. \A p \in ReviewQueue!InFlight("rollback") : ReviewQueue!InFlight("rollback") = {p}
        BY DEF LocksOK
    <2> QED
        BY <1>1, <2>1
<1> QED
    BY <1>2, <1>3, Zenon DEF ReviewQueue!OneAtATime, ReviewQueue!Cardinality, Cardinality

-----------------------------------------------------------------------------
\* As parts of Console.

LEMMA StepOfPart ==
    ASSUME [Next]_vars
    PROVE  /\ mounted = "form" => Form!Next \/ UNCHANGED formVars
           /\ mounted = "reviews" => ReviewQueue!Next \/ UNCHANGED reviewQueueVars
<1>1. CASE OnlyForm /\ Form!Next
    BY <1>1 DEF OnlyForm
<1>2. CASE OnlyReviewQueue /\ ReviewQueue!Next
    BY <1>2 DEF OnlyReviewQueue
<1>3. CASE OnlyAccess \/ OnlyEditor \/ OnlyLists \/ OnlyFolders \/ OnlyRecords
    BY <1>3 DEF OnlyAccess, OnlyEditor, OnlyLists, OnlyFolders, OnlyRecords
<1>4. CASE OnlyGrantTable \/ OnlySourceReview \/ OnlyQueue
    BY <1>4 DEF OnlyGrantTable, OnlySourceReview, OnlyQueue
<1>5. CASE UNCHANGED vars
    BY <1>5 DEF vars, pageVars, olderVars
<1> QED
    BY <1>1, <1>2, <1>3, <1>4, <1>5 DEF Next

LEMMA PartStart == Init => PartInv
<1> SUFFICES ASSUME Init PROVE PartInv
    OBVIOUS
<1>1. /\ mounted = "form" => Form!Init
      /\ mounted = "reviews" => ReviewQueue!Init
    BY DEF Init
<1> QED
    BY <1>1, FormStart, ReviewsStart DEF PartInv

LEMMA PartStep ==
    ASSUME PartInv, [Next]_vars
    PROVE  /\ PartInv'
           /\ [ mounted = "form" =>
                  Form!SensitiveStatusConfirmed /\ Form!NothingDroppedSilently ]_vars
<1>1. mounted' = mounted
    BY StepOfPage
<1>2. CASE mounted = "form"
    <2>1. FormInv
        BY <1>2 DEF PartInv
    <2>2. CASE Form!Next
        BY <1>1, <1>2, <2>1, <2>2, FormStep DEF PartInv
    <2>3. CASE UNCHANGED formVars
        <3>1. FormInv'
            BY <2>1, <2>3 DEF formVars, FormInv, FormTypeOK, FormStarts, AgentRemembered,
                GrantsRemembered, ConfirmationFits, NothingForgotten, Form!Known,
                Form!Submitting
        <3>2. Form!SensitiveStatusConfirmed /\ Form!NothingDroppedSilently
            BY <2>3 DEF formVars, Form!SensitiveStatusConfirmed, Form!NothingDroppedSilently
        <3> QED
            BY <1>1, <1>2, <3>1, <3>2 DEF PartInv
    <2> QED
        BY <1>2, <2>2, <2>3, StepOfPart
<1>3. CASE mounted = "reviews"
    <2>1. PostsOK /\ LocksOK
        BY <1>3 DEF PartInv
    <2>2. CASE ReviewQueue!Next
        BY <1>1, <1>3, <2>1, <2>2, ReviewsStep DEF PartInv
    <2>3. CASE UNCHANGED reviewQueueVars
        <3>1. (PostsOK /\ LocksOK)'
            BY <2>1, <2>3 DEF reviewQueueVars, PostsOK, LocksOK, ReviewQueue!InFlight
        <3> QED
            BY <1>1, <1>3, <3>1 DEF PartInv
    <2> QED
        BY <1>3, <2>2, <2>3, StepOfPart
<1>4. CASE mounted \notin {"form", "reviews"}
    BY <1>1, <1>4 DEF PartInv
<1> QED
    BY <1>2, <1>3, <1>4

\* However often a submission is repeated after failures and lost answers, and whatever
\* the user selects or edits meanwhile, the form registers no agent and declares no
\* target twice; and no review is decided, assigned or rolled back twice at once.
THEOREM StoredOnce == Spec => []NothingIsStoredTwice
<1>1. PartInv => NothingIsStoredTwice
    <2>1. FormInv => Form!RegistersOnce /\ Form!GrantsOncePerTarget
        <3> SUFFICES ASSUME FormInv
                     PROVE  Form!RegistersOnce /\ Form!GrantsOncePerTarget
            OBVIOUS
        <3>1. agents \in Nat /\ lost["agent"] \in Nat
              /\ agents <= lost["agent"] + (IF ui.created THEN 1 ELSE 0)
            BY DEF FormInv, FormTypeOK, AgentRemembered
        <3>2. \A t \in Targets : granted[t] \in Nat /\ lost[t] \in Nat
                                 /\ granted[t] <= lost[t] + 1
            BY DEF FormInv, FormTypeOK, GrantsRemembered
        <3> QED
            BY <3>1, <3>2 DEF Form!RegistersOnce, Form!GrantsOncePerTarget
    <2> QED
        BY <2>1, NoneTwice DEF PartInv, NothingIsStoredTwice
<1> QED
    BY <1>1, PartStart, PartStep, PTL DEF Spec

\* The backend only gets a sensitive status that the user has confirmed for that very
\* status, and each declaration of a submission ends up stored or shown as failed.
THEOREM SubmissionsAreFaithful == Spec => SubmissionIsFaithful
BY PartStart, PartStep, PTL DEF Spec, SubmissionIsFaithful

-----------------------------------------------------------------------------
\* The inventory lists: one load waits at a time, and its profiles are asked for the
\* sources that it has listed.

InventoryList ==
    [ st : {"loading", "ready", "error"}, rows : SUBSET (Sources \cup {"models", "capabilities"}),
      of : SUBSET Sources ]

Round ==
    [ sources : {"no", "sent", "done"}, profiles : {"no", "wait", "sent", "done"},
      asked : SUBSET Sources, models : {"no", "sent", "done"},
      capabilities : {"no", "sent", "done"} ]

ListsTypeOK ==
    /\ registered \in SUBSET Sources
    /\ list \in [ {"sources", "profiles", "models", "capabilities"} -> InventoryList ]
    /\ rounds \in [ Lists!LoadIds -> Round ]

ListsCoherent ==
    ~overlapped =>
        /\ \A l \in Lists!LoadIds : \A k \in 1..(l - 1) :
                rounds[l].sources # "no" => Lists!Ended(k)
        /\ \A l \in Lists!LoadIds :
            /\ rounds[l].sources \in {"no", "sent"} => rounds[l].profiles # "sent"
            /\ rounds[l].sources = "sent" => list.sources.st = "loading"
                                             /\ list.profiles.st = "loading"
            /\ rounds[l].profiles = "sent" => /\ rounds[l].asked = list.sources.rows
                                              /\ list.profiles.st = "loading"
        /\ Lists!ProfilesAreOfTheSources

ListsInv == ListsTypeOK /\ ListsCoherent

LEMMA ListFacts ==
    /\ Lists!Reset \in InventoryList /\ Lists!Asked \in Round /\ Lists!NoLoad \in Round
    /\ \A st \in {"loading", "ready", "error"} :
        \A rows \in SUBSET (Sources \cup {"models", "capabilities"}), of \in SUBSET Sources :
            [ st |-> st, rows |-> rows, of |-> of ] \in InventoryList
    /\ \A st \in {"loading", "ready", "error"} :
            [Lists!Reset EXCEPT !.st = st] = [ st |-> st, rows |-> {}, of |-> {} ]
BY DEF InventoryList, Round, Lists!Reset, Lists!Asked, Lists!NoLoad

LEMMA RoundFacts ==
    ASSUME NEW r \in Round
    PROVE  /\ r.sources \in {"no", "sent", "done"}
           /\ r.profiles \in {"no", "wait", "sent", "done"}
           /\ r.asked \in SUBSET Sources
BY DEF Round

LEMMA ListsStart == Lists!Init => ListsInv
<1> SUFFICES ASSUME Lists!Init PROVE ListsInv
    OBVIOUS
<1>1. ListsTypeOK
    <2>1. registered \in SUBSET Sources
        BY PartsAssumption DEF Lists!Init, Lists!ProfiledAssumption
    <2> QED
        BY <2>1, ListFacts DEF Lists!Init, ListsTypeOK, Lists!Simple
<1>2. /\ \A l \in Lists!LoadIds : l # 1 => rounds[l].sources = "no" /\ rounds[l].profiles = "no"
      /\ \A l \in Lists!LoadIds : l = 1 => rounds[l].sources = "sent" /\ rounds[l].profiles = "wait"
      /\ list.sources.st = "loading" /\ list.profiles.st = "loading"
    BY DEF Lists!Init, Lists!Reset, Lists!Asked, Lists!NoLoad
<1>3. \A l \in Lists!LoadIds : \A k \in 1..(l - 1) : l # 1
    BY DEF Lists!LoadIds
<1> QED
    BY <1>1, <1>2, <1>3 DEF ListsInv, ListsCoherent, Lists!ProfilesAreOfTheSources

\* While loads do not overlap at most one waits for sources or profiles.
LEMMA OneLoadWaits ==
    ASSUME ListsTypeOK, ListsCoherent, ~overlapped, NEW l \in Lists!LoadIds,
           rounds[l].sources = "sent" \/ rounds[l].profiles = "sent"
    PROVE  \A m \in Lists!LoadIds : m # l =>
               rounds[m].sources # "sent" /\ rounds[m].profiles # "sent"
<1>1. SUFFICES ASSUME NEW m \in Lists!LoadIds, m # l
               PROVE  rounds[m].sources # "sent" /\ rounds[m].profiles # "sent"
    OBVIOUS
<1>2. rounds[l].sources # "no" /\ ~Lists!Ended(l)
    BY RoundFacts DEF ListsCoherent, ListsTypeOK, Lists!Ended
<1>3. CASE m \in 1..(l - 1)
    BY <1>2, <1>3 DEF ListsCoherent, Lists!Ended
<1>4. CASE l \in 1..(m - 1)
    BY <1>2, <1>4 DEF ListsCoherent
<1> QED
    BY <1>1, <1>3, <1>4 DEF Lists!LoadIds

\* Load l goes on and no other.
LEMMA LoadGoesOn ==
    ASSUME ListsTypeOK, ListsCoherent, ~overlapped, ListsTypeOK', NEW l \in Lists!LoadIds,
           ~Lists!Ended(l) \/ Lists!Ended(l)',
           \A m \in Lists!LoadIds : m # l => rounds'[m] = rounds[m],
           rounds'[l].sources # "no" => rounds[l].sources # "no"
    PROVE  \A m \in Lists!LoadIds : \A k \in 1..(m - 1) :
                rounds'[m].sources # "no" => Lists!Ended(k)'
<1>1. SUFFICES ASSUME NEW m \in Lists!LoadIds, NEW k \in 1..(m - 1), rounds'[m].sources # "no"
               PROVE  Lists!Ended(k)'
    OBVIOUS
<1>2. k \in Lists!LoadIds
    BY <1>1, BoundsAssumption DEF Lists!LoadIds
<1>3. Lists!Ended(k)
    BY <1>1 DEF ListsCoherent
<1>4. CASE k = l
    BY <1>3, <1>4
<1>5. CASE k # l
    BY <1>2, <1>3, <1>5 DEF Lists!Ended
<1> QED
    BY <1>4, <1>5

LEMMA ListsStep ==
    ASSUME ListsInv, Lists!Next
    PROVE  ListsInv'
<1> USE DEF ListsInv
<1>1. CASE Lists!RegisterSource
    BY <1>1 DEF Lists!RegisterSource, ListsTypeOK, ListsCoherent, Lists!Ended,
                Lists!ProfilesAreOfTheSources
<1>2. CASE Lists!loadAccessData
    <2>1. PICK l \in Lists!LoadIds :
            /\ l # 1 /\ rounds[l].sources = "no"
            /\ rounds' = [rounds EXCEPT ![l] = Lists!Asked]
            /\ overlapped' = (overlapped \/ \E k \in 1..(l - 1) : ~Lists!Ended(k))
            /\ list' = [k \in {"sources", "profiles"} \cup Lists!Simple |-> Lists!Reset]
            /\ UNCHANGED registered
        BY <1>2 DEF Lists!loadAccessData
    <2>2. ListsTypeOK'
        BY <2>1, ListFacts DEF ListsTypeOK, Lists!Simple
    <2>3. ASSUME ~overlapped'
          PROVE  ListsCoherent'
        <3>1. /\ ~overlapped /\ \A k \in 1..(l - 1) : Lists!Ended(k)
              /\ list'.sources.st = "loading" /\ list'.profiles.st = "loading"
            BY <2>1, <2>3 DEF Lists!Reset
        <3>2. \A m \in Lists!LoadIds : m # l => rounds'[m] = rounds[m]
            BY <2>1 DEF ListsTypeOK
        <3>3. rounds'[l].sources = "sent" /\ rounds'[l].profiles = "wait"
            BY <2>1 DEF ListsTypeOK, Lists!Asked
        <3>4. \A m \in Lists!LoadIds : m # l => rounds[m].profiles # "sent"
            <4>1. SUFFICES ASSUME NEW m \in Lists!LoadIds, m # l
                           PROVE  rounds[m].profiles # "sent"
                OBVIOUS
            <4>2. CASE m \in 1..(l - 1)
                BY <3>1, <4>2 DEF Lists!Ended
            <4>3. CASE l \in 1..(m - 1)
                BY <2>1, <3>1, <4>3 DEF ListsCoherent, Lists!Ended
            <4> QED
                BY <4>1, <4>2, <4>3 DEF Lists!LoadIds
        <3>5. ASSUME NEW m \in Lists!LoadIds, NEW k \in 1..(m - 1), rounds'[m].sources # "no"
              PROVE  Lists!Ended(k)'
            <4>1. k \in Lists!LoadIds
                BY <3>5, BoundsAssumption DEF Lists!LoadIds
            <4>2. Lists!Ended(k)
                BY <3>1, <3>2, <3>5 DEF ListsCoherent
            <4>3. k # l
                BY <2>1, <4>2 DEF Lists!Ended
            <4> QED
                BY <3>2, <4>1, <4>2, <4>3 DEF Lists!Ended
        <3> QED
            BY <3>1, <3>2, <3>3, <3>4, <3>5 DEF ListsCoherent, Lists!ProfilesAreOfTheSources
    <2> QED
        BY <2>2, <2>3 DEF ListsCoherent
<1>3. ASSUME NEW l \in Lists!LoadIds, NEW k \in Lists!Simple, Lists!ShowSimple(l, k)
      PROVE  ListsInv'
    <2>1. /\ rounds' = [rounds EXCEPT ![l][k] = "done"]
          /\ list' = [list EXCEPT ![k] = [ st |-> "ready", rows |-> {k}, of |-> {} ]]
             \/ list' = [list EXCEPT ![k] = [Lists!Reset EXCEPT !.st = "error"]]
          /\ UNCHANGED <<registered, overlapped>>
        BY <1>3 DEF Lists!ShowSimple
    <2>2. k \in {"models", "capabilities"}
        BY DEF Lists!Simple
    <2>3. PICK q \in Round :
            /\ rounds' = [rounds EXCEPT ![l] = q]
            /\ q.sources = rounds[l].sources /\ q.asked = rounds[l].asked
            /\ q.profiles = rounds[l].profiles /\ q[k] = "done"
            /\ \A j \in {"models", "capabilities"} : j # k => q[j] = rounds[l][j]
        <3>1. PICK r \in Round : r = rounds[l]
            BY DEF ListsTypeOK
        <3> DEFINE q == [r EXCEPT ![k] = "done"]
        <3>2. q \in Round
            BY <2>2 DEF Round, ListsTypeOK
        <3>3. rounds' = [rounds EXCEPT ![l] = q]
            BY <2>1, <3>1
        <3> QED
            BY <2>2, <3>1, <3>2, <3>3 DEF Round
    <2>8. PICK x \in InventoryList : list' = [list EXCEPT ![k] = x]
        <3>1. {k} \in SUBSET (Sources \cup {"models", "capabilities"})
            BY <2>2
        <3>2. CASE list' = [list EXCEPT ![k] = [ st |-> "ready", rows |-> {k}, of |-> {} ]]
            BY <3>1, <3>2, ListFacts
        <3>3. CASE list' = [list EXCEPT ![k] = [Lists!Reset EXCEPT !.st = "error"]]
            BY <3>3, ListFacts
        <3> QED
            BY <2>1, <3>2, <3>3
    <2>4. ListsTypeOK'
        BY <2>1, <2>2, <2>3, <2>8 DEF ListsTypeOK
    <2>5. /\ \A m \in Lists!LoadIds : /\ rounds'[m].sources = rounds[m].sources
                                      /\ rounds'[m].profiles = rounds[m].profiles
                                      /\ rounds'[m].asked = rounds[m].asked
          /\ list'.sources = list.sources /\ list'.profiles = list.profiles
        BY <2>2, <2>3, <2>8 DEF ListsTypeOK
    <2>6. \A m \in Lists!LoadIds : Lists!Ended(m) => Lists!Ended(m)'
        BY <2>2, <2>3, <2>5, RoundFacts DEF ListsTypeOK, Lists!Ended, Lists!Simple
    <2>7. \A m \in Lists!LoadIds : \A j \in 1..(m - 1) : j \in Lists!LoadIds
        BY BoundsAssumption DEF Lists!LoadIds
    <2> QED
        BY <2>1, <2>4, <2>5, <2>6, <2>7 DEF ListsCoherent, Lists!ProfilesAreOfTheSources
<1>4. ASSUME NEW l \in Lists!LoadIds, Lists!ShowSources(l)
      PROVE  ListsInv'
    <2> DEFINE to == IF registered = {} THEN "done" ELSE "sent"
               profiles == IF registered = {} THEN [Lists!Reset EXCEPT !.st = "ready"]
                                              ELSE list.profiles
    <2>1. /\ rounds[l].sources = "sent"
          /\ rounds' = [rounds EXCEPT ![l].sources = "done", ![l].asked = registered,
                                      ![l].profiles = to]
          /\ list' = [list EXCEPT !.sources = [ st |-> "ready", rows |-> registered, of |-> {} ],
                                  !.profiles = profiles]
          /\ UNCHANGED <<registered, overlapped>>
        BY <1>4 DEF Lists!ShowSources, ListsTypeOK
    <2>2. to \in {"done", "sent"}
        OBVIOUS
    <2>3. /\ registered = {} => profiles = [ st |-> "ready", rows |-> {}, of |-> {} ] /\ to = "done"
          /\ registered # {} => profiles = list.profiles /\ to = "sent"
        BY DEF Lists!Reset
    <2> HIDE DEF to, profiles
    <2>7. PICK q \in Round :
            /\ rounds' = [rounds EXCEPT ![l] = q]
            /\ q.sources = "done" /\ q.asked = registered /\ q.profiles = to
        <3>1. PICK r \in Round : r = rounds[l]
            BY DEF ListsTypeOK
        <3> DEFINE q == [r EXCEPT !.sources = "done", !.asked = registered, !.profiles = to]
        <3>2. q \in Round
            BY <2>2 DEF Round, ListsTypeOK
        <3>3. rounds' = [rounds EXCEPT ![l] = q]
            BY <2>1, <3>1
        <3> QED
            BY <2>2, <3>1, <3>2, <3>3 DEF Round
    <2>4. ListsTypeOK'
        <3>1. profiles \in InventoryList
            BY <2>3, ListFacts DEF ListsTypeOK
        <3>2. [ st |-> "ready", rows |-> registered, of |-> {} ] \in InventoryList
            BY ListFacts DEF ListsTypeOK
        <3>3. rounds' \in [ Lists!LoadIds -> Round ]
            BY <2>2, <2>7, RoundFacts DEF ListsTypeOK
        <3> QED
            BY <2>1, <3>1, <3>2, <3>3 DEF ListsTypeOK
    <2>5. /\ \A m \in Lists!LoadIds : m # l => rounds'[m] = rounds[m]
          /\ rounds'[l].sources = "done" /\ rounds'[l].asked = registered
          /\ rounds'[l].profiles = to
          /\ list'.sources = [ st |-> "ready", rows |-> registered, of |-> {} ]
          /\ list'.profiles = profiles
        BY <2>1, <2>2, <2>7, RoundFacts DEF ListsTypeOK
    <2>6. ASSUME ~overlapped'
          PROVE  ListsCoherent'
        <3>1. ~overlapped /\ list.profiles.st = "loading"
            BY <2>1, <2>6 DEF ListsCoherent
        <3>2. \A m \in Lists!LoadIds : m # l =>
                    rounds[m].sources # "sent" /\ rounds[m].profiles # "sent"
            BY <2>1, <3>1, OneLoadWaits
        <3>3. \A m \in Lists!LoadIds : \A k \in 1..(m - 1) :
                rounds'[m].sources # "no" => Lists!Ended(k)'
            <4>1. ~Lists!Ended(l)
                BY <2>1 DEF Lists!Ended
            <4> QED
                BY <2>1, <2>4, <2>5, <3>1, <4>1, LoadGoesOn
        <3> QED
            <4>1. CASE registered = {}
                BY <2>3, <2>5, <3>2, <3>3, <4>1 DEF ListsCoherent, Lists!ProfilesAreOfTheSources
            <4>2. CASE registered # {}
                BY <2>3, <2>5, <3>1, <3>2, <3>3, <4>2
                DEF ListsCoherent, Lists!ProfilesAreOfTheSources
            <4> QED
                BY <4>1, <4>2
    <2> QED
        BY <2>4, <2>6 DEF ListsCoherent
<1>5. ASSUME NEW l \in Lists!LoadIds, Lists!FailSources(l)
      PROVE  ListsInv'
    <2>1. /\ rounds[l].sources = "sent"
          /\ rounds' = [rounds EXCEPT ![l].sources = "done", ![l].profiles = "done"]
          /\ list' = [list EXCEPT !.sources = [Lists!Reset EXCEPT !.st = "error"],
                                  !.profiles = [Lists!Reset EXCEPT !.st = "error"]]
          /\ UNCHANGED <<registered, overlapped>>
        BY <1>5 DEF Lists!FailSources
    <2>5. PICK q \in Round :
            /\ rounds' = [rounds EXCEPT ![l] = q]
            /\ q.sources = "done" /\ q.profiles = "done"
        <3>1. PICK r \in Round : r = rounds[l]
            BY DEF ListsTypeOK
        <3> DEFINE q == [r EXCEPT !.sources = "done", !.profiles = "done"]
        <3>2. q \in Round
            BY <2>1 DEF Round, ListsTypeOK
        <3>3. rounds' = [rounds EXCEPT ![l] = q]
            BY <2>1, <3>1
        <3> QED
            BY <2>1, <3>1, <3>2, <3>3 DEF Round
    <2>6. PICK x \in InventoryList :
            x.st = "error" /\ list' = [list EXCEPT !.sources = x, !.profiles = x]
        BY <2>1 DEF Lists!Reset, InventoryList
    <2>2. ListsTypeOK'
        <3>1. list' \in [ {"sources", "profiles", "models", "capabilities"} -> InventoryList ]
            BY <2>6 DEF ListsTypeOK
        <3>2. rounds' \in [ Lists!LoadIds -> Round ]
            BY <2>5 DEF ListsTypeOK
        <3> QED
            BY <2>1, <3>1, <3>2 DEF ListsTypeOK
    <2>3. /\ \A m \in Lists!LoadIds : m # l => rounds'[m] = rounds[m]
          /\ rounds'[l].sources = "done" /\ rounds'[l].profiles = "done"
          /\ list'.sources.st = "error"
        BY <2>5, <2>6 DEF ListsTypeOK
    <2>4. ASSUME ~overlapped'
          PROVE  ListsCoherent'
        <3>1. ~overlapped
            BY <2>1, <2>4
        <3>2. \A m \in Lists!LoadIds : m # l =>
                    rounds[m].sources # "sent" /\ rounds[m].profiles # "sent"
            BY <2>1, <3>1, OneLoadWaits
        <3>3. \A m \in Lists!LoadIds : \A k \in 1..(m - 1) :
                rounds'[m].sources # "no" => Lists!Ended(k)'
            <4>1. ~Lists!Ended(l)
                BY <2>1 DEF Lists!Ended
            <4> QED
                BY <2>1, <2>2, <2>3, <3>1, <4>1, LoadGoesOn
        <3> QED
            BY <2>3, <3>1, <3>2, <3>3 DEF ListsCoherent, Lists!ProfilesAreOfTheSources
    <2> QED
        BY <2>2, <2>4 DEF ListsCoherent
<1>6. ASSUME NEW l \in Lists!LoadIds, Lists!ShowProfiles(l)
      PROVE  ListsInv'
    <2>1. PICK failed :
          /\ rounds[l].profiles = "sent"
          /\ rounds' = [rounds EXCEPT ![l].profiles = "done", ![l].asked = {}]
          /\ list' = [list EXCEPT !.profiles =
                [ st |-> "ready", of |-> rounds[l].asked,
                  rows |-> (rounds[l].asked \cap Profiled) \ failed ]]
          /\ UNCHANGED <<registered, overlapped>>
        BY <1>6 DEF Lists!ShowProfiles
    <2>5. PICK q \in Round :
            /\ rounds' = [rounds EXCEPT ![l] = q]
            /\ q.sources = rounds[l].sources /\ q.profiles = "done"
        <3>1. PICK r \in Round : r = rounds[l]
            BY DEF ListsTypeOK
        <3> DEFINE q == [r EXCEPT !.profiles = "done", !.asked = {}]
        <3>2. q \in Round
            BY <2>1 DEF Round, ListsTypeOK
        <3>3. rounds' = [rounds EXCEPT ![l] = q]
            BY <2>1, <3>1
        <3> QED
            BY <2>1, <3>1, <3>2, <3>3 DEF Round
    <2>6. PICK x \in InventoryList :
            x.of = rounds[l].asked /\ list' = [list EXCEPT !.profiles = x]
        <3>1. rounds[l].asked \in SUBSET Sources
            BY RoundFacts DEF ListsTypeOK
        <3>2. [ st |-> "ready", of |-> rounds[l].asked,
                rows |-> (rounds[l].asked \cap Profiled) \ failed ] \in InventoryList
            BY <3>1 DEF InventoryList
        <3> QED
            BY <2>1, <3>2
    <2>2. ListsTypeOK'
        <3>1. registered' \in SUBSET Sources /\ rounds' \in [Lists!LoadIds -> Round]
            BY <2>1, <2>5 DEF ListsTypeOK
        <3>2. list' \in [ {"sources", "profiles", "models", "capabilities"} -> InventoryList ]
            BY <2>6 DEF ListsTypeOK
        <3> QED
            BY <3>1, <3>2 DEF ListsTypeOK
    <2>3. /\ \A m \in Lists!LoadIds : m # l => rounds'[m] = rounds[m]
          /\ rounds'[l].sources = rounds[l].sources /\ rounds'[l].profiles = "done"
          /\ list'.sources = list.sources
          /\ list'.profiles.of = rounds[l].asked
        BY <2>5, <2>6 DEF ListsTypeOK
    <2>4. ASSUME ~overlapped'
          PROVE  ListsCoherent'
        <3>1. ~overlapped /\ rounds[l].sources = "done" /\ rounds[l].asked = list.sources.rows
            BY <2>1, <2>4, RoundFacts DEF ListsCoherent, ListsTypeOK
        <3>2. \A m \in Lists!LoadIds : m # l =>
                    rounds[m].sources # "sent" /\ rounds[m].profiles # "sent"
            BY <2>1, <3>1, OneLoadWaits
        <3>3. \A m \in Lists!LoadIds : \A k \in 1..(m - 1) :
                rounds'[m].sources # "no" => Lists!Ended(k)'
            <4>1. ~Lists!Ended(l)
                BY <2>1 DEF Lists!Ended
            <4> QED
                BY <2>1, <2>2, <2>3, <3>1, <4>1, LoadGoesOn
        <3> QED
            BY <2>3, <3>1, <3>2, <3>3 DEF ListsCoherent, Lists!ProfilesAreOfTheSources
    <2> QED
        BY <2>2, <2>4 DEF ListsCoherent
<1> QED
    BY <1>1, <1>2, <1>3, <1>4, <1>5, <1>6 DEF Lists!Next, Lists!Answers, Lists!Answer

-----------------------------------------------------------------------------
\* The shell, the overview and the evidence lookup.

\* A profile that was asked for is that of the agent it is shown for, and it is on
\* loading until it or an error has arrived.
WatchOK(w) ==
    /\ w = [ search |-> w.search, selected |-> w.selected, of |-> w.of,
             st |-> w.st, asked |-> w.asked ]
    /\ w.of = None => w.asked = {}
    /\ w.of # None => \/ w.asked = {} /\ w.st \in {"ready", "error"}
                      \/ w.asked = {w.of} /\ w.st = "loading"

LookupOK(u) ==
    /\ u = [ input |-> u.input, st |-> u.st, label |-> u.label,
             bundle |-> u.bundle, sent |-> u.sent ]
    /\ u.bundle # None => u.label = u.bundle

RecordsInv ==
    /\ asks = {nav} \/ (asks = {} /\ badge = nav)
    /\ WatchOK(watch)
    /\ watch.selected # None => watch.of = watch.selected
    /\ data.failed \in SUBSET (1..8)
    /\ data.errors = { Records!labels(i) : i \in data.failed }
    /\ LookupOK(lookup)

LEMMA RecordsStart == Records!Init => RecordsInv
<1> SUFFICES ASSUME Records!Init PROVE RecordsInv
    OBVIOUS
<1>1. WatchOK(watch) /\ watch.selected = None
    BY DEF Records!Init, Records!NoWatch, WatchOK
<1>2. LookupOK(lookup)
    BY DEF Records!Init, Records!NoLookup, LookupOK
<1>3. data.failed = {} /\ data.errors = {} /\ asks = {nav}
    BY DEF Records!Init, Records!NoData
<1> QED
    BY <1>1, <1>2, <1>3 DEF RecordsInv

LEMMA FirstAgent ==
    /\ \A order \in {AgentOrder, <<>>} : order # <<>> => order[1] \in Records!Agents
    /\ None \notin Records!Agents
<1>1. /\ AgentOrder \in Seq(Records!Agents) /\ AgentOrder # <<>> /\ None \notin Records!Agents
    BY PartsAssumption DEF Records!AgentsAssumption
<1>2. AgentOrder[1] \in Records!Agents
    BY <1>1
<1> QED
    BY <1>1, <1>2

LEMMA ProfileEffectKeeps ==
    ASSUME NEW w, WatchOK(w), NEW a, a # None
    PROVE  /\ WatchOK(Records!ProfileEffect(w, a))
           /\ Records!ProfileEffect(w, a).of = a
           /\ Records!ProfileEffect(w, a).selected = w.selected
BY DEF Records!ProfileEffect, WatchOK

LEMMA SelectKeeps ==
    ASSUME NEW w, WatchOK(w), NEW a
    PROVE  WatchOK([w EXCEPT !.selected = a]) /\ [w EXCEPT !.selected = a].selected = a
BY DEF WatchOK

LEMMA LookupKeeps ==
    ASSUME NEW u, LookupOK(u), NEW v, NEW a, NEW st, NEW left,
           \/ v = [u EXCEPT !.input = a]
           \/ v = [u EXCEPT !.st = st, !.label = a, !.bundle = None]
           \/ v = [u EXCEPT !.st = st, !.label = a, !.bundle = None, !.sent = left]
           \/ v = [u EXCEPT !.st = st, !.label = a, !.bundle = a, !.sent = left]
    PROVE  LookupOK(v)
<1>1. CASE v = [u EXCEPT !.input = a]
    BY <1>1 DEF LookupOK
<1>2. CASE v = [u EXCEPT !.st = st, !.label = a, !.bundle = None]
    BY <1>2 DEF LookupOK
<1>3. CASE v = [u EXCEPT !.st = st, !.label = a, !.bundle = None, !.sent = left]
    BY <1>3 DEF LookupOK
<1>4. CASE v = [u EXCEPT !.st = st, !.label = a, !.bundle = a, !.sent = left]
    BY <1>4 DEF LookupOK
<1> QED
    BY <1>1, <1>2, <1>3, <1>4

LEMMA RecordsStep ==
    ASSUME RecordsInv, Records!Next
    PROVE  RecordsInv'
<1> USE DEF RecordsInv
<1>1. CASE Records!Navigate
    <2>1. /\ asks' = {nav'} /\ data' = Records!NoData /\ watch' = Records!NoWatch
          /\ lookup' = Records!NoLookup
        BY <1>1 DEF Records!Navigate, Records!ShellAsks
    <2>2. WatchOK(watch') /\ watch'.selected = None
        BY <2>1 DEF Records!NoWatch, WatchOK
    <2>3. LookupOK(lookup')
        BY <2>1 DEF Records!NoLookup, LookupOK
    <2>4. data'.failed = {} /\ data'.errors = {}
        BY <2>1 DEF Records!NoData
    <2> QED
        BY <2>1, <2>2, <2>3, <2>4 DEF WatchOK, LookupOK
<1>2. CASE Records!ShowPendingApprovals
    BY <1>2 DEF Records!ShowPendingApprovals, WatchOK, LookupOK
<1>3. CASE Records!LoadOverview
    <2>1. PICK failed \in SUBSET (1..8), agts \in {AgentOrder, <<>>} :
            data' = [ agents |-> IF 1 \in failed THEN <<>> ELSE agts,
                      errors |-> { Records!labels(i) : i \in failed }, failed |-> failed ]
        BY <1>3 DEF Records!LoadOverview
    <2>2. Records!SelectionEffect(data'.agents) /\ UNCHANGED <<nav, asks, badge, lookup>>
        BY <1>3 DEF Records!LoadOverview
    <2>3. data'.agents \in {AgentOrder, <<>>}
        BY <2>1
    <2>4. /\ data'.failed \in SUBSET (1..8)
          /\ data'.errors = { Records!labels(i) : i \in data'.failed }
        BY <2>1
    <2>5. /\ WatchOK(watch')
          /\ watch'.selected # None => watch'.of = watch'.selected
        <3>1. PICK order \in {AgentOrder, <<>>} : order = data'.agents
            BY <2>3
        <3>2. CASE order = <<>>
            BY <2>2, <3>1, <3>2 DEF Records!SelectionEffect
        <3>3. CASE order # <<>>
            <4>1. PICK b : b = order[1]
                OBVIOUS
            <4>2. PICK a \in Records!Agents :
                    watch' = Records!ProfileEffect(
                        [Records!ProfileEffect(watch, a) EXCEPT !.selected = b], b)
                BY <2>2, <3>1, <3>3, <4>1 DEF Records!SelectionEffect
            <4>3. b # None /\ a # None
                BY <3>3, <4>1, FirstAgent
            <4>4. PICK v : v = Records!ProfileEffect(watch, a)
                OBVIOUS
            <4>5. WatchOK(v)
                BY <4>3, <4>4, ProfileEffectKeeps
            <4>6. PICK u : u = [v EXCEPT !.selected = b]
                OBVIOUS
            <4>7. WatchOK(u) /\ u.selected = b
                BY <4>5, <4>6, SelectKeeps
            <4> QED
                BY <4>2, <4>3, <4>4, <4>6, <4>7, ProfileEffectKeeps
        <3> QED
            BY <3>2, <3>3
    <2> QED
        BY <2>2, <2>4, <2>5 DEF WatchOK, LookupOK
<1>4. ASSUME NEW part, Records!LoadPart(part)
      PROVE  RecordsInv'
    BY <1>4 DEF Records!LoadPart, WatchOK, LookupOK
<1>5. CASE Records!ShowProfile
    <2>1. PICK a \in watch.asked, st \in {"ready", "error"} :
            watch' = [watch EXCEPT !.of = a, !.st = st, !.asked = @ \ {a}]
        BY <1>5 DEF Records!ShowProfile
    <2>2. UNCHANGED <<nav, asks, badge, data, lookup>>
        BY <1>5 DEF Records!ShowProfile
    <2>3. watch.of # None /\ watch.asked = {watch.of} /\ a = watch.of
        BY DEF WatchOK
    <2>4. WatchOK(watch') /\ watch'.of = watch.of /\ watch'.selected = watch.selected
        BY <2>1, <2>3 DEF WatchOK
    <2> QED
        BY <2>2, <2>4 DEF LookupOK
<1>6. CASE Records!ShowEvidence
    <2>1. PICK a, left :
            \/ lookup' = [lookup EXCEPT !.st = "ready", !.label = a, !.bundle = a, !.sent = left]
            \/ lookup' = [lookup EXCEPT !.st = "error", !.label = a, !.bundle = None,
                                        !.sent = left]
        BY <1>6 DEF Records!ShowEvidence, Records!Bundle
    <2>2. UNCHANGED <<nav, asks, badge, data, watch>>
        BY <1>6 DEF Records!ShowEvidence
    <2>3. LookupOK(lookup')
        BY <2>1, LookupKeeps
    <2> QED
        BY <2>2, <2>3 DEF WatchOK, LookupOK
<1>7. ASSUME NEW a, Records!SearchAgents(a)
      PROVE  RecordsInv'
    <2>1. watch' = [watch EXCEPT !.search = a] /\ UNCHANGED <<nav, asks, badge, data, lookup>>
        BY <1>7 DEF Records!SearchAgents
    <2>2. WatchOK(watch') /\ watch'.of = watch.of /\ watch'.selected = watch.selected
        BY <2>1 DEF WatchOK
    <2> QED
        BY <2>1, <2>2 DEF WatchOK, LookupOK
<1>8. ASSUME NEW a \in Records!Agents, Records!SelectAgent(a)
      PROVE  RecordsInv'
    <2>1. /\ watch' = Records!ProfileEffect([watch EXCEPT !.selected = a], a)
          /\ UNCHANGED <<nav, asks, badge, data, lookup>>
        BY <1>8 DEF Records!SelectAgent
    <2>2. a # None
        BY FirstAgent
    <2>4. PICK w : w = [watch EXCEPT !.selected = a]
        OBVIOUS
    <2>5. WatchOK(w) /\ w.selected = a
        BY <2>4, SelectKeeps
    <2>3. WatchOK(watch') /\ watch'.of = a /\ watch'.selected = a
        BY <2>1, <2>2, <2>4, <2>5, ProfileEffectKeeps
    <2> QED
        BY <2>1, <2>3 DEF WatchOK, LookupOK
<1>9. ASSUME NEW a, Records!TypeAgentId(a)
      PROVE  RecordsInv'
    BY <1>9, LookupKeeps DEF Records!TypeAgentId, WatchOK
<1>10. CASE Records!handleSubmit \/ Records!handleLoadEvidence
    <2>1. ASSUME NEW a, Records!AskEvidence(a)
          PROVE  LookupOK(lookup')
        <3>1. PICK left : lookup' = [lookup EXCEPT !.st = "loading", !.label = a,
                                                   !.bundle = None, !.sent = left]
            BY <2>1 DEF Records!AskEvidence
        <3> QED
            BY <3>1, LookupKeeps
    <2>2. ASSUME lookup' = [lookup EXCEPT !.st = "error", !.label = None, !.bundle = None]
          PROVE  LookupOK(lookup')
        BY <2>2, LookupKeeps
    <2>3. UNCHANGED <<nav, asks, badge, data, watch>>
        BY <1>10 DEF Records!handleSubmit, Records!handleLoadEvidence
    <2>4. LookupOK(lookup')
        BY <1>10, <2>1, <2>2 DEF Records!handleSubmit, Records!handleLoadEvidence
    <2> QED
        BY <2>3, <2>4 DEF WatchOK, LookupOK
<1> QED
    BY <1>1, <1>2, <1>3, <1>4, <1>5, <1>6, <1>7, <1>8, <1>9, <1>10
    DEF Records!Next, Records!Answers

LEMMA Labels ==
    \A i, j \in 1..8 : i # j => Records!labels(i) # Records!labels(j)
<1> SUFFICES ASSUME NEW i \in 1..8, NEW j \in 1..8, i # j
             PROVE  Records!labels(i) # Records!labels(j)
    OBVIOUS
<1>1. i \in {1, 2, 3, 4, 5, 6, 7, 8} /\ j \in {1, 2, 3, 4, 5, 6, 7, 8}
    OBVIOUS
<1> QED
    BY <1>1 DEF Records!labels, Records!OverviewReads

LEMMA Pairs ==
    ASSUME NEW x, NEW y, x # y
    PROVE  IsFiniteSet({x, y}) /\ Cardinality({x, y}) = 2
<1>1. IsFiniteSet({x}) /\ Cardinality({x}) = 1
    BY FS_Singleton
<1>2. {x, y} = {x} \cup {y} /\ y \notin {x}
    OBVIOUS
<1> QED
    BY <1>1, <1>2, FS_AddElement

LEMMA LeastNatural ==
    ASSUME NEW S \in SUBSET Nat, S # {}
    PROVE  \E m \in S : \A j \in S : m <= j
<1>1. PICK m \in S : \A j \in S : ~ (<<j, m>> \in OpToRel(<, Nat))
    BY NatLessThanWellFounded, WFMin
<1>2. \A j \in S : ~ (j < m)
    BY <1>1 DEF OpToRel
<1> QED
    BY <1>2

\* Of the failed reads the page names the first two, in their order.
LEMMA FirstTwoAreNamed ==
    ASSUME NEW failed \in SUBSET (1..8),
           NEW i \in failed, ~(Cardinality({ j \in failed : j < i }) < 2)
    PROVE  Cardinality({ Records!labels(k) : k \in { n \in failed :
                            Cardinality({ j \in failed : j < n }) < 2 } }) = 2
<1> DEFINE below(n) == { j \in failed : j < n }
<1>1. failed \in SUBSET Nat /\ failed \subseteq 1..8
    OBVIOUS
<1>3. PICK m \in failed : \A j \in failed : m <= j
    BY <1>1, LeastNatural
<1>4. below(i) \ {m} # {}
    <2>1. SUFFICES ASSUME below(i) \subseteq {m} PROVE FALSE
        OBVIOUS
    <2>2. below(i) = {} \/ below(i) = {m}
        BY <2>1
    <2>3. Cardinality(below(i)) \in {0, 1}
        BY <2>2, FS_EmptySet, FS_Singleton
    <2> QED
        BY <2>3
<1>5. PICK k \in failed \ {m} : \A j \in failed \ {m} : k <= j
    <2>1. failed \ {m} \in SUBSET Nat /\ failed \ {m} # {}
        BY <1>1, <1>4
    <2> QED
        BY <2>1, LeastNatural
<1>2. \A n \in failed : n \in Nat
    BY <1>1
<1>6. below(m) = {} /\ below(k) = {m}
    <2>1. \A j \in failed : ~(j < m)
        BY <1>2, <1>3
    <2>2. \A j \in failed : j < k <=> j = m
        BY <1>2, <1>3, <1>5
    <2> QED
        BY <2>1, <2>2
<1>7. Cardinality(below(m)) = 0 /\ Cardinality(below(k)) = 1
    BY <1>6, FS_EmptySet, FS_Singleton
<1>8. ASSUME NEW n \in failed, n # m, n # k
      PROVE  ~(Cardinality(below(n)) < 2)
    <2>1. {m, k} \subseteq below(n) /\ m # k
        BY <1>1, <1>3, <1>5, <1>8
    <2>2. IsFiniteSet(below(n))
        <3>1. 1 \in Int /\ 8 \in Int
            OBVIOUS
        <3>2. IsFiniteSet(1..8)
            BY <3>1, FS_Interval, Zenon
        <3>3. below(n) \in SUBSET (1..8)
            BY <1>1
        <3> QED
            BY <3>2, <3>3, FS_Subset
    <2>3. Cardinality({m, k}) = 2
        BY <2>1, Pairs
    <2>4. Cardinality({m, k}) <= Cardinality(below(n)) /\ Cardinality(below(n)) \in Nat
        BY <2>1, <2>2, FS_Subset, FS_CardinalityType
    <2> QED
        BY <2>3, <2>4
<1>9. { n \in failed : Cardinality(below(n)) < 2 } = {m, k}
    <2> HIDE DEF below
    <2>1. Cardinality(below(m)) < 2 /\ Cardinality(below(k)) < 2
        BY <1>7
    <2> QED
        BY <1>5, <1>8, <2>1, Zenon
<1>10. { Records!labels(n) : n \in {m, k} } = { Records!labels(m), Records!labels(k) }
    OBVIOUS
<1>11. Records!labels(m) # Records!labels(k)
    <2>1. m \in 1..8 /\ k \in 1..8 /\ m # k
        BY <1>1, <1>5
    <2> QED
        BY <2>1, Labels
<1>12. Cardinality({ Records!labels(n) : n \in {m, k} }) = 2
    BY <1>10, <1>11, Pairs
<1> QED
    BY <1>9, <1>12

LEMMA RecordsShow ==
    ASSUME RecordsInv
    PROVE  /\ Records!BadgeIsOfThisPage /\ Records!ProfileIsOfSelection
           /\ Records!FailuresAreAdmitted /\ Records!BundleIsLabelled
<1> USE DEF RecordsInv
<1>1. Records!BadgeIsOfThisPage
    BY DEF Records!BadgeIsOfThisPage
<1>2. Records!ProfileIsOfSelection /\ Records!BundleIsLabelled
    BY DEF Records!ProfileIsOfSelection, Records!BundleIsLabelled, WatchOK, LookupOK
<1>3. ASSUME parts["overview"].st = "ready"
      PROVE  /\ \A i \in 1..3 : Records!overviewMetricValue(Records!OverviewReads[i])
                                   = "Unavailable" <=> i \in data.failed
             /\ \/ Records!EmptyWithout \cap { Records!OverviewReads[i] : i \in data.failed }
                      \subseteq Records!ErrorNote
                \/ Records!Cardinality(Records!ErrorNote) = 2
             /\ 5 \in data.failed /\ Records!AgentCard.note = "none" /\ watch.selected # None
                  => /\ Records!AgentCard.grants = "profile"
                     /\ Records!EvidenceCard = watch.selected
    <2>1. ASSUME NEW i \in 1..3
          PROVE  Records!overviewMetricValue(Records!OverviewReads[i]) = "Unavailable"
                    <=> i \in data.failed
        <3>1. Records!labels(i) \in data.errors <=> i \in data.failed
            BY Labels
        <3> QED
            BY <1>3, <3>1 DEF Records!overviewMetricValue, Records!labels
    <2>2. \/ { Records!OverviewReads[i] : i \in data.failed } \subseteq Records!ErrorNote
          \/ Records!Cardinality(Records!ErrorNote) = 2
        <3>1. CASE \A i \in data.failed : Cardinality({ j \in data.failed : j < i }) < 2
            BY <3>1, Zenon DEF Records!ErrorNote, Records!labels, Records!Cardinality, Cardinality
        <3>2. ASSUME NEW i \in data.failed, ~(Cardinality({ j \in data.failed : j < i }) < 2)
              PROVE  Records!Cardinality(Records!ErrorNote) = 2
            <4>1. Cardinality({ Records!labels(k) : k \in { n \in data.failed :
                        Cardinality({ j \in data.failed : j < n }) < 2 } }) = 2
                BY <3>2, FirstTwoAreNamed
            <4> QED
                BY <4>1, Zenon DEF Records!ErrorNote, Records!Cardinality, Cardinality
        <3> QED
            BY <3>1, <3>2
    <2>3. ASSUME Records!AgentCard.note = "none", watch.selected # None
          PROVE  /\ Records!AgentCard.grants = "profile"
                 /\ Records!EvidenceCard = watch.selected
        <3>1. /\ watch.of = watch.selected /\ watch.of # None
              /\ watch.st \in {"ready", "error", "loading"}
            BY <2>3 DEF WatchOK
        <3>2. watch.st = "ready"
            BY <2>3, <3>1 DEF Records!AgentCard
        <3> QED
            BY <3>1, <3>2 DEF Records!AgentCard, Records!EvidenceCard,
                Records!accessGrantsForAgent, Records!selectedProfile
    <2> QED
        BY <2>1, <2>2, <2>3
<1>4. Records!FailuresAreAdmitted
    BY <1>3 DEF Records!FailuresAreAdmitted
<1> QED
    BY <1>1, <1>2, <1>4

-----------------------------------------------------------------------------
\* The older table of grants.

GrantRows == [GrantTable!Grants -> GrantTable!Statuses]

Tables == [ st : {"loading", "ready", "error"}, rows : GrantRows,
            filter : Filters \cup {"all"}, refresh : {"idle", "loading", "success", "error"} ]

SendRecords ==
    [ st : {"none", "sent", "ok", "refresh", "got", "failed", "success", "error", "forgotten"},
      on : GrantTable!Grants \cup {None}, act : GrantTable!Actions \cup {"none"},
      mounted : BOOLEAN, recorded : BOOLEAN, read : GrantRows ]

TableTypeOK ==
    /\ standing \in GrantRows /\ table \in Tables
    /\ sends \in [GrantTable!CallIds -> SendRecords]
    /\ blurred \in BOOLEAN

\* A transition that is answered with success was made, and one that has failed, or is
\* not answered, has not been reported as made.  Nothing is sent before the table is
\* there.
SendsTell ==
    /\ \A c \in GrantTable!CallIds :
        /\ sends[c].st \in {"ok", "refresh", "got", "success"} => sends[c].recorded
        /\ sends[c].st \in {"sent", "failed", "error"} => ~sends[c].recorded
        /\ GrantTable!UnderWay(c) => /\ sends[c].on \in GrantTable!Grants
                                     /\ sends[c].act \in GrantTable!Actions
    /\ table.st # "ready" => \A c \in GrantTable!CallIds : ~GrantTable!UnderWay(c)

\* Each grant has one transition under way, one refresh is; and the rows, and those that
\* a refresh has read, are only behind where a transition is made and not yet shown.
TableFollows ==
    ~blurred /\ table.st = "ready" =>
        /\ \A c, d \in GrantTable!CallIds :
            c # d /\ GrantTable!UnderWay(c) /\ GrantTable!UnderWay(d) => sends[c].on # sends[d].on
        /\ \A c, d \in GrantTable!CallIds :
            sends[c].st \in {"refresh", "got"} /\ sends[d].st \in {"refresh", "got"} => c = d
        /\ \A c \in GrantTable!CallIds : sends[c].st = "ok" =>
                standing[sends[c].on] = GrantTable!Target[sends[c].act]
        /\ \A g \in GrantTable!Grants : table.rows[g] # standing[g] =>
                \E c \in GrantTable!CallIds : sends[c].st = "ok" /\ sends[c].on = g
        /\ \A c \in GrantTable!CallIds : sends[c].st = "got" =>
                \A g \in GrantTable!Grants : sends[c].read[g] # standing[g] =>
                    \E d \in GrantTable!CallIds : sends[d].st = "ok" /\ sends[d].on = g

GrantTableInv == TableTypeOK /\ SendsTell /\ TableFollows

LEMMA FirstRows == FirstStatus \in GrantRows
BY PartsAssumption DEF Access!GrantsAssumption, GrantRows, GrantTable!Grants,
    GrantTable!Statuses, Access!Statuses, Access!Grants, Access!ToSet

LEMMA BlankSend ==
    /\ GrantTable!NoSend \in SendRecords
    /\ GrantTable!NoSend.st = "none" /\ ~GrantTable!NoSend.recorded
BY FirstRows DEF GrantTable!NoSend, SendRecords

LEMMA GrantTableStart == GrantTable!Init => GrantTableInv
<1> SUFFICES ASSUME GrantTable!Init PROVE GrantTableInv
    OBVIOUS
<1>1. /\ standing = FirstStatus /\ blurred = FALSE
      /\ sends = [c \in GrantTable!CallIds |-> GrantTable!NoSend]
      /\ table = [ st |-> "loading", rows |-> FirstStatus, filter |-> "all",
                   refresh |-> "idle" ]
    BY DEF GrantTable!Init
<1>2. TableTypeOK
    BY <1>1, FirstRows, BlankSend DEF TableTypeOK, Tables
<1>3. \A c \in GrantTable!CallIds : sends[c].st = "none"
    BY <1>1, BlankSend
<1>4. SendsTell /\ TableFollows
    BY <1>1, <1>3 DEF SendsTell, TableFollows, GrantTable!UnderWay
<1> QED
    BY <1>2, <1>4 DEF GrantTableInv

\* A render changes nothing of the transitions but whether their rows are there.
LEMMA Rendered ==
    ASSUME NEW t, NEW s, NEW x \in [GrantTable!CallIds -> SendRecords],
           GrantTable!Render(t, s, x)
    PROVE  /\ table' = t
           /\ sends' \in [GrantTable!CallIds -> SendRecords]
           /\ \A d \in GrantTable!CallIds :
                /\ sends'[d].st = x[d].st /\ sends'[d].on = x[d].on /\ sends'[d].act = x[d].act
                /\ sends'[d].recorded = x[d].recorded /\ sends'[d].read = x[d].read
<1>1. table' = t
    BY DEF GrantTable!Render
<1>2. ASSUME NEW d \in GrantTable!CallIds
      PROVE  /\ sends'[d] \in SendRecords
             /\ sends'[d].st = x[d].st /\ sends'[d].on = x[d].on /\ sends'[d].act = x[d].act
             /\ sends'[d].recorded = x[d].recorded /\ sends'[d].read = x[d].read
    <2>1. PICK here \in BOOLEAN : here = (x[d].mounted /\ x[d].on \in GrantTable!filteredGrants(t))
        OBVIOUS
    <2>2. sends'[d] = [x[d] EXCEPT !.mounted = here]
        BY <2>1 DEF GrantTable!Render
    <2>3. x[d] \in SendRecords
        OBVIOUS
    <2> QED
        BY <2>2, <2>3 DEF SendRecords
<1>3. sends' \in [GrantTable!CallIds -> SendRecords]
    <2>1. sends' = [d \in GrantTable!CallIds |-> sends'[d]]
        BY DEF GrantTable!Render
    <2> QED
        BY <1>2, <2>1
<1> QED
    BY <1>1, <1>2, <1>3

\* What both the type and SendsTell ask of the transitions when only c has changed.
LEMMA OneSendChanges ==
    ASSUME TableTypeOK, SendsTell, NEW c \in GrantTable!CallIds,
           standing' \in GrantRows, table' \in Tables, blurred' \in BOOLEAN,
           sends' \in [GrantTable!CallIds -> SendRecords],
           \A d \in GrantTable!CallIds : d # c =>
                /\ sends'[d].st = sends[d].st /\ sends'[d].on = sends[d].on
                /\ sends'[d].act = sends[d].act /\ sends'[d].recorded = sends[d].recorded,
           sends'[c].st \in {"ok", "refresh", "got", "success"} => sends'[c].recorded,
           sends'[c].st \in {"sent", "failed", "error"} => ~sends'[c].recorded,
           sends'[c].st \in {"sent", "ok", "refresh", "got", "failed"} =>
                sends'[c].on \in GrantTable!Grants /\ sends'[c].act \in GrantTable!Actions,
           table.st = "ready" /\ table'.st = "ready"
    PROVE  TableTypeOK' /\ SendsTell'
<1>1. TableTypeOK'
    BY DEF TableTypeOK
<1>2. SendsTell'
    BY DEF SendsTell, GrantTable!UnderWay
<1> QED
    BY <1>1, <1>2

LEMMA Transitions ==
    ASSUME TableTypeOK, NEW g, NEW act \in GrantTable!Actions, GrantTable!Transition(g, act)
    PROVE  /\ standing' \in GrantRows
           /\ g \in GrantTable!Grants => standing'[g] = GrantTable!Target[act]
           /\ \A h \in GrantTable!Grants : h # g => standing'[h] = standing[h]
<1>1. GrantTable!Target[act] \in GrantTable!Statuses
    BY DEF GrantTable!Actions, GrantTable!Target, GrantTable!Statuses
<1> QED
    BY <1>1 DEF GrantTable!Transition, TableTypeOK, GrantRows

\* The table is there as soon as something is under way.
LEMMA TableIsThere ==
    ASSUME SendsTell, NEW c \in GrantTable!CallIds, GrantTable!UnderWay(c)
    PROVE  table.st = "ready"
BY DEF SendsTell

\* The last step of a transition, which no longer has anything to show.
LEMMA SendEnds ==
    ASSUME GrantTableInv, NEW c \in GrantTable!CallIds,
           sends[c].st \in {"refresh", "got", "failed"},
           NEW message \in {"success", "error"}, NEW t \in Tables,
           message = "success" <=> sends[c].st # "failed", t.st = "ready",
           t.rows = table.rows \/ (sends[c].st = "got" /\ t.rows = sends[c].read),
           GrantTable!Ended(c, message, t), UNCHANGED <<standing, blurred>>
    PROVE  GrantTableInv'
<1> USE DEF GrantTableInv
<1> DEFINE seen == sends[c].mounted /\ sends[c].on \in GrantTable!filteredGrants(t)
           s == IF seen THEN [said EXCEPT ![sends[c].on] = message] ELSE said
           st == IF seen THEN message ELSE "forgotten"
<1>1. GrantTable!Render(t, s, [sends EXCEPT ![c] = [GrantTable!NoSend EXCEPT !.st = st,
                        !.on = sends[c].on, !.recorded = sends[c].recorded]])
    BY DEF GrantTable!Ended
<1>12. st \in {message, "forgotten"}
    OBVIOUS
<1> HIDE DEF seen, s, st
<1> DEFINE call == [GrantTable!NoSend EXCEPT !.st = st, !.on = sends[c].on,
                                             !.recorded = sends[c].recorded]
<1>2. sends[c] \in SendRecords
    BY DEF TableTypeOK
<1>3. call \in SendRecords /\ call.st = st /\ call.recorded = sends[c].recorded
    BY <1>2, <1>12, FirstRows DEF GrantTable!NoSend, SendRecords
<1> DEFINE x == [sends EXCEPT ![c] = call]
<1>4. GrantTable!Render(t, s, x)
    BY <1>1
<1> HIDE DEF call
<1>5. /\ x \in [GrantTable!CallIds -> SendRecords] /\ x[c] = call
      /\ \A d \in GrantTable!CallIds : d # c => x[d] = sends[d]
    BY <1>3 DEF TableTypeOK
<1> HIDE DEF x
<1>6. /\ table' = t /\ sends' \in [GrantTable!CallIds -> SendRecords]
      /\ \A d \in GrantTable!CallIds :
            /\ sends'[d].st = x[d].st /\ sends'[d].on = x[d].on /\ sends'[d].act = x[d].act
            /\ sends'[d].recorded = x[d].recorded /\ sends'[d].read = x[d].read
    BY <1>4, <1>5, Rendered
<1>7. table.st = "ready"
    BY TableIsThere DEF GrantTable!UnderWay
<1>8. /\ sends'[c].st \in {message, "forgotten"} /\ sends'[c].recorded = sends[c].recorded
      /\ \A d \in GrantTable!CallIds : d # c =>
            /\ sends'[d].st = sends[d].st /\ sends'[d].on = sends[d].on
            /\ sends'[d].act = sends[d].act /\ sends'[d].recorded = sends[d].recorded
            /\ sends'[d].read = sends[d].read
    BY <1>3, <1>5, <1>6, <1>12
<1>9. sends[c].recorded <=> message = "success"
    BY DEF SendsTell
<1>10. TableTypeOK' /\ SendsTell'
    <2>1. standing' \in GrantRows /\ table' \in Tables /\ blurred' \in BOOLEAN
        BY <1>6 DEF TableTypeOK
    <2> QED
        BY <1>6, <1>7, <1>8, <1>9, <2>1, OneSendChanges
<1>11. TableFollows'
    BY <1>6, <1>7, <1>8 DEF TableFollows, GrantTable!UnderWay
<1> QED
    BY <1>10, <1>11

LEMMA GrantTableStep ==
    ASSUME GrantTableInv, GrantTable!Next
    PROVE  GrantTableInv'
<1> USE DEF GrantTableInv
<1>1. CASE GrantTable!OthersAct
    <2>1. PICK g \in GrantTable!Grants, act \in GrantTable!Actions : GrantTable!Transition(g, act)
        BY <1>1 DEF GrantTable!OthersAct
    <2>2. blurred' = TRUE /\ UNCHANGED <<table, sends>>
        BY <1>1 DEF GrantTable!OthersAct
    <2>3. standing' \in GrantRows
        BY <2>1, Transitions
    <2> QED
        BY <2>2, <2>3 DEF TableTypeOK, SendsTell, TableFollows, GrantTable!UnderWay
<1>2. ASSUME NEW t \in Tables, NEW s, GrantTable!Render(t, s, sends), UNCHANGED standing,
             t.st # "ready" => \A c \in GrantTable!CallIds : ~GrantTable!UnderWay(c),
             blurred' \in BOOLEAN,
             \/ ~blurred' => ~blurred /\ (t.st = "ready" => table.st = "ready" /\ t.rows = table.rows)
             \/ /\ \A c \in GrantTable!CallIds : ~GrantTable!UnderWay(c)
                /\ t.rows = standing
      PROVE  GrantTableInv'
    <2>1. /\ table' = t /\ sends' \in [GrantTable!CallIds -> SendRecords]
          /\ \A d \in GrantTable!CallIds :
                /\ sends'[d].st = sends[d].st /\ sends'[d].on = sends[d].on
                /\ sends'[d].act = sends[d].act /\ sends'[d].recorded = sends[d].recorded
                /\ sends'[d].read = sends[d].read
        BY <1>2, Rendered DEF TableTypeOK
    <2>2. TableTypeOK'
        BY <1>2, <2>1 DEF TableTypeOK
    <2>3. SendsTell'
        BY <1>2, <2>1 DEF SendsTell, GrantTable!UnderWay
    <2>4. TableFollows'
        <3>1. CASE ~blurred' => ~blurred /\ (t.st = "ready" => table.st = "ready" /\ t.rows = table.rows)
            BY <1>2, <2>1, <3>1 DEF TableFollows, GrantTable!UnderWay
        <3>2. CASE /\ \A c \in GrantTable!CallIds : ~GrantTable!UnderWay(c)
                   /\ t.rows = standing
            BY <1>2, <2>1, <3>2 DEF TableFollows, GrantTable!UnderWay
        <3> QED
            BY <1>2, <3>1, <3>2
    <2> QED
        BY <2>2, <2>3, <2>4
<1>3. CASE GrantTable!ShowAccessGrants
    <2>1. table.st = "loading" /\ table \in Tables /\ standing \in GrantRows
          /\ standing' = standing /\ blurred \in BOOLEAN
        BY <1>3 DEF GrantTable!ShowAccessGrants, TableTypeOK
    <2>2. \A c \in GrantTable!CallIds : ~GrantTable!UnderWay(c)
        BY <2>1 DEF SendsTell
    <2>3. CASE /\ GrantTable!Render([table EXCEPT !.st = "ready", !.rows = standing], said, sends)
               /\ blurred' = FALSE
        <3> DEFINE t == [table EXCEPT !.st = "ready", !.rows = standing]
        <3>1. t \in Tables /\ t.rows = standing
            BY <2>1 DEF Tables
        <3>2. GrantTable!Render(t, said, sends) /\ blurred' \in BOOLEAN
            BY <2>3
        <3> HIDE DEF t
        <3> QED
            BY <1>2, <2>1, <2>2, <3>1, <3>2
    <2>4. CASE /\ GrantTable!Render([table EXCEPT !.st = "error"], said, sends)
               /\ UNCHANGED blurred
        <3> DEFINE t == [table EXCEPT !.st = "error"]
        <3>1. t \in Tables /\ t.st = "error"
            BY <2>1 DEF Tables
        <3>2. GrantTable!Render(t, said, sends) /\ blurred' = blurred
            BY <2>4
        <3> HIDE DEF t
        <3> QED
            BY <1>2, <2>1, <2>2, <3>1, <3>2
    <2> QED
        BY <1>3, <2>3, <2>4 DEF GrantTable!ShowAccessGrants
<1>4. CASE GrantTable!ChangeFilter
    <2>1. PICK f \in Filters : GrantTable!Render([table EXCEPT !.filter = f], said, sends)
        BY <1>4 DEF GrantTable!ChangeFilter
    <2>2. table.st = "ready" /\ table \in Tables /\ standing' = standing
          /\ blurred \in BOOLEAN /\ blurred' = blurred
        BY <1>4 DEF GrantTable!ChangeFilter, TableTypeOK
    <2> DEFINE t == [table EXCEPT !.filter = f]
    <2>3. t \in Tables /\ t.st = "ready" /\ t.rows = table.rows
        BY <2>2 DEF Tables
    <2>4. GrantTable!Render(t, said, sends)
        BY <2>1
    <2> HIDE DEF t
    <2> QED
        BY <1>2, <2>2, <2>3, <2>4
<1>5. CASE GrantTable!handleTransition
    <2>1. PICK g \in GrantTable!filteredGrants(table), c \in GrantTable!CallIds :
            /\ \A d \in GrantTable!CallIds : sends[d].st = "none" <=> d >= c
            /\ \E act \in GrantTable!transitionActionsForStatus(table.rows[g]) :
                sends' = [sends EXCEPT ![c] = [GrantTable!NoSend EXCEPT !.st = "sent",
                                !.on = g, !.act = act, !.mounted = TRUE]]
            /\ blurred' = (blurred \/ \E d \in GrantTable!CallIds :
                                        GrantTable!UnderWay(d) /\ sends[d].on = g)
        BY <1>5 DEF GrantTable!handleTransition
    <2>2. PICK act \in GrantTable!transitionActionsForStatus(table.rows[g]) :
            sends' = [sends EXCEPT ![c] = [GrantTable!NoSend EXCEPT !.st = "sent",
                            !.on = g, !.act = act, !.mounted = TRUE]]
        BY <2>1
    <2>3. act \in GrantTable!Actions
        BY DEF GrantTable!transitionActionsForStatus, GrantTable!Actions
    <2>4. g \in GrantTable!Grants /\ table.st = "ready"
        BY DEF GrantTable!filteredGrants
    <2>5. UNCHANGED <<standing, table>>
        BY <1>5 DEF GrantTable!handleTransition
    <2>6. sends[c].st = "none"
        BY <2>1 DEF GrantTable!CallIds
    <2> DEFINE call == [GrantTable!NoSend EXCEPT !.st = "sent", !.on = g, !.act = act,
                                                 !.mounted = TRUE]
    <2>7. call \in SendRecords /\ call.st = "sent" /\ call.on = g /\ call.act = act
          /\ ~call.recorded
        BY <2>3, <2>4, FirstRows DEF GrantTable!NoSend, SendRecords
    <2>8. sends' = [sends EXCEPT ![c] = call]
        BY <2>2
    <2> HIDE DEF call
    <2>9. /\ sends' \in [GrantTable!CallIds -> SendRecords] /\ sends'[c] = call
          /\ \A d \in GrantTable!CallIds : d # c => sends'[d] = sends[d]
        BY <2>7, <2>8 DEF TableTypeOK
    <2>10. TableTypeOK' /\ SendsTell'
        <3>1. standing' \in GrantRows /\ table' \in Tables /\ blurred' \in BOOLEAN
            BY <2>1, <2>5 DEF TableTypeOK
        <3> QED
            BY <2>3, <2>4, <2>5, <2>7, <2>9, <3>1, OneSendChanges
    <2>11. TableFollows'
        <3> SUFFICES ASSUME ~blurred, \A d \in GrantTable!CallIds : GrantTable!UnderWay(d) =>
                                        sends[d].on # g
                     PROVE  TableFollows'
            BY <2>1 DEF TableFollows
        <3>1. \A d \in GrantTable!CallIds :
                sends[d].st \in {"ok", "refresh", "got"} <=> sends'[d].st \in {"ok", "refresh", "got"}
            BY <2>6, <2>7, <2>9
        <3>2. \A d \in GrantTable!CallIds :
                sends'[d].st \in {"ok", "refresh", "got"} => sends'[d] = sends[d]
            BY <2>7, <2>9
        <3>3. \A d, e \in GrantTable!CallIds :
                d # e /\ GrantTable!UnderWay(d)' /\ GrantTable!UnderWay(e)' =>
                    sends'[d].on # sends'[e].on
            BY <2>4, <2>7, <2>9 DEF TableFollows, GrantTable!UnderWay
        <3>4. \A h : (\E d \in GrantTable!CallIds : sends[d].st = "ok" /\ sends[d].on = h)
                        => \E d \in GrantTable!CallIds : sends'[d].st = "ok" /\ sends'[d].on = h
            BY <2>6, <2>9
        <3>5. \A d, e \in GrantTable!CallIds :
                sends'[d].st \in {"refresh", "got"} /\ sends'[e].st \in {"refresh", "got"} => d = e
            BY <2>4, <3>1, <3>2 DEF TableFollows
        <3> QED
            BY <2>4, <2>5, <3>2, <3>3, <3>4, <3>5 DEF TableFollows
    <2> QED
        BY <2>10, <2>11
<1>6. ASSUME NEW c \in GrantTable!CallIds, GrantTable!ServeTransition(c)
      PROVE  GrantTableInv'
    <2>1. sends[c].st = "sent" /\ table' = table
        BY <1>6 DEF GrantTable!ServeTransition
    <2>2. /\ sends[c].on \in GrantTable!Grants /\ sends[c].act \in GrantTable!Actions
          /\ ~sends[c].recorded /\ table.st = "ready"
        BY <2>1 DEF SendsTell, GrantTable!UnderWay
    <2>3. sends[c] \in SendRecords /\ table \in Tables /\ standing \in GrantRows
          /\ blurred \in BOOLEAN
        BY DEF TableTypeOK
    <2>4. CASE /\ GrantTable!Transition(sends[c].on, sends[c].act)
               /\ sends' = [sends EXCEPT ![c].st = "ok", ![c].recorded = TRUE]
               /\ UNCHANGED blurred
        <3>1. /\ standing' \in GrantRows
              /\ standing'[sends[c].on] = GrantTable!Target[sends[c].act]
              /\ \A h \in GrantTable!Grants : h # sends[c].on => standing'[h] = standing[h]
            BY <2>2, <2>4, Transitions
        <3> DEFINE call == [sends[c] EXCEPT !.st = "ok", !.recorded = TRUE]
        <3>2. call \in SendRecords /\ call.st = "ok" /\ call.on = sends[c].on
              /\ call.act = sends[c].act /\ call.recorded
            BY <2>3 DEF SendRecords
        <3>3. sends' = [sends EXCEPT ![c] = call]
            BY <2>3, <2>4 DEF SendRecords
        <3> HIDE DEF call
        <3>4. /\ sends' \in [GrantTable!CallIds -> SendRecords] /\ sends'[c] = call
              /\ \A d \in GrantTable!CallIds : d # c => sends'[d] = sends[d]
            BY <3>2, <3>3 DEF TableTypeOK
        <3>5. TableTypeOK' /\ SendsTell'
            BY <2>1, <2>2, <2>3, <2>4, <3>1, <3>2, <3>4, OneSendChanges
        <3>6. TableFollows'
            <4> SUFFICES ASSUME ~blurred PROVE TableFollows'
                BY <2>4 DEF TableFollows
            <4>1. /\ \A d \in GrantTable!CallIds : d # c /\ GrantTable!UnderWay(d) =>
                            sends[d].on # sends[c].on
                  /\ sends'[c].st = "ok" /\ sends'[c].on = sends[c].on
                BY <2>1, <2>2, <3>2, <3>4 DEF TableFollows, GrantTable!UnderWay
            <4>2. \A d \in GrantTable!CallIds : sends'[d].st = "ok" =>
                    standing'[sends'[d].on] = GrantTable!Target[sends'[d].act]
                <5> SUFFICES ASSUME NEW d \in GrantTable!CallIds, d # c, sends[d].st = "ok"
                             PROVE  standing'[sends[d].on] = GrantTable!Target[sends[d].act]
                    BY <3>1, <3>2, <3>4
                <5>1. GrantTable!UnderWay(d)
                    BY DEF GrantTable!UnderWay
                <5>2. sends[d].on # sends[c].on /\ sends[d].on \in GrantTable!Grants
                    BY <4>1, <5>1 DEF SendsTell
                <5> QED
                    BY <2>2, <3>1, <5>2 DEF TableFollows
            <4>3. \A g \in GrantTable!Grants :
                    (\E d \in GrantTable!CallIds : sends[d].st = "ok" /\ sends[d].on = g)
                    \/ g = sends[c].on
                    => \E d \in GrantTable!CallIds : sends'[d].st = "ok" /\ sends'[d].on = g
                BY <2>1, <3>4, <4>1
            <4>4. \A g \in GrantTable!Grants : table'.rows[g] # standing'[g] =>
                    \E d \in GrantTable!CallIds : sends'[d].st = "ok" /\ sends'[d].on = g
                BY <2>1, <2>2, <3>1, <4>3 DEF TableFollows
            <4>5. \A d \in GrantTable!CallIds : sends'[d].st = "got" =>
                    \A g \in GrantTable!Grants : sends'[d].read[g] # standing'[g] =>
                      \E e \in GrantTable!CallIds : sends'[e].st = "ok" /\ sends'[e].on = g
                BY <2>2, <3>1, <3>2, <3>4, <4>3 DEF TableFollows
            <4>6. \A d, e \in GrantTable!CallIds :
                    /\ sends'[d].st \in {"refresh", "got"} /\ sends'[e].st \in {"refresh", "got"}
                    => d = e
                BY <2>2, <3>2, <3>4 DEF TableFollows
            <4>7. \A d, e \in GrantTable!CallIds :
                    d # e /\ GrantTable!UnderWay(d)' /\ GrantTable!UnderWay(e)' =>
                        sends'[d].on # sends'[e].on
                BY <2>1, <2>2, <3>2, <3>4 DEF TableFollows, GrantTable!UnderWay
            <4> QED
                BY <4>2, <4>4, <4>5, <4>6, <4>7 DEF TableFollows
        <3> QED
            BY <3>5, <3>6
    <2>5. ASSUME sends' = [sends EXCEPT ![c].st = "failed"], blurred' \in BOOLEAN,
                 standing' \in GrantRows, ~blurred' => ~blurred /\ standing' = standing
          PROVE  GrantTableInv'
        <3> DEFINE call == [sends[c] EXCEPT !.st = "failed"]
        <3>1. call \in SendRecords /\ call.st = "failed" /\ call.on = sends[c].on
              /\ call.act = sends[c].act /\ ~call.recorded
            BY <2>2, <2>3 DEF SendRecords
        <3>2. sends' = [sends EXCEPT ![c] = call]
            BY <2>5
        <3> HIDE DEF call
        <3>3. /\ sends' \in [GrantTable!CallIds -> SendRecords] /\ sends'[c] = call
              /\ \A d \in GrantTable!CallIds : d # c => sends'[d] = sends[d]
            BY <3>1, <3>2 DEF TableTypeOK
        <3>4. TableTypeOK' /\ SendsTell'
            BY <2>1, <2>2, <2>3, <2>5, <3>1, <3>3, OneSendChanges
        <3>5. TableFollows'
            BY <2>1, <2>2, <2>5, <3>1, <3>3 DEF TableFollows, GrantTable!UnderWay
        <3> QED
            BY <3>4, <3>5
    <2>6. CASE /\ GrantTable!Transition(sends[c].on, sends[c].act)
               /\ sends' = [sends EXCEPT ![c].st = "failed"]
               /\ blurred' = TRUE
        BY <2>2, <2>5, <2>6, Transitions
    <2>7. CASE /\ sends' = [sends EXCEPT ![c].st = "failed"]
               /\ UNCHANGED <<standing, blurred>>
        BY <2>3, <2>5, <2>7
    <2> QED
        BY <1>6, <2>4, <2>6, <2>7 DEF GrantTable!ServeTransition
<1>7. ASSUME NEW c \in GrantTable!CallIds, GrantTable!refreshAccessGrants(c)
      PROVE  GrantTableInv'
    <2>1. /\ sends[c].st = "ok" /\ standing' = standing
          /\ blurred' = (blurred \/ GrantTable!Refreshing # {})
        BY <1>7 DEF GrantTable!refreshAccessGrants
    <2>2. /\ sends[c].on \in GrantTable!Grants /\ sends[c].act \in GrantTable!Actions
          /\ sends[c].recorded /\ table.st = "ready"
        BY <2>1 DEF SendsTell, GrantTable!UnderWay
    <2>3. sends[c] \in SendRecords /\ table \in Tables /\ standing \in GrantRows
          /\ blurred \in BOOLEAN
        BY DEF TableTypeOK
    <2> DEFINE call == [sends[c] EXCEPT !.st = "refresh"]
               x == [sends EXCEPT ![c] = call]
               t == [table EXCEPT !.rows[sends[c].on] = GrantTable!Target[sends[c].act],
                                  !.refresh = "loading"]
    <2>4. GrantTable!Render(t, said, x)
        BY <1>7 DEF GrantTable!refreshAccessGrants
    <2>5. call \in SendRecords /\ call.st = "refresh" /\ call.on = sends[c].on
          /\ call.act = sends[c].act /\ call.recorded
        BY <2>2, <2>3 DEF SendRecords
    <2>6. GrantTable!Target[sends[c].act] \in GrantTable!Statuses
        BY <2>2 DEF GrantTable!Actions, GrantTable!Target, GrantTable!Statuses
    <2>7. /\ t \in Tables /\ t.st = "ready"
          /\ t.rows = [table.rows EXCEPT ![sends[c].on] = GrantTable!Target[sends[c].act]]
        BY <2>2, <2>3, <2>6 DEF Tables, GrantRows
    <2> HIDE DEF call, t
    <2>8. /\ x \in [GrantTable!CallIds -> SendRecords] /\ x[c] = call
          /\ \A d \in GrantTable!CallIds : d # c => x[d] = sends[d]
        BY <2>5 DEF TableTypeOK
    <2> HIDE DEF x
    <2>9. /\ table' = t /\ sends' \in [GrantTable!CallIds -> SendRecords]
          /\ \A d \in GrantTable!CallIds :
                /\ sends'[d].st = x[d].st /\ sends'[d].on = x[d].on /\ sends'[d].act = x[d].act
                /\ sends'[d].recorded = x[d].recorded /\ sends'[d].read = x[d].read
        BY <2>4, <2>8, Rendered
    <2>10. TableTypeOK' /\ SendsTell'
        BY <2>1, <2>2, <2>3, <2>5, <2>7, <2>8, <2>9, OneSendChanges
    <2>11. TableFollows'
        <3> SUFFICES ASSUME ~blurred, GrantTable!Refreshing = {} PROVE TableFollows'
            BY <2>1 DEF TableFollows
        <3>1. \A d \in GrantTable!CallIds : sends[d].st \notin {"refresh", "got"}
            BY DEF GrantTable!Refreshing
        <3>2. \A g \in GrantTable!Grants : t.rows[g] =
                IF g = sends[c].on THEN GrantTable!Target[sends[c].act] ELSE table.rows[g]
            BY <2>2, <2>3, <2>7 DEF Tables, GrantRows
        <3>3. standing[sends[c].on] = GrantTable!Target[sends[c].act]
            BY <2>1, <2>2 DEF TableFollows
        <3>4. \A g \in GrantTable!Grants : table'.rows[g] # standing'[g] =>
                \E d \in GrantTable!CallIds : sends'[d].st = "ok" /\ sends'[d].on = g
            <4> SUFFICES ASSUME NEW g \in GrantTable!Grants, t.rows[g] # standing[g]
                         PROVE  \E d \in GrantTable!CallIds : sends'[d].st = "ok" /\ sends'[d].on = g
                BY <2>1, <2>9
            <4>1. g # sends[c].on /\ table.rows[g] # standing[g]
                BY <3>2, <3>3
            <4>2. PICK d \in GrantTable!CallIds : sends[d].st = "ok" /\ sends[d].on = g
                BY <2>2, <4>1 DEF TableFollows
            <4> QED
                BY <2>8, <2>9, <4>1, <4>2
        <3>5. \A d \in GrantTable!CallIds : /\ sends'[d].on = sends[d].on
                                           /\ sends'[d].act = sends[d].act
                                           /\ (d # c => sends'[d].st = sends[d].st)
                                           /\ (d = c => sends'[d].st = "refresh")
            BY <2>5, <2>8, <2>9
        <3>6. \A d, e \in GrantTable!CallIds :
                d # e /\ GrantTable!UnderWay(d)' /\ GrantTable!UnderWay(e)' =>
                    sends'[d].on # sends'[e].on
            BY <2>1, <2>2, <3>5 DEF TableFollows, GrantTable!UnderWay
        <3>7. \A d \in GrantTable!CallIds : /\ sends'[d].st # "got"
                                           /\ (sends'[d].st = "refresh" => d = c)
            BY <3>1, <3>5
        <3>8. \A d \in GrantTable!CallIds : sends'[d].st = "ok" =>
                standing'[sends'[d].on] = GrantTable!Target[sends'[d].act]
            BY <2>1, <2>2, <3>5 DEF TableFollows
        <3> QED
            BY <3>4, <3>6, <3>7, <3>8 DEF TableFollows
    <2> QED
        BY <2>10, <2>11
<1>8. ASSUME NEW c \in GrantTable!CallIds, GrantTable!ReadGrants(c)
      PROVE  GrantTableInv'
    <2>1. /\ sends[c].st = "refresh" /\ UNCHANGED <<standing, table, blurred>>
          /\ sends' = [sends EXCEPT ![c].st = "got", ![c].read = standing]
        BY <1>8 DEF GrantTable!ReadGrants
    <2>2. /\ sends[c].on \in GrantTable!Grants /\ sends[c].act \in GrantTable!Actions
          /\ sends[c].recorded /\ table.st = "ready"
        BY <2>1 DEF SendsTell, GrantTable!UnderWay
    <2>3. sends[c] \in SendRecords /\ table \in Tables /\ standing \in GrantRows
          /\ blurred \in BOOLEAN
        BY DEF TableTypeOK
    <2> DEFINE call == [sends[c] EXCEPT !.st = "got", !.read = standing]
    <2>4. call \in SendRecords /\ call.st = "got" /\ call.on = sends[c].on
          /\ call.act = sends[c].act /\ call.recorded /\ call.read = standing
        BY <2>2, <2>3 DEF SendRecords
    <2>5. sends' = [sends EXCEPT ![c] = call]
        BY <2>1, <2>3 DEF SendRecords
    <2> HIDE DEF call
    <2>6. /\ sends' \in [GrantTable!CallIds -> SendRecords] /\ sends'[c] = call
          /\ \A d \in GrantTable!CallIds : d # c => sends'[d] = sends[d]
        BY <2>4, <2>5 DEF TableTypeOK
    <2>7. TableTypeOK' /\ SendsTell'
        BY <2>1, <2>2, <2>3, <2>4, <2>6, OneSendChanges
    <2>8. TableFollows'
        BY <2>1, <2>2, <2>4, <2>6 DEF TableFollows, GrantTable!UnderWay
    <2> QED
        BY <2>7, <2>8
<1>9. ASSUME NEW c \in GrantTable!CallIds,
             GrantTable!RefreshEnds(c) \/ GrantTable!TransitionFails(c)
      PROVE  GrantTableInv'
    <2>1. sends[c].st \in {"refresh", "got", "failed"} /\ UNCHANGED <<standing, blurred>>
        BY <1>9 DEF GrantTable!RefreshEnds, GrantTable!TransitionFails
    <2>2. table.st = "ready"
        BY <2>1, TableIsThere DEF GrantTable!UnderWay
    <2>3. sends[c] \in SendRecords /\ table \in Tables
        BY DEF TableTypeOK
    <2>4. CASE /\ sends[c].st = "got"
               /\ GrantTable!Ended(c, "success", [table EXCEPT !.rows = sends[c].read,
                                                              !.refresh = "success"])
        <3> DEFINE t == [table EXCEPT !.rows = sends[c].read, !.refresh = "success"]
        <3>1. t \in Tables /\ t.st = "ready" /\ t.rows = sends[c].read
            BY <2>2, <2>3 DEF Tables, SendRecords
        <3>2. GrantTable!Ended(c, "success", t)
            BY <2>4
        <3> HIDE DEF t
        <3> QED
            BY <2>1, <2>4, <3>1, <3>2, SendEnds
    <2>5. CASE /\ sends[c].st = "refresh"
               /\ GrantTable!Ended(c, "success", [table EXCEPT !.refresh = "error"])
        <3> DEFINE t == [table EXCEPT !.refresh = "error"]
        <3>1. t \in Tables /\ t.st = "ready" /\ t.rows = table.rows
            BY <2>2, <2>3 DEF Tables
        <3>2. GrantTable!Ended(c, "success", t)
            BY <2>5
        <3> HIDE DEF t
        <3> QED
            BY <2>1, <2>5, <3>1, <3>2, SendEnds
    <2>6. CASE sends[c].st = "failed" /\ GrantTable!Ended(c, "error", table)
        BY <2>1, <2>2, <2>3, <2>6, SendEnds
    <2> QED
        BY <1>9, <2>4, <2>5, <2>6 DEF GrantTable!RefreshEnds, GrantTable!TransitionFails
<1> QED
    BY <1>1, <1>3, <1>4, <1>5, <1>6, <1>7, <1>8, <1>9 DEF GrantTable!Next, GrantTable!Answers

LEMMA GrantTableShows ==
    ASSUME GrantTableInv
    PROVE  GrantTable!RowsTellTheOutcome /\ GrantTable!TableCatchesUp
<1> USE DEF GrantTableInv
<1>1. GrantTable!RowsTellTheOutcome
    BY DEF SendsTell, GrantTable!RowsTellTheOutcome
<1>2. GrantTable!TableCatchesUp
    <2> SUFFICES ASSUME table.st = "ready", ~blurred,
                        \A c \in GrantTable!CallIds : ~GrantTable!UnderWay(c)
                 PROVE  table.rows = standing
        BY DEF GrantTable!TableCatchesUp
    <2>1. \A c \in GrantTable!CallIds : sends[c].st # "ok"
        BY DEF GrantTable!UnderWay
    <2>2. \A g \in GrantTable!Grants : table.rows[g] = standing[g]
        BY <2>1 DEF TableFollows
    <2>3. table.rows \in GrantRows /\ standing \in GrantRows
        BY DEF TableTypeOK, Tables
    <2> QED
        BY <2>2, <2>3 DEF GrantRows
<1> QED
    BY <1>1, <1>2

-----------------------------------------------------------------------------
\* The older review of sources.

PanelTypeOK ==
    /\ listedUse \in [Profiled -> SUBSET {"allowed", "prohibited"}]
    /\ heldOn \in SUBSET Sources
    /\ catalog \in [ st : {"loading", "ready", "error"}, rows : SUBSET Sources ]
    /\ panel \in [ SourceReview!Parts ->
            [ st : {"idle", "loading", "ready", "missing", "error"}, of : Sources \cup {None},
              is : SUBSET (Sources \cup {"allowed", "prohibited"}) ] ]
    /\ visits \in [ SourceReview!VisitIds ->
            [ of : Sources \cup {None}, profile : {"no", "sent", "done"},
              grants : {"no", "sent", "done"} ] ]
    /\ troubles \in Nat

\* What has arrived is about the source it was asked for, and while sources are clicked
\* one after the other that is the one that was clicked last.
PanelOK ==
    /\ panel["profile"].st = "ready" =>
        /\ panel["profile"].of \in Profiled
        /\ panel["profile"].is \subseteq {"allowed", "prohibited"}
        /\ troubles = 0 => panel["profile"].is = listedUse[panel["profile"].of]
    /\ panel["profile"].st = "missing" => panel["profile"].of \notin Profiled
    /\ panel["grants"].is \subseteq {panel["grants"].of}
    /\ ~hasty => /\ \A p \in SourceReview!Parts : panel[p].of = chosen
                 /\ \A v \in SourceReview!VisitIds, p \in SourceReview!Parts :
                        visits[v][p] = "sent" => visits[v].of = chosen

PanelInv == PanelTypeOK /\ PanelOK

LEMMA PanelStart == SourceReview!Init => PanelInv
<1> SUFFICES ASSUME SourceReview!Init PROVE PanelInv
    OBVIOUS
<1>1. PanelTypeOK
    BY DEF SourceReview!Init, PanelTypeOK, SourceReview!Idle, SourceReview!NoVisit
<1>2. PanelOK
    BY DEF SourceReview!Init, PanelOK, SourceReview!Idle, SourceReview!NoVisit,
           SourceReview!Parts
<1> QED
    BY <1>1, <1>2 DEF PanelInv

LEMMA PanelArrives ==
    ASSUME PanelInv, NEW v \in SourceReview!VisitIds, NEW p \in SourceReview!Parts,
           NEW st \in {"ready", "missing", "error"},
           NEW is \in SUBSET (Sources \cup {"allowed", "prohibited"}),
           SourceReview!Arrives(v, p, st, is), troubles' \in Nat, troubles' = 0 => troubles = 0,
           p = "profile" /\ st = "ready" =>
                visits[v].of \in Profiled /\ is = listedUse[visits[v].of],
           p = "profile" /\ st = "missing" => visits[v].of \notin Profiled,
           p = "grants" => is \subseteq {visits[v].of}
    PROVE  PanelInv'
<1> USE DEF PanelInv
<1>1. /\ visits[v][p] = "sent"
      /\ panel' = [panel EXCEPT ![p] = [ st |-> st, of |-> visits[v].of, is |-> is ]]
      /\ visits' = [visits EXCEPT ![v][p] = "done"]
      /\ UNCHANGED <<listedUse, heldOn, catalog, chosen, hasty>>
    BY DEF SourceReview!Arrives
<1>2. p \in {"profile", "grants"} /\ SourceReview!Parts = {"profile", "grants"}
    BY DEF SourceReview!Parts
<1>3. /\ \A u \in SourceReview!VisitIds, o \in SourceReview!Parts :
            visits'[u].of = visits[u].of /\ (visits'[u][o] = "sent" => visits[u][o] = "sent")
      /\ visits' \in [ SourceReview!VisitIds ->
            [ of : Sources \cup {None}, profile : {"no", "sent", "done"},
              grants : {"no", "sent", "done"} ] ]
    <2>1. CASE p = "profile"
        BY <1>1, <1>2, <2>1 DEF PanelTypeOK
    <2>2. CASE p = "grants"
        BY <1>1, <1>2, <2>2 DEF PanelTypeOK
    <2> QED
        BY <1>2, <2>1, <2>2
<1>4. visits[v].of \in Sources \cup {None}
    BY DEF PanelTypeOK
<1>5. PanelTypeOK'
    BY <1>1, <1>3, <1>4 DEF PanelTypeOK
<1>6. /\ panel'[p].st = st /\ panel'[p].of = visits[v].of /\ panel'[p].is = is
      /\ \A o \in SourceReview!Parts : o # p => panel'[o] = panel[o]
    BY <1>1 DEF PanelTypeOK
<1>7. visits[v].of \in Profiled => listedUse[visits[v].of] \subseteq {"allowed", "prohibited"}
    BY DEF PanelTypeOK
<1>8. PanelOK'
    <2>1. CASE p = "profile"
        BY <1>1, <1>2, <1>3, <1>6, <1>7, <2>1 DEF PanelOK
    <2>2. CASE p = "grants"
        BY <1>1, <1>2, <1>3, <1>6, <2>2 DEF PanelOK
    <2> QED
        BY <1>2, <2>1, <2>2
<1> QED
    BY <1>5, <1>8

LEMMA PanelStep ==
    ASSUME PanelInv, SourceReview!Next
    PROVE  PanelInv'
<1> USE DEF PanelInv
<1>1. CASE SourceReview!OthersChange
    <2>1. troubles' = troubles + 1 /\ UNCHANGED <<catalog, chosen, panel, visits, hasty>>
        BY <1>1 DEF SourceReview!OthersChange, SourceReview!Trouble
    <2>2. /\ listedUse' \in [Profiled -> SUBSET {"allowed", "prohibited"}]
          /\ heldOn' \in SUBSET Sources
        <3> DEFINE Uses == SUBSET {"allowed", "prohibited"}
        <3>1. /\ \/ listedUse' = listedUse
                 \/ \E s \in Profiled, lists \in Uses : listedUse' = [listedUse EXCEPT ![s] = lists]
              /\ \/ heldOn' = heldOn
                 \/ \E s \in Sources :
                        heldOn' = IF s \in heldOn THEN heldOn \ {s} ELSE heldOn \cup {s}
            BY <1>1 DEF SourceReview!OthersChange
        <3>2. listedUse \in [Profiled -> Uses] /\ heldOn \in SUBSET Sources
            BY DEF PanelTypeOK
        <3> HIDE DEF Uses
        <3>3. listedUse' \in [Profiled -> Uses]
            BY <3>1, <3>2
        <3>4. heldOn' \in SUBSET Sources
            BY <3>1, <3>2
        <3> QED
            BY <3>3, <3>4 DEF Uses
    <2>3. troubles' \in Nat /\ troubles' # 0
        BY <2>1 DEF PanelTypeOK
    <2> QED
        BY <2>1, <2>2, <2>3 DEF PanelTypeOK, PanelOK
<1>2. CASE SourceReview!ShowCatalog
    <2>1. /\ UNCHANGED <<listedUse, heldOn, chosen, panel, visits, hasty>>
          /\ catalog' \in [ st : {"loading", "ready", "error"}, rows : SUBSET Sources ]
          /\ troubles' \in {troubles, troubles + 1}
        BY <1>2 DEF SourceReview!ShowCatalog, SourceReview!Trouble, PanelTypeOK
    <2>2. troubles' \in Nat /\ (troubles' = 0 => troubles = 0)
        BY <2>1 DEF PanelTypeOK
    <2> QED
        BY <2>1, <2>2 DEF PanelTypeOK, PanelOK
<1>3. CASE SourceReview!ClickSource
    <2>1. PICK s \in catalog.rows, v \in SourceReview!VisitIds :
            /\ chosen' = s
            /\ panel' = [p \in SourceReview!Parts |-> [ st |-> "loading", of |-> s, is |-> {} ]]
            /\ visits' = [visits EXCEPT
                            ![v] = [ of |-> s, profile |-> "sent", grants |-> "sent" ]]
        BY <1>3 DEF SourceReview!ClickSource, SourceReview!handleSelectSource
    <2>2. /\ hasty' = (hasty \/ \E u \in SourceReview!VisitIds, p \in SourceReview!Parts :
                                    visits[u][p] = "sent")
          /\ UNCHANGED <<listedUse, heldOn, catalog, troubles>>
        BY <1>3 DEF SourceReview!ClickSource
    <2>3. s \in Sources
        BY DEF PanelTypeOK
    <2>4. PanelTypeOK'
        BY <2>1, <2>2, <2>3 DEF PanelTypeOK
    <2>5. /\ \A u \in SourceReview!VisitIds : u # v => visits'[u] = visits[u]
          /\ visits'[v].of = s
          /\ \A p \in SourceReview!Parts :
                panel'[p].of = s /\ panel'[p].st = "loading" /\ panel'[p].is = {}
        BY <2>1 DEF PanelTypeOK
    <2> QED
        BY <2>1, <2>2, <2>4, <2>5 DEF PanelOK, SourceReview!Parts
<1>4. ASSUME NEW v \in SourceReview!VisitIds, SourceReview!ShowProfile(v)
      PROVE  PanelInv'
    <2>1. troubles' = troubles /\ troubles \in Nat
        BY <1>4 DEF SourceReview!ShowProfile, PanelTypeOK
    <2>2. CASE visits[v].of \in Profiled
        <3>1. listedUse[visits[v].of] \in SUBSET (Sources \cup {"allowed", "prohibited"})
            BY <2>2 DEF PanelTypeOK
        <3>2. SourceReview!Arrives(v, "profile", "ready", listedUse[visits[v].of])
            BY <1>4, <2>2 DEF SourceReview!ShowProfile
        <3>3. "profile" \in SourceReview!Parts
            BY DEF SourceReview!Parts
        <3> QED
            BY <2>1, <2>2, <3>1, <3>2, <3>3, PanelArrives
    <2>3. CASE visits[v].of \notin Profiled
        <3>1. SourceReview!Arrives(v, "profile", "missing", {})
            BY <1>4, <2>3 DEF SourceReview!ShowProfile
        <3>2. "profile" \in SourceReview!Parts
            BY DEF SourceReview!Parts
        <3> QED
            BY <2>1, <2>3, <3>1, <3>2, PanelArrives
    <2> QED
        BY <2>2, <2>3
<1>5. ASSUME NEW v \in SourceReview!VisitIds, SourceReview!ShowGrants(v)
      PROVE  PanelInv'
    <2>1. troubles' = troubles /\ troubles \in Nat
        BY <1>5 DEF SourceReview!ShowGrants, PanelTypeOK
    <2>2. PICK is : is = heldOn \cap {visits[v].of}
        OBVIOUS
    <2>3. SourceReview!Arrives(v, "grants", "ready", is)
        BY <1>5, <2>2 DEF SourceReview!ShowGrants
    <2>4. "grants" \in SourceReview!Parts
        BY DEF SourceReview!Parts
    <2>5. is \in SUBSET (Sources \cup {"allowed", "prohibited"}) /\ is \subseteq {visits[v].of}
        BY <2>2 DEF PanelTypeOK
    <2> QED
        BY <2>1, <2>3, <2>4, <2>5, PanelArrives
<1>6. ASSUME NEW v \in SourceReview!VisitIds, NEW p \in SourceReview!Parts,
             SourceReview!FailPart(v, p)
      PROVE  PanelInv'
    <2>1. troubles' = troubles + 1 /\ SourceReview!Arrives(v, p, "error", {})
        BY <1>6 DEF SourceReview!FailPart, SourceReview!Trouble
    <2>2. troubles' \in Nat /\ troubles' # 0
        BY <2>1 DEF PanelTypeOK
    <2> QED
        BY <2>1, <2>2, PanelArrives
<1> QED
    BY <1>1, <1>2, <1>3, <1>4, <1>5, <1>6 DEF SourceReview!Next, SourceReview!Answers

LEMMA PanelShows ==
    ASSUME PanelInv
    PROVE  SourceReview!PanelIsOfTheSource /\ SourceReview!SignalFollowsTheLists
<1> USE DEF PanelInv, SourceReview!ProfileStatus
<1>1. SourceReview!PanelIsOfTheSource
    BY DEF SourceReview!PanelIsOfTheSource, PanelOK, SourceReview!RelatedAccessGrants,
           SourceReview!Parts
<1>2. ASSUME panel["profile"].st = "ready"
      PROVE  LET s == panel["profile"].of IN
             /\ troubles = 0 /\ "prohibited" \in listedUse[s]
                  => SourceReview!UsageQuestions = "listed_prohibited"
             /\ troubles = 0 /\ listedUse[s] = {} => SourceReview!UsageQuestions = "no_signal"
             /\ SourceReview!UsageQuestions = "listed_allowed"
                  => panel["profile"].is = {"allowed"}
    BY <1>2 DEF PanelOK, SourceReview!UsageQuestions, SourceReview!usageSignal
<1> QED
    BY <1>1, <1>2 DEF SourceReview!SignalFollowsTheLists

-----------------------------------------------------------------------------
\* The older list of approvals.

\* What a filter lists of the approvals.
UnderFilter(f) == [a \in { b \in Approvals : f \in {"all", verdict[b]} } |-> verdict[a]]

\* Rows that belong under a filter, and all of them while nobody has decided anything.
FitsUnder(f, rows) ==
    /\ \A a \in DOMAIN rows : f \in {"all", rows[a]}
    /\ troubles = 0 => rows = UnderFilter(f)

RowSets == UNION { [S -> {"pending", "approved", "rejected", "cancelled"}] : S \in SUBSET Approvals }

QueryFilters == StatusFilters \cup {"all"}

Queries == [ st : {"no", "sent", "got", "done"}, filter : QueryFilters, rows : RowSets ]

QueueTypeOK ==
    /\ verdict \in [Approvals -> {"pending", "approved", "rejected", "cancelled"}]
    /\ queue \in [ st : {"loading", "ready", "error"}, filter : QueryFilters, rows : RowSets ]
    /\ queries \in [ Queue!QueryIds ->
            [ st : {"no", "sent", "got", "done"}, filter : QueryFilters, rows : RowSets ] ]
    /\ troubles \in Nat

\* Only the load for the filter that is chosen is under way.
QueueOK ==
    /\ \A q \in Queue!QueryIds :
        /\ queries[q].st \in {"sent", "got"} => queries[q].filter = queue.filter
        /\ queries[q].st = "got" => FitsUnder(queue.filter, queries[q].rows)
    /\ queue.st = "ready" => FitsUnder(queue.filter, queue.rows)

QueueInv == QueueTypeOK /\ QueueOK

LEMMA NoRowsYet == [a \in {} |-> None] \in RowSets
<1>1. [a \in {} |-> None] \in [{} -> {"pending", "approved", "rejected", "cancelled"}]
    OBVIOUS
<1>2. {} \in SUBSET Approvals
    OBVIOUS
<1> QED
    BY <1>1, <1>2 DEF RowSets

LEMMA RowsUnderFilter ==
    ASSUME QueueTypeOK, NEW f
    PROVE  UnderFilter(f) \in RowSets
<1> DEFINE S == { b \in Approvals : f \in {"all", verdict[b]} }
<1>1. S \in SUBSET Approvals
    OBVIOUS
<1>2. UnderFilter(f) \in [S -> {"pending", "approved", "rejected", "cancelled"}]
    BY DEF UnderFilter, QueueTypeOK
<1> QED
    BY <1>1, <1>2 DEF RowSets

LEMMA QueueStart == Queue!Init => QueueInv
<1> SUFFICES ASSUME Queue!Init PROVE QueueInv
    OBVIOUS
<1> DEFINE blank == [a \in {} |-> None]
<1>1. blank \in RowSets
    BY NoRowsYet
<1>2. /\ queue = [ st |-> "loading", filter |-> "all", rows |-> blank ]
      /\ queries = [q \in Queue!QueryIds |->
            IF q = 0 THEN [ st |-> "sent", filter |-> "all", rows |-> blank ]
            ELSE [ st |-> "no", filter |-> "all", rows |-> blank ]]
      /\ verdict \in [Approvals -> {"pending", "approved"}] /\ troubles = 0
    BY DEF Queue!Init, Queue!NoQuery
<1>3. "all" \in QueryFilters
    BY DEF QueryFilters
<1> HIDE DEF blank
<1>4. QueueTypeOK
    BY <1>1, <1>2, <1>3 DEF QueueTypeOK
<1>5. QueueOK
    BY <1>2 DEF QueueOK
<1> QED
    BY <1>4, <1>5 DEF QueueInv

LEMMA QueueStep ==
    ASSUME QueueInv, Queue!Next
    PROVE  QueueInv'
<1> USE DEF QueueInv
<1>1. CASE Queue!OthersDecide
    <2>1. /\ troubles' = troubles + 1 /\ UNCHANGED <<queue, queries>>
          /\ verdict' \in [Approvals -> {"pending", "approved", "rejected", "cancelled"}]
        BY <1>1 DEF Queue!OthersDecide, Queue!Trouble, QueueTypeOK
    <2>2. troubles' \in Nat /\ troubles' # 0
        BY <2>1 DEF QueueTypeOK
    <2> QED
        BY <2>1, <2>2 DEF QueueTypeOK, QueueOK, FitsUnder
<1>2. CASE Queue!ChangeStatusFilter
    <2>1. PICK f \in StatusFilters, q \in Queue!QueryIds :
            /\ queries' = [p \in Queue!QueryIds |->
                    IF p = q THEN [Queue!NoQuery EXCEPT !.st = "sent", !.filter = f]
                    ELSE IF p < q THEN [Queue!NoQuery EXCEPT !.st = "done"] ELSE Queue!NoQuery]
            /\ queue' = [queue EXCEPT !.st = "loading", !.filter = f]
        BY <1>2 DEF Queue!ChangeStatusFilter, Queue!LoadEffect
    <2>2. UNCHANGED <<verdict, troubles>>
        BY <1>2 DEF Queue!ChangeStatusFilter
    <2>3. f \in QueryFilters /\ "all" \in QueryFilters
        BY DEF QueryFilters
    <2> DEFINE asked == [Queue!NoQuery EXCEPT !.st = "sent", !.filter = f]
               over == [Queue!NoQuery EXCEPT !.st = "done"]
    <2>4. /\ asked \in Queries /\ over \in Queries /\ Queue!NoQuery \in Queries
          /\ asked.st = "sent" /\ asked.filter = f
          /\ over.st = "done" /\ Queue!NoQuery.st = "no"
        BY <2>3, NoRowsYet DEF Queue!NoQuery, Queries
    <2> HIDE DEF asked, over
    <2>5. queries' = [p \in Queue!QueryIds |->
                        IF p = q THEN asked ELSE IF p < q THEN over ELSE Queue!NoQuery]
        BY <2>1 DEF asked, over
    <2>6. QueueTypeOK'
        <3>1. queries' \in [Queue!QueryIds -> Queries]
            BY <2>4, <2>5
        <3>2. queue' \in [ st : {"loading", "ready", "error"}, filter : QueryFilters,
                           rows : RowSets ]
            BY <2>1, <2>3 DEF QueueTypeOK
        <3> QED
            BY <2>2, <3>1, <3>2 DEF QueueTypeOK, Queries
    <2>7. QueueOK'
        <3>1. queue'.st = "loading" /\ queue'.filter = f
            BY <2>1 DEF QueueTypeOK
        <3>2. \A p \in Queue!QueryIds :
                queries'[p].st # "got" /\ (queries'[p].st = "sent" => queries'[p].filter = f)
            BY <2>4, <2>5
        <3> QED
            BY <3>1, <3>2 DEF QueueOK
    <2> QED
        BY <2>6, <2>7
<1>3. ASSUME NEW q \in Queue!QueryIds, Queue!AnswerQueue(q)
      PROVE  QueueInv'
    <2>1. PICK rows \in RowSets : rows = UnderFilter(queries[q].filter)
        BY RowsUnderFilter
    <2>2. /\ queries[q].st = "sent"
          /\ queries' = [queries EXCEPT ![q].st = "got", ![q].rows = rows]
          /\ UNCHANGED <<verdict, queue, troubles>>
        BY <1>3, <2>1 DEF Queue!AnswerQueue, UnderFilter
    <2>3. FitsUnder(queue.filter, rows)
        BY <2>1, <2>2 DEF FitsUnder, UnderFilter, QueueOK
    <2>4. QueueTypeOK'
        BY <2>2 DEF QueueTypeOK
    <2>5. /\ queries'[q].st = "got" /\ queries'[q].filter = queries[q].filter
          /\ queries'[q].rows = rows
          /\ \A p \in Queue!QueryIds : p # q => queries'[p] = queries[p]
        BY <2>2 DEF QueueTypeOK
    <2>6. ASSUME NEW f, NEW x, FitsUnder(f, x) PROVE FitsUnder(f, x)'
        BY <2>2, <2>6 DEF FitsUnder, UnderFilter
    <2> QED
        BY <2>2, <2>3, <2>4, <2>5, <2>6 DEF QueueOK
<1>4. ASSUME NEW q \in Queue!QueryIds, Queue!ShowQueue(q) \/ Queue!FailQueue(q)
      PROVE  QueueInv'
    <2>1. queries' = [queries EXCEPT ![q] = [Queue!NoQuery EXCEPT !.st = "done"]]
        BY <1>4 DEF Queue!ShowQueue, Queue!FailQueue
    <2>2. /\ verdict' = verdict /\ troubles' \in Nat /\ (troubles' = 0 => troubles = 0)
        BY <1>4 DEF Queue!ShowQueue, Queue!FailQueue, Queue!Trouble, QueueTypeOK
    <2>3. /\ queue' \in [ st : {"loading", "ready", "error"}, filter : QueryFilters,
                          rows : RowSets ]
          /\ queue'.filter = queue.filter
          /\ queue'.st = "ready" => FitsUnder(queue.filter, queue'.rows)
        <3>1. CASE Queue!ShowQueue(q)
            BY <3>1 DEF Queue!ShowQueue, QueueTypeOK, QueueOK
        <3>2. CASE Queue!FailQueue(q)
            BY <3>2 DEF Queue!FailQueue, QueueTypeOK, QueueOK
        <3> QED
            BY <1>4, <3>1, <3>2
    <2> DEFINE over == [Queue!NoQuery EXCEPT !.st = "done"]
    <2>4. /\ over \in [ st : {"no", "sent", "got", "done"}, filter : QueryFilters,
                        rows : RowSets ]
          /\ over.st = "done"
        BY NoRowsYet DEF Queue!NoQuery, QueryFilters
    <2>5. queries' = [queries EXCEPT ![q] = over]
        BY <2>1
    <2> HIDE DEF over
    <2>6. QueueTypeOK'
        BY <2>2, <2>3, <2>4, <2>5 DEF QueueTypeOK
    <2>7. ASSUME NEW f, NEW x, FitsUnder(f, x) PROVE FitsUnder(f, x)'
        BY <2>2, <2>7 DEF FitsUnder, UnderFilter
    <2>8. \A p \in Queue!QueryIds : queries'[p].st # "done" => queries'[p] = queries[p]
        BY <2>4, <2>5 DEF QueueTypeOK
    <2> QED
        BY <2>3, <2>6, <2>7, <2>8 DEF QueueOK
<1> QED
    BY <1>1, <1>2, <1>3, <1>4 DEF Queue!Next, Queue!Answers

LEMMA QueueShows == QueueInv => Queue!QueueIsOfTheFilter
BY DEF QueueInv, QueueOK, FitsUnder, UnderFilter, Queue!QueueIsOfTheFilter

-----------------------------------------------------------------------------
\* The older queue of policy reviews.

PostArgs == {"viewer", "other", "replace", None}

\* The rows of one query, and the diffs of all rows.
OpenRows == UNION { [S -> PostArgs] : S \in SUBSET Reviews }
DiffRows == UNION { [S -> {"loading", "error", "source", "no source"}] : S \in SUBSET Reviews }

PostRecords ==
    [ st : {"none", "sent", "ok", "failed", "done"},
      act : {"none", "approve", "reject", "activate", "assign", "rollback"},
      on : Reviews \cup {None}, arg : PostArgs ]

Requests == [ status : {"pending", "approved", "rejected"}, assigned : PostArgs,
              active : BOOLEAN, drafts : Nat ]

Gets == [ st : {"none", "sent", "diffs", "done"}, left : SUBSET ReviewQueue!Lists,
          rows : [ReviewQueue!Lists -> OpenRows] ]

QueuedTypeOK ==
    /\ review \in [Reviews -> Requests]
    /\ queued \in [ st : {"loading", "ready", "error"}, rows : [ReviewQueue!Lists -> OpenRows],
                    diffs : DiffRows ]
    /\ gets \in [ReviewQueue!GetIds -> Gets]
    /\ \A p \in ReviewQueue!PostIds : posts[p].st = "sent" =>
            posts[p].on \in Reviews /\ posts[p].act \in DOMAIN ReviewQueue!LockOf

\* What the backend has on a list.
OpenNow(l) == [r \in ReviewQueue!Open(l) |-> review[r].assigned]

NoneToShow == \A p \in ReviewQueue!PostIds : posts[p].st # "ok"

\* Unless a decision was made and is not shown yet, what a load has read is what the
\* backend has, and so is what the last load has left.
QueuedOK ==
    ~crossed /\ NoneToShow =>
        /\ \A g \in ReviewQueue!GetIds : gets[g].st = "sent" =>
                \A l \in ReviewQueue!Lists \ gets[g].left : gets[g].rows[l] = OpenNow(l)
        /\ (\E g \in ReviewQueue!GetIds : gets[g].st = "diffs")
           \/ (ReviewQueue!Running = {} /\ queued.st = "ready")
           => \A l \in ReviewQueue!Lists : queued.rows[l] = OpenNow(l)

QueuedInv == QueuedTypeOK /\ QueuedOK

LEMMA NoOpenRows ==
    /\ [r \in {} |-> None] \in OpenRows /\ [r \in {} |-> None] \in DiffRows
    /\ ReviewQueue!NoRows \in [ReviewQueue!Lists -> OpenRows]
<1>1. /\ [r \in {} |-> None] \in [{} -> PostArgs]
      /\ [r \in {} |-> None] \in [{} -> {"loading", "error", "source", "no source"}]
      /\ {} \in SUBSET Reviews
    OBVIOUS
<1>2. [r \in {} |-> None] \in OpenRows /\ [r \in {} |-> None] \in DiffRows
    BY <1>1 DEF OpenRows, DiffRows
<1> QED
    BY <1>2 DEF ReviewQueue!NoRows

LEMMA OpenNowIsRows ==
    ASSUME QueuedTypeOK, NEW l
    PROVE  OpenNow(l) \in OpenRows
<1>1. OpenNow(l) \in [ReviewQueue!Open(l) -> PostArgs]
    BY DEF OpenNow, ReviewQueue!Open, QueuedTypeOK, Requests
<1>2. ReviewQueue!Open(l) \in SUBSET Reviews
    BY DEF ReviewQueue!Open
<1> QED
    BY <1>1, <1>2 DEF OpenRows

LEMMA RequestedAreReviews ==
    ASSUME QueuedTypeOK, NEW g \in ReviewQueue!GetIds
    PROVE  ReviewQueue!Requested(g) \in SUBSET Reviews
<1>1. \A l \in ReviewQueue!Lists : gets[g].rows[l] \in OpenRows
    BY DEF QueuedTypeOK, Gets
<1>2. \A rows \in OpenRows : DOMAIN rows \in SUBSET Reviews
    BY DEF OpenRows
<1> QED
    BY <1>1, <1>2 DEF ReviewQueue!Requested

LEMMA BlankGets ==
    /\ ReviewQueue!NoGet \in Gets /\ ReviewQueue!Asked \in Gets
    /\ [ReviewQueue!NoGet EXCEPT !.st = "done"] \in Gets
    /\ ReviewQueue!NoGet.st = "none" /\ ReviewQueue!Asked.st = "sent"
    /\ ReviewQueue!Asked.left = ReviewQueue!Lists
    /\ [ReviewQueue!NoGet EXCEPT !.st = "done"].st = "done"
<1>1. ReviewQueue!NoRows \in [ReviewQueue!Lists -> OpenRows]
    BY NoOpenRows
<1> QED
    BY <1>1 DEF ReviewQueue!NoGet, ReviewQueue!Asked, Gets

LEMMA QueuedStart == ReviewQueue!Init => QueuedInv
<1> SUFFICES ASSUME ReviewQueue!Init PROVE QueuedInv
    OBVIOUS
<1>1. review \in [Reviews -> Requests]
    BY DEF ReviewQueue!Init, Requests, PostArgs
<1>2. /\ queued \in [ st : {"loading", "ready", "error"},
                      rows : [ReviewQueue!Lists -> OpenRows], diffs : DiffRows ]
      /\ queued.st = "loading"
    BY NoOpenRows DEF ReviewQueue!Init
<1>3. gets = [g \in ReviewQueue!GetIds |->
                IF g = 0 THEN ReviewQueue!Asked ELSE ReviewQueue!NoGet]
    BY DEF ReviewQueue!Init
<1>4. gets \in [ReviewQueue!GetIds -> Gets]
    BY <1>3, BlankGets
<1>5. \A p \in ReviewQueue!PostIds : posts[p].st = "none"
    BY DEF ReviewQueue!Init, ReviewQueue!NoPost
<1>6. QueuedTypeOK
    BY <1>1, <1>2, <1>4, <1>5 DEF QueuedTypeOK
<1>7. QueuedOK
    BY <1>2, <1>3, BlankGets DEF QueuedOK
<1> QED
    BY <1>6, <1>7 DEF QueuedInv

\* Steps of a load: the requests stay as they are.
LEMMA LoadKeeps ==
    ASSUME QueuedTypeOK, QueuedOK, UNCHANGED <<review, posts, crossed>>,
           NEW g \in ReviewQueue!GetIds, NEW get \in Gets,
           gets' = [gets EXCEPT ![g] = get],
           gets[g].st \in {"sent", "diffs"},
           queued' \in [ st : {"loading", "ready", "error"},
                         rows : [ReviewQueue!Lists -> OpenRows], diffs : DiffRows ],
           ~crossed /\ NoneToShow =>
              /\ get.st = "sent" =>
                    \A l \in ReviewQueue!Lists \ get.left : get.rows[l] = OpenNow(l)
              /\ \/ get.st = "sent" /\ queued' = queued
                 \/ get.st = "done" /\ queued'.rows = queued.rows
                    /\ (queued'.st = "ready" => gets[g].st = "diffs")
                 \/ \A l \in ReviewQueue!Lists : queued'.rows[l] = OpenNow(l)
    PROVE  QueuedInv'
<1>1. QueuedTypeOK'
    BY DEF QueuedTypeOK
<1>2. ASSUME NEW l PROVE OpenNow(l)' = OpenNow(l)
    BY DEF OpenNow, ReviewQueue!Open
<1>3. NoneToShow' <=> NoneToShow
    BY DEF NoneToShow
<1>4. gets'[g] = get /\ \A h \in ReviewQueue!GetIds : h # g => gets'[h] = gets[h]
    BY DEF QueuedTypeOK
<1>5. QueuedOK'
    <2> SUFFICES ASSUME ~crossed, NoneToShow
                 PROVE  /\ \A h \in ReviewQueue!GetIds : gets'[h].st = "sent" =>
                            \A l \in ReviewQueue!Lists \ gets'[h].left :
                                gets'[h].rows[l] = OpenNow(l)
                        /\ (\E h \in ReviewQueue!GetIds : gets'[h].st = "diffs")
                           \/ (ReviewQueue!Running' = {} /\ queued'.st = "ready")
                           => \A l \in ReviewQueue!Lists : queued'.rows[l] = OpenNow(l)
        BY <1>2, <1>3 DEF QueuedOK
    <2>1. \A h \in ReviewQueue!GetIds : gets'[h].st = "sent" =>
            \A l \in ReviewQueue!Lists \ gets'[h].left : gets'[h].rows[l] = OpenNow(l)
        BY <1>4 DEF QueuedOK
    <2>2. CASE get.st = "sent" /\ queued' = queued
        <3>1. g \in ReviewQueue!Running'
            BY <1>4, <2>2 DEF ReviewQueue!Running
        <3> QED
            BY <1>4, <2>1, <2>2, <3>1 DEF QueuedOK
    <2>3. CASE /\ get.st = "done" /\ queued'.rows = queued.rows
               /\ queued'.st = "ready" => gets[g].st = "diffs"
        BY <1>4, <2>1, <2>3 DEF QueuedOK
    <2>4. CASE \A l \in ReviewQueue!Lists : queued'.rows[l] = OpenNow(l)
        BY <2>1, <2>4
    <2> QED
        BY <2>2, <2>3, <2>4
<1> QED
    BY <1>1, <1>5 DEF QueuedInv

\* Steps of a handler that leave every load alone.
LEMMA PostKeeps ==
    ASSUME QueuedTypeOK, QueuedOK, PostsOK, UNCHANGED <<gets, queued>>,
           review' \in [Reviews -> Requests],
           NEW p \in ReviewQueue!PostIds,
           NEW c \in PostRecords,
           posts' = [posts EXCEPT ![p] = c], posts[p].st # "ok",
           c.st = "sent" => c.on \in Reviews /\ c.act \in DOMAIN ReviewQueue!LockOf,
           crossed => crossed',
           c.st = "ok" \/ crossed' \/ review' = review
    PROVE  QueuedInv'
<1>1. /\ posts'[p] = c
      /\ \A o \in ReviewQueue!PostIds : o # p => posts'[o] = posts[o]
    BY DEF PostsOK, PostRecords, PostArgs
<1>2. QueuedTypeOK'
    BY <1>1 DEF QueuedTypeOK
<1>3. QueuedOK'
    <2> SUFFICES ASSUME ~crossed', NoneToShow' PROVE QueuedOK'
        BY DEF QueuedOK
    <2>1. NoneToShow /\ ~crossed /\ review' = review
        BY <1>1 DEF NoneToShow
    <2>2. ASSUME NEW l PROVE OpenNow(l)' = OpenNow(l)
        BY <2>1 DEF OpenNow, ReviewQueue!Open
    <2>3. ReviewQueue!Running' = ReviewQueue!Running
        BY DEF ReviewQueue!Running
    <2> QED
        BY <2>1, <2>2, <2>3 DEF QueuedOK
<1> QED
    BY <1>2, <1>3 DEF QueuedInv

\* Steps that touch neither the requests nor what was read of them.
LEMMA RestKeeps ==
    ASSUME QueuedInv, UNCHANGED <<review, queued, gets, posts, crossed>>
    PROVE  QueuedInv'
<1>1. ASSUME NEW l PROVE OpenNow(l)' = OpenNow(l)
    BY DEF OpenNow, ReviewQueue!Open
<1> QED
    BY <1>1 DEF QueuedInv, QueuedTypeOK, QueuedOK, NoneToShow, ReviewQueue!Running

LEMMA RequestsChange ==
    ASSUME QueuedTypeOK, NEW r \in Reviews, NEW act \in DOMAIN ReviewQueue!LockOf,
           NEW arg \in PostArgs, ReviewQueue!Apply(act, r, arg)
    PROVE  review' \in [Reviews -> Requests]
<1>1. review[r] \in Requests
    BY DEF QueuedTypeOK
<1> DEFINE q ==
        CASE act = "assign"   -> [review[r] EXCEPT !.assigned = arg]
          [] act = "activate" -> [review[r] EXCEPT !.active = TRUE]
          [] act = "rollback" -> [review[r] EXCEPT !.drafts = @ + 1]
          [] act = "approve"  -> [review[r] EXCEPT !.status = "approved"]
          [] act = "reject"   -> [review[r] EXCEPT !.status = "rejected"]
<1>2. review' = [review EXCEPT ![r] = q]
    BY DEF ReviewQueue!Apply
<1>3. q \in Requests
    <2>1. CASE act = "assign"
        BY <1>1, <2>1 DEF Requests
    <2>2. CASE act = "activate"
        BY <1>1, <2>2 DEF Requests
    <2>3. CASE act = "rollback"
        BY <1>1, <2>3 DEF Requests
    <2>4. CASE act \in {"approve", "reject"}
        BY <1>1, <2>4 DEF Requests
    <2> QED
        BY <2>1, <2>2, <2>3, <2>4 DEF ReviewQueue!LockOf
<1> HIDE DEF q
<1> QED
    BY <1>2, <1>3 DEF QueuedTypeOK

LEMMA QueuedStep ==
    ASSUME QueuedInv, PostsOK, ReviewQueue!Next
    PROVE  QueuedInv'
<1> USE DEF QueuedInv
<1>1. CASE ReviewQueue!OthersReview
    <2>1. PICK r \in Reviews, s \in {"approved", "rejected"} :
            review' = [review EXCEPT ![r].status = s]
        BY <1>1 DEF ReviewQueue!OthersReview
    <2>2. crossed' = TRUE /\ UNCHANGED <<queued, gets, posts>>
        BY <1>1 DEF ReviewQueue!OthersReview
    <2>3. review' \in [Reviews -> Requests]
        BY <2>1 DEF QueuedTypeOK, Requests
    <2> QED
        BY <2>2, <2>3 DEF QueuedTypeOK, QueuedOK
<1>2. CASE ReviewQueue!ShowActor
    BY <1>2, RestKeeps DEF ReviewQueue!ShowActor
<1>3. ASSUME NEW g \in ReviewQueue!GetIds, ReviewQueue!ShowReviews(g)
      PROVE  QueuedInv'
    <2>1. PICK get : get = [gets[g] EXCEPT !.st = "diffs"]
        OBVIOUS
    <2>2. gets[g] \in Gets
        BY DEF QueuedTypeOK
    <2>3. get \in Gets /\ get.st = "diffs"
        BY <2>1, <2>2 DEF Gets
    <2>4. /\ gets' = [gets EXCEPT ![g] = get] /\ gets[g].st = "sent" /\ gets[g].left = {}
          /\ UNCHANGED <<review, posts, crossed>>
          /\ queued' = [ st |-> "ready", rows |-> gets[g].rows,
                         diffs |-> [r \in ReviewQueue!Requested(g) |-> "loading"] ]
        BY <1>3, <2>1 DEF ReviewQueue!ShowReviews
    <2>5. PICK d \in DiffRows : d = [r \in ReviewQueue!Requested(g) |-> "loading"]
        <3>1. PICK S \in SUBSET Reviews : S = ReviewQueue!Requested(g)
            BY RequestedAreReviews
        <3>2. [r \in S |-> "loading"] \in [S -> {"loading", "error", "source", "no source"}]
            OBVIOUS
        <3> QED
            BY <3>1, <3>2 DEF DiffRows
    <2>6. /\ queued' \in [ st : {"loading", "ready", "error"},
                            rows : [ReviewQueue!Lists -> OpenRows], diffs : DiffRows ]
          /\ queued'.rows = gets[g].rows
        BY <2>2, <2>4, <2>5 DEF Gets
    <2>7. ~crossed /\ NoneToShow => \A l \in ReviewQueue!Lists : queued'.rows[l] = OpenNow(l)
        BY <2>4, <2>6 DEF QueuedOK
    <2> QED
        BY <2>3, <2>4, <2>6, <2>7, LoadKeeps
<1>4. ASSUME NEW g \in ReviewQueue!GetIds, ReviewQueue!FailReviews(g)
      PROVE  QueuedInv'
    <2>1. PICK get \in Gets : get = [ReviewQueue!NoGet EXCEPT !.st = "done"] /\ get.st = "done"
        BY BlankGets
    <2>2. /\ gets' = [gets EXCEPT ![g] = get] /\ gets[g].st = "sent"
          /\ UNCHANGED <<review, posts, crossed>>
          /\ queued' = [queued EXCEPT !.st = "error"]
        BY <1>4, <2>1 DEF ReviewQueue!FailReviews
    <2>3. /\ queued' \in [ st : {"loading", "ready", "error"},
                            rows : [ReviewQueue!Lists -> OpenRows], diffs : DiffRows ]
          /\ queued'.rows = queued.rows /\ queued'.st = "error"
        BY <2>2 DEF QueuedTypeOK
    <2> QED
        BY <2>1, <2>2, <2>3, LoadKeeps
<1>5. ASSUME NEW g \in ReviewQueue!GetIds, ReviewQueue!ShowDiffs(g)
      PROVE  QueuedInv'
    <2>1. PICK get \in Gets : get = [ReviewQueue!NoGet EXCEPT !.st = "done"] /\ get.st = "done"
        BY BlankGets
    <2>2. PICK failed : queued' = [queued EXCEPT !.diffs =
                [r \in ReviewQueue!Requested(g) |->
                    IF r \in failed THEN "error" ELSE ReviewQueue!rollbackSource(r)]]
        BY <1>5 DEF ReviewQueue!ShowDiffs
    <2>3. PICK d \in DiffRows : d = [r \in ReviewQueue!Requested(g) |->
                    IF r \in failed THEN "error" ELSE ReviewQueue!rollbackSource(r)]
        <3>1. PICK S \in SUBSET Reviews : S = ReviewQueue!Requested(g)
            BY RequestedAreReviews
        <3>2. [r \in S |-> IF r \in failed THEN "error" ELSE ReviewQueue!rollbackSource(r)]
                \in [S -> {"loading", "error", "source", "no source"}]
            BY DEF ReviewQueue!rollbackSource
        <3> QED
            BY <3>1, <3>2 DEF DiffRows
    <2>4. /\ gets' = [gets EXCEPT ![g] = get] /\ gets[g].st = "diffs"
          /\ UNCHANGED <<review, posts, crossed>>
        BY <1>5, <2>1 DEF ReviewQueue!ShowDiffs
    <2>5. /\ queued' \in [ st : {"loading", "ready", "error"},
                            rows : [ReviewQueue!Lists -> OpenRows], diffs : DiffRows ]
          /\ queued'.rows = queued.rows
        BY <2>2, <2>3 DEF QueuedTypeOK
    <2> QED
        BY <2>1, <2>4, <2>5, LoadKeeps
<1>6. ASSUME NEW g \in ReviewQueue!GetIds, NEW l \in ReviewQueue!Lists,
             ReviewQueue!ReadReviews(g, l)
      PROVE  QueuedInv'
    <2>1. PICK rows \in OpenRows : rows = OpenNow(l)
        BY OpenNowIsRows
    <2>2. PICK get : get = [gets[g] EXCEPT !.left = @ \ {l}, !.rows[l] = rows]
        OBVIOUS
    <2>3. gets[g] \in Gets /\ gets[g].st = "sent"
        BY <1>6 DEF QueuedTypeOK, ReviewQueue!ReadReviews
    <2>4. /\ get \in Gets /\ get.st = "sent" /\ get.left = gets[g].left \ {l}
          /\ get.rows = [gets[g].rows EXCEPT ![l] = rows]
        BY <2>2, <2>3 DEF Gets
    <2>5. gets[g].rows \in [ReviewQueue!Lists -> OpenRows]
        BY <2>3 DEF Gets
    <2>6. get.rows[l] = rows /\ \A k \in ReviewQueue!Lists : k # l => get.rows[k] = gets[g].rows[k]
        BY <2>4, <2>5
    <2>7. gets' = [gets EXCEPT ![g] = get] /\ UNCHANGED <<review, posts, crossed, queued>>
        BY <1>6, <2>1, <2>2 DEF ReviewQueue!ReadReviews, OpenNow
    <2>8. ~crossed /\ NoneToShow =>
            \A k \in ReviewQueue!Lists \ get.left : get.rows[k] = OpenNow(k)
        BY <2>1, <2>3, <2>4, <2>6 DEF QueuedOK
    <2>9. queued' \in [ st : {"loading", "ready", "error"},
                        rows : [ReviewQueue!Lists -> OpenRows], diffs : DiffRows ]
        BY <2>7 DEF QueuedTypeOK
    <2> QED
        BY <2>3, <2>4, <2>7, <2>8, <2>9, LoadKeeps
<1>7. ASSUME NEW p \in ReviewQueue!PostIds, ReviewQueue!ServePost(p)
      PROVE  QueuedInv'
    <2>1. PICK st \in {"ok", "failed"} :
            /\ posts' = [posts EXCEPT ![p].st = st]
            /\ st = "ok" \/ crossed' \/ review' = review
            /\ \/ ReviewQueue!Apply(posts[p].act, posts[p].on, posts[p].arg)
               \/ review' = review
        BY <1>7 DEF ReviewQueue!ServePost
    <2>2. posts[p].st = "sent" /\ UNCHANGED <<gets, queued>> /\ (crossed => crossed')
        BY <1>7 DEF ReviewQueue!ServePost
    <2>3. /\ posts[p].on \in Reviews /\ posts[p].act \in DOMAIN ReviewQueue!LockOf
          /\ posts[p].arg \in PostArgs
        BY <2>2 DEF QueuedTypeOK, PostsOK, PostArgs
    <2>4. review' \in [Reviews -> Requests]
        BY <2>1, <2>3, RequestsChange DEF QueuedTypeOK
    <2> DEFINE c == [posts[p] EXCEPT !.st = st]
    <2>5. c \in PostRecords /\ c.st = st
        BY DEF PostsOK, PostRecords, PostArgs
    <2>6. posts' = [posts EXCEPT ![p] = c] /\ c.st # "sent" /\ (c.st = "ok" <=> st = "ok")
        BY <2>1, <2>5
    <2> HIDE DEF c
    <2> QED
        BY <2>1, <2>2, <2>4, <2>5, <2>6, PostKeeps
<1>8. ASSUME NEW p \in ReviewQueue!PostIds, ReviewQueue!Fails(p)
      PROVE  QueuedInv'
    <2> DEFINE c == [ReviewQueue!NoPost EXCEPT !.st = "done"]
    <2>1. c \in PostRecords /\ c.st = "done"
        BY DEF ReviewQueue!NoPost, PostRecords, PostArgs
    <2>2. /\ posts' = [posts EXCEPT ![p] = c] /\ posts[p].st = "failed"
          /\ UNCHANGED <<review, gets, queued, crossed>>
        BY <1>8 DEF ReviewQueue!Fails
    <2>3. review' \in [Reviews -> Requests]
        BY <2>2 DEF QueuedTypeOK
    <2> HIDE DEF c
    <2> QED
        BY <2>1, <2>2, <2>3, PostKeeps
<1>9. ASSUME NEW p \in ReviewQueue!PostIds, ReviewQueue!Succeeds(p)
      PROVE  QueuedInv'
    <2>1. /\ posts' = [posts EXCEPT ![p] = [ReviewQueue!NoPost EXCEPT !.st = "done"]]
          /\ gets' = [gets EXCEPT ![p] = ReviewQueue!Asked]
          /\ queued' = [queued EXCEPT !.st = "loading"]
          /\ crossed' = (crossed \/ ReviewQueue!Running # {})
          /\ UNCHANGED review
        BY <1>9 DEF ReviewQueue!Succeeds
    <2>2. p \in ReviewQueue!GetIds
        BY BoundsAssumption DEF ReviewQueue!PostIds, ReviewQueue!GetIds
    <2>3. /\ gets' \in [ReviewQueue!GetIds -> Gets] /\ gets'[p] = ReviewQueue!Asked
          /\ \A g \in ReviewQueue!GetIds : g # p => gets'[g] = gets[g]
        BY <2>1, <2>2, BlankGets DEF QueuedTypeOK
    <2>4. /\ queued' \in [ st : {"loading", "ready", "error"},
                            rows : [ReviewQueue!Lists -> OpenRows], diffs : DiffRows ]
          /\ queued'.st = "loading"
        BY <2>1 DEF QueuedTypeOK
    <2>5. \A o \in ReviewQueue!PostIds : posts'[o].st = "sent" => posts'[o] = posts[o]
        BY <2>1 DEF PostsOK, ReviewQueue!NoPost
    <2>6. QueuedTypeOK'
        BY <2>1, <2>3, <2>4, <2>5 DEF QueuedTypeOK
    <2>7. QueuedOK'
        <3> SUFFICES ASSUME ReviewQueue!Running = {} PROVE QueuedOK'
            BY <2>1 DEF QueuedOK
        <3>1. \A g \in ReviewQueue!GetIds : g # p => gets'[g].st \notin {"sent", "diffs"}
            BY <2>3 DEF ReviewQueue!Running
        <3> QED
            BY <2>3, <2>4, <3>1, BlankGets DEF QueuedOK
    <2> QED
        BY <2>6, <2>7
<1>10. ASSUME NEW r \in Reviews, NEW act \in DOMAIN ReviewQueue!LockOf,
              NEW arg \in PostArgs, ReviewQueue!Submit(act, r, arg)
       PROVE  QueuedInv'
    <2> DEFINE c == [ st |-> "sent", act |-> act, on |-> r, arg |-> arg ]
    <2>1. c \in PostRecords /\ c.on = r /\ c.act = act /\ c.st = "sent"
        BY DEF ReviewQueue!LockOf, PostArgs, PostRecords
    <2>2. PICK p \in ReviewQueue!PostIds :
            /\ \A o \in ReviewQueue!PostIds : posts[o].st = "none" <=> o >= p
            /\ posts' = [posts EXCEPT ![p] = c]
        BY <1>10 DEF ReviewQueue!Submit
    <2>5. posts[p].st = "none"
        BY <2>2 DEF ReviewQueue!PostIds
    <2>3. UNCHANGED <<review, gets, queued, crossed>>
        BY <1>10 DEF ReviewQueue!Submit
    <2>4. review' \in [Reviews -> Requests]
        BY <2>3 DEF QueuedTypeOK
    <2> HIDE DEF c
    <2> QED
        BY <2>1, <2>2, <2>3, <2>4, <2>5, PostKeeps
<1>11. CASE ReviewQueue!handleDecision \/ ReviewQueue!handleActivate
    <2>1. PICK r \in Reviews, act \in {"approve", "reject", "activate"}, arg \in {"replace", None} :
            ReviewQueue!Submit(act, r, arg)
        BY <1>11 DEF ReviewQueue!handleDecision, ReviewQueue!handleActivate
    <2>2. act \in DOMAIN ReviewQueue!LockOf /\ arg \in PostArgs
        BY DEF ReviewQueue!LockOf, PostArgs
    <2> QED
        BY <1>10, <2>1, <2>2
<1>12. CASE ReviewQueue!handleAssign
    <2>1. PICK r \in Reviews, to \in {None, "viewer", "other"} :
            IF to = None THEN UNCHANGED <<review, queued, posts, gets, crossed>>
                         ELSE ReviewQueue!Submit("assign", r, to)
        BY <1>12 DEF ReviewQueue!handleAssign
    <2>2. "assign" \in DOMAIN ReviewQueue!LockOf /\ to \in PostArgs
        BY DEF ReviewQueue!LockOf, PostArgs
    <2> QED
        BY <1>10, <2>1, <2>2, RestKeeps
<1>13. CASE ReviewQueue!handleCreateRollbackDraft
    <2>1. PICK r \in Reviews : ReviewQueue!Submit("rollback", r, None)
        BY <1>13 DEF ReviewQueue!handleCreateRollbackDraft
    <2>2. "rollback" \in DOMAIN ReviewQueue!LockOf /\ None \in PostArgs
        BY DEF ReviewQueue!LockOf, PostArgs
    <2> QED
        BY <1>10, <2>1, <2>2
<1> QED
    BY <1>1, <1>2, <1>3, <1>4, <1>5, <1>6, <1>7, <1>8, <1>9, <1>11, <1>12, <1>13
    DEF ReviewQueue!Next, ReviewQueue!Answers

LEMMA QueuedShows == QueuedInv => ReviewQueue!OpenReviewsAreListed
BY DEF QueuedInv, QueuedOK, NoneToShow, OpenNow, ReviewQueue!OpenReviewsAreListed

-----------------------------------------------------------------------------
\* Together.

ReadInv ==
    /\ mounted = "lists" => ListsInv
    /\ mounted = "records" => RecordsInv
    /\ mounted = "grant table" => GrantTableInv
    /\ mounted = "source review" => PanelInv
    /\ mounted = "approvals" => QueueInv
    /\ mounted = "reviews" => PostsOK /\ LocksOK /\ QueuedInv

LEMMA StepOfReader ==
    ASSUME [Next]_vars
    PROVE  /\ mounted = "lists" => Lists!Next \/ UNCHANGED <<troubles, listsVars>>
           /\ mounted = "records" => Records!Next \/ UNCHANGED <<troubles, recordsVars>>
           /\ mounted = "grant table" => GrantTable!Next \/ UNCHANGED <<troubles, grantTableVars>>
           /\ mounted = "source review" =>
                SourceReview!Next \/ UNCHANGED <<troubles, sourceReviewVars>>
           /\ mounted = "approvals" => Queue!Next \/ UNCHANGED <<troubles, queueVars>>
           /\ mounted = "reviews" => ReviewQueue!Next \/ UNCHANGED <<troubles, reviewQueueVars>>
<1>1. CASE OnlyLists /\ Lists!Next
    BY <1>1 DEF OnlyLists
<1>2. CASE OnlyRecords /\ Records!Next
    BY <1>2 DEF OnlyRecords
<1>3. CASE OnlyGrantTable /\ GrantTable!Next
    BY <1>3 DEF OnlyGrantTable
<1>4. CASE OnlySourceReview /\ SourceReview!Next
    BY <1>4 DEF OnlySourceReview
<1>5. CASE OnlyQueue /\ Queue!Next
    BY <1>5 DEF OnlyQueue
<1>6. CASE OnlyReviewQueue /\ ReviewQueue!Next
    BY <1>6 DEF OnlyReviewQueue
<1>7. CASE OnlyAccess \/ OnlyForm \/ OnlyFolders \/ OnlyEditor
    BY <1>7 DEF OnlyAccess, OnlyForm, OnlyFolders, OnlyEditor
<1>8. CASE UNCHANGED vars
    BY <1>8 DEF vars, pageVars, olderVars
<1> QED
    BY <1>1, <1>2, <1>3, <1>4, <1>5, <1>6, <1>7, <1>8 DEF Next

LEMMA ReadStart == Init => ReadInv
<1> SUFFICES ASSUME Init PROVE ReadInv
    OBVIOUS
<1>1. /\ mounted = "lists" => Lists!Init
      /\ mounted = "records" => Records!Init
      /\ mounted = "grant table" => GrantTable!Init
      /\ mounted = "source review" => SourceReview!Init
      /\ mounted = "approvals" => Queue!Init
      /\ mounted = "reviews" => ReviewQueue!Init
    BY DEF Init
<1> QED
    BY <1>1, ListsStart, RecordsStart, GrantTableStart, PanelStart, QueueStart,
       ReviewsStart, QueuedStart DEF ReadInv

LEMMA ReadersRest ==
    /\ ListsInv /\ UNCHANGED <<troubles, listsVars>> => ListsInv'
    /\ RecordsInv /\ UNCHANGED <<troubles, recordsVars>> => RecordsInv'
    /\ GrantTableInv /\ UNCHANGED <<troubles, grantTableVars>> => GrantTableInv'
    /\ PanelInv /\ UNCHANGED <<troubles, sourceReviewVars>> => PanelInv'
    /\ QueueInv /\ UNCHANGED <<troubles, queueVars>> => QueueInv'
    /\ PostsOK /\ LocksOK /\ QueuedInv /\ UNCHANGED <<troubles, reviewQueueVars>>
        => (PostsOK /\ LocksOK /\ QueuedInv)'
<1>1. ASSUME ListsInv, UNCHANGED <<troubles, listsVars>> PROVE ListsInv'
    BY <1>1 DEF listsVars, ListsInv, ListsTypeOK, ListsCoherent, Lists!Ended,
                Lists!ProfilesAreOfTheSources
<1>2. ASSUME RecordsInv, UNCHANGED <<troubles, recordsVars>> PROVE RecordsInv'
    BY <1>2 DEF recordsVars, RecordsInv, WatchOK, LookupOK, Records!labels
<1>3. ASSUME GrantTableInv, UNCHANGED <<troubles, grantTableVars>> PROVE GrantTableInv'
    BY <1>3 DEF grantTableVars, GrantTableInv, TableTypeOK, SendsTell, TableFollows,
                GrantTable!UnderWay
<1>4. ASSUME PanelInv, UNCHANGED <<troubles, sourceReviewVars>> PROVE PanelInv'
    BY <1>4 DEF sourceReviewVars, PanelInv, PanelTypeOK, PanelOK
<1>5. ASSUME QueueInv, UNCHANGED <<troubles, queueVars>> PROVE QueueInv'
    BY <1>5 DEF queueVars, QueueInv, QueueTypeOK, QueueOK, FitsUnder, UnderFilter
<1>6. ASSUME PostsOK, LocksOK, QueuedInv, UNCHANGED <<troubles, reviewQueueVars>>
      PROVE  (PostsOK /\ LocksOK /\ QueuedInv)'
    <2>1. PostsOK' /\ LocksOK'
        BY <1>6 DEF reviewQueueVars, PostsOK, LocksOK, ReviewQueue!InFlight
    <2>2. QueuedInv'
        BY <1>6, RestKeeps DEF reviewQueueVars
    <2> QED
        BY <2>1, <2>2
<1> QED
    BY <1>1, <1>2, <1>3, <1>4, <1>5, <1>6

LEMMA ReadStep ==
    ASSUME ReadInv, [Next]_vars
    PROVE  ReadInv'
<1>1. mounted' = mounted
    BY StepOfPage
<1>2. CASE mounted = "lists"
    BY <1>1, <1>2, StepOfReader, ListsStep, ReadersRest DEF ReadInv
<1>3. CASE mounted = "records"
    BY <1>1, <1>3, StepOfReader, RecordsStep, ReadersRest DEF ReadInv
<1>4. CASE mounted = "grant table"
    BY <1>1, <1>4, StepOfReader, GrantTableStep, ReadersRest DEF ReadInv
<1>5. CASE mounted = "source review"
    BY <1>1, <1>5, StepOfReader, PanelStep, ReadersRest DEF ReadInv
<1>6. CASE mounted = "approvals"
    BY <1>1, <1>6, StepOfReader, QueueStep, ReadersRest DEF ReadInv
<1>7. CASE mounted = "reviews"
    BY <1>1, <1>7, StepOfReader, ReviewsStep, QueuedStep, ReadersRest DEF ReadInv
<1>8. CASE mounted \notin {"lists", "records", "grant table", "source review",
                           "approvals", "reviews"}
    BY <1>1, <1>8 DEF ReadInv
<1> QED
    BY <1>2, <1>3, <1>4, <1>5, <1>6, <1>7, <1>8

\* What stands on a page was read for it, for any number of agents, sources, approvals,
\* reviews and grants, however often a load, a filter or a selection is superseded: the
\* count in the shell, the profile of the selected agent, which numbers are unavailable,
\* the usage profiles, the panel of a source, the rows under a filter and in the queue,
\* and the table of grants once nothing is under way.
THEOREM PagesShowWhatWasRead == Spec => []PageShowsWhatWasRead
<1>1. ReadInv => PageShowsWhatWasRead
    <2> SUFFICES ASSUME ReadInv PROVE PageShowsWhatWasRead
        OBVIOUS
    <2>1. FolderList!NoPolicyDisappears
        BY DEF FolderList!NoPolicyDisappears, FolderList!groupPoliciesByFolder
    <2>2. mounted = "lists" => Lists!ProfilesAreOfTheSources
        BY DEF ReadInv, ListsInv, ListsCoherent, Lists!ProfilesAreOfTheSources
    <2>3. mounted = "records" =>
            /\ Records!BadgeIsOfThisPage /\ Records!ProfileIsOfSelection
            /\ Records!FailuresAreAdmitted /\ Records!BundleIsLabelled
        BY RecordsShow DEF ReadInv
    <2>4. /\ mounted = "grant table" =>
                GrantTable!RowsTellTheOutcome /\ GrantTable!TableCatchesUp
          /\ mounted = "source review" =>
                SourceReview!PanelIsOfTheSource /\ SourceReview!SignalFollowsTheLists
          /\ mounted = "approvals" => Queue!QueueIsOfTheFilter
          /\ mounted = "reviews" => ReviewQueue!OpenReviewsAreListed
        BY GrantTableShows, PanelShows, QueueShows, QueuedShows DEF ReadInv
    <2> QED
        BY <2>1, <2>2, <2>3, <2>4 DEF PageShowsWhatWasRead
<1> QED
    BY <1>1, ReadStart, ReadStep, PTL DEF Spec

-----------------------------------------------------------------------------
(* The editor: printing and parsing.                                         *)

\* The values and the labels that occur.
Said ==
    {"", "transfer_data", "external_api_call", "active", "pass", "fail",
     "source_status", "capability_status", "s1", "s2", "c1", "x",
     "data_loss_prevention", "below_threshold", "plain", "default", "quoted", "escaped",
     "unauthorized outbound transfer"} \cup Decisions

LineLabels == DOMAIN FIELD_ALIASES \cup {"source.owner"}

\* Only a line of the form "then" decides.
Lines == [ kind : {"expression"}, label : LineLabels, value : Said ]
            \cup [ kind : {"then"}, label : Decisions, value : Said ]

Conditions == { c \in [Fields -> Said] : c["decision"] \in Decisions }

Drafted == { NoCheck } \cup [ type : CheckTypes, target : Said, outcome : Said ]

\* Nothing in a text is about a field, or one line is, with a value.
Silent(dsl, f) == \A i \in DOMAIN dsl : ~IsAbout(dsl[i], f)

Once(dsl, f, v) ==
    \E i \in DOMAIN dsl :
        /\ IsAbout(dsl[i], f) /\ ValueFor(dsl[i], f) = v
        /\ \A j \in DOMAIN dsl : IsAbout(dsl[j], f) => j = i

Means(dsl, f, v) == (Silent(dsl, f) /\ v = "") \/ Once(dsl, f, v)

Names == {"data_exfiltration_prevention", "require_active_grant", "policy"}
Kinds == {"local_draft", "live_fallback", "draft_version"}

EditorTypeOK ==
    /\ editor \in [ name : Names, source : Kinds, dsl : Seq(Lines) ]
    /\ checks \in [CheckIds -> Drafted]
    /\ rule \in Conditions
    /\ version \in [ name : Names, condition : Conditions, checks : [CheckIds -> Drafted] ]

PrintedOK ==
    meant # None => meant \in Conditions /\ editor.dsl = conditionToDsl(editor.name, meant)

\* A condition refers to a check, or to a type of check only.
Points(c, check) ==
    \/ isPolicyCheckConditionLinked(c, check)
    \/ c["check_type"] # "" /\ c["check_target_id"] = ""

LinkOK ==
    link # None =>
        /\ link \in Authored(checks)
        /\ \A k \in Authored(checks) : checks[k] = checks[link] => k = link
        /\ \/ parsed.errors
           \/ IsCanned(editor.name, condition)
           \/ Points(condition, checks[link])


-----------------------------------------------------------------------------
(* Lines and labels.                                                         *)

LEMMA FieldsAre ==
    /\ Shown = {"action_type", "source_status", "check_type", "check_outcome",
                "check_target_id"}
    /\ Fields = Shown \cup {"decision", "reason", "source_statuses"}
BY DEF Shown, Fields, ToSet, WHEN_FIELDS, CHECK_FIELDS

\* The printed label of a field is read as that field.
LEMMA LabelsAreRead ==
    ASSUME NEW f \in Shown
    PROVE  /\ FIELD_LABELS[f] \in LineLabels
           /\ resolveField(FIELD_LABELS[f]) = f
<1>1. /\ FIELD_LABELS["action_type"] = "action.type"
      /\ FIELD_LABELS["source_status"] = "source.status"
      /\ FIELD_LABELS["check_type"] = "check.type"
      /\ FIELD_LABELS["check_outcome"] = "check.outcome"
      /\ FIELD_LABELS["check_target_id"] = "check.target_id"
    BY DEF FIELD_LABELS
<1>2. \A g \in Shown : FIELD_LABELS[g] = FIELD_LABELS[f] => g = f
    BY <1>1, FieldsAre
<1>3. (CHOOSE g \in Shown : FIELD_LABELS[g] = FIELD_LABELS[f]) = f
    BY <1>2
<1>4. FIELD_LABELS[f] \in {"action.type", "source.status", "check.type", "check.outcome",
                           "check.target_id"}
    BY <1>1, FieldsAre
<1>5. FIELD_ALIASES[FIELD_LABELS[f]] = f
    BY <1>3, <1>4 DEF FIELD_ALIASES
<1>6. FIELD_LABELS[f] \in DOMAIN FIELD_ALIASES
    BY <1>4 DEF FIELD_ALIASES
<1>7. FIELD_LABELS[f] \notin Shown \cup {"decision", "reason"}
    BY <1>4, FieldsAre
<1>8. FIELD_LABELS[f] \in LineLabels
    BY <1>6 DEF LineLabels
<1> QED
    BY <1>5, <1>6, <1>7, <1>8 DEF resolveField

LEMMA AliasesAreRead ==
    /\ resolveField("source.owner") = None
    /\ resolveField("AgentActionEvent.action") = "action_type"
    /\ resolveField("DLPContentCheck") = "check_type"
    /\ resolveField("VolumeThresholdCheck") = "check_outcome"
<1>1. /\ FIELD_ALIASES["AgentActionEvent.action"] = "action_type"
      /\ FIELD_ALIASES["DLPContentCheck"] = "check_type"
      /\ FIELD_ALIASES["VolumeThresholdCheck"] = "check_outcome"
    BY DEF FIELD_ALIASES
<1>2. \A l \in {"AgentActionEvent.action", "DLPContentCheck", "VolumeThresholdCheck"} :
        l \in DOMAIN FIELD_ALIASES /\ l \notin Shown \cup {"decision", "reason"}
    BY FieldsAre DEF FIELD_ALIASES
<1>3. "source.owner" \notin DOMAIN FIELD_ALIASES
    BY DEF FIELD_ALIASES
<1>4. "source.owner" \notin Shown \cup {"decision", "reason"}
    BY FieldsAre
<1> QED
    BY <1>1, <1>2, <1>3, <1>4 DEF resolveField

\* A printed line is about its field and no other.
LEMMA EntrySays ==
    ASSUME NEW c \in Conditions, NEW g \in Shown
    PROVE  /\ Entry(c, g) \in Seq(Lines)
           /\ Means(Entry(c, g), g, c[g])
           /\ \A f \in Fields : f # g => Silent(Entry(c, g), f)
<1>1. c[g] \in Said /\ g \notin {"decision", "reason"}
    BY FieldsAre DEF Conditions
<1>2. CASE c[g] = ""
    <2>1. Entry(c, g) = << >>
        BY <1>2 DEF Entry
    <2>2. \A f : Silent(<< >>, f)
        BY DEF Silent
    <2>3. << >> \in Seq(Lines)
        OBVIOUS
    <2> QED
        BY <1>2, <2>1, <2>2, <2>3 DEF Means
<1>3. CASE c[g] # ""
    <2> DEFINE l == Expression(FIELD_LABELS[g], c[g])
    <2>1. /\ l.kind = "expression" /\ l.value = c[g]
          /\ resolveField(l.label) = g
        BY LabelsAreRead DEF Expression
    <2>2. l \in Lines
        BY <1>1, <2>1, LabelsAreRead DEF Lines, Expression
    <2>3. Entry(c, g) = <<l>>
        BY <1>3 DEF Entry
    <2>4. \A f \in Fields : IsAbout(l, f) <=> f = g
        BY <2>1 DEF IsAbout
    <2>5. ValueFor(l, g) = c[g]
        BY <2>1 DEF ValueFor
    <2> HIDE DEF l
    <2>6. g \in Fields
        BY FieldsAre
    <2>7. <<l>> \in Seq(Lines) /\ DOMAIN <<l>> = {1} /\ <<l>>[1] = l
        BY <2>2
    <2>8. Once(<<l>>, g, c[g])
        BY <2>4, <2>5, <2>6, <2>7 DEF Once
    <2>9. \A f \in Fields : f # g => Silent(<<l>>, f)
        BY <2>4, <2>7 DEF Silent
    <2> QED
        BY <2>3, <2>7, <2>8, <2>9 DEF Means
<1> QED
    BY <1>2, <1>3

LEMMA ThenSays ==
    ASSUME NEW d \in Decisions, NEW r \in Said
    PROVE  LET t == << Then(d, r) >> IN
           /\ t \in Seq(Lines)
           /\ Means(t, "decision", d) /\ Means(t, "reason", r)
           /\ \A f \in Shown \cup {"source_statuses"} : Silent(t, f)
<1> DEFINE l == Then(d, r)
<1>1. l.kind = "then" /\ l.label = d /\ l.value = r
    BY DEF Then
<1>2. l \in Lines
    BY DEF Lines, Then
<1>3. \A f : IsAbout(l, f) <=> f \in {"decision", "reason"}
    BY <1>1 DEF IsAbout
<1>4. ValueFor(l, "decision") = d /\ ValueFor(l, "reason") = r
    BY <1>1 DEF ValueFor
<1> HIDE DEF l
<1>7. <<l>> \in Seq(Lines) /\ DOMAIN <<l>> = {1} /\ <<l>>[1] = l
    BY <1>2
<1>5. <<l>> \in Seq(Lines) /\ Means(<<l>>, "decision", d) /\ Means(<<l>>, "reason", r)
    BY <1>3, <1>4, <1>7 DEF Means, Once
<1>6. \A f \in Shown \cup {"source_statuses"} : Silent(<<l>>, f)
    BY <1>3, <1>7, FieldsAre DEF Silent
<1> QED
    BY <1>5, <1>6 DEF l

\* Texts are joined.
LEMMA JoinSilent ==
    ASSUME NEW s \in Seq(Lines), NEW t \in Seq(Lines), NEW f, Silent(s, f), Silent(t, f)
    PROVE  Silent(s \o t, f)
<1> SUFFICES ASSUME NEW i \in DOMAIN (s \o t) PROVE ~IsAbout((s \o t)[i], f)
    BY DEF Silent
<1> QED
    BY DEF Silent

LEMMA JoinRight ==
    ASSUME NEW s \in Seq(Lines), NEW t \in Seq(Lines), NEW f, NEW v,
           Silent(s, f), Means(t, f, v)
    PROVE  Means(s \o t, f, v)
<1>1. CASE Silent(t, f) /\ v = ""
    BY <1>1, JoinSilent DEF Means
<1>2. CASE Once(t, f, v)
    <2>1. PICK i \in DOMAIN t :
            /\ IsAbout(t[i], f) /\ ValueFor(t[i], f) = v
            /\ \A j \in DOMAIN t : IsAbout(t[j], f) => j = i
        BY <1>2 DEF Once
    <2>2. i + Len(s) \in DOMAIN (s \o t) /\ (s \o t)[i + Len(s)] = t[i]
        OBVIOUS
    <2>3. ASSUME NEW j \in DOMAIN (s \o t), IsAbout((s \o t)[j], f) PROVE j = i + Len(s)
        <3>1. CASE j \in DOMAIN s
            BY <2>3, <3>1 DEF Silent
        <3>2. CASE j \notin DOMAIN s
            <4>1. j - Len(s) \in DOMAIN t /\ (s \o t)[j] = t[j - Len(s)]
                BY <3>2
            <4> QED
                BY <2>1, <2>3, <4>1
        <3> QED
            BY <3>1, <3>2
    <2> QED
        BY <2>1, <2>2, <2>3 DEF Means, Once
<1> QED
    BY <1>1, <1>2 DEF Means

LEMMA JoinLeft ==
    ASSUME NEW s \in Seq(Lines), NEW t \in Seq(Lines), NEW f, NEW v,
           Means(s, f, v), Silent(t, f)
    PROVE  Means(s \o t, f, v)
<1>1. CASE Silent(s, f) /\ v = ""
    BY <1>1, JoinSilent DEF Means
<1>2. CASE Once(s, f, v)
    <2>1. PICK i \in DOMAIN s :
            /\ IsAbout(s[i], f) /\ ValueFor(s[i], f) = v
            /\ \A j \in DOMAIN s : IsAbout(s[j], f) => j = i
        BY <1>2 DEF Once
    <2>2. i \in DOMAIN (s \o t) /\ (s \o t)[i] = s[i]
        OBVIOUS
    <2>3. ASSUME NEW j \in DOMAIN (s \o t), IsAbout((s \o t)[j], f) PROVE j = i
        <3>1. CASE j \in DOMAIN s
            BY <2>1, <2>3, <3>1
        <3>2. CASE j \notin DOMAIN s
            <4>1. j - Len(s) \in DOMAIN t /\ (s \o t)[j] = t[j - Len(s)]
                BY <3>2
            <4> QED
                BY <2>3, <4>1 DEF Silent
        <3> QED
            BY <3>1, <3>2
    <2> QED
        BY <2>1, <2>2, <2>3 DEF Means, Once
<1> QED
    BY <1>1, <1>2 DEF Means

LEMMA MeansIsRead ==
    ASSUME NEW s \in Seq(Lines), NEW f, NEW v, Means(s, f, v)
    PROVE  ValueIn(s, f) = v
<1> DEFINE about == { i \in DOMAIN s : IsAbout(s[i], f) }
<1>1. CASE Silent(s, f) /\ v = ""
    BY <1>1 DEF Silent, ValueIn
<1>2. CASE Once(s, f, v)
    <2>1. PICK i \in DOMAIN s :
            /\ IsAbout(s[i], f) /\ ValueFor(s[i], f) = v
            /\ \A j \in DOMAIN s : IsAbout(s[j], f) => j = i
        BY <1>2 DEF Once
    <2>2. about = {i}
        BY <2>1
    <2>3. Max(about) = i
        BY <2>2 DEF Max
    <2>4. about # {}
        BY <2>2
    <2>5. ValueIn(s, f) = ValueFor(s[Max(about)], f)
        BY <2>4 DEF ValueIn
    <2> QED
        BY <2>1, <2>3, <2>5
<1> QED
    BY <1>1, <1>2 DEF Means

\* Only a line of the form "then" is about the decision.
LEMMA OnlyThenDecides ==
    ASSUME NEW l \in Lines, IsAbout(l, "decision")
    PROVE  ValueFor(l, "decision") \in Decisions
<1>1. CASE l.kind = "then"
    BY <1>1 DEF IsAbout, ValueFor
<1>2. CASE l.kind = "expression"
    <2>1. l.label \in LineLabels /\ resolveField(l.label) = "decision"
        BY <1>2 DEF Lines, IsAbout
    <2>2. CASE l.label = "source.owner"
        BY <2>1, <2>2, AliasesAreRead, FieldsAssumption, FieldsAre
    <2>3. CASE l.label \in {"AgentActionEvent.action", "DLPContentCheck", "VolumeThresholdCheck"}
        BY <2>1, <2>3, AliasesAreRead
    <2>4. CASE l.label \in {"action.type", "source.status", "check.type", "check.outcome",
                            "check.target_id"}
        <3>1. PICK g \in Shown : FIELD_LABELS[g] = l.label
            BY <2>4, FieldsAre DEF FIELD_LABELS
        <3> QED
            BY <2>1, <3>1, LabelsAreRead, FieldsAre
    <2> QED
        BY <2>1, <2>2, <2>3, <2>4 DEF LineLabels, FIELD_ALIASES
<1> QED
    BY <1>1, <1>2 DEF Lines

\* The last line of a kind exists.
LEMMA LastIsMember ==
    ASSUME NEW n \in Nat, NEW S \in SUBSET (1..n), S # {}
    PROVE  Max(S) \in S
<1> DEFINE T == { n - i : i \in S }
<1>0. \A i \in S : i \in Nat /\ n - i \in Nat
    OBVIOUS
<1>1. T \in SUBSET Nat /\ T # {}
    BY <1>0
<1>2. PICK m \in T : \A j \in T : m <= j
    BY <1>1, LeastNatural
<1>3. PICK k \in S : m = n - k
    BY <1>2
<1>4. \A i \in S : n - i \in T
    OBVIOUS
<1>5. \A i \in S : n - k <= n - i
    BY <1>2, <1>3, <1>4
<1>6. \A i \in S : k >= i
    BY <1>0, <1>5
<1> QED
    BY <1>6 DEF Max

\* What is parsed is a condition.
LEMMA ParsedIsCondition ==
    ASSUME NEW s \in Seq(Lines)
    PROVE  parsePolicyDslToPolicyRule(s).condition \in Conditions
<1>1. ASSUME NEW f PROVE ValueIn(s, f) = "" \/ \E i \in DOMAIN s : IsAbout(s[i], f) /\ ValueIn(s, f) = ValueFor(s[i], f)
    <2> DEFINE about == { i \in DOMAIN s : IsAbout(s[i], f) }
    <2>1. CASE about = {}
        BY <2>1 DEF ValueIn
    <2>2. CASE about # {}
        <3>1. about \in SUBSET (1..Len(s)) /\ Len(s) \in Nat
            OBVIOUS
        <3> HIDE DEF about
        <3>2. Max(about) \in about
            BY <2>2, <3>1, LastIsMember
        <3> USE DEF about
        <3>3. ValueIn(s, f) = ValueFor(s[Max(about)], f)
            BY <2>2 DEF ValueIn
        <3> QED
            BY <3>2, <3>3
    <2> QED
        BY <2>1, <2>2
<1>2. ASSUME NEW i \in DOMAIN s, NEW f PROVE ValueFor(s[i], f) \in Said
    <2>1. s[i] \in Lines
        OBVIOUS
    <2> QED
        BY <2>1 DEF ValueFor, Lines, Said
<1>3. \A f : ValueIn(s, f) \in Said
    BY <1>1, <1>2 DEF Said
<1>4. ValueIn(s, "decision") \in Decisions \cup {""}
    <2>1. \A i \in DOMAIN s : s[i] \in Lines
        OBVIOUS
    <2> QED
        BY <1>1, <2>1, OnlyThenDecides
<1> DEFINE c == [f \in Fields |-> ValueIn(s, f)]
<1> DEFINE d == [c EXCEPT !["decision"] = IF @ = "" THEN "require_human_review" ELSE @]
<1>5. c \in [Fields -> Said] /\ c["decision"] \in Decisions \cup {""} /\ "decision" \in Fields
    BY <1>3, <1>4, FieldsAre
<1> HIDE DEF c
<1>6. d \in [Fields -> Said] /\ d["decision"] \in Decisions
    BY <1>5 DEF Said, Decisions
<1>7. parsePolicyDslToPolicyRule(s).condition = d
    BY DEF parsePolicyDslToPolicyRule, c
<1> QED
    BY <1>6, <1>7 DEF Conditions


-----------------------------------------------------------------------------
(* What is printed is read again.                                            *)

LEMMA ReadsAs ==
    ASSUME NEW s
    PROVE  /\ \A f \in Fields \ {"decision"} :
                parsePolicyDslToPolicyRule(s).condition[f] = ValueIn(s, f)
           /\ parsePolicyDslToPolicyRule(s).condition["decision"] =
                IF ValueIn(s, "decision") = "" THEN "require_human_review"
                ELSE ValueIn(s, "decision")
           /\ (parsePolicyDslToPolicyRule(s).errors <=> ValueIn(s, "reason") = "")
<1> "decision" \in Fields /\ "reason" \in Fields
    BY FieldsAre
<1> QED
    BY DEF parsePolicyDslToPolicyRule

\* A text that gives these fields of a condition, and no others.
Gives(s, c, S) ==
    /\ s \in Seq(Lines)
    /\ \A f \in S : Means(s, f, c[f])
    /\ \A f \in Fields \ S : Silent(s, f)

LEMMA OneMore ==
    ASSUME NEW c \in Conditions, NEW s, NEW S \in SUBSET Shown, NEW g \in Shown \ S,
           Gives(s, c, S)
    PROVE  Gives(s \o Entry(c, g), c, S \cup {g})
<1> DEFINE e == Entry(c, g)
<1>1. /\ e \in Seq(Lines) /\ Means(e, g, c[g])
      /\ \A f \in Fields : f # g => Silent(e, f)
    BY EntrySays
<1> HIDE DEF e
<1>2. s \in Seq(Lines) /\ s \o e \in Seq(Lines) /\ S \subseteq Fields /\ g \in Fields
    BY <1>1, FieldsAre DEF Gives
<1>3. ASSUME NEW f \in S PROVE Means(s \o e, f, c[f])
    BY <1>1, <1>2, JoinLeft DEF Gives
<1>4. Means(s \o e, g, c[g])
    BY <1>1, <1>2, JoinRight DEF Gives
<1>5. ASSUME NEW f \in Fields \ (S \cup {g}) PROVE Silent(s \o e, f)
    BY <1>1, <1>2, JoinSilent DEF Gives
<1> QED
    BY <1>2, <1>3, <1>4, <1>5 DEF Gives, e

\* A line for each field that has a value.
LEMMA EntriesSay ==
    ASSUME NEW c \in Conditions
    PROVE  Gives(entriesForFields(c), c, Shown)
<1>1. Gives(<< >>, c, {})
    BY DEF Gives, Silent
<1> DEFINE a == Entry(c, "action_type")
           b1 == a \o Entry(c, "source_status")
           b2 == b1 \o Entry(c, "check_type")
           b3 == b2 \o Entry(c, "check_outcome")
           b4 == b3 \o Entry(c, "check_target_id")
<1>2. Gives(a, c, {"action_type"})
    <2>1. << >> \o a = a
        BY EntrySays, FieldsAre
    <2> HIDE DEF a
    <2>2. Gives(<< >> \o Entry(c, "action_type"), c, {} \cup {"action_type"})
        BY <1>1, OneMore, FieldsAre
    <2> QED
        BY <2>1, <2>2 DEF a
<1> HIDE DEF a
<1>3. Gives(b1, c, {"action_type"} \cup {"source_status"})
    BY <1>2, OneMore, FieldsAre
<1> HIDE DEF b1
<1>4. Gives(b2, c, {"action_type", "source_status"} \cup {"check_type"})
    <2>1. {"action_type"} \cup {"source_status"} = {"action_type", "source_status"}
        OBVIOUS
    <2> QED
        BY <1>3, <2>1, OneMore, FieldsAre
<1> HIDE DEF b2
<1>5. Gives(b3, c, {"action_type", "source_status", "check_type"} \cup {"check_outcome"})
    <2>1. {"action_type", "source_status"} \cup {"check_type"}
            = {"action_type", "source_status", "check_type"}
        OBVIOUS
    <2> QED
        BY <1>4, <2>1, OneMore, FieldsAre
<1> HIDE DEF b3
<1>6. Gives(b4, c, {"action_type", "source_status", "check_type", "check_outcome"}
                        \cup {"check_target_id"})
    <2>1. {"action_type", "source_status", "check_type"} \cup {"check_outcome"}
            = {"action_type", "source_status", "check_type", "check_outcome"}
        OBVIOUS
    <2> QED
        BY <1>5, <2>1, OneMore, FieldsAre
<1>7. b4 = entriesForFields(c)
    BY DEF entriesForFields, WHEN_FIELDS, CHECK_FIELDS, a, b1, b2, b3
<1>8. {"action_type", "source_status", "check_type", "check_outcome"} \cup {"check_target_id"}
        = Shown
    BY FieldsAre
<1> QED
    BY <1>6, <1>7, <1>8

\* But for the text of the data exfiltration template.
LEMMA PrintedSays ==
    ASSUME NEW name, NEW c \in Conditions, ~IsCanned(name, c)
    PROVE  LET s == conditionToDsl(name, c) IN
           /\ s \in Seq(Lines)
           /\ \A f \in Shown \cup {"decision"} : ValueIn(s, f) = c[f]
           /\ ValueIn(s, "source_statuses") = ""
           /\ ValueIn(s, "reason") = IF c["reason"] = "quoted" THEN "escaped" ELSE c["reason"]
<1> DEFINE e == entriesForFields(c)
           r == IF c["reason"] = "quoted" THEN "escaped" ELSE c["reason"]
           t == << Then(c["decision"], r) >>
<1>1. conditionToDsl(name, c) = e \o t
    BY DEF conditionToDsl
<1>2. c["decision"] \in Decisions /\ r \in Said
    BY FieldsAre DEF Conditions, Said
<1> HIDE DEF r
<1>3. /\ t \in Seq(Lines) /\ Means(t, "decision", c["decision"]) /\ Means(t, "reason", r)
      /\ \A f \in Shown \cup {"source_statuses"} : Silent(t, f)
    BY <1>2, ThenSays
<1>4. /\ e \in Seq(Lines) /\ \A f \in Shown : Means(e, f, c[f])
      /\ \A f \in Fields \ Shown : Silent(e, f)
    BY EntriesSay DEF Gives
<1> HIDE DEF e, t
<1>5. e \o t \in Seq(Lines)
    BY <1>3, <1>4
<1>6. \A f \in Shown : Means(e \o t, f, c[f])
    BY <1>3, <1>4, JoinLeft
<1>7. Means(e \o t, "decision", c["decision"]) /\ Means(e \o t, "reason", r)
    BY <1>3, <1>4, JoinRight, FieldsAre
<1>8. Means(e \o t, "source_statuses", "")
    <2>1. Silent(e, "source_statuses") /\ Silent(t, "source_statuses")
        BY <1>3, <1>4, FieldsAre
    <2> QED
        BY <1>3, <1>4, <2>1, JoinSilent DEF Means
<1> QED
    BY <1>1, <1>5, <1>6, <1>7, <1>8, MeansIsRead DEF r

\* That text says the same whatever the condition is.
LEMMA CannedSays ==
    ASSUME NEW name, NEW c, IsCanned(name, c)
    PROVE  LET s == conditionToDsl(name, c) IN
           /\ s \in Seq(Lines)
           /\ ValueIn(s, "action_type") = "transfer_data" /\ ValueIn(s, "decision") = "deny"
           /\ ValueIn(s, "reason") = "unauthorized outbound transfer"
<1> DEFINE l1 == Expression("AgentActionEvent.action", "transfer_data")
           l2 == Expression("DLPContentCheck", "data_loss_prevention")
           l3 == Expression("VolumeThresholdCheck", "below_threshold")
           l4 == Then("deny", "unauthorized outbound transfer")
<1>1. conditionToDsl(name, c) = << l1, l2, l3, l4 >>
    BY DEF conditionToDsl, dataExfiltrationPreventionDsl
<1>2. l1 \in Lines /\ l2 \in Lines /\ l3 \in Lines /\ l4 \in Lines
    BY DEF Lines, LineLabels, FIELD_ALIASES, Said, Decisions, Expression, Then
<1>3. /\ IsAbout(l1, "action_type") /\ ~IsAbout(l2, "action_type")
      /\ ~IsAbout(l3, "action_type") /\ ~IsAbout(l4, "action_type")
      /\ ValueFor(l1, "action_type") = "transfer_data"
    BY AliasesAreRead DEF IsAbout, ValueFor, Expression, Then
<1>4. \A f \in {"decision", "reason"} :
        ~IsAbout(l1, f) /\ ~IsAbout(l2, f) /\ ~IsAbout(l3, f) /\ IsAbout(l4, f)
    BY AliasesAreRead DEF IsAbout, Expression, Then, Decisions
<1>5. /\ ValueFor(l4, "decision") = "deny"
      /\ ValueFor(l4, "reason") = "unauthorized outbound transfer"
    BY DEF ValueFor, Then
<1> HIDE DEF l1, l2, l3, l4
<1> DEFINE s == << l1, l2, l3, l4 >>
<1>6. /\ s \in Seq(Lines) /\ DOMAIN s = 1..4
      /\ s[1] = l1 /\ s[2] = l2 /\ s[3] = l3 /\ s[4] = l4
    BY <1>2
<1> HIDE DEF s
<1>7. Means(s, "action_type", "transfer_data")
    BY <1>3, <1>6 DEF Means, Once
<1>8. ASSUME NEW f \in {"decision", "reason"} PROVE Means(s, f, ValueFor(l4, f))
    <2>1. 4 \in DOMAIN s /\ IsAbout(s[4], f) /\ ValueFor(s[4], f) = ValueFor(l4, f)
        BY <1>4, <1>6
    <2>2. ASSUME NEW j \in DOMAIN s, IsAbout(s[j], f) PROVE j = 4
        <3>1. j \in {1, 2, 3, 4}
            BY <1>6
        <3> QED
            BY <1>4, <1>6, <2>2, <3>1
    <2> QED
        BY <2>1, <2>2 DEF Means, Once
<1> QED
    BY <1>1, <1>5, <1>6, <1>7, <1>8, MeansIsRead DEF s

\* Printing and reading again, in short.
LEMMA RoundTrip ==
    ASSUME NEW name, NEW c \in Conditions
    PROVE  LET s == conditionToDsl(name, c)
               p == parsePolicyDslToPolicyRule(s)
           IN  /\ s \in Seq(Lines)
               /\ IsCanned(name, c) => IsCanned(name, p.condition) /\ ~p.errors
               /\ ~IsCanned(name, c) =>
                    /\ \A f \in Shown \cup {"decision"} : p.condition[f] = c[f]
                    /\ c["source_statuses"] = "" /\ c["reason"] \notin {"", "quoted"}
                            => p.condition = c
                    /\ p.errors <=> c["reason"] = ""
<1> DEFINE s == conditionToDsl(name, c)
           p == parsePolicyDslToPolicyRule(s)
<1>1. /\ \A f \in Fields \ {"decision"} : p.condition[f] = ValueIn(s, f)
      /\ p.condition["decision"] = IF ValueIn(s, "decision") = "" THEN "require_human_review"
                                   ELSE ValueIn(s, "decision")
      /\ (p.errors <=> ValueIn(s, "reason") = "")
    BY ReadsAs
<1>2. CASE IsCanned(name, c)
    <2>1. /\ s \in Seq(Lines)
          /\ ValueIn(s, "action_type") = "transfer_data" /\ ValueIn(s, "decision") = "deny"
          /\ ValueIn(s, "reason") = "unauthorized outbound transfer"
        BY <1>2, CannedSays
    <2> HIDE DEF p, s
    <2> QED
        BY <1>1, <1>2, <2>1, FieldsAre DEF IsCanned, isDataExfiltrationCondition, s, p
<1>3. CASE ~IsCanned(name, c)
    <2>1. /\ s \in Seq(Lines)
          /\ \A f \in Shown \cup {"decision"} : ValueIn(s, f) = c[f]
          /\ ValueIn(s, "source_statuses") = ""
          /\ ValueIn(s, "reason") = IF c["reason"] = "quoted" THEN "escaped" ELSE c["reason"]
        BY <1>3, PrintedSays
    <2>2. p.condition \in Conditions
        BY <2>1, ParsedIsCondition
    <2> HIDE DEF p, s
    <2>3. c["decision"] \in Decisions /\ c["decision"] # ""
        BY DEF Conditions, Decisions
    <2>4. \A f \in Shown \cup {"decision"} : p.condition[f] = c[f]
        BY <1>1, <2>1, <2>3, FieldsAre
    <2>5. p.errors <=> c["reason"] = ""
        BY <1>1, <2>1
    <2>6. ASSUME c["source_statuses"] = "" /\ c["reason"] \notin {"", "quoted"}
          PROVE  p.condition = c
        <3>1. \A f \in Fields : p.condition[f] = c[f]
            BY <1>1, <2>1, <2>4, <2>6, FieldsAre
        <3> QED
            BY <2>2, <3>1 DEF Conditions
    <2> QED
        BY <1>3, <2>1, <2>4, <2>5, <2>6 DEF s, p
<1> QED
    BY <1>2, <1>3


-----------------------------------------------------------------------------
(* The state of the editor.                                                  *)

EditorInv == EditorTypeOK /\ PrintedOK /\ LinkOK

LEMMA WordsAreSaid ==
    /\ CheckTypes \subseteq Said /\ Decisions \subseteq Said
    /\ {"", "plain", "default", "transfer_data", "external_api_call", "active", "pass",
        "fail", "quoted", "data_loss_prevention", "source_status", "s1", "s2", "c1"}
            \subseteq Said
BY DEF Said, CheckTypes

LEMMA ConditionIsOne ==
    ASSUME EditorTypeOK
    PROVE  /\ parsed.condition \in Conditions /\ condition \in Conditions
           /\ parsed.errors => condition = defaultCondition
           /\ ~parsed.errors => condition = parsed.condition
<1>1. editor.dsl \in Seq(Lines)
    BY DEF EditorTypeOK
<1>2. parsed.condition \in Conditions
    BY <1>1, ParsedIsCondition DEF parsed
<1>3. defaultCondition \in Conditions
    BY FieldsAre, WordsAreSaid DEF defaultCondition, Nothing, Conditions, Decisions
<1> QED
    BY <1>2, <1>3 DEF condition

\* What the editor works on once it has printed a condition.
LEMMA TextReads ==
    ASSUME NEW c \in Conditions, NEW e, e.dsl = conditionToDsl(e.name, c),
           NEW p, p = parsePolicyDslToPolicyRule(e.dsl),
           NEW d, d = IF p.errors THEN defaultCondition ELSE p.condition
    PROVE  /\ e.dsl \in Seq(Lines)
           /\ IsCanned(e.name, c) => IsCanned(e.name, d)
           /\ p.errors \/ IsCanned(e.name, d) \/ \A f \in Reference : d[f] = c[f]
<1>1. /\ e.dsl \in Seq(Lines)
      /\ IsCanned(e.name, c) => IsCanned(e.name, p.condition) /\ ~p.errors
      /\ ~IsCanned(e.name, c) => \A f \in Shown \cup {"decision"} : p.condition[f] = c[f]
    <2> DEFINE name == e.name
               q == parsePolicyDslToPolicyRule(conditionToDsl(name, c))
    <2>1. /\ conditionToDsl(name, c) \in Seq(Lines)
          /\ IsCanned(name, c) => IsCanned(name, q.condition) /\ ~q.errors
          /\ ~IsCanned(name, c) => \A f \in Shown \cup {"decision"} : q.condition[f] = c[f]
        <3> HIDE DEF name
        <3> QED
            BY RoundTrip
    <2>2. p = q /\ e.dsl = conditionToDsl(name, c)
        OBVIOUS
    <2> HIDE DEF q
    <2> QED
        BY <2>1, <2>2
<1>2. Reference \subseteq Shown
    BY FieldsAre DEF Reference
<1>3. CASE IsCanned(e.name, c)
    BY <1>1, <1>3
<1>4. CASE ~IsCanned(e.name, c)
    BY <1>1, <1>2, <1>4
<1> QED
    BY <1>3, <1>4

LEMMA PrintedReads ==
    ASSUME NEW c \in Conditions, editor'.dsl = conditionToDsl(editor'.name, c)
    PROVE  /\ editor'.dsl \in Seq(Lines)
           /\ IsCanned(editor'.name, c) => IsCanned(editor'.name, condition')
           /\ \/ parsed'.errors
              \/ IsCanned(editor'.name, condition')
              \/ \A f \in Reference : condition'[f] = c[f]
<1>1. parsed' = parsePolicyDslToPolicyRule(editor'.dsl)
    BY DEF parsed
<1>2. condition' = IF parsed'.errors THEN defaultCondition ELSE parsed'.condition
    BY DEF condition
<1> QED
    BY <1>1, <1>2, TextReads

LEMMA SetDslReads ==
    ASSUME EditorTypeOK, NEW c \in Conditions, SetDsl(c)
    PROVE  /\ editor' \in [ name : Names, source : Kinds, dsl : Seq(Lines) ]
           /\ editor'.name = editor.name
           /\ PrintedOK'
           /\ IsCanned(editor.name, c) => IsCanned(editor'.name, condition')
           /\ \/ parsed'.errors
              \/ IsCanned(editor'.name, condition')
              \/ \A f \in Reference : condition'[f] = c[f]
<1> DEFINE new == [editor EXCEPT !.dsl = conditionToDsl(editor.name, c)]
<1>1. editor' = new /\ meant' = c
    BY DEF SetDsl
<1>2. editor \in [ name : Names, source : Kinds, dsl : Seq(Lines) ]
    BY DEF EditorTypeOK
<1>3. new.name = editor.name /\ new.dsl = conditionToDsl(editor.name, c)
    BY <1>2
<1>4. new.dsl \in Seq(Lines) => new \in [ name : Names, source : Kinds, dsl : Seq(Lines) ]
    BY <1>2
<1> HIDE DEF new
<1>5. editor'.dsl = conditionToDsl(editor'.name, c)
    BY <1>1, <1>3
<1>6. PrintedOK'
    BY <1>1, <1>5 DEF PrintedOK
<1> QED
    BY <1>1, <1>3, <1>4, <1>5, <1>6, PrintedReads

\* What is the same in its reference points to the same.
LEMMA SamePoints ==
    ASSUME NEW c, NEW d, NEW check, \A f \in Reference : c[f] = d[f]
    PROVE  /\ isPolicyCheckConditionLinked(c, check) <=> isPolicyCheckConditionLinked(d, check)
           /\ Points(c, check) <=> Points(d, check)
BY DEF Points, isPolicyCheckConditionLinked, Reference

LEMMA AppliedPoints ==
    ASSUME NEW c \in Conditions,
           NEW check \in [ type : CheckTypes, target : Said, outcome : Said ]
    PROVE  LET d == applyPolicyCheckCondition(c, check) IN
           /\ d \in Conditions
           /\ Points(d, check)
           /\ \A name : IsCanned(name, c) => IsCanned(name, d)
<1> DEFINE d == applyPolicyCheckCondition(c, check)
<1>1. check.type \in Said /\ check.target \in Said /\ check.outcome \in Said /\ check.type # ""
    BY WordsAreSaid DEF CheckTypes
<1>2. /\ d \in [Fields -> Said]
      /\ d["check_type"] = check.type /\ d["check_outcome"] = check.outcome
      /\ d["check_target_id"] = check.target
      /\ d["decision"] = c["decision"] /\ d["action_type"] = c["action_type"]
    BY <1>1, FieldsAre DEF applyPolicyCheckCondition, Conditions
<1> HIDE DEF d
<1>3. d \in Conditions
    BY <1>2 DEF Conditions
<1>4. Points(d, check)
    BY <1>1, <1>2 DEF Points, isPolicyCheckConditionLinked
<1>5. \A name : IsCanned(name, c) => IsCanned(name, d)
    BY <1>2 DEF IsCanned, isDataExfiltrationCondition
<1> QED
    BY <1>3, <1>4, <1>5 DEF d

LEMMA WithoutReference ==
    ASSUME NEW c \in Conditions
    PROVE  LET d == conditionWithoutCheckResultReference(c) IN
           /\ d \in Conditions
           /\ \A name : IsCanned(name, c) => IsCanned(name, d)
<1> DEFINE d == conditionWithoutCheckResultReference(c)
<1>1. /\ d \in [Fields -> Said]
      /\ d["decision"] = c["decision"] /\ d["action_type"] = c["action_type"]
    BY FieldsAre, WordsAreSaid DEF conditionWithoutCheckResultReference, Conditions, Reference
<1> HIDE DEF d
<1> QED
    BY <1>1 DEF Conditions, IsCanned, isDataExfiltrationCondition, d

\* The check that a condition refers to, when there is one such check.
LEMMA ReferencedIsLinked ==
    ASSUME NEW c, NEW cs, Referenced(c, cs) # None
    PROVE  LET l == Referenced(c, cs) IN
           /\ l \in Authored(cs)
           /\ isPolicyCheckConditionLinked(c, cs[l])
           /\ \A k \in Authored(cs) : cs[k] = cs[l] => k = l
<1> DEFINE S == { k \in Authored(cs) : isPolicyCheckConditionLinked(c, cs[k]) }
           l == Referenced(c, cs)
<1>1. \E k \in S : S = {k}
    BY DEF Referenced
<1>2. l = CHOOSE k \in S : TRUE
    BY <1>1 DEF Referenced
<1>3. S = {l}
    BY <1>1, <1>2
<1> QED
    BY <1>3

LEMMA NoTwin ==
    ASSUME NEW cs, NEW linked, CheckEdit(cs, linked), link' # None
    PROVE  /\ link' = linked
           /\ \A k, l \in Authored(cs) : cs[k] = cs[l] => k = l
BY DEF CheckEdit, Twins

LEMMA AuthoredIsTyped ==
    ASSUME EditorTypeOK, NEW k \in Authored(checks)
    PROVE  /\ k \in CheckIds
           /\ checks[k] \in [ type : CheckTypes, target : Said, outcome : Said ]
           /\ parsed.errors => ~isPolicyCheckConditionLinked(condition, checks[k])
<1>1. k \in CheckIds /\ checks[k] # NoCheck
    BY DEF Authored
<1>2. checks[k] \in Drafted
    BY <1>1 DEF EditorTypeOK
<1>3. checks[k] \in [ type : CheckTypes, target : Said, outcome : Said ]
    BY <1>1, <1>2 DEF Drafted
<1>4. checks[k].type # ""
    BY <1>3 DEF CheckTypes
<1>5. defaultCondition["check_type"] = ""
    BY FieldsAre DEF defaultCondition, Nothing
<1> QED
    BY <1>1, <1>3, <1>4, <1>5, ConditionIsOne DEF isPolicyCheckConditionLinked

LEMMA TypedIsAuthored ==
    ASSUME NEW check \in [ type : CheckTypes, target : Said, outcome : Said ]
    PROVE  check # NoCheck
<1>1. check.type # "none"
    BY DEF CheckTypes
<1>2. NoCheck.type = "none"
    BY DEF NoCheck
<1> QED
    BY <1>1, <1>2

\* Two checks that a condition refers to are the same.
LEMMA LinkedAreTwins ==
    ASSUME EditorTypeOK, NEW k \in Authored(checks), NEW l \in Authored(checks),
           isPolicyCheckConditionLinked(condition, checks[k]), Points(condition, checks[l])
    PROVE  checks[k] = checks[l]
<1>1. isPolicyCheckConditionLinked(condition, checks[l])
    BY DEF Points, isPolicyCheckConditionLinked
<1>2. /\ checks[k] \in [ type : CheckTypes, target : Said, outcome : Said ]
      /\ checks[l] \in [ type : CheckTypes, target : Said, outcome : Said ]
    BY AuthoredIsTyped
<1>3. /\ checks[k].type = checks[l].type /\ checks[k].target = checks[l].target
      /\ checks[k].outcome = checks[l].outcome
    BY <1>1 DEF isPolicyCheckConditionLinked
<1> QED
    BY <1>2, <1>3


\* The canvas changes the text, and neither the checks nor what is stored.
LEMMA ChangeKeeps ==
    ASSUME EditorInv, NEW c \in Conditions, NEW field,
           handleChangeCondition(c, field),
           field \notin Reference => \A f \in Reference : c[f] = condition[f],
           IsCanned(editor.name, condition) => IsCanned(editor.name, c)
    PROVE  EditorInv'
<1>1. /\ SetDsl(c) /\ UNCHANGED <<checks, rule, version>>
      /\ link' = IF field \in Reference \/ parsed.errors THEN None ELSE link
    BY DEF handleChangeCondition
<1>2. /\ editor' \in [ name : Names, source : Kinds, dsl : Seq(Lines) ]
      /\ editor'.name = editor.name
      /\ PrintedOK'
      /\ IsCanned(editor.name, c) => IsCanned(editor'.name, condition')
      /\ \/ parsed'.errors
         \/ IsCanned(editor'.name, condition')
         \/ \A f \in Reference : condition'[f] = c[f]
    BY <1>1, SetDslReads DEF EditorInv
<1>3. EditorTypeOK'
    BY <1>1, <1>2 DEF EditorInv, EditorTypeOK
<1>4. ASSUME link' # None PROVE
        /\ link' \in Authored(checks')
        /\ \A k \in Authored(checks') : checks'[k] = checks'[link'] => k = link'
        /\ \/ parsed'.errors
           \/ IsCanned(editor'.name, condition')
           \/ Points(condition', checks'[link'])
    <2>1. field \notin Reference /\ ~parsed.errors /\ link' = link /\ link # None
        BY <1>1, <1>4
    <2>2. /\ link \in Authored(checks)
          /\ \A k \in Authored(checks) : checks[k] = checks[link] => k = link
          /\ IsCanned(editor.name, condition) \/ Points(condition, checks[link])
        BY <2>1 DEF EditorInv, LinkOK
    <2>3. CASE IsCanned(editor.name, condition)
        BY <1>1, <1>2, <2>1, <2>2, <2>3
    <2>4. CASE Points(condition, checks[link])
        <3>1. CASE \A f \in Reference : condition'[f] = c[f]
            <4>1. \A f \in Reference : condition'[f] = condition[f]
                BY <2>1, <3>1
            <4>2. Points(condition', checks[link])
                BY <2>4, <4>1, SamePoints
            <4> QED
                BY <1>1, <2>1, <2>2, <4>2
        <3> QED
            BY <1>1, <1>2, <2>1, <2>2, <3>1
    <2> QED
        BY <2>2, <2>3, <2>4
<1> QED
    BY <1>2, <1>3, <1>4 DEF EditorInv, LinkOK


LEMMA UpdateKeeps ==
    ASSUME EditorInv, NEW field \in DOMAIN Values, updateConditionField(field)
    PROVE  EditorInv'
<1>1. PICK value \in Values[field] :
        LET c == [condition EXCEPT ![field] = value] IN
        handleChangeCondition(
            IF field = "decision" /\ c["reason"] = ""
            THEN [c EXCEPT !["reason"] = defaultReasonForDecision] ELSE c, field)
    BY DEF updateConditionField
<1> DEFINE c == [condition EXCEPT ![field] = value]
           d == IF field = "decision" /\ c["reason"] = ""
                THEN [c EXCEPT !["reason"] = defaultReasonForDecision] ELSE c
<1>2. condition \in Conditions
    BY ConditionIsOne DEF EditorInv
<1>3. /\ field \in {"action_type", "source_status", "check_outcome", "decision", "reason"}
      /\ value \in Said
      /\ field = "action_type" => value = "transfer_data"
      /\ field = "decision" => value = "deny"
    <2>1. DOMAIN Values = {"action_type", "source_status", "check_outcome", "decision", "reason"}
        BY DEF Values
    <2>2. /\ Values["action_type"] = {"transfer_data"} /\ Values["source_status"] = {"active"}
          /\ Values["check_outcome"] = {"fail"} /\ Values["decision"] = {"deny"}
          /\ Values["reason"] = {"", "quoted"}
        BY DEF Values
    <2>3. /\ value \in Values[field]
          /\ field \in {"action_type", "source_status", "check_outcome", "decision", "reason"}
        BY <2>1
    <2>4. CASE field = "action_type"
        BY <2>2, <2>3, <2>4, WordsAreSaid
    <2>5. CASE field = "source_status"
        BY <2>2, <2>3, <2>5, WordsAreSaid
    <2>6. CASE field = "check_outcome"
        BY <2>2, <2>3, <2>6, WordsAreSaid
    <2>7. CASE field = "decision"
        BY <2>2, <2>3, <2>7, WordsAreSaid DEF Decisions
    <2>8. CASE field = "reason"
        BY <2>2, <2>3, <2>8, WordsAreSaid
    <2> QED
        BY <2>3, <2>4, <2>5, <2>6, <2>7, <2>8
<1>4. /\ c \in [Fields -> Said] /\ c[field] = value
      /\ \A f \in Fields : f # field => c[f] = condition[f]
    BY <1>2, <1>3, FieldsAre DEF Conditions
<1> HIDE DEF c
<1>5. /\ d \in [Fields -> Said]
      /\ \A f \in Fields \ {"reason"} : d[f] = c[f]
    BY <1>4, FieldsAre, WordsAreSaid DEF defaultReasonForDecision
<1>6. handleChangeCondition(d, field)
    BY <1>1 DEF c
<1> HIDE DEF d
<1>7. d["decision"] \in Decisions
    BY <1>2, <1>3, <1>4, <1>5, FieldsAre DEF Conditions, Decisions
<1>8. d \in Conditions
    BY <1>5, <1>7 DEF Conditions
<1>9. field \notin Reference => \A f \in Reference : d[f] = condition[f]
    BY <1>4, <1>5, FieldsAre DEF Reference
<1>10. IsCanned(editor.name, condition) => IsCanned(editor.name, d)
    BY <1>3, <1>4, <1>5, FieldsAre DEF IsCanned, isDataExfiltrationCondition
<1> QED
    BY <1>6, <1>8, <1>9, <1>10, ChangeKeeps

LEMMA RemoveKeeps ==
    ASSUME EditorInv, NEW field \in Shown, removeConditionField(field)
    PROVE  EditorInv'
<1> DEFINE d == [condition EXCEPT ![field] = ""]
<1>1. handleChangeCondition(d, field) /\ field \in policyBlocksFromCondition
    BY DEF removeConditionField
<1>2. condition \in Conditions
    BY ConditionIsOne DEF EditorInv
<1>3. /\ d \in [Fields -> Said]
      /\ \A f \in Fields : f # field => d[f] = condition[f]
    BY <1>2, FieldsAre, WordsAreSaid DEF Conditions
<1> HIDE DEF d
<1>4. d \in Conditions
    BY <1>2, <1>3, FieldsAre DEF Conditions
<1>5. field \notin Reference => \A f \in Reference : d[f] = condition[f]
    BY <1>3, FieldsAre DEF Reference
<1>6. ~IsCanned(editor.name, condition)
    BY <1>1 DEF policyBlocksFromCondition, IsCanned
<1> QED
    BY <1>1, <1>4, <1>5, <1>6, ChangeKeeps

\* Lines that the author writes or deletes.
LEMMA CodeKeeps ==
    ASSUME EditorInv, AddLine \/ RemoveLine
    PROVE  EditorInv'
<1>1. editor \in [ name : Names, source : Kinds, dsl : Seq(Lines) ] /\ editor.dsl \in Seq(Lines)
    BY DEF EditorInv, EditorTypeOK
<1>2. ASSUME NEW dsl \in Seq(Lines), onChangeDsl(dsl) PROVE EditorInv'
    <2>1. /\ editor' = [editor EXCEPT !.dsl = dsl] /\ meant' = None /\ link' = None
          /\ UNCHANGED <<checks, rule, version>>
        BY <1>2 DEF onChangeDsl
    <2>2. editor' \in [ name : Names, source : Kinds, dsl : Seq(Lines) ]
        BY <1>1, <2>1
    <2> QED
        BY <2>1, <2>2 DEF EditorInv, EditorTypeOK, PrintedOK, LinkOK
<1>3. CodeLines \subseteq Lines
    BY DEF CodeLines, Lines, LineLabels, FIELD_ALIASES, Said, Decisions, Expression, Then
<1>4. CASE AddLine
    <2>1. PICK line \in CodeLines : onChangeDsl(Append(editor.dsl, line))
        BY <1>4 DEF AddLine
    <2>2. Append(editor.dsl, line) \in Seq(Lines)
        BY <1>1, <1>3
    <2> QED
        BY <1>2, <2>1, <2>2
<1>5. CASE RemoveLine
    <2>1. PICK i \in DOMAIN editor.dsl : onChangeDsl(RemoveAt(editor.dsl, i))
        BY <1>5 DEF RemoveLine
    <2>2. RemoveAt(editor.dsl, i) \in Seq(Lines)
        BY <1>1 DEF RemoveAt
    <2> QED
        BY <1>2, <2>1, <2>2
<1> QED
    BY <1>4, <1>5

LEMMA SameText ==
    ASSUME UNCHANGED <<editor, meant>>
    PROVE  parsed' = parsed /\ condition' = condition /\ (PrintedOK => PrintedOK')
<1>1. parsed' = parsed
    BY DEF parsed
<1> QED
    BY <1>1 DEF condition, PrintedOK

\* The inspector changes the checks, and the text with them.
LEMMA InspectorKeeps ==
    ASSUME EditorInv, NEW cs \in [CheckIds -> Drafted], NEW linked, CheckEdit(cs, linked),
           editor' \in [ name : Names, source : Kinds, dsl : Seq(Lines) ], PrintedOK',
           linked # None =>
                /\ linked \in Authored(cs)
                /\ \/ parsed'.errors
                   \/ IsCanned(editor'.name, condition')
                   \/ Points(condition', cs[linked])
    PROVE  EditorInv'
<1>1. checks' = cs /\ UNCHANGED <<rule, version>>
    BY DEF CheckEdit
<1>2. EditorTypeOK'
    BY <1>1 DEF EditorInv, EditorTypeOK
<1>3. LinkOK'
    BY <1>1, NoTwin DEF LinkOK
<1> QED
    BY <1>2, <1>3 DEF EditorInv

LEMMA AddCheckKeeps ==
    ASSUME EditorInv, handleAddPolicyCheck
    PROVE  EditorInv'
<1>1. PICK k \in CheckIds \ Authored(checks) :
        CheckEdit([checks EXCEPT ![k].type = "source_status"], link)
    BY DEF handleAddPolicyCheck
<1> DEFINE cs == [checks EXCEPT ![k].type = "source_status"]
<1>2. UNCHANGED <<editor, meant>>
    BY DEF handleAddPolicyCheck
<1>3. checks \in [CheckIds -> Drafted] /\ checks[k] = NoCheck
    BY DEF EditorInv, EditorTypeOK, Authored
<1>4. [NoCheck EXCEPT !.type = "source_status"]
            \in [ type : CheckTypes, target : Said, outcome : Said ]
    BY WordsAreSaid DEF NoCheck, CheckTypes
<1>5. cs = [checks EXCEPT ![k] = [NoCheck EXCEPT !.type = "source_status"]]
    BY <1>3
<1>6. cs \in [CheckIds -> Drafted] /\ \A l \in CheckIds : l # k => cs[l] = checks[l]
    BY <1>3, <1>4, <1>5 DEF Drafted
<1>7. CheckEdit(cs, link)
    BY <1>1
<1> HIDE DEF cs
<1>8. link # None =>
        /\ link \in Authored(cs)
        /\ \/ parsed.errors \/ IsCanned(editor.name, condition)
           \/ Points(condition, cs[link])
    BY <1>6 DEF EditorInv, LinkOK, Authored
<1>9. /\ parsed' = parsed /\ condition' = condition /\ PrintedOK'
      /\ editor' = editor /\ editor \in [ name : Names, source : Kinds, dsl : Seq(Lines) ]
    BY <1>2, SameText DEF EditorInv, EditorTypeOK
<1> QED
    BY <1>6, <1>7, <1>8, <1>9, InspectorKeeps

\* A check changes, and the condition with it if it refers to the check.
LEMMA UpdateCheckKeeps ==
    ASSUME EditorInv, NEW k \in Authored(checks),
           NEW next \in [ type : CheckTypes, target : Said, outcome : Said ],
           handleUpdatePolicyCheck(k, next)
    PROVE  EditorInv'
<1> DEFINE cs == [checks EXCEPT ![k] = next]
           d == applyPolicyCheckCondition(condition, next)
<1>1. CheckEdit(cs, link)
    BY DEF handleUpdatePolicyCheck
<1>2. /\ k \in CheckIds
      /\ parsed.errors => ~isPolicyCheckConditionLinked(condition, checks[k])
    BY AuthoredIsTyped DEF EditorInv
<1>3. checks \in [CheckIds -> Drafted] /\ EditorTypeOK
    BY DEF EditorInv, EditorTypeOK
<1>4. next # NoCheck
    BY TypedIsAuthored
<1>5. /\ cs \in [CheckIds -> Drafted] /\ cs[k] = next
      /\ \A l \in CheckIds : l # k => cs[l] = checks[l]
    BY <1>2, <1>3 DEF Drafted
<1> HIDE DEF cs
<1>6. link # None =>
        /\ link \in Authored(checks) /\ link \in Authored(cs)
        /\ \A l \in Authored(checks) : checks[l] = checks[link] => l = link
        /\ \/ parsed.errors \/ IsCanned(editor.name, condition)
           \/ Points(condition, checks[link])
    BY <1>4, <1>5 DEF EditorInv, LinkOK, Authored
<1>7. CASE isPolicyCheckConditionLinked(condition, checks[k])
    <2>1. condition \in Conditions
        BY ConditionIsOne DEF EditorInv
    <2>2. d \in Conditions /\ Points(d, next)
          /\ (IsCanned(editor.name, condition) => IsCanned(editor.name, d))
        BY <2>1, AppliedPoints
    <2>3. SetDsl(d)
        BY <1>7 DEF handleUpdatePolicyCheck
    <2> HIDE DEF d
    <2>4. /\ editor' \in [ name : Names, source : Kinds, dsl : Seq(Lines) ]
          /\ PrintedOK'
          /\ IsCanned(editor.name, d) => IsCanned(editor'.name, condition')
          /\ \/ parsed'.errors
             \/ IsCanned(editor'.name, condition')
             \/ \A f \in Reference : condition'[f] = d[f]
        BY <1>3, <2>2, <2>3, SetDslReads
    <2>5. ASSUME link # None
          PROVE  \/ parsed'.errors \/ IsCanned(editor'.name, condition')
                 \/ Points(condition', cs[link])
        <3>1. ~parsed.errors
            BY <1>2, <1>7
        <3>2. CASE IsCanned(editor.name, condition)
            BY <2>2, <2>4, <3>2
        <3>3. CASE Points(condition, checks[link])
            <4>1. checks[k] = checks[link]
                BY <1>3, <1>6, <1>7, <2>5, <3>3, LinkedAreTwins
            <4>2. k = link
                BY <1>6, <2>5, <4>1
            <4>3. CASE \A f \in Reference : condition'[f] = d[f]
                <5>1. Points(condition', next)
                    BY <2>2, <4>3, SamePoints
                <5> QED
                    BY <1>5, <4>2, <5>1
            <4> QED
                BY <2>4, <4>3
        <3> QED
            BY <1>6, <2>5, <3>1, <3>2, <3>3
    <2> QED
        BY <1>1, <1>5, <1>6, <2>4, <2>5, InspectorKeeps
<1>8. CASE ~isPolicyCheckConditionLinked(condition, checks[k])
    <2>1. UNCHANGED <<editor, meant>>
        BY <1>8 DEF handleUpdatePolicyCheck
    <2>2. /\ parsed' = parsed /\ condition' = condition /\ PrintedOK'
          /\ editor' = editor /\ editor \in [ name : Names, source : Kinds, dsl : Seq(Lines) ]
        BY <2>1, SameText DEF EditorInv, EditorTypeOK
    <2>3. ASSUME link # None
          PROVE  \/ parsed.errors \/ IsCanned(editor.name, condition)
                 \/ Points(condition, cs[link])
        <3>1. link \in CheckIds
            BY <1>6, <2>3 DEF Authored
        <3>2. CASE Points(condition, checks[link]) /\ link = k
            <4>1. condition["check_type"] # "" /\ condition["check_target_id"] = ""
                BY <1>8, <3>2 DEF Points
            <4> QED
                BY <4>1 DEF Points
        <3> QED
            BY <1>5, <1>6, <2>3, <3>1, <3>2
    <2> QED
        BY <1>1, <1>5, <1>6, <2>2, <2>3, InspectorKeeps
<1> QED
    BY <1>7, <1>8


LEMMA EditCheckKeeps ==
    ASSUME EditorInv, NEW k \in Authored(checks),
           updatePolicyCheckType(k) \/ updatePolicyCheckTarget(k)
            \/ updatePolicyCheckExpectedOutcome(k)
    PROVE  EditorInv'
<1>1. checks[k] \in [ type : CheckTypes, target : Said, outcome : Said ]
    BY AuthoredIsTyped DEF EditorInv
<1>2. CASE updatePolicyCheckType(k)
    <2>1. PICK type \in CheckTypes :
            handleUpdatePolicyCheck(k, [checks[k] EXCEPT !.type = type, !.target = ""])
        BY <1>2 DEF updatePolicyCheckType
    <2>2. [checks[k] EXCEPT !.type = type, !.target = ""]
            \in [ type : CheckTypes, target : Said, outcome : Said ]
        BY <1>1, WordsAreSaid
    <2> QED
        BY <2>1, <2>2, UpdateCheckKeeps
<1>3. CASE updatePolicyCheckTarget(k)
    <2>1. PICK target \in policyCheckTargetOptions(checks[k].type) :
            handleUpdatePolicyCheck(k, [checks[k] EXCEPT !.target = target])
        BY <1>3 DEF updatePolicyCheckTarget
    <2>2. target \in Said
        BY WordsAreSaid DEF policyCheckTargetOptions
    <2>3. [checks[k] EXCEPT !.target = target]
            \in [ type : CheckTypes, target : Said, outcome : Said ]
        BY <1>1, <2>2
    <2> QED
        BY <2>1, <2>3, UpdateCheckKeeps
<1>4. CASE updatePolicyCheckExpectedOutcome(k)
    <2>1. PICK outcome \in {"pass", "fail"} :
            handleUpdatePolicyCheck(k, [checks[k] EXCEPT !.outcome = outcome])
        BY <1>4 DEF updatePolicyCheckExpectedOutcome
    <2>2. [checks[k] EXCEPT !.outcome = outcome]
            \in [ type : CheckTypes, target : Said, outcome : Said ]
        BY <1>1, WordsAreSaid
    <2> QED
        BY <2>1, <2>2, UpdateCheckKeeps
<1> QED
    BY <1>2, <1>3, <1>4

\* The condition is made to refer to a check.
LEMMA LinkCheckKeeps ==
    ASSUME EditorInv, NEW k \in Authored(checks), handleLinkPolicyCheckCondition(k)
    PROVE  EditorInv'
<1> DEFINE d == applyPolicyCheckCondition(condition, checks[k])
<1>1. SetDsl(d) /\ CheckEdit(checks, k)
    BY DEF handleLinkPolicyCheckCondition
<1>2. checks[k] \in [ type : CheckTypes, target : Said, outcome : Said ]
    BY AuthoredIsTyped DEF EditorInv
<1>3. d \in Conditions /\ Points(d, checks[k])
    BY <1>2, AppliedPoints, ConditionIsOne DEF EditorInv
<1> HIDE DEF d
<1>4. /\ editor' \in [ name : Names, source : Kinds, dsl : Seq(Lines) ]
      /\ PrintedOK'
      /\ \/ parsed'.errors
         \/ IsCanned(editor'.name, condition')
         \/ \A f \in Reference : condition'[f] = d[f]
    BY <1>1, <1>3, SetDslReads DEF EditorInv
<1>5. \/ parsed'.errors \/ IsCanned(editor'.name, condition')
      \/ Points(condition', checks[k])
    BY <1>3, <1>4, SamePoints
<1>6. checks \in [CheckIds -> Drafted]
    BY DEF EditorInv, EditorTypeOK
<1> QED
    BY <1>1, <1>4, <1>5, <1>6, InspectorKeeps

\* A check is removed, and with it what the condition says of it.
LEMMA RemoveCheckKeeps ==
    ASSUME EditorInv, NEW k \in Authored(checks), handleRemovePolicyCheck(k)
    PROVE  EditorInv'
<1> DEFINE cs == [checks EXCEPT ![k] = NoCheck]
           linked == IF link = k THEN None ELSE link
           d == conditionWithoutCheckResultReference(condition)
<1>1. CheckEdit(cs, linked)
    BY DEF handleRemovePolicyCheck
<1>2. /\ k \in CheckIds
      /\ parsed.errors => ~isPolicyCheckConditionLinked(condition, checks[k])
    BY AuthoredIsTyped DEF EditorInv
<1>3. checks \in [CheckIds -> Drafted] /\ EditorTypeOK
    BY DEF EditorInv, EditorTypeOK
<1>4. /\ cs \in [CheckIds -> Drafted]
      /\ \A l \in CheckIds : l # k => cs[l] = checks[l]
    BY <1>2, <1>3 DEF Drafted
<1> HIDE DEF cs
<1>5. linked # None =>
        /\ linked = link /\ linked # k
        /\ link \in Authored(checks) /\ link \in Authored(cs) /\ cs[link] = checks[link]
        /\ \A l \in Authored(checks) : checks[l] = checks[link] => l = link
        /\ \/ parsed.errors \/ IsCanned(editor.name, condition)
           \/ Points(condition, checks[link])
    BY <1>4 DEF EditorInv, LinkOK, Authored
<1> HIDE DEF linked
<1>6. CASE isPolicyCheckConditionLinked(condition, checks[k])
    <2>1. d \in Conditions /\ (IsCanned(editor.name, condition) => IsCanned(editor.name, d))
        BY WithoutReference, ConditionIsOne DEF EditorInv
    <2>2. SetDsl(d)
        BY <1>6 DEF handleRemovePolicyCheck
    <2> HIDE DEF d
    <2>3. /\ editor' \in [ name : Names, source : Kinds, dsl : Seq(Lines) ]
          /\ PrintedOK'
          /\ IsCanned(editor.name, d) => IsCanned(editor'.name, condition')
        BY <1>3, <2>1, <2>2, SetDslReads
    <2>4. linked # None => IsCanned(editor.name, condition)
        BY <1>2, <1>3, <1>5, <1>6, LinkedAreTwins
    <2> QED
        BY <1>1, <1>4, <1>5, <2>1, <2>3, <2>4, InspectorKeeps
<1>7. CASE ~isPolicyCheckConditionLinked(condition, checks[k])
    <2>1. UNCHANGED <<editor, meant>>
        BY <1>7 DEF handleRemovePolicyCheck
    <2>2. /\ parsed' = parsed /\ condition' = condition /\ PrintedOK'
          /\ editor' = editor /\ editor \in [ name : Names, source : Kinds, dsl : Seq(Lines) ]
        BY <2>1, SameText DEF EditorInv, EditorTypeOK
    <2> QED
        BY <1>1, <1>4, <1>5, <2>2, InspectorKeeps
<1> QED
    BY <1>6, <1>7

\* A condition is opened with its checks.
LEMMA OpenedFits ==
    ASSUME NEW name \in Names, NEW kind \in Kinds, NEW c \in Conditions, NEW cs,
           NEW e, e = Opened(name, kind, c),
           NEW p, p = parsePolicyDslToPolicyRule(e.dsl),
           NEW d, d = IF p.errors THEN defaultCondition ELSE p.condition,
           NEW l, l = Referenced(c, cs)
    PROVE  /\ e \in [ name : Names, source : Kinds, dsl : Seq(Lines) ]
           /\ e.dsl = conditionToDsl(e.name, c)
           /\ l # None =>
                /\ l \in Authored(cs)
                /\ \A k \in Authored(cs) : cs[k] = cs[l] => k = l
                /\ p.errors \/ IsCanned(e.name, d) \/ Points(d, cs[l])
<1>1. e.name = name /\ e.dsl = conditionToDsl(e.name, c)
    BY DEF Opened
<1>2. /\ e.dsl \in Seq(Lines)
      /\ p.errors \/ IsCanned(e.name, d) \/ \A f \in Reference : d[f] = c[f]
    BY <1>1, TextReads
<1>3. e \in [ name : Names, source : Kinds, dsl : Seq(Lines) ]
    BY <1>1, <1>2 DEF Opened
<1>4. ASSUME l # None PROVE
        /\ l \in Authored(cs)
        /\ \A k \in Authored(cs) : cs[k] = cs[l] => k = l
        /\ p.errors \/ IsCanned(e.name, d) \/ Points(d, cs[l])
    <2>1. /\ l \in Authored(cs) /\ isPolicyCheckConditionLinked(c, cs[l])
          /\ \A k \in Authored(cs) : cs[k] = cs[l] => k = l
        BY <1>4, ReferencedIsLinked
    <2>2. CASE \A f \in Reference : d[f] = c[f]
        <3>1. Points(c, cs[l])
            BY <2>1 DEF Points
        <3>2. Points(d, cs[l])
            BY <2>2, <3>1, SamePoints
        <3> QED
            BY <2>1, <3>2
    <2> QED
        BY <1>2, <2>1, <2>2
<1> QED
    BY <1>1, <1>3, <1>4

LEMMA OpenKeeps ==
    ASSUME NEW name \in Names, NEW kind \in Kinds, NEW c \in Conditions, NEW cs,
           editor' = Opened(name, kind, c), checks' = cs, meant' = c,
           link' = Referenced(c, cs)
    PROVE  /\ editor' \in [ name : Names, source : Kinds, dsl : Seq(Lines) ]
           /\ PrintedOK' /\ LinkOK'
<1>1. parsed' = parsePolicyDslToPolicyRule(editor'.dsl)
    BY DEF parsed
<1>2. condition' = IF parsed'.errors THEN defaultCondition ELSE parsed'.condition
    BY DEF condition
<1>3. /\ editor' \in [ name : Names, source : Kinds, dsl : Seq(Lines) ]
      /\ editor'.dsl = conditionToDsl(editor'.name, c)
      /\ link' # None =>
            /\ link' \in Authored(cs)
            /\ \A k \in Authored(cs) : cs[k] = cs[link'] => k = link'
            /\ parsed'.errors \/ IsCanned(editor'.name, condition') \/ Points(condition', cs[link'])
    BY <1>1, <1>2, OpenedFits
<1> QED
    BY <1>3 DEF PrintedOK, LinkOK

LEMMA StoredConditions ==
    /\ NoChecks \in [CheckIds -> Drafted]
    /\ \A t \in POLICY_TEMPLATES : t.name \in Names /\ t.condition \in Conditions
    /\ \A more \in {"", "active"} : Plain(more) \in Conditions
    /\ \A d \in Drafts :
        d \in [ name : Names, condition : Conditions, checks : [CheckIds -> Drafted] ]
<1>1. NoChecks \in [CheckIds -> Drafted]
    BY DEF NoChecks, Drafted
<1>2. Nothing \in [Fields -> Said]
    BY WordsAreSaid DEF Nothing
<1>3. \A t \in POLICY_TEMPLATES : t.name \in Names /\ t.condition \in Conditions
    <2> DEFINE c1 == [Nothing EXCEPT !["decision"] = "deny", !["reason"] = "plain",
                        !["action_type"] = "transfer_data", !["source_status"] = "active",
                        !["check_type"] = "data_loss_prevention", !["check_outcome"] = "pass"]
               c2 == [Nothing EXCEPT !["decision"] = "require_human_review",
                        !["reason"] = "plain", !["check_type"] = "source_status",
                        !["check_outcome"] = "pass"]
    <2>1. c1 \in [Fields -> Said] /\ c1["decision"] = "deny"
        BY <1>2, FieldsAre, WordsAreSaid DEF Decisions
    <2>2. c2 \in [Fields -> Said] /\ c2["decision"] = "require_human_review"
        BY <1>2, FieldsAre, WordsAreSaid DEF Decisions
    <2> HIDE DEF c1, c2
    <2>3. c1 \in Conditions /\ c2 \in Conditions
        BY <2>1, <2>2 DEF Conditions, Decisions
    <2>4. POLICY_TEMPLATES = { [ name |-> "data_exfiltration_prevention", condition |-> c1 ],
                               [ name |-> "require_active_grant", condition |-> c2 ] }
        BY DEF POLICY_TEMPLATES, c1, c2
    <2> QED
        BY <2>3, <2>4 DEF Names
<1>4. ASSUME NEW more \in {"", "active"} PROVE Plain(more) \in Conditions
    <2> DEFINE c == Plain(more)
    <2>1. c \in [Fields -> Said] /\ c["decision"] = "require_human_review"
        BY <1>2, FieldsAre, WordsAreSaid DEF Plain, Decisions
    <2> HIDE DEF c
    <2>2. c \in Conditions
        BY <2>1 DEF Conditions, Decisions
    <2> QED
        BY <2>2 DEF c
<1>5. Checked \in [ type : CheckTypes, target : Said, outcome : Said ]
    BY WordsAreSaid DEF Checked, CheckTypes
<1>6. [NoChecks EXCEPT ![CHOOSE k \in CheckIds : TRUE] = Checked] \in [CheckIds -> Drafted]
    BY <1>1, <1>5 DEF Drafted
<1>7. applyPolicyCheckCondition(Plain(""), Checked) \in Conditions
    BY <1>4, <1>5, AppliedPoints
<1>8. \A d \in Drafts :
        d \in [ name : Names, condition : Conditions, checks : [CheckIds -> Drafted] ]
    <2> DEFINE a == applyPolicyCheckCondition(Plain(""), Checked)
               b == [NoChecks EXCEPT ![CHOOSE k \in CheckIds : TRUE] = Checked]
    <2>1. /\ a \in Conditions /\ b \in [CheckIds -> Drafted]
          /\ Drafts = { [ name |-> "policy", condition |-> Plain(more), checks |-> NoChecks ] :
                            more \in {"", "active"} }
                       \cup { [ name |-> "policy", condition |-> a, checks |-> b ] }
        BY <1>6, <1>7 DEF Drafts
    <2> HIDE DEF a, b
    <2>2. "policy" \in Names
        BY DEF Names
    <2>3. \A more \in {"", "active"} :
            [ name |-> "policy", condition |-> Plain(more), checks |-> NoChecks ]
                \in [ name : Names, condition : Conditions, checks : [CheckIds -> Drafted] ]
        BY <1>1, <1>4, <2>2
    <2>4. [ name |-> "policy", condition |-> a, checks |-> b ]
                \in [ name : Names, condition : Conditions, checks : [CheckIds -> Drafted] ]
        BY <2>1, <2>2
    <2> QED
        BY <2>1, <2>3, <2>4
<1> QED
    BY <1>1, <1>3, <1>4, <1>8


LEMMA OpeningKeeps ==
    ASSUME EditorInv, handleUseTemplate \/ handleSelectRule \/ hydrateEditorFromPolicyVersion
    PROVE  EditorInv'
<1>1. PICK name \in Names, kind \in Kinds, c \in Conditions, cs \in [CheckIds -> Drafted] :
        Open(name, kind, c, cs) /\ UNCHANGED <<rule, version>>
    <2>1. CASE handleUseTemplate
        BY <2>1, StoredConditions DEF handleUseTemplate, Kinds
    <2>2. CASE handleSelectRule
        BY <2>2, StoredConditions DEF handleSelectRule, Kinds, EditorInv, EditorTypeOK
    <2>3. CASE hydrateEditorFromPolicyVersion
        BY <2>3 DEF hydrateEditorFromPolicyVersion, Kinds, EditorInv, EditorTypeOK
    <2> QED
        BY <2>1, <2>2, <2>3
<1>2. /\ editor' = Opened(name, kind, c) /\ checks' = cs /\ meant' = c
      /\ link' = Referenced(c, cs)
    BY <1>1 DEF Open
<1>3. /\ editor' \in [ name : Names, source : Kinds, dsl : Seq(Lines) ]
      /\ PrintedOK' /\ LinkOK'
    BY <1>2, OpenKeeps
<1> QED
    BY <1>1, <1>2, <1>3 DEF EditorInv, EditorTypeOK

LEMMA SavingKeeps ==
    ASSUME EditorInv, handleSaveDraft
    PROVE  EditorInv'
<1>1. /\ version' = [ name |-> editor.name, condition |-> parsed.condition, checks |-> checks ]
      /\ Open(editor.name, "draft_version", parsed.condition, checks)
      /\ UNCHANGED rule
    BY DEF handleSaveDraft
<1>2. /\ editor.name \in Names /\ "draft_version" \in Kinds /\ parsed.condition \in Conditions
      /\ checks \in [CheckIds -> Drafted]
    BY ConditionIsOne DEF EditorInv, EditorTypeOK, Kinds
<1>3. /\ editor' = Opened(editor.name, "draft_version", parsed.condition) /\ checks' = checks
      /\ meant' = parsed.condition /\ link' = Referenced(parsed.condition, checks)
    BY <1>1 DEF Open
<1>4. /\ editor' \in [ name : Names, source : Kinds, dsl : Seq(Lines) ]
      /\ PrintedOK' /\ LinkOK'
    BY <1>2, <1>3, OpenKeeps
<1> QED
    BY <1>1, <1>2, <1>3, <1>4 DEF EditorInv, EditorTypeOK

LEMMA EditorStart ==
    ASSUME EditorInit
    PROVE  EditorInv
<1>1. /\ rule \in Conditions
      /\ version \in [ name : Names, condition : Conditions, checks : [CheckIds -> Drafted] ]
    BY StoredConditions DEF EditorInit
<1>2. /\ editor = Opened(version.name, "draft_version", version.condition)
      /\ checks = version.checks /\ meant = version.condition
      /\ link = Referenced(version.condition, version.checks)
    BY DEF EditorInit
<1>3. version.name \in Names /\ version.condition \in Conditions
        /\ version.checks \in [CheckIds -> Drafted] /\ "draft_version" \in Kinds
    BY <1>1 DEF Kinds
<1>4. condition = IF parsed.errors THEN defaultCondition ELSE parsed.condition
    BY DEF condition
<1>5. /\ editor \in [ name : Names, source : Kinds, dsl : Seq(Lines) ]
      /\ editor.dsl = conditionToDsl(editor.name, version.condition)
      /\ link # None =>
            /\ link \in Authored(checks)
            /\ \A k \in Authored(checks) : checks[k] = checks[link] => k = link
            /\ parsed.errors \/ IsCanned(editor.name, condition) \/ Points(condition, checks[link])
    BY <1>2, <1>3, <1>4, OpenedFits DEF parsed
<1> QED
    BY <1>1, <1>2, <1>3, <1>5 DEF EditorInv, EditorTypeOK, PrintedOK, LinkOK

LEMMA EditorStep ==
    ASSUME EditorInv, EditorNext \/ UNCHANGED editorVars
    PROVE  EditorInv'
<1>1. CASE handleUseTemplate \/ handleSelectRule \/ hydrateEditorFromPolicyVersion
    BY <1>1, OpeningKeeps
<1>2. CASE AddLine \/ RemoveLine
    BY <1>2, CodeKeeps
<1>3. CASE \E f \in DOMAIN Values : updateConditionField(f)
    BY <1>3, UpdateKeeps
<1>4. CASE \E f \in Shown : removeConditionField(f)
    BY <1>4, RemoveKeeps
<1>5. CASE handleAddPolicyCheck
    BY <1>5, AddCheckKeeps
<1>6. ASSUME NEW k \in Authored(checks),
             \/ updatePolicyCheckType(k) \/ updatePolicyCheckTarget(k)
             \/ updatePolicyCheckExpectedOutcome(k)
      PROVE  EditorInv'
    BY <1>6, EditCheckKeeps
<1>7. ASSUME NEW k \in Authored(checks), handleLinkPolicyCheckCondition(k)
      PROVE  EditorInv'
    BY <1>7, LinkCheckKeeps
<1>8. ASSUME NEW k \in Authored(checks), handleRemovePolicyCheck(k)
      PROVE  EditorInv'
    BY <1>8, RemoveCheckKeeps
<1>9. CASE handleSaveDraft
    BY <1>9, SavingKeeps
<1>10. CASE UNCHANGED editorVars
    <2>1. /\ editor' = editor /\ checks' = checks /\ rule' = rule /\ version' = version
          /\ meant' = meant /\ link' = link
        BY <1>10 DEF editorVars
    <2>2. parsed' = parsed /\ condition' = condition /\ PrintedOK'
        BY <2>1, SameText DEF EditorInv
    <2> QED
        BY <2>1, <2>2 DEF EditorInv, EditorTypeOK, LinkOK
<1> QED
    BY <1>1, <1>2, <1>3, <1>4, <1>5, <1>6, <1>7, <1>8, <1>9, <1>10 DEF EditorNext

-----------------------------------------------------------------------------
(* What the editor promises.                                                 *)

LEMMA CanvasAndCodeHold ==
    ASSUME EditorInv
    PROVE  CanvasAndCodeAgree /\ CompileBarIsRight
<1>1. CanvasAndCodeAgree
    <2> SUFFICES ASSUME meant # None, Expressible(meant) PROVE parsed.condition = meant
        BY DEF CanvasAndCodeAgree
    <2>1. meant \in Conditions /\ editor.dsl = conditionToDsl(editor.name, meant)
        BY DEF EditorInv, PrintedOK
    <2> QED
        BY <2>1, RoundTrip DEF parsed, Expressible
<1>2. CompileBar = "fix" <=> saveDisabledReason
    <2>1. "blocking" \in localValidationMessages(parsed) <=> parsed.errors \/ parsed.unsupported
        BY DEF localValidationMessages
    <2>2. "blocking" \in policyCheckMessages <=> ~validatePolicyChecks(checks, condition)
        BY DEF policyCheckMessages
    <2>3. "blocking" \in studioStateMessages <=>
            selectedRuleUnsupportedFields \/ saveDisabledReason
        BY DEF studioStateMessages
    <2>4. "blocking" \in validationMessages <=> saveDisabledReason
        BY <2>1, <2>2, <2>3 DEF validationMessages, saveDisabledReason
    <2> QED
        BY <2>4 DEF CompileBar
<1>3. compilePolicyRulePreview.decision \in DecisionsOnCanvas \cup {"uncompiled"}
    <2>1. CASE parsed.errors
        BY <2>1 DEF compilePolicyRulePreview
    <2>2. CASE ~parsed.errors
        <3>1. compilePolicyRulePreview.decision = condition["decision"]
            BY <2>2 DEF compilePolicyRulePreview, condition
        <3> QED
            BY <3>1 DEF DecisionsOnCanvas, isDataExfiltrationCondition, dataExfiltrationBlocks
    <2> QED
        BY <2>1, <2>2
<1>4. ASSUME compilePolicyRulePreview.decision # "uncompiled",
             ~isDataExfiltrationCondition(condition)
      PROVE  compilePolicyRulePreview.checkFields = policyBlocksFromCondition \cap ToSet(CHECK_FIELDS)
    <2>1. ~parsed.errors
        BY <1>4 DEF compilePolicyRulePreview
    <2>2. compilePolicyRulePreview.checkFields = { f \in ToSet(CHECK_FIELDS) : condition[f] # "" }
        BY <2>1 DEF compilePolicyRulePreview, condition
    <2>3. ToSet(CHECK_FIELDS) \subseteq Shown
        BY DEF Shown
    <2>4. policyBlocksFromCondition = { f \in Shown : condition[f] # "" }
        BY <1>4 DEF policyBlocksFromCondition
    <2> QED
        BY <2>2, <2>3, <2>4
<1> QED
    BY <1>1, <1>2, <1>3, <1>4 DEF CompileBarIsRight

LEMMA LinkHolds ==
    ASSUME EditorInv, EditorNext \/ UNCHANGED editorVars
    PROVE  LinkIsKept
<1> SUFFICES ASSUME version' # version, link # None, ~IsCanned(editor.name, condition)
             PROVE  isPolicyCheckConditionLinked(version'.condition, version'.checks[link])
    BY DEF LinkIsKept
<1>1. handleSaveDraft
    BY DEF EditorNext, editorVars, handleUseTemplate, handleSelectRule,
        hydrateEditorFromPolicyVersion, AddLine, RemoveLine, onChangeDsl,
        updateConditionField, removeConditionField, handleChangeCondition,
        handleAddPolicyCheck, updatePolicyCheckType, updatePolicyCheckTarget,
        updatePolicyCheckExpectedOutcome, handleUpdatePolicyCheck,
        handleLinkPolicyCheckCondition, handleRemovePolicyCheck, CheckEdit
<1>2. /\ version' = [ name |-> editor.name, condition |-> parsed.condition, checks |-> checks ]
      /\ ~parsed.errors /\ validatePolicyChecks(checks, condition)
    BY <1>1 DEF handleSaveDraft, saveDisabledReason
<1>3. /\ condition = parsed.condition
      /\ link \in Authored(checks) /\ Points(condition, checks[link])
    BY <1>2, ConditionIsOne DEF EditorInv, LinkOK
<1>4. isPolicyCheckConditionLinked(condition, checks[link])
    <2> SUFFICES ASSUME condition["check_type"] # "", condition["check_target_id"] = ""
                 PROVE  FALSE
        BY <1>3 DEF Points
    <2>1. PICK k \in Authored(checks) : isPolicyCheckConditionLinked(condition, checks[k])
        BY <1>2, <1>3 DEF validatePolicyChecks
    <2> QED
        BY <2>1 DEF isPolicyCheckConditionLinked
<1> QED
    BY <1>2, <1>3, <1>4

LEMMA StepOfEditor ==
    ASSUME [Next]_vars, mounted = "editor"
    PROVE  EditorNext \/ UNCHANGED editorVars
BY DEF Next, vars, pageVars, OnlyAccess, OnlyLists, OnlyForm, OnlyFolders, OnlyRecords, OnlyEditor,
       OnlyGrantTable, OnlySourceReview, OnlyQueue, OnlyReviewQueue

MountedEditorInv == mounted = "editor" => EditorInv

LEMMA EditorIsCoherent == Spec => []MountedEditorInv
<1>1. Init => MountedEditorInv
    BY EditorStart DEF Init, MountedEditorInv
<1>2. MountedEditorInv /\ [Next]_vars => MountedEditorInv'
    BY StepOfPage, StepOfEditor, EditorStep DEF MountedEditorInv
<1> QED
    BY <1>1, <1>2, PTL DEF Spec

\* What the canvas prints is what its text compiles to, for every condition that the
\* text can express, whatever the author does on canvas, in the code and in the
\* inspector; and the compile bar agrees with canvas and save button.
THEOREM CanvasIsTheCode == Spec => []CanvasAndCode
<1>1. MountedEditorInv => CanvasAndCode
    BY CanvasAndCodeHold DEF MountedEditorInv, CanvasAndCode
<1> QED
    BY <1>1, EditorIsCoherent, PTL

\* A draft is saved with the reference its author made, whatever was changed about this
\* and other checks since.
THEOREM LinksAreKept == Spec => LinkedCheckIsKept
<1>1. MountedEditorInv /\ [Next]_vars => [mounted = "editor" => LinkIsKept]_vars
    BY StepOfEditor, LinkHolds DEF MountedEditorInv
<1> QED
    BY <1>1, EditorIsCoherent, PTL DEF Spec, LinkedCheckIsKept

=============================================================================

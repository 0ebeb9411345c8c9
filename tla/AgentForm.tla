------------------------------ MODULE AgentForm ------------------------------
(***************************************************************************)
(* Registering an Agent and editing its governance (apps/web/app/agents/   *)
(* agent-governance-form.tsx and the steps it shows): the agent is saved   *)
(* first and the selected Access Grants are declared one after the other,  *)
(* each of which may fail.                                                 *)
(*                                                                         *)
(* A request, its effect on the backend and the code after its await are   *)
(* one step, except for what the user does meanwhile: every input but the  *)
(* buttons at the bottom can be used while a submission is under way.      *)
(* name stands for the required texts of the first two steps, which are    *)
(* one step here.                                                          *)
(***************************************************************************)
EXTENDS Naturals, FiniteSets

CONSTANTS
    Targets,      \* inventory targets, each of a kind of its own
    Declared,     \* those that the agent to be edited has a grant for
    MaxSubmits,   \* bounds the submissions
    MaxTroubles,  \* bounds requests that fail or whose answer is lost
    None

Statuses  == {"draft", "active", "retired"}
Sensitive == {"active", "retired"}

TargetsAssumption == Declared \subseteq Targets

VARIABLES
    ui,       \* the state of the form
    sub,      \* the submission under way, with what it has captured
    agent,    \* backend: the agent's row, empty before it is registered
    agents,   \* backend: how many agents were created by this form
    granted,  \* backend: the number of grants per target
    lost,     \* history: creations whose answer was lost, per target and for "agent"
    submits,  \* bound
    troubles  \* bound

vars == <<ui, sub, agent, agents, granted, lost, submits, troubles>>

EMPTY_AGENT_FORM == [ name |-> "", status |-> "" ]

Stored == [ name |-> "old", status |-> "draft" ]

NoSubmission == [ st |-> "none", values |-> EMPTY_AGENT_FORM, confirmed |-> None,
                  props |-> {}, todo |-> {}, failed |-> {} ]

Loading == [ t \in Targets |-> "loading" ]

IdentityStep == 1   RiskStep == 2   AccessStep == 3   ReviewStep == 4

Submitting(u) == u.submission = "submitting"

Trouble == troubles < MaxTroubles /\ troubles' = troubles + 1

Here == ui.left = "no" /\ ui.profile = "ready"

-----------------------------------------------------------------------------
\* What the form makes of its values.

validateAgentForm(values) == { f \in {"name", "status"} : values[f] = "" }

allFieldErrors(u) == validateAgentForm(u.values) \cup u.refused

\* proposals: "none", "unnamed" or "named" for each target.
Selected(u) == { t \in Targets : u.proposals[t] # "none" }

validateProposedGrants(u) == { t \in Targets : u.proposals[t] = "unnamed" }

\* The agent has an id.
Known(u) == u.mode = "edit" \/ u.created

needsStatusConfirmation(u) ==
    /\ u.values.status \in Sensitive
    /\ u.values.status # IF Known(u) THEN u.initial.status ELSE ""

ConfirmationMissing(u) == needsStatusConfirmation(u) /\ u.confirmed = None

agentChanged(u) == u.values # u.initial

dirty(u) == agentChanged(u) \/ Selected(u) # {}

valid(u) ==
    /\ allFieldErrors(u) = {} /\ validateProposedGrants(u) = {}
    /\ ~ConfirmationMissing(u)

stepIsValid(u) ==
    CASE u.step = IdentityStep -> "name" \notin allFieldErrors(u)
      [] u.step = RiskStep     -> "status" \notin allFieldErrors(u) /\ ~ConfirmationMissing(u)
      [] u.step = AccessStep   -> validateProposedGrants(u) = {}

firstInvalidStep(fields, unnamed, unconfirmed) ==
    IF "name" \in fields THEN IdentityStep
    ELSE IF "status" \in fields \/ unconfirmed THEN RiskStep
    ELSE IF unnamed # {} THEN AccessStep
    ELSE ReviewStep

-----------------------------------------------------------------------------
\* Loading.

\* loadInventory: three requests, settled together.
LoadInventory ==
    /\ ui.left = "no" /\ ui.inventory = Loading
    /\ \E broken \in {{}, Targets} \cup {{t} : t \in Targets} :
        /\ IF broken = {} THEN UNCHANGED troubles ELSE Trouble
        /\ ui' = [ui EXCEPT !.inventory =
                        [t \in Targets |-> IF t \in broken THEN "error" ELSE "ready"]]
    /\ UNCHANGED <<sub, agent, agents, granted, lost, submits>>

RetryInventory ==
    /\ Here /\ ui.step = AccessStep
    /\ \E t \in Targets : ui.inventory[t] = "error"
    /\ ui' = [ui EXCEPT !.inventory = Loading]
    /\ UNCHANGED <<sub, agent, agents, granted, lost, submits, troubles>>

LoadProfile ==
    /\ ui.left = "no" /\ ui.profile = "loading"
    /\ \/ /\ ui' = [ui EXCEPT !.profile = "ready", !.values = agent, !.initial = agent,
                              !.existing = {t \in Targets : granted[t] > 0}]
          /\ UNCHANGED troubles
       \/ /\ ui' = [ui EXCEPT !.profile = "error"]
          /\ Trouble
    /\ UNCHANGED <<sub, agent, agents, granted, lost, submits>>

RetryProfile ==
    /\ ui.left = "no" /\ ui.profile = "error"
    /\ ui' = [ui EXCEPT !.profile = "loading"]
    /\ UNCHANGED <<sub, agent, agents, granted, lost, submits, troubles>>

-----------------------------------------------------------------------------
\* The steps.

Click == Here /\ UNCHANGED <<sub, agent, agents, granted, lost, submits, troubles>>

ErrorGone(u) == [u EXCEPT !.submission = IF @ = "error" THEN "idle" ELSE @]

Changed(u, field, value) ==
    ErrorGone([u EXCEPT !.values[field] = value, !.refused = @ \ {field}])

ChangeName ==
    /\ Click /\ ui.step = IdentityStep
    /\ \E name \in {"", "bot"} \ {ui.values.name} : ui' = Changed(ui, "name", name)

\* Mutant: another status keeps the confirmation of the last one.
ChangeStatusKeepsConfirmation ==
    /\ Click /\ ui.step = RiskStep
    /\ \E status \in Statuses \ {ui.values.status} : ui' = Changed(ui, "status", status)

ChangeStatus ==
    /\ Click /\ ui.step = RiskStep
    /\ \E status \in Statuses \ {ui.values.status} :
            ui' = [Changed(ui, "status", status) EXCEPT !.confirmed = None]

Confirm ==
    /\ Click /\ ui.step = RiskStep /\ needsStatusConfirmation(ui)
    /\ ui' = [ui EXCEPT !.confirmed = IF @ = None THEN ui.values.status ELSE None]

handleToggleTarget(t) ==
    /\ Click /\ ui.step = AccessStep
    /\ ui.inventory[t] = "ready" /\ t \notin ui.existing
    /\ ui' = [ui EXCEPT !.proposals[t] = IF @ = "none" THEN "unnamed" ELSE "none",
                        !.submission = IF @ = "submitting" THEN @ ELSE "idle",
                        !.failed = {}]

handleUpdateProposal(t) ==
    /\ Click /\ ui.step = AccessStep
    /\ ui.inventory[t] = "ready" /\ ui.proposals[t] = "unnamed"
    /\ ui' = ErrorGone([ui EXCEPT !.proposals[t] = "named"])

handleContinue ==
    /\ Click /\ ~Submitting(ui) /\ ui.step < ReviewStep /\ stepIsValid(ui)
    /\ ui' = [ui EXCEPT !.step = @ + 1,
                        !.furthest = IF @ > ui.step THEN @ ELSE ui.step + 1]

SelectStep ==
    /\ Click
    /\ \E s \in (1..ui.furthest) \ {ui.step} : ui' = [ui EXCEPT !.step = s]

handleReset ==
    /\ Click /\ ~Submitting(ui) /\ dirty(ui)
    /\ ui' = [ui EXCEPT !.values = ui.initial, !.proposals = [t \in Targets |-> "none"],
                        !.refused = {}, !.confirmed = None, !.submission = "idle",
                        !.failed = {}, !.step = IdentityStep, !.furthest = IdentityStep]

\* Cancel, or a link of the page: the links work while a submission is under way.
Leave ==
    /\ Click
    /\ ui' = [ui EXCEPT !.left = "user"]

-----------------------------------------------------------------------------
\* Submitting.

\* Register Agent or Save governance on the last step; Retry failed grants,
\* which is shown on every step, checks the form itself.
SubmitOffered ==
    \/ ui.step = ReviewStep /\ ~Submitting(ui) /\ valid(ui) /\ dirty(ui)
    \/ ui.submission = "partial"

Incomplete == validateAgentForm(ui.values) # {} \/ validateProposedGrants(ui) # {}
              \/ ConfirmationMissing(ui)

SubmitIncomplete ==
    /\ Click /\ SubmitOffered /\ Incomplete
    /\ ui' = [ui EXCEPT !.submission = "error", !.failed = {},
                !.step = firstInvalidStep(validateAgentForm(ui.values),
                            validateProposedGrants(ui), ConfirmationMissing(ui))]

SubmitNothing ==
    /\ Click /\ SubmitOffered /\ ~Incomplete /\ ~dirty(ui)
    /\ ui' = [ui EXCEPT !.submission = "error", !.failed = {}]

\* An agent that is there and unchanged is not sent again.
handleSubmit ==
    /\ Here /\ SubmitOffered /\ ~Incomplete /\ dirty(ui)
    /\ submits < MaxSubmits /\ submits' = submits + 1
    /\ sub' = [ st |-> IF Known(ui) /\ ~agentChanged(ui) THEN "grants" ELSE "agent",
                values |-> ui.values, confirmed |-> ui.confirmed,
                props |-> Selected(ui), todo |-> Selected(ui), failed |-> {} ]
    /\ ui' = [ui EXCEPT !.submission = "submitting", !.failed = {}]
    /\ UNCHANGED <<agent, agents, granted, lost, troubles>>

\* createAgent gets all values, updateAgent those that differ from what was loaded or
\* saved last; the rest of the row stays as it is.
buildAgentPatch(values, initial) == { f \in DOMAIN values : values[f] # initial[f] }

StoreAgent ==
    IF Known(ui)
    THEN /\ agent' = [f \in DOMAIN agent |->
                        IF f \in buildAgentPatch(sub.values, ui.initial)
                        THEN sub.values[f] ELSE agent[f]]
         /\ UNCHANGED agents
    ELSE agent' = sub.values /\ agents' = agents + 1

\* Mutant: the id of the created agent is forgotten.
ShowSavedForgetsAgent(u, saved) ==
    [u EXCEPT !.values = saved, !.initial = saved, !.refused = {}]

\* The form after the agent was saved.
ShowSaved(u, saved) ==
    [u EXCEPT !.created = (u.mode = "create"),
              !.values = saved, !.initial = saved, !.refused = {}]

AgentSaved ==
    /\ sub.st = "agent"
    /\ StoreAgent
    /\ IF sub.props = {}
       THEN sub' = NoSubmission /\ ui' = [ShowSaved(ui, agent') EXCEPT !.left = "saved"]
       ELSE sub' = [sub EXCEPT !.st = "grants"] /\ ui' = ShowSaved(ui, agent')
    /\ UNCHANGED <<granted, lost, submits, troubles>>

\* The agent is refused, with or without naming a field, or the request or its
\* answer is lost.
AgentFails ==
    /\ sub.st = "agent"
    /\ Trouble
    /\ \/ /\ \E fields \in {{}, {"name"}, {"status"}} :
                ui' = [ui EXCEPT !.submission = "error", !.refused = @ \cup fields,
                        !.step = IF fields = {} THEN @
                                 ELSE firstInvalidStep(fields, {}, FALSE)]
          /\ UNCHANGED <<agent, agents, lost>>
       \/ /\ StoreAgent
          /\ lost' = IF agents' = agents THEN lost ELSE [lost EXCEPT !.agent = @ + 1]
          /\ ui' = [ui EXCEPT !.submission = "error"]
    /\ sub' = NoSubmission
    /\ UNCHANGED <<granted, submits>>

\* Mutant: what succeeded is proposed again.
GrantsDoneKeepsAll(u, failed) ==
    IF failed = {}
    THEN [u EXCEPT !.proposals = [t \in Targets |-> "none"], !.left = "saved"]
    ELSE [u EXCEPT !.submission = "partial", !.failed = failed]

\* Mutant: a partial failure does not end the submitting state.
GrantsDoneStaysBusy(u, failed) ==
    IF failed = {}
    THEN [u EXCEPT !.proposals = [t \in Targets |-> "none"], !.left = "saved"]
    ELSE [u EXCEPT !.failed = failed,
                   !.proposals = [t \in Targets |-> IF t \in failed THEN @[t] ELSE "none"]]

\* The end of the loop over the declarations.
GrantsDone(u, failed) ==
    IF failed = {}
    THEN [u EXCEPT !.proposals = [t \in Targets |-> "none"], !.left = "saved"]
    ELSE [u EXCEPT !.submission = "partial", !.failed = failed,
                   !.proposals = [t \in Targets |-> IF t \in failed THEN @[t] ELSE "none"]]

\* Mutant: the loop ends with the first failure.
GrantAnsweredStops(u, t, ok) ==
    LET s == [sub EXCEPT !.todo = IF ok THEN @ \ {t} ELSE {},
                         !.failed = IF ok THEN @ ELSE @ \cup {t}] IN
    IF s.todo # {} THEN ui' = u /\ sub' = s
    ELSE ui' = GrantsDone(u, s.failed) /\ sub' = NoSubmission

\* One turn of the loop, and its end after the last one.
GrantAnswered(u, t, ok) ==
    LET s == [sub EXCEPT !.todo = @ \ {t}, !.failed = IF ok THEN @ ELSE @ \cup {t}] IN
    IF s.todo # {} THEN ui' = u /\ sub' = s
    ELSE ui' = GrantsDone(u, s.failed) /\ sub' = NoSubmission

CreateGrant(t) ==
    /\ sub.st = "grants" /\ t \in sub.todo
    /\ granted' = [granted EXCEPT ![t] = @ + 1]
    /\ GrantAnswered([ui EXCEPT !.existing = @ \cup {t}], t, TRUE)
    /\ UNCHANGED <<agent, agents, lost, submits, troubles>>

GrantFails(t) ==
    /\ sub.st = "grants" /\ t \in sub.todo
    /\ Trouble
    /\ \/ UNCHANGED <<granted, lost>>
       \/ granted' = [granted EXCEPT ![t] = @ + 1] /\ lost' = [lost EXCEPT ![t] = @ + 1]
    /\ GrantAnswered(ui, t, FALSE)
    /\ UNCHANGED <<agent, agents, submits>>

-----------------------------------------------------------------------------
Init ==
    /\ \E mode \in {"create", "edit"} :
        /\ ui = [ mode |-> mode, profile |-> IF mode = "edit" THEN "loading" ELSE "ready",
                  values |-> EMPTY_AGENT_FORM, initial |-> EMPTY_AGENT_FORM,
                  confirmed |-> None, refused |-> {},
                  inventory |-> Loading, existing |-> {},
                  proposals |-> [t \in Targets |-> "none"],
                  step |-> IdentityStep, furthest |-> IdentityStep,
                  submission |-> "idle", failed |-> {}, created |-> FALSE, left |-> "no" ]
        /\ agent = IF mode = "edit" THEN Stored ELSE EMPTY_AGENT_FORM
        /\ granted = [t \in Targets |-> IF mode = "edit" /\ t \in Declared THEN 1 ELSE 0]
    /\ sub = NoSubmission
    /\ agents = 0 /\ submits = 0 /\ troubles = 0
    /\ lost = [t \in Targets \cup {"agent"} |-> 0]

Answers ==
    AgentSaved \/ AgentFails \/ \E t \in Targets : CreateGrant(t) \/ GrantFails(t)

Next ==
    \/ LoadInventory \/ RetryInventory \/ LoadProfile \/ RetryProfile
    \/ ChangeName \/ ChangeStatus \/ Confirm
    \/ \E t \in Targets : handleToggleTarget(t) \/ handleUpdateProposal(t)
    \/ handleContinue \/ SelectStep \/ handleReset \/ Leave
    \/ SubmitIncomplete \/ SubmitNothing \/ handleSubmit
    \/ Answers

Spec == Init /\ [][Next]_vars

\* Every request ends with an answer or an error.
FairSpec == Spec /\ WF_vars(Answers)

-----------------------------------------------------------------------------
\* Properties.

\* The form registers one agent, however often it is submitted: only a
\* registration whose answer was lost can be repeated.
RegistersOnce == agents <= 1 + lost["agent"]

\* A retry after a partial failure declares no target again that has a grant,
\* and neither does a target that was switched off and on meanwhile.
GrantsOncePerTarget == \A t \in Targets : granted[t] <= 1 + lost[t]

\* A step: "Sensitive lifecycle changes require explicit confirmation.": the backend only
\* gets a sensitive status that the user has confirmed for that very status,
\* even when it was changed again or the submission is a retry.
SensitiveStatusConfirmed ==
    agent'.status # agent.status /\ agent'.status \in Sensitive
        => sub.confirmed = agent'.status

\* A step: every declaration of a submission ends up stored or reported as failed, in
\* whatever order they fail and whatever the user selects meanwhile, as long as
\* the form is open.
NothingDroppedSilently ==
    sub.st # "none" /\ sub'.st = "none" /\ ui.left = "no"
        => \/ ui'.submission = "error"
           \/ \A t \in sub.props : granted'[t] > 0 \/ t \in ui'.failed

\* A submission ends, with the form left or with something to read.
Waiting ==
    IF ui.submission = "submitting" /\ ui.left = "no" THEN {"submission"} ELSE {}

=============================================================================

----------------------------- MODULE PolicyStudio -----------------------------
(***************************************************************************)
(* Policy Studio (apps/web/app/policies/policy-studio.tsx): the repository *)
(* pane, the editor and the version under it, with the requests in flight  *)
(* and the policies, versions and reviews of the backend.                  *)
(*                                                                         *)
(* A handler runs up to its await in one step and again when the answer    *)
(* arrives; Rendered adds the effects that React runs after a render.  A   *)
(* fetch that is aborted never answers.  The DSL is a text, its checks are *)
(* there or not, and a text that does not compile is left out, since it    *)
(* disables the buttons.  The rows of the rules are taken to be clickable  *)
(* as soon as their policy is selected, which may be before they load.     *)
(***************************************************************************)
EXTENDS Naturals, Sequences, FiniteSets, SequencesExt

CONSTANTS
    PolicyOrder, \* policies, in the order in which they are or will be created
    FirstPolicies,\* the policies and versions that are there to begin with
    FirstVersion,
    Typed,       \* the texts that the author types
    Movable,     \* the policies that are moved between folders
    Retired,     \* those that are archived
    MaxVersions, \* bounds the versions
    MaxCalls,    \* bounds the saves in flight
    MaxClicks,   \* bounds what the author does
    MaxTroubles, \* bounds failing requests and what others do
    None

Policies   == ToSet(PolicyOrder)
VersionIds == 1..MaxVersions
CallIds    == 1..MaxCalls
Texts      == {"stored", "live", "new"} \cup Typed

Versions ==
    [ policy : Policies \cup {None},
      st : {"none", "draft", "pending", "approved", "active", "superseded"},
      text : Texts, checks : BOOLEAN ]

ASSUME PoliciesAssumption == PolicyOrder \in Seq(Policies) /\ None \notin Policies \cup VersionIds
ASSUME BoundAssumption == MaxVersions \in Nat

\* There is a policy to select, and the versions that are there belong to one.
ASSUME FirstAssumption ==
    /\ FirstPolicies \subseteq Policies /\ FirstPolicies # {}
    /\ FirstVersion \in [VersionIds -> Versions]
    /\ \A v \in VersionIds :
          IF FirstVersion[v].st = "none" THEN FirstVersion[v].policy = None
                                         ELSE FirstVersion[v].policy \in FirstPolicies

VARIABLES
    exists,  \* backend: the policies
    archived,\* backend: those with the status "archived"
    vers,    \* backend: policy_versions, with the state of their review
    stored,  \* history: the texts that a version has had
    ui,      \* the state of the page
    calls,   \* handleSaveDraft and handleCreateNewDraftForChanges, in progress
    filing,  \* handleSubmitReview, in progress
    removal, \* handleDeletePolicy, handleArchivePolicy or handleMovePolicyToFolder, in progress
    refresh, \* loadPolicies, in progress
    ruleLoad,\* the fetch of handleSelectRule, in progress
    typed,   \* history: the editor was changed while its versions were loading
    troubles,\* history
    clicks   \* history: how much the author has done; set by Next

backend == <<exists, archived, vers, stored>>
vars == <<exists, archived, vers, stored, ui, calls, filing, removal, refresh, ruleLoad,
          typed, troubles, clicks>>

NoVersion == [ policy |-> None, st |-> "none", text |-> "new", checks |-> FALSE ]
NoAnswer  == [ latest |-> None, active |-> None, some |-> FALSE,
               text |-> "new", checks |-> FALSE ]
NoLoad    == [ st |-> "none", policy |-> None, hydrate |-> FALSE, got |-> NoAnswer ]
NoCall    == [ st |-> "none", policy |-> None, old |-> FALSE, on |-> None, text |-> "new",
               checks |-> FALSE, renewed |-> FALSE, got |-> NoAnswer ]
Local     == [ kind |-> "local_draft", id |-> None ]
NoReview  == [ on |-> None, status |-> "none" ]

NoVersions(st) == [ st |-> st, latest |-> None, some |-> FALSE, active |-> FALSE ]

Trouble == troubles < MaxTroubles /\ troubles' = troubles + 1

-----------------------------------------------------------------------------
\* The backend.

Newest(p, sts) ==
    LET S == { v \in VersionIds : vers[v].policy = p /\ vers[v].st \in sts } IN
    IF S = {} THEN None ELSE CHOOSE v \in S : \A w \in S : w <= v

\* What GET /policies/{id}/versions says, as far as loadVersions uses it.
VersionsOf(p) ==
    LET latest == Newest(p, {"draft", "pending"})
        active == Newest(p, {"active"})
        shown  == IF latest # None THEN latest ELSE active IN
    [ latest |-> latest, active |-> active,
      some   |-> \E v \in VersionIds : vers[v].policy = p,
      text   |-> IF shown = None THEN "new" ELSE vers[shown].text,
      checks |-> shown # None /\ vers[shown].checks ]

\* Reviewers decide, and activate what they approved.
OthersAct ==
    /\ \E v \in VersionIds :
        \/ /\ vers[v].st = "pending"
           /\ \E st \in {"draft", "approved"} : vers' = [vers EXCEPT ![v].st = st]
        \/ /\ vers[v].st = "approved"
           /\ vers' = [w \in VersionIds |->
                  [vers[w] EXCEPT !.st = CASE w = v -> "active"
                                           [] vers[w].policy = vers[v].policy /\ @ = "active"
                                                -> "superseded"
                                           [] OTHER -> @]]
    /\ Trouble
    /\ UNCHANGED <<exists, archived, stored, ui, calls, filing, removal, refresh, ruleLoad, typed>>

-----------------------------------------------------------------------------
\* What the page derives from its state, and its effects.

selectedPolicy(u) == IF u.list.st = "ready" /\ u.sel \in u.list.known THEN u.sel ELSE None

\* Mutant: the draft is used whichever policy is selected.
selectedDraftVersionAny(u) == IF u.draft # None THEN u.draft ELSE u.versions.latest

selectedDraftVersion(u) ==
    IF u.draft # None /\ vers[u.draft].policy = u.sel THEN u.draft ELSE u.versions.latest

\* selectedDraftReviewState?.review_status
reviewStatus(u) ==
    IF u.review.on # None /\ u.review.on = selectedDraftVersion(u)
    THEN u.review.status ELSE "none"

\* The effect on selectedPolicy: its last run is aborted, and the versions of the
\* policy are loaded.
PolicyEffect(u) ==
    LET p == selectedPolicy(u)
        hydrate == u.preserve # p IN
    IF p = None
    THEN [u EXCEPT !.versions = NoVersions("idle"),
                   !.draft = None, !.source = Local, !.checks = FALSE,
                   !.review = NoReview, !.load = NoLoad]
    ELSE [u EXCEPT !.preserve = IF hydrate THEN @ ELSE None,
                   !.dirty = FALSE,
                   !.versions = NoVersions("loading"),
                   !.load = [NoLoad EXCEPT !.st = "sent", !.policy = p, !.hydrate = hydrate]]

\* The effect on selectedDraftVersion: its review state is loaded.
DraftEffect(u) ==
    [u EXCEPT !.review = NoReview, !.asking = selectedDraftVersion(u)]

\* A render with the state u, and its effects; the objects that were replaced by
\* equal ones count as changed.
Rendered(u, newPolicy, newDraft) ==
    LET v == IF newPolicy \/ selectedPolicy(u) # selectedPolicy(ui) THEN PolicyEffect(u) ELSE u IN
    IF newDraft \/ selectedDraftVersion(v) # selectedDraftVersion(ui) THEN DraftEffect(v) ELSE v

Render(u) == ui' = Rendered(u, FALSE, FALSE)

\* hydrateEditorFromPolicyVersion
Hydrated(u, kind, v, text, checks) ==
    [u EXCEPT !.text = text, !.checks = checks, !.source = [ kind |-> kind, id |-> v ],
              !.save = "saved", !.submit = "idle", !.dirty = FALSE]

-----------------------------------------------------------------------------
\* Loading the policies.

NoRefresh == [ st |-> "none", known |-> {}, old |-> {} ]

loadPolicies ==
    /\ refresh.st = "none"
    /\ refresh' = [NoRefresh EXCEPT !.st = "sent"]

handleRefresh ==
    /\ loadPolicies
    /\ Render([ui EXCEPT !.list.st = "loading"])
    /\ UNCHANGED <<backend, calls, filing, removal, ruleLoad, typed, troubles>>

ReadPolicies ==
    /\ refresh.st = "sent"
    /\ refresh' = [ st |-> "got", known |-> exists, old |-> archived ]
    /\ UNCHANGED <<backend, ui, calls, filing, removal, ruleLoad, typed, troubles>>

\* handleSaveDraft or handleCreateNewDraftForChanges still waits for its answer.
Saving(c) == calls[c].st \in {"creating", "sending", "ok", "failed"}

Oldest(S) == PolicyOrder[CHOOSE i \in DOMAIN PolicyOrder :
                 PolicyOrder[i] \in S /\ \A j \in 1..(i - 1) : PolicyOrder[j] \notin S]

ShowPolicies ==
    /\ refresh.st = "got"
    /\ refresh' = NoRefresh
    /\ LET known == refresh.known IN
       ui' = Rendered([ui EXCEPT !.list = [ st |-> "ready", known |-> known, old |-> refresh.old ],
                                 !.sel = IF known = {} \/ @ \in known THEN @ ELSE Oldest(known)],
                      TRUE, FALSE)
    /\ calls' = [c \in CallIds |-> [calls[c] EXCEPT !.renewed = Saving(c)]]
    /\ typed' = FALSE
    /\ UNCHANGED <<backend, filing, removal, ruleLoad, troubles>>

FailPolicies ==
    /\ refresh.st = "sent"
    /\ Trouble
    /\ refresh' = NoRefresh
    /\ Render([ui EXCEPT !.list.st = "error"])
    /\ UNCHANGED <<backend, calls, filing, removal, ruleLoad, typed>>

-----------------------------------------------------------------------------
\* Loading the versions of the selected policy.

ReadVersions ==
    /\ ui.load.st = "sent"
    /\ ui' = [ui EXCEPT !.load.st = "got", !.load.got = VersionsOf(ui.load.policy)]
    /\ UNCHANGED <<backend, calls, filing, removal, refresh, ruleLoad, typed, troubles>>

\* Mutant: the text that was typed meanwhile is replaced.
ShowsVersionsDirty(u, got, hydrate, policy) ==
    LET ready == [u EXCEPT !.versions = [ st |-> "ready", latest |-> got.latest, some |-> got.some,
                                          active |-> got.active # None ],
                           !.draft = got.latest] IN
    IF u.saved = policy \/ ~hydrate THEN ready
    ELSE IF got.latest # None
         THEN Hydrated(ready, "draft_version", got.latest, got.text, got.checks)
    ELSE IF got.active # None
         THEN Hydrated(ready, "active_version", got.active, got.text, got.checks)
    ELSE [ready EXCEPT !.source = [ kind |-> "live_fallback", id |-> None ],
                       !.load = [NoLoad EXCEPT !.st = "rules", !.policy = policy]]

\* loadVersions after its await: what was saved or typed in the editor stays.
ShowsVersions(u, got, hydrate, policy) ==
    LET ready == [u EXCEPT !.versions = [ st |-> "ready", latest |-> got.latest, some |-> got.some,
                                          active |-> got.active # None ],
                           !.draft = got.latest] IN
    IF u.saved = policy \/ ~hydrate \/ u.dirty THEN ready
    ELSE IF got.latest # None
         THEN Hydrated(ready, "draft_version", got.latest, got.text, got.checks)
    ELSE IF got.active # None
         THEN Hydrated(ready, "active_version", got.active, got.text, got.checks)
    ELSE [ready EXCEPT !.source = [ kind |-> "live_fallback", id |-> None ],
                       !.load = [NoLoad EXCEPT !.st = "rules", !.policy = policy]]

ShowVersions ==
    /\ ui.load.st = "got"
    /\ ui' = Rendered(ShowsVersions([ui EXCEPT !.load = NoLoad], ui.load.got, ui.load.hydrate,
                                    ui.load.policy), FALSE, ui.load.got.latest # None)
    /\ typed' = FALSE
    /\ UNCHANGED <<backend, calls, filing, removal, refresh, ruleLoad, troubles>>

FailVersions ==
    /\ ui.load.st = "sent"
    /\ Trouble
    /\ Render([ui EXCEPT !.load = NoLoad, !.draft = None,
                         !.versions = NoVersions("error")])
    /\ typed' = FALSE
    /\ UNCHANGED <<backend, calls, filing, removal, refresh, ruleLoad>>

\* loadRules for a policy without versions, up to the fetch of the rule's checks;
\* a rule that cannot be loaded changes nothing in the editor.
ShowRules ==
    /\ ui.load.st = "rules"
    /\ ui' = [ui EXCEPT !.load = IF ui.dirty THEN NoLoad ELSE [@ EXCEPT !.st = "checks"]]
    /\ UNCHANGED <<backend, calls, filing, removal, refresh, ruleLoad, typed, troubles>>

\* The rest of loadRules, which does not ask again whether something was typed.
ShowRuleChecks ==
    /\ ui.load.st = "checks"
    /\ \/ /\ ui' = [ui EXCEPT !.load = NoLoad, !.text = "live", !.checks = TRUE,
                              !.source = [ kind |-> "live_fallback", id |-> None ],
                              !.dirty = FALSE, !.save = "unsaved"]
          /\ UNCHANGED troubles
       \/ /\ ui' = [ui EXCEPT !.load = NoLoad, !.text = "live", !.checks = FALSE,
                              !.source = [ kind |-> "live_fallback", id |-> None ],
                              !.dirty = FALSE, !.save = "unsaved"]
          /\ Trouble
    /\ typed' = FALSE
    /\ UNCHANGED <<backend, calls, filing, removal, refresh, ruleLoad>>

FailRules ==
    /\ ui.load.st = "rules"
    /\ Trouble
    /\ ui' = [ui EXCEPT !.load = NoLoad]
    /\ UNCHANGED <<backend, calls, filing, removal, refresh, ruleLoad, typed>>

\* loadVersionReviewState, started by the effect; its answer is taken to be fresh,
\* since the backend refuses what an old one would let through.
StateOf(v) == CASE vers[v].st = "pending" -> "pending"
                [] vers[v].st = "draft"   -> "open"
                [] OTHER                  -> "closed"

ShowReviewState ==
    /\ ui.asking # None
    /\ ui' = [ui EXCEPT !.asking = None,
                        !.review = [ on |-> ui.asking, status |-> StateOf(ui.asking) ]]
    /\ UNCHANGED <<backend, calls, filing, removal, refresh, ruleLoad, typed, troubles>>

FailReviewState ==
    /\ ui.asking # None
    /\ Trouble
    /\ ui' = [ui EXCEPT !.asking = None]
    /\ UNCHANGED <<backend, calls, filing, removal, refresh, ruleLoad, typed>>

-----------------------------------------------------------------------------
\* The author works on the page.

Emptied(u) ==
    [u EXCEPT !.preserve = None, !.saved = None, !.dirty = FALSE, !.draft = None,
              !.source = Local, !.checks = FALSE, !.review = NoReview,
              !.save = "unsaved", !.submit = "idle"]

handleSelectPolicy(p) ==
    /\ ui.list.st = "ready" /\ p \in ui.list.known
    /\ Render([Emptied(ui) EXCEPT !.sel = p])
    /\ typed' = FALSE
    /\ UNCHANGED <<backend, calls, filing, removal, refresh, ruleLoad, troubles>>

\* handleUseTemplate does the same with another text.
NewEditor(u) ==
    [Emptied(u) EXCEPT !.sel = None, !.text = "new",
        !.versions = NoVersions("idle")]

handleNewPolicy ==
    /\ Render(NewEditor(ui))
    /\ typed' = FALSE
    /\ UNCHANGED <<backend, calls, filing, removal, refresh, ruleLoad, troubles>>

\* Mutant: an edit does not take back that the draft is saved.
EditedStillSaved(u) == [u EXCEPT !.dirty = TRUE, !.submit = "idle"]

\* onChangeDsl, handleChangeCondition and markPolicyCheckEditorDirty.
Edited(u) == [u EXCEPT !.dirty = TRUE, !.save = "unsaved", !.submit = "idle"]

LoadingVersions == ui.load.st \in {"sent", "got"}

handleChangeCondition(t) ==
    /\ ui' = [Edited(ui) EXCEPT !.text = t]
    /\ typed' = LoadingVersions
    /\ UNCHANGED <<backend, calls, filing, removal, refresh, ruleLoad, troubles>>

handleAddPolicyCheck ==
    /\ ~ui.checks
    /\ ui' = IF reviewStatus(ui) = "pending" THEN [ui EXCEPT !.save = "save_error"]
             ELSE [Edited(ui) EXCEPT !.checks = TRUE]
    /\ typed' = (LoadingVersions /\ ui'.dirty)
    /\ UNCHANGED <<backend, calls, filing, removal, refresh, ruleLoad, troubles>>

handleRemovePolicyCheck ==
    /\ ui.checks /\ reviewStatus(ui) # "pending"
    /\ ui' = [Edited(ui) EXCEPT !.checks = FALSE]
    /\ typed' = LoadingVersions
    /\ UNCHANGED <<backend, calls, filing, removal, refresh, ruleLoad, troubles>>

\* Validation of a text that compiles; it also hides that a save is in flight.
handleValidate ==
    /\ ui' = [ui EXCEPT !.save = IF @ = "saved" THEN "saved" ELSE "unsaved"]
    /\ UNCHANGED <<backend, calls, filing, removal, refresh, ruleLoad, typed, troubles>>

handleSelectRule ==
    /\ selectedPolicy(ui) # None /\ ruleLoad = "none"
    /\ ui' = [ui EXCEPT !.preserve = None, !.saved = None, !.dirty = FALSE,
                        !.checks = FALSE, !.text = "live", !.save = "unsaved",
                        !.source = [ kind |-> "live_fallback", id |-> None ],
                        !.submit = "idle"]
    /\ ruleLoad' = "sent"
    /\ typed' = FALSE
    /\ UNCHANGED <<backend, calls, filing, removal, refresh, troubles>>

\* Its fetch is never aborted: the checks go to whatever the editor shows by then.
ShowSelectedRuleChecks ==
    /\ ruleLoad = "sent"
    /\ \/ ui' = [ui EXCEPT !.checks = TRUE] /\ UNCHANGED troubles
       \/ ui' = [ui EXCEPT !.save = "save_error"] /\ Trouble
    /\ ruleLoad' = "none"
    /\ UNCHANGED <<backend, calls, filing, removal, refresh, typed>>

-----------------------------------------------------------------------------
\* Saving.

\* handleSaveDraft is disabled while the draft is known to be under review.
saveDisabled(u) == u.source.kind = "draft_version" /\ reviewStatus(u) = "pending"

\* Mutant: the draft's policy is not compared with the one that is saved.
versionToUpdateAny(u) == IF u.source.kind = "draft_version" THEN selectedDraftVersion(u) ELSE None

\* The draft that a save changes, if it does not make a new one.
versionToUpdate(u) ==
    LET v == selectedDraftVersion(u) IN
    IF /\ u.source.kind = "draft_version" /\ v # None
       /\ selectedPolicy(u) # None /\ vers[v].policy = selectedPolicy(u)
    THEN v ELSE None

\* MaxVersions and the policies that are left bound what is saved.
Room ==
    LET new == { c \in CallIds : Saving(c) /\ calls[c].st # "ok" /\ calls[c].on = None } IN
    /\ Cardinality({ v \in VersionIds : vers[v].st = "none" }) > Cardinality(new)
    /\ Cardinality(Policies \ exists)
           > Cardinality({ c \in new : calls[c].st = "creating" })

\* The button stays enabled while a save is in flight.
Send(on) ==
    /\ on = None => Room
    /\ \E c \in CallIds :
        /\ calls[c].st = "none" /\ \A d \in CallIds : d < c => calls[d].st # "none"
        /\ calls' = [calls EXCEPT ![c] = [NoCall EXCEPT
                !.st = IF selectedPolicy(ui) = None THEN "creating" ELSE "sending",
                !.policy = selectedPolicy(ui), !.old = selectedPolicy(ui) \in ui.list.old,
                !.on = on, !.text = ui.text, !.checks = ui.checks]]
    /\ ui' = [ui EXCEPT !.save = "saving"]
    /\ UNCHANGED <<backend, filing, removal, refresh, ruleLoad, typed, troubles>>

handleSaveDraft == ~saveDisabled(ui) /\ Send(versionToUpdate(ui))

createDraftForChangesDisabled(u) == selectedPolicy(u) = None \/ u.save = "saving"

handleCreateNewDraftForChanges == ~createDraftForChangesDisabled(ui) /\ Send(None)

\* ensurePolicyDraft: without a policy, POST /policies makes one first.
ServeCreatePolicy(c) ==
    /\ calls[c].st = "creating"
    /\ \E p \in Policies \ exists :
        /\ exists' = exists \cup {p}
        /\ calls' = [calls EXCEPT ![c].policy = p, ![c].st = "sending"]
    /\ UNCHANGED <<archived, vers, stored, ui, filing, removal, refresh, ruleLoad, typed, troubles>>

Store(v, p, c) ==
    /\ vers' = [vers EXCEPT ![v] = [ policy |-> p, st |-> "draft", text |-> calls[c].text,
                                     checks |-> calls[c].checks ]]
    /\ stored' = [stored EXCEPT ![v] = @ \cup {calls[c].text}]
    /\ calls' = [calls EXCEPT ![c].st = "ok", ![c].on = v]

\* PATCH /policy-versions/{id}/draft or POST /policies/{id}/versions/draft.
ServeSave(c) ==
    /\ calls[c].st = "sending"
    /\ \/ /\ calls[c].on # None /\ vers[calls[c].on].st = "draft"
          /\ Store(calls[c].on, vers[calls[c].on].policy, c)
       \/ /\ calls[c].on = None /\ calls[c].policy \in exists
          /\ \E v \in VersionIds :
                /\ \A w \in VersionIds : vers[w].st = "none" <=> w >= v
                /\ Store(v, calls[c].policy, c)
       \/ /\ IF calls[c].on = None THEN calls[c].policy \notin exists
             ELSE vers[calls[c].on].st # "draft"
          /\ calls' = [calls EXCEPT ![c].st = "failed"]
          /\ UNCHANGED <<vers, stored>>
    /\ UNCHANGED <<exists, archived, ui, filing, removal, refresh, ruleLoad, typed, troubles>>

\* The request or its answer is lost.
LoseSave(c) ==
    /\ calls[c].st \in {"creating", "sending", "ok"}
    /\ Trouble
    /\ calls' = [calls EXCEPT ![c].st = "failed"]
    /\ UNCHANGED <<backend, ui, filing, removal, refresh, ruleLoad, typed>>

\* upsertPolicyRecord: the list takes over a record of p, archived or not.
WithRecord(list, p, old) ==
    IF list.st # "ready" THEN list
    ELSE [list EXCEPT !.known = @ \cup {p}, !.old = IF old THEN @ \cup {p} ELSE @ \ {p}]

\* Mutant: the editor keeps what it shows.
SavedKeepsText(c) ==
    LET p == calls[c].policy IN
    Hydrated([ui EXCEPT !.draft = calls[c].on, !.preserve = p, !.saved = p, !.sel = p,
                        !.versions = NoVersions("loading")],
             "draft_version", calls[c].on, ui.text, ui.checks)

\* Mutant: the version is selected in place of the policy.
SavedSelectsVersion(c) ==
    Hydrated([ui EXCEPT !.draft = calls[c].on, !.sel = calls[c].on],
             "draft_version", calls[c].on, calls[c].text, calls[c].checks)

\* The answer is shown in the editor, whatever it shows by now, and the versions
\* are loaded again, by a load that nothing aborts.  The policy's record is that
\* of the click: one that was archived since is offered for archiving once more.
Saved(c) ==
    LET p == calls[c].policy IN
    Hydrated([ui EXCEPT !.draft = calls[c].on, !.preserve = p, !.saved = p, !.sel = p,
                        !.list = WithRecord(@, p, calls[c].old),
                        !.versions = NoVersions("loading")],
             "draft_version", calls[c].on, calls[c].text, calls[c].checks)

SaveSucceeds(c) ==
    /\ calls[c].st = "ok"
    /\ ui' = Rendered(Saved(c), calls[c].renewed /\ calls[c].policy = ui.sel, TRUE)
    /\ calls' = [calls EXCEPT ![c] = [NoCall EXCEPT !.st = "reload", !.policy = calls[c].policy]]
    /\ UNCHANGED <<backend, filing, removal, refresh, ruleLoad, typed, troubles>>

\* Mutant: only an answer of the backend is caught.
SaveFailsIfAnswered(c) ==
    /\ calls[c].st = "failed" /\ calls[c].on # None
    /\ calls' = [calls EXCEPT ![c] = NoCall]
    /\ ui' = [ui EXCEPT !.save = "save_error"]
    /\ UNCHANGED <<backend, filing, removal, refresh, ruleLoad, typed, troubles>>

SaveFails(c) ==
    /\ calls[c].st = "failed"
    /\ calls' = [calls EXCEPT ![c] = NoCall]
    /\ ui' = [ui EXCEPT !.save = "save_error"]
    /\ UNCHANGED <<backend, filing, removal, refresh, ruleLoad, typed, troubles>>

ReadReload(c) ==
    /\ calls[c].st = "reload"
    /\ calls' = [calls EXCEPT ![c].st = "reloaded", ![c].got = VersionsOf(calls[c].policy)]
    /\ UNCHANGED <<backend, ui, filing, removal, refresh, ruleLoad, typed, troubles>>

ShowReload(c) ==
    /\ calls[c].st = "reloaded"
    /\ calls' = [calls EXCEPT ![c] = NoCall]
    /\ ui' = Rendered(ShowsVersions(ui, calls[c].got, FALSE, calls[c].policy),
                      FALSE, calls[c].got.latest # None)
    /\ UNCHANGED <<backend, filing, removal, refresh, ruleLoad, typed, troubles>>

FailReload(c) ==
    /\ calls[c].st = "reload"
    /\ Trouble
    /\ calls' = [calls EXCEPT ![c] = NoCall]
    /\ Render([ui EXCEPT !.draft = None,
                    !.versions = NoVersions("error")])
    /\ UNCHANGED <<backend, filing, removal, refresh, ruleLoad, typed>>

-----------------------------------------------------------------------------
\* Submitting for review.

NoFiling == [ st |-> "none", on |-> None ]

\* policyEditorSubmitDisabledReason
submitDisabled(u) ==
    \/ reviewStatus(u) \in {"pending", "closed"}
    \/ u.source.kind # "draft_version" \/ selectedDraftVersion(u) = None
    \/ saveDisabled(u) \/ u.save \in {"save_error", "saving"} \/ u.submit = "submitting"
    \/ u.save # "saved" /\ u.submit # "success"

handleSubmitReview ==
    /\ ~submitDisabled(ui) /\ filing.st = "none"
    /\ filing' = [NoFiling EXCEPT !.st = "sent", !.on = selectedDraftVersion(ui)]
    /\ ui' = [ui EXCEPT !.submit = "submitting"]
    /\ UNCHANGED <<backend, calls, removal, refresh, ruleLoad, typed, troubles>>

ServeFiling ==
    /\ filing.st = "sent"
    /\ \/ /\ vers[filing.on].st = "draft"
          /\ vers' = [vers EXCEPT ![filing.on].st = "pending"]
          /\ filing' = [filing EXCEPT !.st = "ok"]
       \/ /\ vers[filing.on].st # "draft"
          /\ filing' = [filing EXCEPT !.st = "conflict"]
          /\ UNCHANGED vers
    /\ UNCHANGED <<exists, archived, stored, ui, calls, removal, refresh, ruleLoad, typed, troubles>>

LoseFiling ==
    /\ filing.st \in {"sent", "ok"}
    /\ Trouble
    /\ filing' = [filing EXCEPT !.st = "failed"]
    /\ UNCHANGED <<backend, ui, calls, removal, refresh, ruleLoad, typed>>

\* A conflict counts as success; the state that is set is replaced at once by the
\* load that follows.
FilingSucceeds ==
    /\ filing.st \in {"ok", "conflict"}
    /\ ui' = [ui EXCEPT !.submit = "success", !.review = NoReview]
    /\ filing' = [filing EXCEPT !.st = "reload"]
    /\ UNCHANGED <<backend, calls, removal, refresh, ruleLoad, typed, troubles>>

FilingFails ==
    /\ filing.st = "failed"
    /\ ui' = [ui EXCEPT !.submit = "error"]
    /\ filing' = NoFiling
    /\ UNCHANGED <<backend, calls, removal, refresh, ruleLoad, typed, troubles>>

ShowFiled ==
    /\ filing.st = "reload"
    /\ ui' = [ui EXCEPT !.review = [ on |-> filing.on, status |-> StateOf(filing.on) ]]
    /\ filing' = NoFiling
    /\ UNCHANGED <<backend, calls, removal, refresh, ruleLoad, typed, troubles>>

-----------------------------------------------------------------------------
\* Removing a policy, and replacing its record.

NoRemoval == [ st |-> "none", act |-> "none", policy |-> None ]

Lifecycle(act, p) ==
    /\ removal.st = "none"
    /\ removal' = [ st |-> "sent", act |-> act, policy |-> p ]
    /\ UNCHANGED <<backend, ui, calls, filing, refresh, ruleLoad, typed, troubles>>

\* deletePolicyDisabledReason
deletePolicyDisabled(u) ==
    \/ selectedPolicy(u) = None \/ selectedPolicy(u) \in u.list.old
    \/ u.versions.st = "loading" \/ u.versions.some

handleDeletePolicy ==
    ~deletePolicyDisabled(ui) /\ Lifecycle("delete", selectedPolicy(ui))

\* archivePolicyDisabledReason
archivePolicyDisabled(u) ==
    \/ selectedPolicy(u) = None \/ selectedPolicy(u) \in u.list.old
    \/ u.versions.st = "loading" \/ u.versions.active

handleArchivePolicy ==
    /\ ~archivePolicyDisabled(ui) /\ selectedPolicy(ui) \in Retired
    /\ Lifecycle("archive", selectedPolicy(ui))

handleMovePolicyToFolder(p) ==
    ui.list.st = "ready" /\ p \in ui.list.known /\ Lifecycle("move", p)

\* Mutant: the backend trusts the page, which has looked for versions.
DeletableUnchecked(p) == p \in exists

\* _require_policy_can_be_deleted
Deletable(p) == p \in exists \ archived /\ \A v \in VersionIds : vers[v].policy # p

\* archive_policy: only a version that is active by now stands in the way.
Archivable(p) == p \in exists /\ Newest(p, {"active"}) = None

ServeRemoval ==
    /\ removal.st = "sent"
    /\ LET p == removal.policy
           ok == CASE removal.act = "delete"  -> Deletable(p)
                   [] removal.act = "archive" -> Archivable(p)
                   [] OTHER                   -> p \in exists IN
        /\ removal' = [removal EXCEPT !.st = IF ok THEN "ok" ELSE "failed"]
        /\ exists' = IF ok /\ removal.act = "delete" THEN exists \ {p} ELSE exists
        /\ archived' = IF ok /\ removal.act = "archive" THEN archived \cup {p} ELSE archived
    /\ UNCHANGED <<vers, stored, ui, calls, filing, refresh, ruleLoad, typed, troubles>>

\* The editor is emptied, whatever it shows by now, and the policies are loaded.
DeleteSucceeds ==
    /\ removal.st = "ok" /\ removal.act = "delete"
    /\ loadPolicies
    /\ Render([NewEditor(ui) EXCEPT !.list.st = "loading"])
    /\ removal' = NoRemoval
    /\ typed' = FALSE
    /\ UNCHANGED <<backend, calls, filing, ruleLoad, troubles>>

\* A moved or archived policy's record is replaced, which loads it again if it is
\* the selected one.
RecordReplaced ==
    /\ removal.st = "ok" /\ removal.act \in {"move", "archive"}
    /\ LET p == removal.policy
           hit == selectedPolicy(ui) = p IN
        /\ ui' = Rendered([ui EXCEPT !.list = WithRecord(@, p, p \in archived)], hit, FALSE)
        /\ typed' = (typed /\ ~hit)
    /\ calls' = [c \in CallIds |-> [calls[c] EXCEPT
                    !.renewed = @ \/ (Saving(c) /\ calls[c].policy = removal.policy)]]
    /\ removal' = NoRemoval
    /\ UNCHANGED <<backend, filing, refresh, ruleLoad, troubles>>

RemovalFails ==
    /\ \/ removal.st = "failed" /\ UNCHANGED troubles
       \/ removal.st \in {"sent", "ok"} /\ Trouble
    /\ removal' = NoRemoval
    /\ UNCHANGED <<backend, ui, calls, filing, refresh, ruleLoad, typed>>

-----------------------------------------------------------------------------
\* The first load of the policies has been answered.
Init ==
    /\ vers = FirstVersion
    /\ exists = FirstPolicies /\ archived = {}
    /\ stored = [ v \in VersionIds |->
                    IF vers[v].st = "none" THEN {} ELSE {vers[v].text} ]
    /\ LET p == Oldest(exists) IN
       ui = [ list |-> [ st |-> "ready", known |-> exists, old |-> {} ], sel |-> p,
              versions |-> NoVersions("loading"),
              draft |-> None, text |-> "new", checks |-> FALSE, source |-> Local,
              save |-> "unsaved", submit |-> "idle", dirty |-> FALSE,
              preserve |-> None, saved |-> None, review |-> NoReview, asking |-> None,
              load |-> [NoLoad EXCEPT !.st = "sent", !.policy = p, !.hydrate = TRUE] ]
    /\ calls = [ c \in CallIds |-> NoCall ]
    /\ filing = NoFiling /\ removal = NoRemoval /\ ruleLoad = "none"
    /\ refresh = NoRefresh
    /\ typed = FALSE /\ troubles = 0 /\ clicks = 0

Loading ==
    \/ ReadPolicies \/ ShowPolicies \/ ReadVersions \/ ShowVersions
    \/ ShowRules \/ ShowRuleChecks \/ ShowSelectedRuleChecks
    \/ ShowReviewState

SaveStep(c) ==
    \/ ServeCreatePolicy(c) \/ ServeSave(c) \/ SaveSucceeds(c) \/ SaveFails(c)
    \/ ReadReload(c) \/ ShowReload(c)

Submitting == ServeFiling \/ FilingSucceeds \/ FilingFails \/ ShowFiled

Removing == ServeRemoval \/ DeleteSucceeds \/ RecordReplaced

Click ==
    \/ handleRefresh \/ handleNewPolicy \/ handleAddPolicyCheck \/ handleRemovePolicyCheck
    \/ handleValidate \/ handleSelectRule \/ handleSaveDraft \/ handleCreateNewDraftForChanges
    \/ handleSubmitReview \/ handleDeletePolicy \/ handleArchivePolicy
    \/ \E p \in Policies : handleSelectPolicy(p)
    \/ \E p \in Movable : handleMovePolicyToFolder(p)
    \/ \E t \in Typed : handleChangeCondition(t)

Failing ==
    \/ FailPolicies \/ FailVersions \/ FailRules \/ FailReviewState \/ LoseFiling
    \/ RemovalFails \/ \E c \in CallIds : LoseSave(c) \/ FailReload(c)

Next ==
    \/ Click /\ clicks < MaxClicks /\ clicks' = clicks + 1
    \/ /\ Loading \/ Submitting \/ Removing \/ Failing \/ OthersAct
          \/ \E c \in CallIds : SaveStep(c)
       /\ UNCHANGED clicks

Spec == Init /\ [][Next]_vars

\* Every request ends with an answer or an error, which the browser handles.
Fairness == \A c \in CallIds : WF_vars(SaveStep(c) /\ UNCHANGED clicks)

FairSpec == Spec /\ Fairness

-----------------------------------------------------------------------------
\* Properties.

TypeOK ==
    /\ archived \subseteq exists /\ exists \subseteq Policies
    /\ \A v \in VersionIds : vers[v].policy \in Policies \cup {None} /\ stored[v] \subseteq Texts
    /\ ui.sel \in Policies \cup {None} /\ ui.draft \in VersionIds \cup {None}
    /\ ui.text \in Texts /\ ui.checks \in BOOLEAN /\ ui.dirty \in BOOLEAN
    /\ ui.save \in {"unsaved", "saving", "saved", "save_error"}
    /\ ui.source.kind \in {"local_draft", "draft_version", "active_version", "live_fallback"}

\* A save never changes a draft of another policy than the one that was selected
\* when it was clicked, although the versions on the page may by then belong to
\* the policy of an earlier save.
WritesStayInPolicy ==
    \A c \in CallIds : Saving(c) /\ calls[c].on # None
        => vers[calls[c].on].policy = calls[c].policy

\* While the page says "saved" and names a version, that version has held the text
\* in the editor: what is typed while a save is in flight is not taken for saved.
SavedWasStored ==
    ui.save = "saved" /\ ui.source.id # None => ui.text \in stored[ui.source.id]

\* An answer about the versions never replaces what was typed, or typed and saved,
\* while it was on its way.
LateLoadKeepsTyping ==
    [][ ShowVersions /\ typed => ui'.text = ui.text /\ ui'.checks = ui.checks ]_vars

\* No version loses its policy: a policy is not deleted on the word of a page that
\* has not yet seen the draft another save has just made.
VersionsKeepTheirPolicy ==
    \A v \in VersionIds : vers[v].st # "none" => vers[v].policy \in exists

\* "Saving draft" ends, also when the policy is created and the draft is refused.
SavingEnds == ui.save = "saving" ~> ui.save # "saving"

\* What the blueprint says of the page: "Submit for review creates a
\* PolicyVersionReviewRequest for the saved draft."
SubmitsSavedDraft ==
    [][ handleSubmitReview => filing'.on = ui.source.id ]_vars

=============================================================================

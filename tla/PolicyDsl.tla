------------------------------ MODULE PolicyDsl ------------------------------
(***************************************************************************)
(* The editor of Policy Studio: one policy text with two views, Code DSL   *)
(* and canvas (apps/web/app/policies/policy-dsl.ts, policy-canvas.tsx and  *)
(* the editor handlers of policy-studio.tsx), and the policy checks that   *)
(* are authored beside it (policy-check-authoring.ts).                     *)
(*                                                                         *)
(* The text is the state.  The canvas shows what the text compiles to, and *)
(* every edit on the canvas prints the text anew.  A line of the text is   *)
(* what is left of it once it is split: a label, a value and the kind of   *)
(* line.  A condition gives every field a value, "" where it has none.     *)
(* check_target_type goes with check_type and check_target_id and is left  *)
(* out, as are the form of ids and what is saved beside the condition.     *)
(* The inventory that targets are chosen from is taken to be loaded, and   *)
(* the live rule to have no checks.                                        *)
(* Requests and reviews are the subject of PolicyStudio.                   *)
(***************************************************************************)
EXTENDS Naturals, FiniteSets, Sequences, SequencesExt

CONSTANTS
    CheckIds,   \* the checks of a draft
    MaxEdits,   \* bounds what the author does
    MaxLines,   \* bounds the lines of a text
    None

WHEN_FIELDS  == << "action_type" >>
CHECK_FIELDS == << "source_status", "check_type", "check_outcome", "check_target_id" >>
Shown        == ToSet(WHEN_FIELDS) \cup ToSet(CHECK_FIELDS)
Reference    == {"check_type", "check_outcome", "check_target_id"}

\* source_statuses stands for the fields that only the backend knows.
Fields  == Shown \cup {"decision", "reason", "source_statuses"}
Nothing == [f \in Fields |-> ""]

ASSUME FieldsAssumption == None \notin Fields

Decisions == {"allow", "deny", "require_human_review"}

\* What the author gives a field on the canvas; a text with quotes is one kind of
\* reason, the same text with the quotes escaped another.
Values ==
    [ action_type |-> {"transfer_data"}, source_status |-> {"active"},
      check_outcome |-> {"fail"}, decision |-> {"deny"}, reason |-> {"", "quoted"} ]

VARIABLES
    editor,   \* dsl, the slug of its policy and editorSource
    checks,   \* policyChecks
    rule,     \* backend: the condition of the live PolicyRule
    version,  \* backend: the draft PolicyVersion
    meant,    \* history: the condition that was printed last, if not edited since
    link,     \* history: the check that the rule was made to refer to
    edits     \* bound

editorVars == <<editor, checks, rule, version, meant, link, edits>>

Edit == edits < MaxEdits /\ edits' = edits + 1

-----------------------------------------------------------------------------
\* Printing.

FIELD_LABELS ==
    [ action_type |-> "action.type", source_status |-> "source.status",
      check_type |-> "check.type", check_outcome |-> "check.outcome",
      check_target_id |-> "check.target_id" ]

Expression(label, value) == [ kind |-> "expression", label |-> label, value |-> value ]
Then(decision, reason)   == [ kind |-> "then", label |-> decision, value |-> reason ]

\* The line of a field: none where it has no value.
Entry(c, f) == IF c[f] = "" THEN << >> ELSE << Expression(FIELD_LABELS[f], c[f]) >>

entriesForFields(c) ==
    Entry(c, WHEN_FIELDS[1])
        \o Entry(c, CHECK_FIELDS[1]) \o Entry(c, CHECK_FIELDS[2])
        \o Entry(c, CHECK_FIELDS[3]) \o Entry(c, CHECK_FIELDS[4])

isDataExfiltrationCondition(c) == c["action_type"] = "transfer_data" /\ c["decision"] = "deny"

dataExfiltrationPreventionDsl ==
    << Expression("AgentActionEvent.action", "transfer_data"),
       Expression("DLPContentCheck", "data_loss_prevention"),
       Expression("VolumeThresholdCheck", "below_threshold"),
       Then("deny", "unauthorized outbound transfer") >>

IsCanned(name, c) == name = "data_exfiltration_prevention" /\ isDataExfiltrationCondition(c)

\* The quotes of a reason are escaped, and parsing does not take that back.
conditionToDsl(name, c) ==
    IF IsCanned(name, c) THEN dataExfiltrationPreventionDsl
    ELSE entriesForFields(c)
            \o << Then(c["decision"], IF c["reason"] = "quoted" THEN "escaped" ELSE c["reason"]) >>

-----------------------------------------------------------------------------
\* Parsing.

\* Mutant: the label of a field is not an alias of it.
FIELD_ALIASES_Unlabelled ==
    [ label \in {"action.type", "check.type", "check.outcome", "check.target_id"} |->
        CHOOSE f \in Shown : FIELD_LABELS[f] = label ]

FIELD_ALIASES ==
    [ label \in {"action.type", "source.status", "check.type", "check.outcome",
                 "check.target_id", "AgentActionEvent.action", "DLPContentCheck",
                 "VolumeThresholdCheck"} |->
        CASE label = "AgentActionEvent.action" -> "action_type"
          [] label = "DLPContentCheck"         -> "check_type"
          [] label = "VolumeThresholdCheck"    -> "check_outcome"
          [] OTHER -> CHOOSE f \in Shown : FIELD_LABELS[f] = label ]

resolveField(label) ==
    CASE label \in DOMAIN FIELD_ALIASES            -> FIELD_ALIASES[label]
      [] label \in Shown \cup {"decision", "reason"} -> label
      [] OTHER                                     -> None

\* A line of the form "then" gives the decision and its reason.
IsAbout(line, f) ==
    \/ line.kind = "then" /\ line.label \in Decisions /\ f \in {"decision", "reason"}
    \/ line.kind = "expression" /\ resolveField(line.label) = f

ValueFor(line, f) == IF line.kind = "then" /\ f = "decision" THEN line.label ELSE line.value

\* The last line about a field counts.
ValueIn(dsl, f) ==
    LET about == { i \in DOMAIN dsl : IsAbout(dsl[i], f) }
    IN  IF about = {} THEN "" ELSE ValueFor(dsl[Max(about)], f)

parsePolicyDslToPolicyRule(dsl) ==
    LET c == [f \in Fields |-> ValueIn(dsl, f)] IN
    [ condition   |-> [c EXCEPT !["decision"] = IF @ = "" THEN "require_human_review" ELSE @],
      errors      |-> c["reason"] = "",
      unsupported |-> \E i \in DOMAIN dsl : \A f \in Fields : ~IsAbout(dsl[i], f) ]

defaultCondition ==
    [Nothing EXCEPT !["decision"] = "require_human_review", !["reason"] = "default"]

parsed == parsePolicyDslToPolicyRule(editor.dsl)

\* What canvas and inspector work on: the default while the text does not compile.
condition ==
    LET result == parsed IN IF result.errors THEN defaultCondition ELSE result.condition

-----------------------------------------------------------------------------
\* Checks.

NoCheck == [ type |-> "none", target |-> "", outcome |-> "pass" ]

Authored(cs) == { k \in CheckIds : cs[k] # NoCheck }
NoChecks == [k \in CheckIds |-> NoCheck]

CheckTypes == {"source_status", "capability_status"}
policyCheckTargetOptions(type) == IF type = "source_status" THEN {"s1", "s2"} ELSE {"c1"}

isPolicyCheckConditionLinked(c, check) ==
    /\ c["check_type"] = check.type /\ c["check_outcome"] = check.outcome
    \* Without a target the condition has no check_target_id, which is not "".
    /\ c["check_target_id"] = check.target /\ check.target # ""

applyPolicyCheckCondition(c, check) ==
    [c EXCEPT !["check_type"] = check.type, !["check_outcome"] = check.outcome,
              !["check_target_id"] = check.target]

conditionWithoutCheckResultReference(c) == [f \in Fields |-> IF f \in Reference THEN "" ELSE c[f]]

\* Mutant: any check of the type will do.
validatePolicyChecksByType(cs, c) ==
    /\ \A k \in Authored(cs) : cs[k].target \in policyCheckTargetOptions(cs[k].type)
    /\ \A k, l \in Authored(cs) :
            cs[k].type = cs[l].type /\ cs[k].target = cs[l].target => k = l
    /\ Authored(cs) # {} /\ (c["check_type"] # "" \/ c["check_outcome"] # "")
            => \E k \in Authored(cs) : c["check_type"] = cs[k].type

\* Targets of the inventory, no check twice, and no reference to another check.
validatePolicyChecks(cs, c) ==
    /\ \A k \in Authored(cs) : cs[k].target \in policyCheckTargetOptions(cs[k].type)
    /\ \A k, l \in Authored(cs) :
            cs[k].type = cs[l].type /\ cs[k].target = cs[l].target => k = l
    /\ Authored(cs) # {} /\ (c["check_type"] # "" \/ c["check_outcome"] # "")
            => \E k \in Authored(cs) : isPolicyCheckConditionLinked(c, cs[k])

-----------------------------------------------------------------------------
\* What is opened in the editor.

\* The check that a stored condition refers to.
Referenced(c, cs) ==
    LET S == { k \in Authored(cs) : isPolicyCheckConditionLinked(c, cs[k]) }
    IN  IF \E k \in S : S = {k} THEN CHOOSE k \in S : TRUE ELSE None

Opened(name, kind, c) == [ name |-> name, source |-> kind, dsl |-> conditionToDsl(name, c) ]

Open(name, kind, c, cs) ==
    /\ editor' = Opened(name, kind, c)
    /\ checks' = cs
    /\ meant' = c /\ link' = Referenced(c, cs)
    /\ Edit

\* The templates, with their conditions: one has a text of its own.
POLICY_TEMPLATES ==
    { [ name |-> "data_exfiltration_prevention",
        condition |-> [Nothing EXCEPT !["decision"] = "deny", !["reason"] = "plain",
            !["action_type"] = "transfer_data", !["source_status"] = "active",
            !["check_type"] = "data_loss_prevention", !["check_outcome"] = "pass"] ],
      [ name |-> "require_active_grant",
        condition |-> [Nothing EXCEPT !["decision"] = "require_human_review",
            !["reason"] = "plain", !["check_type"] = "source_status",
            !["check_outcome"] = "pass"] ] }

handleUseTemplate ==
    /\ \E t \in POLICY_TEMPLATES : Open(t.name, "local_draft", t.condition, NoChecks)
    /\ UNCHANGED <<rule, version>>

handleSelectRule ==
    /\ Open(editor.name, "live_fallback", rule, NoChecks)
    /\ UNCHANGED <<rule, version>>

hydrateEditorFromPolicyVersion ==
    /\ Open(version.name, "draft_version", version.condition, version.checks)
    /\ UNCHANGED <<rule, version>>

-----------------------------------------------------------------------------
\* Code DSL.

CodeLines ==
    { Expression("check.outcome", "fail"), Expression("source.owner", "x"), Then("deny", "") }

onChangeDsl(dsl) ==
    /\ editor' = [editor EXCEPT !.dsl = dsl]
    /\ meant' = None /\ link' = None
    /\ Edit
    /\ UNCHANGED <<checks, rule, version>>

AddLine ==
    /\ Len(editor.dsl) < MaxLines
    /\ \E line \in CodeLines : onChangeDsl(Append(editor.dsl, line))

RemoveLine == \E i \in DOMAIN editor.dsl : onChangeDsl(RemoveAt(editor.dsl, i))

-----------------------------------------------------------------------------
\* Canvas.

SetDsl(c) ==
    /\ editor' = [editor EXCEPT !.dsl = conditionToDsl(editor.name, c)]
    /\ meant' = c

handleChangeCondition(c, field) ==
    /\ SetDsl(c)
    /\ link' = IF field \in Reference \/ parsed.errors THEN None ELSE link
    /\ Edit
    /\ UNCHANGED <<checks, rule, version>>

defaultReasonForDecision == "default"

\* A block of the canvas, or one that is added with a value of its own.
updateConditionField(field) ==
    \E value \in Values[field] :
        LET c == [condition EXCEPT ![field] = value] IN
        handleChangeCondition(
            IF field = "decision" /\ c["reason"] = ""
            THEN [c EXCEPT !["reason"] = defaultReasonForDecision] ELSE c, field)

\* The blocks of a condition that can be edited: those of the data exfiltration
\* template have no field.
policyBlocksFromCondition ==
    IF isDataExfiltrationCondition(condition) THEN {}
    ELSE { f \in Shown : condition[f] # "" }

removeConditionField(field) ==
    /\ field \in policyBlocksFromCondition
    /\ handleChangeCondition([condition EXCEPT ![field] = ""], field)

-----------------------------------------------------------------------------
\* The check inspector.

\* Two checks that are the same share a reference, and it may follow either.
Twins(cs) == \E k, l \in Authored(cs) : k # l /\ cs[k] = cs[l]

CheckEdit(cs, linked) ==
    /\ checks' = cs
    /\ link' = IF linked = None \/ Twins(cs) THEN None ELSE linked
    /\ Edit
    /\ UNCHANGED <<rule, version>>

handleAddPolicyCheck ==
    /\ \E k \in CheckIds \ Authored(checks) :
        CheckEdit([checks EXCEPT ![k].type = "source_status"], link)
    /\ UNCHANGED <<editor, meant>>

handleUpdatePolicyCheck(k, next) ==
    /\ CheckEdit([checks EXCEPT ![k] = next], link)
    /\ IF isPolicyCheckConditionLinked(condition, checks[k])
       THEN SetDsl(applyPolicyCheckCondition(condition, next))
       ELSE UNCHANGED <<editor, meant>>

updatePolicyCheckType(k) ==
    \E type \in CheckTypes \ {checks[k].type} :
        handleUpdatePolicyCheck(k, [checks[k] EXCEPT !.type = type, !.target = ""])

updatePolicyCheckTarget(k) ==
    \E target \in policyCheckTargetOptions(checks[k].type) \ {checks[k].target} :
        handleUpdatePolicyCheck(k, [checks[k] EXCEPT !.target = target])

updatePolicyCheckExpectedOutcome(k) ==
    \E outcome \in {"pass", "fail"} \ {checks[k].outcome} :
        handleUpdatePolicyCheck(k, [checks[k] EXCEPT !.outcome = outcome])

\* The button needs a target.
handleLinkPolicyCheckCondition(k) ==
    /\ checks[k].target # ""
    /\ SetDsl(applyPolicyCheckCondition(condition, checks[k]))
    /\ CheckEdit(checks, k)

handleRemovePolicyCheck(k) ==
    /\ CheckEdit([checks EXCEPT ![k] = NoCheck], IF link = k THEN None ELSE link)
    /\ IF isPolicyCheckConditionLinked(condition, checks[k])
       THEN SetDsl(conditionWithoutCheckResultReference(condition))
       ELSE UNCHANGED <<editor, meant>>

-----------------------------------------------------------------------------
\* Saving.

selectedRuleUnsupportedFields ==
    editor.source = "live_fallback" /\ rule["source_statuses"] # ""

saveDisabledReason ==
    \/ parsed.errors \/ parsed.unsupported
    \/ selectedRuleUnsupportedFields
    \/ ~validatePolicyChecks(checks, condition)

\* The draft that was saved is opened again.
handleSaveDraft ==
    /\ ~saveDisabledReason
    /\ version' = [ name |-> editor.name, condition |-> parsed.condition, checks |-> checks ]
    /\ Open(editor.name, "draft_version", parsed.condition, checks)
    /\ UNCHANGED rule

-----------------------------------------------------------------------------
\* What is said about the text: the tones of the messages in the console, among
\* those that depend on the text and its checks.

HasAny(c, fields) == \E i \in DOMAIN fields : c[fields[i]] # ""

\* A warning about a text that does not compile, or about nothing, asks for attention.
localValidationMessages(result) ==
    LET when     == HasAny(result.condition, WHEN_FIELDS)
        check    == HasAny(result.condition, CHECK_FIELDS)
        warnings == result.unsupported \/ ~when \/ ~check IN
    { IF result.errors \/ result.unsupported THEN "blocking" ELSE "success" }
    \cup (IF warnings /\ (result.errors \/ (~when /\ ~check)) THEN {"attention"} ELSE {})

\* Checks that the rule does not refer to only collect evidence.
policyCheckMessages ==
    IF ~validatePolicyChecks(checks, condition) THEN {"blocking"}
    ELSE IF Authored(checks) # {} /\ \A k \in Authored(checks) :
                                        ~isPolicyCheckConditionLinked(condition, checks[k])
         THEN {"attention"} ELSE {}

studioStateMessages ==
    IF selectedRuleUnsupportedFields \/ saveDisabledReason THEN {"blocking"} ELSE {}

validationMessages ==
    localValidationMessages(parsed) \cup policyCheckMessages \cup studioStateMessages

CompileBar ==
    LET tones == validationMessages IN
    IF "blocking" \in tones THEN "fix"
    ELSE IF "attention" \in tones THEN "warning"
    ELSE "ready"

\* The pills of the compile bar.
compilePolicyRulePreview ==
    LET result == parsed IN
    IF result.errors THEN [ checkFields |-> {}, decision |-> "uncompiled" ]
    ELSE [ checkFields |-> { f \in ToSet(CHECK_FIELDS) : result.condition[f] # "" },
           decision    |-> result.condition["decision"] ]

\* The decisions among the blocks of the data exfiltration template, which are the
\* same whatever the condition says besides.
dataExfiltrationBlocks == {"deny", "require_human_review"}

DecisionsOnCanvas ==
    IF isDataExfiltrationCondition(condition) THEN dataExfiltrationBlocks
    ELSE {condition["decision"]}

-----------------------------------------------------------------------------
\* What is stored: by this editor, or with more fields by another client.
Plain(more) ==
    [Nothing EXCEPT !["decision"] = "require_human_review", !["reason"] = "plain",
                    !["action_type"] = "external_api_call", !["source_statuses"] = more]

Checked == [ type |-> "source_status", target |-> "s1", outcome |-> "pass" ]

Drafts ==
    { [ name |-> "policy", condition |-> Plain(more), checks |-> NoChecks ] :
        more \in {"", "active"} }
    \cup { [ name |-> "policy", condition |-> applyPolicyCheckCondition(Plain(""), Checked),
             checks |-> [NoChecks EXCEPT ![CHOOSE k \in CheckIds : TRUE] = Checked] ] }

\* The editor has opened the draft.
EditorInit ==
    /\ rule \in {Plain(""), Plain("active")}
    /\ version \in Drafts
    /\ editor = Opened(version.name, "draft_version", version.condition)
    /\ checks = version.checks
    /\ meant = version.condition /\ link = Referenced(version.condition, version.checks)
    /\ edits = 0

EditorNext ==
    \/ handleUseTemplate \/ handleSelectRule \/ hydrateEditorFromPolicyVersion
    \/ AddLine \/ RemoveLine
    \/ \E f \in DOMAIN Values : updateConditionField(f)
    \/ \E f \in Shown : removeConditionField(f)
    \/ handleAddPolicyCheck
    \/ \E k \in Authored(checks) :
        \/ updatePolicyCheckType(k) \/ updatePolicyCheckTarget(k)
        \/ updatePolicyCheckExpectedOutcome(k)
        \/ handleLinkPolicyCheckCondition(k) \/ handleRemovePolicyCheck(k)
    \/ handleSaveDraft

EditorSpec == EditorInit /\ [][EditorNext]_editorVars

-----------------------------------------------------------------------------
\* Properties.

\* Left out: the text of the data exfiltration template, fields that the editor
\* does not know, reasons with quotes and reasons that are empty.
Expressible(c) ==
    /\ ~IsCanned(editor.name, c)
    /\ c["source_statuses"] = "" /\ c["reason"] \notin {"", "quoted"}

\* What the canvas, the inspector or a stored snapshot puts into the text is what
\* the text compiles to.
CanvasAndCodeAgree ==
    meant # None => (Expressible(meant) => parsed.condition = meant)

\* The compile bar asks for a fix exactly when the draft cannot be saved, its decision
\* is one that the canvas shows, and the fields for which it says that checks are
\* used are those that the canvas has blocks for.
CompileBarIsRight ==
    LET pills == compilePolicyRulePreview IN
    /\ CompileBar = "fix" <=> saveDisabledReason
    /\ pills.decision \in DecisionsOnCanvas \cup {"uncompiled"}
    /\ pills.decision # "uncompiled" /\ ~isDataExfiltrationCondition(condition)
          => pills.checkFields = policyBlocksFromCondition \cap ToSet(CHECK_FIELDS)

\* A step: the reference that the author has made to a check is to that check when the
\* draft is saved, whatever was changed about this and other checks meanwhile -
\* unless it was edited itself, or the canvas while the text did not compile.
LinkIsKept ==
    version' # version /\ link # None /\ ~IsCanned(editor.name, condition)
        => isPolicyCheckConditionLinked(version'.condition, version'.checks[link])

\* Backend condition fields that the editor does not know are not "dropped by a
\* form-style editor".
BackendFieldsAreKept ==
    [][ version' # version /\ editor.source = "draft_version"
            => version'.condition["source_statuses"] = version.condition["source_statuses"] ]_editorVars

\* "Blocks mode and Code DSL mode are two views of the same supported condition
\* surface" (docs/POLICY_STUDIO_DSL_DESIGN.md): for every supported field that the
\* code sets the canvas has a block, as long as the code is the canvas's own.
BlocksShowTheCode ==
    meant # None /\ ~isDataExfiltrationCondition(condition) =>
        \A i \in DOMAIN editor.dsl : \A field \in Shown :
            IsAbout(editor.dsl[i], field) => field \in policyBlocksFromCondition

=============================================================================

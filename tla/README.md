# A TLA+ model of the Agent Governance Control Plane

This directory models the control plane as TLA+ modules - the backend
(`apps/api`), the clients that ask it for decisions, and the pages of the console
(`apps/web`) - checks them with TLC on small instances, and proves central safety
properties with TLAPS for every instance. Names of Python files without a path are
those of `apps/api/src/agent_governance_api/`, of TypeScript files those of
`apps/web/app/`.

## 1. The system

The control plane decides whether an agent may call a tool. Policies are
written, reviewed, activated as versions, and evaluated when the agent's runtime
asks; a decision may wait for a human. Every step leaves an audit entry.

| Part | State it keeps | Operations | Talks to |
|---|---|---|---|
| Policy versions (`policy_versions.py`) | `policy_versions` | create, draft, update, submit, approve, reject, activate, archive, two rollbacks | review requests, audit; read by the evaluator |
| Review requests (`policy_version_review_requests.py`) | `policy_version_review_requests` | request, assign, approve, reject, activate; diff and evidence are read-only | policy versions, audit |
| Runtime gateway (`runtime_gateway_api.py`) | `agent_runs`, `trace_events`, `policy_decisions`, `human_approvals` | decide, resume | evaluator, approvals, audit; called by wrappers |
| Human approvals (`human_approvals.py`) | `human_approvals` | create, approve, reject, cancel | read by resume |
| Telemetry (`telemetry_api.py`) | the same tables as the gateway | ingest | evaluator |
| Evaluator (`policy_evaluator.py`, `policy_rule_adapter.py`) | none | match rules, rank results, prefer active snapshots | policy versions, live rules |
| Pre-checks (`policy_pre_checks.py`, `runtime_metadata_pre_checks.py`, `check_tools.py`) | `check_tools`, `check_results` | run metadata checks | evaluator |
| Policies, rules, check steps, live-edit guard, folders | the live rules | CRUD, archive, delete | policy versions (guards) |
| Access grants (`access_grants.py`) | `access_grants` | create, patch, suspend, reactivate, revoke, expire | inventory context |
| Agents, capabilities, sources, model assets | inventory rows | CRUD | grants, inventory context |
| Service actors and auth (`auth.py`, `service_actors.py`, registry) | actors, keys, scopes | authenticate, authorise | every handler |
| Evidence, activity, governance profile | none | read-only projections | every table |
| Runtime wrappers (`docs/examples`, `examples/langgraph_helper`) | the blocked call | ask, retry, execute, resume | gateway |
| Review inbox (`human-approvals/review-inbox.tsx`) | loads, the list, one action | load, decide, assign, activate | both kinds of reviews |
| Policy Studio (`policies/policy-studio.tsx`, inspector, repository) | selection, editor, draft, versions, lifecycle | select, edit, save, submit, archive, delete, move | policies, versions, review requests |
| Policy editor (`policy-dsl.ts`, canvas, `policy-check-authoring.ts`) | a text and the checks of a draft | print, compile, edit on canvas or in code, link a check | Policy Studio |
| Policy folders (`policy-repository.tsx`, `policy_folders.py`) | folders, the folder of a policy | create, rename, delete, move | policies |
| Access & Data (`access-data/access-inventory-matrix.tsx`) | five lists, selection, note, message | load, filter, suspend, revoke, reactivate, expire | access grants, sources, models |
| Agent form (`agents/agent-governance-form.tsx`, its steps) | values, proposals, one submission | edit, validate, save, declare grants, retry | agents, grants |
| Older screens (`access-data/access-grants-workflow.tsx`, `sources-workflow.tsx`, `human-approvals/policy-reviews-list.tsx`, `human-approvals-list.tsx`) | a list, what each row or action is doing | load, filter, transition, select a source, decide, assign, roll back | grants, sources, review requests, approvals; mounted by no route |
| Overview, agents, agent, runtime, integrations, evidence, shell | what was read for the page | load, select, look up | read-only endpoints |

### How it runs, and what is hard about it

FastAPI runs each handler in a thread of a pool; each has its own SQLAlchemy
session (`database.py`, `autoflush=False`, `expire_on_commit=False`) and
transaction. PostgreSQL runs at READ COMMITTED. Nothing takes a row lock, no
table has a version column, and `IntegrityError` is caught nowhere. So:

* a handler is a sequence of SELECTs, each of a possibly different database
  state, then one commit that UPDATEs rows by primary key;
* a guard is evaluated on the row as it was read, and the UPDATE overwrites
  whatever the row has become (a lost update);
* what holds under concurrency holds because of a unique index: one active
  version per policy, one number per policy and version, one pending request per
  version, one trace per agent, run and external id, one run per agent and run id;
* a handler that fails rolls back all of its writes, audit entries included.

The console runs in one browser thread, so that code up to an `await` is one step;
what makes it hard is what may happen before the answer comes:

* most buttons and all inputs stay enabled while a request is under way, and a
  handler goes on after its await with the state it has closed over;
* most loads are not aborted or numbered, so that an older answer may replace a
  newer one, and other users change the rows meanwhile;
* effects that run after a render (a selection that has left the list, a note that
  belongs to another grant) run in the order React gives them;
* a handler sends several requests one after the other (an agent and its grants, a
  policy and its draft, a decision and a reload), each of which may fail, and may
  fail after the backend has committed.

The hazards, each at its line with the properties that are about it, are listed
in `PROJECT.json`.

## 2. Modules

| Module | What it is |
|---|---|
| `PolicyVersions` | versions and review requests: every writing endpoint, as interleaved handlers |
| `ActivationContract` | abstract: the version the runtime prefers always has an approval on record |
| `VersionLifecycle` | abstract: the lifecycle as a client is told it, one atomic step per endpoint |
| `PolicyVersionsProofs` | the theorems about `PolicyVersions` |
| `PolicyVersionsRefinement` | the proof that it implements `ActivationContract` |
| `MCPolicyVersions` | endpoint sets and symmetry for its TLC instances |
| `RuntimeGateway` | decision and resume endpoints, human approvals, telemetry, as interleaved handlers |
| `MCRuntimeGateway` | the requests that clients send, and symmetry, for its TLC instances |
| `RuntimeGatewayProofs` | the theorems about `RuntimeGateway` |
| `RuntimeAdapter` | the generic client wrapper, composed with `RuntimeGateway` |
| `GovernedExecution` | abstract: a tool runs at most once and only as decided or approved |
| `RuntimeAdapterProofs` | the proof that wrappers and gateway implement `GovernedExecution` |
| `MCRuntimeAdapter` | calls, ids and telemetry for its TLC instances |
| `ReviewInbox`, `MCReviewInbox` | the inbox page, the reviews behind it, colleagues |
| `ReviewInboxProofs` | the theorems about `ReviewInbox` |
| `PolicyStudio`, `MCPolicyStudio` | the Policy Studio page, policies and versions behind it, reviewers |
| `PolicyStudioProofs` | the theorems about `PolicyStudio` |
| `PolicyDsl`, `MCPolicyDsl` | the editor: text, canvas, checks |
| `PolicyFolders`, `MCPolicyFolders` | the folder pane and the endpoints behind it |
| `AccessInventory` | the grants of Access & Data, and the transitions of the backend |
| `InventoryLists` | the other lists of that page and the readiness derived from them |
| `AgentForm` | registering and editing an agent with its grants |
| `RecordPages` | the pages that only read, under the shell |
| `GrantsWorkflow`, `GrantStatuses` | the older table of access grants; the two tables of statuses it shares with `AccessInventory` |
| `SourcesWorkflow` | the older review of a source: its usage profile and its grants |
| `ApprovalsList` | the older list of approvals with its status filter |
| `PolicyReviews` | the older queue of policy reviews: decide, assign, activate, roll back |
| `Console`, `MCConsole` | the editor and the nine parts above as the pages of one browser |
| `AccessInventoryProofs`, `ConsoleProofs` | theorems about the grants, of the page and of the console |


### PolicyVersions

`version`, `request` and `audit` are the three tables; `session[w]` is the
handler that thread `w` is inside and what its session has read.

* A handler starts with `ReadPolicy`, `ReadVersion`, `ReadPendingRequest` or
  `ReadApprovedRequest`: `session.get` of its first row, with the guards on that
  row and on the caller. A guard that fails there has changed nothing and is no
  step.
* `ReadReviewedVersion`, `CheckNoPendingRequest`, `CheckNoOtherActive`,
  `FindVersionToReplace` and `ReadNextNumber` are the further SELECTs; a guard
  that fails there ends the handler.
* Each endpoint then has one action for its transaction (`CreateVersion`,
  `RollbackVersion`, `UpdateDraft`, `SubmitForReview`, `ApproveVersion`,
  `RejectVersion`, `ActivateVersion`, `ArchiveVersion`, `RequestReview`,
  `AssignReviewer`, `ApproveRequest`, `RejectRequest`, `ActivateFromRequest`),
  which writes rows and audit entries together, or nothing if a unique index
  refuses the result (`WriteVersions`, `WriteRequests`).
* `Abandon` is a lost connection or a crash before the commit.

SELECTs of rows or columns that never change (a request's version, a version's
policy) are not steps of their own. The ORM writes only columns that differ from
what was read, so an update of a draft to the content it already had writes no
content. A snapshot is an element of `Contents`; how it is built is not modelled.
The audit log is a set of the entries' fields that a property reads.

### RuntimeGateway

`runs`, `trace`, `approval` and `audit` are the tables (`policy_decisions` is
folded into `trace`: a decision is only inserted with its event). `session[w]` is
the handler of thread `w`; `replies` holds the responses that were sent.

* `ReceiveDecision`, `ReceiveResume` and `ReceiveTelemetry` are the guards and the
  lookup by run and external id. What is on record is answered from the record,
  after a further SELECT for the approval (`ReplayDecision`) or for the resume
  event (`LookUpResume`).
* `CommitDecision`, `CommitResume` and `CommitTelemetry` are the transactions:
  event, decision, approval and audit entry together, or an error if
  `uq_trace_events_external_event_per_run` or `uq_agent_runs_agent_run` refuses.
* An evaluation yields any decision or fails; a failure goes through
  `EffectiveDefault` and `FailureDecision`.
* `ReadPendingApproval` checks status and caller; `ApproveApproval`,
  `RejectApproval` and `CancelApproval` commit. `PassDue` is the clock reaching
  `expires_at`, which no code reads.

A request is any element of `Incoming`, sent at any time and any number of times:
that covers retries, duplicates and reordering. A response is never removed from
`replies`, which makes "every answer ever given" a state property. Telemetry
producers are taken to be honest: their metadata does not hold the fields that
the gateway writes itself, and an event type other than `tool_call_requested` is
just "other". Callers pass authentication and scope checks.

### RuntimeAdapter

`docs/examples/generic_runtime_adapter_example.py` over `RuntimeGateway`. `call[c]`
says where the wrapper of a call is, `wire` holds requests the gateway has not
received. `Run` and `Resume` start the loop of attempts; an attempt has its own
connection, so a late answer to an abandoned attempt is nobody's. `HandleError`
retries every response with an error status (`HTTPError` is an `OSError`);
`Timeout` may come at any time, also while the gateway is at work. Ids are the
tuples that `stable_request_id` and `stable_resume_id` hash. With `AwaitsReview`
the application asks for the approval's status before it resumes
(`HUMAN_APPROVAL_RESUME_PATTERN.md`), without it it just tries. The wrapper keeps
nothing on disk: a crash of the application forgets the call and is not modelled.

Fairness (`Fairness`): a wrapper inside a call acts on an answer, an error or its
timeout (`timeout_seconds` is always passed to `urlopen`); the application returns
to a reviewed call; a request waiting for a thread gets one in the end, by strong
fairness, since the pool serves requests in order while others keep arriving; a
thread inside a handler goes on. Calls and reviews need not happen. Premature
timeouts and lost handlers are bounded by `MaxFaults`: with unbounded faults
nothing would ever have to finish. A timeout of a request that is truly lost costs
nothing.

### The pages

In every module of a page a handler runs up to its `await` in one step and again
when its answer comes; what React's effects do after a render belongs to the step
that caused the render (`Settle` in `AccessInventory`, `Rendered` in
`PolicyStudio`, `ProfileEffect` in `RecordPages`). The backend serves a request in
a step of its own, unless nothing can come between that and its answer. `troubles`
counts lost requests, lost answers and what other users do.

* `ReviewInbox`: `item` is the backend's row of each request or approval, `loads`
  the loads under way, each with four status queries that are answered one by one.
  `Clicks` are the buttons, `HandlerResumes` is what follows a POST.
* `PolicyStudio`: `ui` is the page, `exists`, `archived`, `vers` and `stored` the
  backend (the last with every text a version has held), `calls` the saves under way,
  `filing` the submission. `PolicyEffect` and `DraftEffect` are the two effects. A text
  is one of few: what the editor does with it is in `PolicyDsl`. A move and an archive
  replace the record of a policy, and so does a save with the record it has read
  before (`RecordReplaced`, `WithRecord`).
* `PolicyDsl`: a text is a sequence of lines, each a label with a value. `condition`
  is what it compiles to, `conditionToDsl` what the canvas prints. Five fields stand
  for all, one of them for those that only the backend knows. `meant` and `link`
  remember what the canvas, or the check inspector, was told last. `CompileBar` and
  `compilePolicyRulePreview` are what is said about the text. The inventory of
  targets is taken to be loaded, and a live rule to have no checks.
* `PolicyFolders`: `exists` and `folderOf` are the backend, `requests` the request
  of each kind that is under way, and an endpoint that reads before it writes takes
  two steps. **At this commit `lib/policies.ts` exports none of the folder requests
  (`createPolicyFolder` and the others) that `policy-studio.tsx` imports**, so that
  the front end does not type-check and each such call would throw; the handlers
  catch that. `scripts/smoke.mjs:715` looks for the names in `policy-studio.tsx`
  only. The model takes them to be the calls the two sides expect, which may also
  fail.
* `AccessInventory`: `status` is the backend, the rest the page. The search box
  filters as the status filter does and is left out.
* `InventoryLists`: `rounds` are the loads, which Refresh may repeat while one is
  under way; the profiles are asked for one by one when the sources are there.
* `AgentForm`: a request and what follows it is one step here, since the buttons are
  disabled meanwhile, but the inputs are not: `sub` is what the submission closed
  over, `ui` what is in the form by now.
* `RecordPages`: `path` is the page, `asks` the shell's requests, `parts` those of
  the page, which are aborted when it is left. Of the overview's eight reads any
  subset may fail (one trouble, as one outage is), and its panels are operators over
  what is left. The actor and the inventory of check targets that Policy Studio reads
  are two parts of a page here, since nothing in `PolicyStudio` waits for them.
* `GrantsWorkflow`: `standing` is the backend, `said` what each row shows, `sends` the
  transitions, each with the refresh that follows. `Render` makes a row that leaves
  the table forget what it was doing, so that it can be acted on a second time when it
  is back: `blurred` is set then too.
* `SourcesWorkflow`: `visits` are the clicks on a source, each with two requests that
  nothing aborts.
* `ApprovalsList`: `queries` are the loads; another filter aborts the one before.
* `PolicyReviews`: `posts` are the POSTs, `gets` the loads of two queries each, `says`
  the three messages, each of which is the lock of its own kind of action.

`Console` composes the parts that have no run of their own: the browser mounts one page at a time
(`layout.tsx`), the pages share no state, and leaving a page forgets its state. So
its initial state chooses the page and `Next` is the next-state relation of that
page: what the composition shows of a page is what its own specification allows,
and the product of ten independent state spaces, which no property could use, is
not explored.

Fairness of the pages is that of the browser and the network: every request is
answered or fails in the end (`fetch` rejects when the connection is lost), and
the browser runs what waits for it. Nobody has to click. `MaxTroubles` bounds
failures so that the instance is finite, not for liveness: every failure ends what
waited for it. Each part of the console has its own weak fairness condition, over its
own variables, on the disjunction of its answers; evidence has one of its own, since
it can be asked for without end.


## 3. Runs

The adapter's run and those of the pages assume fairness; the other properties are
safety properties. Deadlock is checked in every run but those that say otherwise
below.

| Run | Instance | What it shows |
|---|---|---|
| `versions_serial` | 1 thread, all endpoints, 2 versions, 1 request, 2 contents | the API as a client alone sees it: implements `VersionLifecycle`; decisions are final; only the assignee or an administrator decides |
| `versions_race` | 2 threads, both ways to activate, 2 versions, 1 request | `OneActivePerPolicy`, `ActiveVersionWasApproved`, and the refinement `ImplementsContract`, under every interleaving; nobody's own approval activates their request |
| `versions_numbering` | 2 threads, 2 policies, 3 versions | numbers stay consecutive although read before they are used |
| `doc_reviewed_content` | 1 thread, review endpoints | violated: see section 5 |
| `gateway_race` | 2 threads, one call, its resume, telemetry under both ids, 2 approvals | every answer given agrees with the committed records; a call that waits for review has an approval to wait for; a resume that allows was approved, by somebody who may |
| `gateway_serial` | 1 thread, `record_only`, both modes, all reviewer operations, 3 resume requests of which two mix up calls | a resume that allows was approved for that call, by somebody who may; enforcement always gets a recorded decision; decided approvals are final |
| `doc_only_reviews_resumed` | 1 thread, 1 approval | violated |
| `adapter` | 1 call, 2 attempts, 2 threads, 2 faults, approve and reject, telemetry under the call's id, 3 connections | refinement of `GovernedExecution`; every call returns; a call approved without dispute runs |
| `inbox` | 1 reviewer, 1 colleague, a review request and an approval, 3 loads, 1 trouble | a success that is shown was recorded for that item; one action at a time although Refresh brings the buttons back; what was decided here is not offered again; Mine is what can be decided; a load that mixes four moments shows the latest seen; loading ends |
| `studio` | 5 policies in different states of which one may be archived, 4 versions, 3 clicks of each kind, 2 saves in flight, 1 trouble; 735,000 states, 1 to 3 minutes | a save writes a draft of its own policy only; what is shown as saved was stored; no version loses its policy; late versions replace no typing; saving ends |
| `console` | 2 grants, 2 sources of which 1 has a profile, 2 grant targets of which 1 is declared, 1 policy and 2 folders, 2 agents, 2 checks, 4 edits; in the older screens 2 grants and transitions, 2 sources and clicks, 2 approvals and changes of the filter, 2 reviews and POSTs; 1 trouble; 1.5 million states, about 3 minutes | notes and messages stay with their grant, what is offered is accepted unless stale, nothing is stored twice or dropped silently, pages show what was read for them, canvas, code and compile bar agree, no two actions of a kind run at once, links of checks are kept, everything ends |
| `doc_backend_fields_dropped` | the editor alone | violated |

`adapter` does not check deadlock: when every call has returned and nobody reviews,
the system stops. Neither do the runs of the pages: a page whose bounds on clicks
and troubles are used up waits for its user.

A property of the console is a conjunction of what its parts promise, one run for
all: `PageShowsWhatWasRead` of twelve, for instance. The mutant listed for it breaks
one of them. The other operators called "Mutant" in the modules break the other
conjuncts and were run by hand: `SettleKeepsNote` and
`TransitionSucceedsMessageLast` break `GrantActionsStayTogether`;
`TransitionFailsIfRefused`, `GrantsDoneStaysBusy`, `ShowSourcesForgetsNone` and
`ShowFailureUnlessDelete` break `WhatIsStartedEnds`; `GrantsDoneKeepsAll` breaks
`NothingIsStoredTwice`; `GrantAnsweredStops` breaks `SubmissionIsFaithful`; and
`ShowSourcesOfLastRender`, `groupPoliciesKnown`, `ShellAsksKeepsOld`,
`labelsShifted` and `BundleOfInput` break `PageShowsWhatWasRead`.
For the older screens and the compile bar the definitions themselves were changed by
hand, one at a time: a row that is not replaced at once, a failed refresh that is
called a failed transition, "allowed" before "prohibited", a panel that is not reset
by a click, a missing profile that stays on loading, a filter that does not abort, an
assignment or a rollback draft without its lock, an action that loads nothing again,
a save that does not look at the checks. Each breaks the property of its part.

The gateway's bounds: one run, since keys of different runs never meet but in the
approval that a resume names, which `gateway_serial` covers with two ids; one
approval there, which may be of either call, and two in the race, so that an
approval can be added to a decision that has one; two threads, since an insert
races one other insert or one other review.

The pages' bounds: two of whatever is selected, so that an answer can be about the
other one; two loads, or three where one follows an action, so that an older one
can answer last; two saves and two transitions in flight; a status filter
that hides a suspended row and shows it again; two sources of which one
has no profile; an agent with one grant declared and one not; a folder that exists
and one that is created; two checks, so that a reference can be to the wrong one,
and four edits, which is an edit of the text, one of each check and a save. One
trouble is enough to have each request fail in each state, since no handler keeps
count of failures.

Bounds of the versions. A race between guard and commit needs two handlers, and replacement
needs two versions of a policy; a third thread adds no new pair of steps that
conflict, and the theorems cover any number. Three versions let a stale number
be behind by more than one. One review request per instance is enough because a
request's guards read no other request but through the index on pending ones.
`Interchangeable` permutes versions, requests, contents and threads, which no
definition tells apart.

## 4. Proofs

`PolicyVersionsProofs` proves, for all constants that satisfy the assumptions
(called endpoints are endpoints of the API, reviewers and administrators are
actors, `None` is none of the values):

* `TypeCorrect`, `SingleActive`, `ActiveWasApproved`, `NumbersConsecutive`:
  `Spec => []P` for `TypeOK`, `OneActivePerPolicy`, `ActiveVersionWasApproved`
  and `VersionNumbersAreConsecutive`.

None of the last three is inductive. `IInv` adds what a handler may rely on
between its reads and its commit: that what it read was once true and which parts
of it cannot have been undone. An approval is never removed from the audit log;
a row's policy and number never change; a number read as next is at most one
above those in use, so an insert either continues the sequence or collides; and
a session that holds a request as approved, or a version as approved, has an
audit entry to show for it, even after the row has been overwritten. With these the
proof takes one step per action, under it one per conjunct the action disturbs.

`PolicyVersionsRefinement` proves, over the same invariant,

* `ContractImplemented`: `Spec => ImplementsContract`. The mapping chooses *the*
  active version of a policy; the index on active versions makes the choice
  unique (`ActiveInCases`), so a commit that leaves the active rows of a policy
  alone leaves the mapped value alone (`ActiveInSame`). A commit then either adds
  an approval and moves no active row (`ContractApproves`), or changes the active
  rows of one policy to ones that `IInv` says are approved (`ContractPrefers`).
  The one step that could do both, an approval that overwrites a row another
  handler made active meanwhile, is a step of the second kind: such a row has its
  approval already.
* `LifecycleImplemented`, `DecisionsOfRequestsAreFinal`, `AssigneeDecides`:
  `ImplementsLifecycle`, `DecidedRequestsAreFinal` and `AssignedReviewerDecides`, for
  one worker (`\A u, v \in Workers : u = v`), which is to say that handlers do not
  overlap. With two, what a handler has read may be out of date when it writes
  (section 5). The invariant for one, `SerialInv`, adds to `IInv` that it is not
  (`Current`).

`RuntimeGatewayProofs` proves `TypeCorrect`, `AnswersAreOnRecord`,
`BlockedCallsHaveAReview`, `ResumesWereApproved` and `EnforcementGetsADecision` for
any number of threads, and `DecidedStaysDecided` for one. The invariant has a part
for the tables (`DbOK`), one for the audit entries of decided approvals
(`ReviewsDecisions`), one for what a thread has read (`SessionOK`) and one for every
response ever given (`ReplyOK`). The last two only say what no commit takes back
(`Grows`: events and approvals are added, an approval's call and requester never
change), so one lemma carries them over every commit of another thread, and each
action owes only its own session and its own response. It is stated of a set `Sent`
of requests that clients can have sent, so that `RuntimeAdapterProofs` can use it for
the adapter's. `EnforcementGetsADecision` assumes that decide requests which repeat an
id repeat the mode (`enforcement_mode` belongs to the wrapper's configuration, and the
record does not say with which mode it was answered).

`RuntimeAdapterProofs` proves `AdapterTypeCorrect` and
`GovernedExecutionImplemented`: `AdapterSpec => ImplementsGovernedExecution`. Its
invariant `AInv` adds to the gateway's that whatever is in flight on the connection of
an attempt is that attempt's request or the answer to it, never one of an attempt that
was given up (`Own`), and that a call which waits for its review was told so by the
decision on record (`Waiting`). A tool then runs only after an answer that the gateway's
invariant says is on record. Ids of different calls differ because they are tuples of
what the wrapper hashes; `AdapterIdsAssumption` only says that these are ids.

`ReviewInboxProofs` proves `TypeCorrect`, `SuccessWasRecorded`, `DecisionsAreShown`,
`MineIsExact`, `OneCallIsSent` and `LoadsShowTheLatest`. What carries them: an item
that was decided never is pending again, so that the invariant says of an answer only
what stays true of it (`AnswerOK`): what it saw decided is decided, and what is pending
now is in every answer that would list it. The newest load was started after the last
decision of this page, so it saw all of them (`SeesDecided`, `InboxOK`). The four
queries of a load see four moments; `LoadsShowTheLatest` rests on the order in which
the code merges them.

`PolicyStudioProofs` proves `TypeCorrect`, `SavesStayInPolicy`, `SavedTextWasStored`,
`VersionsHaveTheirPolicy` and `TypingIsKept`. A version never changes its policy and
never vanishes (`Grows`); what the page, a save under way or a submission holds was
read for the policy it names (`Fits`, `SavesOK`, `RequestsOK`); a load of versions is
applied only for the selected policy (`LoadOf`); and a text that is shown as saved is
on the backend's record of that version (`EditorOK`, `GotOK`).

`AccessInventoryProofs` proves of `AccessInventory`, for any grants, filters and
bounds (the listed grants are a sequence, `None` is none of them, and the filters
include "all"),

* `GrantPageIsCoherent`: `Spec => []GrantActionsStayTogether`. The inductive `Inv`
  adds the types, that a note is the selection's (`NoteIsOfSelection`), that a
  transition which the backend has accepted is about a grant
  (`SucceededOnGrant`) and that one under way was offered for the row it was sent
  from (`SentAsOffered`). Every action that changes list, filter or selection goes
  through `Settle`, so one lemma (`SettleKeeps`) carries the steps; it rests on
  `KeptSelectionIsVisible`, which needs that a non-empty set of grants has a first
  one (`FirstIsMember`).
* `OfferedTransitionsAreAccepted`: `Spec => [][RefusedOnlyIfStale]_vars`, from
  `SentAsOffered` and the comparison of the two tables (`OfferedIsAllowed`).

`ConsoleProofs` carries both to `Console` (`GrantActionsInConsole`,
`TransitionsInConsole`), whose run checks them: a step of the console is one of the
mounted page or leaves it alone (`StepOfPage`). It also proves, of the agent form and
the older screens as parts of the console,

* `StoredOnce`: `Spec => []NothingIsStoredTwice`. For the form this is what a
  submission closed over against what the backend has (`GrantsRemembered`,
  `AgentRemembered`): a grant that was stored is not pending any more, and an agent that
  was created is edited from then on. For the older queue of reviews it is that each of
  the three messages is the lock of its kind of action (`LocksOK`).
* `SubmissionsAreFaithful`: `Spec => [][SubmissionIsFaithful]_vars`: what the form
  says at the end names all that was stored and all that failed (`NothingForgotten`,
  `ConfirmationFits`).
* `PagesShowWhatWasRead`: `Spec => []PageShowsWhatWasRead`, with an invariant for each
  screen. Lists: one load waits at a time, and the profiles asked for are of the listed
  sources (`ListsInv`). Records: a profile that was asked for is the selected agent's,
  and of the failed reads the first two are named, in their order (`RecordsInv`,
  `FirstTwoAreNamed`). Table of grants: a row is behind only where a transition was
  made and its outcome not shown yet (`TableFollows`). Panel of a source: what arrives
  is about the source that was asked for (`PanelOK`). Approvals: only the load for the
  chosen filter is under way (`QueueOK`). Reviews: unless a decision is still to be
  shown, what a load has read is what the backend has (`QueuedOK`). No policy leaves
  every folder by the definition of the grouping.
* `CanvasIsTheCode`: `Spec => []CanvasAndCode`. Of a printed text, each line is about
  one field and each field has at most one line (`EntrySays`, `OneMore`, `EntriesSay`),
  so that reading it gives the condition again (`RoundTrip`), except for the text of the
  data exfiltration template, whatever the condition was (`CannedSays`). The text is
  what was printed as long as `meant` says so (`PrintedOK`).
* `LinksAreKept`: `Spec => LinkedCheckIsKept`. The condition refers to the linked check,
  or to its type only, with the target still open, or the text does not compile or is
  the template's; and no other check is the same (`LinkOK`). The three exceptions cannot
  be saved or are excepted by the property. An update or a removal of another check
  cannot carry the reference away (`LinkedAreTwins`).

Assumptions. Each is a named `ASSUME` of the module that declares the constants, and
TLC evaluates it in the runs: constants are of their sort (modes, defaults, request
kinds; reviewers and administrators are actors; bounds are numbers), `None` is none of
the values it stands beside, requests and approvals of the inbox are different items,
reviewers are not service actors (`GatewayRolesAssumption`: the roles of a service actor
are its scopes, `auth.py:116-150`), and the first versions of Policy Studio belong to first
policies (`FirstAssumption`); in `Console` the listed agents are a sequence
(`AgentsAssumption`), and `None` is no field of a condition (`FieldsAssumption`), so
that a label nobody knows is not taken for one. `RuntimeAdapter` assumes that beside the
wrappers only
telemetry arrives (`AdapterAssumption`).

Attempting the proofs changed the models where they were wrong. `PolicyStudio` left
`handleValidate` out of `Next`, and two of its `CASE` expressions had guards that
overlap. `AgentForm` overwrote an agent with the whole form where the code sends a
patch of what differs from the loaded agent. `TableCatchesUp` of `GrantsWorkflow` is
false with two filters unless it excepts a row that was hidden, has forgotten its
transition and is acted on again; the run's filters are now such that this happens.

Model-checked only: everything under fairness (`EveryCallReturns`, `ApprovedCallsRun`,
`LoadingEnds`, `SavingEnds`, `WhatIsStartedEnds`), since the proof system has no rules
for it here.

## 5. Where the code and its documents disagree

Each is a configuration for which TLC finds a short trace. `doc_reviewed_content`,
`doc_only_reviews_resumed` and `doc_backend_fields_dropped` are runs of the project;
the others are further configurations, kept to reproduce what was seen (`tlc
-config <name>.cfg <module>`, with `MCPolicyVersions`, `MCRuntimeGateway`,
`MCRuntimeAdapter`, `MCPolicyStudio`, `MCPolicyFolders` or `MCPolicyDsl`).

* `doc_active_snapshot_immutable`: "immutable active PolicyVersion snapshots". A
  draft update looks for pending requests before one is filed and commits after
  the version was reviewed and activated. (The same update breaks "A draft
  PolicyVersion with a pending review request is immutable in V1", earlier.)
* `doc_reviewed_content`: "make reviewed snapshots the preferred runtime input".
  Without any race: once its request is approved a draft can be edited again, and
  activated on that approval.
* `doc_only_under_review_rejected`: "Only policy versions under review can be
  rejected." A rejection that overlaps approval and activation rejects an active
  version, which leaves its policy to the live rules. (The same lost update lets
  two decisions of one review request, or of one human approval, both be
  accepted, against "Only pending ... can transition".)
* `doc_only_reviews_resumed`: "The endpoint is used by wrappers that previously
  received `decision = "require_human_review"`." The resume check does not look at
  what the decision was, so an approval created for a denied call resumes it.
* `doc_resume_after_expiry`: "V1 should reject resume after expiry even if the
  approval was previously approved." Nothing reads `expires_at`.
* `doc_polling_resumes`: "The wrapper should continue polling". The first answer to
  a resume check is stored under its id, and the adapter's id never changes, so
  polling a pending approval yields "pending" for ever. Asking
  `GET /human-approvals/{id}` first, as the resume pattern says, avoids it.

* `doc_backend_fields_dropped`: "Backend condition fields not represented by the
  compact Blocks projection should remain visible in Code DSL or inspector output
  instead of being dropped by a form-style editor." Saving is refused for such
  fields when a live rule is edited; a draft version that has them is opened,
  printed and saved without them.
* `doc_two_views`: "Blocks mode and Code DSL mode are two views of the same
  supported condition surface". While the text does not compile - for a reason that
  is empty, say - the canvas shows the default condition, and the first edit there
  replaces the text.
* `doc_submits_saved_draft`: "Submit for review creates a PolicyVersionReviewRequest
  for the saved draft." A load of the versions that was under way before Save draft
  answers after it and puts the older draft under the page, and the submission
  files that.
* `doc_nonempty_folder_stays`: "Deleting a non-empty PolicyFolder is blocked; callers
  must move Policies before deleting the folder." A policy that is moved in between
  the check and the deletion is taken out again by the ORM, and nobody is told.
* Seen in the pages' models but not kept as runs, since nothing says otherwise: a
  load that was under way before a decision or a transition may answer after it and
  bring the old row back (inbox, Access & Data); a second click on Save draft, or a
  retry after a refused draft, creates a second policy; Refresh after a save empties
  the checks of the editor without loading the draft again; the checks of a selected
  rule arrive in the editor of the policy that was selected next, and `loadRules`
  does not ask again whether the author has typed; an agent whose creation was
  answered into a lost connection is registered again; what is typed into the agent
  form during a save is replaced by the answer; of two evidence lookups the one
  answered last is shown; the shell's count is 0 when the approvals cannot be read.
  On the overview: only the first two failed reads are named, and its panels show
  "no grants" or zero for any other. In Policy Studio: a save that was under way when
  a policy was archived puts the earlier record back on the page, and the backend
  activates an approved version of an archived policy. In the older screens: the
  source panel does not compare the profile it shows with the selected source, so
  that of two quick clicks the slower answer stands; the two queries of a load are
  not one look, so that a review can be on both lists or on neither; a diff that
  answers late leaves its row at "Loading"; the rollback lock covers only its own
  row. In the editor: the canvas shows the same blocks for every data exfiltration
  condition; the data exfiltration template prints the same text whatever the
  condition says; a reason with quotes gets more backslashes with each print;
  `>=` and its like compile to equality; two checks that are the same share a
  reference.
* Seen in the gateway's model but not kept as runs: a retry names the newest
  approval of its decision, which `POST /human-approvals` may have added since; and
  a request id repeated for another tool is answered with the decision about the
  first ("Duplicate request conflict: deny until the existing decision chain can be
  reconciled").

## 6. Plan

Done: `PolicyVersions` with its contracts; `RuntimeGateway` and `RuntimeAdapter`; the
pages, alone and as `Console`. Proved: every safety property of the passing runs. Left, in order of importance:

1. `PolicyEvaluator`: rule matching, precedence and specificity as functions,
   against a reference definition over all small rule sets; `RuntimeConfig`:
   active snapshots before live rules, unsupported conditions.
2. `PreChecks`: outcomes of metadata checks and how rules match them.
3. `Policies`: archive, delete and live edits against activation, composed with
   `PolicyVersions` (an archived policy with an active version).
4. Overlapping transitions of one grant, and the inventory context that reads it.
5. `ServiceActorScopes`: scope and key matching as pure operators.
6. `ReviewInbox` over the handlers of `PolicyVersions` in place of its own backend.
7. Proofs: what the next components promise, and lemmas about the evaluator's ranking.

## 7. Not modelled

* Backend: the inventory CRUD, read-only projections (evidence, activity,
  governance profile, diffs), payload validation and text redaction, seeds. They
  change no state that another component relies on, or are string processing their
  unit tests cover.
* Not mounted by any route: `human-approvals/human-approval-actions.tsx`, which
  nothing imports, and in `AGCPStudioShell.tsx` every view but `CommandView` with what only they use
  (`PolicyStudioView`, `AISystemsView`, `ReviewsView`, `EvidenceView`, `RiskView`,
  `DataView`, `ModelsView`, `VendorsView`, `MonitoringView`, `IntegrationsView`,
  `AdminView`, `LegacyCommandView`, `Sidebar`, the `buildStudio*` projections).
* `scripts/smoke.mjs` is a test; `settings`, `audit`, icons and styles are static.
* Within the older screens: the filters for targets and subjects and the search (they
  filter as the status does), notes, names, the rights of a platform administrator,
  and all of a diff but the version to roll back to.
* Within the pages: the diffs of the inbox, the messages of the editor's console about
  loading, saving and reviews, wording and layout, the characters of names, notes and DSL
  tokens, the fields that nothing else reads.

--------------------------- MODULE RuntimeGateway ---------------------------
(***************************************************************************)
(* The runtime gateway: the endpoints that decide about a tool call and    *)
(* that check whether a blocked one may resume (runtime_gateway_api.py),   *)
(* the human approvals between the two (human_approvals.py), and telemetry *)
(* ingestion (telemetry_api.py), which writes the same trace events.       *)
(*                                                                         *)
(* Handlers interleave as in PolicyVersions: SELECTs, then one transaction *)
(* that the unique indexes accept or refuse.  A trace event is unique per  *)
(* agent, run and external id, so it is a function of run and id here (the *)
(* agent belongs to the run), and so is its PolicyDecision, which is only  *)
(* ever inserted along with it.                                            *)
(*                                                                         *)
(* What the policies say is left open: an evaluation yields any decision,  *)
(* or fails.  Summaries, reasons and pre-check results are left out.       *)
(***************************************************************************)
EXTENDS Integers, FiniteSets

CONSTANTS
    Runs,            \* runs of agents, each a pair of an agent and a run_id
    EventIds,        \* request, resume and event ids
    Tools,
    Modes,           \* decision modes that the deployment has enabled
    FailureDefault,  \* settings.runtime_failure_default
    MaxApprovals,    \* bound on the rows of human_approvals
    Actors,          \* callers, services and humans
    Services,        \* service actors
    Reviewers,       \* humans with the reviewer role
    Admins,          \* actors with the platform_admin role
    Connections,     \* client connections
    Workers,         \* threads that can be inside a handler at the same time
    Incoming,        \* requests that clients send at any time
    Reviewing,       \* what people do with approvals in this instance
    None

Decisions == {"allow", "deny", "require_human_review", "not_applicable"}

FailureDefaults == {"fail_closed_deny", "fail_closed_human_review", "record_only"}

\* "expired" is left out: no code ever sets it.
ApprovalStatus == {"pending", "approved", "rejected", "cancelled"}

ApprovalIds == 1 .. MaxApprovals

Keys == Runs \X EventIds

DecisionRequest ==
    [op : {"decide"}, run : Runs, id : EventIds, tool : Tools, mode : Modes,
     by : Actors, conn : Connections]

\* decision: the policy_decision_id, which is that of its trace event.
ResumeRequest ==
    [op : {"resume"}, run : Runs, id : EventIds, tool : Tools, original : EventIds,
     approval : ApprovalIds, decision : Keys, by : Actors, conn : Connections]

\* A telemetry event may leave its tool open.
TelemetryRequest ==
    [op : {"telemetry"}, run : Runs, id : EventIds, tool : Tools \cup {None},
     type : {"tool_call_requested", "other"}, by : Actors]

ApprovalRequest ==
    [op : {"approve", "reject", "cancel"}, approval : ApprovalIds, by : Actors]

Request == DecisionRequest \cup ResumeRequest \cup TelemetryRequest \cup ApprovalRequest

ASSUME ModesAssumption == Modes \subseteq {"simulation", "enforcement"}
ASSUME DefaultAssumption == FailureDefault \in FailureDefaults
ASSUME BoundAssumption == MaxApprovals \in Nat
ASSUME GatewayRolesAssumption ==
    /\ Reviewers \subseteq Actors \ Services
    /\ Admins \subseteq Actors /\ Services \subseteq Actors
ASSUME IncomingAssumption ==
    Incoming \subseteq DecisionRequest \cup ResumeRequest \cup TelemetryRequest

ASSUME ReviewingAssumption ==
    Reviewing \subseteq {"approve", "reject", "cancel", "create", "expire"}
ASSUME GatewayNoneAssumption ==
    /\ None \notin Tools \cup Actors /\ None \notin EventIds
    /\ None \notin ApprovalIds /\ None \notin Keys /\ None \notin Request
    /\ None \notin Decisions \cup FailureDefaults \cup ApprovalStatus

VARIABLES
    runs,      \* agent_runs
    trace,     \* trace_events, each with its policy_decisions row
    approval,  \* human_approvals
    audit,     \* audit_logs
    session,   \* per worker: the handler it runs and what it has read
    replies    \* responses on their way to the clients

vars == <<runs, trace, approval, audit, session, replies>>

Tables == <<runs, trace, approval, audit>>

\* failure: metadata["runtime_failure_default"]; original, approval and status
\* are the metadata of a resume event, from which a retry is answered.
TraceRow ==
    [ type     : {"absent", "tool_call_requested", "resume", "other"},
      tool     : Tools \cup {None},
      decision : Decisions \cup {None},
      failure  : FailureDefaults \cup {None},
      original : EventIds \cup {None},
      approval : ApprovalIds \cup {None},
      status   : ApprovalStatus \cup {None} ]

NoTrace == [ type |-> "absent", tool |-> None, decision |-> None, failure |-> None,
             original |-> None, approval |-> None, status |-> None ]

\* due: what expires_at says, None when it is not set.
ApprovalRow ==
    [ status    : ApprovalStatus \cup {"absent"},
      decision  : Keys \cup {None},
      requester : Actors \cup {None},
      due       : {"later", "passed", None} ]

NoApproval == [ status |-> "absent", decision |-> None, requester |-> None, due |-> None ]

\* resume: the trace event of a resume check, None for the other events.
AuditEntry ==
    [ event    : {"human_approval_requested", "human_approval_approved",
                  "human_approval_rejected", "human_approval_cancelled",
                  "runtime_tool_call_resume_checked"},
      approval : ApprovalIds,
      by       : Actors,
      resume   : Keys \cup {None} ]

Reply == [ to       : DecisionRequest \cup ResumeRequest,
           kind     : {"answer", "refused", "error"},
           decision : Decisions \cup {None},
           approval : ApprovalIds \cup {None},
           status   : ApprovalStatus \cup {None} ]

\* pc: "replay" when a decision was found and its approval is still to be read,
\* "lookup" when a resume request matched its chain and its event is still to be
\* read, "commit" when only the transaction is left.
Session == [ pc       : {"idle", "replay", "lookup", "commit"},
             req      : Request \cup {None},
             knownRun : BOOLEAN,
             status   : ApprovalStatus \cup {None} ]

Idle == [ pc |-> "idle", req |-> None, knownRun |-> FALSE, status |-> None ]

Init ==
    /\ runs = {}
    /\ trace = [k \in Keys |-> NoTrace]
    /\ approval = [h \in ApprovalIds |-> NoApproval]
    /\ audit = {}
    /\ session = [w \in Workers |-> Idle]
    /\ replies = {}

KeyOf(q) == <<q.run, q.id>>

Entry(event, h, a, k) == [event |-> event, approval |-> h, by |-> a, resume |-> k]

-----------------------------------------------------------------------------
(* Steps of a handler.                                                     *)

Enter(w, s) ==
    /\ session[w].pc = "idle"
    /\ session' = [session EXCEPT ![w] = s]

Leave(w) == session' = [session EXCEPT ![w] = Idle]

Send(q, kind, decision, h, status) ==
    replies' = replies \cup {[to |-> q, kind |-> kind, decision |-> decision,
                              approval |-> h, status |-> status]}

Answer(w, q, decision, h, status) ==
    Leave(w) /\ Send(q, "answer", decision, h, status)

Refuse(w, q) == Leave(w) /\ Send(q, "refused", None, None, None)

Fail(w, q) == Leave(w) /\ Send(q, "error", None, None, None)

\* A handler is inside its transaction for a request of this kind.
Committing(w, op) == session[w].pc = "commit" /\ session[w].req.op = op

\* uq_trace_events_external_event_per_run, and uq_agent_runs_agent_run for the
\* run that the handler inserts if it found none.
IndexesAccept(w) ==
    /\ trace[KeyOf(session[w].req)].type = "absent"
    /\ session[w].knownRun \/ session[w].req.run \notin runs

InsertTrace(w, row) ==
    /\ runs' = runs \cup {session[w].req.run}
    /\ trace' = [trace EXCEPT ![KeyOf(session[w].req)] = row]

-----------------------------------------------------------------------------
(* Human approvals.                                                        *)

NextApproval == Cardinality({h \in ApprovalIds : approval[h].status # "absent"}) + 1

ApprovalsOf(k) == {h \in ApprovalIds : approval[h].status # "absent"
                                         /\ approval[h].decision = k}

\* ORDER BY created_at DESC, id DESC: the ids are in the order of creation.
LatestApproval(k) ==
    IF ApprovalsOf(k) = {} THEN None
      ELSE CHOOSE h \in ApprovalsOf(k) : \A g \in ApprovalsOf(k) : g <= h

InsertApproval(k, a, due) ==
    /\ NextApproval \in ApprovalIds                 \* bound
    /\ approval' = [approval EXCEPT ![NextApproval] =
           [status |-> "pending", decision |-> k, requester |-> a, due |-> due]]
    /\ audit' = audit \cup {Entry("human_approval_requested", NextApproval, a, None)}

\* POST /human-approvals.  What it reads never changes, so it is one step.
CreateApproval(a, k, due) ==
    /\ k # None => trace[k].decision # None
    /\ InsertApproval(k, a, due)
    /\ UNCHANGED <<runs, trace, session, replies>>

\* Mutant: an approval is decided again.
RequirePendingDropped(row) == row.status # "absent"

RequirePending(row) == row.status = "pending"

\* Mutant: requesters review their own approvals.
MayReviewOwn(a, row) == a \in Reviewers \cup Admins

MayReview(a, row) ==
    a \in Admins \/ (a \in Reviewers /\ a # row.requester)

MayCancel(a, row) ==
    a \in Admins \/ (a \notin Services /\ a = row.requester)

ReadPendingApproval(w, op, h, a) ==
    /\ RequirePending(approval[h])
    /\ IF op = "cancel" THEN MayCancel(a, approval[h]) ELSE MayReview(a, approval[h])
    /\ Enter(w, [Idle EXCEPT !.pc = "commit",
                             !.req = [op |-> op, approval |-> h, by |-> a]])
    /\ UNCHANGED <<Tables, replies>>

Decide(w, op, status, event) ==
    LET h == session[w].req.approval
    IN  /\ Committing(w, op)
        /\ approval' = [approval EXCEPT ![h].status = status]
        /\ audit' = audit \cup {Entry(event, h, session[w].req.by, None)}
        /\ Leave(w)
        /\ UNCHANGED <<runs, trace, replies>>

ApproveApproval(w) == Decide(w, "approve", "approved", "human_approval_approved")
RejectApproval(w) == Decide(w, "reject", "rejected", "human_approval_rejected")
CancelApproval(w) == Decide(w, "cancel", "cancelled", "human_approval_cancelled")

\* Time reaches expires_at.  No code looks at it.
PassDue(h) ==
    /\ approval[h].due = "later"
    /\ approval' = [approval EXCEPT ![h].due = "passed"]
    /\ UNCHANGED <<runs, trace, audit, session, replies>>

-----------------------------------------------------------------------------
(* POST /runtime/tool-calls/decision                                       *)

\* The request is answered from the event on record, if there is one.  The run is
\* looked up after the event; reading both at once changes no outcome, for an event
\* inserted in between makes the transaction fail either way.
ReceiveDecision(w, q) ==
    LET row == trace[KeyOf(q)]
    IN  /\ session[w].pc = "idle"
        /\ \/ /\ row.type = "absent"
              /\ Enter(w, [Idle EXCEPT !.pc = "commit", !.req = q,
                                       !.knownRun = q.run \in runs])
              /\ UNCHANGED replies
           \/ /\ row.decision # None
              /\ Enter(w, [Idle EXCEPT !.pc = "replay", !.req = q])
              /\ UNCHANGED replies
           \/ /\ row.decision = None /\ row.failure = "record_only"
              /\ Answer(w, q, "not_applicable", None, None)
           \/ /\ row.type # "absent" /\ row.decision = None
              /\ row.failure # "record_only"
              /\ Refuse(w, q)
        /\ UNCHANGED Tables

ReplayDecision(w) ==
    LET q == session[w].req
    IN  /\ session[w].pc = "replay"
        /\ Answer(w, q, trace[KeyOf(q)].decision, LatestApproval(KeyOf(q)), None)
        /\ UNCHANGED Tables

\* Mutant: what the settings say also goes for enforcement.
EffectiveDefaultOfSettings(mode) == FailureDefault

\* Enforcement never only records.
EffectiveDefault(mode) ==
    IF FailureDefault = "record_only" /\ mode = "enforcement"
      THEN "fail_closed_deny" ELSE FailureDefault

\* Mutant: the setting itself is put on record as the decision.
FailureDecisionVerbatim(default) == IF default = "record_only" THEN None ELSE default

FailureDecision(default) ==
    CASE default = "fail_closed_deny" -> "deny"
      [] default = "fail_closed_human_review" -> "require_human_review"
      [] default = "record_only" -> None

Requested(q) == [NoTrace EXCEPT !.type = "tool_call_requested", !.tool = q.tool]

\* The event and decision that an evaluation, or its failure, results in.
EvaluatedRows(q) == {[Requested(q) EXCEPT !.decision = d] : d \in Decisions}

FailedRow(q) ==
    [Requested(q) EXCEPT !.failure = EffectiveDefault(q.mode),
                         !.decision = FailureDecision(EffectiveDefault(q.mode))]

\* Mutant: a decision for review leaves the approval to somebody else.
ReviewIsRequestedForgotten(w, row) == UNCHANGED <<approval, audit>>

\* require_human_review comes with a pending approval, in the same transaction.
ReviewIsRequested(w, row) ==
    IF row.decision = "require_human_review"
      THEN InsertApproval(KeyOf(session[w].req), session[w].req.by, None)
      ELSE UNCHANGED <<approval, audit>>

\* Mutant: the response does not wait for the commit.
CommitDecisionAfterAnswer(w) ==
    LET q == session[w].req
    IN  /\ Committing(w, "decide")
        /\ \E row \in EvaluatedRows(q) \cup {FailedRow(q)} :
             /\ row.decision = "require_human_review" => NextApproval \in ApprovalIds
             /\ IF IndexesAccept(w)
                  THEN InsertTrace(w, row) /\ ReviewIsRequested(w, row)
                  ELSE UNCHANGED Tables
             /\ Answer(w, q,
                  IF row.decision = None THEN "not_applicable" ELSE row.decision,
                  IF row.decision = "require_human_review" THEN NextApproval ELSE None,
                  None)

CommitDecision(w) ==
    LET q == session[w].req
    IN  /\ Committing(w, "decide")
        /\ \/ /\ IndexesAccept(w)
              /\ \E row \in EvaluatedRows(q) \cup {FailedRow(q)} :
                   /\ InsertTrace(w, row)
                   /\ ReviewIsRequested(w, row)
                   /\ Answer(w, q,
                        IF row.decision = None THEN "not_applicable" ELSE row.decision,
                        IF row.decision = "require_human_review" THEN NextApproval
                          ELSE None,
                        None)
           \/ ~ IndexesAccept(w) /\ Fail(w, q) /\ UNCHANGED Tables

-----------------------------------------------------------------------------
(* POST /runtime/tool-calls/resume                                         *)

\* Mutant: any approval of the agent's resumes any of its calls.
ChainMatchesAnyApproval(q) ==
    /\ approval[q.approval].status # "absent"
    /\ trace[q.decision].decision # None
    /\ q.decision = <<q.run, q.original>>
    /\ trace[q.decision].tool \in {q.tool, None}

\* _ensure_resume_chain_matches_request
ChainMatches(q) ==
    /\ approval[q.approval].status # "absent"
    /\ trace[q.decision].decision # None
    /\ approval[q.approval].decision = q.decision
    /\ q.decision = <<q.run, q.original>>
    /\ trace[q.decision].tool \in {q.tool, None}

\* Everything the chain is compared on is immutable; the status is not.
ReceiveResume(w, q) ==
    /\ session[w].pc = "idle"
    /\ IF ChainMatches(q)
         THEN /\ Enter(w, [Idle EXCEPT !.pc = "lookup", !.req = q,
                                       !.status = approval[q.approval].status])
              /\ UNCHANGED replies
         ELSE Refuse(w, q)
    /\ UNCHANGED Tables

ResumeDecision(status) ==
    CASE status = "approved" -> "allow"
      [] status = "pending" -> "require_human_review"
      [] OTHER -> "deny"

LookUpResume(w) ==
    LET q == session[w].req
        row == trace[KeyOf(q)]
    IN  /\ session[w].pc = "lookup"
        /\ \/ /\ row.type = "absent"
              /\ session' = [session EXCEPT ![w].pc = "commit",
                                            ![w].knownRun = q.run \in runs]
              /\ UNCHANGED replies
           \/ /\ row.type = "resume"
              /\ Answer(w, q, ResumeDecision(row.status), row.approval, row.status)
           \/ /\ row.type \in {"tool_call_requested", "other"}
              /\ Refuse(w, q)
        /\ UNCHANGED Tables

CommitResume(w) ==
    LET q == session[w].req
        s == session[w].status
    IN  /\ Committing(w, "resume")
        /\ \/ /\ IndexesAccept(w)
              /\ InsertTrace(w, [NoTrace EXCEPT !.type = "resume", !.tool = q.tool,
                                   !.original = q.original, !.approval = q.approval,
                                   !.status = s])
              /\ audit' = audit \cup {Entry("runtime_tool_call_resume_checked",
                                            q.approval, q.by, KeyOf(q))}
              /\ UNCHANGED approval
              /\ Answer(w, q, ResumeDecision(s), q.approval, s)
           \/ ~ IndexesAccept(w) /\ Fail(w, q) /\ UNCHANGED Tables

-----------------------------------------------------------------------------
(* POST /telemetry/events.  Nothing acts on its response, which is left    *)
(* out; an event that is on record already changes nothing.                *)

ReceiveTelemetry(w, q) ==
    /\ trace[KeyOf(q)].type = "absent"
    /\ Enter(w, [Idle EXCEPT !.pc = "commit", !.req = q, !.knownRun = q.run \in runs])
    /\ UNCHANGED <<Tables, replies>>

\* A tool call is evaluated; an evaluation that fails rolls everything back.
CommitTelemetry(w) ==
    LET q == session[w].req
    IN  /\ Committing(w, "telemetry")
        /\ \/ /\ IndexesAccept(w)
              /\ \E row \in IF q.type = "other" THEN {[NoTrace EXCEPT !.type = "other"]}
                              ELSE EvaluatedRows(q) :
                   InsertTrace(w, row) /\ ReviewIsRequested(w, row)
           \/ (IndexesAccept(w) => q.type = "tool_call_requested") /\ UNCHANGED Tables
        /\ Leave(w)
        /\ UNCHANGED replies

\* The process or its connection to the database is lost before the commit.
Abandon(w) ==
    session[w].pc # "idle" /\ Leave(w) /\ UNCHANGED <<Tables, replies>>

-----------------------------------------------------------------------------
Receive(w, q) ==
    \/ q.op = "decide" /\ ReceiveDecision(w, q)
    \/ q.op = "resume" /\ ReceiveResume(w, q)
    \/ q.op = "telemetry" /\ ReceiveTelemetry(w, q)

\* A thread goes on with the handler that it is inside.
Continue(w) ==
    \/ ReplayDecision(w) \/ CommitDecision(w)
    \/ LookUpResume(w) \/ CommitResume(w)
    \/ CommitTelemetry(w)
    \/ ApproveApproval(w) \/ RejectApproval(w) \/ CancelApproval(w)

\* What people do.
Review ==
    \/ \E w \in Workers, op \in {"approve", "reject", "cancel"} \cap Reviewing,
          h \in ApprovalIds, a \in Actors : ReadPendingApproval(w, op, h, a)
    \/ /\ "create" \in Reviewing
       /\ \E a \in Actors, k \in Keys \cup {None} :
            \/ CreateApproval(a, k, None)
            \/ "expire" \in Reviewing /\ CreateApproval(a, k, "later")
    \/ \E h \in ApprovalIds : PassDue(h)

Next ==
    \/ \E w \in Workers : \E q \in Incoming : Receive(w, q)
    \/ \E w \in Workers : Continue(w) \/ Abandon(w)
    \/ Review

Spec == Init /\ [][Next]_vars

-----------------------------------------------------------------------------
(* Properties.                                                             *)

\* Every row, session and response is well formed.
TypeOK ==
    /\ runs \subseteq Runs
    /\ trace \in [Keys -> TraceRow]
    /\ approval \in [ApprovalIds -> ApprovalRow]
    /\ audit \subseteq AuditEntry
    /\ session \in [Workers -> Session]
    /\ replies \subseteq Reply

Answers(op) == {r \in replies : r.kind = "answer" /\ r.to.op = op}

\* Every answer that ever left is what the records say now: the evidence is
\* committed before the answer, retries and races give the same answer, and none
\* of them writes the records twice ("Make retries return the existing decision
\* response", RUNTIME_GATEWAY_DESIGN.md).
AnswersMatchEvidence ==
    /\ \A r \in Answers("decide") :
         LET row == trace[KeyOf(r.to)]
         IN  \/ row.decision # None /\ r.decision = row.decision
             \/ row.failure = "record_only" /\ r.decision = "not_applicable"
    /\ \A r \in Answers("resume") :
         LET row == trace[KeyOf(r.to)]
         IN  /\ row.type = "resume"
             /\ r.decision = ResumeDecision(row.status)
             /\ r.approval = row.approval /\ r.status = row.status
             /\ \E e \in audit : e.resume = KeyOf(r.to) /\ e.approval = row.approval

\* A resume check allows a call only if the audit log has an approval, by
\* somebody who may give it, of that very call: same run, request and tool (if the
\* call was reported with one).
\* Retries, stale reads of the approval and overlapping reviews do not matter.
ResumeAllowWasApproved ==
    \A k \in Keys : trace[k].type = "resume" /\ ResumeDecision(trace[k].status) = "allow" =>
        /\ approval[trace[k].approval].decision = <<k[1], trace[k].original>>
        /\ trace[<<k[1], trace[k].original>>].tool \in {trace[k].tool, None}
        /\ \E e \in audit :
             /\ e.event = "human_approval_approved" /\ e.approval = trace[k].approval
             /\ e.by \in Reviewers \cup Admins
             /\ e.by \in Admins \/ e.by # approval[e.approval].requester

\* Whoever is told to wait for a review is told which: no crash, race or retry
\* leaves a call blocked for a review that nobody was asked for.
ReviewCanBeResumed ==
    /\ \A k \in Keys :
         trace[k].decision = "require_human_review" => ApprovalsOf(k) # {}
    /\ \A r \in Answers("decide") :
         r.decision = "require_human_review" => r.approval \in ApprovalsOf(KeyOf(r.to))

\* Enforcement always gets a recorded decision, also when the evaluation failed
\* and the settings say record_only, provided that requests of different modes
\* have different ids, as those of the generic adapter do.
EnforcementIsDecided ==
    \A r \in Answers("decide") :
      r.to.mode = "enforcement" => trace[KeyOf(r.to)].decision \in Decisions

\* "Only pending human approvals can transition": a decided approval stays so.
\* It holds while one handler runs at a time.
DecidedApprovalsAreFinal ==
    [][\A h \in ApprovalIds :
         approval[h].status \in {"approved", "rejected", "cancelled"} =>
           approval'[h].status = approval[h].status]_vars

\* "The endpoint is used by wrappers that previously received decision =
\* require_human_review": a call that was decided otherwise is never resumed.
OnlyReviewsAreResumed ==
    \A k \in Keys : trace[k].type = "resume" /\ ResumeDecision(trace[k].status) = "allow" =>
        trace[<<k[1], trace[k].original>>].decision = "require_human_review"

\* "V1 should reject resume after expiry even if the approval was previously
\* approved": a resume check of an approval that is past due does not allow.
ExpiredIsNotResumed ==
    [][\A k \in Keys :
         /\ trace[k].type = "absent" /\ trace'[k].type = "resume"
         /\ approval[trace'[k].approval].due = "passed"
         => ResumeDecision(trace'[k].status) # "allow"]_vars
=============================================================================

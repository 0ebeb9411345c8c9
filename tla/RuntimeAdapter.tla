--------------------------- MODULE RuntimeAdapter ---------------------------
(***************************************************************************)
(* The client wrapper of docs/examples/generic_runtime_adapter_example.py  *)
(* composed with the gateway: it asks for a decision under a stable id,    *)
(* retries what fails, runs the tool if it may, and otherwise keeps the    *)
(* blocked call, which the application resumes after the review.           *)
(*                                                                         *)
(* An attempt has a connection of its own.  The gateway may receive its    *)
(* request, or answer it, after the wrapper gave up on it.                 *)
(***************************************************************************)
EXTENDS RuntimeGateway

CONSTANTS
    Calls,              \* GovernedActions of the application
    Service,            \* the actor it authenticates as
    MaxAttempts,        \* max_attempts
    MaxFaults,          \* bound on premature timeouts and lost handlers
    AwaitsReview        \* whether the application asks GET /human-approvals/{id}
                        \* first, and resumes only what has been reviewed

Call == [run : Runs, tool : Tools, ref : STRING, mode : Modes]

ASSUME AdapterAssumption ==
    /\ Calls \subseteq Call
    /\ Service \in Services
    /\ MaxAttempts \in Nat \ {0}
    /\ MaxFaults \in Nat
    /\ AwaitsReview \in BOOLEAN
    /\ Incoming \subseteq TelemetryRequest

VARIABLES
    wire,    \* requests on their way to the gateway
    call,    \* per call: where its wrapper is
    faults   \* faults that may still happen

adapterVars == <<vars, wire, call, faults>>

\* "asking" and "resuming" are inside the two loops of attempts; "waiting" is the
\* application with a BlockedToolCall in its hands, "blocked" any other result that
\* did not run the tool.
CallState ==
    [ phase    : {"new", "asking", "waiting", "resuming", "blocked", "executed"},
      attempt  : 0 .. MaxAttempts,
      conn     : Connections \cup {None},
      approval : ApprovalIds \cup {None} ]

\* stable_request_id and stable_resume_id hash what they are made of.
RequestId(c) == <<c.run, c.tool, c.ref, c.mode>>

ResumeId(c, h) == <<c.run, c.tool, c.ref, c.mode, h>>

ASSUME AdapterIdsAssumption ==
    /\ \A c \in Calls : RequestId(c) \in EventIds
    /\ \A c \in Calls, h \in ApprovalIds : ResumeId(c, h) \in EventIds
    /\ None \notin Connections

DecisionRequestOf(c, n) ==
    [op |-> "decide", run |-> c.run, id |-> RequestId(c), tool |-> c.tool,
     mode |-> c.mode, by |-> Service, conn |-> n]

ResumeRequestOf(c, n) ==
    [op |-> "resume", run |-> c.run, id |-> ResumeId(c, call[c].approval),
     tool |-> c.tool, original |-> RequestId(c), approval |-> call[c].approval,
     decision |-> <<c.run, RequestId(c)>>, by |-> Service, conn |-> n]

HasConnection(q) == q # None /\ q.op \in {"decide", "resume"}

\* Connections that no request, handler or waiting wrapper holds.
Free ==
    Connections \ ( {q.conn : q \in wire}
        \cup {session[w].req.conn : w \in {v \in Workers : HasConnection(session[v].req)}}
        \cup {call[c].conn : c \in Calls} )

AdapterInit ==
    /\ Init
    /\ wire = {}
    /\ call = [c \in Calls |->
                 [phase |-> "new", attempt |-> 0, conn |-> None, approval |-> None]]
    /\ faults = MaxFaults

-----------------------------------------------------------------------------
(* The wrapper.                                                            *)

\* A new attempt.  What a connection carried before is gone when it is reused.
Attempt(c, phase, i) ==
    /\ Free # {}                                     \* bound
    /\ LET n == CHOOSE n \in Free : TRUE
       IN  /\ call' = [call EXCEPT ![c].phase = phase, ![c].attempt = i, ![c].conn = n]
           /\ wire' = wire \cup {IF phase = "asking" THEN DecisionRequestOf(c, n)
                                   ELSE ResumeRequestOf(c, n)}
           /\ replies' = {r \in replies : r.to.conn # n}
    /\ UNCHANGED <<Tables, session>>

Return(c, phase, h) ==
    /\ call' = [call EXCEPT ![c] = [phase |-> phase, attempt |-> 0, conn |-> None,
                                    approval |-> h]]
    /\ UNCHANGED <<vars, wire>>

RepliesTo(c) == {r \in replies : r.to.conn = call[c].conn}

\* GenericRuntimeAdapter.run
Run(c) ==
    /\ call[c].phase = "new"
    /\ Attempt(c, "asking", 1)
    /\ UNCHANGED faults

\* Mutant: resume without waiting for the review.
MayResumeAnyTime(c) == TRUE

MayResume(c) == AwaitsReview => approval[call[c].approval].status # "pending"

\* run_resumed_tool_call
Resume(c) ==
    /\ call[c].phase = "waiting"
    /\ MayResume(c)
    /\ Attempt(c, "resuming", 1)
    /\ UNCHANGED faults

InAttempt(c) == call[c].phase \in {"asking", "resuming"}

\* Mutant: one attempt too many.
RetryOnceMoreOrGiveUp(c) ==
    IF call[c].attempt <= MaxAttempts
      THEN Attempt(c, call[c].phase, call[c].attempt + 1)
      ELSE Return(c, IF call[c].phase = "asking" THEN "blocked" ELSE "waiting",
                  call[c].approval)

\* blocked_gateway_error: a blocked call can still be resumed.
RetryOrGiveUp(c) ==
    IF call[c].attempt < MaxAttempts
      THEN Attempt(c, call[c].phase, call[c].attempt + 1)
      ELSE Return(c, IF call[c].phase = "asking" THEN "blocked" ELSE "waiting",
                  call[c].approval)

\* HTTPError is an OSError: the wrapper retries every response with an error.
HandleError(c) ==
    /\ InAttempt(c)
    /\ \E r \in RepliesTo(c) : r.kind \in {"refused", "error"}
    /\ RetryOrGiveUp(c)
    /\ UNCHANGED faults

\* Mutant: a request without a timeout.
LostUnnoticed(c) == FALSE

\* Nothing will ever come over the connection.
Lost(c) ==
    /\ RepliesTo(c) = {}
    /\ \A q \in wire : q.conn # call[c].conn
    /\ \A w \in Workers : HasConnection(session[w].req) =>
                            session[w].req.conn # call[c].conn

Timeout(c) ==
    /\ InAttempt(c)
    /\ RetryOrGiveUp(c)
    /\ IF Lost(c) THEN UNCHANGED faults
         ELSE faults > 0 /\ faults' = faults - 1    \* bound

\* _handle_decision_response
HandleDecision(c) ==
    /\ call[c].phase = "asking"
    /\ \E r \in RepliesTo(c) :
         /\ r.kind = "answer"
         /\ Return(c, CASE r.decision = "allow" -> "executed"
                        [] r.decision = "require_human_review" -> "waiting"
                        [] OTHER -> "blocked", r.approval)
    /\ UNCHANGED faults

\* _handle_resume_response
HandleResume(c) ==
    /\ call[c].phase = "resuming"
    /\ \E r \in RepliesTo(c) :
         /\ r.kind = "answer"
         /\ Return(c, CASE r.decision = "allow" -> "executed"
                        [] r.decision = "require_human_review" -> "waiting"
                        [] OTHER -> "blocked", call[c].approval)
    /\ UNCHANGED faults

Wrapper(c) ==
    \/ Run(c) \/ Resume(c)
    \/ HandleDecision(c) \/ HandleResume(c) \/ HandleError(c) \/ Timeout(c)

-----------------------------------------------------------------------------
(* The gateway at the other end.                                           *)

ReceiveFrom(n) ==
    \E w \in Workers : \E q \in wire :
        /\ q.conn = n
        /\ Receive(w, q)
        /\ wire' = wire \ {q}
        /\ UNCHANGED <<call, faults>>

ContinueHandler(w) == Continue(w) /\ UNCHANGED <<wire, call, faults>>

LoseHandler(w) ==
    /\ faults > 0 /\ faults' = faults - 1            \* bound
    /\ Abandon(w)
    /\ UNCHANGED <<wire, call>>

\* Telemetry producers share the gateway with the wrappers.
ReceiveOther ==
    /\ \E w \in Workers : \E q \in Incoming : Receive(w, q)
    /\ UNCHANGED <<wire, call, faults>>

ReviewApprovals == Review /\ UNCHANGED <<wire, call, faults>>

AdapterNext ==
    \/ \E c \in Calls : Wrapper(c)
    \/ \E n \in Connections : ReceiveFrom(n)
    \/ \E w \in Workers : ContinueHandler(w) \/ LoseHandler(w)
    \/ ReceiveOther \/ ReviewApprovals

\* A wrapper that was called acts on responses and timeouts, the application goes
\* back to what was reviewed, requests wait for a thread first come first served
\* (telemetry may keep the threads busy, hence SF), and threads run.
\* Nobody has to start a call or to review one.
Fairness ==
    /\ \A c \in Calls :
         /\ WF_adapterVars(Resume(c))
         /\ WF_adapterVars(HandleDecision(c) \/ HandleResume(c) \/ HandleError(c)
                             \/ Timeout(c))
    /\ \A n \in Connections : SF_adapterVars(ReceiveFrom(n))
    /\ \A w \in Workers : WF_adapterVars(ContinueHandler(w))

AdapterSpec == AdapterInit /\ [][AdapterNext]_adapterVars /\ Fairness

-----------------------------------------------------------------------------
(* Properties.                                                             *)

AdapterTypeOK ==
    /\ TypeOK
    /\ wire \subseteq DecisionRequest \cup ResumeRequest
    /\ call \in [Calls -> CallState]
    /\ faults \in 0 .. MaxFaults

KeyOfCall(c) == <<c.run, RequestId(c)>>

Promise == INSTANCE GovernedExecution WITH
    verdict  <- [c \in Calls |-> trace[KeyOfCall(c)].decision],
    granted  <- {c \in Calls : \E e \in audit :
                   /\ e.event = "human_approval_approved"
                   /\ approval[e.approval].decision = KeyOfCall(c)},
    executed <- {c \in Calls : call[c].phase = "executed"}

\* No retry, late answer, lost handler or overlapping review makes a wrapper run a
\* tool that the records do not permit, or run it twice, or changes a verdict.
ImplementsGovernedExecution == Promise!Spec

\* A wrapper never waits forever for the gateway: whatever is lost, run and
\* run_resumed_tool_call return.
EveryCallReturns == \A c \in Calls : InAttempt(c) ~> ~ InAttempt(c)

\* An approval that nobody decided otherwise about.
ApprovedForGood(h) ==
    /\ h # None /\ approval[h].status = "approved"
    /\ \A e \in audit : e.approval = h =>
         e.event \notin {"human_approval_rejected", "human_approval_cancelled"}

\* A blocked call whose review is approved, by nobody disputed, does run: faults
\* delay it, and no answer on record stands in its way.
ApprovedCallsRun ==
    \A c \in Calls :
      (call[c].phase = "waiting" /\ ApprovedForGood(call[c].approval))
        ~> (call[c].phase = "executed" \/ ~ ApprovedForGood(call[c].approval))
=============================================================================

------------------------ MODULE RuntimeAdapterProofs ------------------------
(***************************************************************************)
(* Proofs about RuntimeAdapter: the wrappers and the gateway together      *)
(* implement GovernedExecution, for any calls, connections, attempts and   *)
(* faults.                                                                 *)
(*                                                                         *)
(* The gateway's invariant holds for the requests that reach it here       *)
(* (SentTo).  To it the wrappers add that a connection carries one thing   *)
(* at a time (Own): whatever is in flight on the connection of an attempt  *)
(* is that attempt's request or an answer to it, never one to an attempt   *)
(* that was given up.                                                      *)
(***************************************************************************)
EXTENDS RuntimeAdapter, RuntimeGatewayProofs

ResumeOf(c, n, h) ==
    [op |-> "resume", run |-> c.run, id |-> ResumeId(c, h),
     tool |-> c.tool, original |-> RequestId(c), approval |-> h,
     decision |-> <<c.run, RequestId(c)>>, by |-> Service, conn |-> n]

WrapperRequests ==
    {DecisionRequestOf(c, n) : c \in Calls, n \in Connections}
      \cup {ResumeOf(c, n, h) : c \in Calls, n \in Connections, h \in ApprovalIds}

SentTo == WrapperRequests \cup Incoming

\* What the gateway holds of the wrappers' requests, or has answered, and with what
\* is on its way to it all that is in flight.
Held ==
    {r.to : r \in replies}
      \cup {session[w].req : w \in {v \in Workers : HasConnection(session[v].req)}}

InFlight == wire \cup Held

\* The request of an attempt.
Current(c) ==
    IF call[c].phase = "asking" THEN DecisionRequestOf(c, call[c].conn)
      ELSE ResumeOf(c, call[c].conn, call[c].approval)

\* A connection is in use by one call at most, and has nothing of another request.
Own ==
    /\ \A c \in Calls : call[c].conn # None => InAttempt(c)
    /\ \A c, d \in Calls : call[c].conn # None /\ call[c].conn = call[d].conn => c = d
    /\ \A c \in Calls : \A q \in InFlight :
         InAttempt(c) /\ q.conn = call[c].conn => q = Current(c)

\* A call that waits for its review was told so by the decision on record.
Waiting ==
    \A c \in Calls : call[c].phase \in {"waiting", "resuming"} =>
        /\ call[c].approval \in ApprovalIds
        /\ trace[KeyOfCall(c)].decision = "require_human_review"

AInv ==
    /\ IInv(SentTo)
    /\ wire \subseteq WrapperRequests
    /\ call \in [Calls -> CallState]
    /\ faults \in 0 .. MaxFaults
    /\ Own
    /\ Waiting

-----------------------------------------------------------------------------
(* Requests.                                                               *)

\* The wrappers and the telemetry producers send well-formed requests.
LEMMA SentIsTyped ==
    /\ SentTo \subseteq WireRequest
    /\ WrapperRequests \subseteq DecisionRequest \cup ResumeRequest
    /\ \A c \in Calls : KeyOfCall(c) \in Keys
<1>1. \A c \in Calls : /\ c.run \in Runs /\ c.tool \in Tools /\ c.mode \in Modes
                       /\ RequestId(c) \in EventIds
                       /\ \A h \in ApprovalIds : ResumeId(c, h) \in EventIds
  BY AdapterAssumption, AdapterIdsAssumption DEF Call
<1>2. Service \in Actors
  BY AdapterAssumption, GatewayRolesAssumption
<1>3. ASSUME NEW c \in Calls, NEW n \in Connections
      PROVE  DecisionRequestOf(c, n) \in DecisionRequest
  BY <1>1, <1>2 DEF DecisionRequestOf, DecisionRequest
<1>4. ASSUME NEW c \in Calls, NEW n \in Connections, NEW h \in ApprovalIds
      PROVE  ResumeOf(c, n, h) \in ResumeRequest
  BY <1>1, <1>2 DEF ResumeOf, ResumeRequest, Keys
<1>5. WrapperRequests \subseteq DecisionRequest \cup ResumeRequest
  BY <1>3, <1>4 DEF WrapperRequests
<1> QED
  BY <1>1, <1>5, AdapterAssumption DEF SentTo, WireRequest, KeyOfCall, Keys

\* A stable id tells the calls apart.
LEMMA IdsAreUnique ==
    ASSUME NEW c \in Calls, NEW d \in Calls
    PROVE  /\ KeyOfCall(c) = KeyOfCall(d) => c = d
           /\ \A h, g : ResumeId(c, h) = ResumeId(d, g) => c = d /\ h = g
<1>1. c \in Call /\ d \in Call
  BY AdapterAssumption
<1>2. c.run = d.run /\ c.tool = d.tool /\ c.ref = d.ref /\ c.mode = d.mode => c = d
  BY <1>1 DEF Call
<1> QED
  BY <1>2 DEF KeyOfCall, RequestId, ResumeId

\* A request with a connection comes from a wrapper.
LEMMA ConnectedIsWrappers ==
    ASSUME NEW q \in SentTo, q.op \in {"decide", "resume"}
    PROVE  q \in WrapperRequests /\ HasConnection(q)
<1>1. q \notin Incoming
  BY AdapterAssumption DEF TelemetryRequest
<1>2. q # None
  BY SentIsTyped, GatewayNoneAssumption DEF WireRequest, Request
<1> QED
  BY <1>1, <1>2 DEF SentTo, HasConnection

\* A resume event was written for the approval and the call that its id is made of.
LEMMA ResumeRowIsOfCall ==
    ASSUME IInv(SentTo), NEW c \in Calls, NEW n \in Connections, NEW h \in ApprovalIds,
           trace[KeyOf(ResumeOf(c, n, h))].type = "resume"
    PROVE  /\ trace[KeyOf(ResumeOf(c, n, h))].original = RequestId(c)
           /\ trace[KeyOf(ResumeOf(c, n, h))].approval = h
<1> DEFINE k == KeyOf(ResumeOf(c, n, h))
<1>1. k = <<c.run, ResumeId(c, h)>> /\ k \in Keys
  BY AdapterAssumption, AdapterIdsAssumption DEF KeyOf, ResumeOf, Keys, Call
<1>2. PICK q \in SentTo : /\ q.op = "resume" /\ KeyOf(q) = k
                          /\ q.original = trace[k].original /\ q.approval = trace[k].approval
  BY <1>1 DEF IInv, DbOK, RowOK
<1>3. q \in WrapperRequests
  BY <1>2, ConnectedIsWrappers
<1>4. PICK d \in Calls, m \in Connections, g \in ApprovalIds : q = ResumeOf(d, m, g)
  BY <1>2, <1>3 DEF WrapperRequests, DecisionRequestOf
<1>5. ResumeId(d, g) = ResumeId(c, h) /\ q.original = RequestId(d) /\ q.approval = g
  BY <1>1, <1>2, <1>4 DEF KeyOf, ResumeOf
<1>6. d = c /\ g = h
  BY <1>5, IdsAreUnique
<1> QED
  BY <1>2, <1>5, <1>6

-----------------------------------------------------------------------------
(* Where requests go.                                                      *)

\* A handler that ends with a response to a request in flight adds nothing to it.
LEMMA ResponseIsHeld ==
    ASSUME session \in [Workers -> Session], NEW w \in Workers, NEW q, Leave(w),
           replies' = replies \/ \E kind, d, h, st : Send(q, kind, d, h, st)
    PROVE  /\ Held' \subseteq Held \cup {q}
           /\ replies' = replies => Held' \subseteq Held
<1>1. \A v \in Workers : session'[v].req = session[v].req \/ ~ HasConnection(session'[v].req)
  BY DEF Leave, Idle, HasConnection
<1>2. \A r \in replies' : r \in replies \/ r.to = q
  BY DEF Send
<1>3. ASSUME NEW v \in Workers, HasConnection(session'[v].req)
      PROVE  session'[v].req \in Held
  BY <1>1, <1>3 DEF Held
<1>4. ASSUME NEW r \in replies'
      PROVE  r.to \in Held \cup {q}
  BY <1>2, <1>4 DEF Held
<1> QED
  BY <1>3, <1>4 DEF Held, HasConnection

\* A handler that enters with a request holds it.
LEMMA EntryIsHeld ==
    ASSUME session \in [Workers -> Session], NEW w \in Workers, NEW s, NEW q,
           session' = [session EXCEPT ![w] = s], replies' = replies,
           s.req = q
    PROVE  /\ Held' \subseteq Held \cup {q}
           /\ ~ HasConnection(q) => Held' \subseteq Held
<1>1. ASSUME NEW v \in Workers, HasConnection(session'[v].req)
      PROVE  session'[v].req \in Held \/ (session'[v].req = q /\ HasConnection(q))
  BY <1>1 DEF Held
<1> QED
  BY <1>1 DEF Held

LEMMA ReceiveHolds ==
    ASSUME IInv(SentTo), NEW w \in Workers, NEW q \in SentTo, Receive(w, q)
    PROVE  /\ Held' \subseteq Held \cup {q}
           /\ q.op = "telemetry" => Held' \subseteq Held
<1>1. session \in [Workers -> Session]
  BY DEF IInv
<1>2. CASE /\ q.op # "telemetry" /\ Leave(w)
           /\ \E kind, d, h, st : Send(q, kind, d, h, st)
  BY <1>1, <1>2, ResponseIsHeld
<1>3. ASSUME NEW s, s.req = q, session' = [session EXCEPT ![w] = s], replies' = replies
      PROVE  /\ Held' \subseteq Held \cup {q}
             /\ q.op = "telemetry" => Held' \subseteq Held
  <2>1. q.op = "telemetry" => ~ HasConnection(q)
    BY DEF HasConnection
  <2> QED
    BY <1>1, <1>3, <2>1, EntryIsHeld
<1>4. CASE q.op = "decide" /\ ReceiveDecision(w, q)
  <2>1. \/ /\ Enter(w, [Idle EXCEPT !.pc = "commit", !.req = q, !.knownRun = q.run \in runs])
           /\ replies' = replies
        \/ Enter(w, [Idle EXCEPT !.pc = "replay", !.req = q]) /\ replies' = replies
        \/ Answer(w, q, "not_applicable", None, None)
        \/ Refuse(w, q)
    BY <1>4 DEF ReceiveDecision
  <2> QED
    BY <1>2, <1>3, <1>4, <2>1 DEF Enter, Answer, Refuse, Idle
<1>5. CASE q.op = "resume" /\ ReceiveResume(w, q)
  <2>1. \/ /\ Enter(w, [Idle EXCEPT !.pc = "lookup", !.req = q,
                                    !.status = approval[q.approval].status])
           /\ replies' = replies
        \/ Refuse(w, q)
    BY <1>5 DEF ReceiveResume
  <2> QED
    BY <1>2, <1>3, <1>5, <2>1 DEF Enter, Refuse, Idle
<1>6. CASE q.op = "telemetry" /\ ReceiveTelemetry(w, q)
  BY <1>3, <1>6 DEF ReceiveTelemetry, Enter, Idle
<1> QED
  BY <1>4, <1>5, <1>6 DEF Receive

\* A handler answers the request that it was called with.
LEMMA ContinueHolds ==
    ASSUME IInv(SentTo), NEW w \in Workers, Continue(w) \/ Abandon(w)
    PROVE  Held' \subseteq Held
<1> DEFINE q == session[w].req
<1>1. session \in [Workers -> Session] /\ SessionOK(session[w], SentTo, trace, approval, audit)
  BY DEF IInv
<1>2. q \in SentTo /\ q.op \in {"decide", "resume"} => q \in Held
  BY ConnectedIsWrappers DEF Held
<1>3. session[w].pc = "commit" /\ q.op \in {"decide", "resume"} => q \in SentTo
  BY <1>1 DEF SessionOK, ApprovalRequest
<1>4. CASE ReplayDecision(w)
  <2>1. q \in Held
    BY <1>1, <1>2, <1>4 DEF ReplayDecision, SessionOK
  <2> QED
    BY <1>1, <1>4, <2>1, ResponseIsHeld DEF ReplayDecision, Answer
<1>5. CASE CommitDecision(w) \/ CommitResume(w)
  <2>1. q \in Held
    BY <1>2, <1>3, <1>5 DEF CommitDecision, CommitResume, Committing
  <2>2. Leave(w) /\ \E kind, d, h, st : Send(q, kind, d, h, st)
    BY <1>5 DEF CommitDecision, CommitResume, Answer, Fail
  <2> HIDE DEF q
  <2> QED
    BY <1>1, <2>1, <2>2, ResponseIsHeld
<1>6. CASE LookUpResume(w)
  <2>1. q \in Held
    BY <1>1, <1>2, <1>6 DEF LookUpResume, SessionOK
  <2>2. CASE Leave(w) /\ \E kind, d, h, st : Send(q, kind, d, h, st)
    BY <1>1, <2>1, <2>2, ResponseIsHeld
  <2>3. CASE /\ session' = [session EXCEPT ![w].pc = "commit",
                                           ![w].knownRun = q.run \in runs]
             /\ replies' = replies
    <3>1. \A v \in Workers : session'[v].req = session[v].req
      BY <1>1, <2>3 DEF Session
    <3> QED
      BY <2>3, <3>1 DEF Held
  <2> QED
    BY <1>6, <2>2, <2>3 DEF LookUpResume, Answer, Refuse
<1>7. ASSUME Leave(w), replies' = replies
      PROVE  Held' \subseteq Held
  BY <1>1, <1>7, ResponseIsHeld
<1>8. CASE CommitTelemetry(w) \/ Abandon(w)
             \/ ApproveApproval(w) \/ RejectApproval(w) \/ CancelApproval(w)
  BY <1>7, <1>8 DEF CommitTelemetry, Abandon, ApproveApproval, RejectApproval,
     CancelApproval, Decide
<1> QED
  BY <1>4, <1>5, <1>6, <1>8 DEF Continue

LEMMA ReviewHolds ==
    ASSUME IInv(SentTo), Review
    PROVE  Held' \subseteq Held
<1>1. session \in [Workers -> Session]
  BY DEF IInv
<1>2. ASSUME NEW w \in Workers, NEW op \in {"approve", "reject", "cancel"}, NEW h, NEW a,
             ReadPendingApproval(w, op, h, a)
      PROVE  Held' \subseteq Held
  <2> DEFINE s == [Idle EXCEPT !.pc = "commit",
                               !.req = [op |-> op, approval |-> h, by |-> a]]
  <2>1. session' = [session EXCEPT ![w] = s] /\ replies' = replies
    BY <1>2 DEF ReadPendingApproval, Enter
  <2>2. ~ HasConnection(s.req)
    BY DEF Idle, HasConnection
  <2> HIDE DEF s
  <2> QED
    BY <1>1, <2>1, <2>2, EntryIsHeld
<1>3. CASE UNCHANGED <<session, replies>>
  BY <1>3 DEF Held
<1> QED
  BY <1>2, <1>3 DEF Review, CreateApproval, PassDue

-----------------------------------------------------------------------------
(* The invariant.                                                          *)

\* Dropping responses hurts nobody.
LEMMA RepliesDropped ==
    ASSUME IInv(SentTo), UNCHANGED <<Tables, session>>, replies' \subseteq replies
    PROVE  IInv(SentTo)'
BY DEF Tables, IInv

\* The gateway moves, on requests that reached it, and nobody else.
LEMMA GatewayMoves ==
    ASSUME AInv, Preserved(SentTo), InFlight' \subseteq InFlight, wire' \subseteq wire,
           call' = call, faults' \in 0 .. MaxFaults
    PROVE  AInv'
<1>1. Own'
  BY DEF AInv, Own, Current, InAttempt, DecisionRequestOf
<1>2. Waiting'
  <2> SUFFICES ASSUME NEW c \in Calls, call[c].phase \in {"waiting", "resuming"}
               PROVE  /\ call[c].approval \in ApprovalIds
                      /\ trace'[KeyOfCall(c)].decision = "require_human_review"
    BY DEF Waiting
  <2>1. /\ call[c].approval \in ApprovalIds
        /\ trace[KeyOfCall(c)].decision = "require_human_review"
    BY DEF AInv, Waiting
  <2>2. KeyOfCall(c) \in Keys
    BY SentIsTyped
  <2>3. trace[KeyOfCall(c)].type # "absent"
    BY <2>1, <2>2, GatewayNoneAssumption DEF AInv, IInv, DbOK, RowOK, NoTrace, Decisions
  <2> QED
    BY <2>1, <2>2, <2>3 DEF Preserved, Grows
<1> QED
  BY <1>1, <1>2 DEF AInv, Preserved

\* An attempt takes a connection that carries nothing.
LEMMA AttemptKeeps ==
    ASSUME AInv, NEW c \in Calls, NEW phase \in {"asking", "resuming"},
           NEW i \in 1 .. MaxAttempts, Attempt(c, phase, i),
           phase = "resuming" => call[c].phase \in {"waiting", "resuming"},
           faults' \in 0 .. MaxFaults
    PROVE  AInv'
<1> DEFINE n == CHOOSE n \in Free : TRUE
           q == IF phase = "asking" THEN DecisionRequestOf(c, n) ELSE ResumeRequestOf(c, n)
<1>1. /\ n \in Free /\ call' = [call EXCEPT ![c].phase = phase, ![c].attempt = i, ![c].conn = n]
      /\ wire' = wire \cup {q} /\ replies' = {r \in replies : r.to.conn # n}
      /\ UNCHANGED <<Tables, session>>
  BY DEF Attempt
<1> HIDE DEF n
<1>2. /\ n \in Connections /\ n # None
      /\ \A p \in wire : p.conn # n
      /\ \A w \in Workers : HasConnection(session[w].req) => session[w].req.conn # n
      /\ \A d \in Calls : call[d].conn # n
  BY <1>1, AdapterIdsAssumption DEF Free
<1>3. phase = "resuming" => call[c].approval \in ApprovalIds
  BY DEF AInv, Waiting
<1>4. call \in [Calls -> CallState]
  BY DEF AInv
<1>5. /\ call'[c].phase = phase /\ call'[c].conn = n /\ call'[c].attempt = i
      /\ call'[c].approval = call[c].approval
      /\ \A d \in Calls \ {c} : call'[d] = call[d]
  BY <1>1, <1>4 DEF CallState
<1>6. call' \in [Calls -> CallState]
  BY <1>1, <1>2, <1>4, AdapterAssumption DEF CallState
<1>7. q = Current(c)' /\ q.conn = n /\ q \in WrapperRequests
  <2>1. CASE phase = "asking"
    BY <1>2, <1>5, <2>1 DEF Current, DecisionRequestOf, WrapperRequests
  <2>2. CASE phase = "resuming"
    BY <1>2, <1>3, <1>5, <2>2 DEF Current, ResumeRequestOf, ResumeOf, WrapperRequests
  <2> QED
    BY <2>1, <2>2
<1> HIDE DEF q
<1>8. \A p \in InFlight' : p = q \/ (p \in InFlight /\ p.conn # n)
  BY <1>1, <1>2 DEF InFlight, Held
<1>9. Own'
  <2>1. \A d \in Calls : call'[d].conn # None => InAttempt(d)'
    BY <1>5 DEF AInv, Own, InAttempt
  <2>2. \A d, e \in Calls : call'[d].conn # None /\ call'[d].conn = call'[e].conn => d = e
    BY <1>2, <1>5 DEF AInv, Own
  <2>3. ASSUME NEW d \in Calls, NEW p \in InFlight', InAttempt(d)', p.conn = call'[d].conn
        PROVE  p = Current(d)'
    <3>1. CASE d = c
      BY <1>5, <1>7, <1>8, <2>3, <3>1
    <3>2. CASE d # c
      <4>1. call'[d] = call[d]
        BY <1>5, <3>2
      <4>2. p \in InFlight
        BY <1>2, <1>7, <1>8, <2>3, <4>1
      <4>3. p = Current(d)
        BY <2>3, <4>1, <4>2 DEF AInv, Own, InAttempt
      <4> QED
        BY <4>1, <4>3 DEF Current, DecisionRequestOf
    <3> QED
      BY <3>1, <3>2
  <2> QED
    BY <2>1, <2>2, <2>3 DEF Own
<1>10. Waiting'
  BY <1>1, <1>5 DEF AInv, Waiting, Tables
<1>11. IInv(SentTo)'
  BY <1>1, RepliesDropped DEF AInv
<1> QED
  BY <1>1, <1>6, <1>7, <1>9, <1>10, <1>11 DEF AInv

\* A wrapper that returns gives its connection back.
LEMMA ReturnKeeps ==
    ASSUME AInv, NEW c \in Calls, NEW phase \in {"waiting", "blocked", "executed"},
           NEW h \in ApprovalIds \cup {None}, Return(c, phase, h),
           phase = "waiting" =>
             h \in ApprovalIds /\ trace[KeyOfCall(c)].decision = "require_human_review",
           faults' \in 0 .. MaxFaults
    PROVE  AInv'
<1> DEFINE s == [phase |-> phase, attempt |-> 0, conn |-> None, approval |-> h]
<1>1. call' = [call EXCEPT ![c] = s] /\ UNCHANGED <<vars, wire>>
  BY DEF Return
<1>2. /\ runs' = runs /\ trace' = trace /\ approval' = approval /\ audit' = audit
      /\ session' = session /\ replies' = replies /\ wire' = wire
  BY <1>1 DEF vars
<1>3. s \in CallState
  BY AdapterAssumption DEF CallState
<1>4. /\ call' \in [Calls -> CallState] /\ call'[c] = s
      /\ \A d \in Calls \ {c} : call'[d] = call[d]
  BY <1>1, <1>3 DEF AInv
<1>5. InFlight' = InFlight
  BY <1>2 DEF InFlight, Held
<1>6. Own'
  <2>1. \A d \in Calls : call'[d].conn # None => d # c
    BY <1>4
  <2>2. ~ InAttempt(c)'
    BY <1>4 DEF InAttempt
  <2>3. ASSUME NEW d \in Calls, d # c
        PROVE  Current(d)' = Current(d) /\ InAttempt(d)' = InAttempt(d)
    BY <1>4, <2>3 DEF Current, DecisionRequestOf, InAttempt
  <2> QED
    BY <1>4, <1>5, <2>1, <2>2, <2>3 DEF AInv, Own
<1>7. Waiting'
  BY <1>2, <1>4 DEF AInv, Waiting
<1>8. IInv(SentTo)'
  BY <1>2, RepliesDropped DEF AInv, Tables
<1> QED
  BY <1>2, <1>4, <1>6, <1>7, <1>8 DEF AInv

\* What the wrapper makes of a response.
Outcome(r) ==
    CASE r.decision = "allow" -> "executed"
      [] r.decision = "require_human_review" -> "waiting"
      [] OTHER -> "blocked"

\* An answer on the connection of an attempt is an answer to it.
LEMMA AnswerIsToAttempt ==
    ASSUME AInv, NEW c \in Calls, InAttempt(c), NEW r \in RepliesTo(c)
    PROVE  r.to = Current(c) /\ call[c].conn \in Connections /\ ReplyOK(r, SentTo, trace, approval, audit)
<1>1. r \in replies /\ r.to.conn = call[c].conn /\ r.to \in InFlight
  BY DEF RepliesTo, InFlight, Held
<1>2. r.to = Current(c) /\ ReplyOK(r, SentTo, trace, approval, audit)
  BY <1>1 DEF AInv, Own, IInv
<1>3. r.to.conn \in Connections
  BY <1>2 DEF ReplyOK, Reply, DecisionRequest, ResumeRequest
<1> QED
  BY <1>1, <1>2, <1>3

\* What the wrapper is told to do by a decision is what is on record for its call.
LEMMA DecisionIsOnRecord ==
    ASSUME AInv, NEW c \in Calls, call[c].phase = "asking",
           NEW r \in RepliesTo(c), r.kind = "answer"
    PROVE  /\ r.approval \in ApprovalIds \cup {None}
           /\ r.decision = "allow" => trace[KeyOfCall(c)].decision = "allow"
           /\ r.decision = "require_human_review" =>
                /\ r.approval \in ApprovalIds
                /\ trace[KeyOfCall(c)].decision = "require_human_review"
<1>1. r.to = DecisionRequestOf(c, call[c].conn) /\ ReplyOK(r, SentTo, trace, approval, audit)
  BY AnswerIsToAttempt DEF InAttempt, Current
<1>2. r.to.op = "decide" /\ KeyOf(r.to) = KeyOfCall(c)
  BY <1>1 DEF DecisionRequestOf, KeyOf, KeyOfCall
<1> QED
  BY <1>1, <1>2 DEF ReplyOK, Present, Reply

\* Calls with a reviewer's approval on record.
Granted(c) ==
    \E e \in audit : /\ e.event = "human_approval_approved"
                     /\ approval[e.approval].decision = KeyOfCall(c)

\* A resume check allows a call only if it was granted.
LEMMA ResumeIsGranted ==
    ASSUME AInv, NEW c \in Calls, call[c].phase = "resuming",
           NEW r \in RepliesTo(c), r.kind = "answer", r.decision = "allow"
    PROVE  Granted(c)
<1> DEFINE n == call[c].conn
           h == call[c].approval
           q == ResumeOf(c, n, h)
           k == KeyOf(q)
<1>1. r.to = q /\ n \in Connections /\ ReplyOK(r, SentTo, trace, approval, audit)
  BY AnswerIsToAttempt DEF InAttempt, Current
<1>2. h \in ApprovalIds
  BY DEF AInv, Waiting
<1>3. q.op = "resume" /\ k = <<c.run, ResumeId(c, h)>> /\ k \in Keys
  BY <1>2, AdapterAssumption, AdapterIdsAssumption DEF ResumeOf, KeyOf, Keys, Call
<1>4. trace[k].type = "resume" /\ ResumeDecision(trace[k].status) = "allow"
  BY <1>1, <1>3 DEF ReplyOK
<1>5. trace[k].original = RequestId(c)
  BY <1>1, <1>2, <1>4, ResumeRowIsOfCall DEF AInv
<1>6. ResumeAllowWasApproved
  BY SentIsTyped, IInvResumes DEF AInv
<1>7. /\ approval[trace[k].approval].decision = <<k[1], trace[k].original>>
      /\ \E e \in audit : e.event = "human_approval_approved" /\ e.approval = trace[k].approval
  BY <1>3, <1>4, <1>6 DEF ResumeAllowWasApproved
<1> QED
  BY <1>3, <1>5, <1>7 DEF Granted, KeyOfCall

\* Whatever the wrapper does is an attempt or a return.
LEMMA WrapperKeeps ==
    ASSUME AInv, NEW c \in Calls, Wrapper(c)
    PROVE  AInv'
<1>1. call[c] \in CallState /\ faults \in 0 .. MaxFaults
  BY DEF AInv
<1>2. faults' \in 0 .. MaxFaults
  BY <1>1, AdapterAssumption DEF Wrapper, Run, Resume, HandleDecision, HandleResume,
     HandleError, Timeout
<1>3. CASE Run(c)
  BY <1>2, <1>3, AttemptKeeps, AdapterAssumption DEF Run
<1>4. CASE Resume(c)
  BY <1>2, <1>4, AttemptKeeps, AdapterAssumption DEF Resume
<1>5. CASE HandleDecision(c)
  <2>1. PICK r \in RepliesTo(c) : r.kind = "answer" /\ Return(c, Outcome(r), r.approval)
    BY <1>5 DEF HandleDecision, Outcome
  <2>2. /\ r.approval \in ApprovalIds \cup {None}
        /\ r.decision = "require_human_review" =>
             /\ r.approval \in ApprovalIds
             /\ trace[KeyOfCall(c)].decision = "require_human_review"
    BY <1>5, <2>1, DecisionIsOnRecord DEF HandleDecision
  <2>3. /\ Outcome(r) \in {"waiting", "blocked", "executed"}
        /\ Outcome(r) = "waiting" => r.decision = "require_human_review"
    BY DEF Outcome
  <2> QED
    BY <1>2, <2>1, <2>2, <2>3, ReturnKeeps
<1>6. CASE HandleResume(c)
  <2>1. PICK r \in RepliesTo(c) : r.kind = "answer" /\ Return(c, Outcome(r), call[c].approval)
    BY <1>6 DEF HandleResume, Outcome
  <2>2. call[c].approval \in ApprovalIds
        /\ trace[KeyOfCall(c)].decision = "require_human_review"
    BY <1>6 DEF HandleResume, AInv, Waiting
  <2>3. Outcome(r) \in {"waiting", "blocked", "executed"}
    BY DEF Outcome
  <2> QED
    BY <1>2, <2>1, <2>2, <2>3, ReturnKeeps
<1>7. ASSUME InAttempt(c), RetryOrGiveUp(c)
      PROVE  AInv'
  <2>1. CASE call[c].attempt < MaxAttempts
    <3>1. call[c].attempt + 1 \in 1 .. MaxAttempts
      BY <1>1, <2>1, AdapterAssumption DEF CallState
    <3>2. Attempt(c, call[c].phase, call[c].attempt + 1)
      BY <1>7, <2>1 DEF RetryOrGiveUp
    <3> QED
      BY <1>2, <1>7, <3>1, <3>2, AttemptKeeps DEF InAttempt
  <2>2. CASE ~ (call[c].attempt < MaxAttempts)
    <3>1. Return(c, IF call[c].phase = "asking" THEN "blocked" ELSE "waiting",
                    call[c].approval)
      BY <1>7, <2>2 DEF RetryOrGiveUp
    <3>2. CASE call[c].phase = "asking"
      BY <1>1, <1>2, <3>1, <3>2, ReturnKeeps DEF CallState
    <3>3. CASE call[c].phase = "resuming"
      <4>1. call[c].approval \in ApprovalIds
            /\ trace[KeyOfCall(c)].decision = "require_human_review"
        BY <3>3 DEF AInv, Waiting
      <4> QED
        BY <1>2, <3>1, <3>3, <4>1, ReturnKeeps
    <3> QED
      BY <1>7, <3>2, <3>3 DEF InAttempt
  <2> QED
    BY <2>1, <2>2
<1> QED
  BY <1>3, <1>4, <1>5, <1>6, <1>7 DEF Wrapper, HandleError, Timeout

LEMMA ReceiveFromKeeps ==
    ASSUME AInv, NEW n \in Connections, ReceiveFrom(n)
    PROVE  AInv' /\ Preserved(SentTo)
<1>1. PICK w \in Workers, q \in wire : /\ Receive(w, q) /\ wire' = wire \ {q}
                                       /\ call' = call /\ faults' = faults
  BY DEF ReceiveFrom
<1>2. q \in SentTo
  BY DEF AInv, SentTo
<1>3. Preserved(SentTo)
  BY <1>1, <1>2, SentIsTyped, ReceiveStep DEF AInv
<1>4. Held' \subseteq Held \cup {q}
  BY <1>1, <1>2, ReceiveHolds DEF AInv
<1>5. InFlight' \subseteq InFlight
  BY <1>1, <1>4 DEF InFlight
<1> QED
  BY <1>1, <1>3, <1>5, GatewayMoves DEF AInv

LEMMA ReceiveOtherKeeps ==
    ASSUME AInv, ReceiveOther
    PROVE  AInv' /\ Preserved(SentTo)
<1>1. PICK w \in Workers, q \in Incoming : Receive(w, q)
  BY DEF ReceiveOther
<1>2. q \in SentTo /\ q.op = "telemetry"
  BY AdapterAssumption DEF SentTo, TelemetryRequest
<1>3. Preserved(SentTo)
  BY <1>1, <1>2, SentIsTyped, ReceiveStep DEF AInv
<1>4. Held' \subseteq Held
  BY <1>1, <1>2, ReceiveHolds DEF AInv
<1> QED
  BY <1>3, <1>4, GatewayMoves DEF AInv, ReceiveOther, InFlight

LEMMA HandlerKeeps ==
    ASSUME AInv, NEW w \in Workers, ContinueHandler(w) \/ LoseHandler(w)
    PROVE  AInv' /\ Preserved(SentTo)
<1>1. Preserved(SentTo)
  BY SentIsTyped, ContinueStep, AbandonStep DEF AInv, ContinueHandler, LoseHandler
<1>2. Held' \subseteq Held
  BY ContinueHolds DEF AInv, ContinueHandler, LoseHandler
<1>3. faults' \in 0 .. MaxFaults
  BY AdapterAssumption DEF AInv, ContinueHandler, LoseHandler
<1> QED
  BY <1>1, <1>2, <1>3, GatewayMoves DEF ContinueHandler, LoseHandler, InFlight

LEMMA ReviewKeeps ==
    ASSUME AInv, ReviewApprovals
    PROVE  AInv' /\ Preserved(SentTo)
<1>1. Preserved(SentTo)
  BY SentIsTyped, ReviewStep DEF AInv, ReviewApprovals
<1>2. Held' \subseteq Held
  BY ReviewHolds DEF AInv, ReviewApprovals
<1> QED
  BY <1>1, <1>2, GatewayMoves DEF AInv, ReviewApprovals, InFlight

LEMMA NothingKeeps ==
    ASSUME AInv, UNCHANGED adapterVars
    PROVE  AInv' /\ Preserved(SentTo)
<1>1. Preserved(SentTo)
  BY SentIsTyped, StutterStep DEF AInv, adapterVars
<1> QED
  BY <1>1, GatewayMoves DEF AInv, adapterVars, vars, InFlight, Held

LEMMA InitAInv ==
    ASSUME AdapterInit
    PROVE  AInv
<1>1. IInv(SentTo)
  BY InitIInv DEF AdapterInit
<1>2. InFlight = {}
  BY DEF AdapterInit, Init, InFlight, Held, Idle, HasConnection
<1>3. call \in [Calls -> CallState] /\ faults \in 0 .. MaxFaults
  BY AdapterAssumption DEF AdapterInit, CallState
<1>4. Own /\ Waiting
  BY <1>2 DEF AdapterInit, Own, Waiting
<1> QED
  BY <1>1, <1>3, <1>4 DEF AInv, AdapterInit

LEMMA NextAInv ==
    ASSUME AInv, [AdapterNext]_adapterVars
    PROVE  AInv'
BY WrapperKeeps, ReceiveFromKeeps, ReceiveOtherKeeps, HandlerKeeps, ReviewKeeps, NothingKeeps
   DEF AdapterNext

LEMMA AdapterInvariant == AdapterSpec => []AInv
<1>1. AdapterInit => AInv
  BY InitAInv
<1>2. AInv /\ [AdapterNext]_adapterVars => AInv'
  BY NextAInv
<1> QED
  BY <1>1, <1>2, PTL DEF AdapterSpec

\* The gateway, the wires and the wrappers stay well formed.
THEOREM AdapterTypeCorrect == AdapterSpec => []AdapterTypeOK
<1>1. AInv => AdapterTypeOK
  BY SentIsTyped, IInvTypes DEF AInv, AdapterTypeOK
<1> QED
  BY <1>1, AdapterInvariant, PTL

-----------------------------------------------------------------------------
(* The refinement.                                                         *)

VerdictOf == [c \in Calls |-> trace[KeyOfCall(c)].decision]

GrantedCalls == {c \in Calls : Granted(c)}

ExecutedCalls == {c \in Calls : call[c].phase = "executed"}

OneRow ==
    \E k \in Keys : trace[k].type = "absent" /\ \A j \in Keys \ {k} : trace'[j] = trace[j]

NoNewGrant == \A e \in audit' : e.event = "human_approval_approved" => e \in audit

OneEntry ==
    \E h \in ApprovalIds : Present(h, approval) /\ \A e \in audit' : e \in audit \/ e.approval = h

\* A transaction of the gateway records an event or moves an approval.
CommitsOne ==
    \/ NoNewGrant /\ (OneRow \/ trace' = trace)
    \/ OneEntry /\ trace' = trace

\* The abstract specification takes a step, or none.
PromiseKept == [Promise!Next]_(Promise!vars)

LEMMA PromiseIs ==
    /\ Promise!Init <=> /\ VerdictOf = [c \in Calls |-> None]
                        /\ GrantedCalls = {} /\ ExecutedCalls = {}
    /\ PromiseKept <=>
         \/ \E c \in Calls :
              /\ VerdictOf[c] = None
              /\ \E d \in Decisions : VerdictOf' = [VerdictOf EXCEPT ![c] = d]
              /\ GrantedCalls' = GrantedCalls /\ ExecutedCalls' = ExecutedCalls
         \/ \E c \in Calls :
              /\ VerdictOf[c] # None
              /\ GrantedCalls' = GrantedCalls \cup {c}
              /\ VerdictOf' = VerdictOf /\ ExecutedCalls' = ExecutedCalls
         \/ \E c \in Calls :
              /\ c \notin ExecutedCalls
              /\ \/ VerdictOf[c] = "allow"
                 \/ VerdictOf[c] = "require_human_review" /\ c \in GrantedCalls
              /\ ExecutedCalls' = ExecutedCalls \cup {c}
              /\ VerdictOf' = VerdictOf /\ GrantedCalls' = GrantedCalls
         \/ VerdictOf' = VerdictOf /\ GrantedCalls' = GrantedCalls
              /\ ExecutedCalls' = ExecutedCalls
<1>1. Promise!Init <=> /\ VerdictOf = [c \in Calls |-> None]
                       /\ GrantedCalls = {} /\ ExecutedCalls = {}
  BY Zenon DEF Promise!Init, VerdictOf, GrantedCalls, Granted, ExecutedCalls
<1>2. (Promise!vars)' = Promise!vars <=>
         VerdictOf' = VerdictOf /\ GrantedCalls' = GrantedCalls /\ ExecutedCalls' = ExecutedCalls
  BY Zenon DEF Promise!vars, VerdictOf, GrantedCalls, Granted, ExecutedCalls
<1>3. \A c : Promise!Decide(c) <=>
         /\ VerdictOf[c] = None
         /\ \E d \in Decisions : VerdictOf' = [VerdictOf EXCEPT ![c] = d]
         /\ GrantedCalls' = GrantedCalls /\ ExecutedCalls' = ExecutedCalls
  BY Zenon DEF Promise!Decide, Promise!Verdicts, Decisions, VerdictOf, GrantedCalls, Granted,
     ExecutedCalls
<1>4. \A c : Promise!Grant(c) <=>
         /\ VerdictOf[c] # None
         /\ GrantedCalls' = GrantedCalls \cup {c}
         /\ VerdictOf' = VerdictOf /\ ExecutedCalls' = ExecutedCalls
  BY Zenon DEF Promise!Grant, VerdictOf, GrantedCalls, Granted, ExecutedCalls
<1>5. \A c : Promise!Execute(c) <=>
         /\ c \notin ExecutedCalls
         /\ \/ VerdictOf[c] = "allow"
            \/ VerdictOf[c] = "require_human_review" /\ c \in GrantedCalls
         /\ ExecutedCalls' = ExecutedCalls \cup {c}
         /\ VerdictOf' = VerdictOf /\ GrantedCalls' = GrantedCalls
  BY Zenon DEF Promise!Execute, Promise!Permitted, VerdictOf, GrantedCalls, Granted,
     ExecutedCalls
<1> QED
  BY <1>1, <1>2, <1>3, <1>4, <1>5 DEF PromiseKept, Promise!Next

\* Nothing is committed.
LEMMA NothingCommitted ==
    ASSUME UNCHANGED Tables
    PROVE  CommitsOne
BY DEF Tables, CommitsOne, NoNewGrant

\* A request for a review grants nothing.
LEMMA InsertGrantsNothing ==
    ASSUME NEW k, NEW a, NEW due, InsertApproval(k, a, due)
    PROVE  NoNewGrant
BY DEF InsertApproval, Entry, NoNewGrant

\* An event goes where there was none, with an approval at most.
LEMMA EvaluationCommitsOne ==
    ASSUME IInv(SentTo), NEW w \in Workers, session[w].req \in SentTo, NEW row,
           IndexesAccept(w), InsertTrace(w, row), ReviewIsRequested(w, row)
    PROVE  CommitsOne
<1> DEFINE k == KeyOf(session[w].req)
<1>1. k \in Keys /\ trace \in [Keys -> TraceRow]
  BY SentIsTyped, KindsOfRequests DEF IInv, DbOK
<1>2. OneRow
  BY <1>1 DEF OneRow, IndexesAccept, InsertTrace
<1>3. NoNewGrant
  <2>1. audit' = audit => NoNewGrant
    BY DEF NoNewGrant
  <2> QED
    BY <2>1, InsertGrantsNothing DEF ReviewIsRequested
<1> QED
  BY <1>2, <1>3 DEF CommitsOne

LEMMA ContinueCommits ==
    ASSUME IInv(SentTo), NEW w \in Workers, Continue(w) \/ Abandon(w)
    PROVE  CommitsOne
<1> DEFINE q == session[w].req
<1>1. SessionOK(session[w], SentTo, trace, approval, audit)
  BY DEF IInv
<1>2. session[w].pc = "commit" /\ q.op \in {"decide", "resume", "telemetry"} => q \in SentTo
  BY <1>1 DEF SessionOK, ApprovalRequest
<1>3. CASE ReplayDecision(w) \/ LookUpResume(w) \/ Abandon(w)
  BY <1>3, NothingCommitted DEF ReplayDecision, LookUpResume, Abandon
<1>4. CASE CommitDecision(w) \/ CommitTelemetry(w)
  <2>1. session[w].req \in SentTo
    BY <1>2, <1>4 DEF CommitDecision, CommitTelemetry, Committing
  <2>2. CASE UNCHANGED Tables
    BY <2>2, NothingCommitted
  <2>3. CASE IndexesAccept(w) /\ \E row : InsertTrace(w, row) /\ ReviewIsRequested(w, row)
    BY <2>1, <2>3, EvaluationCommitsOne
  <2> QED
    BY <1>4, <2>2, <2>3 DEF CommitDecision, CommitTelemetry
<1>5. CASE CommitResume(w)
  <2>1. CASE UNCHANGED Tables
    BY <2>1, NothingCommitted
  <2>2. CASE IndexesAccept(w)
    <3>1. q \in SentTo
      BY <1>2, <1>5 DEF CommitResume, Committing
    <3>2. KeyOf(q) \in Keys /\ trace \in [Keys -> TraceRow]
      BY <3>1, SentIsTyped, KindsOfRequests DEF IInv, DbOK
    <3>3. OneRow
      BY <1>5, <2>2, <3>2 DEF CommitResume, OneRow, IndexesAccept, InsertTrace
    <3>4. NoNewGrant
      BY <1>5, <2>2 DEF CommitResume, Entry, NoNewGrant
    <3> QED
      BY <3>3, <3>4 DEF CommitsOne
  <2> QED
    BY <1>5, <2>1, <2>2 DEF CommitResume
<1>6. ASSUME NEW op, NEW status, NEW event, op \in {"approve", "reject", "cancel"},
             Decide(w, op, status, event)
      PROVE  CommitsOne
  <2>1. Present(q.approval, approval)
    BY <1>1, <1>6 DEF SessionOK, Decide, Committing
  <2>2. \A e \in audit' : e \in audit \/ e.approval = q.approval
    BY <1>6 DEF Decide, Entry
  <2> QED
    BY <1>6, <2>1, <2>2 DEF CommitsOne, OneEntry, Decide, Present
<1>7. CASE ApproveApproval(w) \/ RejectApproval(w) \/ CancelApproval(w)
  BY <1>6, <1>7 DEF ApproveApproval, RejectApproval, CancelApproval
<1> QED
  BY <1>3, <1>4, <1>5, <1>7 DEF Continue

LEMMA ReviewCommits ==
    ASSUME Review
    PROVE  CommitsOne
<1>1. CASE UNCHANGED Tables
  BY <1>1, NothingCommitted
<1>2. ASSUME NEW a, NEW k, NEW due, CreateApproval(a, k, due)
      PROVE  CommitsOne
  BY <1>2, InsertGrantsNothing DEF CreateApproval, CommitsOne
<1>3. ASSUME NEW h, PassDue(h)
      PROVE  CommitsOne
  BY <1>3 DEF PassDue, CommitsOne, NoNewGrant
<1> QED
  BY <1>1, <1>2, <1>3 DEF Review, ReadPendingApproval

\* A step of the gateway gives a call its verdict, grants a call, or does neither.
LEMMA GatewayKeepsPromise ==
    ASSUME AInv, Preserved(SentTo), CommitsOne, call' = call
    PROVE  PromiseKept
<1>1. ExecutedCalls' = ExecutedCalls
  BY DEF ExecutedCalls
<1>2. \A e \in audit : approval'[e.approval].decision = approval[e.approval].decision
  BY DEF AInv, IInv, DbOK, ApprovalsOK, Preserved, Grows, Present
<1>3. audit \subseteq audit'
  BY DEF Preserved, Grows
<1>4. \A c \in Calls : Granted(c) => Granted(c)'
  BY <1>2, <1>3 DEF Granted
<1>5. CASE NoNewGrant /\ trace' = trace
  <2>1. GrantedCalls' = GrantedCalls
    BY <1>2, <1>4, <1>5 DEF GrantedCalls, Granted, NoNewGrant
  <2>2. VerdictOf' = VerdictOf
    BY <1>5 DEF VerdictOf
  <2> QED
    BY <1>1, <2>1, <2>2, PromiseIs
<1>6. CASE NoNewGrant /\ OneRow
  <2>1. GrantedCalls' = GrantedCalls
    BY <1>2, <1>4, <1>6 DEF GrantedCalls, Granted, NoNewGrant
  <2>2. PICK k \in Keys : trace[k].type = "absent"
                          /\ \A j \in Keys \ {k} : trace'[j] = trace[j]
    BY <1>6 DEF OneRow
  <2>3. trace[k].decision = None /\ trace'[k].decision \in Decisions \cup {None}
    BY <2>2 DEF AInv, Preserved, IInv, DbOK, RowOK, TraceRow, NoTrace
  <2>4. CASE \E c \in Calls : KeyOfCall(c) = k
    <3>1. PICK c \in Calls : KeyOfCall(c) = k
      BY <2>4
    <3>2. \A d \in Calls \ {c} : trace'[KeyOfCall(d)] = trace[KeyOfCall(d)]
      BY <2>2, <3>1, IdsAreUnique, SentIsTyped
    <3>3. VerdictOf[c] = None /\ VerdictOf' = [VerdictOf EXCEPT ![c] = trace'[k].decision]
      BY <2>3, <3>1, <3>2 DEF VerdictOf
    <3>4. CASE trace'[k].decision = None
      <4>1. VerdictOf' = VerdictOf
        BY <3>3, <3>4 DEF VerdictOf
      <4> QED
        BY <1>1, <2>1, <4>1, PromiseIs
    <3>5. CASE trace'[k].decision \in Decisions
      BY <1>1, <2>1, <3>3, <3>5, PromiseIs
    <3> QED
      BY <2>3, <3>4, <3>5
  <2>5. CASE \A c \in Calls : KeyOfCall(c) # k
    <3>1. VerdictOf' = VerdictOf
      BY <2>2, <2>5, SentIsTyped DEF VerdictOf
    <3> QED
      BY <1>1, <2>1, <3>1, PromiseIs
  <2> QED
    BY <2>4, <2>5
<1>7. CASE OneEntry /\ trace' = trace
  <2>1. VerdictOf' = VerdictOf
    BY <1>7 DEF VerdictOf
  <2>2. PICK h \in ApprovalIds : /\ Present(h, approval)
                                 /\ \A e \in audit' : e \in audit \/ e.approval = h
    BY <1>7 DEF OneEntry
  <2>3. approval'[h].decision = approval[h].decision
    BY <2>2 DEF Preserved, Grows
  <2>4. \A c \in Calls : Granted(c)' => Granted(c) \/ KeyOfCall(c) = approval[h].decision
    BY <1>2, <2>2, <2>3 DEF Granted
  <2>5. CASE GrantedCalls' = GrantedCalls
    BY <1>1, <2>1, <2>5, PromiseIs
  <2>6. CASE GrantedCalls' # GrantedCalls
    <3>1. PICK c \in Calls : Granted(c)' /\ ~ Granted(c)
      BY <1>4, <2>6 DEF GrantedCalls
    <3>2. KeyOfCall(c) = approval[h].decision
      BY <2>4, <3>1
    <3>3. \A d \in Calls : Granted(d)' => Granted(d) \/ d = c
      BY <2>4, <3>2, IdsAreUnique
    <3>4. GrantedCalls' = GrantedCalls \cup {c}
      BY <1>4, <3>1, <3>3 DEF GrantedCalls
    <3>5. VerdictOf[c] # None
      <4>1. KeyOfCall(c) # None
        BY SentIsTyped, GatewayNoneAssumption
      <4> QED
        BY <2>2, <3>2, <4>1 DEF AInv, IInv, ReviewsDecisions, VerdictOf
    <3> QED
      BY <1>1, <2>1, <3>4, <3>5, PromiseIs
  <2> QED
    BY <2>5, <2>6
<1> QED
  BY <1>5, <1>6, <1>7 DEF CommitsOne

\* A wrapper runs the tool if the decision or the granted review says so.
LEMMA WrapperKeepsPromise ==
    ASSUME AInv, NEW c \in Calls, Wrapper(c)
    PROVE  PromiseKept
<1>1. UNCHANGED Tables
  BY DEF Wrapper, Run, Resume, HandleDecision, HandleResume, HandleError, Timeout,
     RetryOrGiveUp, Attempt, Return, vars, Tables
<1>2. VerdictOf' = VerdictOf /\ GrantedCalls' = GrantedCalls
  BY <1>1 DEF VerdictOf, GrantedCalls, Granted, Tables
<1>3. call \in [Calls -> CallState]
  BY DEF AInv
<1>4. ASSUME NEW phase, NEW i, Attempt(c, phase, i), phase # "executed",
             call[c].phase # "executed"
      PROVE  PromiseKept
  <2>1. ExecutedCalls' = ExecutedCalls
    BY <1>3, <1>4 DEF Attempt, ExecutedCalls, CallState
  <2> QED
    BY <1>2, <2>1, PromiseIs
<1>5. ASSUME NEW phase, NEW h, Return(c, phase, h), call[c].phase # "executed",
             phase = "executed" =>
               \/ VerdictOf[c] = "allow"
               \/ VerdictOf[c] = "require_human_review" /\ c \in GrantedCalls
      PROVE  PromiseKept
  <2>1. c \notin ExecutedCalls
    BY <1>5 DEF ExecutedCalls
  <2>2. CASE phase = "executed"
    <3>1. ExecutedCalls' = ExecutedCalls \cup {c}
      BY <1>3, <1>5, <2>2 DEF Return, ExecutedCalls
    <3> QED
      BY <1>2, <1>5, <2>1, <2>2, <3>1, PromiseIs
  <2>3. CASE phase # "executed"
    <3>1. ExecutedCalls' = ExecutedCalls
      BY <1>3, <1>5, <2>3 DEF Return, ExecutedCalls
    <3> QED
      BY <1>2, <3>1, PromiseIs
  <2> QED
    BY <2>2, <2>3
<1>6. CASE Run(c) \/ Resume(c)
  BY <1>4, <1>6 DEF Run, Resume
<1>7. CASE HandleDecision(c)
  <2>1. PICK r \in RepliesTo(c) : r.kind = "answer" /\ Return(c, Outcome(r), r.approval)
    BY <1>7 DEF HandleDecision, Outcome
  <2>2. Outcome(r) = "executed" => VerdictOf[c] = "allow"
    BY <1>7, <2>1, DecisionIsOnRecord DEF HandleDecision, Outcome, VerdictOf
  <2> QED
    BY <1>5, <1>7, <2>1, <2>2 DEF HandleDecision
<1>8. CASE HandleResume(c)
  <2>1. PICK r \in RepliesTo(c) : r.kind = "answer" /\ Return(c, Outcome(r), call[c].approval)
    BY <1>8 DEF HandleResume, Outcome
  <2>2. Outcome(r) = "executed" => c \in GrantedCalls
    BY <1>8, <2>1, ResumeIsGranted DEF HandleResume, Outcome, GrantedCalls
  <2>3. VerdictOf[c] = "require_human_review"
    BY <1>8 DEF HandleResume, AInv, Waiting, VerdictOf
  <2> QED
    BY <1>5, <1>8, <2>1, <2>2, <2>3 DEF HandleResume
<1>9. CASE HandleError(c) \/ Timeout(c)
  BY <1>4, <1>5, <1>9 DEF HandleError, Timeout, RetryOrGiveUp, InAttempt
<1> QED
  BY <1>6, <1>7, <1>8, <1>9 DEF Wrapper

LEMMA InitKeepsPromise ==
    ASSUME AdapterInit
    PROVE  Promise!Init
<1>1. VerdictOf = [c \in Calls |-> None]
  BY SentIsTyped DEF AdapterInit, Init, NoTrace, VerdictOf
<1>2. GrantedCalls = {} /\ ExecutedCalls = {}
  BY DEF AdapterInit, Init, GrantedCalls, Granted, ExecutedCalls
<1> QED
  BY <1>1, <1>2, PromiseIs

LEMMA NextKeepsPromise ==
    ASSUME AInv, [AdapterNext]_adapterVars
    PROVE  PromiseKept
<1>1. CASE \E c \in Calls : Wrapper(c)
  BY <1>1, WrapperKeepsPromise
<1>2. CASE \E n \in Connections : ReceiveFrom(n)
  <2>1. Preserved(SentTo)
    BY <1>2, ReceiveFromKeeps
  <2>2. UNCHANGED Tables /\ call' = call
    BY <1>2 DEF ReceiveFrom, Receive, ReceiveDecision, ReceiveResume, ReceiveTelemetry
  <2> QED
    BY <2>1, <2>2, NothingCommitted, GatewayKeepsPromise
<1>3. CASE \E w \in Workers : ContinueHandler(w) \/ LoseHandler(w)
  <2>1. PICK w \in Workers : ContinueHandler(w) \/ LoseHandler(w)
    BY <1>3
  <2>2. Preserved(SentTo) /\ CommitsOne /\ call' = call
    BY <2>1, HandlerKeeps, ContinueCommits DEF AInv, ContinueHandler, LoseHandler
  <2> QED
    BY <2>2, GatewayKeepsPromise
<1>4. CASE ReceiveOther
  <2>1. UNCHANGED Tables /\ call' = call
    BY <1>4 DEF ReceiveOther, Receive, ReceiveDecision, ReceiveResume, ReceiveTelemetry
  <2> QED
    BY <1>4, <2>1, ReceiveOtherKeeps, NothingCommitted, GatewayKeepsPromise
<1>5. CASE ReviewApprovals
  BY <1>5, ReviewKeeps, ReviewCommits, GatewayKeepsPromise DEF ReviewApprovals
<1>6. CASE UNCHANGED adapterVars
  <2>1. UNCHANGED Tables /\ call' = call
    BY <1>6 DEF adapterVars, vars, Tables
  <2> QED
    BY <1>6, <2>1, NothingKeeps, NothingCommitted, GatewayKeepsPromise
<1> QED
  BY <1>1, <1>2, <1>3, <1>4, <1>5, <1>6 DEF AdapterNext

\* Wrappers and gateway implement GovernedExecution: one final verdict per call, and
\* its tool runs once at most, if the verdict or a granted review permits it,
\* whatever is lost, late, retried or raced for.
THEOREM GovernedExecutionImplemented == AdapterSpec => ImplementsGovernedExecution
<1>1. AdapterInit => Promise!Init
  BY InitKeepsPromise
<1>2. AInv /\ [AdapterNext]_adapterVars => [Promise!Next]_(Promise!vars)
  BY NextKeepsPromise DEF PromiseKept
<1> QED
  BY <1>1, <1>2, AdapterInvariant, PTL
  DEF AdapterSpec, ImplementsGovernedExecution, Promise!Spec
=============================================================================

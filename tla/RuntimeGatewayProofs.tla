------------------------ MODULE RuntimeGatewayProofs ------------------------
(***************************************************************************)
(* Proofs about RuntimeGateway, for any runs, requests, people, concurrent *)
(* handlers and number of approvals.                                       *)
(*                                                                         *)
(* The inductive invariant has three parts: what the database says (DbOK), *)
(* what a handler has read of it (SessionOK) and what the answers that     *)
(* left say of it (ReplyOK).  A read may be stale and an answer old, so    *)
(* the last two only say what no commit takes back (Grows): events and     *)
(* audit entries stay, and approvals keep their decision and requester.    *)
(* Tables are parameters, so that most lemmas are about values.            *)
(*                                                                         *)
(* Sent is the set of requests that reach the gateway: Incoming here, what *)
(* the wrapper sends in a module that composes the two.                    *)
(***************************************************************************)
EXTENDS RuntimeGateway, FiniteSetTheorems, WellFoundedInduction, TLAPS

WireRequest == DecisionRequest \cup ResumeRequest \cup TelemetryRequest

Present(h, at) == h \in ApprovalIds /\ at[h].status # "absent"

\* Somebody has been asked to review decision k.
ReviewAsked(k, at) == \E h \in ApprovalIds : Present(h, at) /\ at[h].decision = k

ApprovedOnRecord(h, at, al) ==
    \E e \in al :
        /\ e.event = "human_approval_approved" /\ e.approval = h
        /\ e.by \in Reviewers \cup Admins
        /\ e.by \in Admins \/ e.by # at[h].requester

\* Approval h is about the decision on event "original" of run r, a call of this tool.
Chain(r, original, tool, h, tt, at) ==
    /\ Present(h, at)
    /\ <<r, original>> \in Keys
    /\ at[h].decision = <<r, original>>
    /\ tt[<<r, original>>].decision # None
    /\ tt[<<r, original>>].tool \in {tool, None}

\* Status st was read from approval h.
StatusOK(st, h, at, al) ==
    st \in ApprovalStatus /\ (st = "approved" => ApprovedOnRecord(h, at, al))

ApprovalsOK(at, al) ==
    /\ at \in [ApprovalIds -> ApprovalRow]
    /\ al \subseteq AuditEntry
    /\ \A e \in al : Present(e.approval, at)
    /\ \A h \in ApprovalIds : at[h].status = "approved" => ApprovedOnRecord(h, at, al)
    /\ \A h, g \in ApprovalIds : g <= h /\ Present(h, at) => Present(g, at)

RowOK(k, Sent, tt, at, al) ==
    /\ tt[k].type = "absent" => tt[k] = NoTrace
    /\ tt[k].decision = "require_human_review" => ReviewAsked(k, at)
    /\ tt[k].failure = "record_only" =>
         \E q \in Sent : q.op = "decide" /\ KeyOf(q) = k /\ q.mode # "enforcement"
    /\ tt[k].type = "resume" =>
         /\ Chain(k[1], tt[k].original, tt[k].tool, tt[k].approval, tt, at)
         /\ StatusOK(tt[k].status, tt[k].approval, at, al)
         /\ \E e \in al : e.resume = k /\ e.approval = tt[k].approval
         /\ \E q \in Sent : /\ q.op = "resume" /\ KeyOf(q) = k
                            /\ q.original = tt[k].original /\ q.approval = tt[k].approval

DbOK(Sent, rt, tt, at, al) ==
    /\ rt \subseteq Runs
    /\ tt \in [Keys -> TraceRow]
    /\ ApprovalsOK(at, al)
    /\ \A k \in Keys : RowOK(k, Sent, tt, at, al)

\* Reviews are about decisions that have been made.
ReviewsDecisions(tt, at) ==
    \A h \in ApprovalIds :
        Present(h, at) /\ at[h].decision # None => tt[at[h].decision].decision # None

SessionOK(s, Sent, tt, at, al) ==
    /\ s \in Session
    /\ s.pc = "replay" =>
         s.req \in Sent /\ s.req.op = "decide" /\ tt[KeyOf(s.req)].decision # None
    /\ s.pc = "lookup" => s.req \in Sent /\ s.req.op = "resume"
    /\ s.pc = "commit" => s.req \in Sent \cup ApprovalRequest
    /\ s.pc \in {"lookup", "commit"} /\ s.req.op = "resume" =>
         /\ Chain(s.req.run, s.req.original, s.req.tool, s.req.approval, tt, at)
         /\ StatusOK(s.status, s.req.approval, at, al)
    /\ s.pc = "commit" /\ s.req.op \in {"approve", "reject", "cancel"} =>
         Present(s.req.approval, at)
    /\ s.pc = "commit" /\ s.req.op = "approve" => MayReview(s.req.by, at[s.req.approval])

ReplyOK(r, Sent, tt, at, al) ==
    /\ r \in Reply /\ r.to \in Sent
    /\ r.kind = "answer" /\ r.to.op = "decide" =>
         /\ \/ tt[KeyOf(r.to)].decision # None /\ r.decision = tt[KeyOf(r.to)].decision
            \/ tt[KeyOf(r.to)].failure = "record_only" /\ r.decision = "not_applicable"
         /\ r.decision = "require_human_review" =>
              Present(r.approval, at) /\ at[r.approval].decision = KeyOf(r.to)
    /\ r.kind = "answer" /\ r.to.op = "resume" =>
         /\ tt[KeyOf(r.to)].type = "resume"
         /\ r.decision = ResumeDecision(tt[KeyOf(r.to)].status)
         /\ r.approval = tt[KeyOf(r.to)].approval /\ r.status = tt[KeyOf(r.to)].status

IInv(Sent) ==
    /\ DbOK(Sent, runs, trace, approval, audit)
    /\ ReviewsDecisions(trace, approval)
    /\ session \in [Workers -> Session]
    /\ \A w \in Workers : SessionOK(session[w], Sent, trace, approval, audit)
    /\ \A r \in replies : ReplyOK(r, Sent, trace, approval, audit)

Grows(tt, at, al, tt2, at2, al2) ==
    /\ al \subseteq al2
    /\ \A k \in Keys : tt[k].type # "absent" => tt2[k] = tt[k]
    /\ \A h \in ApprovalIds : Present(h, at) =>
         /\ Present(h, at2)
         /\ at2[h].decision = at[h].decision /\ at2[h].requester = at[h].requester

-----------------------------------------------------------------------------
(* Values.                                                                 *)

\* None is no status, approval or request.
LEMMA IdleIsOK ==
    ASSUME NEW Sent, NEW tt, NEW at, NEW al
    PROVE  Idle \in Session /\ SessionOK(Idle, Sent, tt, at, al)
BY DEF Idle, Session, SessionOK

\* Every operation has requests of its own.
LEMMA KindsOfRequests ==
    ASSUME NEW q \in WireRequest
    PROVE  /\ q \in Request /\ KeyOf(q) \in Keys
           /\ q.op = "decide" => q \in DecisionRequest
           /\ q.op = "resume" => q \in ResumeRequest
           /\ q.op = "telemetry" => q \in TelemetryRequest
           /\ q.op \in {"decide", "resume", "telemetry"}
BY DEF WireRequest, Request, DecisionRequest, ResumeRequest, TelemetryRequest, KeyOf, Keys

\* ORDER BY created_at DESC LIMIT 1 finds an approval whenever there is one.
LEMMA LatestIsMember ==
    ASSUME NEW k, ApprovalsOf(k) # {}
    PROVE  LatestApproval(k) \in ApprovalsOf(k)
<1> DEFINE S == ApprovalsOf(k)
           T == {n \in Nat : n <= MaxApprovals /\ MaxApprovals - n \in S}
<1>1. S \subseteq 1 .. MaxApprovals /\ S # {}
  BY DEF ApprovalsOf, ApprovalIds
<1> HIDE DEF S
<1>2. T # {}
  <2>1. PICK h \in S : TRUE
    BY <1>1
  <2>2. MaxApprovals - h \in Nat /\ MaxApprovals - h <= MaxApprovals
        /\ MaxApprovals - (MaxApprovals - h) = h
    BY <1>1, <2>1, BoundAssumption
  <2> QED
    BY <2>1, <2>2
<1>3. PICK n \in T : \A m \in T : ~ (<<m, n>> \in OpToRel(<, Nat))
  <2>1. T \subseteq Nat
    OBVIOUS
  <2> HIDE DEF T
  <2> QED
    BY <1>2, <2>1, NatLessThanWellFounded, WFMin
<1>4. \A m \in T : n <= m
  <2>1. \A m \in T : m \in Nat
    OBVIOUS
  <2>2. \A m \in T : ~ (m < n)
    BY <1>3, <2>1 DEF OpToRel
  <2> QED
    BY <2>1, <2>2
<1>5. \A g \in S : g <= MaxApprovals - n
  <2> SUFFICES ASSUME NEW g \in S
               PROVE  g <= MaxApprovals - n
    OBVIOUS
  <2>1. g \in Nat /\ g <= MaxApprovals /\ g >= 1
    BY <1>1, BoundAssumption
  <2>2. MaxApprovals - g \in T
    BY <2>1, BoundAssumption
  <2> QED
    BY <2>1, <2>2, <1>4, BoundAssumption
<1>6. \E h \in S : \A g \in S : g <= h
  BY <1>5
<1> QED
  BY <1>6 DEF LatestApproval, S

\* Number n comes right after those in use.
RightAfter(n, at) ==
    /\ ~ Present(n, at)
    /\ \A g \in ApprovalIds : g < n => Present(g, at)

\* Approvals are numbered without gaps, so that the next number is free and takes
\* the place right after the others.
LEMMA NextIsFree ==
    ASSUME NEW at, NEW n,
           \A h, g \in ApprovalIds : g <= h /\ Present(h, at) => Present(g, at),
           n = Cardinality({h \in ApprovalIds : at[h].status # "absent"}) + 1,
           n \in ApprovalIds
    PROVE  RightAfter(n, at)
<1> DEFINE S == {h \in ApprovalIds : at[h].status # "absent"}
<1>1. n \in Nat /\ n >= 1 /\ n = Cardinality(S) + 1
  BY BoundAssumption DEF ApprovalIds
<1>2. S \subseteq 1 .. MaxApprovals /\ IsFiniteSet(S)
  <2>1. S \subseteq 1 .. MaxApprovals
    BY DEF ApprovalIds
  <2>2. IsFiniteSet(1 .. MaxApprovals)
    BY FS_Interval, BoundAssumption
  <2> HIDE DEF S
  <2> QED
    BY <2>1, <2>2, FS_Subset
<1>3. Cardinality(S) \in Nat
  BY <1>2, FS_CardinalityType
<1>4. \A h \in ApprovalIds : Present(h, at) <=> h \in S
  BY DEF Present
<1>5. \A h, g \in ApprovalIds : g <= h /\ h \in S => g \in S
  BY <1>4
<1> HIDE DEF S
<1>6. ASSUME n \in S
      PROVE  FALSE
  <2>1. 1 .. n \subseteq S
    <3> SUFFICES ASSUME NEW g \in 1 .. n
                 PROVE  g \in S
      OBVIOUS
    <3>1. g \in ApprovalIds /\ g <= n
      BY <1>1, BoundAssumption DEF ApprovalIds
    <3> QED
      BY <3>1, <1>5, <1>6
  <2>2. Cardinality(1 .. n) = n
    BY <1>1, FS_Interval
  <2>3. Cardinality(1 .. n) <= Cardinality(S)
    BY <2>1, <1>2, FS_Subset
  <2> QED
    BY <2>2, <2>3, <1>1, <1>3
<1>7. ASSUME NEW g \in ApprovalIds, g < n, g \notin S
      PROVE  FALSE
  <2>1. g \in Nat /\ g >= 1
    BY BoundAssumption DEF ApprovalIds
  <2>2. S \subseteq 1 .. (g - 1)
    BY <2>1, <1>2, <1>5, <1>7, BoundAssumption DEF ApprovalIds
  <2>3. IsFiniteSet(1 .. (g - 1)) /\ Cardinality(1 .. (g - 1)) = g - 1
    BY <2>1, FS_Interval
  <2>4. Cardinality(S) <= g - 1
    BY <2>2, <2>3, FS_Subset
  <2> QED
    BY <2>1, <2>4, <1>1, <1>3, <1>7
<1> QED
  BY <1>4, <1>6, <1>7 DEF RightAfter

-----------------------------------------------------------------------------
(* What stays true while the tables grow.                                  *)

\* A chain that matched still matches.
LEMMA ChainStable ==
    ASSUME NEW tt, NEW at, NEW al, NEW tt2, NEW at2, NEW al2,
           NEW r, NEW original, NEW tool, NEW h,
           \A k \in Keys : tt[k].type = "absent" => tt[k] = NoTrace,
           Grows(tt, at, al, tt2, at2, al2), Chain(r, original, tool, h, tt, at)
    PROVE  Chain(r, original, tool, h, tt2, at2)
<1>1. tt[<<r, original>>].type # "absent"
  BY DEF Chain, NoTrace
<1>2. tt2[<<r, original>>] = tt[<<r, original>>]
  BY <1>1 DEF Grows, Chain
<1>3. Present(h, at2) /\ at2[h].decision = at[h].decision
  BY DEF Chain, Present, Grows
<1> QED
  BY <1>2, <1>3 DEF Chain

\* An approval on record stays on record.
LEMMA StatusStable ==
    ASSUME NEW tt, NEW at, NEW al, NEW tt2, NEW at2, NEW al2, NEW st, NEW h,
           Grows(tt, at, al, tt2, at2, al2), Present(h, at), StatusOK(st, h, at, al)
    PROVE  StatusOK(st, h, at2, al2)
BY DEF StatusOK, ApprovedOnRecord, Grows, Present

\* What a handler knows survives what the others commit.
LEMMA SessionStable ==
    ASSUME NEW Sent, Sent \subseteq WireRequest,
           NEW tt, NEW at, NEW al, NEW tt2, NEW at2, NEW al2, NEW s,
           \A k \in Keys : tt[k].type = "absent" => tt[k] = NoTrace,
           Grows(tt, at, al, tt2, at2, al2), SessionOK(s, Sent, tt, at, al)
    PROVE  SessionOK(s, Sent, tt2, at2, al2)
<1>1. s.pc = "replay" => tt2[KeyOf(s.req)].decision # None
  <2> HAVE s.pc = "replay"
  <2>1. KeyOf(s.req) \in Keys
    BY KindsOfRequests DEF SessionOK
  <2>2. tt[KeyOf(s.req)].type # "absent"
    BY <2>1 DEF SessionOK, NoTrace
  <2> QED
    BY <2>1, <2>2 DEF SessionOK, Grows
<1>2. s.pc \in {"lookup", "commit"} /\ s.req.op = "resume" =>
         /\ Chain(s.req.run, s.req.original, s.req.tool, s.req.approval, tt2, at2)
         /\ StatusOK(s.status, s.req.approval, at2, al2)
  <2> HAVE s.pc \in {"lookup", "commit"} /\ s.req.op = "resume"
  <2>1. /\ Chain(s.req.run, s.req.original, s.req.tool, s.req.approval, tt, at)
        /\ StatusOK(s.status, s.req.approval, at, al)
    BY DEF SessionOK
  <2>2. Present(s.req.approval, at)
    BY <2>1 DEF Chain
  <2> QED
    BY <2>1, <2>2, ChainStable, StatusStable
<1>3. s.pc = "commit" /\ s.req.op \in {"approve", "reject", "cancel"} =>
         Present(s.req.approval, at2)
  BY DEF SessionOK, Grows, Present
<1>4. s.pc = "commit" /\ s.req.op = "approve" => MayReview(s.req.by, at2[s.req.approval])
  BY DEF SessionOK, Grows, Present, MayReview
<1> QED
  BY <1>1, <1>2, <1>3, <1>4 DEF SessionOK

\* So does what an answer said.
LEMMA ReplyStable ==
    ASSUME NEW Sent, Sent \subseteq WireRequest,
           NEW tt, NEW at, NEW al, NEW tt2, NEW at2, NEW al2, NEW r,
           \A k \in Keys : tt[k].type = "absent" => tt[k] = NoTrace,
           Grows(tt, at, al, tt2, at2, al2), ReplyOK(r, Sent, tt, at, al)
    PROVE  ReplyOK(r, Sent, tt2, at2, al2)
<1>1. KeyOf(r.to) \in Keys
  BY KindsOfRequests DEF ReplyOK
<1>2. tt[KeyOf(r.to)].type = "absent" =>
         tt[KeyOf(r.to)].decision = None /\ tt[KeyOf(r.to)].failure # "record_only"
  BY <1>1, GatewayNoneAssumption DEF NoTrace, FailureDefaults
<1>3. r.kind = "answer" /\ r.to.op \in {"decide", "resume"} =>
         tt2[KeyOf(r.to)] = tt[KeyOf(r.to)]
  <2> HAVE r.kind = "answer" /\ r.to.op \in {"decide", "resume"}
  <2>1. tt[KeyOf(r.to)].type # "absent"
    BY <1>2 DEF ReplyOK
  <2> QED
    BY <1>1, <2>1 DEF Grows
<1>4. \A h : Present(h, at) => Present(h, at2) /\ at2[h].decision = at[h].decision
  BY DEF Grows, Present
<1> QED
  BY <1>3, <1>4 DEF ReplyOK

\* And so does what the records say of an event that did not change.
LEMMA RowStable ==
    ASSUME NEW Sent, NEW tt, NEW at, NEW al, NEW tt2, NEW at2, NEW al2, NEW k \in Keys,
           \A j \in Keys : tt[j].type = "absent" => tt[j] = NoTrace,
           Grows(tt, at, al, tt2, at2, al2), tt2[k] = tt[k], RowOK(k, Sent, tt, at, al)
    PROVE  RowOK(k, Sent, tt2, at2, al2)
<1>1. ReviewAsked(k, at) => ReviewAsked(k, at2)
  BY DEF ReviewAsked, Grows
<1>2. tt[k].type = "resume" =>
         /\ Chain(k[1], tt[k].original, tt[k].tool, tt[k].approval, tt2, at2)
         /\ StatusOK(tt[k].status, tt[k].approval, at2, al2)
         /\ \E e \in al2 : e.resume = k /\ e.approval = tt[k].approval
  <2> HAVE tt[k].type = "resume"
  <2>1. /\ Chain(k[1], tt[k].original, tt[k].tool, tt[k].approval, tt, at)
        /\ StatusOK(tt[k].status, tt[k].approval, at, al)
        /\ \E e \in al : e.resume = k /\ e.approval = tt[k].approval
    BY DEF RowOK
  <2>2. Present(tt[k].approval, at)
    BY <2>1 DEF Chain
  <2>3. \E e \in al2 : e.resume = k /\ e.approval = tt[k].approval
    BY <2>1 DEF Grows
  <2> QED
    BY <2>1, <2>2, <2>3, ChainStable, StatusStable
<1> QED
  BY <1>1, <1>2 DEF RowOK

-----------------------------------------------------------------------------
(* What the transactions do to the tables.                                 *)

LEMMA GrowsTransitive ==
    ASSUME NEW tt, NEW at, NEW al, NEW tt2, NEW at2, NEW al2, NEW tt3, NEW at3, NEW al3,
           Grows(tt, at, al, tt2, at2, al2), Grows(tt2, at2, al2, tt3, at3, al3)
    PROVE  Grows(tt, at, al, tt3, at3, al3)
BY DEF Grows

\* An approval keeps its decision and requester when its status or due date changes.
LEMMA ApprovalMoved ==
    ASSUME NEW tt, NEW at, NEW al, ApprovalsOK(at, al),
           NEW h \in ApprovalIds, NEW row \in ApprovalRow, NEW at2, NEW al2,
           at2 = [at EXCEPT ![h] = row],
           row.decision = at[h].decision, row.requester = at[h].requester,
           row.status = "absent" <=> at[h].status = "absent",
           al \subseteq al2, al2 \subseteq AuditEntry, \A e \in al2 : Present(e.approval, at),
           row.status = "approved" => ApprovedOnRecord(h, at, al2)
    PROVE  /\ ApprovalsOK(at2, al2) /\ Grows(tt, at, al, tt, at2, al2)
           /\ \A g \in ApprovalIds : Present(g, at2) => Present(g, at)
<1>1. /\ at2 \in [ApprovalIds -> ApprovalRow]
      /\ at2[h] = row /\ \A g \in ApprovalIds \ {h} : at2[g] = at[g]
  BY DEF ApprovalsOK
<1>2. \A g \in ApprovalIds : Present(g, at2) <=> Present(g, at)
  BY <1>1 DEF Present
<1>3. \A g \in ApprovalIds : at2[g].requester = at[g].requester
                              /\ at2[g].decision = at[g].decision
  BY <1>1
<1>4. \A g \in ApprovalIds : at2[g].status = "approved" => ApprovedOnRecord(g, at2, al2)
  BY <1>1, <1>3 DEF ApprovalsOK, ApprovedOnRecord
<1>5. \A e \in al2 : Present(e.approval, at2)
  BY <1>2 DEF Present
<1>6. \A g, f \in ApprovalIds : f <= g /\ Present(g, at2) => Present(f, at2)
  BY <1>2 DEF ApprovalsOK
<1> QED
  BY <1>1, <1>2, <1>3, <1>4, <1>5, <1>6 DEF ApprovalsOK, Grows

\* A review of a decision stays one, and one that starts has to be one.
LEMMA ReviewsStable ==
    ASSUME NEW tt, NEW at, NEW al, NEW tt2, NEW at2, NEW al2,
           \A k \in Keys : tt[k].type = "absent" => tt[k] = NoTrace,
           ApprovalsOK(at, al), ReviewsDecisions(tt, at), Grows(tt, at, al, tt2, at2, al2),
           \A h \in ApprovalIds : Present(h, at2) =>
             \/ Present(h, at) \/ at2[h].decision = None
             \/ tt2[at2[h].decision].decision # None
    PROVE  ReviewsDecisions(tt2, at2)
<1> SUFFICES ASSUME NEW h \in ApprovalIds, Present(h, at), at[h].decision # None
             PROVE  tt2[at[h].decision].decision # None
  BY DEF ReviewsDecisions, Grows
<1>1. at[h].decision \in Keys /\ tt[at[h].decision].decision # None
  BY DEF ApprovalsOK, ApprovalRow, ReviewsDecisions
<1>2. tt[at[h].decision].type # "absent"
  BY <1>1 DEF NoTrace
<1> QED
  BY <1>1, <1>2 DEF Grows

\* The events on record do not notice changes of the approvals.
LEMMA ApprovalsChanged ==
    ASSUME NEW Sent, NEW rt, NEW tt, NEW at, NEW al, NEW at2, NEW al2,
           DbOK(Sent, rt, tt, at, al), ApprovalsOK(at2, al2),
           Grows(tt, at, al, tt, at2, al2)
    PROVE  DbOK(Sent, rt, tt, at2, al2)
<1>1. \A k \in Keys : tt[k].type = "absent" => tt[k] = NoTrace
  BY DEF DbOK, RowOK
<1>2. \A k \in Keys : RowOK(k, Sent, tt, at2, al2)
  BY <1>1, RowStable DEF DbOK
<1> QED
  BY <1>2 DEF DbOK

\* An event is inserted where there was none.
LEMMA TraceInserted ==
    ASSUME NEW Sent, NEW rt, NEW tt, NEW at, NEW al, DbOK(Sent, rt, tt, at, al),
           NEW k \in Keys, NEW row \in TraceRow, NEW r \in Runs,
           NEW rt2, NEW tt2, NEW al2,
           tt[k].type = "absent", rt2 = rt \cup {r}, tt2 = [tt EXCEPT ![k] = row],
           al \subseteq al2, al2 \subseteq AuditEntry, \A e \in al2 : Present(e.approval, at),
           RowOK(k, Sent, tt2, at, al2)
    PROVE  DbOK(Sent, rt2, tt2, at, al2) /\ Grows(tt, at, al, tt2, at, al2)
<1>1. /\ tt2 \in [Keys -> TraceRow]
      /\ tt2[k] = row /\ \A j \in Keys \ {k} : tt2[j] = tt[j]
  BY DEF DbOK
<1>2. Grows(tt, at, al, tt2, at, al2)
  BY <1>1 DEF Grows
<1>3. \A j \in Keys : tt[j].type = "absent" => tt[j] = NoTrace
  BY DEF DbOK, RowOK
<1>4. \A j \in Keys : RowOK(j, Sent, tt2, at, al2)
  <2> TAKE j \in Keys
  <2>1. CASE j = k
    BY <2>1
  <2>2. CASE j # k
    <3>1. tt2[j] = tt[j] /\ RowOK(j, Sent, tt, at, al)
      BY <2>2, <1>1 DEF DbOK
    <3> QED
      BY <3>1, <1>2, <1>3, RowStable
  <2> QED
    BY <2>1, <2>2
<1>5. ApprovalsOK(at, al2)
  BY DEF DbOK, ApprovalsOK, ApprovedOnRecord
<1> QED
  BY <1>1, <1>2, <1>4, <1>5 DEF DbOK

-----------------------------------------------------------------------------
(* Steps.                                                                  *)

\* A step keeps the invariant, and what it commits takes nothing back.
Preserved(Sent) ==
    IInv(Sent)' /\ Grows(trace, approval, audit, trace', approval', audit')

\* A handler moves, and perhaps commits or answers; the others stay where they are.
LEMMA OneHandlerMoves ==
    ASSUME NEW Sent, Sent \subseteq WireRequest, IInv(Sent), NEW w \in Workers, NEW s,
           session' = [session EXCEPT ![w] = s],
           SessionOK(s, Sent, trace', approval', audit'),
           DbOK(Sent, runs', trace', approval', audit'),
           Grows(trace, approval, audit, trace', approval', audit'),
           ReviewsDecisions(trace', approval'),
           \A r \in replies' :
             r \in replies \/ ReplyOK(r, Sent, trace', approval', audit')
    PROVE  Preserved(Sent)
<1>1. \A k \in Keys : trace[k].type = "absent" => trace[k] = NoTrace
  BY DEF IInv, DbOK, RowOK
<1>2. /\ session' \in [Workers -> Session]
      /\ session'[w] = s /\ \A v \in Workers \ {w} : session'[v] = session[v]
  BY DEF IInv, SessionOK
<1>3. \A v \in Workers : SessionOK(session'[v], Sent, trace', approval', audit')
  <2> TAKE v \in Workers
  <2>1. CASE v = w
    BY <2>1, <1>2
  <2>2. CASE v # w
    <3>1. session'[v] = session[v] /\ SessionOK(session[v], Sent, trace, approval, audit)
      BY <2>2, <1>2 DEF IInv
    <3> QED
      BY <3>1, <1>1, SessionStable
  <2> QED
    BY <2>1, <2>2
<1>4. \A r \in replies' : ReplyOK(r, Sent, trace', approval', audit')
  <2> TAKE r \in replies'
  <2>1. CASE r \in replies
    <3>1. ReplyOK(r, Sent, trace, approval, audit)
      BY <2>1 DEF IInv
    <3> QED
      BY <3>1, <1>1, ReplyStable
  <2> QED
    BY <2>1
<1> QED
  BY <1>2, <1>3, <1>4 DEF IInv, Preserved

\* No handler moves, but approvals do.
LEMMA NoHandlerMoves ==
    ASSUME NEW Sent, Sent \subseteq WireRequest, IInv(Sent),
           UNCHANGED <<runs, trace, session, replies>>,
           ApprovalsOK(approval', audit'),
           Grows(trace, approval, audit, trace, approval', audit'),
           ReviewsDecisions(trace, approval')
    PROVE  Preserved(Sent)
<1>1. \A k \in Keys : trace[k].type = "absent" => trace[k] = NoTrace
  BY DEF IInv, DbOK, RowOK
<1>2. DbOK(Sent, runs, trace, approval', audit')
  BY ApprovalsChanged DEF IInv
<1>3. \A w \in Workers : SessionOK(session[w], Sent, trace, approval', audit')
  BY <1>1, SessionStable DEF IInv
<1>4. \A r \in replies : ReplyOK(r, Sent, trace, approval', audit')
  BY <1>1, ReplyStable DEF IInv
<1> QED
  BY <1>2, <1>3, <1>4 DEF IInv, Preserved

\* A handler that only reads moves, and perhaps answers.
LEMMA ReaderMoves ==
    ASSUME NEW Sent, Sent \subseteq WireRequest, IInv(Sent), NEW w \in Workers, NEW s,
           session' = [session EXCEPT ![w] = s], UNCHANGED Tables,
           SessionOK(s, Sent, trace, approval, audit),
           \A r \in replies' : r \in replies \/ ReplyOK(r, Sent, trace, approval, audit)
    PROVE  Preserved(Sent)
<1>1. /\ runs' = runs /\ trace' = trace /\ approval' = approval /\ audit' = audit
  BY DEF Tables
<1>2. Grows(trace, approval, audit, trace, approval, audit)
  BY DEF Grows
<1> QED
  BY <1>1, <1>2, OneHandlerMoves DEF IInv

\* A handler that only reads ends, with an answer or without.
LEMMA ReaderEnds ==
    ASSUME NEW Sent, Sent \subseteq WireRequest, IInv(Sent), NEW w \in Workers,
           Leave(w), UNCHANGED Tables,
           \A r \in replies' : r \in replies \/ ReplyOK(r, Sent, trace, approval, audit)
    PROVE  Preserved(Sent)
<1>1. session' = [session EXCEPT ![w] = Idle]
  BY DEF Leave
<1> QED
  BY <1>1, IdleIsOK, ReaderMoves

\* A response that is no answer says nothing of the tables.
LEMMA NoAnswerIsOK ==
    ASSUME NEW Sent, Sent \subseteq WireRequest, NEW tt, NEW at, NEW al,
           NEW q \in Sent, q.op \in {"decide", "resume"}, NEW kind \in {"refused", "error"},
           Send(q, kind, None, None, None)
    PROVE  \A r \in replies' : r \in replies \/ ReplyOK(r, Sent, tt, at, al)
<1> DEFINE r == [to |-> q, kind |-> kind, decision |-> None, approval |-> None,
                 status |-> None]
<1>1. replies' = replies \cup {r}
  BY DEF Send
<1>2. r \in Reply
  BY KindsOfRequests DEF Reply
<1>3. ReplyOK(r, Sent, tt, at, al)
  BY <1>2 DEF ReplyOK
<1> QED
  BY <1>1, <1>3

\* What an answer to a decision request has to be.
LEMMA DecisionAnswerIsOK ==
    ASSUME NEW Sent, Sent \subseteq WireRequest, NEW tt, NEW at, NEW al,
           NEW q \in Sent, q.op = "decide", NEW d \in Decisions,
           NEW h \in ApprovalIds \cup {None},
           \/ tt[KeyOf(q)].decision # None /\ d = tt[KeyOf(q)].decision
           \/ tt[KeyOf(q)].failure = "record_only" /\ d = "not_applicable",
           d = "require_human_review" => Present(h, at) /\ at[h].decision = KeyOf(q),
           Send(q, "answer", d, h, None)
    PROVE  \A r \in replies' : r \in replies \/ ReplyOK(r, Sent, tt, at, al)
<1> DEFINE r == [to |-> q, kind |-> "answer", decision |-> d, approval |-> h,
                 status |-> None]
<1>1. replies' = replies \cup {r}
  BY DEF Send
<1>2. r \in Reply
  BY KindsOfRequests DEF Reply
<1>3. ReplyOK(r, Sent, tt, at, al)
  BY <1>2 DEF ReplyOK
<1> QED
  BY <1>1, <1>3

\* What an answer to a resume request has to be.
LEMMA ResumeAnswerIsOK ==
    ASSUME NEW Sent, Sent \subseteq WireRequest, NEW tt, NEW at, NEW al,
           NEW q \in Sent, q.op = "resume",
           NEW h \in ApprovalIds, NEW st \in ApprovalStatus,
           tt[KeyOf(q)].type = "resume", tt[KeyOf(q)].approval = h,
           tt[KeyOf(q)].status = st,
           Send(q, "answer", ResumeDecision(st), h, st)
    PROVE  \A r \in replies' : r \in replies \/ ReplyOK(r, Sent, tt, at, al)
<1> DEFINE r == [to |-> q, kind |-> "answer", decision |-> ResumeDecision(st),
                 approval |-> h, status |-> st]
<1>1. replies' = replies \cup {r}
  BY DEF Send
<1>2. ResumeDecision(st) \in Decisions
  BY DEF ResumeDecision, Decisions, ApprovalStatus
<1>3. r \in Reply
  BY <1>2, KindsOfRequests DEF Reply
<1>4. ReplyOK(r, Sent, tt, at, al)
  BY <1>3 DEF ReplyOK
<1> QED
  BY <1>1, <1>4

-----------------------------------------------------------------------------
(* Human approvals.                                                        *)

\* InsertApproval, whatever it belongs to.
LEMMA InsertApprovalStep ==
    ASSUME NEW tt, ApprovalsOK(approval, audit),
           NEW k \in Keys \cup {None}, NEW a \in Actors, NEW due \in {"later", None},
           InsertApproval(k, a, due)
    PROVE  /\ ApprovalsOK(approval', audit')
           /\ Grows(tt, approval, audit, tt, approval', audit')
           /\ Present(NextApproval, approval') /\ approval'[NextApproval].decision = k
           /\ \A h \in ApprovalIds :
                Present(h, approval') => Present(h, approval) \/ h = NextApproval
<1> DEFINE n == NextApproval
           row == [status |-> "pending", decision |-> k, requester |-> a, due |-> due]
           e == Entry("human_approval_requested", n, a, None)
<1>1. /\ n = Cardinality({h \in ApprovalIds : approval[h].status # "absent"}) + 1
      /\ n \in ApprovalIds /\ approval' = [approval EXCEPT ![n] = row]
      /\ audit' = audit \cup {e}
  BY DEF InsertApproval, NextApproval
<1> HIDE DEF n
<1>2. RightAfter(n, approval)
  BY <1>1, NextIsFree DEF ApprovalsOK
<1>3. /\ row \in ApprovalRow /\ e \in AuditEntry
      /\ e.event # "human_approval_approved" /\ e.approval = n
  BY <1>1 DEF ApprovalRow, ApprovalStatus, Entry, AuditEntry
<1> HIDE DEF e
<1>4. /\ approval' \in [ApprovalIds -> ApprovalRow] /\ audit' \subseteq AuditEntry
      /\ approval'[n] = row /\ \A h \in ApprovalIds \ {n} : approval'[h] = approval[h]
  BY <1>1, <1>3 DEF ApprovalsOK
<1>5. Grows(tt, approval, audit, tt, approval', audit')
  BY <1>1, <1>2, <1>4 DEF Grows, Present, RightAfter
<1>6. \A h \in ApprovalIds : approval'[h].status = "approved" =>
                               ApprovedOnRecord(h, approval', audit')
  <2> SUFFICES ASSUME NEW h \in ApprovalIds, approval'[h].status = "approved"
               PROVE  ApprovedOnRecord(h, approval', audit')
    OBVIOUS
  <2>1. h # n /\ approval'[h] = approval[h]
    BY <1>4
  <2>2. ApprovedOnRecord(h, approval, audit)
    BY <2>1 DEF ApprovalsOK
  <2> QED
    BY <1>1, <2>1, <2>2 DEF ApprovedOnRecord
<1>7. \A h \in ApprovalIds : Present(h, approval') <=> (Present(h, approval) \/ h = n)
  BY <1>4 DEF Present
<1>8. \A h, g \in ApprovalIds : g <= h /\ Present(h, approval') => Present(g, approval')
  <2> SUFFICES ASSUME NEW h \in ApprovalIds, NEW g \in ApprovalIds,
                      g <= h, Present(h, approval')
               PROVE  Present(g, approval')
    OBVIOUS
  <2>1. CASE Present(h, approval)
    BY <2>1, <1>7 DEF ApprovalsOK
  <2>2. CASE h = n
    <3>1. g = n \/ g < n
      BY <2>2, BoundAssumption DEF ApprovalIds
    <3> QED
      BY <3>1, <1>2, <1>7 DEF RightAfter
  <2> QED
    BY <2>1, <2>2, <1>7
<1>9. Present(n, approval') /\ approval'[n].decision = k
  BY <1>1, <1>4 DEF Present
<1>10. \A f \in audit' : Present(f.approval, approval')
  <2> SUFFICES ASSUME NEW f \in audit'
               PROVE  Present(f.approval, approval')
    OBVIOUS
  <2>1. CASE f \in audit
    BY <2>1, <1>7 DEF ApprovalsOK, Present
  <2>2. CASE f = e
    BY <2>2, <1>3, <1>9
  <2> QED
    BY <2>1, <2>2, <1>1
<1>11. ApprovalsOK(approval', audit')
  BY <1>4, <1>6, <1>8, <1>10 DEF ApprovalsOK
<1> QED
  BY <1>5, <1>7, <1>9, <1>11 DEF n

LEMMA CreateApprovalStep ==
    ASSUME NEW Sent, Sent \subseteq WireRequest, IInv(Sent),
           NEW a \in Actors, NEW k \in Keys \cup {None}, NEW due \in {"later", None},
           CreateApproval(a, k, due)
    PROVE  Preserved(Sent)
<1>1. /\ ApprovalsOK(approval', audit')
      /\ Grows(trace, approval, audit, trace, approval', audit')
      /\ approval'[NextApproval].decision = k
      /\ \A h \in ApprovalIds :
           Present(h, approval') => Present(h, approval) \/ h = NextApproval
  BY InsertApprovalStep DEF CreateApproval, IInv, DbOK
<1>2. k # None => trace[k].decision # None
  BY DEF CreateApproval
<1>3. ReviewsDecisions(trace, approval')
  BY <1>1, <1>2, ReviewsStable DEF IInv, DbOK, RowOK
<1> QED
  BY <1>1, <1>3, NoHandlerMoves DEF CreateApproval

LEMMA PassDueStep ==
    ASSUME NEW Sent, Sent \subseteq WireRequest, IInv(Sent), NEW h \in ApprovalIds, PassDue(h)
    PROVE  Preserved(Sent)
<1> DEFINE row == [approval[h] EXCEPT !.due = "passed"]
<1>1. ApprovalsOK(approval, audit) /\ audit' = audit
  BY DEF IInv, DbOK, PassDue
<1>2. approval' = [approval EXCEPT ![h] = row]
  BY DEF PassDue
<1>3. /\ row \in ApprovalRow /\ row.decision = approval[h].decision
      /\ row.requester = approval[h].requester /\ row.status = approval[h].status
  BY <1>1 DEF ApprovalsOK, ApprovalRow
<1>4. row.status = "approved" => ApprovedOnRecord(h, approval, audit)
  BY <1>1, <1>3 DEF ApprovalsOK
<1>5. audit \subseteq AuditEntry /\ \A e \in audit : Present(e.approval, approval)
  BY <1>1 DEF ApprovalsOK
<1> HIDE DEF row
<1>6. /\ ApprovalsOK(approval', audit')
      /\ Grows(trace, approval, audit, trace, approval', audit')
      /\ \A g \in ApprovalIds : Present(g, approval') => Present(g, approval)
  BY <1>1, <1>2, <1>3, <1>4, <1>5, ApprovalMoved
<1>7. ReviewsDecisions(trace, approval')
  BY <1>1, <1>6, ReviewsStable DEF IInv, DbOK, RowOK
<1> QED
  BY <1>6, <1>7, NoHandlerMoves DEF PassDue

LEMMA ReadPendingApprovalStep ==
    ASSUME NEW Sent, Sent \subseteq WireRequest, IInv(Sent),
           NEW w \in Workers, NEW op \in {"approve", "reject", "cancel"},
           NEW h \in ApprovalIds, NEW a \in Actors, ReadPendingApproval(w, op, h, a)
    PROVE  Preserved(Sent)
<1> DEFINE q == [op |-> op, approval |-> h, by |-> a]
           s == [Idle EXCEPT !.pc = "commit", !.req = q]
<1>1. /\ session' = [session EXCEPT ![w] = s] /\ UNCHANGED Tables /\ replies' = replies
      /\ approval[h].status = "pending"
      /\ op = "approve" => MayReview(a, approval[h])
  BY DEF ReadPendingApproval, Enter, RequirePending
<1>2. q \in ApprovalRequest /\ q \in Request
  BY DEF ApprovalRequest, Request
<1>3. s \in Session /\ s.pc = "commit" /\ s.req = q
  BY <1>2 DEF Session, Idle
<1>4. Present(h, approval)
  BY <1>1 DEF Present
<1>5. SessionOK(s, Sent, trace, approval, audit)
  BY <1>1, <1>2, <1>3, <1>4 DEF SessionOK
<1> HIDE DEF s
<1> QED
  BY <1>1, <1>5, ReaderMoves

\* Approving, rejecting and cancelling commit alike.
LEMMA DecideStep ==
    ASSUME NEW Sent, Sent \subseteq WireRequest, IInv(Sent), NEW w \in Workers,
           NEW op \in {"approve", "reject", "cancel"},
           NEW status \in {"approved", "rejected", "cancelled"},
           NEW event \in {"human_approval_approved", "human_approval_rejected",
                          "human_approval_cancelled"},
           status = "approved" => op = "approve" /\ event = "human_approval_approved",
           Decide(w, op, status, event)
    PROVE  Preserved(Sent)
<1> DEFINE q == session[w].req
           h == q.approval
           e == Entry(event, h, q.by, None)
           row == [approval[h] EXCEPT !.status = status]
<1>1. /\ session[w].pc = "commit" /\ q.op = op
      /\ approval' = [approval EXCEPT ![h] = row]
      /\ audit' = audit \cup {e}
      /\ runs' = runs /\ trace' = trace /\ replies' = replies
      /\ session' = [session EXCEPT ![w] = Idle]
  BY DEF Decide, Committing, Leave
<1>2. SessionOK(session[w], Sent, trace, approval, audit)
  BY DEF IInv
<1>3. q \in ApprovalRequest
  BY <1>1, <1>2, KindsOfRequests DEF SessionOK
<1>4. /\ h \in ApprovalIds /\ q.by \in Actors
      /\ Present(h, approval)
      /\ op = "approve" => MayReview(q.by, approval[h])
  BY <1>1, <1>2, <1>3 DEF SessionOK, ApprovalRequest
<1>5. DbOK(Sent, runs, trace, approval, audit) /\ ApprovalsOK(approval, audit)
  BY DEF IInv, DbOK
<1>6. /\ row \in ApprovalRow /\ row.status = status
      /\ row.decision = approval[h].decision /\ row.requester = approval[h].requester
  BY <1>4, <1>5 DEF ApprovalsOK, ApprovalRow, ApprovalStatus
<1>7. /\ audit \subseteq audit' /\ audit' \subseteq AuditEntry
      /\ \A f \in audit' : Present(f.approval, approval)
  <2>1. e \in AuditEntry /\ e.approval = h
    BY <1>4 DEF Entry, AuditEntry
  <2> QED
    BY <1>1, <1>4, <1>5, <2>1 DEF ApprovalsOK
<1>8. row.status = "approved" => ApprovedOnRecord(h, approval, audit')
  <2> HAVE row.status = "approved"
  <2>1. e \in audit' /\ e.event = "human_approval_approved" /\ e.approval = h /\ e.by = q.by
    BY <1>1, <1>6 DEF Entry
  <2>2. q.by \in Reviewers \cup Admins /\ (q.by \in Admins \/ q.by # approval[h].requester)
    BY <1>4, <1>6 DEF MayReview
  <2> QED
    BY <2>1, <2>2 DEF ApprovedOnRecord
<1>9. /\ ApprovalsOK(approval', audit')
      /\ Grows(trace, approval, audit, trace, approval', audit')
      /\ \A g \in ApprovalIds : Present(g, approval') => Present(g, approval)
  <2>1. row.status = "absent" <=> approval[h].status = "absent"
    BY <1>4, <1>6 DEF Present
  <2> HIDE DEF row, h, q, e
  <2> QED
    BY <1>1, <1>4, <1>5, <1>6, <1>7, <1>8, <2>1, ApprovalMoved
<1>10. DbOK(Sent, runs, trace, approval', audit')
  BY <1>5, <1>9, ApprovalsChanged
<1>11. ReviewsDecisions(trace, approval')
  BY <1>5, <1>9, ReviewsStable DEF IInv, DbOK, RowOK
<1> HIDE DEF row, h, q, e
<1> QED
  BY <1>1, <1>9, <1>10, <1>11, IdleIsOK, OneHandlerMoves

-----------------------------------------------------------------------------
(* Decisions and telemetry.                                                *)

\* An event is inserted with its decision and, if need be, its approval.
LEMMA EvaluationCommits ==
    ASSUME NEW Sent, Sent \subseteq WireRequest, IInv(Sent), NEW w \in Workers,
           session[w].req \in Sent, session[w].req.op # "resume", NEW row \in TraceRow,
           row.type \in {"tool_call_requested", "other"},
           row.failure = "record_only" =>
             session[w].req.op = "decide" /\ session[w].req.mode # "enforcement",
           IndexesAccept(w), InsertTrace(w, row), ReviewIsRequested(w, row)
    PROVE  /\ DbOK(Sent, runs', trace', approval', audit')
           /\ Grows(trace, approval, audit, trace', approval', audit')
           /\ ReviewsDecisions(trace', approval')
           /\ trace'[KeyOf(session[w].req)] = row
           /\ row.decision = "require_human_review" =>
                /\ Present(NextApproval, approval')
                /\ approval'[NextApproval].decision = KeyOf(session[w].req)
<1> DEFINE q == session[w].req
           k == KeyOf(q)
<1>1. /\ q \in Sent /\ q \in WireRequest /\ k \in Keys
      /\ q.by \in Actors /\ q.run \in Runs
  BY KindsOfRequests DEF DecisionRequest, ResumeRequest, TelemetryRequest
<1>2. DbOK(Sent, runs, trace, approval, audit) /\ ApprovalsOK(approval, audit)
  BY DEF IInv, DbOK
<1>3. /\ trace[k].type = "absent" /\ runs' = runs \cup {q.run}
      /\ trace' = [trace EXCEPT ![k] = row]
  BY DEF IndexesAccept, InsertTrace
<1>4. /\ ApprovalsOK(approval', audit')
      /\ Grows(trace, approval, audit, trace, approval', audit')
      /\ row.decision = "require_human_review" =>
           Present(NextApproval, approval') /\ approval'[NextApproval].decision = k
      /\ \A h \in ApprovalIds : Present(h, approval') =>
           \/ Present(h, approval)
           \/ row.decision = "require_human_review" /\ approval'[h].decision = k
  <2>1. CASE row.decision = "require_human_review"
    <3>1. InsertApproval(k, q.by, None)
      BY <2>1 DEF ReviewIsRequested
    <3>2. /\ ApprovalsOK(approval', audit')
          /\ Grows(trace, approval, audit, trace, approval', audit')
          /\ Present(NextApproval, approval') /\ approval'[NextApproval].decision = k
          /\ \A h \in ApprovalIds :
               Present(h, approval') => Present(h, approval) \/ h = NextApproval
      BY <3>1, <1>1, <1>2, InsertApprovalStep
    <3> QED
      BY <2>1, <3>2
  <2>2. CASE row.decision # "require_human_review"
    <3>1. approval' = approval /\ audit' = audit
      BY <2>2 DEF ReviewIsRequested
    <3> QED
      BY <2>2, <3>1, <1>2 DEF Grows
  <2> QED
    BY <2>1, <2>2
<1>5. DbOK(Sent, runs, trace, approval', audit')
  BY <1>2, <1>4, ApprovalsChanged
<1>6. trace'[k] = row
  BY <1>1, <1>2, <1>3 DEF DbOK
<1> HIDE DEF k
<1>7. row.decision = "require_human_review" => ReviewAsked(k, approval')
  BY <1>4 DEF ReviewAsked, Present
<1>8. RowOK(k, Sent, trace', approval', audit')
  BY <1>1, <1>6, <1>7 DEF RowOK, k
<1>9. audit' \subseteq AuditEntry /\ \A e \in audit' : Present(e.approval, approval')
  BY <1>4 DEF ApprovalsOK
<1> HIDE DEF q
<1>10. /\ DbOK(Sent, runs', trace', approval', audit')
       /\ Grows(trace, approval', audit', trace', approval', audit')
  BY <1>1, <1>3, <1>5, <1>8, <1>9, TraceInserted
<1>11. Grows(trace, approval, audit, trace', approval', audit')
  BY <1>4, <1>10, GrowsTransitive
<1>12. ReviewsDecisions(trace', approval')
  <2>1. row.decision = "require_human_review" => trace'[k].decision # None
    BY <1>6, GatewayNoneAssumption DEF Decisions
  <2>2. \A j \in Keys : trace[j].type = "absent" => trace[j] = NoTrace
    BY <1>2 DEF DbOK, RowOK
  <2> QED
    BY <1>2, <1>4, <1>11, <2>1, <2>2, ReviewsStable DEF IInv
<1> QED
  BY <1>4, <1>6, <1>10, <1>11, <1>12 DEF k, q

\* A handler that found nothing on record goes on to its transaction.
LEMMA EnteredIsSession ==
    ASSUME NEW q \in Request, NEW b \in BOOLEAN
    PROVE  LET s == [Idle EXCEPT !.pc = "commit", !.req = q, !.knownRun = b]
           IN  s \in Session /\ s.pc = "commit" /\ s.req = q
BY DEF Session, Idle

LEMMA ReceiveDecisionStep ==
    ASSUME NEW Sent, Sent \subseteq WireRequest, IInv(Sent), NEW w \in Workers,
           NEW q \in Sent, q.op = "decide", ReceiveDecision(w, q)
    PROVE  Preserved(Sent)
<1> DEFINE row == trace[KeyOf(q)]
<1>1. UNCHANGED Tables
  BY DEF ReceiveDecision
<1>2. KeyOf(q) \in Keys /\ q \in Request /\ q.run \in Runs
  BY KindsOfRequests DEF DecisionRequest
<1>3. CASE row.type = "absent" /\ UNCHANGED replies
           /\ Enter(w, [Idle EXCEPT !.pc = "commit", !.req = q, !.knownRun = q.run \in runs])
  <2> DEFINE s == [Idle EXCEPT !.pc = "commit", !.req = q, !.knownRun = q.run \in runs]
  <2>1. session' = [session EXCEPT ![w] = s] /\ replies' = replies
    BY <1>3 DEF Enter
  <2>2. s \in Session /\ s.pc = "commit" /\ s.req = q
    <3>1. (q.run \in runs) \in BOOLEAN
      OBVIOUS
    <3> QED
      BY <1>2, <3>1, EnteredIsSession, Zenon
  <2> HIDE DEF s
  <2>3. SessionOK(s, Sent, trace, approval, audit)
    BY <2>2 DEF SessionOK
  <2> QED
    BY <1>1, <2>1, <2>3, ReaderMoves
<1>4. CASE row.decision # None /\ UNCHANGED replies
           /\ Enter(w, [Idle EXCEPT !.pc = "replay", !.req = q])
  <2> DEFINE s == [Idle EXCEPT !.pc = "replay", !.req = q]
  <2>1. session' = [session EXCEPT ![w] = s] /\ replies' = replies
    BY <1>4 DEF Enter
  <2>2. s \in Session /\ s.pc = "replay" /\ s.req = q
    BY <1>2 DEF Session, Idle
  <2> HIDE DEF s
  <2>3. SessionOK(s, Sent, trace, approval, audit)
    BY <2>2, <1>4 DEF SessionOK
  <2> QED
    BY <1>1, <2>1, <2>3, ReaderMoves
<1>5. CASE row.decision = None /\ row.failure = "record_only"
           /\ Answer(w, q, "not_applicable", None, None)
  <2>1. \A r \in replies' : r \in replies \/ ReplyOK(r, Sent, trace, approval, audit)
    BY <1>5, DecisionAnswerIsOK DEF Answer, Decisions
  <2> QED
    BY <1>1, <1>5, <2>1, ReaderEnds DEF Answer
<1>6. CASE Refuse(w, q)
  <2>1. \A r \in replies' : r \in replies \/ ReplyOK(r, Sent, trace, approval, audit)
    BY <1>6, NoAnswerIsOK DEF Refuse
  <2> QED
    BY <1>1, <1>6, <2>1, ReaderEnds DEF Refuse
<1> QED
  BY <1>3, <1>4, <1>5, <1>6 DEF ReceiveDecision

LEMMA ReplayDecisionStep ==
    ASSUME NEW Sent, Sent \subseteq WireRequest, IInv(Sent), NEW w \in Workers,
           ReplayDecision(w)
    PROVE  Preserved(Sent)
<1> DEFINE q == session[w].req
           k == KeyOf(q)
           d == trace[k].decision
           h == LatestApproval(k)
<1>1. session[w].pc = "replay" /\ Answer(w, q, d, h, None) /\ UNCHANGED Tables
  BY DEF ReplayDecision
<1>2. SessionOK(session[w], Sent, trace, approval, audit)
  BY DEF IInv
<1>3. q \in Sent /\ q.op = "decide" /\ d # None /\ k \in Keys
  BY <1>1, <1>2, KindsOfRequests DEF SessionOK
<1>4. d \in Decisions
  BY <1>3 DEF IInv, DbOK, TraceRow
<1>5. ApprovalsOf(k) # {} =>
         h \in ApprovalIds /\ Present(h, approval) /\ approval[h].decision = k
  BY LatestIsMember DEF ApprovalsOf, Present
<1>6. ApprovalsOf(k) = {} => h = None
  BY DEF LatestApproval
<1>7. d = "require_human_review" => ApprovalsOf(k) # {}
  BY <1>3 DEF IInv, DbOK, RowOK, ReviewAsked, ApprovalsOf, Present
<1> HIDE DEF h
<1>8. \A r \in replies' : r \in replies \/ ReplyOK(r, Sent, trace, approval, audit)
  BY <1>1, <1>3, <1>4, <1>5, <1>6, <1>7, DecisionAnswerIsOK DEF Answer
<1> QED
  BY <1>1, <1>8, ReaderEnds DEF Answer

\* What is recorded about a decision request, and what is answered, agree.
LEMMA DecisionRows ==
    ASSUME NEW q \in DecisionRequest, NEW row \in EvaluatedRows(q) \cup {FailedRow(q)}
    PROVE  /\ row \in TraceRow /\ row.type = "tool_call_requested"
           /\ row.failure = "record_only" => q.mode # "enforcement"
           /\ row.decision = None => row.failure = "record_only"
<1>1. CASE row \in EvaluatedRows(q)
  <2>1. PICK d \in Decisions : row = [Requested(q) EXCEPT !.decision = d]
    BY <1>1 DEF EvaluatedRows
  <2> QED
    BY <2>1, GatewayNoneAssumption DEF Requested, NoTrace, TraceRow, DecisionRequest,
       FailureDefaults
<1>2. CASE row = FailedRow(q)
  <2> DEFINE f == EffectiveDefault(q.mode)
  <2>1. f \in FailureDefaults /\ (f = "record_only" => q.mode # "enforcement")
    BY DefaultAssumption DEF EffectiveDefault, FailureDefaults
  <2> HIDE DEF f
  <2>2. /\ FailureDecision(f) \in Decisions \cup {None}
        /\ FailureDecision(f) = None => f = "record_only"
    BY <2>1, GatewayNoneAssumption DEF FailureDecision, FailureDefaults, Decisions
  <2>3. row = [Requested(q) EXCEPT !.failure = f, !.decision = FailureDecision(f)]
    BY <1>2 DEF FailedRow, f
  <2> QED
    BY <2>1, <2>2, <2>3 DEF Requested, NoTrace, TraceRow, DecisionRequest
<1> QED
  BY <1>1, <1>2

LEMMA CommitDecisionStep ==
    ASSUME NEW Sent, Sent \subseteq WireRequest, IInv(Sent), NEW w \in Workers,
           CommitDecision(w)
    PROVE  Preserved(Sent)
<1> DEFINE q == session[w].req
<1>1. session[w].pc = "commit" /\ q.op = "decide"
  BY DEF CommitDecision, Committing
<1>2. SessionOK(session[w], Sent, trace, approval, audit)
  BY DEF IInv
<1>3. q \in Sent /\ q \in DecisionRequest
  <2>1. q \notin ApprovalRequest
    BY <1>1 DEF ApprovalRequest
  <2>2. q \in Sent
    BY <1>1, <1>2, <2>1 DEF SessionOK
  <2> QED
    BY <1>1, <2>2, KindsOfRequests
<1>4. CASE IndexesAccept(w)
  <2>1. PICK row \in EvaluatedRows(q) \cup {FailedRow(q)} :
          /\ InsertTrace(w, row)
          /\ ReviewIsRequested(w, row)
          /\ Answer(w, q,
               IF row.decision = None THEN "not_applicable" ELSE row.decision,
               IF row.decision = "require_human_review" THEN NextApproval ELSE None, None)
    BY <1>4 DEF CommitDecision
  <2> DEFINE d == IF row.decision = None THEN "not_applicable" ELSE row.decision
             h == IF row.decision = "require_human_review" THEN NextApproval ELSE None
  <2>2. /\ row \in TraceRow /\ row.type = "tool_call_requested"
        /\ row.failure = "record_only" => q.mode # "enforcement"
        /\ row.decision = None => row.failure = "record_only"
    BY <1>3, DecisionRows
  <2>3. /\ DbOK(Sent, runs', trace', approval', audit')
        /\ Grows(trace, approval, audit, trace', approval', audit')
        /\ ReviewsDecisions(trace', approval')
        /\ trace'[KeyOf(q)] = row
        /\ row.decision = "require_human_review" =>
             Present(NextApproval, approval') /\ approval'[NextApproval].decision = KeyOf(q)
    BY <1>1, <1>3, <1>4, <2>1, <2>2, EvaluationCommits
  <2>4. /\ d \in Decisions /\ h \in ApprovalIds \cup {None}
        /\ d = "require_human_review" =>
             Present(h, approval') /\ approval'[h].decision = KeyOf(q)
        /\ \/ row.decision # None /\ d = row.decision
           \/ row.failure = "record_only" /\ d = "not_applicable"
    BY <2>2, <2>3 DEF Present, TraceRow, Decisions
  <2> HIDE DEF d, h, q
  <2>5. Leave(w) /\ Send(q, "answer", d, h, None)
    BY <2>1 DEF Answer, d, h
  <2>6. \A r \in replies' : r \in replies \/ ReplyOK(r, Sent, trace', approval', audit')
    BY <1>1, <1>3, <2>3, <2>4, <2>5, DecisionAnswerIsOK
  <2>7. session' = [session EXCEPT ![w] = Idle]
    BY <2>5 DEF Leave
  <2> QED
    BY <2>3, <2>6, <2>7, IdleIsOK, OneHandlerMoves
<1>5. CASE ~ IndexesAccept(w)
  <2>1. Fail(w, q) /\ UNCHANGED Tables
    BY <1>5 DEF CommitDecision
  <2>2. \A r \in replies' : r \in replies \/ ReplyOK(r, Sent, trace, approval, audit)
    BY <1>1, <1>3, <2>1, NoAnswerIsOK DEF Fail
  <2> QED
    BY <2>1, <2>2, ReaderEnds DEF Fail
<1> QED
  BY <1>4, <1>5

LEMMA ReceiveTelemetryStep ==
    ASSUME NEW Sent, Sent \subseteq WireRequest, IInv(Sent), NEW w \in Workers,
           NEW q \in Sent, q.op = "telemetry", ReceiveTelemetry(w, q)
    PROVE  Preserved(Sent)
<1> DEFINE s == [Idle EXCEPT !.pc = "commit", !.req = q, !.knownRun = q.run \in runs]
<1>1. session' = [session EXCEPT ![w] = s] /\ UNCHANGED Tables /\ replies' = replies
  BY DEF ReceiveTelemetry, Enter
<1>2. s \in Session /\ s.pc = "commit" /\ s.req = q
  <2>1. q \in Request /\ (q.run \in runs) \in BOOLEAN
    BY KindsOfRequests
  <2> QED
    BY <2>1, EnteredIsSession, Zenon
<1> HIDE DEF s
<1>3. SessionOK(s, Sent, trace, approval, audit)
  BY <1>2 DEF SessionOK
<1> QED
  BY <1>1, <1>3, ReaderMoves

LEMMA CommitTelemetryStep ==
    ASSUME NEW Sent, Sent \subseteq WireRequest, IInv(Sent), NEW w \in Workers,
           CommitTelemetry(w)
    PROVE  Preserved(Sent)
<1> DEFINE q == session[w].req
<1>1. session[w].pc = "commit" /\ q.op = "telemetry" /\ Leave(w) /\ replies' = replies
  BY DEF CommitTelemetry, Committing
<1>2. q \in Sent
  <2>1. SessionOK(session[w], Sent, trace, approval, audit)
    BY DEF IInv
  <2>2. q \notin ApprovalRequest
    BY <1>1 DEF ApprovalRequest
  <2> QED
    BY <1>1, <2>1, <2>2 DEF SessionOK
<1>3. q \in TelemetryRequest
  BY <1>1, <1>2, KindsOfRequests
<1>4. CASE UNCHANGED Tables
  BY <1>1, <1>4, ReaderEnds
<1>5. ASSUME IndexesAccept(w),
             NEW row \in IF q.type = "other" THEN {[NoTrace EXCEPT !.type = "other"]}
                           ELSE EvaluatedRows(q),
             InsertTrace(w, row), ReviewIsRequested(w, row)
      PROVE  Preserved(Sent)
  <2>1. /\ row \in TraceRow /\ row.type \in {"tool_call_requested", "other"}
        /\ row.failure = None
    <3>1. CASE q.type = "other"
      BY <1>5, <3>1 DEF NoTrace, TraceRow
    <3>2. CASE q.type # "other"
      <4>1. PICK d \in Decisions : row = [Requested(q) EXCEPT !.decision = d]
        BY <1>5, <3>2 DEF EvaluatedRows
      <4> QED
        BY <1>3, <4>1 DEF Requested, NoTrace, TraceRow, TelemetryRequest
    <3> QED
      BY <3>1, <3>2
  <2>2. row.failure # "record_only"
    BY <2>1, GatewayNoneAssumption DEF FailureDefaults
  <2>3. /\ DbOK(Sent, runs', trace', approval', audit')
        /\ Grows(trace, approval, audit, trace', approval', audit')
        /\ ReviewsDecisions(trace', approval')
    BY <1>1, <1>2, <1>5, <2>1, <2>2, EvaluationCommits
  <2>4. session' = [session EXCEPT ![w] = Idle]
    BY <1>1 DEF Leave
  <2> QED
    BY <1>1, <2>3, <2>4, IdleIsOK, OneHandlerMoves
<1> QED
  BY <1>4, <1>5 DEF CommitTelemetry

-----------------------------------------------------------------------------
(* Resume checks.                                                          *)

LEMMA ReceiveResumeStep ==
    ASSUME NEW Sent, Sent \subseteq WireRequest, IInv(Sent), NEW w \in Workers,
           NEW q \in Sent, q.op = "resume", ReceiveResume(w, q)
    PROVE  Preserved(Sent)
<1> DEFINE st == approval[q.approval].status
           s == [Idle EXCEPT !.pc = "lookup", !.req = q, !.status = st]
<1>1. UNCHANGED Tables
  BY DEF ReceiveResume
<1>2. q \in Request /\ q \in ResumeRequest
  BY KindsOfRequests
<1>3. CASE ChainMatches(q)
  <2>1. session' = [session EXCEPT ![w] = s] /\ replies' = replies
    BY <1>3 DEF ReceiveResume, Enter
  <2>2. Chain(q.run, q.original, q.tool, q.approval, trace, approval)
    BY <1>2, <1>3 DEF ChainMatches, Chain, Present, ResumeRequest, Keys
  <2>3. StatusOK(st, q.approval, approval, audit)
    BY <1>2, <1>3 DEF ChainMatches, StatusOK, IInv, DbOK, ApprovalsOK, ApprovalRow,
       ResumeRequest
  <2>4. s \in Session /\ s.pc = "lookup" /\ s.req = q /\ s.status = st
    BY <1>2, <2>3 DEF Session, Idle, StatusOK
  <2> HIDE DEF s
  <2>5. SessionOK(s, Sent, trace, approval, audit)
    BY <2>2, <2>3, <2>4 DEF SessionOK
  <2> QED
    BY <1>1, <2>1, <2>5, ReaderMoves
<1>4. CASE ~ ChainMatches(q)
  <2>1. Refuse(w, q)
    BY <1>4 DEF ReceiveResume
  <2>2. \A r \in replies' : r \in replies \/ ReplyOK(r, Sent, trace, approval, audit)
    BY <2>1, NoAnswerIsOK DEF Refuse
  <2> QED
    BY <1>1, <2>1, <2>2, ReaderEnds DEF Refuse
<1> QED
  BY <1>3, <1>4

LEMMA LookUpResumeStep ==
    ASSUME NEW Sent, Sent \subseteq WireRequest, IInv(Sent), NEW w \in Workers,
           LookUpResume(w)
    PROVE  Preserved(Sent)
<1> DEFINE q == session[w].req
           k == KeyOf(q)
           row == trace[k]
<1>1. session[w].pc = "lookup" /\ UNCHANGED Tables
  BY DEF LookUpResume
<1>2. SessionOK(session[w], Sent, trace, approval, audit)
  BY DEF IInv
<1>3. q \in Sent /\ q.op = "resume" /\ k \in Keys
  BY <1>1, <1>2, KindsOfRequests DEF SessionOK
<1>4. ASSUME NEW b \in BOOLEAN, replies' = replies,
             session' = [session EXCEPT ![w].pc = "commit", ![w].knownRun = b]
      PROVE  Preserved(Sent)
  <2> DEFINE s == [session[w] EXCEPT !.pc = "commit", !.knownRun = b]
  <2>1. session[w] \in Session /\ session \in [Workers -> Session]
    BY <1>2 DEF SessionOK, IInv
  <2>2. session' = [session EXCEPT ![w] = s]
    BY <1>4, <2>1
  <2>3. /\ s \in Session /\ s.pc = "commit" /\ s.req = q
        /\ s.status = session[w].status
    BY <2>1 DEF Session
  <2> HIDE DEF s
  <2>4. SessionOK(s, Sent, trace, approval, audit)
    BY <1>1, <1>2, <1>3, <2>3 DEF SessionOK
  <2> QED
    BY <1>1, <1>4, <2>2, <2>4, ReaderMoves
<1>5. CASE replies' = replies
           /\ session' = [session EXCEPT ![w].pc = "commit", ![w].knownRun = q.run \in runs]
  <2>1. (q.run \in runs) \in BOOLEAN
    OBVIOUS
  <2> QED
    BY <1>4, <1>5, <2>1, Zenon
<1>6. CASE row.type = "resume"
           /\ Answer(w, q, ResumeDecision(row.status), row.approval, row.status)
  <2>1. row.approval \in ApprovalIds /\ row.status \in ApprovalStatus
    BY <1>3, <1>6 DEF IInv, DbOK, RowOK, Chain, StatusOK, Present
  <2>2. \A r \in replies' : r \in replies \/ ReplyOK(r, Sent, trace, approval, audit)
    BY <1>3, <1>6, <2>1, ResumeAnswerIsOK DEF Answer
  <2> QED
    BY <1>1, <1>6, <2>2, ReaderEnds DEF Answer
<1>7. CASE Refuse(w, q)
  <2>1. \A r \in replies' : r \in replies \/ ReplyOK(r, Sent, trace, approval, audit)
    BY <1>3, <1>7, NoAnswerIsOK DEF Refuse
  <2> QED
    BY <1>1, <1>7, <2>1, ReaderEnds DEF Refuse
<1> QED
  BY <1>5, <1>6, <1>7 DEF LookUpResume

LEMMA CommitResumeStep ==
    ASSUME NEW Sent, Sent \subseteq WireRequest, IInv(Sent), NEW w \in Workers,
           CommitResume(w)
    PROVE  Preserved(Sent)
<1> DEFINE q == session[w].req
           s == session[w].status
           k == KeyOf(q)
           h == q.approval
           row == [NoTrace EXCEPT !.type = "resume", !.tool = q.tool,
                     !.original = q.original, !.approval = h, !.status = s]
           e == Entry("runtime_tool_call_resume_checked", h, q.by, k)
<1>1. session[w].pc = "commit" /\ q.op = "resume"
  BY DEF CommitResume, Committing
<1>2. SessionOK(session[w], Sent, trace, approval, audit)
  BY DEF IInv
<1>3. q \in Sent
  <2>1. q \notin ApprovalRequest
    BY <1>1 DEF ApprovalRequest
  <2> QED
    BY <1>1, <1>2, <2>1 DEF SessionOK
<1>4. q \in ResumeRequest /\ k \in Keys
  BY <1>1, <1>3, KindsOfRequests
<1>5. Chain(q.run, q.original, q.tool, h, trace, approval) /\ StatusOK(s, h, approval, audit)
  BY <1>1, <1>2 DEF SessionOK
<1>6. DbOK(Sent, runs, trace, approval, audit)
  BY DEF IInv
<1>7. CASE IndexesAccept(w)
  <2>1. /\ trace[k].type = "absent" /\ runs' = runs \cup {q.run}
        /\ trace' = [trace EXCEPT ![k] = row]
        /\ audit' = audit \cup {e} /\ approval' = approval
        /\ Leave(w) /\ Send(q, "answer", ResumeDecision(s), h, s)
    BY <1>7 DEF CommitResume, IndexesAccept, InsertTrace, Answer
  <2>2. /\ row \in TraceRow /\ row.type = "resume" /\ row.tool = q.tool
        /\ row.original = q.original /\ row.approval = h /\ row.status = s
        /\ row.decision = None /\ row.failure = None
    BY <1>4, <1>5 DEF TraceRow, NoTrace, ResumeRequest, StatusOK
  <2> HIDE DEF row
  <2>3. e \in AuditEntry /\ e.resume = k /\ e.approval = h
    BY <1>4 DEF Entry, AuditEntry, ResumeRequest
  <2>4. /\ audit \subseteq audit' /\ audit' \subseteq AuditEntry /\ e \in audit'
        /\ \A f \in audit' : Present(f.approval, approval)
    BY <1>5, <1>6, <2>1, <2>3 DEF DbOK, ApprovalsOK, Chain
  <2>5. /\ trace'[k] = row
        /\ \A j \in Keys : trace[j].type # "absent" => trace'[j] = trace[j]
    BY <1>4, <1>6, <2>1 DEF DbOK
  <2>6. Grows(trace, approval, audit, trace', approval, audit')
    BY <2>4, <2>5 DEF Grows
  <2>7. /\ Chain(q.run, q.original, q.tool, h, trace', approval)
        /\ StatusOK(s, h, approval, audit')
    <3>1. Present(h, approval) /\ \A j \in Keys : trace[j].type = "absent" => trace[j] = NoTrace
      BY <1>5, <1>6 DEF Chain, DbOK, RowOK
    <3> QED
      BY <1>5, <2>6, <3>1, ChainStable, StatusStable
  <2>8. k[1] = q.run /\ k = KeyOf(q)
    BY DEF KeyOf
  <2> HIDE DEF k, e
  <2>9. RowOK(k, Sent, trace', approval, audit')
    BY <1>1, <1>3, <2>2, <2>3, <2>4, <2>5, <2>7, <2>8, GatewayNoneAssumption
       DEF RowOK, Decisions, FailureDefaults
  <2>10. DbOK(Sent, runs', trace', approval, audit')
    BY <1>4, <1>6, <2>1, <2>2, <2>4, <2>9, TraceInserted DEF ResumeRequest
  <2>11. \A r \in replies' : r \in replies \/ ReplyOK(r, Sent, trace', approval, audit')
    <3>1. h \in ApprovalIds /\ s \in ApprovalStatus
      BY <1>5 DEF Chain, Present, StatusOK
    <3>2. /\ trace'[KeyOf(q)].type = "resume" /\ trace'[KeyOf(q)].approval = h
          /\ trace'[KeyOf(q)].status = s
      BY <2>2, <2>5 DEF k
    <3> HIDE DEF q, h, s
    <3> QED
      BY <1>1, <1>3, <2>1, <3>1, <3>2, ResumeAnswerIsOK
  <2>12. session' = [session EXCEPT ![w] = Idle]
    BY <2>1 DEF Leave
  <2>13. ReviewsDecisions(trace', approval)
    BY <1>6, <2>6, ReviewsStable DEF IInv, DbOK, RowOK
  <2> QED
    BY <2>1, <2>6, <2>10, <2>11, <2>12, <2>13, IdleIsOK, OneHandlerMoves
<1>8. CASE ~ IndexesAccept(w)
  <2>1. Fail(w, q) /\ UNCHANGED Tables
    BY <1>8 DEF CommitResume
  <2>2. \A r \in replies' : r \in replies \/ ReplyOK(r, Sent, trace, approval, audit)
    BY <1>1, <1>3, <2>1, NoAnswerIsOK DEF Fail
  <2> QED
    BY <2>1, <2>2, ReaderEnds DEF Fail
<1> QED
  BY <1>7, <1>8

-----------------------------------------------------------------------------
(* The invariant.                                                          *)

LEMMA AbandonStep ==
    ASSUME NEW Sent, Sent \subseteq WireRequest, IInv(Sent), NEW w \in Workers, Abandon(w)
    PROVE  Preserved(Sent)
BY ReaderEnds DEF Abandon

LEMMA ReceiveStep ==
    ASSUME NEW Sent, Sent \subseteq WireRequest, IInv(Sent),
           NEW w \in Workers, NEW q \in Sent, Receive(w, q)
    PROVE  Preserved(Sent)
BY ReceiveDecisionStep, ReceiveResumeStep, ReceiveTelemetryStep DEF Receive

LEMMA ContinueStep ==
    ASSUME NEW Sent, Sent \subseteq WireRequest, IInv(Sent), NEW w \in Workers, Continue(w)
    PROVE  Preserved(Sent)
<1>1. CASE ReplayDecision(w)
  BY <1>1, ReplayDecisionStep
<1>2. CASE CommitDecision(w)
  BY <1>2, CommitDecisionStep
<1>3. CASE LookUpResume(w)
  BY <1>3, LookUpResumeStep
<1>4. CASE CommitResume(w)
  BY <1>4, CommitResumeStep
<1>5. CASE CommitTelemetry(w)
  BY <1>5, CommitTelemetryStep
<1>6. CASE ApproveApproval(w)
  BY <1>6, DecideStep DEF ApproveApproval
<1>7. CASE RejectApproval(w)
  BY <1>7, DecideStep DEF RejectApproval
<1>8. CASE CancelApproval(w)
  BY <1>8, DecideStep DEF CancelApproval
<1> QED
  BY <1>1, <1>2, <1>3, <1>4, <1>5, <1>6, <1>7, <1>8 DEF Continue

LEMMA ReviewStep ==
    ASSUME NEW Sent, Sent \subseteq WireRequest, IInv(Sent), Review
    PROVE  Preserved(Sent)
<1>1. CASE \E w \in Workers, op \in {"approve", "reject", "cancel"} \cap Reviewing,
              h \in ApprovalIds, a \in Actors : ReadPendingApproval(w, op, h, a)
  BY <1>1, ReadPendingApprovalStep
<1>2. CASE \E a \in Actors, k \in Keys \cup {None} :
             CreateApproval(a, k, None) \/ CreateApproval(a, k, "later")
  BY <1>2, CreateApprovalStep
<1>3. CASE \E h \in ApprovalIds : PassDue(h)
  BY <1>3, PassDueStep
<1> QED
  BY <1>1, <1>2, <1>3 DEF Review

\* A step of nobody changes nothing.
LEMMA StutterStep ==
    ASSUME NEW Sent, Sent \subseteq WireRequest, IInv(Sent), UNCHANGED vars
    PROVE  Preserved(Sent)
<1>1. /\ ApprovalsOK(approval', audit')
      /\ Grows(trace, approval, audit, trace, approval', audit')
      /\ ReviewsDecisions(trace, approval')
  BY DEF vars, IInv, DbOK, Grows
<1> QED
  BY <1>1, NoHandlerMoves DEF vars

LEMMA InitIInv ==
    ASSUME NEW Sent, Init
    PROVE  IInv(Sent)
<1>1. NoTrace \in TraceRow /\ NoApproval \in ApprovalRow
  BY DEF NoTrace, TraceRow, NoApproval, ApprovalRow
<1>2. ApprovalsOK(approval, audit)
  BY <1>1 DEF Init, ApprovalsOK, Present, NoApproval
<1>3. \A k \in Keys : RowOK(k, Sent, trace, approval, audit)
  BY GatewayNoneAssumption DEF Init, RowOK, NoTrace, Decisions, FailureDefaults
<1>4. /\ session \in [Workers -> Session]
      /\ \A w \in Workers : SessionOK(session[w], Sent, trace, approval, audit)
  BY IdleIsOK DEF Init
<1>5. ReviewsDecisions(trace, approval)
  BY DEF Init, ReviewsDecisions, Present, NoApproval
<1> QED
  BY <1>1, <1>2, <1>3, <1>4, <1>5 DEF Init, IInv, DbOK

LEMMA NextIInv ==
    ASSUME IInv(Incoming), [Next]_vars
    PROVE  Preserved(Incoming)
<1>1. Incoming \subseteq WireRequest
  BY IncomingAssumption DEF WireRequest
<1>2. CASE \E w \in Workers : \E q \in Incoming : Receive(w, q)
  BY <1>1, <1>2, ReceiveStep
<1>3. CASE \E w \in Workers : Continue(w) \/ Abandon(w)
  BY <1>1, <1>3, ContinueStep, AbandonStep
<1>4. CASE Review
  BY <1>1, <1>4, ReviewStep
<1>5. CASE UNCHANGED vars
  BY <1>1, <1>5, StutterStep
<1> QED
  BY <1>2, <1>3, <1>4, <1>5 DEF Next

LEMMA InductiveInvariant == Spec => []IInv(Incoming)
<1>1. Init => IInv(Incoming)
  BY InitIInv
<1>2. IInv(Incoming) /\ [Next]_vars => IInv(Incoming)'
  BY NextIInv DEF Preserved
<1> QED
  BY <1>1, <1>2, PTL DEF Spec

-----------------------------------------------------------------------------
(* What follows from the invariant.                                        *)

LEMMA IInvTypes ==
    ASSUME NEW Sent, Sent \subseteq WireRequest, IInv(Sent)
    PROVE  TypeOK
BY DEF IInv, DbOK, ApprovalsOK, ReplyOK, TypeOK

LEMMA IInvAnswers ==
    ASSUME NEW Sent, Sent \subseteq WireRequest, IInv(Sent)
    PROVE  AnswersMatchEvidence
<1>1. ASSUME NEW r \in Answers("decide")
      PROVE  LET row == trace[KeyOf(r.to)]
             IN  \/ row.decision # None /\ r.decision = row.decision
                 \/ row.failure = "record_only" /\ r.decision = "not_applicable"
  BY <1>1 DEF Answers, IInv, ReplyOK
<1>2. ASSUME NEW r \in Answers("resume")
      PROVE  LET row == trace[KeyOf(r.to)]
             IN  /\ row.type = "resume"
                 /\ r.decision = ResumeDecision(row.status)
                 /\ r.approval = row.approval /\ r.status = row.status
                 /\ \E e \in audit : e.resume = KeyOf(r.to) /\ e.approval = row.approval
  <2>1. KeyOf(r.to) \in Keys
    BY <1>2, KindsOfRequests DEF Answers, IInv, ReplyOK
  <2> QED
    BY <1>2, <2>1 DEF Answers, IInv, ReplyOK, DbOK, RowOK
<1> QED
  BY <1>1, <1>2 DEF AnswersMatchEvidence

LEMMA IInvReviews ==
    ASSUME NEW Sent, Sent \subseteq WireRequest, IInv(Sent)
    PROVE  ReviewCanBeResumed
BY DEF IInv, DbOK, RowOK, ReviewAsked, Present, ApprovalsOf, Answers, ReplyOK,
       ReviewCanBeResumed

LEMMA IInvResumes ==
    ASSUME NEW Sent, Sent \subseteq WireRequest, IInv(Sent)
    PROVE  ResumeAllowWasApproved
<1> SUFFICES ASSUME NEW k \in Keys, trace[k].type = "resume",
                    ResumeDecision(trace[k].status) = "allow"
             PROVE
        /\ approval[trace[k].approval].decision = <<k[1], trace[k].original>>
        /\ trace[<<k[1], trace[k].original>>].tool \in {trace[k].tool, None}
        /\ \E e \in audit :
             /\ e.event = "human_approval_approved" /\ e.approval = trace[k].approval
             /\ e.by \in Reviewers \cup Admins
             /\ e.by \in Admins \/ e.by # approval[e.approval].requester
  BY DEF ResumeAllowWasApproved
<1>1. /\ Chain(k[1], trace[k].original, trace[k].tool, trace[k].approval, trace, approval)
      /\ StatusOK(trace[k].status, trace[k].approval, approval, audit)
  BY DEF IInv, DbOK, RowOK
<1>2. trace[k].status = "approved"
  BY DEF ResumeDecision
<1> QED
  BY <1>1, <1>2 DEF Chain, StatusOK, ApprovedOnRecord

\* Rows, sessions and responses are always well formed, whatever handlers interleave.
THEOREM TypeCorrect == Spec => []TypeOK
<1>1. IInv(Incoming) => TypeOK
  BY IInvTypes, IncomingAssumption DEF WireRequest
<1> QED
  BY <1>1, InductiveInvariant, PTL

\* Every answer to a decision or resume request stays what the records say: the
\* decide and resume endpoints commit before they answer, and retries and races
\* find what was committed.
THEOREM AnswersAreOnRecord == Spec => []AnswersMatchEvidence
<1>1. IInv(Incoming) => AnswersMatchEvidence
  BY IInvAnswers, IncomingAssumption DEF WireRequest
<1> QED
  BY <1>1, InductiveInvariant, PTL

\* A decision for review comes with an approval that is waiting, and the answer
\* names one of that very decision.
THEOREM BlockedCallsHaveAReview == Spec => []ReviewCanBeResumed
<1>1. IInv(Incoming) => ReviewCanBeResumed
  BY IInvReviews, IncomingAssumption DEF WireRequest
<1> QED
  BY <1>1, InductiveInvariant, PTL

\* A resume check that allows a call rests on an approval of that call, on record
\* and by somebody who may give it.
THEOREM ResumesWereApproved == Spec => []ResumeAllowWasApproved
<1>1. IInv(Incoming) => ResumeAllowWasApproved
  BY IInvResumes, IncomingAssumption DEF WireRequest
<1> QED
  BY <1>1, InductiveInvariant, PTL

\* Clients that use an id for one mode only always get a decision on record when
\* they enforce, also if the evaluation fails and the settings say record_only.
THEOREM EnforcementGetsADecision ==
    ASSUME \A p, q \in Incoming :
             p.op = "decide" /\ q.op = "decide" /\ KeyOf(p) = KeyOf(q) => p.mode = q.mode
    PROVE  Spec => []EnforcementIsDecided
<1>1. IInv(Incoming) => EnforcementIsDecided
  <2> SUFFICES ASSUME IInv(Incoming), NEW r \in Answers("decide"),
                      r.to.mode = "enforcement"
               PROVE  trace[KeyOf(r.to)].decision \in Decisions
    BY DEF EnforcementIsDecided
  <2>1. r.to \in Incoming /\ r.to.op = "decide" /\ r.kind = "answer" /\ r \in replies
    BY DEF Answers, IInv, ReplyOK
  <2>2. KeyOf(r.to) \in Keys
    BY <2>1, IncomingAssumption, KindsOfRequests DEF WireRequest
  <2>3. trace[KeyOf(r.to)].failure # "record_only"
    BY <2>1, <2>2 DEF IInv, DbOK, RowOK
  <2>4. trace[KeyOf(r.to)].decision # None
    BY <2>1, <2>3 DEF IInv, ReplyOK
  <2> QED
    BY <2>2, <2>4 DEF IInv, DbOK, TraceRow
<1> QED
  BY <1>1, InductiveInvariant, PTL

-----------------------------------------------------------------------------
(* One handler at a time.                                                  *)

Deciding(s) == s.pc = "commit" /\ s.req.op \in {"approve", "reject", "cancel"}

\* The approval that a handler is about to decide is still pending.
SerialInv ==
    \A w \in Workers :
        Deciding(session[w]) => approval[session[w].req.approval].status = "pending"

Decides(w) == ApproveApproval(w) \/ RejectApproval(w) \/ CancelApproval(w)

\* The statuses of the approvals on record stay as they are.
StatusesKept ==
    \A h \in ApprovalIds : Present(h, approval) => approval'[h].status = approval[h].status

LEMMA InsertKeepsStatuses ==
    ASSUME ApprovalsOK(approval, audit), NEW k, NEW a, NEW due, InsertApproval(k, a, due)
    PROVE  StatusesKept
<1> DEFINE n == NextApproval
<1>1. /\ n = Cardinality({h \in ApprovalIds : approval[h].status # "absent"}) + 1
      /\ n \in ApprovalIds /\ \A h \in ApprovalIds \ {n} : approval'[h] = approval[h]
  BY DEF InsertApproval, NextApproval, ApprovalsOK
<1> HIDE DEF n
<1>2. ~ Present(n, approval)
  BY <1>1, NextIsFree DEF ApprovalsOK, RightAfter
<1> QED
  BY <1>1, <1>2 DEF StatusesKept

\* Only the three transitions change a status.
LEMMA OthersKeepStatuses ==
    ASSUME IInv(Incoming), [Next]_vars, \A w \in Workers : ~ Decides(w)
    PROVE  StatusesKept
<1>1. ApprovalsOK(approval, audit)
  BY DEF IInv, DbOK
<1>2. approval' = approval => StatusesKept
  BY DEF StatusesKept
<1>3. ASSUME NEW w \in Workers, NEW q \in Incoming, Receive(w, q)
      PROVE  StatusesKept
  BY <1>2, <1>3 DEF Receive, ReceiveDecision, ReceiveResume, ReceiveTelemetry, Tables
<1>4. ASSUME NEW w \in Workers, NEW row, ReviewIsRequested(w, row)
      PROVE  StatusesKept
  BY <1>1, <1>2, <1>4, InsertKeepsStatuses DEF ReviewIsRequested
<1>5. ASSUME NEW w \in Workers, Continue(w) \/ Abandon(w)
      PROVE  StatusesKept
  <2>1. CASE CommitDecision(w)
    BY <1>2, <1>4, <2>1 DEF CommitDecision, Tables
  <2>2. CASE CommitTelemetry(w)
    BY <1>2, <1>4, <2>2 DEF CommitTelemetry, Tables
  <2>3. CASE ReplayDecision(w) \/ LookUpResume(w) \/ CommitResume(w) \/ Abandon(w)
    BY <1>2, <2>3 DEF ReplayDecision, LookUpResume, CommitResume, Abandon, Tables
  <2> QED
    BY <1>5, <2>1, <2>2, <2>3 DEF Continue, Decides
<1>6. CASE Review
  <2>1. ASSUME NEW w \in Workers, NEW op, NEW h, NEW a, ReadPendingApproval(w, op, h, a)
        PROVE  StatusesKept
    BY <1>2, <2>1 DEF ReadPendingApproval, Tables
  <2>2. ASSUME NEW a, NEW k, NEW due, CreateApproval(a, k, due)
        PROVE  StatusesKept
    BY <1>1, <2>2, InsertKeepsStatuses DEF CreateApproval
  <2>3. ASSUME NEW h \in ApprovalIds, PassDue(h)
        PROVE  StatusesKept
    BY <1>1, <2>3 DEF PassDue, StatusesKept, ApprovalsOK, ApprovalRow
  <2> QED
    BY <1>6, <2>1, <2>2, <2>3 DEF Review
<1>7. CASE UNCHANGED vars
  BY <1>2, <1>7 DEF vars
<1> QED
  BY <1>3, <1>5, <1>6, <1>7 DEF Next

\* A decision finds its approval pending and leaves the others alone.
LEMMA DecidesOnePending ==
    ASSUME IInv(Incoming), SerialInv, NEW w \in Workers, Decides(w)
    PROVE  /\ session' = [session EXCEPT ![w] = Idle]
           /\ \A h \in ApprovalIds :
                approval[h].status # "pending" => approval'[h] = approval[h]
<1>1. PICK op, status, event :
        op \in {"approve", "reject", "cancel"} /\ Decide(w, op, status, event)
  BY DEF Decides, ApproveApproval, RejectApproval, CancelApproval
<1> DEFINE g == session[w].req.approval
<1>2. /\ session' = [session EXCEPT ![w] = Idle] /\ Deciding(session[w])
      /\ approval' = [approval EXCEPT ![g].status = status]
  BY <1>1 DEF Decide, Committing, Leave, Deciding
<1>3. approval[g].status = "pending" /\ approval \in [ApprovalIds -> ApprovalRow]
  BY <1>2 DEF SerialInv, IInv, DbOK, ApprovalsOK
<1> QED
  BY <1>2, <1>3

\* A handler that did not read a pending approval in this step is not about to
\* decide one that it was not about to decide before.
LEMMA NobodyElseDecides ==
    ASSUME IInv(Incoming), NEW w \in Workers, Deciding(session'[w]),
           \/ \E q \in Incoming : Receive(w, q)
           \/ Continue(w) \/ Abandon(w)
    PROVE  FALSE
<1>1. session \in [Workers -> Session]
  BY DEF IInv
<1>2. ~ Leave(w)
  BY <1>1 DEF Leave, Deciding, Idle
<1>3. ASSUME NEW q \in Incoming, Receive(w, q)
      PROVE  FALSE
  <2>1. q.op \notin {"approve", "reject", "cancel"}
    BY <1>3 DEF Receive
  <2>2. session'[w].req = q
    BY <1>1, <1>2, <1>3 DEF Receive, ReceiveDecision, ReceiveResume, ReceiveTelemetry,
       Enter, Answer, Refuse, Idle
  <2> QED
    BY <2>1, <2>2 DEF Deciding
<1>4. CASE LookUpResume(w)
  <2>1. session'[w].req = session[w].req
    BY <1>1, <1>2, <1>4 DEF LookUpResume, Answer, Refuse, Session
  <2>2. session[w].req.op = "resume"
    BY <1>4 DEF IInv, SessionOK, LookUpResume
  <2> QED
    BY <2>1, <2>2 DEF Deciding
<1>5. CASE ReplayDecision(w) \/ CommitDecision(w) \/ CommitResume(w) \/ CommitTelemetry(w)
             \/ Abandon(w) \/ Decides(w)
  BY <1>2, <1>5 DEF ReplayDecision, CommitDecision, CommitResume, CommitTelemetry, Abandon,
     Answer, Fail, Decides, ApproveApproval, RejectApproval, CancelApproval, Decide
<1> QED
  BY <1>3, <1>4, <1>5 DEF Continue, Decides

LEMMA NextSerialInv ==
    ASSUME \A v, w \in Workers : v = w, IInv(Incoming), SerialInv, [Next]_vars
    PROVE  SerialInv'
<1> SUFFICES ASSUME NEW w \in Workers, Deciding(session'[w])
             PROVE  approval'[session'[w].req.approval].status = "pending"
  BY DEF SerialInv
<1>1. ~ Decides(w)
  BY NobodyElseDecides DEF Continue, Decides
<1>2. \A v \in Workers : ~ Decides(v)
  BY <1>1
<1>3. StatusesKept
  BY <1>2, OthersKeepStatuses
<1>4. CASE session' = session
  <2>1. Present(session[w].req.approval, approval)
    BY <1>4 DEF Deciding, IInv, SessionOK
  <2> QED
    BY <1>3, <1>4, <2>1 DEF SerialInv, StatusesKept, Present
<1>5. ASSUME NEW v \in Workers, NEW op, NEW h \in ApprovalIds, NEW a,
             ReadPendingApproval(v, op, h, a)
      PROVE  approval'[session'[w].req.approval].status = "pending"
  <2>1. v = w /\ approval' = approval /\ approval[h].status = "pending"
    BY <1>5 DEF ReadPendingApproval, RequirePending, Tables
  <2>2. session'[w].req.approval = h
    BY <1>5, <2>1 DEF ReadPendingApproval, Enter, Idle, IInv
  <2> QED
    BY <2>1, <2>2
<1>6. ASSUME NEW v \in Workers, (\E q \in Incoming : Receive(v, q)) \/ Continue(v) \/ Abandon(v)
      PROVE  FALSE
  <2>1. v = w
    OBVIOUS
  <2> QED
    BY <1>6, <2>1, NobodyElseDecides
<1>7. CASE Review
  BY <1>4, <1>5, <1>7 DEF Review, CreateApproval, PassDue
<1>8. CASE UNCHANGED vars
  BY <1>4, <1>8 DEF vars
<1> QED
  BY <1>6, <1>7, <1>8 DEF Next

\* With one handler at a time, a decided approval stays as it was decided: the
\* check of the status and the transition are not separated then.
THEOREM DecidedStaysDecided ==
    ASSUME \A v, w \in Workers : v = w
    PROVE  Spec => DecidedApprovalsAreFinal
<1>1. Init => SerialInv
  BY DEF Init, SerialInv, Deciding, Idle
<1>2. IInv(Incoming) /\ SerialInv /\ [Next]_vars => SerialInv'
  BY NextSerialInv
<1>3. IInv(Incoming) /\ SerialInv /\ [Next]_vars =>
        [\A h \in ApprovalIds :
           approval[h].status \in {"approved", "rejected", "cancelled"} =>
             approval'[h].status = approval[h].status]_vars
  <2> SUFFICES ASSUME IInv(Incoming), SerialInv, [Next]_vars, NEW h \in ApprovalIds,
                      approval[h].status \in {"approved", "rejected", "cancelled"}
               PROVE  approval'[h].status = approval[h].status
    OBVIOUS
  <2>1. CASE \E w \in Workers : Decides(w)
    BY <2>1, DecidesOnePending
  <2>2. CASE \A w \in Workers : ~ Decides(w)
    BY <2>2, OthersKeepStatuses DEF StatusesKept, Present
  <2> QED
    BY <2>1, <2>2
<1> QED
  BY <1>1, <1>2, <1>3, InductiveInvariant, PTL DEF Spec, DecidedApprovalsAreFinal
=============================================================================

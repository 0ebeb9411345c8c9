------------------------ MODULE PolicyVersionsProofs ------------------------
(***************************************************************************)
(* Proofs about PolicyVersions, for any number of policies, versions,      *)
(* review requests, callers and concurrent handlers.                       *)
(*                                                                         *)
(* The inductive invariant speaks of the database (DbOK) and of what each  *)
(* handler has read (SessionOK).  What a handler has read may be stale, so *)
(* SessionOK only says what no other handler can take back: rows do not    *)
(* disappear, policies, numbers and requesters do not change, and the      *)
(* audit log only grows (Grows).  Both take the tables as parameters, so   *)
(* that their lemmas are about values and need no primes.                  *)
(***************************************************************************)
EXTENDS PolicyVersions, TLAPS

Present(v, vt) ==
    v \in VersionIds /\ vt[v].status # "absent" /\ vt[v].policy \in Policies

DirectApproval(v, al) ==
    \E d \in al : d.version = v /\ d.event = "policy_version_approved"

ReviewApproval(r, v, rt, al) ==
    \E d \in al :
        /\ d.version = v
        /\ d.event = "policy_version_review_approved" /\ d.request = r
        /\ MayReview(d.by) /\ NotSelfReview(d.by, rt[r])

Explained(v, rt, al) ==
    \E e \in al :
        /\ e.event = "policy_version_activated" /\ e.version = v
        /\ IF e.request = None THEN DirectApproval(v, al)
                               ELSE ReviewApproval(e.request, v, rt, al)

\* Every number up to n is in use by a version of policy p.
NumbersUpTo(p, n, vt) ==
    \A m \in 1 .. n : \E u \in VersionIds : Present(u, vt) /\ vt[u].policy = p /\ vt[u].number = m

DbOK(vt, rt, al) ==
    /\ vt \in [VersionIds -> VersionRow]
    /\ rt \in [RequestIds -> RequestRow]
    /\ al \subseteq AuditEntry
    /\ \A v \in VersionIds : vt[v].status # "absent" => Present(v, vt)
    /\ \A r \in RequestIds : rt[r].status # "absent" => Present(rt[r].version, vt)
    /\ \A d \in al : d.request # None => rt[d.request].status # "absent"
    /\ \A v \in VersionIds : vt[v].status = "approved" => DirectApproval(v, al)
    /\ \A v \in VersionIds : vt[v].status = "active" => Explained(v, rt, al)
    /\ \A r \in RequestIds :
         rt[r].status = "approved" => ReviewApproval(r, rt[r].version, rt, al)
    /\ OneActivePerPolicyIndex(vt)
    /\ VersionNumberIndex(vt)
    /\ \A v \in VersionIds :
         vt[v].status # "absent" => NumbersUpTo(vt[v].policy, vt[v].number, vt)

SessionOK(s, vt, rt, al) ==
    /\ s \in Session
    /\ s.pc = "request" => s.op = "activate_request"
    /\ s.op \in VersionEndpoints =>
         Present(s.vid, vt) /\ s.row.policy = vt[s.vid].policy
    /\ s.op \in Creators =>
         /\ s.row.policy \in Policies
         /\ s.pc = "ready" => NumbersUpTo(s.row.policy, s.number - 1, vt)
    /\ s.op \in Deciders \cup {"assign", "activate_request"} =>
         /\ s.rid \in RequestIds /\ rt[s.rid].status # "absent"
         /\ s.vid = rt[s.rid].version
    /\ s.op \in Deciders => MayReview(s.actor) /\ NotSelfReview(s.actor, rt[s.rid])
    /\ s.op = "activate" => DirectApproval(s.vid, al)
    /\ s.op = "request_review" => s.actor \in Actors
    /\ s.op = "activate_request" =>
         /\ ReviewApproval(s.rid, s.vid, rt, al)
         /\ s.pc # "request" => s.row.policy = vt[s.vid].policy
    /\ s.active # None =>
         /\ s.active # s.vid /\ Present(s.vid, vt)
         /\ Present(s.active, vt) /\ vt[s.active].policy = vt[s.vid].policy

IInv ==
    /\ DbOK(version, request, audit)
    /\ session \in [Workers -> Session]
    /\ \A w \in Workers : SessionOK(session[w], version, request, audit)

Grows(vt, rt, al, vt2, rt2, al2) ==
    /\ al \subseteq al2
    /\ \A v \in VersionIds : vt[v].status # "absent" =>
         /\ vt2[v].status # "absent"
         /\ vt2[v].policy = vt[v].policy /\ vt2[v].number = vt[v].number
    /\ \A r \in RequestIds : rt[r].status # "absent" =>
         /\ rt2[r].status # "absent"
         /\ rt2[r].version = rt[r].version /\ rt2[r].requester = rt[r].requester

-----------------------------------------------------------------------------
(* Values.                                                                 *)

\* A handler at rest refers to nothing.
LEMMA IdleIsOK ==
    ASSUME NEW vt, NEW rt, NEW al
    PROVE  Idle \in Session /\ SessionOK(Idle, vt, rt, al)
<1>1. Idle \in Session
  BY NoneAssumption DEF Idle, Session, NoVersion, VersionRow
<1>2. /\ None \notin VersionEndpoints \cup Creators \cup Deciders
      /\ None \notin {"assign", "activate_request", "activate", "request_review"}
  BY NoneAssumption DEF AllEndpoints, VersionEndpoints, RequiredStatus, Creators, Deciders
<1> QED
  BY <1>1, <1>2 DEF SessionOK, Idle

\* What a handler knows survives what the other handlers commit.
LEMMA SessionStable ==
    ASSUME NEW s, NEW vt, NEW rt, NEW al, NEW vt2, NEW rt2, NEW al2,
           DbOK(vt, rt, al), SessionOK(s, vt, rt, al),
           Grows(vt, rt, al, vt2, rt2, al2)
    PROVE  SessionOK(s, vt2, rt2, al2)
<1>1. \A v : Present(v, vt) => Present(v, vt2) /\ vt2[v].policy = vt[v].policy
                                 /\ vt2[v].number = vt[v].number
  BY DEF Present, Grows
<1>2. \A p, n : NumbersUpTo(p, n, vt) => NumbersUpTo(p, n, vt2)
  BY <1>1 DEF NumbersUpTo
<1>3. \A v : DirectApproval(v, al) => DirectApproval(v, al2)
  BY DEF DirectApproval, Grows
<1>4. \A v : \A r \in RequestIds : rt[r].status # "absent" /\ ReviewApproval(r, v, rt, al)
         => ReviewApproval(r, v, rt2, al2)
  BY DEF ReviewApproval, NotSelfReview, Grows
<1>5. s.op \in Deciders \cup {"assign", "activate_request"} =>
         Present(s.vid, vt)
  BY DEF SessionOK, DbOK
<1>6. /\ s.op \in VersionEndpoints =>
           Present(s.vid, vt2) /\ s.row.policy = vt2[s.vid].policy
      /\ s.op \in Creators =>
           /\ s.row.policy \in Policies
           /\ s.pc = "ready" => NumbersUpTo(s.row.policy, s.number - 1, vt2)
      /\ s.op = "activate" => DirectApproval(s.vid, al2)
      /\ s.active # None =>
           /\ s.active # s.vid /\ Present(s.vid, vt2)
           /\ Present(s.active, vt2) /\ vt2[s.active].policy = vt2[s.vid].policy
  BY <1>1, <1>2, <1>3 DEF SessionOK
<1>7. s.op \in Deciders \cup {"assign", "activate_request"} =>
         /\ s.rid \in RequestIds /\ rt2[s.rid].status # "absent"
         /\ s.vid = rt2[s.rid].version
         /\ rt2[s.rid].requester = rt[s.rid].requester
  BY DEF SessionOK, Grows
<1>8. s.op \in Deciders => MayReview(s.actor) /\ NotSelfReview(s.actor, rt2[s.rid])
  BY <1>7 DEF SessionOK, NotSelfReview
<1>9. s.op = "activate_request" =>
         /\ ReviewApproval(s.rid, s.vid, rt2, al2)
         /\ s.pc # "request" => s.row.policy = vt2[s.vid].policy
  BY <1>1, <1>4, <1>5 DEF SessionOK
<1> QED
  BY <1>6, <1>7, <1>8, <1>9 DEF SessionOK

\* So does the evidence for what is approved or active.
LEMMA EvidenceStable ==
    ASSUME NEW vt, NEW rt, NEW al, NEW vt2, NEW rt2, NEW al2,
           DbOK(vt, rt, al), Grows(vt, rt, al, vt2, rt2, al2)
    PROVE  /\ \A v : DirectApproval(v, al) => DirectApproval(v, al2)
           /\ \A r, v : r # None /\ ReviewApproval(r, v, rt, al)
                          => ReviewApproval(r, v, rt2, al2)
           /\ \A v : Explained(v, rt, al) => Explained(v, rt2, al2)
<1>1. \A v : DirectApproval(v, al) => DirectApproval(v, al2)
  BY DEF DirectApproval, Grows
<1>2. ASSUME NEW r, NEW v, r # None, ReviewApproval(r, v, rt, al)
      PROVE  ReviewApproval(r, v, rt2, al2)
  <2>1. PICK d \in al : /\ d.version = v
                        /\ d.event = "policy_version_review_approved" /\ d.request = r
                        /\ MayReview(d.by) /\ NotSelfReview(d.by, rt[r])
    BY <1>2 DEF ReviewApproval
  <2>2. r \in RequestIds /\ rt[r].status # "absent"
    BY <1>2, <2>1 DEF DbOK, AuditEntry
  <2>3. d \in al2 /\ NotSelfReview(d.by, rt2[r])
    BY <2>1, <2>2 DEF Grows, NotSelfReview
  <2> QED
    BY <2>1, <2>3 DEF ReviewApproval
<1>3. ASSUME NEW v, Explained(v, rt, al)
      PROVE  Explained(v, rt2, al2)
  <2>1. PICK e \in al :
          /\ e.event = "policy_version_activated" /\ e.version = v
          /\ IF e.request = None THEN DirectApproval(v, al)
                                 ELSE ReviewApproval(e.request, v, rt, al)
    BY <1>3 DEF Explained
  <2>2. e \in al2
    BY DEF Grows
  <2> QED
    BY <1>1, <1>2, <2>1, <2>2 DEF Explained
<1> QED
  BY <1>1, <1>2, <1>3

\* A transaction that changes statuses and contents of versions.
LEMMA VersionUpdate ==
    ASSUME NEW vt, NEW rt, NEW al, NEW vt2, NEW entries,
           DbOK(vt, rt, al),
           vt2 \in [VersionIds -> VersionRow],
           OneActivePerPolicyIndex(vt2), VersionNumberIndex(vt2),
           entries \subseteq AuditEntry,
           \A d \in entries : d.request # None => rt[d.request].status # "absent",
           \A v \in VersionIds :
             /\ vt2[v].status = "absent" <=> vt[v].status = "absent"
             /\ vt2[v].policy = vt[v].policy /\ vt2[v].number = vt[v].number
             /\ vt2[v].status = "approved" =>
                  vt[v].status = "approved" \/ DirectApproval(v, al \cup entries)
             /\ vt2[v].status = "active" =>
                  vt[v].status = "active" \/ Explained(v, rt, al \cup entries)
    PROVE  /\ DbOK(vt2, rt, al \cup entries)
           /\ Grows(vt, rt, al, vt2, rt, al \cup entries)
<1> DEFINE al2 == al \cup entries
<1>1. Grows(vt, rt, al, vt2, rt, al2)
  BY DEF Grows
<1>2. /\ rt \in [RequestIds -> RequestRow]
      /\ al2 \subseteq AuditEntry
      /\ \A d \in al2 : d.request # None => rt[d.request].status # "absent"
  BY DEF DbOK
<1>3. \A v : Present(v, vt) => Present(v, vt2)
  BY DEF Present
<1>4. /\ \A v \in VersionIds : vt2[v].status # "absent" => Present(v, vt2)
      /\ \A r \in RequestIds : rt[r].status # "absent" => Present(rt[r].version, vt2)
  BY <1>3 DEF DbOK
<1>5. /\ \A v \in VersionIds : vt2[v].status = "approved" => DirectApproval(v, al2)
      /\ \A v \in VersionIds : vt2[v].status = "active" => Explained(v, rt, al2)
  <2> HIDE DEF al2
  <2> QED
    BY <1>1, EvidenceStable DEF DbOK, al2
<1>6. \A r \in RequestIds :
         rt[r].status = "approved" => ReviewApproval(r, rt[r].version, rt, al2)
  <2> HIDE DEF al2
  <2> QED
    BY <1>1, EvidenceStable, NoneAssumption DEF DbOK
<1>7. \A v \in VersionIds :
         vt2[v].status # "absent" => NumbersUpTo(vt2[v].policy, vt2[v].number, vt2)
  BY DEF DbOK, NumbersUpTo, Present
<1> QED
  BY <1>1, <1>2, <1>4, <1>5, <1>6, <1>7 DEF DbOK

\* A transaction that inserts a draft under the number it had read as next.
LEMMA VersionInsert ==
    ASSUME NEW vt, NEW rt, NEW al, NEW v \in VersionIds, NEW row \in VersionRow,
           NEW d \in AuditEntry,
           DbOK(vt, rt, al), vt[v].status = "absent",
           row.status = "draft", row.policy \in Policies,
           NumbersUpTo(row.policy, row.number - 1, vt),
           OneActivePerPolicyIndex([vt EXCEPT ![v] = row]),
           VersionNumberIndex([vt EXCEPT ![v] = row]),
           d.request = None
    PROVE  /\ DbOK([vt EXCEPT ![v] = row], rt, al \cup {d})
           /\ Grows(vt, rt, al, [vt EXCEPT ![v] = row], rt, al \cup {d})
<1> DEFINE vt2 == [vt EXCEPT ![v] = row]
           al2 == al \cup {d}
<1>1. /\ vt \in [VersionIds -> VersionRow]
      /\ vt2 \in [VersionIds -> VersionRow]
      /\ vt2[v] = row /\ \A u \in VersionIds \ {v} : vt2[u] = vt[u]
  BY DEF DbOK
<1> HIDE DEF vt2
<1>2. Grows(vt, rt, al, vt2, rt, al2)
  BY <1>1 DEF Grows
<1>3. \A u : Present(u, vt) => /\ Present(u, vt2) /\ vt2[u].policy = vt[u].policy
                               /\ vt2[u].number = vt[u].number
  BY <1>1 DEF Present
<1>4. Present(v, vt2)
  BY <1>1 DEF Present
<1>5. \A p, n : NumbersUpTo(p, n, vt) => NumbersUpTo(p, n, vt2)
  BY <1>3 DEF NumbersUpTo
<1>6. NumbersUpTo(row.policy, row.number, vt2)
  <2>1. row.number \in Nat
    BY DEF VersionRow
  <2> SUFFICES ASSUME NEW m \in 1 .. row.number
               PROVE  \E u \in VersionIds : /\ Present(u, vt2) /\ vt2[u].number = m
                                             /\ vt2[u].policy = row.policy
    BY DEF NumbersUpTo
  <2>2. CASE m = row.number
    BY <1>1, <1>4, <2>2
  <2>3. CASE m # row.number
    <3>1. m \in 1 .. (row.number - 1)
      BY <2>1, <2>3
    <3>2. NumbersUpTo(row.policy, row.number - 1, vt2)
      BY <1>5
    <3> QED
      BY <3>1, <3>2 DEF NumbersUpTo
  <2> QED
    BY <2>2, <2>3
<1>7. \A u \in VersionIds :
         vt2[u].status # "absent" => NumbersUpTo(vt2[u].policy, vt2[u].number, vt2)
  BY <1>1, <1>5, <1>6 DEF DbOK
<1>8. /\ \A u \in VersionIds : vt2[u].status # "absent" => Present(u, vt2)
      /\ \A r \in RequestIds : rt[r].status # "absent" => Present(rt[r].version, vt2)
  BY <1>1, <1>3, <1>4 DEF DbOK
<1>9. /\ \A u \in VersionIds : vt2[u].status = "approved" => DirectApproval(u, al2)
      /\ \A u \in VersionIds : vt2[u].status = "active" => Explained(u, rt, al2)
      /\ \A r \in RequestIds :
           rt[r].status = "approved" => ReviewApproval(r, rt[r].version, rt, al2)
  <2> HIDE DEF al2
  <2> QED
    BY <1>1, <1>2, EvidenceStable, NoneAssumption DEF DbOK
<1>10. /\ rt \in [RequestIds -> RequestRow]
       /\ al2 \subseteq AuditEntry
       /\ \A e \in al2 : e.request # None => rt[e.request].status # "absent"
  BY DEF DbOK
<1>11. OneActivePerPolicyIndex(vt2) /\ VersionNumberIndex(vt2)
  BY DEF vt2
<1> QED
  BY <1>1, <1>2, <1>7, <1>8, <1>9, <1>10, <1>11 DEF DbOK, vt2

\* A transaction that inserts a pending request, or changes status and assignment.
LEMMA RequestWrite ==
    ASSUME NEW vt, NEW rt, NEW al, NEW rt2, NEW d \in AuditEntry,
           DbOK(vt, rt, al),
           rt2 \in [RequestIds -> RequestRow],
           d.request # None => rt2[d.request].status # "absent",
           \A r \in RequestIds :
             /\ rt2[r].status # "absent" => Present(rt2[r].version, vt)
             /\ rt[r].status # "absent" =>
                  /\ rt2[r].status # "absent"
                  /\ rt2[r].version = rt[r].version
                  /\ rt2[r].requester = rt[r].requester
             /\ rt2[r].status = "approved" =>
                  \/ rt[r].status = "approved"
                  \/ ReviewApproval(r, rt2[r].version, rt2, al \cup {d})
    PROVE  /\ DbOK(vt, rt2, al \cup {d})
           /\ Grows(vt, rt, al, vt, rt2, al \cup {d})
<1> DEFINE al2 == al \cup {d}
<1>1. Grows(vt, rt, al, vt, rt2, al2)
  BY DEF Grows
<1>2. /\ al2 \subseteq AuditEntry
      /\ \A e \in al2 : e.request # None => rt2[e.request].status # "absent"
  <2>1. \A e \in al : e.request # None =>
           e.request \in RequestIds /\ rt[e.request].status # "absent"
    BY DEF DbOK, AuditEntry
  <2> QED
    BY <2>1 DEF DbOK
<1>3. /\ \A v \in VersionIds : vt[v].status = "approved" => DirectApproval(v, al2)
      /\ \A v \in VersionIds : vt[v].status = "active" => Explained(v, rt2, al2)
      /\ \A r \in RequestIds :
           rt2[r].status = "approved" => ReviewApproval(r, rt2[r].version, rt2, al2)
  <2>1. \A r \in RequestIds : rt2[r].status = "approved" /\ rt[r].status # "approved"
           => ReviewApproval(r, rt2[r].version, rt2, al2)
    OBVIOUS
  <2> HIDE DEF al2
  <2>2. ASSUME NEW r \in RequestIds, rt[r].status = "approved"
        PROVE  ReviewApproval(r, rt2[r].version, rt2, al2)
    <3>1. ReviewApproval(r, rt[r].version, rt, al) /\ r # None
      BY <2>2, NoneAssumption DEF DbOK
    <3>2. rt2[r].version = rt[r].version
      BY <2>2
    <3> QED
      BY <1>1, <3>1, <3>2, EvidenceStable
  <2> QED
    BY <1>1, <2>1, <2>2, EvidenceStable DEF DbOK
<1> QED
  BY <1>1, <1>2, <1>3 DEF DbOK

-----------------------------------------------------------------------------
(* Steps.                                                                  *)

\* What one handler does leaves what the others know intact.
LEMMA OneHandlerMoves ==
    ASSUME IInv, NEW w \in Workers,
           session' = [session EXCEPT ![w] = session'[w]],
           DbOK(version', request', audit'),
           Grows(version, request, audit, version', request', audit'),
           SessionOK(session'[w], version', request', audit')
    PROVE  IInv'
<1>1. session \in [Workers -> Session]
  BY DEF IInv
<1>2. session'[w] \in Session
  BY DEF SessionOK
<1>3. session' \in [Workers -> Session]
  BY <1>1, <1>2
<1>4. \A u \in Workers \ {w} : session'[u] = session[u]
  BY <1>1
<1>5. \A u \in Workers : SessionOK(session'[u], version', request', audit')
  <2> SUFFICES ASSUME NEW u \in Workers, u # w
               PROVE  SessionOK(session'[u], version', request', audit')
    OBVIOUS
  <2>1. SessionOK(session[u], version, request, audit) /\ DbOK(version, request, audit)
    BY DEF IInv
  <2>2. SessionOK(session[u], version', request', audit')
    BY <2>1, SessionStable
  <2> QED
    BY <1>4, <2>2
<1> QED
  BY <1>3, <1>5 DEF IInv

LEMMA ReadMoves ==
    ASSUME IInv, NEW w \in Workers, UNCHANGED Tables,
           session' = [session EXCEPT ![w] = session'[w]],
           SessionOK(session'[w], version, request, audit)
    PROVE  IInv'
<1>1. version' = version /\ request' = request /\ audit' = audit
  BY DEF Tables
<1>2. Grows(version, request, audit, version, request, audit)
  BY DEF Grows
<1> QED
  BY <1>1, <1>2, OneHandlerMoves DEF IInv

LEMMA EndMoves ==
    ASSUME IInv, NEW w \in Workers, UNCHANGED Tables, End(w)
    PROVE  IInv'
<1>1. session' = [session EXCEPT ![w] = Idle] /\ session'[w] = Idle
  BY DEF End, IInv
<1> QED
  BY <1>1, IdleIsOK, ReadMoves

LEMMA ReadPolicyStep ==
    ASSUME IInv, NEW w \in Workers, NEW p \in Policies, NEW c \in Contents,
           ReadPolicy(w, p, c)
    PROVE  IInv'
<1> DEFINE s == [Idle EXCEPT !.pc = "row", !.op = "create",
                   !.row = [NoVersion EXCEPT !.policy = p, !.content = c]]
<1>1. session' = [session EXCEPT ![w] = s] /\ session'[w] = s /\ UNCHANGED Tables
  BY DEF ReadPolicy, Begin, IInv
<1>2. s \in Session /\ s.op = "create" /\ s.pc = "row" /\ s.row.policy = p /\ s.active = None
  BY DEF Session, Idle, NoVersion, VersionRow, AllEndpoints
<1>3. SessionOK(s, version, request, audit)
  BY <1>2 DEF SessionOK, VersionEndpoints, RequiredStatus, Creators, Deciders
<1> QED
  BY <1>1, <1>3, ReadMoves

LEMMA ReadVersionStep ==
    ASSUME IInv, NEW w \in Workers, NEW op \in VersionEndpoints, NEW v \in VersionIds,
           NEW a \in Actors \cup {None}, NEW c \in Contents \cup {None},
           ReadVersion(w, op, v, a, c)
    PROVE  IInv'
<1> DEFINE pc == IF op \in PendingCheckers \cup ActiveCheckers \cup Creators
                   THEN "row" ELSE "ready"
           s == [Idle EXCEPT !.pc = pc, !.op = op, !.vid = v, !.row = version[v],
                             !.actor = a, !.content = c]
<1>1. session' = [session EXCEPT ![w] = s] /\ session'[w] = s /\ UNCHANGED Tables
  BY DEF ReadVersion, Begin, IInv
<1>2. version[v] \in VersionRow /\ version[v].status \in RequiredStatus[op]
  BY DEF ReadVersion, IInv, DbOK
<1>3. version[v].status # "absent" /\ (op = "activate" => version[v].status = "approved")
  BY <1>2 DEF RequiredStatus, VersionEndpoints
<1>4. Present(v, version) /\ (op = "activate" => DirectApproval(v, audit))
  BY <1>3 DEF IInv, DbOK
<1>5. /\ s \in Session /\ s.op = op /\ s.vid = v /\ s.row = version[v] /\ s.active = None
      /\ s.actor = a /\ s.pc = pc /\ s.pc # "request"
  BY <1>2 DEF Session, Idle, AllEndpoints
<1>6. op \in Creators => pc = "row"
  OBVIOUS
<1>7. op \notin Deciders \cup {"assign", "activate_request"}
  BY DEF VersionEndpoints, RequiredStatus, Deciders
<1>8. op = "request_review" => a \in Actors
  BY DEF ReadVersion
<1> HIDE DEF s, pc
<1>9. SessionOK(s, version, request, audit)
  BY <1>4, <1>5, <1>6, <1>7, <1>8 DEF SessionOK, Present
<1> QED
  BY <1>1, <1>9, ReadMoves

LEMMA ReadPendingRequestStep ==
    ASSUME IInv, NEW w \in Workers, NEW op \in Deciders \cup {"assign"},
           NEW r \in RequestIds, NEW a \in Actors, NEW x \in Actors \cup {None},
           ReadPendingRequest(w, op, r, a, x)
    PROVE  IInv'
<1> DEFINE s == [Idle EXCEPT !.pc = "ready", !.op = op, !.actor = a, !.rid = r,
                   !.vid = request[r].version, !.assigned = request[r].assigned,
                   !.assignee = x]
<1>1. session' = [session EXCEPT ![w] = s] /\ session'[w] = s /\ UNCHANGED Tables
  BY DEF ReadPendingRequest, Begin, IInv
<1>2. request[r] \in RequestRow /\ request[r].status = "pending" /\ MayReview(a)
      /\ (op \in Deciders => NotSelfReview(a, request[r]))
  BY DEF ReadPendingRequest, RequirePending, IInv, DbOK
<1>3. /\ s \in Session /\ s.op = op /\ s.rid = r /\ s.vid = request[r].version
      /\ s.actor = a /\ s.active = None /\ s.pc = "ready"
  BY <1>2, IdleIsOK, ZenonT(60) DEF Session, Idle, AllEndpoints, RequestRow
<1>4. op \notin VersionEndpoints \cup Creators \cup {"activate", "activate_request", "request_review"}
  BY DEF VersionEndpoints, RequiredStatus, Deciders, Creators
<1> HIDE DEF s
<1>5. /\ s.op \notin VersionEndpoints /\ s.op \notin Creators
      /\ s.op \notin {"activate", "activate_request", "request_review"}
  BY <1>3, <1>4
<1>6. /\ s.rid \in RequestIds /\ request[s.rid].status # "absent"
      /\ s.vid = request[s.rid].version
  BY <1>2, <1>3
<1>7. s.op \in Deciders => MayReview(s.actor) /\ NotSelfReview(s.actor, request[s.rid])
  BY <1>2, <1>3
<1>8. SessionOK(s, version, request, audit)
  BY <1>3, <1>5, <1>6, <1>7 DEF SessionOK
<1> QED
  BY <1>1, <1>8, ReadMoves

LEMMA ReadApprovedRequestStep ==
    ASSUME IInv, NEW w \in Workers, NEW r \in RequestIds, NEW a \in Actors,
           NEW replace \in BOOLEAN, ReadApprovedRequest(w, r, a, replace)
    PROVE  IInv'
<1> DEFINE s == [Idle EXCEPT !.pc = "request", !.op = "activate_request", !.actor = a,
                   !.rid = r, !.vid = request[r].version, !.replace = replace]
<1>1. session' = [session EXCEPT ![w] = s] /\ session'[w] = s /\ UNCHANGED Tables
  BY DEF ReadApprovedRequest, Begin, IInv
<1>2. request[r] \in RequestRow /\ request[r].status = "approved"
  BY DEF ReadApprovedRequest, RequireApproved, IInv, DbOK
<1>3. ReviewApproval(r, request[r].version, request, audit)
  BY <1>2 DEF IInv, DbOK
<1>4. /\ s \in Session /\ s.op = "activate_request" /\ s.rid = r
      /\ s.vid = request[r].version /\ s.active = None /\ s.pc = "request"
  BY <1>2, IdleIsOK, ZenonT(60) DEF Session, Idle, AllEndpoints, RequestRow
<1>5. "activate_request" \notin VersionEndpoints \cup Creators \cup Deciders
  BY DEF VersionEndpoints, RequiredStatus, Deciders, Creators
<1> HIDE DEF s
<1>6. SessionOK(s, version, request, audit)
  BY <1>2, <1>3, <1>4, <1>5 DEF SessionOK
<1> QED
  BY <1>1, <1>6, ReadMoves

LEMMA ReadReviewedVersionStep ==
    ASSUME IInv, NEW w \in Workers, ReadReviewedVersion(w)
    PROVE  IInv'
<1> DEFINE v == session[w].vid
           s == [session[w] EXCEPT !.pc = "row", !.row = version[v]]
<1>1. CASE version[v].status \notin {"draft", "approved"}
  BY <1>1, EndMoves DEF ReadReviewedVersion
<1>2. CASE version[v].status \in {"draft", "approved"}
  <2>1. /\ session' = [session EXCEPT ![w].pc = "row", ![w].row = version[v]]
        /\ session[w].pc = "request" /\ UNCHANGED Tables
    BY <1>2 DEF ReadReviewedVersion
  <2>2. session[w] \in Session /\ SessionOK(session[w], version, request, audit)
    BY DEF IInv, SessionOK
  <2>3. session' = [session EXCEPT ![w] = s] /\ session'[w] = s
    BY <2>1, <2>2 DEF IInv, Session
  <2>4. v \in VersionIds => version[v] \in VersionRow
    BY DEF IInv, DbOK
  <2>5. v \in VersionIds
    BY <2>1, <2>2 DEF SessionOK, Session, IInv, DbOK, Present
  <2>6. /\ s \in Session /\ s.pc = "row" /\ s.row = version[v]
        /\ s.op = "activate_request" /\ s.vid = v
        /\ s.rid = session[w].rid /\ s.active = session[w].active
    BY <2>1, <2>2, <2>4, <2>5 DEF Session, SessionOK
  <2>7. "activate_request" \notin VersionEndpoints \cup Creators \cup Deciders
    BY DEF VersionEndpoints, RequiredStatus, Deciders, Creators
  <2>8. SessionOK(s, version, request, audit)
    <3> HIDE DEF s
    <3> QED
      BY <2>1, <2>2, <2>6, <2>7 DEF SessionOK
  <2> QED
    BY <2>1, <2>3, <2>8, ReadMoves
<1> QED
  BY <1>1, <1>2

LEMMA CheckNoPendingRequestStep ==
    ASSUME IInv, NEW w \in Workers, CheckNoPendingRequest(w)
    PROVE  IInv'
<1> DEFINE s == [session[w] EXCEPT !.pc = "ready"]
<1>1. CASE PendingFor(session[w].vid) # {}
  BY <1>1, EndMoves DEF CheckNoPendingRequest
<1>2. CASE PendingFor(session[w].vid) = {}
  <2>1. /\ session' = [session EXCEPT ![w] = s] /\ session'[w] = s
        /\ session[w].op \in PendingCheckers /\ UNCHANGED Tables
    BY <1>2 DEF CheckNoPendingRequest, IInv
  <2>2. session[w] \in Session /\ SessionOK(session[w], version, request, audit)
    BY DEF IInv
  <2>3. /\ s \in Session /\ s.pc = "ready" /\ s.op = session[w].op
        /\ s.vid = session[w].vid /\ s.rid = session[w].rid /\ s.row = session[w].row
        /\ s.active = session[w].active /\ s.actor = session[w].actor
    BY <2>2 DEF Session
  <2>4. session[w].op \notin Creators \cup Deciders \cup {"activate_request"}
    BY <2>1 DEF PendingCheckers, Creators, Deciders
  <2> HIDE DEF s
  <2>5. SessionOK(s, version, request, audit)
    BY <2>2, <2>3, <2>4 DEF SessionOK
  <2> QED
    BY <2>1, <2>5, ReadMoves
<1> QED
  BY <1>1, <1>2

LEMMA CheckNoOtherActiveStep ==
    ASSUME IInv, NEW w \in Workers, CheckNoOtherActive(w)
    PROVE  IInv'
<1> DEFINE s == [session[w] EXCEPT !.pc = "ready"]
<1>1. CASE OtherActive(session[w].vid, session[w].row.policy) # {}
  BY <1>1, EndMoves DEF CheckNoOtherActive
<1>2. CASE OtherActive(session[w].vid, session[w].row.policy) = {}
  <2>1. /\ session' = [session EXCEPT ![w] = s] /\ session'[w] = s
        /\ session[w].op = "activate" /\ UNCHANGED Tables
    BY <1>2 DEF CheckNoOtherActive, IInv
  <2>2. session[w] \in Session /\ SessionOK(session[w], version, request, audit)
    BY DEF IInv
  <2>3. /\ s \in Session /\ s.pc = "ready" /\ s.op = session[w].op
        /\ s.vid = session[w].vid /\ s.row = session[w].row
        /\ s.active = session[w].active
    BY <2>2 DEF Session
  <2>4. "activate" \notin Creators \cup Deciders
    BY DEF Creators, Deciders
  <2> HIDE DEF s
  <2>5. SessionOK(s, version, request, audit)
    BY <2>1, <2>2, <2>3, <2>4 DEF SessionOK
  <2> QED
    BY <2>1, <2>5, ReadMoves
<1> QED
  BY <1>1, <1>2

LEMMA FindVersionToReplaceStep ==
    ASSUME IInv, NEW w \in Workers, FindVersionToReplace(w)
    PROVE  IInv'
<1> DEFINE others == OtherActive(session[w].vid, session[w].row.policy)
<1>1. /\ session[w] \in Session /\ SessionOK(session[w], version, request, audit)
      /\ session[w].pc = "row" /\ session[w].op = "activate_request"
      /\ UNCHANGED Tables
  BY DEF IInv, FindVersionToReplace
<1>2. "activate_request" \notin VersionEndpoints \cup Creators \cup Deciders
  BY DEF VersionEndpoints, RequiredStatus, Deciders, Creators
<1>3. CASE session' = [session EXCEPT ![w].pc = "ready"]
  <2> DEFINE s == [session[w] EXCEPT !.pc = "ready"]
  <2>1. session' = [session EXCEPT ![w] = s] /\ session'[w] = s
    BY <1>3 DEF IInv
  <2>2. /\ s \in Session /\ s.pc = "ready" /\ s.op = session[w].op
        /\ s.vid = session[w].vid /\ s.rid = session[w].rid /\ s.row = session[w].row
        /\ s.active = session[w].active
    BY <1>1 DEF Session
  <2> HIDE DEF s
  <2>3. SessionOK(s, version, request, audit)
    BY <1>1, <1>2, <2>2 DEF SessionOK
  <2> QED
    BY <1>1, <2>1, <2>3, ReadMoves
<1>4. ASSUME NEW u \in others,
             session' = [session EXCEPT ![w].pc = "ready", ![w].active = u]
      PROVE  IInv'
  <2> DEFINE s == [session[w] EXCEPT !.pc = "ready", !.active = u]
  <2>1. session' = [session EXCEPT ![w] = s] /\ session'[w] = s
    BY <1>4, <1>1 DEF IInv, Session
  <2>2. /\ u \in VersionIds /\ u # session[w].vid /\ version[u].status = "active"
        /\ version[u].policy = session[w].row.policy
    BY DEF OtherActive
  <2>3. Present(u, version) /\ Present(session[w].vid, version)
        /\ session[w].row.policy = version[session[w].vid].policy
    BY <1>1, <2>2 DEF IInv, DbOK, SessionOK
  <2>4. /\ s \in Session /\ s.pc = "ready" /\ s.op = session[w].op
        /\ s.vid = session[w].vid /\ s.rid = session[w].rid /\ s.row = session[w].row
        /\ s.active = u
    BY <1>1, <2>2 DEF Session
  <2> HIDE DEF s, others
  <2>5. SessionOK(s, version, request, audit)
    BY <1>1, <1>2, <2>2, <2>3, <2>4 DEF SessionOK
  <2> QED
    BY <1>1, <2>1, <2>5, ReadMoves
<1> QED
  BY <1>1, <1>3, <1>4, EndMoves DEF FindVersionToReplace

LEMMA ReadNextNumberStep ==
    ASSUME IInv, NEW w \in Workers, ReadNextNumber(w)
    PROVE  IInv'
<1> DEFINE p == session[w].row.policy
<1>1. PICK n \in {1} \cup {version[v].number + 1 : v \in VersionIds} :
        IsNextNumber(p, n) /\ session' = [session EXCEPT ![w].pc = "ready", ![w].number = n]
  BY DEF ReadNextNumber
<1>2. /\ session[w] \in Session /\ SessionOK(session[w], version, request, audit)
      /\ session[w].pc = "row" /\ session[w].op \in Creators /\ UNCHANGED Tables
  BY DEF IInv, ReadNextNumber
<1>3. n \in Nat
  <2>1. \A v \in VersionIds : version[v].number \in Nat
    BY DEF IInv, DbOK, VersionRow
  <2> QED
    BY <2>1
<1>4. NumbersUpTo(p, n - 1, version)
  <2>1. CASE n = 1
    BY <2>1 DEF NumbersUpTo
  <2>2. CASE \E v \in VersionsOf(p, version) : version[v].number = n - 1
    BY <2>2 DEF VersionsOf, IInv, DbOK
  <2> QED
    BY <1>1, <2>1, <2>2 DEF IsNextNumber
<1> DEFINE s == [session[w] EXCEPT !.pc = "ready", !.number = n]
<1>5. session' = [session EXCEPT ![w] = s] /\ session'[w] = s
  BY <1>1, <1>2 DEF IInv, Session
<1>6. /\ s \in Session /\ s.pc = "ready" /\ s.op = session[w].op
      /\ s.vid = session[w].vid /\ s.row = session[w].row /\ s.number = n
      /\ s.active = session[w].active
  BY <1>2, <1>3 DEF Session
<1>7. /\ session[w].op \notin Deciders
      /\ session[w].op \notin {"assign", "activate", "activate_request", "request_review"}
  BY <1>2 DEF Creators, Deciders
<1> HIDE DEF s
<1>8. SessionOK(s, version, request, audit)
  BY <1>2, <1>4, <1>6, <1>7 DEF SessionOK
<1> QED
  BY <1>2, <1>5, <1>8, ReadMoves

\* The final transaction on versions either commits or leaves no trace.
LEMMA WriteVersionsMoves ==
    ASSUME IInv, NEW w \in Workers, NEW STATE table, NEW STATE entries,
           WriteVersions(w, table, entries),
           OneActivePerPolicyIndex(table) /\ VersionNumberIndex(table) =>
             /\ DbOK(table, request, audit \cup entries)
             /\ Grows(version, request, audit, table, request, audit \cup entries)
    PROVE  IInv'
<1>1. session' = [session EXCEPT ![w] = Idle] /\ session'[w] = Idle /\ request' = request
  BY DEF WriteVersions, End, IInv
<1>2. CASE ~(OneActivePerPolicyIndex(table) /\ VersionNumberIndex(table))
  BY <1>2, EndMoves DEF WriteVersions, Tables
<1>3. CASE OneActivePerPolicyIndex(table) /\ VersionNumberIndex(table)
  <2>1. version' = table /\ audit' = audit \cup entries
    BY <1>3 DEF WriteVersions
  <2> QED
    BY <1>1, <1>3, <2>1, IdleIsOK, OneHandlerMoves
<1> QED
  BY <1>2, <1>3

LEMMA WriteRequestsMoves ==
    ASSUME IInv, NEW w \in Workers, NEW STATE table, NEW STATE entry,
           WriteRequests(w, table, entry),
           OnePendingPerVersionIndex(table) =>
             /\ DbOK(version, table, audit \cup {entry})
             /\ Grows(version, request, audit, version, table, audit \cup {entry})
    PROVE  IInv'
<1>1. session' = [session EXCEPT ![w] = Idle] /\ session'[w] = Idle /\ version' = version
  BY DEF WriteRequests, End, IInv
<1>2. CASE ~OnePendingPerVersionIndex(table)
  BY <1>2, EndMoves DEF WriteRequests, Tables
<1>3. CASE OnePendingPerVersionIndex(table)
  <2>1. request' = table /\ audit' = audit \cup {entry}
    BY <1>3 DEF WriteRequests
  <2> QED
    BY <1>1, <1>3, <2>1, IdleIsOK, OneHandlerMoves
<1> QED
  BY <1>2, <1>3

LEMMA InsertDraftStep ==
    ASSUME IInv, NEW w \in Workers, NEW event \in AuditEvents,
           session[w].pc = "ready", session[w].op \in Creators,
           InsertDraft(w, event)
    PROVE  IInv'
<1> DEFINE Row == [status |-> "draft", policy |-> session[w].row.policy,
                   number |-> session[w].number, content |-> session[w].row.content]
<1>1. PICK v \in VersionIds :
        /\ version[v].status = "absent"
        /\ WriteVersions(w, [version EXCEPT ![v] = Row], {Entry(event, v, None, None, None)})
  BY DEF InsertDraft
<1>2. session[w] \in Session /\ SessionOK(session[w], version, request, audit)
  BY DEF IInv
<1>3. /\ Row \in VersionRow /\ Row.status = "draft"
      /\ Row.policy \in Policies /\ NumbersUpTo(Row.policy, Row.number - 1, version)
  BY <1>2 DEF SessionOK, Session, VersionRow, VersionStatus
<1>4. Entry(event, v, None, None, None) \in AuditEntry
      /\ Entry(event, v, None, None, None).request = None
  BY DEF Entry, AuditEntry
<1>5. DbOK(version, request, audit)
  BY DEF IInv
<1> HIDE DEF Row
<1> DEFINE table == [version EXCEPT ![v] = Row]
           entry == Entry(event, v, None, None, None)
<1>6. OneActivePerPolicyIndex(table) /\ VersionNumberIndex(table) =>
        /\ DbOK(table, request, audit \cup {entry})
        /\ Grows(version, request, audit, table, request, audit \cup {entry})
  BY <1>1, <1>3, <1>4, <1>5, VersionInsert
<1> QED
  BY <1>1, <1>6, WriteVersionsMoves

\* A handler that moves a version to a status other than active.
LEMMA MoveToStep ==
    ASSUME IInv, NEW w \in Workers, NEW to \in VersionStatus, NEW event \in AuditEvents,
           session[w].op \in VersionEndpoints,
           to = "approved" => event = "policy_version_approved",
           to = "active" => event = "policy_version_activated"
                            /\ session[w].op = "activate",
           MoveTo(w, to, event)
    PROVE  IInv'
<1> DEFINE v == session[w].vid
           entry == Entry(event, v, None, None, None)
           table == [version EXCEPT ![v].status = to]
<1>1. DbOK(version, request, audit) /\ SessionOK(session[w], version, request, audit)
  BY DEF IInv
<1>2. Present(v, version) /\ v \in VersionIds
  BY <1>1 DEF SessionOK, Present
<1>3. /\ table \in [VersionIds -> VersionRow]
      /\ \A u \in VersionIds :
           /\ table[u].status = IF u = v THEN to ELSE version[u].status
           /\ table[u].policy = version[u].policy /\ table[u].number = version[u].number
  BY <1>1, <1>2 DEF DbOK, VersionRow
<1>4. entry \in AuditEntry /\ entry.event = event /\ entry.version = v /\ entry.request = None
  BY <1>2 DEF Entry, AuditEntry
<1>5. to # "absent" /\ version[v].status # "absent"
  BY <1>2 DEF VersionStatus, Present
<1>6. to = "approved" => DirectApproval(v, audit \cup {entry})
  BY <1>4 DEF DirectApproval
<1>7. to = "active" => Explained(v, request, audit \cup {entry})
  <2>1. to = "active" => DirectApproval(v, audit \cup {entry})
    BY <1>1 DEF SessionOK, DirectApproval
  <2> QED
    BY <1>4, <2>1 DEF Explained
<1>8. WriteVersions(w, table, {entry})
  BY DEF MoveTo
<1> HIDE DEF v, entry, table
<1>9. OneActivePerPolicyIndex(table) /\ VersionNumberIndex(table) =>
        /\ DbOK(table, request, audit \cup {entry})
        /\ Grows(version, request, audit, table, request, audit \cup {entry})
  BY <1>1, <1>3, <1>4, <1>5, <1>6, <1>7, VersionUpdate
<1> QED
  BY <1>8, <1>9, WriteVersionsMoves

LEMMA UpdateDraftStep ==
    ASSUME IInv, NEW w \in Workers, UpdateDraft(w)
    PROVE  IInv'
<1> DEFINE s == session[w]
           entry == Entry("policy_version_draft_updated", s.vid, None, None, None)
           table == IF s.content = s.row.content THEN version
                      ELSE [version EXCEPT ![s.vid].content = s.content]
<1>1. /\ DbOK(version, request, audit) /\ SessionOK(s, version, request, audit)
      /\ s \in Session /\ s.op \in VersionEndpoints
      /\ WriteVersions(w, table, {entry})
  BY DEF IInv, UpdateDraft, Ready, VersionEndpoints, RequiredStatus
<1>2. s.vid \in VersionIds
  BY <1>1 DEF SessionOK, Present
<1>3. s.content \in Contents \cup {None}
  BY <1>1 DEF Session
<1>4. /\ table \in [VersionIds -> VersionRow]
      /\ \A u \in VersionIds :
           /\ table[u].status = version[u].status
           /\ table[u].policy = version[u].policy /\ table[u].number = version[u].number
  BY <1>1, <1>2, <1>3 DEF DbOK, VersionRow
<1>5. entry \in AuditEntry /\ entry.request = None
  BY <1>2 DEF Entry, AuditEntry, AuditEvents
<1> HIDE DEF entry, table
<1>6. OneActivePerPolicyIndex(table) /\ VersionNumberIndex(table) =>
        /\ DbOK(table, request, audit \cup {entry})
        /\ Grows(version, request, audit, table, request, audit \cup {entry})
  BY <1>1, <1>4, <1>5, VersionUpdate
<1> QED
  BY <1>1, <1>6, WriteVersionsMoves

LEMMA RequestReviewStep ==
    ASSUME IInv, NEW w \in Workers, RequestReview(w)
    PROVE  IInv'
<1> DEFINE s == session[w]
<1>1. /\ DbOK(version, request, audit) /\ SessionOK(s, version, request, audit)
      /\ s.op = "request_review" /\ s.op \in VersionEndpoints
  BY DEF IInv, RequestReview, Ready, VersionEndpoints, RequiredStatus
<1>2. Present(s.vid, version) /\ s.actor \in Actors
  BY <1>1 DEF SessionOK
<1> DEFINE Row == [status |-> "pending", version |-> s.vid,
                   requester |-> s.actor, assigned |-> None]
<1>3. PICK r \in RequestIds :
        /\ request[r].status = "absent"
        /\ WriteRequests(w, [request EXCEPT ![r] = Row],
             Entry("policy_version_review_requested", s.vid, r, s.actor, None))
  BY DEF RequestReview
<1> DEFINE entry == Entry("policy_version_review_requested", s.vid, r, s.actor, None)
           table == [request EXCEPT ![r] = Row]
<1>4. entry \in AuditEntry /\ entry.request = r
  BY <1>2 DEF Entry, AuditEntry, AuditEvents, Present
<1>5. Row \in RequestRow /\ Row.status = "pending" /\ Row.version = s.vid
  BY <1>2 DEF RequestRow, RequestStatus, Present
<1> HIDE DEF Row
<1>6. /\ table \in [RequestIds -> RequestRow] /\ table[r] = Row
      /\ \A q \in RequestIds \ {r} : table[q] = request[q]
  BY <1>1, <1>5 DEF DbOK
<1> HIDE DEF entry, table
<1>7. \A q \in RequestIds :
        /\ table[q].status # "absent" => Present(table[q].version, version)
        /\ request[q].status # "absent" =>
             /\ table[q].status # "absent"
             /\ table[q].version = request[q].version
             /\ table[q].requester = request[q].requester
        /\ table[q].status = "approved" => request[q].status = "approved"
  BY <1>1, <1>2, <1>3, <1>5, <1>6 DEF DbOK
<1>8. /\ DbOK(version, table, audit \cup {entry})
      /\ Grows(version, request, audit, version, table, audit \cup {entry})
  BY <1>1, <1>4, <1>5, <1>6, <1>7, RequestWrite
<1> QED
  BY <1>3, <1>8, WriteRequestsMoves DEF entry, table

LEMMA AssignReviewerStep ==
    ASSUME IInv, NEW w \in Workers, AssignReviewer(w)
    PROVE  IInv'
<1> DEFINE s == session[w]
           entry == Entry("policy_version_review_assigned", s.vid, s.rid, s.actor, None)
           table == IF s.assignee = s.assigned THEN request
                      ELSE [request EXCEPT ![s.rid].assigned = s.assignee]
<1>1. /\ DbOK(version, request, audit) /\ SessionOK(s, version, request, audit)
      /\ s \in Session /\ s.op = "assign" /\ WriteRequests(w, table, entry)
  BY DEF IInv, AssignReviewer, Ready
<1>2. /\ s.rid \in RequestIds /\ request[s.rid].status # "absent"
      /\ s.vid = request[s.rid].version /\ s.vid \in VersionIds
      /\ s.actor \in Actors \cup {None} /\ s.assignee \in Actors \cup {None}
  BY <1>1 DEF SessionOK, Session, DbOK, Present
<1>3. entry \in AuditEntry /\ entry.request = s.rid
  BY <1>2 DEF Entry, AuditEntry, AuditEvents
<1>4. /\ table \in [RequestIds -> RequestRow]
      /\ \A r \in RequestIds :
           /\ table[r].status = request[r].status
           /\ table[r].version = request[r].version
           /\ table[r].requester = request[r].requester
  BY <1>1, <1>2 DEF DbOK, RequestRow
<1> HIDE DEF entry, table
<1>5. \A r \in RequestIds : table[r].status # "absent" => Present(table[r].version, version)
  BY <1>1, <1>4 DEF DbOK
<1>6. /\ DbOK(version, table, audit \cup {entry})
      /\ Grows(version, request, audit, version, table, audit \cup {entry})
  BY <1>1, <1>2, <1>3, <1>4, <1>5, RequestWrite
<1> QED
  BY <1>1, <1>6, WriteRequestsMoves

LEMMA DecideStep ==
    ASSUME IInv, NEW w \in Workers, NEW to \in {"approved", "rejected"},
           NEW event \in AuditEvents, session[w].op \in Deciders,
           to = "approved" => event = "policy_version_review_approved",
           Decide(w, to, event)
    PROVE  IInv'
<1> DEFINE s == session[w]
           entry == Entry(event, s.vid, s.rid, s.actor, None)
           table == [request EXCEPT ![s.rid].status = to]
<1>1. /\ DbOK(version, request, audit) /\ SessionOK(s, version, request, audit)
      /\ s \in Session /\ WriteRequests(w, table, entry)
  BY DEF IInv, Decide
<1>2. /\ s.rid \in RequestIds /\ request[s.rid].status # "absent"
      /\ s.vid = request[s.rid].version /\ s.vid \in VersionIds
      /\ s.actor \in Actors \cup {None}
      /\ MayReview(s.actor) /\ NotSelfReview(s.actor, request[s.rid])
  BY <1>1 DEF SessionOK, Session, DbOK, Present
<1>3. /\ entry \in AuditEntry /\ entry.request = s.rid /\ entry.version = s.vid
      /\ entry.event = event /\ entry.by = s.actor
  BY <1>2 DEF Entry, AuditEntry
<1>4. /\ table \in [RequestIds -> RequestRow]
      /\ \A r \in RequestIds :
           /\ table[r].status = IF r = s.rid THEN to ELSE request[r].status
           /\ table[r].version = request[r].version
           /\ table[r].requester = request[r].requester
  BY <1>1, <1>2 DEF DbOK, RequestRow, RequestStatus
<1> HIDE DEF entry, table
<1>5. to = "approved" =>
        ReviewApproval(s.rid, table[s.rid].version, table, audit \cup {entry})
  <2>1. NotSelfReview(s.actor, table[s.rid])
    BY <1>2, <1>4 DEF NotSelfReview
  <2> QED
    BY <1>2, <1>3, <1>4, <2>1 DEF ReviewApproval
<1>6. \A r \in RequestIds : table[r].status # "absent" => Present(table[r].version, version)
  BY <1>1, <1>2, <1>4 DEF DbOK
<1>7. \A r \in RequestIds : table[r].status = "approved" =>
        \/ request[r].status = "approved"
        \/ ReviewApproval(r, table[r].version, table, audit \cup {entry})
  BY <1>4, <1>5
<1>8. /\ DbOK(version, table, audit \cup {entry})
      /\ Grows(version, request, audit, version, table, audit \cup {entry})
  BY <1>1, <1>2, <1>3, <1>4, <1>6, <1>7, RequestWrite
<1> QED
  BY <1>1, <1>8, WriteRequestsMoves

LEMMA ActivateFromRequestStep ==
    ASSUME IInv, NEW w \in Workers, ActivateFromRequest(w)
    PROVE  IInv'
<1> DEFINE s == session[w]
           superseded == IF s.active = None THEN version
                           ELSE [version EXCEPT ![s.active].status = "superseded"]
           table == [superseded EXCEPT ![s.vid].status = "active"]
           activation == Entry("policy_version_activated", s.vid, s.rid, s.actor, s.active)
           entries == {activation}
             \cup {Entry("policy_version_superseded", u, s.rid, s.actor, s.vid) :
                      u \in {s.active} \ {None}}
<1>1. /\ DbOK(version, request, audit) /\ SessionOK(s, version, request, audit)
      /\ s \in Session /\ s.op = "activate_request" /\ WriteVersions(w, table, entries)
  BY DEF IInv, ActivateFromRequest, Ready
<1>2. /\ s.rid \in RequestIds /\ request[s.rid].status # "absent"
      /\ Present(s.vid, version) /\ s.vid \in VersionIds
      /\ s.actor \in Actors \cup {None}
      /\ ReviewApproval(s.rid, s.vid, request, audit)
  BY <1>1 DEF SessionOK, Session, DbOK, Present
<1>3. s.active # None => s.active \in VersionIds /\ version[s.active].status # "absent"
  BY <1>1 DEF SessionOK, Present
<1>4. s.active \in VersionIds \cup {None}
  BY <1>3
<1>5. /\ superseded \in [VersionIds -> VersionRow]
      /\ \A u \in VersionIds :
           /\ superseded[u].status =
                IF u = s.active THEN "superseded" ELSE version[u].status
           /\ superseded[u].policy = version[u].policy
           /\ superseded[u].number = version[u].number
  BY <1>1, <1>3, NoneAssumption DEF DbOK, VersionRow, VersionStatus
<1> HIDE DEF superseded
<1>6. /\ table \in [VersionIds -> VersionRow]
      /\ \A u \in VersionIds :
           /\ table[u].status = IF u = s.vid THEN "active" ELSE superseded[u].status
           /\ table[u].policy = version[u].policy
           /\ table[u].number = version[u].number
  BY <1>2, <1>5 DEF VersionRow, VersionStatus
<1>7. entries \subseteq AuditEntry
  BY <1>2, <1>4 DEF Entry, AuditEntry, AuditEvents
<1>8. \A d \in entries : d.request # None => request[d.request].status # "absent"
  BY <1>2 DEF Entry
<1>9. /\ activation \in entries /\ activation.event = "policy_version_activated"
      /\ activation.version = s.vid /\ activation.request = s.rid
  BY DEF Entry
<1> HIDE DEF entries, activation, table
<1>10. Explained(s.vid, request, audit \cup entries)
  <2>1. s.rid # None
    BY <1>2, NoneAssumption
  <2>2. ReviewApproval(s.rid, s.vid, request, audit \cup entries)
    BY <1>2 DEF ReviewApproval
  <2> QED
    BY <1>9, <2>1, <2>2 DEF Explained
<1>11. \A u \in VersionIds :
         /\ table[u].status = "absent" <=> version[u].status = "absent"
         /\ table[u].status = "approved" => version[u].status = "approved"
         /\ table[u].status = "active" =>
              version[u].status = "active" \/ Explained(u, request, audit \cup entries)
  BY <1>2, <1>3, <1>5, <1>6, <1>10, NoneAssumption DEF Present
<1>12. OneActivePerPolicyIndex(table) /\ VersionNumberIndex(table) =>
         /\ DbOK(table, request, audit \cup entries)
         /\ Grows(version, request, audit, table, request, audit \cup entries)
  BY <1>1, <1>6, <1>7, <1>8, <1>11, VersionUpdate
<1> QED
  BY <1>1, <1>12, WriteVersionsMoves

-----------------------------------------------------------------------------
(* The inductive invariant.                                                *)

LEMMA InitIInv == Init => IInv
<1> SUFFICES ASSUME Init PROVE IInv
  OBVIOUS
<1>1. /\ version = [v \in VersionIds |-> NoVersion]
      /\ request = [r \in RequestIds |-> NoRequest]
      /\ audit = {} /\ session = [w \in Workers |-> Idle]
  BY DEF Init
<1>2. NoVersion \in VersionRow /\ NoRequest \in RequestRow
  BY DEF NoVersion, NoRequest, VersionRow, RequestRow
<1>3. NoVersion.status = "absent" /\ NoRequest.status = "absent"
  BY DEF NoVersion, NoRequest
<1>4. DbOK(version, request, audit)
  BY <1>1, <1>2, <1>3 DEF DbOK, OneActivePerPolicyIndex, VersionNumberIndex
<1> QED
  BY <1>1, <1>4, IdleIsOK DEF IInv

LEMMA NextIInv == IInv /\ [Next]_vars => IInv'
<1> SUFFICES ASSUME IInv, [Next]_vars PROVE IInv'
  OBVIOUS
<1>1. CASE UNCHANGED vars
  <2>1. version' = version /\ request' = request /\ audit' = audit /\ session' = session
    BY <1>1 DEF vars
  <2> QED
    BY <2>1 DEF IInv
<1>2. ASSUME NEW w \in Workers, Read(w)
      PROVE  IInv'
  BY <1>2, ReadPolicyStep, ReadVersionStep, ReadPendingRequestStep,
     ReadApprovedRequestStep, ReadReviewedVersionStep, CheckNoPendingRequestStep,
     CheckNoOtherActiveStep, FindVersionToReplaceStep, ReadNextNumberStep DEF Read
<1>3. ASSUME NEW w \in Workers, Write(w)
      PROVE  IInv'
  <2>1. CASE CreateVersion(w) \/ RollbackVersion(w)
    BY <2>1, InsertDraftStep DEF CreateVersion, RollbackVersion, Ready, Creators, AuditEvents
  <2>2. CASE \/ SubmitForReview(w) \/ ApproveVersion(w) \/ RejectVersion(w)
             \/ ActivateVersion(w) \/ ArchiveVersion(w)
    <3>1. {"submit", "approve", "reject", "activate", "archive"} \subseteq VersionEndpoints
      BY DEF VersionEndpoints, RequiredStatus
    <3> QED
      BY <2>2, <3>1, MoveToStep
      DEF SubmitForReview, ApproveVersion, RejectVersion, ActivateVersion,
          ArchiveVersion, Ready, VersionStatus, AuditEvents
  <2>3. CASE ApproveRequest(w) \/ RejectRequest(w)
    BY <2>3, DecideStep DEF ApproveRequest, RejectRequest, Ready, Deciders, AuditEvents
  <2> QED
    BY <1>3, <2>1, <2>2, <2>3, UpdateDraftStep, RequestReviewStep, AssignReviewerStep,
       ActivateFromRequestStep DEF Write
<1>4. ASSUME NEW w \in Workers, Abandon(w)
      PROVE  IInv'
  BY <1>4, EndMoves DEF Abandon
<1> QED
  BY <1>1, <1>2, <1>3, <1>4 DEF Next

THEOREM InductiveInvariant == Spec => []IInv
  BY InitIInv, NextIInv, PTL DEF Spec

-----------------------------------------------------------------------------
(* The properties.                                                         *)

\* Rows and sessions are well formed in every reachable state.
THEOREM TypeCorrect == Spec => []TypeOK
<1>1. IInv => TypeOK
  BY DEF IInv, DbOK, TypeOK
<1> QED
  BY <1>1, InductiveInvariant, PTL

\* At most one version of a policy is active, whatever activations race.
THEOREM SingleActive == Spec => []OneActivePerPolicy
<1>1. IInv => OneActivePerPolicy
  BY DEF IInv, DbOK, OneActivePerPolicy, OneActivePerPolicyIndex
<1> QED
  BY <1>1, InductiveInvariant, PTL

\* Every active version was approved, by the direct lifecycle or by somebody
\* entitled to decide the review request that activated it.
THEOREM ActiveWasApproved == Spec => []ActiveVersionWasApproved
<1>1. IInv => ActiveVersionWasApproved
  <2> SUFFICES ASSUME IInv, NEW v \in VersionIds, version[v].status = "active"
               PROVE  \E e \in audit : /\ e.event = "policy_version_activated"
                                       /\ e.version = v /\ Approved(e)
    BY DEF ActiveVersionWasApproved
  <2>1. PICK e \in audit :
          /\ e.event = "policy_version_activated" /\ e.version = v
          /\ IF e.request = None THEN DirectApproval(v, audit)
                                 ELSE ReviewApproval(e.request, v, request, audit)
    BY DEF IInv, DbOK, Explained
  <2>2. Approved(e)
    BY <2>1 DEF Approved, DirectApproval, ReviewApproval, MayReview, NotSelfReview
  <2> QED
    BY <2>1, <2>2
<1> QED
  BY <1>1, InductiveInvariant, PTL

\* The numbers of a policy's versions are 1, 2, 3, ... with no gap and no repeat.
THEOREM NumbersConsecutive == Spec => []VersionNumbersAreConsecutive
<1>1. IInv => VersionNumbersAreConsecutive
  <2> SUFFICES ASSUME IInv, NEW v \in VersionIds, version[v].status # "absent",
                      NEW n \in 1 .. version[v].number
               PROVE  \E u \in VersionsOf(version[v].policy, version) :
                        /\ version[u].number = n
                        /\ n = version[v].number => u = v
    BY DEF VersionNumbersAreConsecutive
  <2>1. PICK u \in VersionIds : /\ Present(u, version) /\ version[u].number = n
                                /\ version[u].policy = version[v].policy
    BY DEF IInv, DbOK, NumbersUpTo
  <2>2. u \in VersionsOf(version[v].policy, version)
    BY <2>1 DEF VersionsOf, Present
  <2>3. n = version[v].number => u = v
    BY <2>1 DEF IInv, DbOK, VersionNumberIndex, Present
  <2> QED
    BY <2>1, <2>2, <2>3
<1> QED
  BY <1>1, InductiveInvariant, PTL
=============================================================================

---------------------- MODULE PolicyVersionsRefinement ----------------------
(***************************************************************************)
(* PolicyVersions implements ActivationContract, for any number of         *)
(* concurrent handlers.  Approvals of the contract are the audit log's,    *)
(* which only grow; its preferred version is the policy's active one,      *)
(* which is unique (OneActivePerPolicyIndex), so the CHOOSE of the         *)
(* refinement mapping has one value to choose from.                        *)
(***************************************************************************)
EXTENDS PolicyVersionsProofs

IsActive(v, p, vt) == v \in VersionIds /\ vt[v].status = "active" /\ vt[v].policy = p

ActiveIn(p, vt) ==
    IF \E v \in VersionIds : vt[v].status = "active" /\ vt[v].policy = p
      THEN CHOOSE v \in VersionIds : vt[v].status = "active" /\ vt[v].policy = p
      ELSE None

ApprovalEvents == {"policy_version_approved", "policy_version_review_approved"}

ApprovedIn(al) == {d.version : d \in {e \in al : e.event \in ApprovalEvents}}

-----------------------------------------------------------------------------
(* The refinement mapping.                                                 *)

\* The active version of a policy is the one row that says so.
LEMMA ActiveInCases ==
    ASSUME NEW p, NEW vt, OneActivePerPolicyIndex(vt)
    PROVE  /\ \A v : IsActive(v, p, vt) => ActiveIn(p, vt) = v
           /\ (\A v : ~IsActive(v, p, vt)) => ActiveIn(p, vt) = None
<1>1. ASSUME NEW v, IsActive(v, p, vt)
      PROVE  ActiveIn(p, vt) = v
  <2> DEFINE P(u) == vt[u].status = "active" /\ vt[u].policy = p
  <2>1. v \in VersionIds /\ P(v)
    BY <1>1 DEF IsActive
  <2>2. (CHOOSE u \in VersionIds : P(u)) \in VersionIds /\ P(CHOOSE u \in VersionIds : P(u))
    <3> HIDE DEF P
    <3> QED
      BY <2>1
  <2>3. (CHOOSE u \in VersionIds : P(u)) = v
    BY <2>1, <2>2 DEF OneActivePerPolicyIndex
  <2>4. ActiveIn(p, vt) = CHOOSE u \in VersionIds : P(u)
    BY <2>1 DEF ActiveIn
  <2> QED
    BY <2>3, <2>4
<1>2. (\A v : ~IsActive(v, p, vt)) => ActiveIn(p, vt) = None
  BY DEF IsActive, ActiveIn
<1> QED
  BY <1>1, <1>2

\* Tables with the same active rows of p agree on the active version of p.
LEMMA ActiveInSame ==
    ASSUME NEW p, NEW vt, NEW vt2,
           OneActivePerPolicyIndex(vt), OneActivePerPolicyIndex(vt2),
           \A v \in VersionIds : IsActive(v, p, vt) <=> IsActive(v, p, vt2)
    PROVE  ActiveIn(p, vt2) = ActiveIn(p, vt)
<1>1. \A v : IsActive(v, p, vt) <=> IsActive(v, p, vt2)
  BY DEF IsActive
<1>2. CASE \E v : IsActive(v, p, vt)
  <2>1. PICK v : IsActive(v, p, vt)
    BY <1>2
  <2> QED
    BY <1>1, <2>1, ActiveInCases
<1>3. CASE \A v : ~IsActive(v, p, vt)
  BY <1>1, <1>3, ActiveInCases
<1> QED
  BY <1>2, <1>3

\* What is active has an approval on record.
LEMMA ActiveInApproved ==
    ASSUME NEW p, NEW vt, NEW rt, NEW al, DbOK(vt, rt, al)
    PROVE  ActiveIn(p, vt) \in (ApprovedIn(al) \cap VersionIds) \cup {None}
<1>1. OneActivePerPolicyIndex(vt)
  BY DEF DbOK
<1>2. CASE \E v : IsActive(v, p, vt)
  <2>1. PICK v : IsActive(v, p, vt)
    BY <1>2
  <2>2. v \in VersionIds /\ Explained(v, rt, al)
    BY <2>1 DEF IsActive, DbOK
  <2>3. \E d \in al : d.version = v /\ d.event \in ApprovalEvents
    BY <2>2 DEF Explained, DirectApproval, ReviewApproval, ApprovalEvents
  <2>4. v \in ApprovedIn(al)
    BY <2>3 DEF ApprovedIn
  <2> QED
    BY <1>1, <2>1, <2>2, <2>4, ActiveInCases
<1>3. CASE \A v : ~IsActive(v, p, vt)
  BY <1>1, <1>3, ActiveInCases
<1> QED
  BY <1>2, <1>3

\* The two as the mapping names them.
LEMMA MappingIsActiveIn ==
    /\ \A p : ActiveVersion(p) = ActiveIn(p, version)
    /\ \A p : ActiveVersion(p)' = ActiveIn(p, version')
    /\ ApprovedVersions = ApprovedIn(audit) /\ ApprovedVersions' = ApprovedIn(audit')
BY DEF ActiveVersion, ActiveIn, ApprovedVersions, ApprovedIn, ApprovalEvents

-----------------------------------------------------------------------------
(* A step of the tables is a step of the contract.                         *)

\* Neither an approval nor a change of what is active.
LEMMA ContractStutters ==
    ASSUME ApprovedVersions' = ApprovedVersions,
           \A p \in Policies : ActiveVersion(p)' = ActiveVersion(p)
    PROVE  UNCHANGED Contract!vars
BY DEF Contract!vars

\* The active version of one policy changes.
LEMMA ContractPrefers ==
    ASSUME IInv, IInv', ApprovedVersions' = ApprovedVersions, NEW q \in Policies,
           \A p \in Policies \ {q}, v \in VersionIds :
             IsActive(v, p, version) <=> IsActive(v, p, version')
    PROVE  Contract!Next
<1>1. OneActivePerPolicyIndex(version) /\ OneActivePerPolicyIndex(version')
  BY DEF IInv, DbOK
<1>2. \A p \in Policies \ {q} : ActiveVersion(p)' = ActiveVersion(p)
  BY <1>1, ActiveInSame, MappingIsActiveIn
<1>3. ActiveVersion(q)' \in (ApprovedVersions \cap VersionIds) \cup {None}
  <2>1. DbOK(version', request', audit')
    BY DEF IInv
  <2> QED
    BY <2>1, ActiveInApproved, MappingIsActiveIn
<1>4. Contract!Prefer(q, ActiveVersion(q)')
  BY <1>2, <1>3 DEF Contract!Prefer
<1> QED
  BY <1>3, <1>4 DEF Contract!Next

\* An approval is recorded and the active rows stay as they are.
LEMMA ContractApproves ==
    ASSUME IInv, IInv', NEW v \in VersionIds,
           ApprovedVersions' = ApprovedVersions \cup {v},
           \A p \in Policies, u \in VersionIds :
             IsActive(u, p, version) <=> IsActive(u, p, version')
    PROVE  Contract!Next
<1>1. OneActivePerPolicyIndex(version) /\ OneActivePerPolicyIndex(version')
  BY DEF IInv, DbOK
<1>2. \A p \in Policies : ActiveVersion(p)' = ActiveVersion(p)
  BY <1>1, ActiveInSame, MappingIsActiveIn
<1>3. Contract!Approve(v)
  BY <1>2 DEF Contract!Approve
<1> QED
  BY <1>3 DEF Contract!Next
-----------------------------------------------------------------------------
(* Every step of a handler maps to a step of the contract or to none.      *)

\* New audit entries that are no approvals approve nothing.
LEMMA NoApproval ==
    ASSUME NEW al, NEW entries, \A d \in entries : d.event \notin ApprovalEvents
    PROVE  ApprovedIn(al \cup entries) = ApprovedIn(al)
BY DEF ApprovedIn

\* One that is an approval approves its version.
LEMMA OneApproval ==
    ASSUME NEW al, NEW d, d.event \in ApprovalEvents
    PROVE  ApprovedIn(al \cup {d}) = ApprovedIn(al) \cup {d.version}
BY DEF ApprovedIn

\* Reads and rolled back transactions.
LEMMA UnchangedTables ==
    ASSUME UNCHANGED <<version, audit>>
    PROVE  UNCHANGED Contract!vars
BY MappingIsActiveIn, ContractStutters

\* A transaction on versions that approves nothing, and in which the only rows
\* whose activity changes are those of one policy.
LEMMA WriteVersionsRefines ==
    ASSUME IInv, IInv', NEW w \in Workers, NEW STATE table, NEW STATE entries,
           WriteVersions(w, table, entries),
           \A d \in entries : d.event \notin ApprovalEvents,
           NEW q \in Policies,
           \A p \in Policies \ {q}, v \in VersionIds :
             IsActive(v, p, version) <=> IsActive(v, p, table)
    PROVE  [Contract!Next]_(Contract!vars)
<1>1. CASE ~(OneActivePerPolicyIndex(table) /\ VersionNumberIndex(table))
  BY <1>1, UnchangedTables DEF WriteVersions
<1>2. CASE OneActivePerPolicyIndex(table) /\ VersionNumberIndex(table)
  <2>1. version' = table /\ audit' = audit \cup entries
    BY <1>2 DEF WriteVersions
  <2>2. ApprovedVersions' = ApprovedVersions
    BY <2>1, NoApproval, MappingIsActiveIn
  <2> QED
    BY <2>1, <2>2, ContractPrefers
<1> QED
  BY <1>1, <1>2

LEMMA InsertDraftRefines ==
    ASSUME IInv, IInv', NEW w \in Workers, NEW event \in AuditEvents \ ApprovalEvents,
           session[w].pc = "ready", session[w].op \in Creators,
           InsertDraft(w, event)
    PROVE  [Contract!Next]_(Contract!vars)
<1> DEFINE Row == [status |-> "draft", policy |-> session[w].row.policy,
                   number |-> session[w].number, content |-> session[w].row.content]
<1>1. PICK v \in VersionIds :
        /\ version[v].status = "absent"
        /\ WriteVersions(w, [version EXCEPT ![v] = Row], {Entry(event, v, None, None, None)})
  BY DEF InsertDraft
<1> DEFINE table == [version EXCEPT ![v] = Row]
<1>2. version \in [VersionIds -> VersionRow]
  BY DEF IInv, DbOK
<1>3. session[w].row.policy \in Policies
  BY DEF IInv, SessionOK
<1>4. \A p, u : IsActive(u, p, version) <=> IsActive(u, p, table)
  BY <1>1, <1>2 DEF IsActive
<1>5. Entry(event, v, None, None, None).event \notin ApprovalEvents
  BY DEF Entry
<1> HIDE DEF table
<1> QED
  BY <1>1, <1>3, <1>4, <1>5, WriteVersionsRefines DEF table

\* What the handlers of the direct lifecycle have in common: only the row they
\* move changes, and it stays in its policy.
LEMMA MoveToChanges ==
    ASSUME IInv, NEW w \in Workers, session[w].op \in VersionEndpoints,
           NEW to \in VersionStatus
    PROVE  LET v == session[w].vid
               table == [version EXCEPT ![v].status = to]
           IN  /\ v \in VersionIds /\ version[v].policy \in Policies
               /\ \A p, u : p # version[v].policy =>
                    (IsActive(u, p, version) <=> IsActive(u, p, table))
               /\ to # "active" /\ version[v].status # "active" =>
                    \A p, u : IsActive(u, p, version) <=> IsActive(u, p, table)
<1> DEFINE v == session[w].vid
           table == [version EXCEPT ![v].status = to]
<1>1. Present(v, version)
  BY DEF IInv, SessionOK
<1>2. version \in [VersionIds -> VersionRow]
  BY DEF IInv, DbOK
<1>3. \A u \in VersionIds :
        /\ table[u].status = IF u = v THEN to ELSE version[u].status
        /\ table[u].policy = version[u].policy
  BY <1>2 DEF VersionRow
<1> HIDE DEF table
<1>4. v \in VersionIds /\ version[v].policy \in Policies
  BY <1>1 DEF Present
<1>5. \A p, u : p # version[v].policy =>
        (IsActive(u, p, version) <=> IsActive(u, p, table))
  BY <1>3, <1>4 DEF IsActive
<1>6. to # "active" /\ version[v].status # "active" =>
        \A p, u : IsActive(u, p, version) <=> IsActive(u, p, table)
  BY <1>3, <1>4 DEF IsActive
<1> QED
  BY <1>4, <1>5, <1>6 DEF table

\* Submit, reject, activate and archive.
LEMMA MoveToRefines ==
    ASSUME IInv, IInv', NEW w \in Workers, session[w].op \in VersionEndpoints,
           NEW to \in VersionStatus, NEW event \in AuditEvents \ ApprovalEvents,
           MoveTo(w, to, event)
    PROVE  [Contract!Next]_(Contract!vars)
<1> DEFINE v == session[w].vid
           table == [version EXCEPT ![v].status = to]
           entry == Entry(event, v, None, None, None)
<1>1. WriteVersions(w, table, {entry})
  BY DEF MoveTo
<1>2. entry.event \notin ApprovalEvents
  BY DEF Entry
<1>3. /\ version[v].policy \in Policies
      /\ \A p \in Policies \ {version[v].policy}, u \in VersionIds :
           IsActive(u, p, version) <=> IsActive(u, p, table)
  BY MoveToChanges
<1> HIDE DEF table, entry
<1> QED
  BY <1>1, <1>2, <1>3, WriteVersionsRefines

\* Approval.  A version that another handler made active meanwhile is approved
\* already and ceases to be active; any other is approved now.
LEMMA ApproveVersionRefines ==
    ASSUME IInv, IInv', NEW w \in Workers, ApproveVersion(w)
    PROVE  [Contract!Next]_(Contract!vars)
<1> DEFINE v == session[w].vid
           table == [version EXCEPT ![v].status = "approved"]
           entry == Entry("policy_version_approved", v, None, None, None)
<1>1. WriteVersions(w, table, {entry}) /\ session[w].op \in VersionEndpoints
  BY DEF ApproveVersion, MoveTo, Ready, VersionEndpoints, RequiredStatus
<1>2. entry.event \in ApprovalEvents /\ entry.version = v
  BY DEF Entry, ApprovalEvents
<1>3. "approved" \in VersionStatus
  BY DEF VersionStatus
<1>4. /\ v \in VersionIds /\ version[v].policy \in Policies
      /\ \A p, u : p # version[v].policy =>
           (IsActive(u, p, version) <=> IsActive(u, p, table))
      /\ version[v].status # "active" =>
           \A p, u : IsActive(u, p, version) <=> IsActive(u, p, table)
  BY <1>1, <1>3, MoveToChanges
<1> HIDE DEF table, entry
<1>5. CASE ~(OneActivePerPolicyIndex(table) /\ VersionNumberIndex(table))
  BY <1>1, <1>5, UnchangedTables DEF WriteVersions
<1>6. CASE OneActivePerPolicyIndex(table) /\ VersionNumberIndex(table)
  <2>1. version' = table /\ audit' = audit \cup {entry}
    BY <1>1, <1>6 DEF WriteVersions
  <2>2. ApprovedVersions' = ApprovedVersions \cup {v}
    BY <1>2, <2>1, OneApproval, MappingIsActiveIn
  <2>3. CASE version[v].status # "active"
    BY <1>4, <2>1, <2>2, <2>3, ContractApproves
  <2>4. CASE version[v].status = "active"
    <3>1. ActiveIn(version[v].policy, version) = v
      BY <1>4, <2>4, ActiveInCases DEF IInv, DbOK, IsActive
    <3>2. v \in ApprovedVersions
      BY <1>4, <3>1, ActiveInApproved, MappingIsActiveIn, NoneAssumption DEF IInv
    <3> QED
      BY <1>4, <2>1, <2>2, <3>2, ContractPrefers
  <2> QED
    BY <2>3, <2>4
<1> QED
  BY <1>5, <1>6

LEMMA UpdateDraftRefines ==
    ASSUME IInv, IInv', NEW w \in Workers, UpdateDraft(w)
    PROVE  [Contract!Next]_(Contract!vars)
<1> DEFINE s == session[w]
           table == IF s.content = s.row.content THEN version
                      ELSE [version EXCEPT ![s.vid].content = s.content]
           entry == Entry("policy_version_draft_updated", s.vid, None, None, None)
<1>1. WriteVersions(w, table, {entry}) /\ s.op \in VersionEndpoints
  BY DEF UpdateDraft, Ready, VersionEndpoints, RequiredStatus
<1>2. entry.event \notin ApprovalEvents
  BY DEF Entry, ApprovalEvents
<1>3. version[s.vid].policy \in Policies
  BY <1>1 DEF IInv, SessionOK, Present
<1>4. version \in [VersionIds -> VersionRow]
  BY DEF IInv, DbOK
<1>5. \A u \in VersionIds :
        table[u].status = version[u].status /\ table[u].policy = version[u].policy
  BY <1>4 DEF VersionRow
<1> HIDE DEF table, entry
<1>6. \A p, u : IsActive(u, p, version) <=> IsActive(u, p, table)
  BY <1>5 DEF IsActive
<1> QED
  BY <1>1, <1>2, <1>3, <1>6, WriteVersionsRefines

\* The superseded and the activated version are versions of one policy.
LEMMA ActivateFromRequestRefines ==
    ASSUME IInv, IInv', NEW w \in Workers, ActivateFromRequest(w)
    PROVE  [Contract!Next]_(Contract!vars)
<1> DEFINE s == session[w]
           superseded == IF s.active = None THEN version
                           ELSE [version EXCEPT ![s.active].status = "superseded"]
           table == [superseded EXCEPT ![s.vid].status = "active"]
           entries ==
             {Entry("policy_version_activated", s.vid, s.rid, s.actor, s.active)}
               \cup {Entry("policy_version_superseded", u, s.rid, s.actor, s.vid) :
                        u \in {s.active} \ {None}}
<1>1. WriteVersions(w, table, entries) /\ s.op = "activate_request"
  BY DEF ActivateFromRequest, Ready
<1>2. \A d \in entries : d.event \notin ApprovalEvents
  BY DEF Entry, ApprovalEvents
<1>3. /\ DbOK(version, request, audit) /\ SessionOK(s, version, request, audit)
      /\ version \in [VersionIds -> VersionRow]
  BY DEF IInv, DbOK
<1>4. Present(s.vid, version)
  BY <1>1, <1>3 DEF SessionOK, DbOK
<1>5. s.active # None =>
        Present(s.active, version) /\ version[s.active].policy = version[s.vid].policy
  BY <1>3 DEF SessionOK
<1>6. /\ superseded \in [VersionIds -> VersionRow]
      /\ \A u \in VersionIds :
           /\ u # s.active => superseded[u] = version[u]
           /\ superseded[u].policy = version[u].policy
  BY <1>3, <1>5 DEF VersionRow, VersionStatus, Present
<1> HIDE DEF superseded
<1>7. \A u \in VersionIds :
        /\ u \notin {s.active, s.vid} => table[u] = version[u]
        /\ table[u].policy = version[u].policy
  BY <1>6 DEF VersionRow
<1> HIDE DEF table, entries
<1>8. \A p \in Policies \ {version[s.vid].policy}, u \in VersionIds :
        IsActive(u, p, version) <=> IsActive(u, p, table)
  BY <1>4, <1>5, <1>7, NoneAssumption DEF IsActive
<1>9. version[s.vid].policy \in Policies
  BY <1>4 DEF Present
<1> QED
  BY <1>1, <1>2, <1>8, <1>9, WriteVersionsRefines

\* A transaction on review requests records an approval of a version, or none.
LEMMA WriteRequestsRefines ==
    ASSUME IInv, IInv', NEW w \in Workers, NEW STATE table, NEW STATE entry,
           WriteRequests(w, table, entry), entry.version \in VersionIds
    PROVE  [Contract!Next]_(Contract!vars)
<1>1. CASE ~OnePendingPerVersionIndex(table)
  BY <1>1, UnchangedTables DEF WriteRequests
<1>2. CASE OnePendingPerVersionIndex(table)
  <2>1. version' = version /\ audit' = audit \cup {entry}
    BY <1>2 DEF WriteRequests
  <2>2. CASE entry.event \in ApprovalEvents
    <3>1. ApprovedVersions' = ApprovedVersions \cup {entry.version}
      BY <2>1, <2>2, OneApproval, MappingIsActiveIn
    <3> QED
      BY <2>1, <3>1, ContractApproves
  <2>3. CASE entry.event \notin ApprovalEvents
    <3>1. ApprovedVersions' = ApprovedVersions
      BY <2>1, <2>3, NoApproval, MappingIsActiveIn
    <3> QED
      BY <2>1, <3>1, MappingIsActiveIn, ContractStutters
  <2> QED
    BY <2>2, <2>3
<1> QED
  BY <1>1, <1>2

LEMMA RequestHandlersRefine ==
    ASSUME IInv, IInv', NEW w \in Workers,
           RequestReview(w) \/ AssignReviewer(w) \/ ApproveRequest(w) \/ RejectRequest(w)
    PROVE  [Contract!Next]_(Contract!vars)
<1>1. session[w].op \in VersionEndpoints \cup Deciders \cup {"assign"}
  BY DEF RequestReview, AssignReviewer, ApproveRequest, RejectRequest, Ready,
         VersionEndpoints, RequiredStatus, Deciders
<1>2. session[w].vid \in VersionIds
  BY <1>1 DEF IInv, SessionOK, DbOK, Present
<1>3. \A e, r, b, x : Entry(e, session[w].vid, r, b, x).version \in VersionIds
  BY <1>2 DEF Entry
<1>4. CASE RequestReview(w)
  BY <1>3, <1>4, WriteRequestsRefines DEF RequestReview
<1>5. CASE AssignReviewer(w)
  BY <1>3, <1>5, WriteRequestsRefines DEF AssignReviewer
<1>6. CASE ApproveRequest(w) \/ RejectRequest(w)
  BY <1>3, <1>6, WriteRequestsRefines DEF ApproveRequest, RejectRequest, Decide
<1> QED
  BY <1>4, <1>5, <1>6

-----------------------------------------------------------------------------
(* The refinement.                                                         *)

LEMMA InitRefines == Init => Contract!Init
<1> SUFFICES ASSUME Init PROVE Contract!Init
  OBVIOUS
<1>1. version = [v \in VersionIds |-> NoVersion] /\ audit = {}
  BY DEF Init
<1>2. \A p : ActiveVersion(p) = None
  BY <1>1 DEF ActiveVersion, NoVersion
<1>3. ApprovedVersions = {}
  BY <1>1 DEF ApprovedVersions
<1> QED
  BY <1>2, <1>3 DEF Contract!Init

LEMMA NextRefines == IInv /\ [Next]_vars => [Contract!Next]_(Contract!vars)
<1> SUFFICES ASSUME IInv, [Next]_vars PROVE [Contract!Next]_(Contract!vars)
  OBVIOUS
<1>1. IInv'
  BY NextIInv
<1>2. CASE UNCHANGED vars
  BY <1>2, UnchangedTables DEF vars
<1>3. ASSUME NEW w \in Workers, Read(w) \/ Abandon(w)
      PROVE  [Contract!Next]_(Contract!vars)
  <2>1. UNCHANGED Tables
    BY <1>3 DEF Read, Abandon, ReadPolicy, ReadVersion, ReadPendingRequest,
       ReadApprovedRequest, ReadReviewedVersion, CheckNoPendingRequest,
       CheckNoOtherActive, FindVersionToReplace, ReadNextNumber
  <2> QED
    BY <2>1, UnchangedTables DEF Tables
<1>4. ASSUME NEW w \in Workers, Write(w)
      PROVE  [Contract!Next]_(Contract!vars)
  <2>1. CASE CreateVersion(w) \/ RollbackVersion(w)
    BY <1>1, <2>1, InsertDraftRefines
    DEF CreateVersion, RollbackVersion, Ready, Creators, AuditEvents, ApprovalEvents
  <2>2. CASE SubmitForReview(w) \/ RejectVersion(w) \/ ActivateVersion(w) \/ ArchiveVersion(w)
    <3>1. {"submit", "reject", "activate", "archive"} \subseteq VersionEndpoints
      BY DEF VersionEndpoints, RequiredStatus
    <3> QED
      BY <1>1, <2>2, <3>1, MoveToRefines
      DEF SubmitForReview, RejectVersion, ActivateVersion, ArchiveVersion, Ready,
          VersionStatus, AuditEvents, ApprovalEvents
  <2> QED
    BY <1>1, <1>4, <2>1, <2>2, ApproveVersionRefines, UpdateDraftRefines,
       ActivateFromRequestRefines, RequestHandlersRefine DEF Write
<1> QED
  BY <1>2, <1>3, <1>4 DEF Next

\* However handlers interleave, crash and overwrite each other, what the runtime
\* evaluates changes one policy at a time, to a version with an approval on
\* record or to none.
THEOREM ContractImplemented == Spec => ImplementsContract
  BY InitRefines, NextRefines, InductiveInvariant, PTL
  DEF Spec, ImplementsContract, Contract!Spec

-----------------------------------------------------------------------------
(* Handlers that do not overlap.  With a single worker nothing is committed *)
(* between a handler's reads and its own commit, so what it has read is     *)
(* still so when it writes (Current), and every commit is one step of the   *)
(* lifecycle that a client is told.                                         *)

PendingIn(v, rt) ==
    {r \in RequestIds : rt[r].status = "pending" /\ rt[r].version = v}

OtherActiveIn(v, p, vt) ==
    {u \in VersionIds \ {v} : vt[u].status = "active" /\ vt[u].policy = p}

Current(s, vt, rt) ==
    /\ s.op \in VersionEndpoints =>
         s.row = vt[s.vid] /\ s.row.status \in RequiredStatus[s.op]
    /\ s.op \in Creators => s.row.content \in Contents
    /\ s.op = "update_draft" => s.content \in Contents
    /\ s.op \in Deciders \cup {"assign"} =>
         rt[s.rid].status = "pending" /\ s.assigned = rt[s.rid].assigned
    /\ s.op \in Deciders => AssignedMayDecide(s.actor, rt[s.rid])
    /\ s.op = "activate_request" =>
         /\ rt[s.rid].status = "approved"
         /\ s.pc # "ready" => s.active = None
         /\ s.pc # "request" =>
              s.row = vt[s.vid] /\ s.row.status \in {"draft", "approved"}
    /\ s.pc = "ready" =>
         /\ s.op \in PendingCheckers => PendingIn(s.vid, rt) = {}
         /\ s.op = "activate" => OtherActiveIn(s.vid, s.row.policy, vt) = {}
         /\ s.op = "activate_request" =>
              OtherActiveIn(s.vid, s.row.policy, vt) = {s.active} \ {None}

SerialInv ==
    /\ IInv
    /\ OnePendingPerVersionIndex(request)
    /\ \A v \in VersionIds : version[v].status # "absent" => version[v].content \in Contents
    /\ \A w \in Workers : session[w].pc # "idle" => Current(session[w], version, request)

\* The queries, as functions of the tables.
LEMMA QueriesAreIn ==
    /\ \A v : PendingFor(v) = PendingIn(v, request)
    /\ \A v, p : OtherActive(v, p) = OtherActiveIn(v, p, version)
BY DEF PendingFor, PendingIn, OtherActive, OtherActiveIn

\* A SELECT of the only handler there is.
LEMMA SerialReads ==
    ASSUME \A u, v \in Workers : u = v, SerialInv, IInv', NEW w \in Workers,
           UNCHANGED Tables,
           session'[w].pc # "idle" => Current(session'[w], version, request)
    PROVE  SerialInv'
<1>1. version' = version /\ request' = request
  BY DEF Tables
<1> QED
  BY <1>1 DEF SerialInv

\* Its end, with or without a commit.
LEMMA SerialEnds ==
    ASSUME \A u, v \in Workers : u = v, SerialInv, IInv', NEW w \in Workers, End(w),
           OnePendingPerVersionIndex(request'),
           \A v \in VersionIds : version'[v].status # "absent" => version'[v].content \in Contents
    PROVE  SerialInv'
<1>1. session'[w] = Idle
  BY DEF End, SerialInv, IInv
<1>2. session'[w].pc = "idle"
  BY <1>1 DEF Idle
<1> QED
  BY <1>2 DEF SerialInv

LEMMA SerialReadsVersion ==
    ASSUME SerialInv, NEW w \in Workers, NEW op \in VersionEndpoints, NEW v \in VersionIds,
           NEW a \in Actors \cup {None}, NEW c \in Contents \cup {None},
           ReadVersion(w, op, v, a, c)
    PROVE  Current(session'[w], version, request)
<1> DEFINE pc == IF op \in PendingCheckers \cup ActiveCheckers \cup Creators
                   THEN "row" ELSE "ready"
           s == [Idle EXCEPT !.pc = pc, !.op = op, !.vid = v, !.row = version[v],
                             !.actor = a, !.content = c]
<1>1. session'[w] = s /\ version[v].status \in RequiredStatus[op]
      /\ (op = "update_draft" => c \in Contents)
  BY DEF ReadVersion, Begin, SerialInv, IInv
<1>2. s.pc = pc /\ s.op = op /\ s.vid = v /\ s.row = version[v] /\ s.content = c
  BY DEF Idle
<1>3. op \notin Deciders \cup {"assign", "activate_request"}
  BY DEF VersionEndpoints, RequiredStatus, Deciders
<1>4. version[v].status # "absent"
  BY <1>1 DEF VersionEndpoints, RequiredStatus
<1>5. version[v].content \in Contents
  BY <1>4 DEF SerialInv
<1>6. s.pc = "ready" => op \notin PendingCheckers /\ op # "activate"
  BY <1>2 DEF ActiveCheckers
<1> HIDE DEF s
<1> QED
  BY <1>1, <1>2, <1>3, <1>5, <1>6 DEF Current

LEMMA SerialReadsRequest ==
    ASSUME SerialInv, NEW w \in Workers,
           \/ \E op \in Deciders \cup {"assign"}, r \in RequestIds, a \in Actors,
                 x \in Actors \cup {None} : ReadPendingRequest(w, op, r, a, x)
           \/ \E r \in RequestIds, a \in Actors, replace \in BOOLEAN :
                 ReadApprovedRequest(w, r, a, replace)
    PROVE  Current(session'[w], version, request)
<1>d. {"approve_request", "reject_request", "assign", "activate_request"}
        \cap (VersionEndpoints \cup Creators \cup PendingCheckers
                \cup {"update_draft", "activate"}) = {}
  BY DEF VersionEndpoints, RequiredStatus, Creators, PendingCheckers
<1>1. ASSUME NEW op \in Deciders \cup {"assign"}, NEW r \in RequestIds, NEW a \in Actors,
             NEW x \in Actors \cup {None}, ReadPendingRequest(w, op, r, a, x)
      PROVE  Current(session'[w], version, request)
  <2> DEFINE s == [Idle EXCEPT
           !.pc = "ready", !.op = op, !.actor = a, !.rid = r,
           !.vid = request[r].version, !.assigned = request[r].assigned,
           !.assignee = x]
  <2>1. /\ session'[w] = s /\ request[r].status = "pending"
        /\ op \in Deciders => AssignedMayDecide(a, request[r])
    BY <1>1 DEF ReadPendingRequest, Begin, SerialInv, IInv, RequirePending
  <2>2. s.op = op /\ s.actor = a /\ s.rid = r /\ s.assigned = request[r].assigned
    BY DEF Idle
  <2>3. op \in {"approve_request", "reject_request", "assign"}
    BY DEF Deciders
  <2> HIDE DEF s
  <2> QED
    BY <1>d, <2>1, <2>2, <2>3 DEF Current
<1>2. ASSUME NEW r \in RequestIds, NEW a \in Actors, NEW replace \in BOOLEAN,
             ReadApprovedRequest(w, r, a, replace)
      PROVE  Current(session'[w], version, request)
  <2> DEFINE s == [Idle EXCEPT
           !.pc = "request", !.op = "activate_request", !.actor = a, !.rid = r,
           !.vid = request[r].version, !.replace = replace]
  <2>1. session'[w] = s /\ request[r].status = "approved"
    BY <1>2 DEF ReadApprovedRequest, Begin, SerialInv, IInv, RequireApproved
  <2>2. /\ s.pc = "request" /\ s.op = "activate_request" /\ s.rid = r /\ s.active = None
        /\ s.op \notin Deciders \cup {"assign"}
    BY DEF Idle, Deciders
  <2> HIDE DEF s
  <2> QED
    BY <1>d, <2>1, <2>2 DEF Current
<1> QED
  BY <1>1, <1>2

\* The SELECTs after the first: either nothing more to hold, or the handler ends.
LEMMA SerialReadsOn ==
    ASSUME SerialInv, NEW w \in Workers,
           \/ ReadReviewedVersion(w) \/ CheckNoPendingRequest(w) \/ CheckNoOtherActive(w)
           \/ FindVersionToReplace(w) \/ ReadNextNumber(w)
    PROVE  session'[w].pc # "idle" => Current(session'[w], version, request)
<1> DEFINE s == session[w]
<1> SUFFICES ASSUME session'[w].pc # "idle"
             PROVE  Current(session'[w], version, request)
  OBVIOUS
<1>1. session \in [Workers -> Session] /\ s \in Session
  BY DEF SerialInv, IInv
<1>2. s.pc # "idle" => Current(s, version, request)
  BY DEF SerialInv
<1>3. ~End(w)
  BY <1>1 DEF End, Idle
<1>d. "activate_request" \notin VersionEndpoints \cup Creators \cup Deciders
        \cup PendingCheckers \cup {"assign", "activate", "update_draft"}
  BY DEF VersionEndpoints, RequiredStatus, Creators, Deciders, PendingCheckers
<1>4. CASE ReadReviewedVersion(w)
  <2>1. /\ s.pc = "request"
        /\ session' = [session EXCEPT ![w].pc = "row", ![w].row = version[s.vid]]
        /\ version[s.vid].status \in {"draft", "approved"}
    BY <1>3, <1>4 DEF ReadReviewedVersion
  <2>2. s.op = "activate_request"
    BY <2>1 DEF SerialInv, IInv, SessionOK
  <2>3. session'[w] = [s EXCEPT !.pc = "row", !.row = version[s.vid]]
    BY <1>1, <2>1
  <2>4. /\ session'[w].pc = "row" /\ session'[w].row = version[s.vid]
        /\ session'[w].op = s.op /\ session'[w].rid = s.rid /\ session'[w].vid = s.vid
        /\ session'[w].active = s.active
    BY <1>1, <2>3 DEF Session
  <2> QED
    BY <1>2, <1>d, <2>1, <2>2, <2>4 DEF Current
<1>5. ASSUME s.pc = "row", session' = [session EXCEPT ![w].pc = "ready"],
             s.op \in PendingCheckers => PendingIn(s.vid, request) = {},
             s.op = "activate" => OtherActiveIn(s.vid, s.row.policy, version) = {},
             s.op = "activate_request" => OtherActiveIn(s.vid, s.row.policy, version) = {}
      PROVE  Current(session'[w], version, request)
  <2>1. session'[w] = [s EXCEPT !.pc = "ready"]
    BY <1>1, <1>5
  <2>2. /\ session'[w].pc = "ready" /\ session'[w].row = s.row
        /\ session'[w].op = s.op /\ session'[w].rid = s.rid /\ session'[w].vid = s.vid
        /\ session'[w].active = s.active /\ session'[w].content = s.content
        /\ session'[w].assigned = s.assigned /\ session'[w].actor = s.actor
    BY <1>1, <2>1 DEF Session
  <2> QED
    BY <1>2, <1>5, <2>2 DEF Current
<1>6. CASE CheckNoPendingRequest(w)
  BY <1>3, <1>5, <1>6, QueriesAreIn DEF CheckNoPendingRequest, PendingCheckers
<1>7. CASE CheckNoOtherActive(w)
  BY <1>3, <1>5, <1>7, QueriesAreIn DEF CheckNoOtherActive, PendingCheckers
<1>8. CASE FindVersionToReplace(w)
  <2>1. s.pc = "row" /\ s.op = "activate_request"
    BY <1>8 DEF FindVersionToReplace
  <2>2. CASE /\ OtherActiveIn(s.vid, s.row.policy, version) = {}
             /\ session' = [session EXCEPT ![w].pc = "ready"]
    BY <1>5, <1>d, <2>1, <2>2
  <2>3. ASSUME NEW u \in VersionIds, OtherActiveIn(s.vid, s.row.policy, version) = {u},
               session' = [session EXCEPT ![w].pc = "ready", ![w].active = u]
        PROVE  Current(session'[w], version, request)
    <3>1. session'[w] = [s EXCEPT !.pc = "ready", !.active = u]
      BY <1>1, <2>3
    <3>2. /\ session'[w].pc = "ready" /\ session'[w].row = s.row
          /\ session'[w].op = s.op /\ session'[w].rid = s.rid /\ session'[w].vid = s.vid
          /\ session'[w].active = u
      BY <1>1, <3>1 DEF Session
    <3>3. {u} \ {None} = {u}
      BY NoneAssumption
    <3> QED
      BY <1>2, <1>d, <2>1, <2>3, <3>2, <3>3 DEF Current
  <2>4. OtherActiveIn(s.vid, s.row.policy, version) \subseteq VersionIds
    BY DEF OtherActiveIn
  <2> QED
    BY <1>3, <1>8, <2>2, <2>3, <2>4, QueriesAreIn DEF FindVersionToReplace
<1>9. CASE ReadNextNumber(w)
  <2>1. PICK n \in {1} \cup {version[v].number + 1 : v \in VersionIds} :
          session' = [session EXCEPT ![w].pc = "ready", ![w].number = n]
    BY <1>9 DEF ReadNextNumber
  <2>2. s.pc = "row" /\ s.op \in Creators
    BY <1>9 DEF ReadNextNumber
  <2>3. session'[w] = [s EXCEPT !.pc = "ready", !.number = n]
    BY <1>1, <2>1
  <2>4. /\ session'[w].pc = "ready" /\ session'[w].row = s.row
        /\ session'[w].op = s.op /\ session'[w].vid = s.vid /\ session'[w].content = s.content
    BY <1>1, <2>3 DEF Session
  <2>5. s.op \notin PendingCheckers \cup Deciders \cup {"activate", "assign", "activate_request"}
    BY <2>2 DEF Creators, PendingCheckers, Deciders
  <2> QED
    BY <1>2, <2>2, <2>4, <2>5 DEF Current
<1> QED
  BY <1>4, <1>6, <1>7, <1>8, <1>9

LEMMA SerialWritesVersions ==
    ASSUME \A u, v \in Workers : u = v, SerialInv, IInv', NEW w \in Workers,
           NEW STATE table, NEW STATE entries, WriteVersions(w, table, entries),
           \A v \in VersionIds : table[v].status # "absent" => table[v].content \in Contents
    PROVE  SerialInv'
<1>1. End(w) /\ request' = request /\ (version' = version \/ version' = table)
  BY DEF WriteVersions
<1>2. OnePendingPerVersionIndex(request')
  BY <1>1 DEF SerialInv
<1>3. \A v \in VersionIds : version'[v].status # "absent" => version'[v].content \in Contents
  BY <1>1 DEF SerialInv
<1> QED
  BY <1>1, <1>2, <1>3, SerialEnds

LEMMA SerialWritesRequests ==
    ASSUME \A u, v \in Workers : u = v, SerialInv, IInv', NEW w \in Workers,
           NEW STATE table, NEW STATE entry, WriteRequests(w, table, entry)
    PROVE  SerialInv'
<1>1. /\ End(w) /\ version' = version
      /\ request' = request \/ (request' = table /\ OnePendingPerVersionIndex(table))
  BY DEF WriteRequests
<1>2. OnePendingPerVersionIndex(request')
  BY <1>1 DEF SerialInv
<1>3. \A v \in VersionIds : version'[v].status # "absent" => version'[v].content \in Contents
  BY <1>1 DEF SerialInv
<1> QED
  BY <1>1, <1>2, <1>3, SerialEnds

\* What a handler that is about to commit can rely on.
LEMMA ReadyIsCurrent ==
    ASSUME SerialInv, NEW w \in Workers, session[w].pc = "ready"
    PROVE  /\ Current(session[w], version, request)
           /\ SessionOK(session[w], version, request, audit)
           /\ DbOK(version, request, audit)
BY DEF SerialInv, IInv

\* The rows a transaction writes keep content that a snapshot can have.
LEMMA SerialContents ==
    ASSUME SerialInv, NEW w \in Workers, NEW v \in VersionIds
    PROVE  /\ \A to : to # "absent" /\ session[w].op \in VersionEndpoints /\ session[w].pc = "ready" =>
                LET table == [version EXCEPT ![session[w].vid].status = to]
                IN  table[v].status # "absent" => table[v].content \in Contents
           /\ Ready(w, "update_draft") =>
                LET table == [version EXCEPT ![session[w].vid].content = session[w].content]
                IN  table[v].status # "absent" => table[v].content \in Contents
<1> DEFINE s == session[w]
<1>1. version \in [VersionIds -> VersionRow]
  BY DEF SerialInv, IInv, DbOK
<1>2. version[v].status # "absent" => version[v].content \in Contents
  BY DEF SerialInv
<1>3. ASSUME s.op \in VersionEndpoints, s.pc = "ready"
      PROVE  s.vid \in VersionIds /\ version[s.vid].status # "absent"
  BY <1>3, ReadyIsCurrent DEF SessionOK, Present
<1>4. ASSUME NEW to, to # "absent", s.op \in VersionEndpoints, s.pc = "ready"
      PROVE  LET table == [version EXCEPT ![s.vid].status = to]
             IN  table[v].status # "absent" => table[v].content \in Contents
  <2> DEFINE table == [version EXCEPT ![s.vid].status = to]
  <2>1. table[v].content = version[v].content
        /\ (v # s.vid => table[v].status = version[v].status)
    BY <1>1 DEF VersionRow
  <2> QED
    BY <1>2, <1>3, <1>4, <2>1
<1>5. ASSUME Ready(w, "update_draft")
      PROVE  LET table == [version EXCEPT ![s.vid].content = s.content]
             IN  table[v].status # "absent" => table[v].content \in Contents
  <2> DEFINE table == [version EXCEPT ![s.vid].content = s.content]
  <2>1. s.content \in Contents
    BY <1>5, ReadyIsCurrent DEF Ready, Current
  <2>2. /\ v = s.vid => table[v].content = s.content
        /\ v # s.vid => table[v] = version[v]
    BY <1>1 DEF VersionRow
  <2> QED
    BY <1>2, <2>1, <2>2
<1> QED
  BY <1>4, <1>5

LEMMA SerialWrites ==
    ASSUME \A u, v \in Workers : u = v, SerialInv, IInv', NEW w \in Workers, Write(w)
    PROVE  SerialInv'
<1> DEFINE s == session[w]
<1>v. version \in [VersionIds -> VersionRow]
  BY DEF SerialInv, IInv, DbOK
<1>c. \A v \in VersionIds : version[v].status # "absent" => version[v].content \in Contents
  BY DEF SerialInv
<1>1. ASSUME NEW event, s.pc = "ready", s.op \in Creators, InsertDraft(w, event)
      PROVE  SerialInv'
  <2> DEFINE Row == [status |-> "draft", policy |-> s.row.policy,
                     number |-> s.number, content |-> s.row.content]
  <2>1. PICK v \in VersionIds :
          WriteVersions(w, [version EXCEPT ![v] = Row], {Entry(event, v, None, None, None)})
    BY <1>1 DEF InsertDraft
  <2> DEFINE table == [version EXCEPT ![v] = Row]
  <2>2. s.row.content \in Contents
    BY <1>1, ReadyIsCurrent DEF Current
  <2>3. \A u \in VersionIds : table[u].status # "absent" => table[u].content \in Contents
    BY <1>v, <1>c, <2>2
  <2> HIDE DEF table
  <2> QED
    BY <2>1, <2>3, SerialWritesVersions DEF table
<1>2. ASSUME NEW to \in VersionStatus, NEW event, s.pc = "ready", s.op \in VersionEndpoints,
             MoveTo(w, to, event)
      PROVE  SerialInv'
  <2> DEFINE table == [version EXCEPT ![s.vid].status = to]
  <2>1. to # "absent"
    BY DEF VersionStatus
  <2>2. \A v \in VersionIds : table[v].status # "absent" => table[v].content \in Contents
    BY <1>2, <2>1, SerialContents
  <2>3. WriteVersions(w, table, {Entry(event, s.vid, None, None, None)})
    BY <1>2 DEF MoveTo
  <2> HIDE DEF table
  <2> QED
    BY <2>2, <2>3, SerialWritesVersions
<1>3. CASE CreateVersion(w) \/ RollbackVersion(w)
  BY <1>1, <1>3 DEF CreateVersion, RollbackVersion, Ready, Creators
<1>4. CASE \/ SubmitForReview(w) \/ ApproveVersion(w) \/ RejectVersion(w)
           \/ ActivateVersion(w) \/ ArchiveVersion(w)
  <2>1. {"submit", "approve", "reject", "activate", "archive"} \subseteq VersionEndpoints
    BY DEF VersionEndpoints, RequiredStatus
  <2> QED
    BY <1>2, <1>4, <2>1
    DEF SubmitForReview, ApproveVersion, RejectVersion, ActivateVersion, ArchiveVersion,
        Ready, VersionStatus
<1>5. CASE UpdateDraft(w)
  <2> DEFINE table == IF s.content = s.row.content THEN version
                        ELSE [version EXCEPT ![s.vid].content = s.content]
  <2>2. \A v \in VersionIds : table[v].status # "absent" => table[v].content \in Contents
    BY <1>5, <1>c, SerialContents DEF UpdateDraft
  <2> HIDE DEF table
  <2> QED
    BY <1>5, <2>2, SerialWritesVersions DEF UpdateDraft, table
<1>6. CASE ActivateFromRequest(w)
  <2> DEFINE superseded == IF s.active = None THEN version
                             ELSE [version EXCEPT ![s.active].status = "superseded"]
             table == [superseded EXCEPT ![s.vid].status = "active"]
             entries ==
               {Entry("policy_version_activated", s.vid, s.rid, s.actor, s.active)}
                 \cup {Entry("policy_version_superseded", u, s.rid, s.actor, s.vid) :
                          u \in {s.active} \ {None}}
  <2>1. s.pc = "ready" /\ s.op = "activate_request" /\ WriteVersions(w, table, entries)
    BY <1>6 DEF ActivateFromRequest, Ready
  <2>2. SessionOK(s, version, request, audit) /\ DbOK(version, request, audit)
    BY <2>1, ReadyIsCurrent
  <2>3. /\ s.vid \in VersionIds /\ version[s.vid].status # "absent"
        /\ s.active # None => s.active \in VersionIds /\ version[s.active].status # "absent"
    BY <2>1, <2>2 DEF SessionOK, DbOK, Present
  <2>4. /\ superseded \in [VersionIds -> VersionRow]
        /\ \A u \in VersionIds : /\ superseded[u].content = version[u].content
                                 /\ u # s.active => superseded[u].status = version[u].status
    BY <1>v DEF VersionRow, VersionStatus
  <2> HIDE DEF superseded
  <2>5. \A u \in VersionIds :
          /\ table[u].content = version[u].content
          /\ u \notin {s.active, s.vid} => table[u].status = version[u].status
    BY <2>4 DEF VersionRow
  <2>6. \A v \in VersionIds : table[v].status # "absent" => table[v].content \in Contents
    BY <1>c, <2>3, <2>5, NoneAssumption
  <2> HIDE DEF table, entries
  <2> QED
    BY <2>1, <2>6, SerialWritesVersions
<1>7. CASE RequestReview(w)
  BY <1>7, SerialWritesRequests DEF RequestReview
<1>8. CASE AssignReviewer(w)
  BY <1>8, SerialWritesRequests DEF AssignReviewer
<1>9. CASE ApproveRequest(w) \/ RejectRequest(w)
  BY <1>9, SerialWritesRequests DEF ApproveRequest, RejectRequest, Decide
<1> QED
  BY <1>3, <1>4, <1>5, <1>6, <1>7, <1>8, <1>9 DEF Write

LEMMA NextSerialInv ==
    ASSUME \A u, v \in Workers : u = v, SerialInv, [Next]_vars
    PROVE  SerialInv'
<1>1. IInv'
  BY NextIInv DEF SerialInv
<1>2. CASE UNCHANGED vars
  BY <1>1, <1>2 DEF vars, SerialInv
<1>3. ASSUME NEW w \in Workers, Read(w)
      PROVE  SerialInv'
  <2>1. UNCHANGED Tables
    BY <1>3 DEF Read, ReadPolicy, ReadVersion, ReadPendingRequest,
       ReadApprovedRequest, ReadReviewedVersion, CheckNoPendingRequest,
       CheckNoOtherActive, FindVersionToReplace, ReadNextNumber
  <2>2. ASSUME NEW p \in Policies, NEW c \in Contents, ReadPolicy(w, p, c)
        PROVE  Current(session'[w], version, request)
    <3> DEFINE t == [Idle EXCEPT !.pc = "row", !.op = "create",
                       !.row = [NoVersion EXCEPT !.policy = p, !.content = c]]
    <3>1. session'[w] = t
      BY <2>2 DEF ReadPolicy, Begin, SerialInv, IInv
    <3>2. t.pc = "row" /\ t.op = "create" /\ t.row.content = c
      BY DEF Idle, NoVersion
    <3> HIDE DEF t
    <3> QED
      BY <3>1, <3>2 DEF Current, VersionEndpoints, RequiredStatus, Deciders
  <2> QED
    BY <1>1, <1>3, <2>1, <2>2, SerialReads, SerialReadsVersion, SerialReadsRequest,
       SerialReadsOn DEF Read
<1>4. ASSUME NEW w \in Workers, Abandon(w)
      PROVE  SerialInv'
  <2>1. End(w) /\ version' = version /\ request' = request
    BY <1>4 DEF Abandon, Tables
  <2>2. /\ OnePendingPerVersionIndex(request')
        /\ \A v \in VersionIds : version'[v].status # "absent" => version'[v].content \in Contents
    BY <2>1 DEF SerialInv
  <2> QED
    BY <1>1, <2>1, <2>2, SerialEnds
<1> QED
  BY <1>1, <1>2, <1>3, <1>4, SerialWrites DEF Next

LEMMA InitSerialInv == Init => SerialInv
  BY InitIInv, NoneAssumption
  DEF Init, SerialInv, OnePendingPerVersionIndex, NoVersion, NoRequest, Idle

-----------------------------------------------------------------------------
(* A commit of the only handler is a step of the lifecycle.                *)

OpenIn(rt) == {v \in VersionIds : PendingIn(v, rt) # {}}

PassedIn(rt) ==
    {v \in VersionIds : \E r \in RequestIds : rt[r].status = "approved" /\ rt[r].version = v}

LEMMA OpenIsIn ==
    /\ {v \in VersionIds : PendingFor(v) # {}} = OpenIn(request)
    /\ {v \in VersionIds : PendingFor(v) # {}}' = OpenIn(request')
BY DEF PendingFor, PendingIn, OpenIn

\* Reads and rolled back transactions.
LEMMA LifecycleStutters ==
    ASSUME UNCHANGED <<version, request>>
    PROVE  UNCHANGED Lifecycle!vars
BY DEF Lifecycle!vars, PendingFor

\* A transaction on versions leaves open and passed alone.
LEMMA RequestsStay ==
    ASSUME request' = request
    PROVE  /\ {v \in VersionIds : PendingFor(v) # {}}' = {v \in VersionIds : PendingFor(v) # {}}
           /\ {v \in VersionIds : \E r \in RequestIds :
                 request[r].status = "approved" /\ request[r].version = v}'
                = {v \in VersionIds : \E r \in RequestIds :
                     request[r].status = "approved" /\ request[r].version = v}
BY DEF PendingFor

\* The alternatives of the lifecycle's next step.
LEMMA LifecycleSteps ==
    /\ \A v \in VersionIds, p \in Policies, c \in Contents :
         Lifecycle!Draft(v, p, c) => Lifecycle!Next
    /\ \A v \in VersionIds, c \in Contents : Lifecycle!Edit(v, c) => Lifecycle!Next
    /\ \A v \in VersionIds :
         \/ Lifecycle!Activate(v) \/ Lifecycle!RequestReview(v) \/ Lifecycle!DecideReview(v)
         => Lifecycle!Next
    /\ \A u, v \in VersionIds : Lifecycle!Replace(u, v) => Lifecycle!Next
BY DEF Lifecycle!Next

\* Submit, approve, reject, archive and activate move a version on from a status
\* that it has.
LEMMA MoveToMoves ==
    ASSUME SerialInv, NEW w \in Workers, session[w].pc = "ready",
           session[w].op \in VersionEndpoints, NEW from, RequiredStatus[session[w].op] \subseteq from,
           NEW to, NEW event, MoveTo(w, to, event), NEW v, v = session[w].vid
    PROVE  \/ Lifecycle!Move(v, from, to)
           \/ UNCHANGED Lifecycle!vars
<1> DEFINE table == [version EXCEPT ![v].status = to]
<1>1. version \in [VersionIds -> VersionRow]
  BY DEF SerialInv, IInv, DbOK
<1>2. v \in VersionIds /\ version[v].status \in from
  BY ReadyIsCurrent DEF SessionOK, Present, Current
<1>3. request' = request /\ (version' = version \/ version' = table)
  BY DEF MoveTo, WriteVersions
<1>4. CASE version' = version
  BY <1>3, <1>4, LifecycleStutters
<1>5. CASE version' = table
  <2>1. \A u \in VersionIds :
          /\ version'[u].status = IF u = v THEN to ELSE version[u].status
          /\ version'[u].policy = version[u].policy
          /\ version'[u].content = version[u].content
    BY <1>1, <1>5 DEF VersionRow
  <2>2. /\ [u \in VersionIds |-> version'[u].status]
             = [[u \in VersionIds |-> version[u].status] EXCEPT ![v] = to]
        /\ [u \in VersionIds |-> version'[u].policy] = [u \in VersionIds |-> version[u].policy]
        /\ [u \in VersionIds |-> version'[u].content] = [u \in VersionIds |-> version[u].content]
    BY <2>1
  <2> QED
    BY <1>2, <1>3, <2>2, RequestsStay DEF Lifecycle!Move
<1> QED
  BY <1>3, <1>4, <1>5

\* The three ways to create a version.
LEMMA InsertDraftDrafts ==
    ASSUME SerialInv, NEW w \in Workers, session[w].pc = "ready", session[w].op \in Creators,
           NEW event, InsertDraft(w, event)
    PROVE  [Lifecycle!Next]_(Lifecycle!vars)
<1> DEFINE s == session[w]
           Row == [status |-> "draft", policy |-> s.row.policy,
                   number |-> s.number, content |-> s.row.content]
<1>1. PICK v \in VersionIds :
        /\ version[v].status = "absent"
        /\ WriteVersions(w, [version EXCEPT ![v] = Row], {Entry(event, v, None, None, None)})
  BY DEF InsertDraft
<1>2. version \in [VersionIds -> VersionRow]
  BY DEF SerialInv, IInv, DbOK
<1>3. s.row.policy \in Policies /\ s.row.content \in Contents
  BY ReadyIsCurrent DEF SessionOK, Current
<1>7. PICK p \in Policies, c \in Contents : p = s.row.policy /\ c = s.row.content
  BY <1>3
<1>4. request' = request /\ (version' = version \/ version' = [version EXCEPT ![v] = Row])
  BY <1>1 DEF WriteVersions
<1>5. CASE version' = version
  BY <1>4, <1>5, LifecycleStutters
<1>6. CASE version' = [version EXCEPT ![v] = Row]
  <2>1. \A u \in VersionIds :
          /\ version'[u].status = IF u = v THEN "draft" ELSE version[u].status
          /\ version'[u].policy = IF u = v THEN p ELSE version[u].policy
          /\ version'[u].content = IF u = v THEN c ELSE version[u].content
    BY <1>2, <1>6, <1>7
  <2>2. /\ [u \in VersionIds |-> version'[u].status]
             = [[u \in VersionIds |-> version[u].status] EXCEPT ![v] = "draft"]
        /\ [u \in VersionIds |-> version'[u].policy]
             = [[u \in VersionIds |-> version[u].policy] EXCEPT ![v] = p]
        /\ [u \in VersionIds |-> version'[u].content]
             = [[u \in VersionIds |-> version[u].content] EXCEPT ![v] = c]
    BY <2>1
  <2>3. Lifecycle!Draft(v, p, c)
    BY <1>1, <1>4, <2>2, RequestsStay DEF Lifecycle!Draft
  <2> QED
    BY <2>3, LifecycleSteps
<1> QED
  BY <1>4, <1>5, <1>6

\* An edit finds a draft that nobody has asked a review of.
LEMMA UpdateDraftEdits ==
    ASSUME SerialInv, NEW w \in Workers, UpdateDraft(w)
    PROVE  [Lifecycle!Next]_(Lifecycle!vars)
<1> DEFINE s == session[w]
<1>1. s.pc = "ready" /\ s.op = "update_draft"
  BY DEF UpdateDraft, Ready
<1>2. s.op \in VersionEndpoints /\ s.op \in PendingCheckers /\ RequiredStatus[s.op] = {"draft"}
  BY <1>1 DEF VersionEndpoints, RequiredStatus, PendingCheckers
<1>3. /\ s.vid \in VersionIds /\ version[s.vid].status = "draft" /\ s.content \in Contents
      /\ PendingIn(s.vid, request) = {}
  BY <1>1, <1>2, ReadyIsCurrent DEF SessionOK, Present, Current
<1>8. PICK v \in VersionIds, c \in Contents : v = s.vid /\ c = s.content
  BY <1>3
<1> DEFINE table == [version EXCEPT ![v].content = c]
<1>4. version \in [VersionIds -> VersionRow]
  BY DEF SerialInv, IInv, DbOK
<1>5. request' = request /\ (version' = version \/ version' = table)
  BY <1>8 DEF UpdateDraft, WriteVersions
<1>6. CASE version' = version
  BY <1>5, <1>6, LifecycleStutters
<1>7. CASE version' = table
  <2>1. \A u \in VersionIds :
          /\ version'[u].status = version[u].status
          /\ version'[u].policy = version[u].policy
          /\ version'[u].content = IF u = v THEN c ELSE version[u].content
    BY <1>4, <1>7 DEF VersionRow
  <2>2. /\ [u \in VersionIds |-> version'[u].status] = [u \in VersionIds |-> version[u].status]
        /\ [u \in VersionIds |-> version'[u].policy] = [u \in VersionIds |-> version[u].policy]
        /\ [u \in VersionIds |-> version'[u].content]
             = [[u \in VersionIds |-> version[u].content] EXCEPT ![v] = c]
    BY <2>1
  <2>3. v \notin {u \in VersionIds : PendingFor(u) # {}}
    BY <1>3, <1>8, QueriesAreIn
  <2>4. Lifecycle!Edit(v, c)
    BY <1>3, <1>5, <1>8, <2>2, <2>3, RequestsStay DEF Lifecycle!Edit
  <2> QED
    BY <2>4, LifecycleSteps
<1> QED
  BY <1>5, <1>6, <1>7

\* What is active in the lifecycle is active in the table.
LEMMA ActiveIsIn ==
    \A v \in VersionIds : \A p : version[v].status # "active" =>
      {u \in VersionIds : version[u].status = "active" /\ version[u].policy = p}
        = OtherActiveIn(v, p, version)
BY DEF OtherActiveIn

\* An activation finds its policy without an active version, or replaces the one
\* it has, which a passed review entitles it to.
LEMMA ActivatesAlone ==
    ASSUME NEW v \in VersionIds, version[v].status # "active",
           OtherActiveIn(v, version[v].policy, version) = {},
           NEW from, Lifecycle!Move(v, from, "active"),
           from = IF v \in PassedIn(request) THEN {"draft", "approved"} ELSE {"approved"}
    PROVE  Lifecycle!Activate(v)
<1>1. Lifecycle!Active(version[v].policy) = {}
  BY ActiveIsIn DEF Lifecycle!Active
<1> QED
  BY <1>1 DEF Lifecycle!Activate, PassedIn

LEMMA ActivateVersionActivates ==
    ASSUME SerialInv, NEW w \in Workers, ActivateVersion(w)
    PROVE  [Lifecycle!Next]_(Lifecycle!vars)
<1> DEFINE s == session[w]
<1>1. s.pc = "ready" /\ s.op = "activate" /\ MoveTo(w, "active", "policy_version_activated")
  BY DEF ActivateVersion, Ready
<1>2. s.op \in VersionEndpoints /\ RequiredStatus[s.op] = {"approved"}
  BY <1>1 DEF VersionEndpoints, RequiredStatus
<1>3. /\ s.vid \in VersionIds /\ s.row = version[s.vid] /\ version[s.vid].status = "approved"
      /\ OtherActiveIn(s.vid, version[s.vid].policy, version) = {}
  BY <1>1, <1>2, ReadyIsCurrent DEF SessionOK, Present, Current
<1>4. PICK v \in VersionIds : v = s.vid
  BY <1>3
<1>5. PICK from : from = IF v \in PassedIn(request) THEN {"draft", "approved"} ELSE {"approved"}
  OBVIOUS
<1>6. \/ Lifecycle!Move(v, from, "active")
      \/ UNCHANGED Lifecycle!vars
  BY <1>1, <1>2, <1>4, <1>5, MoveToMoves
<1>7. Lifecycle!Move(v, from, "active") => Lifecycle!Activate(v)
  BY <1>3, <1>4, <1>5, ActivatesAlone
<1> QED
  BY <1>6, <1>7, LifecycleSteps

LEMMA ActivateFromRequestActivates ==
    ASSUME SerialInv, NEW w \in Workers, ActivateFromRequest(w)
    PROVE  [Lifecycle!Next]_(Lifecycle!vars)
<1> DEFINE s == session[w]
<1>1. s.pc = "ready" /\ s.op = "activate_request"
  BY DEF ActivateFromRequest, Ready
<1>2. /\ SessionOK(s, version, request, audit) /\ Current(s, version, request)
      /\ DbOK(version, request, audit) /\ s \in Session
  BY <1>1, ReadyIsCurrent DEF SessionOK
<1>3. s.rid \in RequestIds /\ request[s.rid].status = "approved" /\ s.vid = request[s.rid].version
  BY <1>1, <1>2 DEF SessionOK, Current
<1>0. s.vid \in VersionIds
  BY <1>2, <1>3 DEF DbOK, Present
<1>4. PICK v \in VersionIds : v = s.vid
  BY <1>0
<1>a. PICK u : u = s.active
  OBVIOUS
<1> DEFINE superseded == IF u = None THEN version
                           ELSE [version EXCEPT ![u].status = "superseded"]
           table == [superseded EXCEPT ![v].status = "active"]
<1>5. v \in PassedIn(request)
  BY <1>3, <1>4 DEF PassedIn
<1>6. /\ version[v].status \in {"draft", "approved"}
      /\ OtherActiveIn(v, version[v].policy, version) = {u} \ {None}
  BY <1>1, <1>2, <1>4, <1>a DEF Current
<1>7. u # None => u \in VersionIds /\ u # v
  BY <1>2, <1>4, <1>a DEF SessionOK, Present
<1>8. version \in [VersionIds -> VersionRow]
  BY <1>2 DEF DbOK
<1>9. request' = request /\ (version' = version \/ version' = table)
  BY <1>4, <1>a DEF ActivateFromRequest, WriteVersions
<1>10. CASE version' = version
  BY <1>9, <1>10, LifecycleStutters
<1>11. CASE version' = table /\ u = None
  <2>1. \A x \in VersionIds :
          /\ version'[x].status = IF x = v THEN "active" ELSE version[x].status
          /\ version'[x].policy = version[x].policy
          /\ version'[x].content = version[x].content
    BY <1>8, <1>11 DEF VersionRow
  <2>2. /\ [x \in VersionIds |-> version'[x].status]
             = [[x \in VersionIds |-> version[x].status] EXCEPT ![v] = "active"]
        /\ [x \in VersionIds |-> version'[x].policy] = [x \in VersionIds |-> version[x].policy]
        /\ [x \in VersionIds |-> version'[x].content] = [x \in VersionIds |-> version[x].content]
    BY <2>1
  <2>3. Lifecycle!Move(v, {"draft", "approved"}, "active")
    BY <1>6, <1>9, <2>2, RequestsStay DEF Lifecycle!Move
  <2>4. Lifecycle!Activate(v)
    <3>1. OtherActiveIn(v, version[v].policy, version) = {}
      BY <1>6, <1>11
    <3>2. PICK from : from = {"draft", "approved"}
      OBVIOUS
    <3> QED
      BY <1>5, <1>6, <2>3, <3>1, <3>2, ActivatesAlone
  <2> QED
    BY <2>4, LifecycleSteps
<1>12. CASE version' = table /\ u # None
  <2>1. /\ superseded \in [VersionIds -> VersionRow]
        /\ \A x \in VersionIds :
             /\ superseded[x].status = IF x = u THEN "superseded" ELSE version[x].status
             /\ superseded[x].policy = version[x].policy
             /\ superseded[x].content = version[x].content
    BY <1>7, <1>8, <1>12 DEF VersionRow, VersionStatus
  <2> HIDE DEF superseded
  <2>2. \A x \in VersionIds :
          /\ version'[x].status = IF x = v THEN "active"
                                   ELSE IF x = u THEN "superseded" ELSE version[x].status
          /\ version'[x].policy = version[x].policy
          /\ version'[x].content = version[x].content
    BY <1>12, <2>1 DEF VersionRow
  <2>3. /\ [x \in VersionIds |-> version'[x].status]
             = [[x \in VersionIds |-> version[x].status]
                  EXCEPT ![u] = "superseded", ![v] = "active"]
        /\ [x \in VersionIds |-> version'[x].policy] = [x \in VersionIds |-> version[x].policy]
        /\ [x \in VersionIds |-> version'[x].content] = [x \in VersionIds |-> version[x].content]
    <3> DEFINE st == [x \in VersionIds |-> version[x].status]
               st2 == [x \in VersionIds |-> version'[x].status]
    <3>1. /\ \A x \in VersionIds : st2[x] = [st EXCEPT ![u] = "superseded", ![v] = "active"][x]
          /\ DOMAIN [st EXCEPT ![u] = "superseded", ![v] = "active"] = VersionIds
      BY <2>2
    <3>2. st2 = [st EXCEPT ![u] = "superseded", ![v] = "active"]
      BY <3>1
    <3> QED
      BY <2>2, <3>2
  <2>4. Lifecycle!Active(version[v].policy) = {u}
    BY <1>4, <1>6, <1>12, ActiveIsIn DEF Lifecycle!Active
  <2>5. Lifecycle!Replace(u, v)
    BY <1>4, <1>5, <1>6, <1>9, <2>3, <2>4, RequestsStay DEF Lifecycle!Replace, PassedIn
  <2> QED
    BY <1>7, <1>12, <2>5, LifecycleSteps
<1> QED
  BY <1>9, <1>10, <1>11, <1>12

\* A request opens a review of a draft that has none; an assignment is no step;
\* a decision closes the one review of its version that was open.
LEMMA RequestReviewOpens ==
    ASSUME SerialInv, NEW w \in Workers, RequestReview(w)
    PROVE  [Lifecycle!Next]_(Lifecycle!vars)
<1> DEFINE s == session[w]
<1>1. s.pc = "ready" /\ s.op = "request_review"
  BY DEF RequestReview, Ready
<1>2. s.op \in VersionEndpoints /\ s.op \in PendingCheckers /\ RequiredStatus[s.op] = {"draft"}
  BY <1>1 DEF VersionEndpoints, RequiredStatus, PendingCheckers
<1>3. /\ s.vid \in VersionIds /\ version[s.vid].status = "draft"
      /\ PendingIn(s.vid, request) = {}
  BY <1>1, <1>2, ReadyIsCurrent DEF SessionOK, Present, Current
<1>4. PICK v \in VersionIds : v = s.vid
  BY <1>3
<1>5. PICK r \in RequestIds :
        /\ request[r].status = "absent"
        /\ WriteRequests(w,
             [request EXCEPT ![r] = [status |-> "pending", version |-> v,
                                     requester |-> s.actor, assigned |-> None]],
             Entry("policy_version_review_requested", v, r, s.actor, None))
  BY <1>4 DEF RequestReview
<1> DEFINE table == [request EXCEPT ![r] = [status |-> "pending", version |-> v,
                                            requester |-> s.actor, assigned |-> None]]
<1>6. version' = version /\ (request' = request \/ request' = table)
  BY <1>5 DEF WriteRequests
<1>7. request \in [RequestIds -> RequestRow]
  BY DEF SerialInv, IInv, DbOK
<1>8. CASE request' = request
  BY <1>6, <1>8, LifecycleStutters
<1>9. CASE request' = table
  <2>1. /\ request'[r].status = "pending" /\ request'[r].version = v
        /\ \A q \in RequestIds \ {r} : request'[q] = request[q]
    BY <1>7, <1>9
  <2>2. OpenIn(request') = OpenIn(request) \cup {v}
    BY <1>5, <2>1 DEF OpenIn, PendingIn
  <2>3. PassedIn(request') = PassedIn(request)
    BY <1>5, <2>1 DEF PassedIn
  <2>4. v \notin OpenIn(request)
    BY <1>3, <1>4 DEF OpenIn
  <2>5. Lifecycle!RequestReview(v)
    BY <1>3, <1>4, <1>6, <2>2, <2>3, <2>4, OpenIsIn DEF Lifecycle!RequestReview, PassedIn
  <2> QED
    BY <2>5, LifecycleSteps
<1> QED
  BY <1>6, <1>8, <1>9

LEMMA AssignReviewerStutters ==
    ASSUME SerialInv, NEW w \in Workers, AssignReviewer(w)
    PROVE  UNCHANGED Lifecycle!vars
<1> DEFINE s == session[w]
           table == IF s.assignee = s.assigned THEN request
                      ELSE [request EXCEPT ![s.rid].assigned = s.assignee]
<1>1. version' = version /\ (request' = request \/ request' = table)
  BY DEF AssignReviewer, WriteRequests
<1>2. request \in [RequestIds -> RequestRow]
  BY DEF SerialInv, IInv, DbOK
<1>3. \A r \in RequestIds :
        request'[r].status = request[r].status /\ request'[r].version = request[r].version
  BY <1>1, <1>2 DEF RequestRow
<1>4. OpenIn(request') = OpenIn(request) /\ PassedIn(request') = PassedIn(request)
  BY <1>3 DEF OpenIn, PendingIn, PassedIn
<1> QED
  BY <1>1, <1>4, OpenIsIn DEF Lifecycle!vars, PassedIn

LEMMA DecideDecides ==
    ASSUME SerialInv, NEW w \in Workers, session[w].pc = "ready", session[w].op \in Deciders,
           NEW to \in {"approved", "rejected"}, NEW event, Decide(w, to, event)
    PROVE  [Lifecycle!Next]_(Lifecycle!vars)
<1> DEFINE s == session[w]
<1>1. /\ SessionOK(s, version, request, audit) /\ Current(s, version, request)
      /\ DbOK(version, request, audit)
  BY ReadyIsCurrent
<1>2. /\ s.rid \in RequestIds /\ request[s.rid].status = "pending"
      /\ request[s.rid].version \in VersionIds
  BY <1>1 DEF SessionOK, Current, DbOK, Present
<1>3. PICK r \in RequestIds : r = s.rid
  BY <1>2
<1>4. PICK v \in VersionIds : v = request[r].version
  BY <1>2, <1>3
<1> DEFINE table == [request EXCEPT ![r].status = to]
<1>5. version' = version /\ (request' = request \/ request' = table)
  BY <1>3 DEF Decide, WriteRequests
<1>6. CASE request' = request
  BY <1>5, <1>6, LifecycleStutters
<1>7. CASE request' = table
  <2>1. request \in [RequestIds -> RequestRow]
    BY <1>1 DEF DbOK
  <2>2. /\ request'[r].status = to /\ request'[r].version = v
        /\ \A q \in RequestIds \ {r} : request'[q] = request[q]
    BY <1>4, <1>7, <2>1 DEF RequestRow
  <2>3. \A q \in RequestIds : request[q].status = "pending" /\ request[q].version = v => q = r
    BY <1>2, <1>3, <1>4 DEF SerialInv, OnePendingPerVersionIndex
  <2>4. v \in OpenIn(request)
    BY <1>2, <1>3, <1>4 DEF OpenIn, PendingIn
  <2>5. OpenIn(request') = OpenIn(request) \ {v}
    <3>1. \A u \in VersionIds : PendingIn(u, request') = PendingIn(u, request) \ {r}
      BY <2>2 DEF PendingIn
    <3>2. \A u \in VersionIds : r \in PendingIn(u, request) => u = v
      BY <1>4 DEF PendingIn
    <3>3. PendingIn(v, request) \subseteq {r}
      BY <2>3 DEF PendingIn
    <3> QED
      BY <3>1, <3>2, <3>3 DEF OpenIn
  <2>6. PassedIn(request') \in {PassedIn(request), PassedIn(request) \cup {v}}
    <3>1. CASE to = "approved"
      <4>1. PassedIn(request') = PassedIn(request) \cup {v}
        BY <1>2, <1>3, <2>2, <3>1 DEF PassedIn
      <4> QED
        BY <4>1
    <3>2. CASE to = "rejected"
      <4>1. PassedIn(request') = PassedIn(request)
        BY <1>2, <1>3, <2>2, <3>2 DEF PassedIn
      <4> QED
        BY <4>1
    <3> QED
      BY <3>1, <3>2
  <2>7. Lifecycle!DecideReview(v)
    BY <1>5, <2>4, <2>5, <2>6, OpenIsIn DEF Lifecycle!DecideReview, PassedIn
  <2> QED
    BY <2>7, LifecycleSteps
<1> QED
  BY <1>5, <1>6, <1>7

LEMMA SerialRefines ==
    ASSUME \A u, v \in Workers : u = v, SerialInv, [Next]_vars
    PROVE  [Lifecycle!Next]_(Lifecycle!vars)
<1>1. CASE UNCHANGED vars
  BY <1>1, LifecycleStutters DEF vars
<1>2. ASSUME NEW w \in Workers, Read(w) \/ Abandon(w)
      PROVE  [Lifecycle!Next]_(Lifecycle!vars)
  <2>1. UNCHANGED Tables
    BY <1>2 DEF Read, Abandon, ReadPolicy, ReadVersion, ReadPendingRequest,
       ReadApprovedRequest, ReadReviewedVersion, CheckNoPendingRequest,
       CheckNoOtherActive, FindVersionToReplace, ReadNextNumber
  <2> QED
    BY <2>1, LifecycleStutters DEF Tables
<1>3. ASSUME NEW w \in Workers, Write(w)
      PROVE  [Lifecycle!Next]_(Lifecycle!vars)
  <2>1. CASE CreateVersion(w) \/ RollbackVersion(w)
    BY <2>1, InsertDraftDrafts DEF CreateVersion, RollbackVersion, Ready, Creators
  <2>2. CASE SubmitForReview(w) \/ ApproveVersion(w) \/ RejectVersion(w) \/ ArchiveVersion(w)
    <3>1. /\ {"submit", "approve", "reject", "archive"} \subseteq VersionEndpoints
          /\ RequiredStatus["submit"] = {"draft"}
          /\ RequiredStatus["approve"] = {"under_review"}
          /\ RequiredStatus["reject"] = {"under_review"}
          /\ RequiredStatus["archive"] = {"draft", "approved", "rejected", "active", "superseded"}
      BY DEF VersionEndpoints, RequiredStatus
    <3>2. session[w].pc = "ready" /\ session[w].op \in VersionEndpoints
      BY <2>2, <3>1
      DEF SubmitForReview, ApproveVersion, RejectVersion, ArchiveVersion, Ready
    <3>3. session[w].vid \in VersionIds
      BY <3>2, ReadyIsCurrent DEF SessionOK, Present
    <3>4. PICK v \in VersionIds : v = session[w].vid
      BY <3>3
    <3>5. \/ UNCHANGED Lifecycle!vars
          \/ Lifecycle!Move(v, {"draft"}, "under_review")
          \/ Lifecycle!Move(v, {"under_review"}, "approved")
          \/ Lifecycle!Move(v, {"under_review"}, "rejected")
          \/ Lifecycle!Move(v, {"draft", "approved", "rejected", "active", "superseded"},
                            "archived")
      <4>1. CASE SubmitForReview(w)
        BY <3>1, <3>4, <4>1, MoveToMoves DEF SubmitForReview, Ready
      <4>2. CASE ApproveVersion(w)
        BY <3>1, <3>4, <4>2, MoveToMoves DEF ApproveVersion, Ready
      <4>3. CASE RejectVersion(w)
        BY <3>1, <3>4, <4>3, MoveToMoves DEF RejectVersion, Ready
      <4>4. CASE ArchiveVersion(w)
        BY <3>1, <3>4, <4>4, MoveToMoves DEF ArchiveVersion, Ready
      <4> QED
        BY <2>2, <4>1, <4>2, <4>3, <4>4
    <3> QED
      BY <3>5 DEF Lifecycle!Next
  <2>3. CASE ApproveRequest(w)
    BY <2>3, DecideDecides DEF ApproveRequest, Ready, Deciders
  <2>4. CASE RejectRequest(w)
    BY <2>4, DecideDecides DEF RejectRequest, Ready, Deciders
  <2> QED
    BY <1>3, <2>1, <2>2, <2>3, <2>4, ActivateVersionActivates, UpdateDraftEdits,
       ActivateFromRequestActivates, RequestReviewOpens, AssignReviewerStutters DEF Write
<1> QED
  BY <1>1, <1>2, <1>3 DEF Next

LEMMA InitStartsLifecycle == Init => Lifecycle!Init
<1> SUFFICES ASSUME Init PROVE Lifecycle!Init
  OBVIOUS
<1>1. /\ version = [v \in VersionIds |-> NoVersion]
      /\ request = [r \in RequestIds |-> NoRequest]
  BY DEF Init
<1>2. /\ \A v \in VersionIds : /\ version[v].status = "absent" /\ version[v].policy = None
                               /\ version[v].content = None
      /\ \A r \in RequestIds : request[r].status = "absent"
  BY <1>1 DEF NoVersion, NoRequest
<1>3. OpenIn(request) = {} /\ PassedIn(request) = {}
  BY <1>2 DEF OpenIn, PendingIn, PassedIn
<1> QED
  BY <1>2, <1>3, OpenIsIn DEF Lifecycle!Init, PassedIn

-----------------------------------------------------------------------------
(* What a client that waits for its answers may rely on.                   *)

\* With one handler at a time the API is the lifecycle it is documented to be:
\* every commit is one atomic endpoint that finds the status it requires, the
\* open reviews it requires closed, and the one active version it replaces.
THEOREM LifecycleImplemented ==
    ASSUME \A u, v \in Workers : u = v
    PROVE  Spec => ImplementsLifecycle
<1>1. SerialInv /\ [Next]_vars => SerialInv'
  BY NextSerialInv
<1>2. SerialInv /\ [Next]_vars => [Lifecycle!Next]_(Lifecycle!vars)
  BY SerialRefines
<1> QED
  BY <1>1, <1>2, InitSerialInv, InitStartsLifecycle, PTL
  DEF Spec, ImplementsLifecycle, Lifecycle!Spec

\* The transaction that decides a request finds it pending, and no other
\* transaction changes the status of a request that was there.
LEMMA StatusesOfRequests ==
    ASSUME SerialInv, NEW w \in Workers, Write(w), NEW r \in RequestIds
    PROVE  request'[r].status = request[r].status \/ request[r].status \in {"absent", "pending"}
<1> DEFINE s == session[w]
<1>1. request \in [RequestIds -> RequestRow]
  BY DEF SerialInv, IInv, DbOK
<1>2. CASE \/ CreateVersion(w) \/ RollbackVersion(w) \/ UpdateDraft(w)
           \/ SubmitForReview(w) \/ ApproveVersion(w) \/ RejectVersion(w)
           \/ ActivateVersion(w) \/ ArchiveVersion(w) \/ ActivateFromRequest(w)
  BY <1>2 DEF CreateVersion, RollbackVersion, InsertDraft, UpdateDraft, SubmitForReview,
     ApproveVersion, RejectVersion, ActivateVersion, ArchiveVersion, MoveTo,
     ActivateFromRequest, WriteVersions
<1>3. CASE RequestReview(w)
  BY <1>1, <1>3 DEF RequestReview, WriteRequests
<1>4. CASE AssignReviewer(w)
  BY <1>1, <1>4 DEF AssignReviewer, WriteRequests, RequestRow
<1>5. CASE ApproveRequest(w) \/ RejectRequest(w)
  <2>1. request[s.rid].status = "pending"
    BY <1>5, ReadyIsCurrent DEF ApproveRequest, RejectRequest, Ready, Deciders, Current
  <2>2. r # s.rid => request'[r] = request[r]
    BY <1>1, <1>5 DEF ApproveRequest, RejectRequest, Decide, WriteRequests
  <2> QED
    BY <2>1, <2>2
<1> QED
  BY <1>2, <1>3, <1>4, <1>5 DEF Write

\* With one handler at a time a decided review request stays as it was decided.
THEOREM DecisionsOfRequestsAreFinal ==
    ASSUME \A u, v \in Workers : u = v
    PROVE  Spec => DecidedRequestsAreFinal
<1>1. SerialInv /\ [Next]_vars => SerialInv'
  BY NextSerialInv
<1>2. SerialInv /\ [Next]_vars =>
        [\A r \in RequestIds : request[r].status \in {"approved", "rejected"} =>
           request'[r].status = request[r].status]_vars
  <2>1. ASSUME SerialInv, NEW w \in Workers, Read(w) \/ Abandon(w)
        PROVE  request' = request
    BY <2>1 DEF Tables, Read, Abandon, ReadPolicy, ReadVersion, ReadPendingRequest,
       ReadApprovedRequest, ReadReviewedVersion, CheckNoPendingRequest,
       CheckNoOtherActive, FindVersionToReplace, ReadNextNumber
  <2> QED
    BY <2>1, StatusesOfRequests DEF Next, vars
<1> QED
  BY <1>1, <1>2, InitSerialInv, PTL DEF Spec, DecidedRequestsAreFinal

\* The audit entry of a decision names a decider that the assignment allows.
LEMMA DecidersAreAssigned ==
    ASSUME SerialInv, NEW w \in Workers, Write(w), NEW e \in audit' \ audit,
           e.event \in {"policy_version_review_approved", "policy_version_review_rejected"}
    PROVE  request[e.request].assigned \in {None, e.by} \/ e.by \in Admins
<1> DEFINE s == session[w]
<1>1. \A event, v, r, by, replaced :
        /\ Entry(event, v, r, by, replaced).event = event
        /\ Entry(event, v, r, by, replaced).request = r
        /\ Entry(event, v, r, by, replaced).by = by
  BY DEF Entry
<1>2. CASE CreateVersion(w) \/ RollbackVersion(w)
  <2>1. \E v, event : /\ e = Entry(event, v, None, None, None)
                      /\ event \in {"policy_version_created", "policy_version_rollback_copy_created",
                                    "policy_version_rollback_draft_created"}
    <3>1. ASSUME NEW event, InsertDraft(w, event)
          PROVE  \E v : e = Entry(event, v, None, None, None)
      <4>1. PICK v, table :
              WriteVersions(w, table, {Entry(event, v, None, None, None)})
        BY <3>1 DEF InsertDraft
      <4> QED
        BY <4>1 DEF WriteVersions
    <3> QED
      BY <1>2, <3>1 DEF CreateVersion, RollbackVersion
  <2> QED
    BY <1>1, <2>1
<1>3. CASE \/ SubmitForReview(w) \/ ApproveVersion(w) \/ RejectVersion(w)
           \/ ActivateVersion(w) \/ ArchiveVersion(w) \/ UpdateDraft(w)
  <2>1. CASE UpdateDraft(w)
    BY <1>1, <2>1 DEF UpdateDraft, WriteVersions
  <2>2. ASSUME NEW to, NEW event, MoveTo(w, to, event)
        PROVE  e.event = event
    BY <1>1, <2>2 DEF MoveTo, WriteVersions
  <2>3. e.event \notin {"policy_version_submitted_for_review", "policy_version_approved",
                        "policy_version_rejected", "policy_version_activated",
                        "policy_version_archived"}
    OBVIOUS
  <2> QED
    BY <1>3, <2>1, <2>2, <2>3
    DEF SubmitForReview, ApproveVersion, RejectVersion, ActivateVersion, ArchiveVersion
<1>4. CASE ActivateFromRequest(w)
  <2>1. e \in {Entry("policy_version_activated", s.vid, s.rid, s.actor, s.active)}
               \cup {Entry("policy_version_superseded", u, s.rid, s.actor, s.vid) :
                        u \in {s.active} \ {None}}
    BY <1>4 DEF ActivateFromRequest, WriteVersions
  <2>2. e.event \in {"policy_version_activated", "policy_version_superseded"}
    BY <1>1, <2>1
  <2> QED
    BY <2>2
<1>5. CASE RequestReview(w) \/ AssignReviewer(w)
  <2>1. \E r : \/ e = Entry("policy_version_review_requested", s.vid, r, s.actor, None)
               \/ e = Entry("policy_version_review_assigned", s.vid, r, s.actor, None)
    <3>1. CASE RequestReview(w)
      BY <3>1 DEF RequestReview, WriteRequests
    <3>2. CASE AssignReviewer(w)
      BY <3>2 DEF AssignReviewer, WriteRequests
    <3> QED
      BY <1>5, <3>1, <3>2
  <2>2. e.event \in {"policy_version_review_requested", "policy_version_review_assigned"}
    BY <1>1, <2>1
  <2> QED
    BY <2>2
<1>6. CASE ApproveRequest(w) \/ RejectRequest(w)
  <2>1. e.request = s.rid /\ e.by = s.actor
    BY <1>1, <1>6 DEF ApproveRequest, RejectRequest, Decide, WriteRequests
  <2>2. AssignedMayDecide(s.actor, request[s.rid])
    BY <1>6, ReadyIsCurrent DEF ApproveRequest, RejectRequest, Ready, Deciders, Current
  <2> QED
    BY <2>1, <2>2 DEF AssignedMayDecide
<1> QED
  BY <1>2, <1>3, <1>4, <1>5, <1>6 DEF Write

\* With one handler at a time only the assignee or an administrator decides a
\* request that is assigned.
THEOREM AssigneeDecides ==
    ASSUME \A u, v \in Workers : u = v
    PROVE  Spec => AssignedReviewerDecides
<1>1. SerialInv /\ [Next]_vars => SerialInv'
  BY NextSerialInv
<1>2. SerialInv /\ [Next]_vars =>
        [\A e \in audit' \ audit :
           e.event \in {"policy_version_review_approved", "policy_version_review_rejected"}
             => \/ request[e.request].assigned \in {None, e.by}
                \/ e.by \in Admins]_vars
  <2>1. ASSUME SerialInv, NEW w \in Workers, Read(w) \/ Abandon(w)
        PROVE  audit' = audit
    BY <2>1 DEF Tables, Read, Abandon, ReadPolicy, ReadVersion, ReadPendingRequest,
       ReadApprovedRequest, ReadReviewedVersion, CheckNoPendingRequest,
       CheckNoOtherActive, FindVersionToReplace, ReadNextNumber
  <2> QED
    BY <2>1, DecidersAreAssigned DEF Next, vars
<1> QED
  BY <1>1, <1>2, InitSerialInv, PTL DEF Spec, AssignedReviewerDecides
=============================================================================

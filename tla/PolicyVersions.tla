--------------------------- MODULE PolicyVersions ---------------------------
(***************************************************************************)
(* The life of a PolicyVersion and of the review requests about it:        *)
(* apps/api/.../policy_versions.py and policy_version_review_requests.py.  *)
(*                                                                         *)
(* Every endpoint is a synchronous handler that runs in a thread of its    *)
(* own with a database session of its own.  PostgreSQL runs at READ        *)
(* COMMITTED and no handler takes a row lock, so a handler is a sequence   *)
(* of SELECTs, each of which sees what is committed at that moment, and a  *)
(* final transaction that UPDATEs rows by primary key without looking at   *)
(* them again.  session[w] is what the handler run by worker w has read.   *)
(*                                                                         *)
(* What is left out: wording, timestamps, notes, the diff and the response *)
(* bodies, and the audit entries' metadata that no property reads.  The    *)
(* audit log is a set: how often the same entry occurs is not recorded.    *)
(***************************************************************************)
EXTENDS Integers

CONSTANTS
    Policies,     \* the governed policies
    VersionIds,   \* ids that policy_versions rows can get (bounds the rows)
    RequestIds,   \* ids that policy_version_review_requests rows can get
    Contents,     \* the snapshots a version can hold, up to equality
    Actors,       \* callers
    Reviewers,    \* human callers with the reviewer role
    Admins,       \* callers with the platform_admin role
    Workers,      \* threads that can be inside a handler at the same time
    Endpoints,    \* the endpoints that this instance calls
    None          \* SQL NULL / Python None

VersionStatus == {"draft", "under_review", "approved", "rejected", "active",
                  "superseded", "archived"}

RequestStatus == {"pending", "approved", "rejected"}

\* Mutant: direct activation takes drafts, as the reviewed activation does.
RequiredStatusDraftActivates ==
    [ update_draft   |-> {"draft"},
      submit         |-> {"draft"},
      approve        |-> {"under_review"},
      reject         |-> {"under_review"},
      activate       |-> {"draft", "approved"},
      archive        |-> {"draft", "approved", "rejected", "active", "superseded"},
      rollback_copy  |-> {"approved", "rejected", "active", "superseded"},
      rollback_draft |-> {"approved", "active", "superseded", "archived"},
      request_review |-> {"draft"} ]

\* The endpoints that start from a PolicyVersion row, with the statuses that
\* _require_status lets through (the three *_STATUSES constants and literals).
RequiredStatus ==
    [ update_draft   |-> {"draft"},
      submit         |-> {"draft"},
      approve        |-> {"under_review"},
      reject         |-> {"under_review"},
      activate       |-> {"approved"},
      archive        |-> {"draft", "approved", "rejected", "active", "superseded"},
      rollback_copy  |-> {"approved", "rejected", "active", "superseded"},
      rollback_draft |-> {"approved", "active", "superseded", "archived"},
      request_review |-> {"draft"} ]

VersionEndpoints == DOMAIN RequiredStatus

\* Mutant: a draft is updated without a look at the pending requests.
PendingCheckersRequestOnly == {"request_review"}

\* Endpoints that go on to a further SELECT before they write.
PendingCheckers == {"update_draft", "request_review"}
ActiveCheckers  == {"activate", "activate_request"}
Creators        == {"create", "rollback_copy", "rollback_draft"}
Deciders        == {"approve_request", "reject_request"}

AllEndpoints ==
    VersionEndpoints \cup Deciders \cup {"create", "assign", "activate_request"}

ASSUME EndpointsAssumption == Endpoints \subseteq AllEndpoints
ASSUME RolesAssumption == Reviewers \subseteq Actors /\ Admins \subseteq Actors
ASSUME NoneAssumption ==
    None \notin Policies \cup VersionIds \cup RequestIds \cup Contents \cup Actors
                    \cup AllEndpoints

VARIABLES
    version,   \* policy_versions, by id
    request,   \* policy_version_review_requests, by id
    audit,     \* audit_logs
    session    \* per worker: the handler it runs and what it has read

vars == <<version, request, audit, session>>

VersionRow == [ status  : VersionStatus \cup {"absent"},
                policy  : Policies \cup {None},
                number  : Nat,
                content : Contents \cup {None} ]

NoVersion == [ status |-> "absent", policy |-> None, number |-> 0, content |-> None ]

RequestRow == [ status    : RequestStatus \cup {"absent"},
                version   : VersionIds \cup {None},
                requester : Actors \cup {None},
                assigned  : Actors \cup {None} ]

NoRequest == [ status |-> "absent", version |-> None, requester |-> None,
               assigned |-> None ]

AuditEvents ==
    {"policy_version_created", "policy_version_rollback_copy_created",
     "policy_version_rollback_draft_created", "policy_version_draft_updated",
     "policy_version_submitted_for_review", "policy_version_approved",
     "policy_version_rejected", "policy_version_activated",
     "policy_version_archived",
     "policy_version_superseded", "policy_version_review_requested",
     "policy_version_review_assigned", "policy_version_review_approved",
     "policy_version_review_rejected"}

\* replaced: superseded_policy_version_id of an activation, and
\* replacement_policy_version_id of a supersession.
AuditEntry == [ event    : AuditEvents,
                version  : VersionIds,
                request  : RequestIds \cup {None},
                by       : Actors \cup {None},
                replaced : VersionIds \cup {None} ]

\* pc: "idle", then "request" and "row" once those rows are read, then "ready"
\* once every SELECT is done and only the final transaction is left.
Session == [ pc       : {"idle", "request", "row", "ready"},
             op       : AllEndpoints \cup {None},
             actor    : Actors \cup {None},
             vid      : VersionIds \cup {None},
             row      : VersionRow,            \* the PolicyVersion as read
             rid      : RequestIds \cup {None},
             assigned : Actors \cup {None},    \* the assignment as read
             assignee : Actors \cup {None},    \* payload of assign
             content  : Contents \cup {None},  \* payload of update_draft
             number   : Nat,                   \* _next_version_number
             replace  : BOOLEAN,               \* payload.replace_active
             active   : VersionIds \cup {None} ]

Idle == [ pc |-> "idle", op |-> None, actor |-> None, vid |-> None,
          row |-> NoVersion, rid |-> None, assigned |-> None,
          assignee |-> None, content |-> None, number |-> 0,
          replace |-> FALSE, active |-> None ]

Init ==
    /\ version = [v \in VersionIds |-> NoVersion]
    /\ request = [r \in RequestIds |-> NoRequest]
    /\ audit = {}
    /\ session = [w \in Workers |-> Idle]

-----------------------------------------------------------------------------
(* Queries.                                                                *)

VersionsOf(p, table) ==
    {v \in VersionIds : table[v].status # "absent" /\ table[v].policy = p}

PendingFor(v) ==
    {r \in RequestIds : request[r].status = "pending" /\ request[r].version = v}

\* _active_policy_versions_for_policy and _require_no_other_active_policy_version
OtherActive(v, p) ==
    {u \in VersionIds \ {v} : version[u].status = "active" /\ version[u].policy = p}

\* Mutant: the SELECT max() forgets WHERE policy_id = ....
IsNextNumberOfAny(p, n) ==
    LET rows == {v \in VersionIds : version[v].status # "absent"}
    IN  /\ \A v \in rows : version[v].number < n
        /\ n = 1 \/ \E v \in rows : version[v].number = n - 1

\* _next_version_number: the largest number of the policy's versions, plus one.
IsNextNumber(p, n) ==
    /\ \A v \in VersionsOf(p, version) : version[v].number < n
    /\ n = 1 \/ \E v \in VersionsOf(p, version) : version[v].number = n - 1

\* Mutant: any request can transition.
RequirePendingDropped(row) == row.status # "absent"

RequirePending(row) == row.status = "pending"

\* Mutant: any request activates its version.
RequireApprovedDropped(row) == row.status # "absent"

RequireApproved(row) == row.status = "approved"

MayReview(a) == a \in Reviewers \cup Admins

\* Mutant: requesters review themselves.
NotSelfReviewDropped(a, row) == TRUE

NotSelfReview(a, row) == a \in Admins \/ a # row.requester

\* Mutant: assignment is a hint.
AssignedMayDecideDropped(a, row) == TRUE

AssignedMayDecide(a, row) ==
    row.assigned = None \/ a \in Admins \/ a = row.assigned

-----------------------------------------------------------------------------
(* The SELECTs of a handler.  A guard that fails before anything is read   *)
(* ends the handler with nothing done, which is no step at all.            *)

Begin(w, s) == session[w].pc = "idle" /\ session' = [session EXCEPT ![w] = s]

\* The handler answers 4xx, or dies before its commit: nothing is written.
End(w) == session' = [session EXCEPT ![w] = Idle]

Tables == <<version, request, audit>>

\* create_policy_version and create_policy_version_draft: the snapshot is that
\* of the live policy or of the payload, in either case any content.
ReadPolicy(w, p, c) ==
    /\ "create" \in Endpoints
    /\ Begin(w, [Idle EXCEPT !.pc = "row", !.op = "create",
                             !.row = [NoVersion EXCEPT !.policy = p, !.content = c]])
    /\ UNCHANGED Tables

\* session.get(PolicyVersion, version_id) and the status guard on it.
ReadVersion(w, op, v, a, c) ==
    /\ op \in Endpoints \cap VersionEndpoints
    /\ version[v].status \in RequiredStatus[op]
    /\ op # "request_review" => a = None
    /\ op = "request_review" => a \in Actors
    /\ c \in IF op = "update_draft" THEN Contents ELSE {None}
    /\ Begin(w, [Idle EXCEPT
           !.pc = IF op \in PendingCheckers \cup ActiveCheckers \cup Creators
                    THEN "row" ELSE "ready",
           !.op = op, !.vid = v, !.row = version[v], !.actor = a, !.content = c])
    /\ UNCHANGED Tables

\* assign, approve and reject of a review request: every guard of theirs is on
\* the request row and on the caller.
ReadPendingRequest(w, op, r, a, x) ==
    /\ op \in Endpoints \cap (Deciders \cup {"assign"})
    /\ RequirePending(request[r])
    /\ MayReview(a)
    /\ op \in Deciders => NotSelfReview(a, request[r]) /\ AssignedMayDecide(a, request[r])
    /\ x \in IF op = "assign" THEN Actors ELSE {None}
    /\ Begin(w, [Idle EXCEPT
           !.pc = "ready", !.op = op, !.actor = a, !.rid = r,
           !.vid = request[r].version, !.assigned = request[r].assigned,
           !.assignee = x])
    /\ UNCHANGED Tables

\* activate_approved_policy_version_review_request, its first SELECT.
ReadApprovedRequest(w, r, a, replace) ==
    /\ "activate_request" \in Endpoints
    /\ RequireApproved(request[r])
    /\ MayReview(a)
    /\ Begin(w, [Idle EXCEPT
           !.pc = "request", !.op = "activate_request", !.actor = a, !.rid = r,
           !.vid = request[r].version, !.replace = replace])
    /\ UNCHANGED Tables

\* ... its second SELECT, with _require_activatable_policy_version.
ReadReviewedVersion(w) ==
    LET v == session[w].vid
    IN  /\ session[w].pc = "request"
        /\ IF version[v].status \in {"draft", "approved"}
             THEN session' = [session EXCEPT ![w].pc = "row", ![w].row = version[v]]
             ELSE End(w)
        /\ UNCHANGED Tables

CheckNoPendingRequest(w) ==
    /\ session[w].pc = "row" /\ session[w].op \in PendingCheckers
    /\ IF PendingFor(session[w].vid) = {}
         THEN session' = [session EXCEPT ![w].pc = "ready"]
         ELSE End(w)
    /\ UNCHANGED Tables

CheckNoOtherActive(w) ==
    /\ session[w].pc = "row" /\ session[w].op = "activate"
    /\ IF OtherActive(session[w].vid, session[w].row.policy) = {}
         THEN session' = [session EXCEPT ![w].pc = "ready"]
         ELSE End(w)
    /\ UNCHANGED Tables

\* Mutant: the list of active versions is kept in place of its one member.
FindVersionToReplaceKeepsList(w) ==
    LET others == OtherActive(session[w].vid, session[w].row.policy)
    IN  /\ session[w].pc = "row" /\ session[w].op = "activate_request"
        /\ others # {} => session[w].replace
        /\ session' = [session EXCEPT ![w].pc = "ready", ![w].active = others]
        /\ UNCHANGED Tables

\* Reviewed activation replaces the one active version, if it is told to.
FindVersionToReplace(w) ==
    LET others == OtherActive(session[w].vid, session[w].row.policy)
    IN  /\ session[w].pc = "row" /\ session[w].op = "activate_request"
        /\ \/ /\ others = {}
              /\ session' = [session EXCEPT ![w].pc = "ready"]
           \/ \E u \in others :
                /\ others = {u} /\ session[w].replace
                /\ session' = [session EXCEPT ![w].pc = "ready", ![w].active = u]
           \/ /\ others # {}
              /\ session[w].replace => \A u \in others : others # {u}
              /\ End(w)
        /\ UNCHANGED Tables

ReadNextNumber(w) ==
    /\ session[w].pc = "row" /\ session[w].op \in Creators
    /\ \E n \in {1} \cup {version[v].number + 1 : v \in VersionIds} :
         /\ IsNextNumber(session[w].row.policy, n)
         /\ session' = [session EXCEPT ![w].pc = "ready", ![w].number = n]
    /\ UNCHANGED Tables

-----------------------------------------------------------------------------
(* The final transaction of a handler: flush and commit.  The unique       *)
(* indexes of models.py decide whether it commits; the IntegrityError of   *)
(* one that does not is caught nowhere and rolls everything back.          *)

\* Mutant: migration 202606090001 is not applied.
OneActivePerPolicyIndexMissing(table) == TRUE

OneActivePerPolicyIndex(table) ==
    \A u, v \in VersionIds :
        /\ table[u].status = "active" /\ table[v].status = "active"
        /\ table[u].policy = table[v].policy
        => u = v

VersionNumberIndex(table) ==
    \A u, v \in VersionIds :
        /\ table[u].status # "absent" /\ table[v].status # "absent"
        /\ table[u].policy = table[v].policy /\ table[u].number = table[v].number
        => u = v

OnePendingPerVersionIndex(table) ==
    \A q, r \in RequestIds :
        /\ table[q].status = "pending" /\ table[r].status = "pending"
        /\ table[q].version = table[r].version
        => q = r

Entry(event, v, r, by, replaced) ==
    [event |-> event, version |-> v, request |-> r, by |-> by, replaced |-> replaced]

Ready(w, op) == session[w].pc = "ready" /\ session[w].op = op

WriteVersions(w, table, entries) ==
    /\ IF OneActivePerPolicyIndex(table) /\ VersionNumberIndex(table)
         THEN version' = table /\ audit' = audit \cup entries
         ELSE UNCHANGED <<version, audit>>
    /\ UNCHANGED request
    /\ End(w)

WriteRequests(w, table, entry) ==
    /\ IF OnePendingPerVersionIndex(table)
         THEN request' = table /\ audit' = audit \cup {entry}
         ELSE UNCHANGED <<request, audit>>
    /\ UNCHANGED version
    /\ End(w)

\* version.status = s; UPDATE ... WHERE id, whatever the row has become.
MoveTo(w, s, event) ==
    WriteVersions(w, [version EXCEPT ![session[w].vid].status = s],
                  {Entry(event, session[w].vid, None, None, None)})

InsertDraft(w, event) ==
    \E v \in VersionIds :
        /\ version[v].status = "absent"
        /\ WriteVersions(w,
             [version EXCEPT ![v] = [status  |-> "draft",
                                     policy  |-> session[w].row.policy,
                                     number  |-> session[w].number,
                                     content |-> session[w].row.content]],
             {Entry(event, v, None, None, None)})

CreateVersion(w) == Ready(w, "create") /\ InsertDraft(w, "policy_version_created")

RollbackVersion(w) ==
    \/ /\ Ready(w, "rollback_copy")
       /\ InsertDraft(w, "policy_version_rollback_copy_created")
    \/ /\ Ready(w, "rollback_draft")
       /\ InsertDraft(w, "policy_version_rollback_draft_created")

\* The ORM writes only the columns whose value differs from the one it read.
UpdateDraft(w) ==
    LET s == session[w]
    IN  /\ Ready(w, "update_draft")
        /\ WriteVersions(w,
             IF s.content = s.row.content THEN version
               ELSE [version EXCEPT ![s.vid].content = s.content],
             {Entry("policy_version_draft_updated", s.vid, None, None, None)})

SubmitForReview(w) ==
    Ready(w, "submit") /\ MoveTo(w, "under_review", "policy_version_submitted_for_review")

ApproveVersion(w) ==
    Ready(w, "approve") /\ MoveTo(w, "approved", "policy_version_approved")

RejectVersion(w) ==
    Ready(w, "reject") /\ MoveTo(w, "rejected", "policy_version_rejected")

ActivateVersion(w) ==
    Ready(w, "activate") /\ MoveTo(w, "active", "policy_version_activated")

ArchiveVersion(w) ==
    Ready(w, "archive") /\ MoveTo(w, "archived", "policy_version_archived")

RequestReview(w) ==
    LET s == session[w]
    IN  /\ Ready(w, "request_review")
        /\ \E r \in RequestIds :
             /\ request[r].status = "absent"
             /\ WriteRequests(w,
                  [request EXCEPT ![r] = [status |-> "pending", version |-> s.vid,
                                          requester |-> s.actor, assigned |-> None]],
                  Entry("policy_version_review_requested", s.vid, r, s.actor, None))

AssignReviewer(w) ==
    LET s == session[w]
    IN  /\ Ready(w, "assign")
        /\ WriteRequests(w,
             IF s.assignee = s.assigned THEN request
               ELSE [request EXCEPT ![s.rid].assigned = s.assignee],
             Entry("policy_version_review_assigned", s.vid, s.rid, s.actor, None))

Decide(w, s, event) ==
    WriteRequests(w, [request EXCEPT ![session[w].rid].status = s],
        Entry(event, session[w].vid, session[w].rid, session[w].actor, None))

ApproveRequest(w) ==
    Ready(w, "approve_request") /\ Decide(w, "approved", "policy_version_review_approved")

RejectRequest(w) ==
    Ready(w, "reject_request") /\ Decide(w, "rejected", "policy_version_review_rejected")

\* Supersede the version it read as active, then activate the reviewed one.
ActivateFromRequest(w) ==
    LET s == session[w]
        superseded == IF s.active = None THEN version
                        ELSE [version EXCEPT ![s.active].status = "superseded"]
    IN  /\ Ready(w, "activate_request")
        /\ WriteVersions(w,
             [superseded EXCEPT ![s.vid].status = "active"],
             {Entry("policy_version_activated", s.vid, s.rid, s.actor, s.active)}
               \cup {Entry("policy_version_superseded", u, s.rid, s.actor, s.vid) :
                        u \in {s.active} \ {None}})

\* The connection is lost or the process dies before the commit: the session's
\* context manager, or the server, rolls the transaction back.
Abandon(w) == session[w].pc # "idle" /\ End(w) /\ UNCHANGED Tables

-----------------------------------------------------------------------------
Read(w) ==
    \/ \E p \in Policies, c \in Contents : ReadPolicy(w, p, c)
    \/ \E op \in VersionEndpoints, v \in VersionIds,
          a \in Actors \cup {None}, c \in Contents \cup {None} :
             ReadVersion(w, op, v, a, c)
    \/ \E op \in Deciders \cup {"assign"}, r \in RequestIds, a \in Actors,
          x \in Actors \cup {None} : ReadPendingRequest(w, op, r, a, x)
    \/ \E r \in RequestIds, a \in Actors, replace \in BOOLEAN :
             ReadApprovedRequest(w, r, a, replace)
    \/ ReadReviewedVersion(w)
    \/ CheckNoPendingRequest(w)
    \/ CheckNoOtherActive(w)
    \/ FindVersionToReplace(w)
    \/ ReadNextNumber(w)

Write(w) ==
    \/ CreateVersion(w) \/ RollbackVersion(w) \/ UpdateDraft(w)
    \/ SubmitForReview(w) \/ ApproveVersion(w) \/ RejectVersion(w)
    \/ ActivateVersion(w) \/ ArchiveVersion(w)
    \/ RequestReview(w) \/ AssignReviewer(w)
    \/ ApproveRequest(w) \/ RejectRequest(w) \/ ActivateFromRequest(w)

Next == \E w \in Workers : Read(w) \/ Write(w) \/ Abandon(w)

Spec == Init /\ [][Next]_vars

-----------------------------------------------------------------------------
(* Properties.                                                             *)

\* Every row and every session is well formed.
TypeOK ==
    /\ version \in [VersionIds -> VersionRow]
    /\ request \in [RequestIds -> RequestRow]
    /\ audit \subseteq AuditEntry
    /\ session \in [Workers -> Session]

\* At most one version of a policy is active: what the runtime evaluates for a
\* policy is never ambiguous (POLICY_VERSION_ACTIVE_ROLLOUT.md, "Single-Active-
\* Version Invariant"), however activations by the two paths race.
OneActivePerPolicy ==
    \A u, v \in VersionIds :
        version[u].status = "active" /\ version[v].status = "active" /\ u # v
            => version[u].policy # version[v].policy

\* An approval of the version on record: by the direct lifecycle, or, for an
\* activation from a review request, of that request for that version, by
\* somebody who may review and did not review a request of their own.
Approved(e) ==
    \E d \in audit :
        /\ d.version = e.version
        /\ IF e.request = None
             THEN d.event = "policy_version_approved"
             ELSE /\ d.event = "policy_version_review_approved"
                  /\ d.request = e.request
                  /\ d.by \in Reviewers \cup Admins
                  /\ d.by \in Admins \/ d.by # request[e.request].requester

\* The audit log explains every active version: it records the activation, and
\* before it an approval that entitled the activation.  No interleaving of
\* handlers, with their stale reads and overwritten statuses, makes a version
\* the runtime's input that nobody approved.
ActiveVersionWasApproved ==
    \A v \in VersionIds : version[v].status = "active" =>
        \E e \in audit :
            e.event = "policy_version_activated" /\ e.version = v /\ Approved(e)

\* The versions of a policy are numbered 1, 2, 3, ... without a gap, although
\* the next number is read in one SELECT and used in a later INSERT: the insert
\* that used a stale number is the one the unique index refuses.
VersionNumbersAreConsecutive ==
    \A v \in VersionIds : version[v].status # "absent" =>
        \A n \in 1 .. version[v].number :
            \E u \in VersionsOf(version[v].policy, version) :
                /\ version[u].number = n
                /\ n = version[v].number => u = v

\* A review request that is decided stays decided the way it was ("Only pending
\* PolicyVersion review requests can transition").
DecidedRequestsAreFinal ==
    [][\A r \in RequestIds : request[r].status \in {"approved", "rejected"} =>
         request'[r].status = request[r].status]_vars

\* The snapshot of a version that is not a draft never changes: what is active
\* is what was activated ("immutable active PolicyVersion snapshots").
SnapshotsAreImmutable ==
    [][\A v \in VersionIds : version[v].status \notin {"absent", "draft"} =>
         version'[v].content = version[v].content]_vars

\* The content a review request approved is the content of the version from
\* then on: activation makes the exact reviewed configuration the runtime's.
ApprovedContentIsImmutable ==
    [][\A r \in RequestIds : request[r].status = "approved" =>
         version'[request[r].version].content = version[request[r].version].content]_vars

\* "Only policy versions under review can be rejected".
OnlyUnderReviewIsRejected ==
    [][\A v \in VersionIds :
         version'[v].status = "rejected" /\ version[v].status # "rejected"
            => version[v].status = "under_review"]_vars

\* An assigned review request is decided by its assignee or by an administrator.
AssignedReviewerDecides ==
    [][\A e \in audit' \ audit :
         e.event \in {"policy_version_review_approved", "policy_version_review_rejected"}
            => \/ request[e.request].assigned \in {None, e.by}
               \/ e.by \in Admins]_vars

-----------------------------------------------------------------------------
(* Refinement.                                                             *)

ApprovedVersions ==
    {e.version : e \in {d \in audit : d.event \in
        {"policy_version_approved", "policy_version_review_approved"}}}

ActiveVersion(p) ==
    IF \E v \in VersionIds : version[v].status = "active" /\ version[v].policy = p
      THEN CHOOSE v \in VersionIds : version[v].status = "active" /\ version[v].policy = p
      ELSE None

Contract == INSTANCE ActivationContract WITH
    approved  <- ApprovedVersions,
    preferred <- [p \in Policies |-> ActiveVersion(p)]

\* However many handlers interleave, the runtime's input only ever changes to a
\* version with an approval on record, or to none, one policy at a time.
ImplementsContract == Contract!Spec

Lifecycle == INSTANCE VersionLifecycle WITH
    status  <- [v \in VersionIds |-> version[v].status],
    policy  <- [v \in VersionIds |-> version[v].policy],
    content <- [v \in VersionIds |-> version[v].content],
    open    <- {v \in VersionIds : PendingFor(v) # {}},
    passed  <- {v \in VersionIds : \E r \in RequestIds :
                  request[r].status = "approved" /\ request[r].version = v}

\* As long as handlers do not overlap, the API implements the lifecycle it is
\* documented to have, endpoint by endpoint.
ImplementsLifecycle == Lifecycle!Spec
=============================================================================

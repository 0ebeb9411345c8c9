------------------------- MODULE ReviewInboxProofs --------------------------
(***************************************************************************)
(* Proofs about ReviewInbox, for any items, reviewers and loads.           *)
(*                                                                         *)
(* An item that has left "pending" never returns to it.  So what the       *)
(* inductive invariant says of an answer is only what stays true of it:    *)
(* an item that it saw decided is decided, and an item that is pending now *)
(* is in every answer that would list it.  The newest load started after   *)
(* the last decision, so it saw all of them.                               *)
(***************************************************************************)
EXTENDS ReviewInbox, FiniteSetTheorems, TLAPS

Acts == {"approve", "reject", "assign", "activate"}

Call == [ act : Acts \cup {"none"}, on : Items \cup {None}, to : Actors \cup {None},
          replace : BOOLEAN, st : {"none", "sent", "ok", "failed"} ]

Answer == [ st : {"sent", "ok", "failed"}, rows : SUBSET (Items \X Row) ]

Load == [ st : {"none", "reading", "done"}, answer : [Queries -> Answer] ]

\* The loads are started in the order of their numbers.
InOrder(ls, n) == n \in 0..MaxLoads /\ \A l \in LoadIds : ls[l].st # "none" <=> l <= n

\* The items that the answer to q is about.
About(q) == IF q = "approvals" THEN Approvals ELSE Requests

\* Answer a to query q agrees with the items as they are now.
AnswerOK(q, a, items) ==
    /\ a.st # "ok" => a.rows = {}
    /\ \A p \in a.rows :
         /\ p[1] \in About(q)
         /\ q # "approvals" => p[2].status = q
         /\ p[2].status # "pending" => items[p[1]].status # "pending"
         /\ \A o \in a.rows : o[1] = p[1] => o = p
    /\ a.st = "ok" /\ q \in {"approvals", "pending"} =>
         \A x \in About(q) : items[x].status = "pending" => \E p \in a.rows : p[1] = x

\* A POST is about an item that its handler takes.
CallOK(c) ==
    /\ c \in Call
    /\ c.st # "none" => c.act \in Acts /\ c.on \in Items
    /\ c.act \in {"assign", "activate"} => c.on \in Requests
    /\ c.act = "assign" => c.to \in Actors

BackendOK ==
    /\ item \in [Items -> Row]
    /\ live \in Requests \cup {Earlier, None} /\ activated \subseteq Requests
    /\ log \subseteq [ on : Items, act : Acts ]

\* What the page was told is so, and it remembers what it sent.
PageOK ==
    /\ me \in {"loading", "ready", "error"}
    /\ action \in [ on : Items \cup {None}, act : Acts \cup {"none"},
                    st : {"idle", "submitting", "success", "error"} ]
    /\ action.st = "submitting" <=> call.st # "none"
    /\ action.st = "success" => [ act |-> action.act, on |-> action.on ] \in log
    /\ CallOK(call)
    /\ call.st = "ok" => /\ [ act |-> call.act, on |-> call.on ] \in log
                         /\ call.act \in {"approve", "reject"} => item[call.on].status # "pending"

\* The newest load started when everything in "decided" had been decided.
SeesDecided(rows) == \A p \in rows : p[1] \in decided => p[2].status # "pending"

LoadsOK ==
    /\ loads \in [LoadIds -> Load]
    /\ InOrder(loads, Newest)
    /\ \A l \in LoadIds, q \in Queries : AnswerOK(q, loads[l].answer[q], item)
    /\ decided \subseteq Items
    /\ \A x \in decided : item[x].status # "pending"
    /\ \A l \in LoadIds : l = Newest => \A q \in Queries : SeesDecided(loads[l].answer[q].rows)

InboxOK ==
    /\ inbox \in [ st : {"loading", "ready", "error"}, of : Nat, rows : [Items -> Row] ]
    /\ inbox.of <= Newest
    /\ inbox.st = "ready" /\ inbox.of = Newest =>
         \A x \in decided : inbox.rows[x].status # "pending"

IInv == BackendOK /\ PageOK /\ LoadsOK /\ InboxOK

-----------------------------------------------------------------------------
\* The model's operators.

LEMMA QueriesAre == Queries = {"approvals", "pending", "approved", "rejected"}
  <1>1. Len(Statuses) = 3
    BY DEF Statuses
  <1>2. 1..3 = {1, 2, 3}
    OBVIOUS
  <1>3. Statuses[1] = "pending" /\ Statuses[2] = "approved" /\ Statuses[3] = "rejected"
    BY DEF Statuses
  <1>4. QED
    BY <1>1, <1>2, <1>3 DEF Queries

\* The number of loads started is the number of the last one.
LEMMA NewestIs ==
  ASSUME NEW ls, NEW n, MaxLoads \in Nat, InOrder(ls, n)
  PROVE  Cardinality({ l \in LoadIds : ls[l].st # "none" }) = n
  <1>1. n \in Nat /\ n <= MaxLoads
    BY DEF InOrder
  <1>2. { l \in LoadIds : ls[l].st # "none" } = 1..n
    BY <1>1 DEF InOrder, LoadIds
  <1>3. Cardinality(1..n) = n
    BY <1>1, FS_Interval
  <1>4. QED
    BY <1>2, <1>3

\* What an answer says stays true while items leave "pending" and never return.
LEMMA AnswerKept ==
  ASSUME NEW q \in Queries, NEW a, NEW old, NEW new, AnswerOK(q, a, old),
         \A x \in Items : new[x].status = "pending" => old[x].status = "pending"
  PROVE  AnswerOK(q, a, new)
  <1>1. About(q) \subseteq Items
    BY DEF About, Items
  <1>2. QED
    BY <1>1 DEF AnswerOK

\* The effect of an accepted POST, whoever sent it.
LEMMA ApplyOK ==
  ASSUME NEW a, NEW c, BackendOK, CallOK(c), c.st # "none", Apply(a, c)
  PROVE  /\ BackendOK'
         /\ \A x \in Items : item'[x].status = "pending" => item[x].status = "pending"
         /\ log \subseteq log'
         /\ a = Me => [ act |-> c.act, on |-> c.on ] \in log'
         /\ c.act \in {"approve", "reject"} => item'[c.on].status # "pending"
  <1>1. c.act \in Acts /\ c.on \in Items
    BY DEF CallOK
  <1>2. log' \subseteq [ on : Items, act : Acts ] /\ log \subseteq log'
    BY <1>1 DEF Apply, BackendOK
  <1>3. a = Me => [ act |-> c.act, on |-> c.on ] \in log'
    BY DEF Apply
  <1>4. live' \in Requests \cup {Earlier, None} /\ activated' \subseteq Requests
    BY DEF Apply, BackendOK, CallOK
  <1>5. /\ item' \in [Items -> Row]
        /\ \A x \in Items : item'[x].status = "pending" => item[x].status = "pending"
        /\ c.act \in {"approve", "reject"} => item'[c.on].status # "pending"
    <2>0. item \in [Items -> Row]
      BY DEF BackendOK
    <2>1. CASE c.act \in {"approve", "reject"}
      <3>1. item' = [item EXCEPT ![c.on].status = Outcome(c.act)]
        BY <2>1 DEF Apply
      <3>2. Outcome(c.act) \in {"approved", "rejected"}
        BY <2>1 DEF Outcome
      <3>3. QED
        BY <1>1, <2>0, <2>1, <3>1, <3>2 DEF Row
    <2>2. CASE c.act = "assign"
      <3>1. item' = [item EXCEPT ![c.on].assigned = c.to] /\ c.to \in Actors
        BY <2>2 DEF Apply, CallOK
      <3>2. QED
        BY <1>1, <2>0, <2>2, <3>1 DEF Row
    <2>3. CASE c.act = "activate"
      BY <2>0, <2>3 DEF Apply
    <2>4. QED
      BY <1>1, <2>1, <2>2, <2>3 DEF Acts
  <1>6. QED
    BY <1>2, <1>3, <1>4, <1>5 DEF BackendOK

\* A row about x is one of the answer to q.
RowOf(l, q, p, x) == p \in Rows(l, q) /\ p[1] = x

LEMMA RowsAre ==
  ASSUME LoadsOK, NEW l \in LoadIds, NEW q \in Queries, NEW p \in Rows(l, q)
  PROVE  p[1] \in About(q) /\ p[2] \in Row /\ (q # "approvals" => p[2].status = q)
  <1>1. loads[l] \in Load
    BY DEF LoadsOK
  <1>2. loads[l].answer[q].rows \subseteq Items \X Row
    BY <1>1 DEF Load, Answer
  <1>3. AnswerOK(q, loads[l].answer[q], item)
    BY DEF LoadsOK
  <1>4. QED
    BY <1>2, <1>3 DEF Rows, AnswerOK

\* The row shown for x is one of the rows that the answers hold of it, and never a
\* pending one when some answer holds another.
LEMMA FetchedIs ==
  ASSUME LoadsOK, NEW l \in LoadIds, NEW x \in Items
  PROVE  /\ Fetched(l)[x] \in Row
         /\ \/ /\ \A q \in Queries : \A p : ~RowOf(l, q, p, x)
               /\ Fetched(l)[x] = Unlisted
            \/ \E q \in Queries : \E p : RowOf(l, q, p, x) /\ p[2] = Fetched(l)[x]
         /\ \A q \in Queries : \A p : RowOf(l, q, p, x) /\ p[2].status # "pending"
                => Fetched(l)[x].status # "pending"
  <1>0. /\ Len(Statuses) = 3 /\ 1..3 = {1, 2, 3}
        /\ Statuses[1] = "pending" /\ Statuses[2] = "approved" /\ Statuses[3] = "rejected"
    BY DEF Statuses
  <1>s. /\ \A i \in {1, 2, 3} : Statuses[i] \in {"pending", "approved", "rejected"}
        /\ \A i \in {2, 3} : Statuses[i] # "pending"
    BY <1>0
  <1>d. Requests \cap Approvals = {}
    BY ItemsAssumption
  <1>u. Unlisted \in Row /\ Unlisted.status # "pending"
    BY DEF Unlisted, Row
  <1>1. CASE x \in Requests
    <2> DEFINE holding == { i \in 1..Len(Statuses) : \E p \in Rows(l, Statuses[i]) : p[1] = x }
               last == CHOOSE i \in holding : \A j \in holding : j <= i
               row == CHOOSE p \in Rows(l, Statuses[last]) : p[1] = x
    <2>1. Fetched(l)[x] = IF holding = {} THEN Unlisted ELSE row[2]
      BY <1>1 DEF Fetched, Deduped
    <2>2. ASSUME NEW q \in Queries, NEW p, RowOf(l, q, p, x)
          PROVE  \E i \in holding : q = Statuses[i] /\ p[2].status = Statuses[i]
      <3>1. q \in {"pending", "approved", "rejected"} /\ p[2].status = q
        BY <1>1, <1>d, <2>2, RowsAre, QueriesAre DEF RowOf, About
      <3>2. \E i \in {1, 2, 3} : q = Statuses[i]
        BY <1>0, <3>1
      <3>3. QED
        BY <1>0, <2>2, <3>1, <3>2 DEF RowOf
    <2>3. CASE holding = {}
      BY <1>u, <2>1, <2>2, <2>3
    <2>4. CASE holding # {}
      <3>0. holding \subseteq {1, 2, 3}
        BY <1>0
      <3>1. \E i \in holding : \A j \in holding : j <= i
        <4>1. CASE 3 \in holding
          BY <3>0, <4>1
        <4>2. CASE 3 \notin holding /\ 2 \in holding
          BY <3>0, <4>2
        <4>3. CASE 3 \notin holding /\ 2 \notin holding
          BY <2>4, <3>0, <4>3
        <4>4. QED
          BY <4>1, <4>2, <4>3
      <3>2. last \in holding /\ \A j \in holding : j <= last
        BY <3>1
      <3>3. \E p \in Rows(l, Statuses[last]) : p[1] = x
        BY <3>2
      <3>4. row \in Rows(l, Statuses[last]) /\ row[1] = x
        BY <3>3
      <3>5. last \in {1, 2, 3}
        BY <3>0, <3>2
      <3>i. Statuses[last] \in {"pending", "approved", "rejected"}
        BY <1>s, <3>5
      <3>6. Statuses[last] \in Queries /\ Statuses[last] # "approvals"
        BY <3>i, QueriesAre
      <3>7. row[2] \in Row /\ row[2].status = Statuses[last]
        BY <3>4, <3>6, RowsAre
      <3>8. ASSUME NEW q \in Queries, NEW p, RowOf(l, q, p, x), p[2].status # "pending"
            PROVE  row[2].status # "pending"
        <4>1. PICK i \in holding : p[2].status = Statuses[i]
          BY <2>2, <3>8
        <4>2. i \in {2, 3} /\ i <= last
          BY <1>0, <3>0, <3>2, <3>8, <4>1
        <4>3. last \in {2, 3}
          BY <3>5, <4>2
        <4>4. QED
          BY <1>s, <3>7, <4>3
      <3>9. QED
        BY <2>1, <2>4, <3>4, <3>6, <3>7, <3>8 DEF RowOf
    <2>5. QED
      BY <2>3, <2>4
  <1>2. CASE x \in Approvals
    <2>0. "approvals" \in Queries /\ x \notin Requests
      BY <1>2, <1>d, QueriesAre
    <2> DEFINE row == CHOOSE p \in Rows(l, "approvals") : p[1] = x
    <2>1. Fetched(l)[x] = IF \E p \in Rows(l, "approvals") : p[1] = x THEN row[2] ELSE Unlisted
      BY <2>0 DEF Fetched
    <2>2. ASSUME NEW q \in Queries, NEW p, RowOf(l, q, p, x)
          PROVE  q = "approvals"
      BY <2>0, <2>2, RowsAre DEF RowOf, About
    <2>3. CASE \E p \in Rows(l, "approvals") : p[1] = x
      <3>1. row \in Rows(l, "approvals") /\ row[1] = x
        BY <2>3
      <3>2. row[2] \in Row
        BY <2>0, <3>1, RowsAre
      <3>3. ASSUME NEW p \in Rows(l, "approvals"), p[1] = x
            PROVE  p = row
        BY <2>0, <3>1, <3>3 DEF LoadsOK, AnswerOK, Rows
      <3>4. QED
        BY <2>0, <2>1, <2>2, <2>3, <3>1, <3>2, <3>3 DEF RowOf
    <2>4. CASE ~\E p \in Rows(l, "approvals") : p[1] = x
      BY <1>u, <2>1, <2>2, <2>4 DEF RowOf
    <2>5. QED
      BY <2>3, <2>4
  <1>3. QED
    BY <1>1, <1>2 DEF Items

-----------------------------------------------------------------------------
\* What a step leaves alone.

NoneReopened == \A x \in Items : item'[x].status = "pending" => item[x].status = "pending"

LEMMA LoadsKept ==
  ASSUME LoadsOK, NoneReopened, UNCHANGED <<loads, decided>>
  PROVE  LoadsOK'
  <1>1. Newest' = Newest
    BY DEF Newest
  <1>2. /\ \A l \in LoadIds : l = Newest => \A q \in Queries : SeesDecided(loads[l].answer[q].rows)'
        /\ loads' \in [LoadIds -> Load] /\ InOrder(loads', Newest') /\ decided' \subseteq Items
    BY <1>1 DEF LoadsOK, SeesDecided
  <1>3. \A l \in LoadIds, q \in Queries : AnswerOK(q, loads'[l].answer[q], item')
    BY AnswerKept DEF LoadsOK, NoneReopened
  <1>4. \A x \in decided' : item'[x].status # "pending"
    BY DEF LoadsOK, NoneReopened
  <1>5. QED
    BY <1>1, <1>2, <1>3, <1>4 DEF LoadsOK

LEMMA InboxKept ==
  ASSUME InboxOK, UNCHANGED <<inbox, loads, decided>>
  PROVE  InboxOK'
  BY DEF InboxOK, Newest

LEMMA PageKept ==
  ASSUME PageOK, NoneReopened, log \subseteq log', UNCHANGED <<me, action, call>>
  PROVE  PageOK'
  <1>1. call.st = "ok" => call.on \in Items
    BY DEF PageOK, CallOK
  <1>2. QED
    BY <1>1 DEF PageOK, NoneReopened

LEMMA BackendKept ==
  ASSUME BackendOK, UNCHANGED backend
  PROVE  BackendOK' /\ NoneReopened /\ log \subseteq log'
  BY DEF BackendOK, NoneReopened, backend

-----------------------------------------------------------------------------
\* Loading.

LEMMA NewestTyped ==
  ASSUME LoadsOK
  PROVE  Newest \in Nat /\ Newest <= MaxLoads
  BY MaxLoadsAssumption DEF LoadsOK, InOrder

\* A started load is the newest one, and has no answers yet.
LEMMA StartLoadOK ==
  ASSUME LoadsOK, InboxOK, StartLoad, UNCHANGED item,
         decided' \subseteq Items, \A x \in decided' : item[x].status # "pending"
  PROVE  LoadsOK' /\ InboxOK'
  <1> DEFINE fresh == [ st |-> "reading", answer |-> [ q \in Queries |-> Waiting ] ]
  <1>1. /\ Newest \in Nat /\ Newest + 1 \in LoadIds
        /\ loads' = [loads EXCEPT ![Newest + 1] = fresh]
        /\ inbox' = [inbox EXCEPT !.st = "loading"]
    BY NewestTyped, MaxLoadsAssumption DEF StartLoad, LoadIds
  <1>2. fresh \in Load /\ \A q \in Queries : fresh.answer[q] = Waiting
    BY DEF Load, Answer, Waiting
  <1>3. loads \in [LoadIds -> Load]
    BY DEF LoadsOK
  <1>4. loads' \in [LoadIds -> Load]
    BY <1>1, <1>2, <1>3
  <1>5. InOrder(loads', Newest + 1)
    <2>1. Newest + 1 \in 0..MaxLoads
      BY <1>1 DEF LoadIds
    <2>2. ASSUME NEW l \in LoadIds
          PROVE  loads'[l].st # "none" <=> l <= Newest + 1
      <3>1. CASE l = Newest + 1
        BY <1>1, <1>3, <3>1
      <3>2. CASE l # Newest + 1
        <4>1. loads'[l] = loads[l] /\ l \in Nat
          BY <1>1, <1>3, <3>2 DEF LoadIds
        <4>2. loads[l].st # "none" <=> l <= Newest
          BY DEF LoadsOK, InOrder
        <4>3. QED
          BY <1>1, <3>2, <4>1, <4>2
      <3>3. QED
        BY <3>1, <3>2
    <2>3. QED
      BY <2>1, <2>2 DEF InOrder
  <1>6. Newest' = Newest + 1
    BY <1>5, NewestIs, MaxLoadsAssumption DEF Newest
  <1>7. ASSUME NEW l \in LoadIds, NEW q \in Queries
        PROVE  AnswerOK(q, loads'[l].answer[q], item')
    <2>1. CASE l = Newest + 1
      <3>1. loads'[l].answer[q] = Waiting
        BY <1>1, <1>2, <1>3, <2>1
      <3>2. QED
        BY <3>1 DEF AnswerOK, Waiting
    <2>2. CASE l # Newest + 1
      BY <1>1, <1>3, <2>2 DEF LoadsOK
    <2>3. QED
      BY <2>1, <2>2
  <1>8. ASSUME NEW l \in LoadIds, l = Newest', NEW q \in Queries
        PROVE  SeesDecided(loads[l].answer[q].rows)'
    <2>1. loads'[l].answer[q] = Waiting
      BY <1>1, <1>2, <1>3, <1>6, <1>8
    <2>2. QED
      BY <2>1 DEF SeesDecided, Waiting
  <1>9. LoadsOK'
    BY <1>4, <1>5, <1>6, <1>7, <1>8 DEF LoadsOK
  <1>10. InboxOK'
    <2>1. inbox'.st = "loading"
      BY <1>1 DEF InboxOK
    <2>2. QED
      BY <1>1, <1>6, <2>1 DEF InboxOK
  <1>11. QED
    BY <1>9, <1>10

\* A query of a load is answered or fails.
LEMMA SetAnswerOK ==
  ASSUME LoadsOK, InboxOK, NEW l \in LoadIds, NEW q \in Queries, NEW a \in Answer,
         loads[l].st = "reading", AnswerOK(q, a, item), SeesDecided(a.rows),
         loads' = [loads EXCEPT ![l].answer[q] = a], UNCHANGED <<item, decided, inbox>>
  PROVE  LoadsOK' /\ InboxOK'
  <1>1. loads \in [LoadIds -> Load]
    BY DEF LoadsOK
  <1>2. /\ \A k \in LoadIds \ {l} : loads'[k] = loads[k]
        /\ loads'[l] = [loads[l] EXCEPT !.answer[q] = a]
        /\ DOMAIN loads' = LoadIds /\ loads' = [k \in LoadIds |-> loads'[k]]
    BY <1>1
  <1>3. /\ loads'[l] \in Load /\ loads'[l].st = loads[l].st
        /\ loads'[l].answer[q] = a
        /\ \A r \in Queries \ {q} : loads'[l].answer[r] = loads[l].answer[r]
    BY <1>1, <1>2 DEF Load
  <1>4. loads' \in [LoadIds -> Load]
    BY <1>1, <1>2, <1>3
  <1>5. \A k \in LoadIds : loads'[k].st = loads[k].st
    BY <1>2, <1>3
  <1>6. Newest' = Newest
    BY <1>5 DEF Newest
  <1>7. InOrder(loads', Newest')
    BY <1>5, <1>6 DEF LoadsOK, InOrder
  <1>8. ASSUME NEW k \in LoadIds, NEW r \in Queries
        PROVE  \/ k = l /\ r = q /\ loads'[k].answer[r] = a
               \/ loads'[k].answer[r] = loads[k].answer[r]
    BY <1>2, <1>3
  <1>9. \A k \in LoadIds, r \in Queries : AnswerOK(r, loads'[k].answer[r], item')
    BY <1>8 DEF LoadsOK
  <1>10. \A k \in LoadIds : k = Newest' => \A r \in Queries : SeesDecided(loads[k].answer[r].rows)'
    BY <1>6, <1>8 DEF LoadsOK, SeesDecided
  <1>11. LoadsOK'
    BY <1>4, <1>7, <1>9, <1>10 DEF LoadsOK
  <1>12. InboxOK'
    BY <1>6 DEF InboxOK
  <1>13. QED
    BY <1>11, <1>12

\* AnswerQuery: the backend says what it holds.
LEMMA AnswerToOK ==
  ASSUME BackendOK, \A x \in decided : item[x].status # "pending", NEW q \in Queries
  PROVE  AnswerTo(q) \in Answer /\ AnswerOK(q, AnswerTo(q), item) /\ SeesDecided(AnswerTo(q).rows)
  <1> DEFINE listed == { y \in Items : IF q = "approvals" THEN y \in Approvals
                                       ELSE y \in Requests /\ item[y].status = q }
  <1>1. AnswerTo(q) = [ st |-> "ok", rows |-> { <<x, item[x]>> : x \in listed } ]
    BY DEF AnswerTo
  <1>2. AnswerTo(q).st = "ok" /\ AnswerTo(q).rows = { <<x, item[x]>> : x \in listed }
    BY <1>1
  <1>3. \A x \in listed : x \in Items /\ item[x] \in Row
    BY DEF BackendOK
  <1>4. { <<x, item[x]>> : x \in listed } \subseteq Items \X Row
    BY <1>3
  <1>5. AnswerTo(q) \in Answer
    BY <1>1, <1>4 DEF Answer
  <1>6. ASSUME NEW p \in AnswerTo(q).rows
        PROVE  \E x \in listed : p = <<x, item[x]>> /\ p[1] = x /\ p[2] = item[x]
    BY <1>2
  <1>7. ASSUME NEW p \in AnswerTo(q).rows
        PROVE  /\ p[1] \in About(q)
               /\ q # "approvals" => p[2].status = q
               /\ p[2].status # "pending" => item[p[1]].status # "pending"
               /\ \A o \in AnswerTo(q).rows : o[1] = p[1] => o = p
               /\ p[1] \in decided => p[2].status # "pending"
    <2>1. PICK x \in listed : p = <<x, item[x]>> /\ p[1] = x /\ p[2] = item[x]
      BY <1>6
    <2>2. ASSUME NEW o \in AnswerTo(q).rows, o[1] = p[1]
          PROVE  o = p
      BY <1>6, <2>1, <2>2
    <2>3. QED
      BY <2>1, <2>2 DEF About
  <1>8. ASSUME q \in {"approvals", "pending"}, NEW x \in About(q), item[x].status = "pending"
        PROVE  \E p \in AnswerTo(q).rows : p[1] = x
    <2>1. x \in listed
      BY <1>8 DEF About, Items
    <2>2. <<x, item[x]>> \in AnswerTo(q).rows
      BY <1>2, <2>1
    <2>3. QED
      BY <2>2
  <1>9. AnswerOK(q, AnswerTo(q), item)
    BY <1>2, <1>7, <1>8 DEF AnswerOK
  <1>10. SeesDecided(AnswerTo(q).rows)
    BY <1>7 DEF SeesDecided
  <1>11. QED
    BY <1>5, <1>9, <1>10

LEMMA AnswerQueryStep ==
  ASSUME IInv, NEW l \in LoadIds, NEW q \in Queries, AnswerQuery(l, q)
  PROVE  IInv'
  <1> USE DEF IInv
  <1>1. /\ loads[l].st = "reading" /\ loads' = [loads EXCEPT ![l].answer[q] = AnswerTo(q)]
        /\ UNCHANGED <<item, live, activated, log, me, inbox, call, action, decided>>
    BY DEF AnswerQuery, backend
  <1>2. BackendOK' /\ NoneReopened /\ log \subseteq log'
    BY <1>1, BackendKept DEF backend
  <1>3. LoadsOK' /\ InboxOK'
    <2>1. AnswerTo(q) \in Answer /\ AnswerOK(q, AnswerTo(q), item) /\ SeesDecided(AnswerTo(q).rows)
      BY AnswerToOK DEF LoadsOK
    <2>2. QED
      BY <1>1, <2>1, SetAnswerOK
  <1>4. PageOK'
    BY <1>1, <1>2, PageKept
  <1>5. QED
    BY <1>2, <1>3, <1>4

LEMMA FailQueryStep ==
  ASSUME IInv, NEW l \in LoadIds, NEW q \in Queries, FailQuery(l, q)
  PROVE  IInv'
  <1> USE DEF IInv
  <1> DEFINE a == [ st |-> "failed", rows |-> {} ]
  <1>1. /\ loads[l].st = "reading" /\ loads[l].answer[q] = Waiting
        /\ loads' = [loads EXCEPT ![l].answer[q].st = "failed"]
        /\ UNCHANGED <<item, live, activated, log, me, inbox, call, action, decided>>
    BY DEF FailQuery, backend
  <1>2. BackendOK' /\ NoneReopened /\ log \subseteq log'
    BY <1>1, BackendKept DEF backend
  <1>3. [loads[l].answer[q] EXCEPT !.st = "failed"] = a
    BY <1>1 DEF Waiting
  <1>4. loads' = [loads EXCEPT ![l].answer[q] = a]
    <2>1. loads \in [LoadIds -> Load]
      BY DEF LoadsOK
    <2>2. loads' = [loads EXCEPT ![l].answer[q] = [loads[l].answer[q] EXCEPT !.st = "failed"]]
      BY <1>1, <2>1 DEF Load, Answer
    <2>3. QED
      BY <1>3, <2>2
  <1>5. a \in Answer /\ AnswerOK(q, a, item) /\ SeesDecided(a.rows)
    BY DEF Answer, AnswerOK, SeesDecided
  <1>6. LoadsOK' /\ InboxOK'
    <2> HIDE DEF a
    <2>1. QED
      BY <1>1, <1>4, <1>5, SetAnswerOK
  <1>7. PageOK'
    BY <1>1, <1>2, PageKept
  <1>8. QED
    BY <1>2, <1>6, <1>7

\* What the newest load shows of an item that was decided before it started.
LEMMA FetchedDecided ==
  ASSUME LoadsOK, NEW l \in LoadIds, l = Newest, NEW x \in decided
  PROVE  Fetched(l)[x].status # "pending"
  <1>1. x \in Items
    BY DEF LoadsOK
  <1>2. CASE Fetched(l)[x] = Unlisted
    BY <1>2 DEF Unlisted
  <1>3. ASSUME NEW q \in Queries, NEW p, RowOf(l, q, p, x), p[2] = Fetched(l)[x]
        PROVE  Fetched(l)[x].status # "pending"
    BY <1>3 DEF LoadsOK, SeesDecided, RowOf, Rows
  <1>4. QED
    BY <1>1, <1>2, <1>3, FetchedIs

LEMMA ShowLoadStep ==
  ASSUME IInv, NEW l \in LoadIds, ShowLoad(l)
  PROVE  IInv'
  <1> USE DEF IInv
  <1> DEFINE done == [NotStarted EXCEPT !.st = "done"]
  <1>1. /\ loads[l].st = "reading" /\ loads' = [loads EXCEPT ![l] = done]
        /\ UNCHANGED <<item, live, activated, log, me, call, action, decided>>
    BY DEF ShowLoad, backend
  <1>2. BackendOK' /\ NoneReopened /\ log \subseteq log'
    BY <1>1, BackendKept DEF backend
  <1>3. PageOK'
    BY <1>1, <1>2, PageKept
  <1>4. done \in Load /\ done.st = "done" /\ \A q \in Queries : done.answer[q] = Waiting
    BY DEF NotStarted, Load, Answer, Waiting
  <1> HIDE DEF done
  <1>5. loads \in [LoadIds -> Load]
    BY DEF LoadsOK
  <1>6. loads' \in [LoadIds -> Load] /\ loads'[l] = done /\ \A k \in LoadIds \ {l} : loads'[k] = loads[k]
    BY <1>1, <1>4, <1>5
  <1>7. \A k \in LoadIds : loads'[k].st # "none" <=> loads[k].st # "none"
    BY <1>1, <1>4, <1>6
  <1>8. Newest' = Newest
    BY <1>7 DEF Newest
  <1>9. InOrder(loads', Newest')
    BY <1>7, <1>8 DEF LoadsOK, InOrder
  <1>10. ASSUME NEW q \in Queries
         PROVE  AnswerOK(q, done.answer[q], item') /\ SeesDecided(done.answer[q].rows)'
    <2>1. done.answer[q] = Waiting /\ done.answer[q]' = Waiting
      BY <1>4 DEF done, NotStarted, Waiting
    <2>2. QED
      BY <2>1 DEF AnswerOK, SeesDecided, Waiting
  <1>11. \A k \in LoadIds, q \in Queries : AnswerOK(q, loads'[k].answer[q], item')
    BY <1>1, <1>6, <1>10 DEF LoadsOK
  <1>12. \A k \in LoadIds : k = Newest' => \A q \in Queries : SeesDecided(loads[k].answer[q].rows)'
    BY <1>1, <1>6, <1>8, <1>10 DEF LoadsOK, SeesDecided
  <1>13. LoadsOK'
    BY <1>1, <1>6, <1>9, <1>11, <1>12 DEF LoadsOK
  <1>14. l \in Nat /\ l <= Newest
    BY <1>1 DEF LoadsOK, InOrder, LoadIds
  <1>15. InboxOK'
    <2>1. CASE inbox' = [inbox EXCEPT !.st = "error", !.of = l]
      <3>1. inbox' \in [ st : {"loading", "ready", "error"}, of : Nat, rows : [Items -> Row] ]
        BY <1>14, <2>1 DEF InboxOK
      <3>2. inbox'.st = "error" /\ inbox'.of = l
        BY <2>1 DEF InboxOK
      <3>3. QED
        BY <1>8, <1>14, <3>1, <3>2 DEF InboxOK
    <2>2. CASE inbox' = [ st |-> "ready", of |-> l, rows |-> Fetched(l) ]
      <3>1. Fetched(l) \in [Items -> Row]
        <4>1. Fetched(l) = [x \in Items |-> Fetched(l)[x]]
          BY DEF Fetched
        <4>2. \A x \in Items : Fetched(l)[x] \in Row
          BY FetchedIs
        <4>3. QED
          BY <4>1, <4>2
      <3>2. inbox'.of = l /\ inbox'.rows = Fetched(l)
        BY <2>2
      <3>3. inbox' \in [ st : {"loading", "ready", "error"}, of : Nat, rows : [Items -> Row] ]
        BY <1>14, <2>2, <3>1
      <3>4. l = Newest => \A x \in decided : Fetched(l)[x].status # "pending"
        BY FetchedDecided
      <3>5. QED
        BY <1>1, <1>8, <1>14, <3>2, <3>3, <3>4 DEF InboxOK
    <2>3. QED
      BY <2>1, <2>2 DEF ShowLoad
  <1>16. QED
    BY <1>2, <1>3, <1>13, <1>15

LEMMA ShowActorStep ==
  ASSUME IInv, ShowActor
  PROVE  IInv'
  <1> USE DEF IInv
  <1>1. /\ me' \in {"ready", "error"}
        /\ UNCHANGED <<item, live, activated, log, inbox, loads, call, action, decided>>
    BY DEF ShowActor, backend
  <1>2. BackendOK' /\ NoneReopened
    BY <1>1, BackendKept DEF backend
  <1>3. LoadsOK' /\ InboxOK'
    BY <1>1, <1>2, LoadsKept, InboxKept
  <1>4. PageOK'
    BY <1>1 DEF PageOK
  <1>5. QED
    BY <1>2, <1>3, <1>4

LEMMA RefreshStep ==
  ASSUME IInv, Refresh
  PROVE  IInv'
  <1> USE DEF IInv
  <1>1. /\ StartLoad /\ me' = "loading"
        /\ UNCHANGED <<item, live, activated, log, call, action, decided>>
    BY DEF Refresh, backend
  <1>2. BackendOK'
    BY <1>1, BackendKept DEF backend
  <1>3. LoadsOK' /\ InboxOK'
    BY <1>1, StartLoadOK DEF LoadsOK
  <1>4. PageOK'
    BY <1>1 DEF PageOK
  <1>5. QED
    BY <1>2, <1>3, <1>4

-----------------------------------------------------------------------------
\* The handlers.

LEMMA PostsOK ==
  ASSUME NEW act \in Acts, NEW c \in Posts(act)
  PROVE  CallOK(c) /\ c.st = "sent" /\ c.act = act
  <1>1. \A x \in Items : /\ Post(act, x) \in Call
                         /\ Post(act, x).act = act /\ Post(act, x).on = x
                         /\ Post(act, x).st = "sent"
    BY DEF Post, NoCall, Call, Acts
  <1>2. CASE act = "assign"
    <2>1. PICK x \in Requests, a \in Actors : c = [Post(act, x) EXCEPT !.to = a]
      BY <1>2 DEF Posts
    <2>2. c \in Call /\ c.act = act /\ c.on = x /\ c.st = "sent" /\ c.to = a
      BY <1>1, <2>1 DEF Call, Items
    <2>3. QED
      BY <1>2, <2>1, <2>2 DEF CallOK, Items
  <1>3. CASE act = "activate"
    <2>1. PICK x \in Requests, b \in BOOLEAN : c = [Post(act, x) EXCEPT !.replace = b]
      BY <1>3 DEF Posts
    <2>2. c \in Call /\ c.act = act /\ c.on = x /\ c.st = "sent"
      BY <1>1, <2>1 DEF Call, Items
    <2>3. QED
      BY <1>3, <2>1, <2>2 DEF CallOK, Items
  <1>4. CASE act \in {"approve", "reject"}
    <2>1. PICK x \in Items : c = Post(act, x)
      BY <1>4 DEF Posts
    <2>2. QED
      BY <1>1, <1>4, <2>1 DEF CallOK
  <1>5. QED
    BY <1>2, <1>3, <1>4 DEF Acts

LEMMA SubmitStep ==
  ASSUME IInv, NEW c, CallOK(c), c.st = "sent", Submit(c)
  PROVE  IInv'
  <1> USE DEF IInv
  <1>1. /\ call' = c /\ action' = [ on |-> c.on, act |-> c.act, st |-> "submitting" ]
        /\ UNCHANGED <<item, live, activated, log, me, inbox, loads, decided>>
    BY DEF Submit, backend
  <1>2. BackendOK' /\ NoneReopened
    BY <1>1, BackendKept DEF backend
  <1>3. LoadsOK' /\ InboxOK'
    BY <1>1, <1>2, LoadsKept, InboxKept
  <1>4. c.on \in Items /\ c.act \in Acts
    BY DEF CallOK
  <1>5. PageOK'
    BY <1>1, <1>4 DEF PageOK
  <1>6. QED
    BY <1>2, <1>3, <1>5

\* The buttons send what the backend understands.
Handlers == handlePolicyDecision \/ handleRuntimeAction \/ handleAssign \/ handleActivate

\* A handler sends a POST when no other is in flight, or it reports an error.
LEMMA HandlersSubmit ==
  ASSUME Handlers
  PROVE  /\ action.st # "submitting"
         /\ \/ \E act \in Acts : \E c \in Posts(act) : Submit(c)
            \/ /\ \E x \in Requests : action' = [ on |-> x, act |-> "assign", st |-> "error" ]
               /\ UNCHANGED <<backend, me, inbox, loads, call, decided>>
  <1>1. CASE handlePolicyDecision
    <2>1. PICK x \in Requests, act \in {"approve", "reject"} :
              PolicyDecisionEnabled(x) /\ Submit(Post(act, x))
      BY <1>1 DEF handlePolicyDecision
    <2>2. act \in Acts /\ Post(act, x) \in Posts(act)
      BY DEF Acts, Posts, Items
    <2>3. QED
      BY <2>1, <2>2 DEF PolicyDecisionEnabled, IsSubmitting
  <1>2. CASE handleRuntimeAction
    <2>1. PICK x \in Approvals, act \in {"approve", "reject"} :
              RuntimeDecisionEnabled(x) /\ Submit(Post(act, x))
      BY <1>2 DEF handleRuntimeAction
    <2>2. act \in Acts /\ Post(act, x) \in Posts(act)
      BY DEF Acts, Posts, Items
    <2>3. QED
      BY <2>1, <2>2 DEF RuntimeDecisionEnabled, IsSubmitting
  <1>3. CASE handleAssign
    <2>1. PICK c \in Posts("assign") \cup { Post("assign", x) : x \in Requests } :
              /\ AssignmentEnabled(c.on)
              /\ IF c.to = None
                 THEN /\ action' = [ on |-> c.on, act |-> "assign", st |-> "error" ]
                      /\ UNCHANGED <<backend, me, inbox, loads, call, decided, troubles>>
                 ELSE Submit(c)
      BY <1>3 DEF handleAssign
    <2>2. c.on \in Requests /\ action.st # "submitting"
      BY <2>1 DEF AssignmentEnabled, IsSubmitting
    <2>3. CASE c.to = None
      BY <2>1, <2>2, <2>3
    <2>4. CASE c.to # None
      <3>1. c \in Posts("assign")
        BY <2>1, <2>4 DEF Post, NoCall
      <3>2. QED
        BY <2>1, <2>2, <2>4, <3>1 DEF Acts
    <2>5. QED
      BY <2>3, <2>4
  <1>4. CASE handleActivate
    <2>1. PICK c \in Posts("activate") : ActivateEnabled(c.on) /\ Submit(c)
      BY <1>4 DEF handleActivate
    <2>2. QED
      BY <2>1 DEF ActivateEnabled, IsSubmitting, Acts
  <1>5. QED
    BY <1>1, <1>2, <1>3, <1>4 DEF Handlers

LEMMA HandlersStep ==
  ASSUME IInv, Handlers
  PROVE  IInv'
  <1> USE DEF IInv
  <1>1. CASE \E act \in Acts : \E c \in Posts(act) : Submit(c)
    BY <1>1, PostsOK, SubmitStep
  <1>2. CASE /\ \E x \in Requests : action' = [ on |-> x, act |-> "assign", st |-> "error" ]
             /\ UNCHANGED <<backend, me, inbox, loads, call, decided>>
    <2>1. BackendOK' /\ NoneReopened
      BY <1>2, BackendKept
    <2>2. LoadsOK' /\ InboxOK'
      BY <1>2, <2>1, LoadsKept, InboxKept
    <2>3. action.st # "submitting"
      BY HandlersSubmit
    <2>4. PageOK'
      BY <1>2, <2>3 DEF PageOK, Items, Acts, backend
    <2>5. QED
      BY <2>1, <2>2, <2>4
  <1>3. QED
    BY <1>1, <1>2, HandlersSubmit

LEMMA ServePostStep ==
  ASSUME IInv, ServePost
  PROVE  IInv'
  <1> USE DEF IInv
  <1>1. /\ call.st = "sent" /\ CallOK(call) /\ call.on \in Items /\ call.act \in Acts
        /\ UNCHANGED <<me, inbox, loads, action, decided>>
    BY DEF ServePost, PageOK, CallOK
  <1>2. /\ BackendOK' /\ NoneReopened /\ log \subseteq log'
        /\ \E st \in {"ok", "failed"} : call' = [call EXCEPT !.st = st]
        /\ call'.st = "ok" => /\ [ act |-> call.act, on |-> call.on ] \in log'
                              /\ call.act \in {"approve", "reject"}
                                    => item'[call.on].status # "pending"
    <2>0. call \in Call
      BY <1>1 DEF CallOK
    <2>1. CASE Apply(Me, call)
      <3>1. /\ BackendOK' /\ log \subseteq log'
            /\ \A x \in Items : item'[x].status = "pending" => item[x].status = "pending"
            /\ [ act |-> call.act, on |-> call.on ] \in log'
            /\ call.act \in {"approve", "reject"} => item'[call.on].status # "pending"
        BY <1>1, <2>1, ApplyOK
      <3>2. CASE UNCHANGED backend
        BY <2>0, <3>1 DEF ServePost, NoneReopened
      <3>3. QED
        BY <2>0, <3>1 DEF ServePost, NoneReopened
    <2>2. CASE ~Apply(Me, call)
      <3>1. UNCHANGED backend /\ call' = [call EXCEPT !.st = "failed"]
        BY <2>2 DEF ServePost
      <3>2. call'.st = "failed"
        BY <2>0, <3>1 DEF Call
      <3>3. QED
        BY <3>1, <3>2, BackendKept
    <2>3. QED
      BY <2>1, <2>2
  <1>3. LoadsOK' /\ InboxOK'
    BY <1>1, <1>2, LoadsKept, InboxKept
  <1>4. /\ CallOK(call') /\ call'.st # "none" /\ call'.act = call.act /\ call'.on = call.on
    BY <1>1, <1>2 DEF CallOK, Call
  <1>5. PageOK'
    BY <1>1, <1>2, <1>4 DEF PageOK
  <1>6. QED
    BY <1>2, <1>3, <1>5

LEMMA HandlerResumesStep ==
  ASSUME IInv, HandlerResumes
  PROVE  IInv'
  <1> USE DEF IInv
  <1>1. /\ call.st \in {"ok", "failed"} /\ call' = NoCall
        /\ CallOK(call) /\ call.on \in Items /\ call.act \in Acts
        /\ UNCHANGED <<item, live, activated, log, me>>
    BY DEF HandlerResumes, PageOK, CallOK, backend
  <1>2. BackendOK' /\ NoneReopened
    BY <1>1, BackendKept DEF backend
  <1>3. CASE call.st = "ok"
    <2>1. /\ StartLoad
          /\ decided' = IF call.act \in {"approve", "reject"} THEN decided \cup {call.on} ELSE decided
          /\ action' = [action EXCEPT !.on = call.on, !.act = call.act, !.st = "success"]
      BY <1>3 DEF HandlerResumes, Succeeded, refreshAfterAction
    <2>2. /\ decided' \subseteq Items
          /\ \A x \in decided' : item[x].status # "pending"
      BY <1>1, <1>3, <2>1 DEF LoadsOK, PageOK
    <2>3. LoadsOK' /\ InboxOK'
      BY <1>1, <2>1, <2>2, StartLoadOK
    <2>4. action' = [ on |-> call.on, act |-> call.act, st |-> "success" ]
      BY <2>1 DEF PageOK
    <2>5. CallOK(NoCall) /\ NoCall.st = "none"
      BY DEF CallOK, NoCall, Call
    <2>6. PageOK'
      BY <1>1, <1>3, <2>4, <2>5 DEF PageOK
    <2>7. QED
      BY <1>2, <2>3, <2>6
  <1>4. CASE call.st = "failed"
    <2>1. /\ UNCHANGED <<inbox, loads, decided>>
          /\ action' = [action EXCEPT !.on = call.on, !.act = call.act, !.st = "error"]
      BY <1>4 DEF HandlerResumes, Succeeded
    <2>2. LoadsOK' /\ InboxOK'
      BY <1>2, <2>1, LoadsKept, InboxKept
    <2>3. action' = [ on |-> call.on, act |-> call.act, st |-> "error" ]
      BY <2>1 DEF PageOK
    <2>4. CallOK(NoCall) /\ NoCall.st = "none"
      BY DEF CallOK, NoCall, Call
    <2>5. PageOK'
      BY <1>1, <2>3, <2>4 DEF PageOK
    <2>6. QED
      BY <1>2, <2>2, <2>5
  <1>5. QED
    BY <1>1, <1>3, <1>4

LEMMA ColleagueStep ==
  ASSUME IInv, NEW a \in Colleagues, ColleagueActs(a)
  PROVE  IInv'
  <1> USE DEF IInv
  <1>1. PICK act \in Acts : \E c \in Posts(act) : Apply(a, c) /\ UNCHANGED page
    BY DEF ColleagueActs, Acts
  <1>2. PICK c \in Posts(act) : Apply(a, c) /\ UNCHANGED page
    BY <1>1
  <1>3. CallOK(c) /\ c.st # "none"
    BY PostsOK
  <1>4. /\ BackendOK' /\ NoneReopened /\ log \subseteq log'
    BY <1>2, <1>3, ApplyOK DEF NoneReopened
  <1>5. UNCHANGED <<me, inbox, loads, call, action, decided>>
    BY <1>2 DEF page
  <1>6. LoadsOK' /\ InboxOK' /\ PageOK'
    BY <1>4, <1>5, LoadsKept, InboxKept, PageKept
  <1>7. QED
    BY <1>4, <1>6

-----------------------------------------------------------------------------
\* The inductive invariant.

LEMMA InitOK ==
  ASSUME Init
  PROVE  IInv
  <1>1. item = [ x \in Items |-> [ status |-> "pending", assigned |-> None ] ]
    BY DEF Init
  <1>2. \A x \in Items : item[x] = [ status |-> "pending", assigned |-> None ] /\ item[x] \in Row
    BY <1>1 DEF Row
  <1>3. BackendOK
    BY <1>1, <1>2 DEF Init, BackendOK
  <1>4. PageOK
    BY DEF Init, PageOK, NoCall, CallOK, Call
  <1>5. /\ decided = {}
        /\ loads = [ l \in LoadIds |->
              IF l = 1 THEN [ st |-> "reading", answer |-> [ q \in Queries |-> AnswerTo(q) ] ]
              ELSE NotStarted ]
    BY DEF Init
  <1>6. \A q \in Queries : /\ AnswerTo(q) \in Answer /\ AnswerOK(q, AnswerTo(q), item)
                           /\ SeesDecided(AnswerTo(q).rows)
    BY <1>3, <1>5, AnswerToOK
  <1>7. NotStarted \in Load /\ NotStarted.st = "none" /\ \A q \in Queries : NotStarted.answer[q] = Waiting
    BY DEF NotStarted, Load, Answer, Waiting
  <1>8. 1 \in LoadIds /\ MaxLoads \in Nat
    BY MaxLoadsAssumption DEF LoadIds
  <1>9. /\ loads \in [LoadIds -> Load]
        /\ loads[1].st = "reading" /\ \A q \in Queries : loads[1].answer[q] = AnswerTo(q)
        /\ \A l \in LoadIds \ {1} : loads[l] = NotStarted
    BY <1>5, <1>6, <1>7, <1>8 DEF Load
  <1>10. InOrder(loads, 1)
    <2>1. ASSUME NEW l \in LoadIds
          PROVE  loads[l].st # "none" <=> l <= 1
      BY <1>7, <1>9 DEF LoadIds
    <2>2. 1 \in 0..MaxLoads
      BY MaxLoadsAssumption
    <2>3. QED
      BY <2>1, <2>2 DEF InOrder
  <1>11. Newest = 1
    BY <1>8, <1>10, NewestIs DEF Newest
  <1>12. ASSUME NEW l \in LoadIds, NEW q \in Queries
         PROVE  AnswerOK(q, loads[l].answer[q], item)
    <2>1. AnswerOK(q, Waiting, item)
      BY DEF AnswerOK, Waiting
    <2>2. QED
      BY <1>6, <1>7, <1>9, <2>1
  <1>13. LoadsOK
    BY <1>5, <1>6, <1>9, <1>10, <1>11, <1>12 DEF LoadsOK
  <1>14. InboxOK
    <2>1. inbox = [ st |-> "loading", of |-> 0, rows |-> [ x \in Items |-> Unlisted ] ]
      BY DEF Init
    <2>2. QED
      BY <1>11, <2>1 DEF InboxOK, Unlisted, Row
  <1>15. QED
    BY <1>3, <1>4, <1>13, <1>14 DEF IInv

LEMMA NextOK ==
  ASSUME IInv, [Next]_vars
  PROVE  IInv'
  <1>1. CASE Loading
    BY <1>1, AnswerQueryStep, FailQueryStep, ShowLoadStep DEF Loading
  <1>2. CASE ShowActor
    BY <1>2, ShowActorStep
  <1>3. CASE ServePost
    BY <1>3, ServePostStep
  <1>4. CASE HandlerResumes
    BY <1>4, HandlerResumesStep
  <1>5. CASE Handlers
    BY <1>5, HandlersStep
  <1>6. CASE Refresh
    BY <1>6, RefreshStep
  <1>7. CASE \E a \in Colleagues : ColleagueActs(a)
    BY <1>7, ColleagueStep
  <1>8. CASE UNCHANGED vars
    <2>1. /\ UNCHANGED backend
          /\ UNCHANGED <<me, inbox, loads, call, action, decided>>
      BY <1>8 DEF vars, backend
    <2>2. BackendOK' /\ NoneReopened /\ log \subseteq log'
      BY <2>1, BackendKept DEF IInv
    <2>3. QED
      BY <2>1, <2>2, PageKept, LoadsKept, InboxKept DEF IInv
  <1>9. QED
    BY <1>1, <1>2, <1>3, <1>4, <1>5, <1>6, <1>7, <1>8 DEF Next, Answers, Clicks, Handlers

LEMMA Invariant == Spec => []IInv
  <1>1. Init => IInv
    BY InitOK
  <1>2. IInv /\ [Next]_vars => IInv'
    BY NextOK
  <1>3. QED
    BY <1>1, <1>2, PTL DEF Spec

-----------------------------------------------------------------------------
\* The page and the backend keep their types.
THEOREM TypeCorrect == Spec => []TypeOK
  <1>1. IInv => TypeOK
    <2> SUFFICES ASSUME IInv
                 PROVE  TypeOK
      OBVIOUS
    <2>1. inbox.st \in {"loading", "ready", "error"} /\ inbox.of \in 0..Newest
      BY NewestTyped DEF IInv, InboxOK
    <2>2. \A l \in LoadIds : loads[l].st \in {"none", "reading", "done"}
      BY DEF IInv, LoadsOK, Load
    <2>3. call.st \in {"none", "sent", "ok", "failed"} /\ call.on \in Items \cup {None}
      BY DEF IInv, PageOK, CallOK, Call
    <2>4. QED
      BY <2>1, <2>2, <2>3 DEF IInv, BackendOK, PageOK, LoadsOK, InboxOK, TypeOK, Acts
  <1>2. QED
    BY <1>1, Invariant, PTL

\* A success is shown only for what the backend has accepted from this reviewer,
\* whatever request of the page is lost and whoever else works on the item.
THEOREM SuccessWasRecorded == Spec => []SuccessIsRecorded
  <1>1. IInv => SuccessIsRecorded
    BY DEF IInv, PageOK, SuccessIsRecorded
  <1>2. QED
    BY <1>1, Invariant, PTL

\* The newest load never offers what this reviewer was told to have decided.
THEOREM DecisionsAreShown == Spec => []OwnDecisionIsShown
  <1>1. IInv => OwnDecisionIsShown
    BY DEF IInv, InboxOK, OwnDecisionIsShown
  <1>2. QED
    BY <1>1, Invariant, PTL

\* "Mine" holds what the buttons let this reviewer decide, once nothing is in flight.
THEOREM MineIsExact == Spec => []MineIsWhatICanDecide
  <1>1. IInv => MineIsWhatICanDecide
    <2> SUFFICES ASSUME IInv, NEW x \in Items, Listed(x), call.st = "none"
                 PROVE  Tab(x) = "mine" <=> PolicyDecisionEnabled(x) \/ RuntimeDecisionEnabled(x)
      BY DEF MineIsWhatICanDecide
    <2>1. ~IsSubmitting(x)
      BY DEF IInv, PageOK, IsSubmitting
    <2>2. inbox.rows[x].status \in {"pending", "approved", "rejected"}
      BY DEF IInv, InboxOK, Listed, Row
    <2>3. CASE x \in Requests
      <3>1. x \notin Approvals
        BY <2>3, ItemsAssumption
      <3>2. Tab(x) = "mine" <=> /\ inbox.rows[x].status = "pending"
                                /\ policyReviewDecisionAccess(inbox.rows[x])
        <4>1. CASE policyReviewDecisionAccess(inbox.rows[x])
          BY <2>2, <2>3, <4>1 DEF Tab
        <4>2. CASE ~policyReviewDecisionAccess(inbox.rows[x])
          BY <2>2, <2>3, <4>2 DEF Tab
        <4>3. QED
          BY <4>1, <4>2
      <3>3. QED
        BY <2>1, <2>3, <3>1, <3>2 DEF PolicyDecisionEnabled, RuntimeDecisionEnabled
    <2>4. CASE x \in Approvals
      <3>1. x \notin Requests
        BY <2>4, ItemsAssumption
      <3>2. Tab(x) = "mine" <=> inbox.rows[x].status = "pending" /\ policyReviewRoleAccess
        <4>1. CASE policyReviewRoleAccess
          BY <2>2, <3>1, <4>1 DEF Tab
        <4>2. CASE ~policyReviewRoleAccess
          BY <2>2, <3>1, <4>2 DEF Tab
        <4>3. QED
          BY <4>1, <4>2
      <3>3. QED
        BY <2>1, <2>4, <3>1, <3>2 DEF PolicyDecisionEnabled, RuntimeDecisionEnabled
    <2>5. QED
      BY <2>3, <2>4 DEF Items
  <1>2. QED
    BY <1>1, Invariant, PTL

\* No second decision, assignment or activation is sent while one is in flight.
THEOREM OneCallIsSent == Spec => OneCallAtATime
  <1>1. IInv /\ [Next]_vars => [ call.st # "none" /\ call'.st # "none" =>
                                    call'.on = call.on /\ call'.act = call.act ]_vars
    <2> SUFFICES ASSUME IInv, [Next]_vars, call.st # "none", call'.st # "none"
                 PROVE  call'.on = call.on /\ call'.act = call.act
      OBVIOUS
    <2>1. action.st = "submitting" /\ call \in Call
      BY DEF IInv, PageOK, CallOK
    <2>2. CASE Handlers
      <3>1. UNCHANGED call
        BY <2>1, <2>2, HandlersSubmit
      <3>2. QED
        BY <3>1
    <2>3. CASE ServePost
      BY <2>1, <2>3 DEF ServePost, Call
    <2>4. CASE HandlerResumes
      BY <2>4 DEF HandlerResumes, NoCall
    <2>5. CASE Loading \/ ShowActor \/ Refresh \/ (\E a \in Colleagues : ColleagueActs(a)) \/ UNCHANGED vars
      <3>1. UNCHANGED call
        BY <2>5 DEF Loading, ShowLoad, AnswerQuery, FailQuery, ShowActor, Refresh, ColleagueActs,
                    page, vars
      <3>2. QED
        BY <3>1
    <2>6. QED
      BY <2>2, <2>3, <2>4, <2>5 DEF Next, Answers, Clicks, Handlers
  <1>2. QED
    BY <1>1, Invariant, PTL DEF Spec, OneCallAtATime

\* A load ends only when it is shown.
LEMMA LoadEnds ==
  ASSUME IInv, [Next]_vars, NEW l \in LoadIds, loads[l].st = "reading", loads'[l].st = "done"
  PROVE  ShowLoad(l)
  <1>0. loads \in [LoadIds -> Load]
    BY DEF IInv, LoadsOK
  <1>1. CASE Loading
    <2>1. PICK k \in LoadIds : ShowLoad(k) \/ \E q \in Queries : AnswerQuery(k, q) \/ FailQuery(k, q)
      BY <1>1 DEF Loading
    <2>2. CASE ShowLoad(k)
      BY <1>0, <2>2 DEF ShowLoad
    <2>3. ASSUME NEW q \in Queries, AnswerQuery(k, q) \/ FailQuery(k, q)
          PROVE  FALSE
      <3>1. loads'[l].st = loads[l].st
        BY <1>0, <2>3 DEF AnswerQuery, FailQuery, Load
      <3>2. QED
        BY <3>1
    <2>4. QED
      BY <2>1, <2>2, <2>3
  <1>2. CASE StartLoad
    <2>1. loads'[l].st \in {loads[l].st, "reading"}
      BY <1>0, <1>2 DEF StartLoad
    <2>2. QED
      BY <2>1
  <1>3. CASE UNCHANGED loads
    BY <1>3
  <1>4. UNCHANGED loads \/ StartLoad \/ Loading
    <2>1. CASE Handlers
      BY <2>1, HandlersSubmit DEF Submit
    <2>2. CASE HandlerResumes
      BY <2>2 DEF HandlerResumes, refreshAfterAction
    <2>3. CASE \/ ShowActor \/ ServePost \/ Refresh \/ UNCHANGED vars
               \/ \E a \in Colleagues : ColleagueActs(a)
      BY <2>3 DEF ShowActor, ServePost, Refresh, ColleagueActs, page, vars
    <2>4. QED
      BY <2>1, <2>2, <2>3 DEF Next, Answers, Clicks, Handlers
  <1>5. QED
    BY <1>1, <1>2, <1>3, <1>4

\* A load without failures lists every item that is pending when it is shown, and
\* shows no item as pending that any of its answers saw decided.
THEOREM LoadsShowTheLatest == Spec => LoadShowsLatestSeen
  <1>1. ASSUME IInv, [Next]_vars, NEW l \in LoadIds, loads[l].st = "reading", loads'[l].st = "done",
               inbox'.st = "ready", NEW x \in Items
        PROVE  /\ ~Failed(l) /\ item[x].status = "pending" => inbox'.rows[x].status = "pending"
               /\ (\E q \in Queries : \E p \in Rows(l, q) : p[1] = x /\ p[2].status # "pending")
                     => inbox'.rows[x].status # "pending"
    <2>0. LoadsOK /\ InboxOK
      BY <1>1 DEF IInv
    <2>1. ShowLoad(l)
      BY <1>1, LoadEnds
    <2>2. inbox'.rows = Fetched(l)
      <3>1. [inbox EXCEPT !.st = "error", !.of = l].st = "error"
        BY <2>0 DEF InboxOK
      <3>2. \/ inbox' = [inbox EXCEPT !.st = "error", !.of = l]
            \/ inbox' = [ st |-> "ready", of |-> l, rows |-> Fetched(l) ]
        BY <2>1 DEF ShowLoad
      <3>3. inbox' # [inbox EXCEPT !.st = "error", !.of = l]
        BY <1>1, <3>1
      <3>4. inbox' = [ st |-> "ready", of |-> l, rows |-> Fetched(l) ]
        BY <3>2, <3>3
      <3>5. QED
        BY <3>4
    <2>3. ASSUME ~Failed(l), item[x].status = "pending"
          PROVE  Fetched(l)[x].status = "pending"
      <3>1. \A q \in Queries : loads[l].answer[q].st = "ok"
        <4>1. ASSUME NEW q \in Queries
              PROVE  loads[l].answer[q].st = "ok"
          <5>1. loads[l].answer[q] \in Answer /\ AnswerOK(q, loads[l].answer[q], item)
            BY <2>0 DEF LoadsOK, Load
          <5>2. loads[l].answer[q] # Waiting /\ loads[l].answer[q].st # "failed"
            BY <2>1, <2>3 DEF ShowLoad, Failed
          <5>3. CASE loads[l].answer[q].st = "sent"
            BY <5>1, <5>2, <5>3 DEF Answer, AnswerOK, Waiting
          <5>4. QED
            BY <5>1, <5>2, <5>3 DEF Answer
        <4>2. QED
          BY <4>1
      <3>2. \E q \in Queries : \E p : RowOf(l, q, p, x)
        <4>1. PICK q \in {"approvals", "pending"} : x \in About(q)
          BY DEF About, Items
        <4>2. q \in Queries
          BY QueriesAre
        <4>3. \E p \in loads[l].answer[q].rows : p[1] = x
          BY <2>0, <2>3, <3>1, <4>1, <4>2 DEF LoadsOK, AnswerOK
        <4>4. QED
          BY <4>2, <4>3 DEF RowOf, Rows
      <3>6. PICK q \in Queries : \E p : RowOf(l, q, p, x) /\ p[2] = Fetched(l)[x]
        BY <2>0, <3>2, FetchedIs
      <3>3. PICK p : RowOf(l, q, p, x) /\ p[2] = Fetched(l)[x]
        BY <3>6
      <3>4. p[2].status # "pending" => item[x].status # "pending"
        BY <2>0, <3>3 DEF LoadsOK, AnswerOK, RowOf, Rows
      <3>5. QED
        BY <2>3, <3>3, <3>4
    <2>4. ASSUME NEW q \in Queries, NEW p \in Rows(l, q), p[1] = x, p[2].status # "pending"
          PROVE  Fetched(l)[x].status # "pending"
      BY <2>0, <2>4, FetchedIs DEF RowOf
    <2>5. QED
      BY <2>2, <2>3, <2>4
  <1>2. IInv /\ [Next]_vars =>
          [ \A l \in LoadIds : loads[l].st = "reading" /\ loads'[l].st = "done" /\ inbox'.st = "ready" =>
              \A x \in Items :
                /\ ~Failed(l) /\ item[x].status = "pending" => inbox'.rows[x].status = "pending"
                /\ (\E q \in Queries : \E p \in Rows(l, q) : p[1] = x /\ p[2].status # "pending")
                      => inbox'.rows[x].status # "pending" ]_vars
    BY <1>1
  <1>3. QED
    BY <1>2, Invariant, PTL DEF Spec, LoadShowsLatestSeen
=============================================================================

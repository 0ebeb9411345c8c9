------------------------- MODULE PolicyStudioProofs -------------------------
(***************************************************************************)
(* Proofs about PolicyStudio, for any policies, versions, saves in flight  *)
(* and texts.                                                              *)
(*                                                                         *)
(* The inductive invariant says what the backend keeps (a version has the  *)
(* policy it was made for, which exists, and has had the text it has), and *)
(* what the page and its requests in flight know of it.  Versions change   *)
(* their state and their text, but never their policy, and they do not     *)
(* vanish; so what was read of them is old, and still says whose they are. *)
(***************************************************************************)
EXTENDS PolicyStudio, WellFoundedInduction, TLAPS

Policy == Policies \cup {None}
Version == VersionIds \cup {None}

Answer == [ latest : Version, active : Version, some : BOOLEAN, text : Texts, checks : BOOLEAN ]

Load == [ st : {"none", "sent", "got", "rules", "checks"}, policy : Policy,
          hydrate : BOOLEAN, got : Answer ]

List == [ st : {"ready", "loading", "error"}, known : SUBSET Policies, old : SUBSET Policies ]

ShownVersions == [ st : {"idle", "loading", "ready", "error"}, latest : Version,
                   some : BOOLEAN, active : BOOLEAN ]

Source == [ kind : {"local_draft", "draft_version", "active_version", "live_fallback"},
            id : Version ]

Page == [ list : List, sel : Policy, versions : ShownVersions, draft : Version,
          text : Texts, checks : BOOLEAN, source : Source,
          save : {"unsaved", "saving", "saved", "save_error"},
          submit : {"idle", "submitting", "success", "error"},
          dirty : BOOLEAN, preserve : Policy, saved : Policy,
          review : [ on : Version, status : {"none", "pending", "open", "closed"} ],
          asking : Version, load : Load ]

Call == [ st : {"none", "creating", "sending", "ok", "failed", "reload", "reloaded"},
          policy : Policy, old : BOOLEAN, on : Version, text : Texts, checks : BOOLEAN,
          renewed : BOOLEAN, got : Answer ]

\* A version that is there has a policy, which exists, and its text is on record.
BackendOK ==
    /\ archived \subseteq exists /\ exists \subseteq Policies
    /\ vers \in [VersionIds -> Versions]
    /\ stored \in [VersionIds -> SUBSET Texts]
    /\ \A v \in VersionIds :
         IF vers[v].st = "none" THEN vers[v].policy = None
         ELSE vers[v].policy \in exists /\ vers[v].text \in stored[v]

\* The text of an answer is one that the version it is shown for has had.
GotOK(got, texts) ==
    /\ got.latest # None => got.text \in texts[got.latest]
    /\ got.latest = None /\ got.active # None => got.text \in texts[got.active]

\* The text in the editor, where it counts as saved.
EditorOK(u, texts) == u.save = "saved" /\ u.source.id # None => u.text \in texts[u.source.id]

\* A load of versions is one for the policy that is selected.
LoadOf(u, p) == u.load.st # "none" => u.load.policy = p /\ p # None

\* Page u, with p selected, fits what the versions have had.
Fits(u, p, texts) ==
    u \in Page /\ LoadOf(u, p) /\ GotOK(u.load.got, texts) /\ EditorOK(u, texts)

PageOK == Fits(ui, selectedPolicy(ui), stored)

\* Save r writes the policy it was clicked for, and its answer names what was stored.
SaveOK(r, vs, texts) ==
    /\ r.st = "creating" => r.on = None
    /\ r.st \in {"creating", "sending", "ok", "failed"} /\ r.on # None =>
         vs[r.on].policy = r.policy /\ vs[r.on].st # "none"
    /\ r.st = "ok" => r.on # None /\ r.text \in texts[r.on]

SavesOK(cs, vs, texts) == cs \in [CallIds -> Call] /\ \A c \in CallIds : SaveOK(cs[c], vs, texts)

RequestsOK ==
    /\ filing \in [ st : {"none", "sent", "ok", "conflict", "failed", "reload"}, on : Version ]
    /\ filing.st # "none" => filing.on # None
    /\ removal \in [ st : {"none", "sent", "ok", "failed"},
                     act : {"none", "delete", "archive", "move"}, policy : Policy ]
    /\ removal.st # "none" => removal.policy # None
    /\ refresh \in [ st : {"none", "sent", "got"}, known : SUBSET Policies, old : SUBSET Policies ]

\* What was typed while versions are loading will not be replaced by them.
TypedOK ==
    typed => \/ ui.list.st # "ready"
             \/ LoadingVersions /\ (ui.dirty \/ ui.saved = ui.load.policy \/ ~ui.load.hydrate)

IInv == BackendOK /\ PageOK /\ SavesOK(calls, vers, stored) /\ RequestsOK /\ TypedOK

-----------------------------------------------------------------------------
\* The page's operators.

LEMMA Constants ==
  /\ None \notin Policies /\ None \notin VersionIds
  /\ NoAnswer \in Answer /\ NoLoad \in Load /\ NoCall \in Call
  /\ NoLoad.st = "none" /\ NoLoad.policy = None /\ NoLoad.got = NoAnswer
  /\ NoAnswer.latest = None /\ NoAnswer.active = None
  /\ Local \in Source /\ Local.id = None
  <1>1. None \notin Policies /\ None \notin VersionIds
    BY PoliciesAssumption
  <1>2. NoAnswer \in Answer /\ NoAnswer.latest = None /\ NoAnswer.active = None
    BY DEF NoAnswer, Answer, Version, Texts
  <1>3. NoLoad \in Load /\ NoLoad.st = "none" /\ NoLoad.policy = None /\ NoLoad.got = NoAnswer
    BY <1>2 DEF NoLoad, Load, Policy
  <1>4. NoCall \in Call
    BY <1>2 DEF NoCall, Call, Policy, Version, Texts
  <1>5. Local \in Source /\ Local.id = None
    BY DEF Local, Source, Version
  <1>6. QED
    BY <1>1, <1>2, <1>3, <1>4, <1>5

LEMMA SelectedPolicy ==
  ASSUME NEW u \in Page
  PROVE  /\ selectedPolicy(u) \in Policy
         /\ selectedPolicy(u) # None => selectedPolicy(u) = u.sel /\ u.list.st = "ready"
         /\ u.list.st # "ready" => selectedPolicy(u) = None
  BY DEF selectedPolicy, Page, List, Policy

LEMMA SelectedDraft ==
  ASSUME NEW u \in Page
  PROVE  selectedDraftVersion(u) \in Version
  BY DEF selectedDraftVersion, Page, ShownVersions

\* The load that the effect on the policy starts.
Fresh(u) == [NoLoad EXCEPT !.st = "sent", !.policy = selectedPolicy(u),
                           !.hydrate = u.preserve # selectedPolicy(u)]

LEMMA FreshIs ==
  ASSUME NEW u \in Page
  PROVE  /\ Fresh(u) \in Load /\ Fresh(u).st = "sent" /\ Fresh(u).policy = selectedPolicy(u)
         /\ Fresh(u).got = NoAnswer
         /\ u.preserve = selectedPolicy(u) => ~Fresh(u).hydrate
  <1>1. (u.preserve # selectedPolicy(u)) \in BOOLEAN
    OBVIOUS
  <1>2. QED
    BY <1>1, Constants, SelectedPolicy DEF Fresh, NoLoad, Load

\* What the effect on the policy leaves alone, and what it starts.
LEMMA PolicyEffectIs ==
  ASSUME NEW u \in Page
  PROVE  LET r == PolicyEffect(u) IN
         /\ r \in Page
         /\ r.list = u.list /\ r.sel = u.sel /\ r.text = u.text /\ r.save = u.save
         /\ r.saved = u.saved
         /\ IF selectedPolicy(u) = None
            THEN r.source = Local /\ r.load = NoLoad
            ELSE r.source = u.source /\ r.checks = u.checks /\ r.load = Fresh(u)
  <1> DEFINE r == PolicyEffect(u)
  <1>1. CASE selectedPolicy(u) = None
    <2>1. r = [u EXCEPT !.versions = NoVersions("idle"), !.draft = None, !.source = Local,
                        !.checks = FALSE, !.review = NoReview, !.load = NoLoad]
      BY <1>1 DEF PolicyEffect
    <2>2. NoVersions("idle") \in ShownVersions
      BY DEF NoVersions, ShownVersions, Version
    <2>3. NoReview \in [ on : Version, status : {"none", "pending", "open", "closed"} ]
      BY DEF NoReview, Version
    <2>4. None \in Version
      BY DEF Version
    <2>5. r \in Page
      BY <2>1, <2>2, <2>3, <2>4, Constants, ZenonT(60) DEF Page
    <2>6. /\ r.list = u.list /\ r.sel = u.sel /\ r.text = u.text /\ r.save = u.save
          /\ r.saved = u.saved /\ r.source = Local /\ r.load = NoLoad
      BY <2>1 DEF Page
    <2>7. QED
      BY <1>1, <2>5, <2>6
  <1>2. CASE selectedPolicy(u) # None
    <2> DEFINE kept == IF u.preserve # selectedPolicy(u) THEN u.preserve ELSE None
    <2>1. r = [u EXCEPT !.preserve = kept, !.dirty = FALSE,
                        !.versions = NoVersions("loading"), !.load = Fresh(u)]
      BY <1>2 DEF PolicyEffect, Fresh
    <2>2. NoVersions("loading") \in ShownVersions
      BY DEF NoVersions, ShownVersions, Version
    <2>3. kept \in Policy
      BY DEF Page, Policy
    <2>4. Fresh(u) \in Load
      BY FreshIs
    <2> HIDE DEF kept
    <2>5. r \in Page
      BY <2>1, <2>2, <2>3, <2>4 DEF Page
    <2>6. /\ r.list = u.list /\ r.sel = u.sel /\ r.text = u.text /\ r.save = u.save
          /\ r.saved = u.saved /\ r.source = u.source /\ r.checks = u.checks
          /\ r.load = Fresh(u)
      BY <2>1 DEF Page
    <2>7. QED
      BY <1>2, <2>5, <2>6
  <1>3. QED
    BY <1>1, <1>2

LEMMA DraftEffectIs ==
  ASSUME NEW u \in Page
  PROVE  LET r == DraftEffect(u) IN
         /\ r \in Page
         /\ r.list = u.list /\ r.sel = u.sel /\ r.text = u.text /\ r.save = u.save
         /\ r.saved = u.saved /\ r.source = u.source /\ r.checks = u.checks
         /\ r.dirty = u.dirty /\ r.load = u.load
  <1>1. NoReview \in [ on : Version, status : {"none", "pending", "open", "closed"} ]
    BY DEF NoReview, Version
  <1>2. QED
    BY <1>1, SelectedDraft DEF DraftEffect, Page

\* A render changes the editor only when its policy is gone, and starts to load the
\* versions of a policy that has come up.
LEMMA RenderedIs ==
  ASSUME NEW u \in Page, NEW b \in BOOLEAN, NEW d \in BOOLEAN
  PROVE  LET r == Rendered(u, b, d) IN
         /\ r \in Page
         /\ r.list = u.list /\ r.sel = u.sel /\ r.text = u.text /\ r.save = u.save
         /\ r.saved = u.saved
         /\ IF b \/ selectedPolicy(u) # selectedPolicy(ui)
            THEN IF selectedPolicy(u) = None
                 THEN r.source = Local /\ r.load = NoLoad
                 ELSE r.source = u.source /\ r.checks = u.checks /\ r.load = Fresh(u)
            ELSE /\ r.source = u.source /\ r.checks = u.checks /\ r.dirty = u.dirty
                 /\ r.load = u.load
  <1> DEFINE v == IF b \/ selectedPolicy(u) # selectedPolicy(ui) THEN PolicyEffect(u) ELSE u
  <1>1. /\ v \in Page
        /\ v.list = u.list /\ v.sel = u.sel /\ v.text = u.text /\ v.save = u.save
        /\ v.saved = u.saved
        /\ IF b \/ selectedPolicy(u) # selectedPolicy(ui)
           THEN IF selectedPolicy(u) = None
                THEN v.source = Local /\ v.load = NoLoad
                ELSE v.source = u.source /\ v.checks = u.checks /\ v.load = Fresh(u)
           ELSE /\ v.source = u.source /\ v.checks = u.checks /\ v.dirty = u.dirty
                /\ v.load = u.load
    BY PolicyEffectIs
  <1>2. \/ Rendered(u, b, d) = v
        \/ Rendered(u, b, d) = DraftEffect(v)
    BY DEF Rendered
  <1> HIDE DEF v
  <1>3. CASE Rendered(u, b, d) = v
    BY <1>1, <1>3
  <1>4. CASE Rendered(u, b, d) = DraftEffect(v)
    BY <1>1, <1>4, DraftEffectIs
  <1>5. QED
    BY <1>2, <1>3, <1>4

LEMMA RenderedOK ==
  ASSUME NEW u, NEW b \in BOOLEAN, NEW d \in BOOLEAN, NEW texts,
         Fits(u, selectedPolicy(ui), texts)
  PROVE  Fits(Rendered(u, b, d), selectedPolicy(Rendered(u, b, d)), texts)
  <1> DEFINE r == Rendered(u, b, d)
  <1>0. u \in Page /\ GotOK(NoAnswer, texts)
    BY Constants DEF Fits, GotOK
  <1>1. /\ r \in Page
        /\ r.list = u.list /\ r.sel = u.sel /\ r.text = u.text /\ r.save = u.save
        /\ IF b \/ selectedPolicy(u) # selectedPolicy(ui)
           THEN IF selectedPolicy(u) = None
                THEN r.source = Local /\ r.load = NoLoad
                ELSE r.source = u.source /\ r.load = Fresh(u)
           ELSE r.source = u.source /\ r.load = u.load
    BY <1>0, RenderedIs
  <1> HIDE DEF r
  <1>2. selectedPolicy(r) = selectedPolicy(u)
    BY <1>1 DEF selectedPolicy
  <1>3. EditorOK(r, texts)
    BY <1>1, Constants DEF Fits, EditorOK
  <1>4. GotOK(r.load.got, texts)
    BY <1>0, <1>1, Constants, FreshIs DEF Fits
  <1>5. LoadOf(r, selectedPolicy(r))
    BY <1>0, <1>1, <1>2, Constants, FreshIs DEF Fits, LoadOf
  <1>6. QED
    BY <1>1, <1>3, <1>4, <1>5 DEF Fits, r

LEMMA HydratedIs ==
  ASSUME NEW u \in Page, NEW kind, NEW v, [ kind |-> kind, id |-> v ] \in Source,
         NEW text \in Texts, NEW checks \in BOOLEAN
  PROVE  LET r == Hydrated(u, kind, v, text, checks) IN
         /\ r \in Page
         /\ r.list = u.list /\ r.sel = u.sel /\ r.text = text /\ r.save = "saved"
         /\ r.source.id = v /\ r.load = u.load /\ r.saved = u.saved /\ r.preserve = u.preserve
  <1> DEFINE r == Hydrated(u, kind, v, text, checks)
  <1>2. r \in Page
    BY DEF Hydrated, Page
  <1>3. /\ r.list = u.list /\ r.sel = u.sel /\ r.text = text /\ r.save = "saved"
        /\ r.source = [ kind |-> kind, id |-> v ] /\ r.load = u.load
        /\ r.saved = u.saved /\ r.preserve = u.preserve
    BY DEF Hydrated, Page
  <1>4. QED
    BY <1>2, <1>3

LEMMA LeastNatural ==
  ASSUME NEW T \in SUBSET Nat, T # {}
  PROVE  \E n \in T : \A m \in T : n <= m
  <1>1. PICK n \in T : \A m \in T : ~ (<<m, n>> \in OpToRel(<, Nat))
    BY NatLessThanWellFounded, WFMin
  <1>2. \A m \in T : ~ (m < n)
    BY <1>1 DEF OpToRel
  <1>3. \A m \in T : n <= m
    BY <1>2
  <1>4. QED
    BY <1>3

\* Among some versions one is the newest.
LEMMA GreatestVersion ==
  ASSUME NEW S \in SUBSET VersionIds, S # {}
  PROVE  \E v \in S : \A w \in S : w <= v
  <1> DEFINE T == { MaxVersions - v : v \in S }
  <1>1. \A v \in S : v \in Nat /\ MaxVersions - v \in Nat
    BY BoundAssumption DEF VersionIds
  <1>2. T \in SUBSET Nat /\ T # {}
    BY <1>1
  <1>3. PICK n \in T : \A m \in T : n <= m
    <2> HIDE DEF T
    <2>1. QED
      BY <1>2, LeastNatural
  <1>4. PICK v \in S : n = MaxVersions - v
    BY <1>3
  <1>5. ASSUME NEW w \in S
        PROVE  w <= v
    <2>1. MaxVersions - w \in T
      OBVIOUS
    <2>2. MaxVersions - v <= MaxVersions - w
      BY <1>3, <1>4, <2>1
    <2>3. QED
      BY <1>1, <2>2, BoundAssumption
  <1>6. QED
    BY <1>5

\* What the backend answers about the versions of a policy.
LEMMA NewestIs ==
  ASSUME NEW p, NEW sts
  PROVE  /\ Newest(p, sts) \in Version
         /\ Newest(p, sts) # None =>
              /\ Newest(p, sts) \in VersionIds
              /\ vers[Newest(p, sts)].policy = p /\ vers[Newest(p, sts)].st \in sts
  <1> DEFINE S == { v \in VersionIds : vers[v].policy = p /\ vers[v].st \in sts }
             newest == CHOOSE v \in S : \A w \in S : w <= v
  <1>1. Newest(p, sts) = IF S = {} THEN None ELSE newest
    BY DEF Newest
  <1>2. CASE S = {}
    BY <1>1, <1>2 DEF Version
  <1>3. CASE S # {}
    <2>1. \E v \in S : \A w \in S : w <= v
      BY <1>3, GreatestVersion
    <2>2. newest \in S
      BY <2>1
    <2>3. QED
      BY <1>1, <1>3, <2>2 DEF Version
  <1>4. QED
    BY <1>2, <1>3

LEMMA VersionsOfOK ==
  ASSUME BackendOK, NEW p
  PROVE  VersionsOf(p) \in Answer /\ GotOK(VersionsOf(p), stored)
  <1> DEFINE latest == Newest(p, {"draft", "pending"})
             active == Newest(p, {"active"})
             shown == IF latest # None THEN latest ELSE active
             some == \E v \in VersionIds : vers[v].policy = p
             text == IF shown = None THEN "new" ELSE vers[shown].text
             checks == shown # None /\ vers[shown].checks
  <1>1. VersionsOf(p) = [ latest |-> latest, active |-> active, some |-> some,
                          text |-> text, checks |-> checks ]
    BY DEF VersionsOf
  <1>2. /\ latest \in Version /\ (latest # None => latest \in VersionIds /\ vers[latest].st # "none")
        /\ active \in Version /\ (active # None => active \in VersionIds /\ vers[active].st # "none")
    BY NewestIs
  <1> HIDE DEF latest, active
  <1>3. shown # None => shown \in VersionIds /\ vers[shown] \in Versions /\ vers[shown].text \in stored[shown]
    BY <1>2 DEF BackendOK
  <1>4. text \in Texts /\ (shown # None => text \in stored[shown])
    BY <1>3 DEF Texts, Versions
  <1>5. some \in BOOLEAN /\ checks \in BOOLEAN
    OBVIOUS
  <1> HIDE DEF some, checks, text
  <1>6. VersionsOf(p) \in Answer
    BY <1>1, <1>2, <1>4, <1>5 DEF Answer
  <1>7. GotOK(VersionsOf(p), stored)
    <2>1. VersionsOf(p).latest = latest /\ VersionsOf(p).active = active /\ VersionsOf(p).text = text
      BY <1>1
    <2>2. QED
      BY <1>4, <2>1 DEF GotOK
  <1>8. QED
    BY <1>6, <1>7

\* The policy that is selected when none is: the first of those there are.
LEMMA OldestIs ==
  ASSUME NEW S \in SUBSET Policies, S # {}
  PROVE  Oldest(S) \in S
  <1> DEFINE T == { i \in DOMAIN PolicyOrder : PolicyOrder[i] \in S }
             first == CHOOSE i \in DOMAIN PolicyOrder :
                        PolicyOrder[i] \in S /\ \A j \in 1..(i - 1) : PolicyOrder[j] \notin S
  <1>1. DOMAIN PolicyOrder = 1..Len(PolicyOrder) /\ Len(PolicyOrder) \in Nat
    BY PoliciesAssumption
  <1>2. T \in SUBSET Nat
    BY <1>1
  <1>3. T # {}
    BY DEF Policies, ToSet
  <1>4. PICK i \in T : \A j \in T : i <= j
    <2> HIDE DEF T
    <2>1. QED
      BY <1>2, <1>3, LeastNatural
  <1>5. \A j \in 1..(i - 1) : PolicyOrder[j] \notin S
    <2>1. ASSUME NEW j \in 1..(i - 1), PolicyOrder[j] \in S
          PROVE  FALSE
      <3>1. i \in Nat /\ i <= Len(PolicyOrder)
        BY <1>1
      <3>2. j \in DOMAIN PolicyOrder /\ j < i /\ j \in Nat
        BY <1>1, <3>1
      <3>3. j \in T
        BY <2>1, <3>2
      <3>4. QED
        BY <1>4, <3>1, <3>2, <3>3
    <2>2. QED
      BY <2>1
  <1>6. first \in DOMAIN PolicyOrder /\ PolicyOrder[first] \in S
    BY <1>5
  <1>7. QED
    BY <1>6 DEF Oldest

-----------------------------------------------------------------------------
\* What a step leaves alone.

\* Versions do not vanish or change their policy, and what was stored is on record.
Grows(vs, ws, texts, more) ==
    \A v \in VersionIds :
      /\ vs[v].st # "none" => ws[v].st # "none" /\ ws[v].policy = vs[v].policy
      /\ texts[v] \subseteq more[v]

LEMMA SaveKept ==
  ASSUME NEW r \in Call, NEW vs, NEW ws, NEW texts, NEW more,
         Grows(vs, ws, texts, more), SaveOK(r, vs, texts)
  PROVE  SaveOK(r, ws, more)
  <1>1. r.on # None => r.on \in VersionIds
    BY DEF Call, Version
  <1>2. QED
    BY <1>1 DEF SaveOK, Grows

LEMMA SavesKept ==
  ASSUME SavesOK(calls, vers, stored), Grows(vers, vers', stored, stored'), UNCHANGED calls
  PROVE  SavesOK(calls, vers, stored)'
  <1>1. \A c \in CallIds : SaveOK(calls[c], vers', stored')
    BY SaveKept DEF SavesOK
  <1>2. QED
    BY <1>1 DEF SavesOK

LEMMA PageKept ==
  ASSUME PageOK, Grows(vers, vers', stored, stored'), UNCHANGED ui
  PROVE  PageOK'
  <1>1. ui \in Page
    BY DEF PageOK, Fits
  <1>2. /\ ui.source.id # None => ui.source.id \in VersionIds
        /\ ui.load.got.latest # None => ui.load.got.latest \in VersionIds
        /\ ui.load.got.active # None => ui.load.got.active \in VersionIds
    BY <1>1 DEF Page, Source, Load, Answer, Version
  <1>3. EditorOK(ui, stored')
    BY <1>2 DEF PageOK, Fits, EditorOK, Grows
  <1>4. GotOK(ui.load.got, stored')
    BY <1>2 DEF PageOK, Fits, GotOK, Grows
  <1>5. QED
    BY <1>3, <1>4 DEF PageOK, Fits

LEMMA BackendKept ==
  ASSUME BackendOK, UNCHANGED backend
  PROVE  BackendOK' /\ Grows(vers, vers', stored, stored')
  BY DEF BackendOK, Grows, backend

LEMMA RequestsKept ==
  ASSUME RequestsOK, UNCHANGED <<filing, removal, refresh>>
  PROVE  RequestsOK'
  BY DEF RequestsOK

LEMMA TypedKept ==
  ASSUME TypedOK, UNCHANGED <<ui, typed>>
  PROVE  TypedOK'
  BY DEF TypedOK, LoadingVersions

\* A save is sent, answered or done.
LEMMA SaveSet ==
  ASSUME SavesOK(calls, vers, stored), Grows(vers, vers', stored, stored'),
         NEW c \in CallIds, NEW r \in Call, calls' = [calls EXCEPT ![c] = r],
         SaveOK(r, vers', stored')
  PROVE  SavesOK(calls, vers, stored)'
  <1>1. calls' \in [CallIds -> Call]
    BY DEF SavesOK
  <1>2. ASSUME NEW d \in CallIds
        PROVE  SaveOK(calls'[d], vers', stored')
    <2>1. CASE d = c
      BY <2>1 DEF SavesOK
    <2>2. CASE d # c
      <3>1. calls'[d] = calls[d] /\ calls[d] \in Call
        BY <2>2 DEF SavesOK
      <3>2. QED
        BY <3>1, SaveKept DEF SavesOK
    <2>3. QED
      BY <2>1, <2>2
  <1>3. QED
    BY <1>1, <1>2 DEF SavesOK

\* The page changes, and nothing else that it has to agree with does.
LEMMA PageRendered ==
  ASSUME NEW u, NEW b \in BOOLEAN, NEW d \in BOOLEAN,
         Fits(u, selectedPolicy(ui), stored), ui' = Rendered(u, b, d), UNCHANGED stored
  PROVE  PageOK'
  BY RenderedOK DEF PageOK

LEMMA PageChanged ==
  ASSUME PageOK, ui' \in Page, ui'.list = ui.list, ui'.sel = ui.sel,
         ui'.load = ui.load \/ ui'.load = NoLoad, EditorOK(ui', stored), UNCHANGED stored
  PROVE  PageOK'
  <1>1. selectedPolicy(ui') = selectedPolicy(ui)
    BY DEF selectedPolicy
  <1>2. GotOK(NoAnswer, stored)
    BY Constants DEF GotOK
  <1>3. LoadOf(ui', selectedPolicy(ui)) /\ GotOK(ui'.load.got, stored)
    BY <1>2, Constants DEF PageOK, Fits, LoadOf
  <1>4. QED
    BY <1>1, <1>3 DEF PageOK, Fits

LEMMA OnlyPage ==
  ASSUME IInv, UNCHANGED <<backend, calls, filing, removal, refresh>>
  PROVE  /\ BackendOK' /\ SavesOK(calls, vers, stored)' /\ RequestsOK'
         /\ Grows(vers, vers', stored, stored') /\ UNCHANGED stored
  <1>1. BackendOK' /\ Grows(vers, vers', stored, stored')
    BY BackendKept DEF IInv
  <1>2. SavesOK(calls, vers, stored)' /\ RequestsOK'
    BY <1>1, SavesKept, RequestsKept DEF IInv
  <1>3. QED
    BY <1>1, <1>2 DEF backend

-----------------------------------------------------------------------------
\* Loading.

LEMMA HandleRefreshStep ==
  ASSUME IInv, handleRefresh
  PROVE  IInv'
  <1> DEFINE u == [ui EXCEPT !.list.st = "loading"]
  <1>1. /\ ui' = Rendered(u, FALSE, FALSE) /\ UNCHANGED <<backend, calls, filing, removal, typed>>
        /\ refresh' = [NoRefresh EXCEPT !.st = "sent"]
    BY DEF handleRefresh, Render, loadPolicies
  <1>2. ui \in Page /\ PageOK
    BY DEF IInv, PageOK, Fits
  <1>3. /\ u \in Page /\ u.load = ui.load /\ u.text = ui.text /\ u.save = ui.save
        /\ u.source = ui.source /\ u.list.st = "loading"
    BY <1>2 DEF Page, List
  <1>4. Fits(u, selectedPolicy(ui), stored)
    BY <1>2, <1>3 DEF PageOK, Fits, EditorOK, LoadOf
  <1>5. PageOK'
    BY <1>1, <1>4, PageRendered DEF backend
  <1>6. ui'.list.st = "loading"
    BY <1>1, <1>3, RenderedIs
  <1>7. TypedOK'
    BY <1>6 DEF TypedOK
  <1>8. BackendOK' /\ SavesOK(calls, vers, stored)'
    BY <1>1, BackendKept, SavesKept DEF IInv
  <1>9. RequestsOK'
    BY <1>1 DEF IInv, RequestsOK, NoRefresh
  <1>10. QED
    BY <1>5, <1>7, <1>8, <1>9 DEF IInv

LEMMA ReadPoliciesStep ==
  ASSUME IInv, ReadPolicies
  PROVE  IInv'
  <1>1. /\ refresh' = [ st |-> "got", known |-> exists, old |-> archived ]
        /\ UNCHANGED <<backend, ui, calls, filing, removal, typed>>
    BY DEF ReadPolicies
  <1>2. BackendOK' /\ SavesOK(calls, vers, stored)' /\ PageOK' /\ TypedOK'
    BY <1>1, BackendKept, SavesKept, PageKept, TypedKept DEF IInv
  <1>3. RequestsOK'
    BY <1>1 DEF IInv, RequestsOK, BackendOK
  <1>4. QED
    BY <1>2, <1>3 DEF IInv

LEMMA ShowPoliciesStep ==
  ASSUME IInv, ShowPolicies
  PROVE  IInv'
  <1> DEFINE known == refresh.known
             u == [ui EXCEPT !.list = [ st |-> "ready", known |-> known, old |-> refresh.old ],
                             !.sel = IF known = {} \/ @ \in known THEN @ ELSE Oldest(known)]
  <1>1. /\ ui' = Rendered(u, TRUE, FALSE) /\ UNCHANGED <<backend, filing, removal>>
        /\ calls' = [c \in CallIds |-> [calls[c] EXCEPT !.renewed = Saving(c)]]
        /\ typed' = FALSE /\ refresh' = NoRefresh
    BY DEF ShowPolicies
  <1>2. /\ ui \in Page /\ PageOK /\ RequestsOK /\ SavesOK(calls, vers, stored)
        /\ known \in SUBSET Policies /\ refresh.old \in SUBSET Policies
    BY DEF IInv, PageOK, Fits, RequestsOK
  <1>3. (IF known = {} \/ ui.sel \in known THEN ui.sel ELSE Oldest(known)) \in Policy
    BY <1>2, OldestIs DEF Page, Policy
  <1>4. [ st |-> "ready", known |-> known, old |-> refresh.old ] \in List
    BY <1>2 DEF List
  <1>5. /\ u \in Page /\ u.load = ui.load /\ u.text = ui.text /\ u.save = ui.save
        /\ u.source = ui.source
    BY <1>2, <1>3, <1>4 DEF Page
  <1>6. Fits(u, selectedPolicy(ui), stored)
    BY <1>2, <1>5 DEF PageOK, Fits, EditorOK, LoadOf
  <1>7. PageOK'
    BY <1>1, <1>6, PageRendered DEF backend
  <1>8. BackendOK' /\ Grows(vers, vers', stored, stored')
    BY <1>1, BackendKept DEF IInv
  <1>9. SavesOK(calls, vers, stored)'
    <2>1. ASSUME NEW c \in CallIds
          PROVE  /\ calls'[c] \in Call
                 /\ calls'[c].st = calls[c].st /\ calls'[c].on = calls[c].on
                 /\ calls'[c].policy = calls[c].policy /\ calls'[c].text = calls[c].text
      <3>1. calls'[c] = [calls[c] EXCEPT !.renewed = Saving(c)] /\ calls[c] \in Call
        BY <1>1, <1>2 DEF SavesOK
      <3>2. Saving(c) \in BOOLEAN
        BY DEF Saving
      <3>3. QED
        BY <3>1, <3>2 DEF Call
    <2>2. \A c \in CallIds : SaveOK(calls'[c], vers, stored)
      BY <1>2, <2>1 DEF SavesOK, SaveOK
    <2>3. calls' \in [CallIds -> Call]
      BY <1>1, <2>1
    <2>4. QED
      BY <1>1, <2>2, <2>3 DEF SavesOK, backend
  <1>10. RequestsOK'
    BY <1>1, <1>2 DEF RequestsOK, NoRefresh
  <1>11. TypedOK'
    BY <1>1 DEF TypedOK
  <1>12. QED
    BY <1>7, <1>8, <1>9, <1>10, <1>11 DEF IInv

LEMMA FailPoliciesStep ==
  ASSUME IInv, FailPolicies
  PROVE  IInv'
  <1> DEFINE u == [ui EXCEPT !.list.st = "error"]
  <1>1. /\ ui' = Rendered(u, FALSE, FALSE) /\ UNCHANGED <<backend, calls, filing, removal, typed>>
        /\ refresh' = NoRefresh
    BY DEF FailPolicies, Render
  <1>2. ui \in Page /\ PageOK
    BY DEF IInv, PageOK, Fits
  <1>3. /\ u \in Page /\ u.load = ui.load /\ u.text = ui.text /\ u.save = ui.save
        /\ u.source = ui.source /\ u.list.st = "error"
    BY <1>2 DEF Page, List
  <1>4. Fits(u, selectedPolicy(ui), stored)
    BY <1>2, <1>3 DEF PageOK, Fits, EditorOK, LoadOf
  <1>5. PageOK'
    BY <1>1, <1>4, PageRendered DEF backend
  <1>6. ui'.list.st = "error"
    BY <1>1, <1>3, RenderedIs
  <1>7. TypedOK'
    BY <1>6 DEF TypedOK
  <1>8. BackendOK' /\ SavesOK(calls, vers, stored)'
    BY <1>1, BackendKept, SavesKept DEF IInv
  <1>9. RequestsOK'
    BY <1>1 DEF IInv, RequestsOK, NoRefresh
  <1>10. QED
    BY <1>5, <1>7, <1>8, <1>9 DEF IInv

LEMMA ReadVersionsStep ==
  ASSUME IInv, ReadVersions
  PROVE  IInv'
  <1> DEFINE got == VersionsOf(ui.load.policy)
  <1>1. /\ ui.load.st = "sent"
        /\ ui' = [ui EXCEPT !.load.st = "got", !.load.got = got]
        /\ UNCHANGED <<backend, calls, filing, removal, refresh, typed>>
    BY DEF ReadVersions
  <1>2. BackendOK' /\ SavesOK(calls, vers, stored)' /\ RequestsOK' /\ UNCHANGED stored
    BY <1>1, OnlyPage
  <1>3. ui \in Page /\ PageOK /\ got \in Answer /\ GotOK(got, stored)
    BY VersionsOfOK DEF IInv, PageOK, Fits
  <1> HIDE DEF got
  <1>4. /\ ui' \in Page /\ ui'.load.st = "got" /\ ui'.load.policy = ui.load.policy
        /\ ui'.load.hydrate = ui.load.hydrate /\ ui'.load.got = got
        /\ ui'.list = ui.list /\ ui'.sel = ui.sel /\ ui'.text = ui.text /\ ui'.save = ui.save
        /\ ui'.source = ui.source /\ ui'.dirty = ui.dirty /\ ui'.saved = ui.saved
    BY <1>1, <1>3 DEF Page, Load
  <1>5. selectedPolicy(ui') = selectedPolicy(ui)
    BY <1>4 DEF selectedPolicy
  <1>6. PageOK'
    BY <1>1, <1>2, <1>3, <1>4, <1>5 DEF PageOK, Fits, LoadOf, EditorOK
  <1>7. TypedOK'
    BY <1>1, <1>4 DEF IInv, TypedOK, LoadingVersions
  <1>8. QED
    BY <1>2, <1>6, <1>7 DEF IInv

\* The editor after the answer about the versions of a policy, which is the selected
\* one when the answer may be put into the editor.
LEMMA ShowsVersionsOK ==
  ASSUME NEW u, NEW p, NEW texts, Fits(u, p, texts), NEW got \in Answer,
         NEW hydrate \in BOOLEAN, NEW policy \in Policy,
         hydrate => GotOK(got, texts) /\ policy = p /\ p # None
  PROVE  LET r == ShowsVersions(u, got, hydrate, policy) IN
         /\ Fits(r, p, texts) /\ r.list = u.list /\ r.sel = u.sel
         /\ u.saved = policy \/ ~hydrate \/ u.dirty =>
              /\ r.text = u.text /\ r.checks = u.checks /\ r.dirty = u.dirty
              /\ r.saved = u.saved /\ r.load = u.load
  <1> DEFINE shown == [ st |-> "ready", latest |-> got.latest, some |-> got.some,
                        active |-> got.active # None ]
             ready == [u EXCEPT !.versions = shown, !.draft = got.latest]
             r == ShowsVersions(u, got, hydrate, policy)
  <1>0. u \in Page /\ got.latest \in Version /\ got.active \in Version
        /\ got.text \in Texts /\ got.checks \in BOOLEAN
    BY DEF Fits, Answer
  <1>1. shown \in ShownVersions
    <2>1. (got.active # None) \in BOOLEAN
      OBVIOUS
    <2>2. QED
      BY <2>1 DEF ShownVersions, Answer
  <1> HIDE DEF shown
  <1>2. /\ ready \in Page /\ ready.list = u.list /\ ready.sel = u.sel /\ ready.text = u.text
        /\ ready.save = u.save /\ ready.source = u.source /\ ready.load = u.load
        /\ ready.checks = u.checks /\ ready.dirty = u.dirty /\ ready.saved = u.saved
    BY <1>0, <1>1 DEF Page
  <1>3. r = IF u.saved = policy \/ ~hydrate \/ u.dirty THEN ready
            ELSE IF got.latest # None
                 THEN Hydrated(ready, "draft_version", got.latest, got.text, got.checks)
            ELSE IF got.active # None
                 THEN Hydrated(ready, "active_version", got.active, got.text, got.checks)
            ELSE [ready EXCEPT !.source = [ kind |-> "live_fallback", id |-> None ],
                               !.load = [NoLoad EXCEPT !.st = "rules", !.policy = policy]]
    BY DEF ShowsVersions, shown
  <1> HIDE DEF ready, r
  <1>4. CASE u.saved = policy \/ ~hydrate \/ u.dirty
    <2>1. r = ready
      BY <1>3, <1>4
    <2>2. Fits(r, p, texts)
      BY <1>2, <2>1 DEF Fits, LoadOf, EditorOK
    <2>3. QED
      BY <1>2, <2>1, <2>2 DEF r
  <1>5. CASE ~(u.saved = policy \/ ~hydrate \/ u.dirty) /\ got.latest # None
    <2>1. r = Hydrated(ready, "draft_version", got.latest, got.text, got.checks)
      BY <1>3, <1>5
    <2> DEFINE h == Hydrated(ready, "draft_version", got.latest, got.text, got.checks)
    <2>h. /\ h \in Page /\ h.list = ready.list /\ h.sel = ready.sel /\ h.text = got.text
          /\ h.source.id = got.latest /\ h.load = ready.load
      <3>1. [ kind |-> "draft_version", id |-> got.latest ] \in Source
        BY <1>0 DEF Source
      <3>2. QED
        BY <1>0, <1>2, <3>1, HydratedIs
    <2>2. /\ r \in Page /\ r.list = u.list /\ r.sel = u.sel /\ r.text = got.text
          /\ r.source.id = got.latest /\ r.load = u.load
      BY <1>2, <2>1, <2>h
    <2>3. Fits(r, p, texts)
      BY <1>5, <2>2 DEF Fits, LoadOf, EditorOK, GotOK
    <2>4. QED
      BY <1>5, <2>2, <2>3 DEF r
  <1>6. CASE ~(u.saved = policy \/ ~hydrate \/ u.dirty) /\ got.latest = None /\ got.active # None
    <2>1. r = Hydrated(ready, "active_version", got.active, got.text, got.checks)
      BY <1>3, <1>6
    <2> DEFINE h == Hydrated(ready, "active_version", got.active, got.text, got.checks)
    <2>h. /\ h \in Page /\ h.list = ready.list /\ h.sel = ready.sel /\ h.text = got.text
          /\ h.source.id = got.active /\ h.load = ready.load
      <3>1. [ kind |-> "active_version", id |-> got.active ] \in Source
        BY <1>0 DEF Source
      <3>2. QED
        BY <1>0, <1>2, <3>1, HydratedIs
    <2>2. /\ r \in Page /\ r.list = u.list /\ r.sel = u.sel /\ r.text = got.text
          /\ r.source.id = got.active /\ r.load = u.load
      BY <1>2, <2>1, <2>h
    <2>3. Fits(r, p, texts)
      BY <1>6, <2>2 DEF Fits, LoadOf, EditorOK, GotOK
    <2>4. QED
      BY <1>6, <2>2, <2>3 DEF r
  <1>7. CASE ~(u.saved = policy \/ ~hydrate \/ u.dirty) /\ got.latest = None /\ got.active = None
    <2> DEFINE fallback == [ kind |-> "live_fallback", id |-> None ]
               rules == [NoLoad EXCEPT !.st = "rules", !.policy = policy]
    <2>1. r = [ready EXCEPT !.source = fallback, !.load = rules]
      BY <1>3, <1>7
    <2>2. fallback \in Source /\ fallback.id = None
      BY DEF Source, Version
    <2>3. rules \in Load /\ rules.policy = policy /\ rules.got = NoAnswer
      BY Constants DEF NoLoad, Load
    <2> HIDE DEF fallback, rules
    <2>4. /\ r \in Page /\ r.list = u.list /\ r.sel = u.sel /\ r.source = fallback /\ r.load = rules
      BY <1>2, <2>1, <2>2, <2>3 DEF Page
    <2>5. GotOK(NoAnswer, texts)
      BY Constants DEF GotOK
    <2>6. Fits(r, p, texts)
      BY <1>7, <2>2, <2>3, <2>4, <2>5 DEF Fits, LoadOf, EditorOK
    <2>7. QED
      BY <1>7, <2>4, <2>6 DEF r
  <1>8. QED
    BY <1>4, <1>5, <1>6, <1>7

LEMMA ShowVersionsStep ==
  ASSUME IInv, ShowVersions
  PROVE  IInv'
  <1> DEFINE u == [ui EXCEPT !.load = NoLoad]
             w == ShowsVersions(u, ui.load.got, ui.load.hydrate, ui.load.policy)
             d == ui.load.got.latest # None
             p == selectedPolicy(ui)
  <1>1. /\ ui.load.st = "got" /\ ui' = Rendered(w, FALSE, d) /\ typed' = FALSE
        /\ UNCHANGED <<backend, calls, filing, removal, refresh>>
    BY DEF ShowVersions
  <1>2. BackendOK' /\ SavesOK(calls, vers, stored)' /\ RequestsOK' /\ UNCHANGED stored
    BY <1>1, OnlyPage
  <1>3. /\ PageOK /\ ui \in Page /\ ui.load.policy = p /\ p # None
        /\ ui.load.got \in Answer /\ GotOK(ui.load.got, stored)
        /\ ui.load.hydrate \in BOOLEAN /\ ui.load.policy \in Policy
    BY <1>1 DEF IInv, PageOK, Fits, LoadOf, Page, Load
  <1>4. /\ u \in Page /\ u.load = NoLoad /\ u.text = ui.text /\ u.save = ui.save
        /\ u.source = ui.source
    BY <1>3, Constants DEF Page
  <1>5. Fits(u, p, stored)
    BY <1>3, <1>4, Constants DEF PageOK, Fits, LoadOf, EditorOK, GotOK
  <1> HIDE DEF u
  <1>6. Fits(w, p, stored)
    BY <1>3, <1>5, ShowsVersionsOK
  <1>7. d \in BOOLEAN
    OBVIOUS
  <1> HIDE DEF w, d
  <1>8. PageOK'
    BY <1>1, <1>2, <1>6, <1>7, PageRendered
  <1>9. TypedOK'
    BY <1>1 DEF TypedOK
  <1>10. QED
    BY <1>2, <1>8, <1>9 DEF IInv

LEMMA FailVersionsStep ==
  ASSUME IInv, FailVersions
  PROVE  IInv'
  <1> DEFINE u == [ui EXCEPT !.load = NoLoad, !.draft = None, !.versions = NoVersions("error")]
  <1>1. /\ ui' = Rendered(u, FALSE, FALSE) /\ typed' = FALSE
        /\ UNCHANGED <<backend, calls, filing, removal, refresh>>
    BY DEF FailVersions, Render
  <1>2. BackendOK' /\ SavesOK(calls, vers, stored)' /\ RequestsOK' /\ UNCHANGED stored
    BY <1>1, OnlyPage
  <1>3. PageOK /\ ui \in Page /\ NoVersions("error") \in ShownVersions /\ None \in Version
    BY DEF IInv, PageOK, Fits, NoVersions, ShownVersions, Version
  <1>4. /\ u \in Page /\ u.load = NoLoad /\ u.text = ui.text /\ u.save = ui.save
        /\ u.source = ui.source
    BY <1>3, Constants DEF Page
  <1>5. Fits(u, selectedPolicy(ui), stored)
    BY <1>3, <1>4, Constants DEF PageOK, Fits, LoadOf, EditorOK, GotOK
  <1>6. PageOK'
    BY <1>1, <1>2, <1>5, PageRendered
  <1>7. TypedOK'
    BY <1>1 DEF TypedOK
  <1>8. QED
    BY <1>2, <1>6, <1>7 DEF IInv

\* The editor changes, but not the selection; a load that is going on goes on or ends.
LEMMA EditorStep ==
  ASSUME IInv, UNCHANGED <<backend, calls, filing, removal, refresh>>,
         ui' \in Page, ui'.list = ui.list, ui'.sel = ui.sel,
         ui'.load = ui.load \/ ui'.load = NoLoad, EditorOK(ui', stored), TypedOK'
  PROVE  IInv'
  <1>1. BackendOK' /\ SavesOK(calls, vers, stored)' /\ RequestsOK' /\ UNCHANGED stored
    BY OnlyPage
  <1>2. PageOK'
    BY <1>1, PageChanged DEF IInv
  <1>3. QED
    BY <1>1, <1>2 DEF IInv

LEMMA ShowRulesStep ==
  ASSUME IInv, ShowRules
  PROVE  IInv'
  <1> DEFINE load == [ui.load EXCEPT !.st = "checks"]
  <1>1. /\ ui.load.st = "rules"
        /\ ui' = [ui EXCEPT !.load = IF ui.dirty THEN NoLoad ELSE load]
        /\ UNCHANGED <<backend, calls, filing, removal, refresh, typed>>
    BY DEF ShowRules
  <1>2. ui \in Page /\ PageOK /\ TypedOK
    BY DEF IInv, PageOK, Fits
  <1>3. load \in Load /\ load.policy = ui.load.policy /\ load.got = ui.load.got
    BY <1>2 DEF Page, Load
  <1> HIDE DEF load
  <1>4. /\ ui' \in Page /\ ui'.list = ui.list /\ ui'.sel = ui.sel /\ ui'.text = ui.text
        /\ ui'.save = ui.save /\ ui'.source = ui.source
        /\ ui'.load = NoLoad \/ ui'.load = load
    BY <1>1, <1>2, <1>3, Constants DEF Page
  <1>5. EditorOK(ui', stored)
    BY <1>2, <1>4 DEF PageOK, Fits, EditorOK
  <1>6. TypedOK'
    BY <1>1, <1>2, <1>4 DEF TypedOK, LoadingVersions
  <1>7. CASE ui'.load = NoLoad
    BY <1>1, <1>4, <1>5, <1>6, <1>7, EditorStep
  <1>8. CASE ui'.load = load
    <2>1. selectedPolicy(ui') = selectedPolicy(ui)
      BY <1>4 DEF selectedPolicy
    <2>2. PageOK'
      BY <1>1, <1>2, <1>3, <1>4, <1>5, <1>8, <2>1 DEF PageOK, Fits, LoadOf, backend
    <2>3. QED
      BY <1>1, <1>6, <2>2, OnlyPage DEF IInv
  <1>9. QED
    BY <1>4, <1>7, <1>8

LEMMA ShowRuleChecksStep ==
  ASSUME IInv, ShowRuleChecks
  PROVE  IInv'
  <1> DEFINE fallback == [ kind |-> "live_fallback", id |-> None ]
  <1>1. /\ \E b \in BOOLEAN :
              ui' = [ui EXCEPT !.load = NoLoad, !.text = "live", !.checks = b,
                               !.source = fallback, !.dirty = FALSE, !.save = "unsaved"]
        /\ typed' = FALSE
        /\ UNCHANGED <<backend, calls, filing, removal, refresh>>
    BY DEF ShowRuleChecks
  <1>2. ui \in Page /\ "live" \in Texts
    BY DEF IInv, PageOK, Fits, Texts
  <1>3. fallback \in Source
    BY DEF Source, Version
  <1> HIDE DEF fallback
  <1>4. /\ ui' \in Page /\ ui'.list = ui.list /\ ui'.sel = ui.sel
        /\ ui'.load = NoLoad /\ ui'.save = "unsaved"
    <2>1. PICK b \in BOOLEAN :
              ui' = [ui EXCEPT !.load = NoLoad, !.text = "live", !.checks = b,
                               !.source = fallback, !.dirty = FALSE, !.save = "unsaved"]
      BY <1>1
    <2>2. ui' \in Page
      BY <1>2, <1>3, <2>1, Constants DEF Page
    <2>3. /\ ui'.list = ui.list /\ ui'.sel = ui.sel
          /\ ui'.load = NoLoad /\ ui'.save = "unsaved"
      BY <1>2, <2>1 DEF Page
    <2>4. QED
      BY <2>2, <2>3
  <1>5. EditorOK(ui', stored) /\ TypedOK'
    BY <1>1, <1>4 DEF EditorOK, TypedOK
  <1>6. QED
    BY <1>1, <1>4, <1>5, EditorStep

LEMMA FailRulesStep ==
  ASSUME IInv, FailRules
  PROVE  IInv'
  <1>1. /\ ui.load.st = "rules" /\ ui' = [ui EXCEPT !.load = NoLoad]
        /\ UNCHANGED <<backend, calls, filing, removal, refresh, typed>>
    BY DEF FailRules
  <1>2. ui \in Page /\ PageOK /\ TypedOK
    BY DEF IInv, PageOK, Fits
  <1>3. /\ ui' \in Page /\ ui'.list = ui.list /\ ui'.sel = ui.sel /\ ui'.text = ui.text
        /\ ui'.save = ui.save /\ ui'.source = ui.source /\ ui'.load = NoLoad
    BY <1>1, <1>2, Constants DEF Page
  <1>4. EditorOK(ui', stored)
    BY <1>2, <1>3 DEF PageOK, Fits, EditorOK
  <1>5. TypedOK'
    BY <1>1, <1>2, <1>3 DEF TypedOK, LoadingVersions
  <1>6. QED
    BY <1>1, <1>3, <1>4, <1>5, EditorStep

LEMMA ReviewStateStep ==
  ASSUME IInv, ShowReviewState \/ FailReviewState
  PROVE  IInv'
  <1> DEFINE review == [ on |-> ui.asking, status |-> StateOf(ui.asking) ]
  <1>1. /\ \/ ui' = [ui EXCEPT !.asking = None, !.review = review]
           \/ ui' = [ui EXCEPT !.asking = None]
        /\ UNCHANGED <<backend, calls, filing, removal, refresh, typed>>
    BY DEF ShowReviewState, FailReviewState
  <1>2. ui \in Page /\ PageOK /\ TypedOK
    BY DEF IInv, PageOK, Fits
  <1>3. review \in [ on : Version, status : {"none", "pending", "open", "closed"} ] /\ None \in Version
    BY <1>2 DEF StateOf, Page, Version
  <1> HIDE DEF review
  <1>4. /\ ui' \in Page /\ ui'.list = ui.list /\ ui'.sel = ui.sel /\ ui'.text = ui.text
        /\ ui'.save = ui.save /\ ui'.source = ui.source /\ ui'.load = ui.load
        /\ ui'.dirty = ui.dirty /\ ui'.saved = ui.saved
    <2>1. CASE ui' = [ui EXCEPT !.asking = None, !.review = review]
      BY <1>2, <1>3, <2>1 DEF Page
    <2>2. CASE ui' = [ui EXCEPT !.asking = None]
      BY <1>2, <1>3, <2>2 DEF Page
    <2>3. QED
      BY <1>1, <2>1, <2>2
  <1>5. EditorOK(ui', stored)
    BY <1>2, <1>4 DEF PageOK, Fits, EditorOK
  <1>6. TypedOK'
    BY <1>1, <1>2, <1>4 DEF TypedOK, LoadingVersions
  <1>7. QED
    BY <1>1, <1>4, <1>5, <1>6, EditorStep

-----------------------------------------------------------------------------
\* The author works on the page.

LEMMA EmptiedIs ==
  ASSUME NEW u \in Page
  PROVE  LET r == Emptied(u) IN
         /\ r \in Page /\ r.list = u.list /\ r.text = u.text /\ r.load = u.load
         /\ r.save = "unsaved"
  <1> DEFINE r == Emptied(u)
  <1>1. NoReview \in [ on : Version, status : {"none", "pending", "open", "closed"} ]
        /\ None \in Version /\ None \in Policy
    BY DEF NoReview, Version, Policy
  <1>2. r \in Page
    BY <1>1, Constants DEF Emptied, Page
  <1>3. r.list = u.list /\ r.text = u.text /\ r.load = u.load /\ r.save = "unsaved"
    BY DEF Emptied, Page
  <1>4. QED
    BY <1>2, <1>3

LEMMA NewEditorIs ==
  ASSUME NEW u \in Page
  PROVE  LET r == NewEditor(u) IN
         /\ r \in Page /\ r.list = u.list /\ r.load = u.load /\ r.save = "unsaved"
  <1> DEFINE e == Emptied(u)
             r == NewEditor(u)
  <1>1. /\ e \in Page /\ e.list = u.list /\ e.load = u.load /\ e.save = "unsaved"
    BY EmptiedIs
  <1>2. r = [e EXCEPT !.sel = None, !.text = "new", !.versions = NoVersions("idle")]
    BY DEF NewEditor
  <1>3. None \in Policy /\ "new" \in Texts /\ NoVersions("idle") \in ShownVersions
    BY DEF Policy, Texts, NoVersions, ShownVersions, Version
  <1> HIDE DEF e
  <1>4. r \in Page
    BY <1>1, <1>2, <1>3 DEF Page
  <1>5. r.list = u.list /\ r.load = u.load /\ r.save = "unsaved"
    BY <1>1, <1>2 DEF Page
  <1>6. QED
    BY <1>4, <1>5

LEMMA HandleSelectPolicyStep ==
  ASSUME IInv, NEW p \in Policies, handleSelectPolicy(p)
  PROVE  IInv'
  <1> DEFINE e == Emptied(ui)
             u == [e EXCEPT !.sel = p]
  <1>1. /\ ui' = Rendered(u, FALSE, FALSE) /\ typed' = FALSE
        /\ UNCHANGED <<backend, calls, filing, removal, refresh>>
    BY DEF handleSelectPolicy, Render
  <1>2. BackendOK' /\ SavesOK(calls, vers, stored)' /\ RequestsOK' /\ UNCHANGED stored
    BY <1>1, OnlyPage
  <1>3. PageOK /\ ui \in Page
    BY DEF IInv, PageOK, Fits
  <1>4. e \in Page /\ e.load = ui.load /\ e.save = "unsaved"
    BY <1>3, EmptiedIs
  <1> HIDE DEF e
  <1>5. u \in Page /\ u.load = ui.load /\ u.save = "unsaved"
    BY <1>4 DEF Page, Policy
  <1>6. Fits(u, selectedPolicy(ui), stored)
    BY <1>3, <1>5 DEF PageOK, Fits, LoadOf, EditorOK
  <1> HIDE DEF u
  <1>7. PageOK'
    BY <1>1, <1>2, <1>6, PageRendered
  <1>8. TypedOK'
    BY <1>1 DEF TypedOK
  <1>9. QED
    BY <1>2, <1>7, <1>8 DEF IInv

LEMMA HandleNewPolicyStep ==
  ASSUME IInv, handleNewPolicy
  PROVE  IInv'
  <1> DEFINE u == NewEditor(ui)
  <1>1. /\ ui' = Rendered(u, FALSE, FALSE) /\ typed' = FALSE
        /\ UNCHANGED <<backend, calls, filing, removal, refresh>>
    BY DEF handleNewPolicy, Render
  <1>2. BackendOK' /\ SavesOK(calls, vers, stored)' /\ RequestsOK' /\ UNCHANGED stored
    BY <1>1, OnlyPage
  <1>3. PageOK /\ ui \in Page
    BY DEF IInv, PageOK, Fits
  <1>4. u \in Page /\ u.load = ui.load /\ u.save = "unsaved"
    BY <1>3, NewEditorIs
  <1> HIDE DEF u
  <1>5. Fits(u, selectedPolicy(ui), stored)
    BY <1>3, <1>4 DEF PageOK, Fits, LoadOf, EditorOK
  <1>6. PageOK'
    BY <1>1, <1>2, <1>5, PageRendered
  <1>7. TypedOK'
    BY <1>1 DEF TypedOK
  <1>8. QED
    BY <1>2, <1>6, <1>7 DEF IInv

LEMMA EditedIs ==
  ASSUME NEW u \in Page, NEW t \in Texts, NEW b \in BOOLEAN
  PROVE  \A r \in { [Edited(u) EXCEPT !.text = t], [Edited(u) EXCEPT !.checks = b] } :
           /\ r \in Page /\ r.list = u.list /\ r.sel = u.sel /\ r.load = u.load
           /\ r.save = "unsaved" /\ r.dirty = TRUE
  <1> DEFINE e == Edited(u)
  <1>1. /\ e \in Page /\ e.list = u.list /\ e.sel = u.sel /\ e.load = u.load
        /\ e.save = "unsaved" /\ e.dirty = TRUE
    BY DEF Edited, Page
  <1> HIDE DEF e
  <1>2. LET r == [e EXCEPT !.text = t] IN
          /\ r \in Page /\ r.list = u.list /\ r.sel = u.sel /\ r.load = u.load
          /\ r.save = "unsaved" /\ r.dirty = TRUE
    BY <1>1 DEF Page
  <1>3. LET r == [e EXCEPT !.checks = b] IN
          /\ r \in Page /\ r.list = u.list /\ r.sel = u.sel /\ r.load = u.load
          /\ r.save = "unsaved" /\ r.dirty = TRUE
    BY <1>1 DEF Page
  <1>4. QED
    BY <1>2, <1>3 DEF e

\* An edit: what is typed is not saved, and "typed" says whether versions were loading.
LEMMA EditStep ==
  ASSUME IInv, UNCHANGED <<backend, calls, filing, removal, refresh>>,
         ui' \in Page, ui'.list = ui.list, ui'.sel = ui.sel, ui'.load = ui.load,
         ui'.save # "saved", typed' => LoadingVersions /\ ui'.dirty
  PROVE  IInv'
  <1>1. EditorOK(ui', stored)
    BY DEF EditorOK
  <1>2. TypedOK'
    BY DEF TypedOK, LoadingVersions
  <1>3. QED
    BY <1>1, <1>2, EditorStep

LEMMA HandleChangeConditionStep ==
  ASSUME IInv, NEW t \in Typed, handleChangeCondition(t)
  PROVE  IInv'
  <1>1. /\ ui' = [Edited(ui) EXCEPT !.text = t] /\ typed' = LoadingVersions
        /\ UNCHANGED <<backend, calls, filing, removal, refresh>>
    BY DEF handleChangeCondition
  <1>2. ui \in Page /\ t \in Texts
    BY DEF IInv, PageOK, Fits, Texts
  <1>3. /\ ui' \in Page /\ ui'.list = ui.list /\ ui'.sel = ui.sel /\ ui'.load = ui.load
        /\ ui'.save = "unsaved" /\ ui'.dirty = TRUE
    BY <1>1, <1>2, EditedIs
  <1>4. QED
    BY <1>1, <1>3, EditStep

LEMMA CheckSteps ==
  ASSUME IInv, handleAddPolicyCheck \/ handleRemovePolicyCheck
  PROVE  IInv'
  <1>0. ui \in Page /\ "new" \in Texts
    BY DEF IInv, PageOK, Fits, Texts
  <1>1. /\ \/ ui' = [ui EXCEPT !.save = "save_error"] /\ typed' = (LoadingVersions /\ ui'.dirty)
           \/ ui' = [Edited(ui) EXCEPT !.checks = TRUE] /\ typed' = (LoadingVersions /\ ui'.dirty)
           \/ ui' = [Edited(ui) EXCEPT !.checks = FALSE] /\ typed' = LoadingVersions
        /\ UNCHANGED <<backend, calls, filing, removal, refresh>>
    BY DEF handleAddPolicyCheck, handleRemovePolicyCheck
  <1>2. CASE ui' = [ui EXCEPT !.save = "save_error"] /\ typed' = (LoadingVersions /\ ui'.dirty)
    <2>1. /\ ui' \in Page /\ ui'.list = ui.list /\ ui'.sel = ui.sel /\ ui'.load = ui.load
          /\ ui'.save = "save_error"
      BY <1>0, <1>2 DEF Page
    <2>2. QED
      BY <1>1, <1>2, <2>1, EditStep
  <1>3. CASE ui' = [Edited(ui) EXCEPT !.checks = TRUE] /\ typed' = (LoadingVersions /\ ui'.dirty)
    <2>1. /\ ui' \in Page /\ ui'.list = ui.list /\ ui'.sel = ui.sel /\ ui'.load = ui.load
          /\ ui'.save = "unsaved" /\ ui'.dirty = TRUE
      BY <1>0, <1>3, EditedIs
    <2>2. QED
      BY <1>1, <1>3, <2>1, EditStep
  <1>4. CASE ui' = [Edited(ui) EXCEPT !.checks = FALSE] /\ typed' = LoadingVersions
    <2>1. /\ ui' \in Page /\ ui'.list = ui.list /\ ui'.sel = ui.sel /\ ui'.load = ui.load
          /\ ui'.save = "unsaved" /\ ui'.dirty = TRUE
      BY <1>0, <1>4, EditedIs
    <2>2. QED
      BY <1>1, <1>4, <2>1, EditStep
  <1>5. QED
    BY <1>1, <1>2, <1>3, <1>4

\* Only the marks next to the editor change, and what was not saved is not called so.
LEMMA StatusPage ==
  ASSUME PageOK, TypedOK, UNCHANGED <<stored, typed>>,
         ui' \in Page, ui'.list = ui.list, ui'.sel = ui.sel, ui'.load = ui.load,
         ui'.text = ui.text, ui'.source = ui.source, ui'.dirty = ui.dirty, ui'.saved = ui.saved,
         ui'.save = "saved" => ui.save = "saved"
  PROVE  PageOK' /\ TypedOK'
  <1>1. EditorOK(ui', stored)
    BY DEF PageOK, Fits, EditorOK
  <1>2. PageOK'
    BY <1>1, PageChanged
  <1>3. TypedOK'
    BY DEF TypedOK, LoadingVersions
  <1>4. QED
    BY <1>2, <1>3

LEMMA ValidateAndRuleSteps ==
  ASSUME IInv, handleValidate \/ handleSelectRule \/ ShowSelectedRuleChecks
  PROVE  IInv'
  <1>0. ui \in Page /\ PageOK /\ TypedOK
    BY DEF IInv, PageOK, Fits
  <1>1. UNCHANGED <<backend, calls, filing, removal, refresh>>
    BY DEF handleValidate, handleSelectRule, ShowSelectedRuleChecks
  <1>2. BackendOK' /\ SavesOK(calls, vers, stored)' /\ RequestsOK' /\ UNCHANGED stored
    BY <1>1, OnlyPage
  <1>3. CASE handleValidate
    <2>1. /\ UNCHANGED typed
          /\ \E s \in {"saved", "unsaved"} : ui' = [ui EXCEPT !.save = s] /\ (s = "saved" => ui.save = "saved")
      BY <1>3 DEF handleValidate
    <2>2. PICK s \in {"saved", "unsaved"} : ui' = [ui EXCEPT !.save = s] /\ (s = "saved" => ui.save = "saved")
      BY <2>1
    <2>3. /\ ui' \in Page /\ ui'.list = ui.list /\ ui'.sel = ui.sel /\ ui'.load = ui.load
          /\ ui'.text = ui.text /\ ui'.source = ui.source /\ ui'.dirty = ui.dirty
          /\ ui'.saved = ui.saved /\ ui'.save = s
      BY <1>0, <2>2 DEF Page
    <2>4. QED
      BY <1>0, <1>2, <2>1, <2>2, <2>3, StatusPage DEF IInv
  <1>4. CASE handleSelectRule
    <2> DEFINE fallback == [ kind |-> "live_fallback", id |-> None ]
    <2>1. /\ typed' = FALSE
          /\ ui' = [ui EXCEPT !.preserve = None, !.saved = None, !.dirty = FALSE,
                              !.checks = FALSE, !.text = "live", !.save = "unsaved",
                              !.source = fallback, !.submit = "idle"]
      BY <1>4 DEF handleSelectRule
    <2>2. fallback \in Source /\ "live" \in Texts /\ None \in Policy
      BY DEF Source, Version, Texts, Policy
    <2> HIDE DEF fallback
    <2>3. ui' \in Page
      BY <1>0, <2>1, <2>2 DEF Page
    <2>4. ui'.list = ui.list /\ ui'.sel = ui.sel /\ ui'.load = ui.load /\ ui'.save = "unsaved"
      BY <1>0, <2>1 DEF Page
    <2>5. QED
      BY <1>1, <2>1, <2>3, <2>4, EditStep
  <1>5. CASE ShowSelectedRuleChecks
    <2>1. /\ UNCHANGED typed
          /\ ui' = [ui EXCEPT !.checks = TRUE] \/ ui' = [ui EXCEPT !.save = "save_error"]
      BY <1>5 DEF ShowSelectedRuleChecks
    <2>2. /\ ui' \in Page /\ ui'.list = ui.list /\ ui'.sel = ui.sel /\ ui'.load = ui.load
          /\ ui'.text = ui.text /\ ui'.source = ui.source /\ ui'.dirty = ui.dirty
          /\ ui'.saved = ui.saved /\ (ui'.save = "saved" => ui.save = "saved")
      <3>1. CASE ui' = [ui EXCEPT !.checks = TRUE]
        BY <1>0, <3>1 DEF Page
      <3>2. CASE ui' = [ui EXCEPT !.save = "save_error"]
        BY <1>0, <3>2 DEF Page
      <3>3. QED
        BY <2>1, <3>1, <3>2
    <2>3. QED
      BY <1>0, <1>2, <2>1, <2>2, StatusPage DEF IInv
  <1>6. QED
    BY <1>3, <1>4, <1>5

-----------------------------------------------------------------------------
\* Saving.

\* The draft that is written is one of the selected policy.
LEMMA VersionToUpdate ==
  ASSUME NEW u \in Page
  PROVE  /\ versionToUpdate(u) \in Version
         /\ versionToUpdate(u) # None =>
              /\ selectedPolicy(u) # None
              /\ vers[versionToUpdate(u)].policy = selectedPolicy(u)
  BY SelectedDraft DEF versionToUpdate, Version

LEMMA SendStep ==
  ASSUME IInv, NEW on \in Version, Send(on),
         on # None => vers[on].policy = selectedPolicy(ui) /\ selectedPolicy(ui) # None
  PROVE  IInv'
  <1> DEFINE p == selectedPolicy(ui)
             old == p \in ui.list.old
             r == [NoCall EXCEPT !.st = IF p = None THEN "creating" ELSE "sending",
                                 !.policy = p, !.old = old, !.on = on,
                                 !.text = ui.text, !.checks = ui.checks]
  <1>0. ui \in Page /\ PageOK /\ TypedOK /\ BackendOK /\ SavesOK(calls, vers, stored) /\ RequestsOK
    BY DEF IInv, PageOK, Fits
  <1>1. PICK c \in CallIds : calls' = [calls EXCEPT ![c] = r]
    BY DEF Send
  <1>2. ui' = [ui EXCEPT !.save = "saving"] /\ UNCHANGED <<backend, filing, removal, refresh, typed>>
    BY DEF Send
  <1>3. BackendOK' /\ Grows(vers, vers', stored, stored') /\ RequestsOK' /\ UNCHANGED <<vers, stored>>
    BY <1>0, <1>2, BackendKept, RequestsKept DEF backend
  <1>4. p \in Policy /\ old \in BOOLEAN /\ ui.text \in Texts /\ ui.checks \in BOOLEAN
    BY <1>0, SelectedPolicy DEF Page
  <1>5. on # None => p # None /\ vers[on].policy = p /\ vers[on].st # "none"
    <2>1. on # None => on \in VersionIds /\ p # None
      BY DEF Version
    <2>2. QED
      BY <1>0, <2>1 DEF BackendOK
  <1> HIDE DEF p, old
  <1>6. r \in Call
    BY <1>4, Constants DEF Call
  <1>7. r.on = on /\ r.policy = p /\ r.st # "ok" /\ (r.st = "creating" => p = None)
    BY DEF NoCall
  <1> HIDE DEF r
  <1>8. SaveOK(r, vers', stored')
    BY <1>3, <1>5, <1>7 DEF SaveOK
  <1>9. SavesOK(calls, vers, stored)'
    BY <1>0, <1>1, <1>3, <1>6, <1>8, SaveSet
  <1>10. /\ ui' \in Page /\ ui'.list = ui.list /\ ui'.sel = ui.sel /\ ui'.load = ui.load
         /\ ui'.text = ui.text /\ ui'.source = ui.source /\ ui'.dirty = ui.dirty
         /\ ui'.saved = ui.saved /\ ui'.save = "saving"
    BY <1>0, <1>2 DEF Page
  <1>11. PageOK' /\ TypedOK'
    BY <1>0, <1>2, <1>3, <1>10, StatusPage
  <1>12. QED
    BY <1>3, <1>9, <1>11 DEF IInv

LEMMA HandleSaveSteps ==
  ASSUME IInv, handleSaveDraft \/ handleCreateNewDraftForChanges
  PROVE  IInv'
  <1>1. ui \in Page
    BY DEF IInv, PageOK, Fits
  <1>2. CASE handleSaveDraft
    BY <1>1, <1>2, VersionToUpdate, SendStep DEF handleSaveDraft
  <1>3. CASE handleCreateNewDraftForChanges
    <2>1. None \in Version /\ Send(None)
      BY <1>3 DEF handleCreateNewDraftForChanges, Version
    <2>2. QED
      BY <2>1, SendStep
  <1>4. QED
    BY <1>2, <1>3

\* A save goes on at the backend, and the page does not know.
LEMMA SaveStepUnseen ==
  ASSUME IInv, BackendOK', Grows(vers, vers', stored, stored'),
         UNCHANGED <<ui, filing, removal, refresh, typed>>,
         NEW c \in CallIds, NEW r \in Call, calls' = [calls EXCEPT ![c] = r],
         SaveOK(r, vers', stored')
  PROVE  IInv'
  <1>1. SavesOK(calls, vers, stored)'
    BY SaveSet DEF IInv
  <1>2. PageOK' /\ RequestsOK' /\ TypedOK'
    BY PageKept, RequestsKept, TypedKept DEF IInv
  <1>3. QED
    BY <1>1, <1>2 DEF IInv

LEMMA ServeCreatePolicyStep ==
  ASSUME IInv, NEW c \in CallIds, ServeCreatePolicy(c)
  PROVE  IInv'
  <1>1. calls[c] \in Call /\ SaveOK(calls[c], vers, stored) /\ BackendOK /\ calls \in [CallIds -> Call]
    BY DEF IInv, SavesOK
  <1>2. PICK p \in Policies \ exists :
          exists' = exists \cup {p} /\ calls' = [calls EXCEPT ![c].policy = p, ![c].st = "sending"]
    BY DEF ServeCreatePolicy
  <1>3. /\ calls[c].st = "creating"
        /\ UNCHANGED <<archived, vers, stored, ui, filing, removal, refresh, typed>>
    BY DEF ServeCreatePolicy
  <1> DEFINE r == [calls[c] EXCEPT !.policy = p, !.st = "sending"]
  <1>4. r \in Call /\ r.on = None /\ r.st = "sending"
    BY <1>1, <1>3 DEF Call, Policy, SaveOK
  <1>5. calls' = [calls EXCEPT ![c] = r]
    BY <1>1, <1>2
  <1> HIDE DEF r
  <1>6. SaveOK(r, vers', stored')
    BY <1>4 DEF SaveOK
  <1>7. BackendOK' /\ Grows(vers, vers', stored, stored')
    <2>1. Grows(vers, vers', stored, stored')
      BY <1>3 DEF Grows
    <2>2. QED
      BY <1>1, <1>2, <1>3, <2>1 DEF BackendOK
  <1>8. QED
    BY <1>3, <1>4, <1>5, <1>6, <1>7, SaveStepUnseen

\* A draft that is stored is one of the policy it is stored for.
LEMMA StoreStep ==
  ASSUME IInv, NEW c \in CallIds, NEW v \in VersionIds, NEW p \in exists, Store(v, p, c),
         calls[c].policy = p, vers[v].st = "none" \/ vers[v].policy = p,
         UNCHANGED <<exists, archived, ui, filing, removal, refresh, typed>>
  PROVE  IInv'
  <1>1. calls[c] \in Call /\ BackendOK /\ calls \in [CallIds -> Call]
    BY DEF IInv, SavesOK
  <1> DEFINE new == [ policy |-> p, st |-> "draft", text |-> calls[c].text,
                      checks |-> calls[c].checks ]
             r == [calls[c] EXCEPT !.st = "ok", !.on = v]
  <1>2. /\ vers' = [vers EXCEPT ![v] = new]
        /\ stored' = [stored EXCEPT ![v] = @ \cup {calls[c].text}]
        /\ calls' = [calls EXCEPT ![c] = r]
    BY <1>1 DEF Store
  <1>3. /\ new \in Versions /\ new.policy = p /\ new.st = "draft" /\ new.text = calls[c].text
    BY <1>1 DEF Versions, Call, BackendOK
  <1>4. /\ r \in Call /\ r.on = v /\ r.st = "ok" /\ r.policy = p /\ r.text = calls[c].text
        /\ r.text \in Texts
    BY <1>1 DEF Call, Version
  <1> HIDE DEF new, r
  <1>5. /\ vers' \in [VersionIds -> Versions] /\ vers'[v] = new
        /\ \A w \in VersionIds \ {v} : vers'[w] = vers[w]
    BY <1>1, <1>2, <1>3 DEF BackendOK
  <1>6. /\ stored' \in [VersionIds -> SUBSET Texts] /\ stored'[v] = stored[v] \cup {r.text}
        /\ \A w \in VersionIds \ {v} : stored'[w] = stored[w]
    BY <1>1, <1>2, <1>4 DEF BackendOK
  <1>7. BackendOK'
    <2>1. ASSUME NEW w \in VersionIds
          PROVE  IF vers'[w].st = "none" THEN vers'[w].policy = None
                 ELSE vers'[w].policy \in exists /\ vers'[w].text \in stored'[w]
      <3>1. CASE w = v
        BY <1>3, <1>4, <1>5, <1>6, <3>1
      <3>2. CASE w # v
        BY <1>1, <1>5, <1>6, <3>2 DEF BackendOK
      <3>3. QED
        BY <3>1, <3>2
    <2>2. QED
      BY <1>1, <1>5, <1>6, <2>1 DEF BackendOK
  <1>8. Grows(vers, vers', stored, stored')
    <2>1. ASSUME NEW w \in VersionIds
          PROVE  /\ vers[w].st # "none" => vers'[w].st # "none" /\ vers'[w].policy = vers[w].policy
                 /\ stored[w] \subseteq stored'[w]
      <3>1. CASE w = v
        BY <1>3, <1>5, <1>6, <3>1
      <3>2. CASE w # v
        BY <1>5, <1>6, <3>2
      <3>3. QED
        BY <3>1, <3>2
    <2>2. QED
      BY <2>1 DEF Grows
  <1>9. SaveOK(r, vers', stored')
    BY <1>3, <1>4, <1>5, <1>6, Constants DEF SaveOK
  <1>10. QED
    BY <1>2, <1>4, <1>7, <1>8, <1>9, SaveStepUnseen

\* The save fails, or nothing more is to be done for it than to load versions.
LEMMA SaveEnds ==
  ASSUME IInv, NEW c \in CallIds, NEW r \in Call, calls' = [calls EXCEPT ![c] = r],
         SaveOK(r, vers, stored), UNCHANGED <<backend, ui, filing, removal, refresh, typed>>
  PROVE  IInv'
  <1>1. BackendOK' /\ Grows(vers, vers', stored, stored') /\ UNCHANGED <<vers, stored>>
    BY BackendKept DEF IInv, backend
  <1>2. QED
    BY <1>1, SaveStepUnseen

LEMMA LostSave ==
  ASSUME IInv, NEW c \in CallIds, calls[c].st \in {"creating", "sending", "ok"},
         calls' = [calls EXCEPT ![c].st = "failed"],
         UNCHANGED <<backend, ui, filing, removal, refresh, typed>>
  PROVE  IInv'
  <1>1. calls[c] \in Call /\ SaveOK(calls[c], vers, stored) /\ calls \in [CallIds -> Call]
    BY DEF IInv, SavesOK
  <1> DEFINE r == [calls[c] EXCEPT !.st = "failed"]
  <1>2. r \in Call /\ r.st = "failed" /\ r.on = calls[c].on /\ r.policy = calls[c].policy
    BY <1>1 DEF Call
  <1>3. calls' = [calls EXCEPT ![c] = r]
    BY <1>1
  <1> HIDE DEF r
  <1>4. SaveOK(r, vers, stored)
    BY <1>1, <1>2 DEF SaveOK
  <1>5. QED
    BY <1>2, <1>3, <1>4, SaveEnds

LEMMA ServeSaveStep ==
  ASSUME IInv, NEW c \in CallIds, ServeSave(c)
  PROVE  IInv'
  <1>1. calls[c] \in Call /\ SaveOK(calls[c], vers, stored) /\ BackendOK
    BY DEF IInv, SavesOK
  <1>2. /\ calls[c].st = "sending"
        /\ UNCHANGED <<exists, archived, ui, filing, removal, refresh, typed>>
    BY DEF ServeSave
  <1>3. CASE calls[c].on # None /\ vers[calls[c].on].st = "draft"
             /\ Store(calls[c].on, vers[calls[c].on].policy, c)
    <2>1. calls[c].on \in VersionIds
      BY <1>1, <1>3 DEF Call, Version
    <2>2. calls[c].policy = vers[calls[c].on].policy /\ vers[calls[c].on].policy \in exists
      BY <1>1, <1>2, <1>3, <2>1 DEF SaveOK, BackendOK
    <2>3. QED
      BY <1>2, <1>3, <2>1, <2>2, StoreStep
  <1>4. CASE /\ calls[c].on = None /\ calls[c].policy \in exists
             /\ \E v \in VersionIds :
                   /\ \A w \in VersionIds : vers[w].st = "none" <=> w >= v
                   /\ Store(v, calls[c].policy, c)
    <2>1. PICK v \in VersionIds :
                   /\ \A w \in VersionIds : vers[w].st = "none" <=> w >= v
                   /\ Store(v, calls[c].policy, c)
      BY <1>4
    <2>2. vers[v].st = "none"
      BY <2>1, BoundAssumption DEF VersionIds
    <2>3. QED
      BY <1>2, <1>4, <2>1, <2>2, StoreStep
  <1>5. CASE calls' = [calls EXCEPT ![c].st = "failed"] /\ UNCHANGED <<vers, stored>>
    BY <1>2, <1>5, LostSave DEF backend
  <1>6. QED
    BY <1>3, <1>4, <1>5 DEF ServeSave

LEMMA LoseSaveStep ==
  ASSUME IInv, NEW c \in CallIds, LoseSave(c)
  PROVE  IInv'
  BY LostSave DEF LoseSave

\* The list takes over a record, and is as ready as before.
LEMMA WithRecordIs ==
  ASSUME NEW list \in List, NEW p \in Policies, NEW old \in BOOLEAN
  PROVE  /\ WithRecord(list, p, old) \in List
         /\ WithRecord(list, p, old).st = list.st
         /\ list.st = "ready" => WithRecord(list, p, old).known = list.known \cup {p}
         /\ list.st # "ready" => WithRecord(list, p, old) = list
  BY DEF WithRecord, List

LEMMA SaveSucceedsStep ==
  ASSUME IInv, NEW c \in CallIds, SaveSucceeds(c)
  PROVE  IInv'
  <1> DEFINE p == calls[c].policy
             on == calls[c].on
             list == WithRecord(ui.list, p, calls[c].old)
             e == [ui EXCEPT !.draft = on, !.preserve = p, !.saved = p, !.sel = p,
                             !.list = list, !.versions = NoVersions("loading")]
             u == Saved(c)
             b == calls[c].renewed /\ p = ui.sel
             r == [NoCall EXCEPT !.st = "reload", !.policy = p]
  <1>1. /\ calls[c].st = "ok" /\ ui' = Rendered(u, b, TRUE) /\ calls' = [calls EXCEPT ![c] = r]
        /\ UNCHANGED <<backend, filing, removal, refresh, typed>>
    BY DEF SaveSucceeds
  <1>2. /\ calls[c] \in Call /\ SaveOK(calls[c], vers, stored) /\ BackendOK /\ PageOK
        /\ ui \in Page /\ TypedOK /\ SavesOK(calls, vers, stored)
    BY DEF IInv, SavesOK, PageOK, Fits
  <1>3. on \in VersionIds /\ on # None /\ calls[c].text \in stored[on] /\ vers[on].policy = p
        /\ vers[on].st # "none"
    BY <1>1, <1>2 DEF SaveOK, Call, Version
  <1>4. p \in Policies /\ p # None
    BY <1>2, <1>3, Constants DEF BackendOK
  <1>5. calls[c].text \in Texts /\ calls[c].checks \in BOOLEAN /\ calls[c].old \in BOOLEAN
        /\ b \in BOOLEAN
    BY <1>2 DEF Call
  <1>6. list \in List /\ list.st = ui.list.st /\ (list.st = "ready" => p \in list.known)
    BY <1>2, <1>4, <1>5, WithRecordIs DEF Page
  <1>7. u = Hydrated(e, "draft_version", on, calls[c].text, calls[c].checks)
    BY DEF Saved
  <1>8. SavesOK(calls, vers, stored)' /\ BackendOK' /\ RequestsOK' /\ UNCHANGED <<vers, stored>>
    <2>1. BackendOK' /\ RequestsOK' /\ Grows(vers, vers', stored, stored')
          /\ UNCHANGED <<vers, stored>>
      BY <1>1, BackendKept, RequestsKept DEF IInv, backend
    <2>2. r \in Call /\ r.st = "reload"
      BY <1>4, Constants DEF NoCall, Call, Policy
    <2> HIDE DEF r
    <2>3. SaveOK(r, vers', stored')
      BY <2>2 DEF SaveOK
    <2>4. QED
      BY <1>1, <1>2, <2>1, <2>2, <2>3, SaveSet
  <1> HIDE DEF p, on, list, b, u, r
  <1>9. /\ e \in Page /\ e.list = list /\ e.sel = p /\ e.load = ui.load /\ e.saved = p
        /\ e.preserve = p
    <2>1. NoVersions("loading") \in ShownVersions /\ on \in Version /\ p \in Policy
      BY <1>3, <1>4 DEF NoVersions, ShownVersions, Version, Policy
    <2>2. e \in Page
      BY <1>2, <1>6, <2>1 DEF Page
    <2>3. e.list = list /\ e.sel = p /\ e.load = ui.load /\ e.saved = p /\ e.preserve = p
      BY <1>2 DEF Page
    <2>4. QED
      BY <2>2, <2>3
  <1> HIDE DEF e
  <1>10. /\ u \in Page /\ u.list = list /\ u.sel = p /\ u.load = ui.load /\ u.saved = p
         /\ u.preserve = p /\ u.text = calls[c].text /\ u.source.id = on
    <2>1. [ kind |-> "draft_version", id |-> on ] \in Source
      BY <1>3 DEF Source, Version
    <2>2. QED
      BY <1>5, <1>7, <1>9, <2>1, HydratedIs
  <1>11. Fits(u, selectedPolicy(ui), stored)
    BY <1>2, <1>3, <1>10 DEF PageOK, Fits, LoadOf, EditorOK
  <1>12. PageOK'
    BY <1>1, <1>5, <1>8, <1>11, PageRendered
  <1>13. ASSUME typed, ui.list.st = "ready"
         PROVE  LoadingVersions' /\ (ui'.saved = ui'.load.policy \/ ~ui'.load.hydrate)
    <2>1. selectedPolicy(u) = p
      BY <1>6, <1>10, <1>13 DEF selectedPolicy
    <2>2. /\ ui'.saved = p
          /\ ui'.load = Fresh(u) \/ (ui'.load = ui.load /\ p = selectedPolicy(ui))
      BY <1>1, <1>4, <1>5, <1>10, <2>1, RenderedIs
    <2>3. CASE ui'.load = Fresh(u)
      BY <1>10, <2>1, <2>3, FreshIs DEF LoadingVersions
    <2>4. CASE ui'.load = ui.load /\ p = selectedPolicy(ui)
      <3>1. LoadingVersions
        BY <1>2, <1>13 DEF TypedOK
      <3>2. ui.load.policy = p
        BY <1>2, <2>4, <3>1 DEF PageOK, Fits, LoadOf, LoadingVersions
      <3>3. QED
        BY <2>2, <2>4, <3>1, <3>2 DEF LoadingVersions
    <2>5. QED
      BY <2>2, <2>3, <2>4
  <1>14. ui'.list.st = ui.list.st
    BY <1>1, <1>5, <1>6, <1>10, RenderedIs
  <1>15. TypedOK'
    BY <1>1, <1>13, <1>14 DEF TypedOK
  <1>16. QED
    BY <1>8, <1>12, <1>15 DEF IInv

\* Save c is over, whatever the page makes of it.
LEMMA SaveIsOver ==
  ASSUME IInv, NEW c \in CallIds, calls' = [calls EXCEPT ![c] = NoCall],
         UNCHANGED <<backend, filing, removal, refresh>>
  PROVE  /\ SavesOK(calls, vers, stored)' /\ BackendOK' /\ RequestsOK'
         /\ UNCHANGED <<vers, stored>>
  <1>1. BackendOK' /\ RequestsOK' /\ Grows(vers, vers', stored, stored')
        /\ UNCHANGED <<vers, stored>>
    BY BackendKept, RequestsKept DEF IInv, backend
  <1>2. SaveOK(NoCall, vers', stored')
    BY DEF SaveOK, NoCall
  <1>3. QED
    BY <1>1, <1>2, SaveSet, Constants DEF IInv

LEMMA SaveFailsStep ==
  ASSUME IInv, NEW c \in CallIds, SaveFails(c)
  PROVE  IInv'
  <1>1. /\ calls' = [calls EXCEPT ![c] = NoCall] /\ ui' = [ui EXCEPT !.save = "save_error"]
        /\ UNCHANGED <<backend, filing, removal, refresh, typed>>
    BY DEF SaveFails
  <1>2. /\ SavesOK(calls, vers, stored)' /\ BackendOK' /\ RequestsOK' /\ UNCHANGED stored
    BY <1>1, SaveIsOver
  <1>3. ui \in Page /\ PageOK /\ TypedOK
    BY DEF IInv, PageOK, Fits
  <1>4. /\ ui' \in Page /\ ui'.list = ui.list /\ ui'.sel = ui.sel /\ ui'.load = ui.load
        /\ ui'.text = ui.text /\ ui'.source = ui.source /\ ui'.dirty = ui.dirty
        /\ ui'.saved = ui.saved /\ ui'.save = "save_error"
    BY <1>1, <1>3 DEF Page
  <1>5. PageOK' /\ TypedOK'
    BY <1>1, <1>2, <1>3, <1>4, StatusPage
  <1>6. QED
    BY <1>2, <1>5 DEF IInv

LEMMA ReadReloadStep ==
  ASSUME IInv, NEW c \in CallIds, ReadReload(c)
  PROVE  IInv'
  <1> DEFINE got == VersionsOf(calls[c].policy)
             r == [calls[c] EXCEPT !.st = "reloaded", !.got = got]
  <1>1. calls[c] \in Call /\ calls \in [CallIds -> Call] /\ got \in Answer
    BY VersionsOfOK DEF IInv, SavesOK
  <1>2. /\ calls' = [calls EXCEPT ![c].st = "reloaded", ![c].got = got]
        /\ UNCHANGED <<backend, ui, filing, removal, refresh, typed>>
    BY DEF ReadReload
  <1> HIDE DEF got
  <1>3. calls' = [calls EXCEPT ![c] = r]
    BY <1>1, <1>2
  <1>4. r \in Call /\ r.st = "reloaded"
    BY <1>1 DEF Call
  <1> HIDE DEF r
  <1>5. SaveOK(r, vers, stored)
    BY <1>4 DEF SaveOK
  <1>6. QED
    BY <1>2, <1>3, <1>4, <1>5, SaveEnds

\* A render that neither selects nor lists anything else lets the editor and its load be.
LEMMA RenderKeeps ==
  ASSUME NEW u \in Page, NEW d \in BOOLEAN, u.list = ui.list, u.sel = ui.sel
  PROVE  LET r == Rendered(u, FALSE, d) IN
         /\ r \in Page /\ r.list = u.list /\ r.sel = u.sel /\ r.text = u.text
         /\ r.save = u.save /\ r.saved = u.saved /\ r.source = u.source
         /\ r.checks = u.checks /\ r.dirty = u.dirty /\ r.load = u.load
  <1>1. selectedPolicy(u) = selectedPolicy(ui)
    BY DEF selectedPolicy
  <1>2. QED
    BY <1>1, RenderedIs

LEMMA ShowReloadStep ==
  ASSUME IInv, NEW c \in CallIds, ShowReload(c)
  PROVE  IInv'
  <1> DEFINE w == ShowsVersions(ui, calls[c].got, FALSE, calls[c].policy)
             d == calls[c].got.latest # None
  <1>1. /\ calls' = [calls EXCEPT ![c] = NoCall] /\ ui' = Rendered(w, FALSE, d)
        /\ UNCHANGED <<backend, filing, removal, refresh, typed>>
    BY DEF ShowReload
  <1>2. /\ SavesOK(calls, vers, stored)' /\ BackendOK' /\ RequestsOK' /\ UNCHANGED stored
    BY <1>1, SaveIsOver
  <1>3. /\ PageOK /\ TypedOK /\ calls[c].got \in Answer /\ calls[c].policy \in Policy
        /\ d \in BOOLEAN
    BY DEF IInv, SavesOK, Call
  <1>4. /\ Fits(w, selectedPolicy(ui), stored) /\ w.list = ui.list /\ w.sel = ui.sel
        /\ w.dirty = ui.dirty /\ w.saved = ui.saved /\ w.load = ui.load
    <2>1. Fits(ui, selectedPolicy(ui), stored)
      BY <1>3 DEF PageOK
    <2>2. PICK got \in Answer, policy \in Policy : got = calls[c].got /\ policy = calls[c].policy
      BY <1>3
    <2> DEFINE r == ShowsVersions(ui, got, FALSE, policy)
    <2>3. /\ Fits(r, selectedPolicy(ui), stored) /\ r.list = ui.list /\ r.sel = ui.sel
          /\ r.dirty = ui.dirty /\ r.saved = ui.saved /\ r.load = ui.load
      BY <2>1, ShowsVersionsOK, ZenonT(60)
    <2>4. r = w
      BY <2>2
    <2> HIDE DEF r, w
    <2>5. QED
      BY <2>3, <2>4
  <1> HIDE DEF w, d
  <1>5. PageOK'
    BY <1>1, <1>2, <1>3, <1>4, PageRendered
  <1>6. /\ ui'.list = ui.list /\ ui'.dirty = ui.dirty /\ ui'.saved = ui.saved
        /\ ui'.load = ui.load
    BY <1>1, <1>3, <1>4, RenderKeeps DEF Fits
  <1>7. TypedOK'
    BY <1>1, <1>3, <1>6 DEF TypedOK, LoadingVersions
  <1>8. QED
    BY <1>2, <1>5, <1>7 DEF IInv

LEMMA FailReloadStep ==
  ASSUME IInv, NEW c \in CallIds, FailReload(c)
  PROVE  IInv'
  <1> DEFINE u == [ui EXCEPT !.draft = None, !.versions = NoVersions("error")]
  <1>1. /\ calls' = [calls EXCEPT ![c] = NoCall] /\ ui' = Rendered(u, FALSE, FALSE)
        /\ UNCHANGED <<backend, filing, removal, refresh, typed>>
    BY DEF FailReload, Render
  <1>2. /\ SavesOK(calls, vers, stored)' /\ BackendOK' /\ RequestsOK' /\ UNCHANGED stored
    BY <1>1, SaveIsOver
  <1>3. /\ PageOK /\ TypedOK /\ ui \in Page /\ NoVersions("error") \in ShownVersions
        /\ None \in Version
    BY DEF IInv, PageOK, Fits, NoVersions, ShownVersions, Version
  <1>4. /\ u \in Page /\ u.list = ui.list /\ u.sel = ui.sel /\ u.text = ui.text
        /\ u.save = ui.save /\ u.source = ui.source /\ u.dirty = ui.dirty
        /\ u.saved = ui.saved /\ u.load = ui.load
    BY <1>3 DEF Page
  <1> HIDE DEF u
  <1>5. Fits(u, selectedPolicy(ui), stored)
    BY <1>3, <1>4 DEF PageOK, Fits, LoadOf, EditorOK
  <1>6. PageOK'
    BY <1>1, <1>2, <1>5, PageRendered
  <1>7. /\ ui'.list = ui.list /\ ui'.dirty = ui.dirty /\ ui'.saved = ui.saved
        /\ ui'.load = ui.load
    BY <1>1, <1>4, RenderKeeps
  <1>8. TypedOK'
    BY <1>1, <1>3, <1>7 DEF TypedOK, LoadingVersions
  <1>9. QED
    BY <1>2, <1>6, <1>8 DEF IInv

-----------------------------------------------------------------------------
\* Submitting, removing, and what others do.

LEMMA SubmitPageStep ==
  ASSUME IInv, UNCHANGED <<backend, calls, removal, refresh, typed>>,
         NEW r \in { ui.review, NoReview, [ on |-> filing.on, status |-> StateOf(filing.on) ] },
         NEW s \in {"submitting", "success", "error", ui.submit},
         ui' = [ui EXCEPT !.submit = s, !.review = r], RequestsOK'
  PROVE  IInv'
  <1>1. BackendOK' /\ Grows(vers, vers', stored, stored') /\ UNCHANGED <<vers, stored>>
    BY BackendKept DEF IInv, backend
  <1>2. SavesOK(calls, vers, stored)'
    BY <1>1, SavesKept DEF IInv
  <1>3. ui \in Page /\ PageOK /\ TypedOK /\ filing.on \in Version
    BY DEF IInv, PageOK, Fits, RequestsOK
  <1>4. r \in [ on : Version, status : {"none", "pending", "open", "closed"} ]
    BY <1>3 DEF NoReview, Page, Version, StateOf
  <1>5. s \in {"idle", "submitting", "success", "error"}
    BY <1>3 DEF Page
  <1>6. /\ ui' \in Page /\ ui'.list = ui.list /\ ui'.sel = ui.sel /\ ui'.load = ui.load
        /\ ui'.text = ui.text /\ ui'.source = ui.source /\ ui'.dirty = ui.dirty
        /\ ui'.saved = ui.saved /\ ui'.save = ui.save
    BY <1>3, <1>4, <1>5 DEF Page
  <1>7. PageOK' /\ TypedOK'
    BY <1>1, <1>3, <1>6, StatusPage
  <1>8. QED
    BY <1>1, <1>2, <1>7 DEF IInv

LEMMA HandleSubmitReviewStep ==
  ASSUME IInv, handleSubmitReview
  PROVE  IInv'
  <1>0. ui \in Page /\ RequestsOK
    BY DEF IInv, PageOK, Fits
  <1>1. /\ filing' = [NoFiling EXCEPT !.st = "sent", !.on = selectedDraftVersion(ui)]
        /\ ui' = [ui EXCEPT !.submit = "submitting"] /\ selectedDraftVersion(ui) # None
        /\ UNCHANGED <<backend, calls, removal, refresh, typed>>
    BY DEF handleSubmitReview, submitDisabled
  <1>2. RequestsOK'
    BY <1>0, <1>1, SelectedDraft DEF RequestsOK, NoFiling
  <1>3. ui' = [ui EXCEPT !.submit = "submitting", !.review = ui.review]
    BY <1>0, <1>1 DEF Page
  <1>4. QED
    BY <1>1, <1>2, <1>3, SubmitPageStep

LEMMA FilingSucceedsStep ==
  ASSUME IInv, FilingSucceeds
  PROVE  IInv'
  <1>1. /\ ui' = [ui EXCEPT !.submit = "success", !.review = NoReview]
        /\ filing' = [filing EXCEPT !.st = "reload"] /\ filing.st \in {"ok", "conflict"}
        /\ UNCHANGED <<backend, calls, removal, refresh, typed>>
    BY DEF FilingSucceeds
  <1>2. RequestsOK'
    BY <1>1 DEF IInv, RequestsOK
  <1>3. QED
    BY <1>1, <1>2, SubmitPageStep

LEMMA FilingFailsStep ==
  ASSUME IInv, FilingFails
  PROVE  IInv'
  <1>0. ui \in Page
    BY DEF IInv, PageOK, Fits
  <1>1. /\ ui' = [ui EXCEPT !.submit = "error"] /\ filing' = NoFiling
        /\ UNCHANGED <<backend, calls, removal, refresh, typed>>
    BY DEF FilingFails
  <1>2. RequestsOK'
    BY <1>1 DEF IInv, RequestsOK, NoFiling, Version
  <1>3. ui' = [ui EXCEPT !.submit = "error", !.review = ui.review]
    BY <1>0, <1>1 DEF Page
  <1>4. QED
    BY <1>1, <1>2, <1>3, SubmitPageStep

LEMMA ShowFiledStep ==
  ASSUME IInv, ShowFiled
  PROVE  IInv'
  <1> DEFINE review == [ on |-> filing.on, status |-> StateOf(filing.on) ]
  <1>0. ui \in Page
    BY DEF IInv, PageOK, Fits
  <1>1. /\ ui' = [ui EXCEPT !.review = review] /\ filing' = NoFiling
        /\ UNCHANGED <<backend, calls, removal, refresh, typed>>
    BY DEF ShowFiled
  <1>2. RequestsOK'
    BY <1>1 DEF IInv, RequestsOK, NoFiling, Version
  <1>3. ui' = [ui EXCEPT !.submit = ui.submit, !.review = review]
    BY <1>0, <1>1 DEF Page
  <1>4. QED
    BY <1>1, <1>2, <1>3, SubmitPageStep

\* The versions change their state, and nothing else.
LEMMA StatesMove ==
  ASSUME IInv, vers' \in [VersionIds -> Versions],
         \A v \in VersionIds : /\ vers'[v].policy = vers[v].policy /\ vers'[v].text = vers[v].text
                               /\ vers[v].st = "none" <=> vers'[v].st = "none",
         UNCHANGED <<exists, archived, stored, ui, calls, refresh, typed>>, RequestsOK'
  PROVE  IInv'
  <1>1. Grows(vers, vers', stored, stored')
    BY DEF Grows
  <1>2. BackendOK'
    BY DEF IInv, BackendOK
  <1>3. SavesOK(calls, vers, stored)' /\ PageOK' /\ TypedOK'
    BY <1>1, SavesKept, PageKept, TypedKept DEF IInv
  <1>4. QED
    BY <1>2, <1>3 DEF IInv

LEMMA ServeFilingStep ==
  ASSUME IInv, ServeFiling
  PROVE  IInv'
  <1>1. /\ filing.st = "sent"
        /\ UNCHANGED <<exists, archived, stored, ui, calls, removal, refresh, typed>>
    BY DEF ServeFiling
  <1>2. RequestsOK /\ filing.on \in VersionIds /\ vers \in [VersionIds -> Versions]
    BY <1>1 DEF IInv, RequestsOK, Version, BackendOK
  <1>3. /\ RequestsOK'
        /\ \/ UNCHANGED vers
           \/ vers[filing.on].st = "draft" /\ vers' = [vers EXCEPT ![filing.on].st = "pending"]
    BY <1>1, <1>2 DEF ServeFiling, RequestsOK
  <1>4. CASE UNCHANGED vers
    BY <1>1, <1>2, <1>3, <1>4, StatesMove
  <1>5. CASE vers[filing.on].st = "draft" /\ vers' = [vers EXCEPT ![filing.on].st = "pending"]
    <2>1. ASSUME NEW v \in VersionIds
          PROVE  /\ vers'[v] \in Versions
                 /\ vers'[v].policy = vers[v].policy /\ vers'[v].text = vers[v].text
                 /\ vers[v].st = "none" <=> vers'[v].st = "none"
      <3>1. vers[v] \in Versions
        BY <1>2
      <3>2. CASE v = filing.on
        <4>1. vers'[v] = [vers[v] EXCEPT !.st = "pending"]
          BY <1>2, <1>5, <3>2
        <4>2. QED
          BY <1>5, <3>1, <3>2, <4>1 DEF Versions
      <3>3. CASE v # filing.on
        BY <1>2, <1>5, <3>1, <3>3
      <3>4. QED
        BY <3>2, <3>3
    <2>2. vers' \in [VersionIds -> Versions]
      BY <1>2, <1>5, <2>1
    <2>3. QED
      BY <1>1, <1>3, <2>1, <2>2, StatesMove
  <1>6. QED
    BY <1>3, <1>4, <1>5

LEMMA OthersActStep ==
  ASSUME IInv, OthersAct
  PROVE  IInv'
  <1>0. vers \in [VersionIds -> Versions] /\ RequestsOK
    BY DEF IInv, BackendOK
  <1>1. UNCHANGED <<exists, archived, stored, ui, calls, filing, removal, refresh, typed>>
    BY DEF OthersAct
  <1>2. RequestsOK'
    BY <1>0, <1>1, RequestsKept
  <1>3. PICK v \in VersionIds :
        \/ /\ vers[v].st = "pending"
           /\ \E st \in {"draft", "approved"} : vers' = [vers EXCEPT ![v].st = st]
        \/ /\ vers[v].st = "approved"
           /\ vers' = [w \in VersionIds |->
                  [vers[w] EXCEPT !.st = CASE w = v -> "active"
                                           [] vers[w].policy = vers[v].policy /\ @ = "active"
                                                -> "superseded"
                                           [] OTHER -> @]]
    BY DEF OthersAct
  <1>4. ASSUME NEW w \in VersionIds
        PROVE  \E st \in {"none", "draft", "pending", "approved", "active", "superseded"} :
                 /\ vers'[w] = [vers[w] EXCEPT !.st = st] /\ (vers[w].st = "none" <=> st = "none")
    <2>1. vers[w] \in Versions
      BY <1>0
    <2>0. vers[w] = [vers[w] EXCEPT !.st = vers[w].st]
          /\ vers[w].st \in {"none", "draft", "pending", "approved", "active", "superseded"}
      BY <2>1 DEF Versions
    <2>2. CASE /\ vers[v].st = "pending"
               /\ \E st \in {"draft", "approved"} : vers' = [vers EXCEPT ![v].st = st]
      <3>1. PICK st \in {"draft", "approved"} : vers' = [vers EXCEPT ![v].st = st]
        BY <2>2
      <3>2. CASE w = v
        BY <1>0, <2>1, <2>2, <3>1, <3>2
      <3>3. CASE w # v
        <4>1. vers'[w] = vers[w]
          BY <1>0, <3>1, <3>3
        <4>2. QED
          BY <2>0, <4>1
      <3>4. QED
        BY <3>2, <3>3
    <2>3. CASE /\ vers[v].st = "approved"
               /\ vers' = [x \in VersionIds |->
                      [vers[x] EXCEPT !.st = CASE x = v -> "active"
                                           [] vers[x].policy = vers[v].policy /\ @ = "active"
                                                -> "superseded"
                                           [] OTHER -> @]]
      <3>1. \/ w = v /\ vers'[w] = [vers[w] EXCEPT !.st = "active"]
            \/ vers[w].st = "active" /\ vers'[w] = [vers[w] EXCEPT !.st = "superseded"]
            \/ vers'[w] = [vers[w] EXCEPT !.st = vers[w].st]
        BY <2>3
      <3>2. QED
        BY <2>0, <2>3, <3>1
    <2>4. QED
      BY <1>3, <2>2, <2>3
  <1>5. ASSUME NEW w \in VersionIds
        PROVE  /\ vers'[w] \in Versions
               /\ vers'[w].policy = vers[w].policy /\ vers'[w].text = vers[w].text
               /\ vers[w].st = "none" <=> vers'[w].st = "none"
    <2>1. vers[w] \in Versions
      BY <1>0
    <2>2. PICK st \in {"none", "draft", "pending", "approved", "active", "superseded"} :
                 /\ vers'[w] = [vers[w] EXCEPT !.st = st] /\ (vers[w].st = "none" <=> st = "none")
      BY <1>4
    <2>3. QED
      BY <2>1, <2>2 DEF Versions
  <1>6. vers' = [w \in VersionIds |-> vers'[w]]
    BY <1>0, <1>3
  <1>7. vers' \in [VersionIds -> Versions]
    BY <1>5, <1>6
  <1>8. QED
    BY <1>1, <1>2, <1>5, <1>7, StatesMove

\* A request comes, goes or fails, and only it changes.
LEMMA RequestStep ==
  ASSUME IInv, UNCHANGED <<backend, ui, calls, refresh, typed>>, RequestsOK'
  PROVE  IInv'
  <1>1. BackendOK' /\ Grows(vers, vers', stored, stored')
    BY BackendKept DEF IInv
  <1>2. SavesOK(calls, vers, stored)' /\ PageOK' /\ TypedOK'
    BY <1>1, SavesKept, PageKept, TypedKept DEF IInv
  <1>3. QED
    BY <1>1, <1>2 DEF IInv

LEMMA RequestSteps ==
  ASSUME IInv, LoseFiling \/ RemovalFails
  PROVE  IInv'
  <1>1. UNCHANGED <<backend, ui, calls, refresh, typed>>
    BY DEF LoseFiling, RemovalFails
  <1>2. RequestsOK'
    BY DEF LoseFiling, RemovalFails, IInv, RequestsOK, NoRemoval, Policy
  <1>3. QED
    BY <1>1, <1>2, RequestStep

LEMMA LifecycleStep ==
  ASSUME IInv, NEW act \in {"delete", "archive", "move"}, NEW p \in Policies, Lifecycle(act, p)
  PROVE  IInv'
  <1>1. UNCHANGED <<backend, ui, calls, refresh, typed>>
    BY DEF Lifecycle
  <1>2. RequestsOK'
    BY Constants DEF Lifecycle, IInv, RequestsOK, Policy
  <1>3. QED
    BY <1>1, <1>2, RequestStep

LEMMA LifecycleSteps ==
  ASSUME IInv, \/ handleDeletePolicy \/ handleArchivePolicy
               \/ \E p \in Movable : handleMovePolicyToFolder(p)
  PROVE  IInv'
  <1>1. ui \in Page
    BY DEF IInv, PageOK, Fits
  <1>2. selectedPolicy(ui) # None => selectedPolicy(ui) \in Policies
    BY <1>1, SelectedPolicy DEF Policy
  <1>3. CASE handleDeletePolicy
    BY <1>2, <1>3, LifecycleStep DEF handleDeletePolicy, deletePolicyDisabled
  <1>4. CASE handleArchivePolicy
    BY <1>2, <1>4, LifecycleStep DEF handleArchivePolicy, archivePolicyDisabled
  <1>5. CASE \E p \in Movable : handleMovePolicyToFolder(p)
    <2>1. PICK p \in Movable : handleMovePolicyToFolder(p)
      BY <1>5
    <2>2. p \in Policies /\ Lifecycle("move", p)
      BY <1>1, <2>1 DEF handleMovePolicyToFolder, Page, List
    <2>3. QED
      BY <2>2, LifecycleStep
  <1>6. QED
    BY <1>3, <1>4, <1>5

\* A policy that is deleted has no version.
LEMMA ServeRemovalStep ==
  ASSUME IInv, ServeRemoval
  PROVE  IInv'
  <1> DEFINE p == removal.policy
             ok == CASE removal.act = "delete"  -> Deletable(p)
                     [] removal.act = "archive" -> Archivable(p)
                     [] OTHER                   -> p \in exists
  <1>1. /\ removal.st = "sent"
        /\ removal' = [removal EXCEPT !.st = IF ok THEN "ok" ELSE "failed"]
        /\ exists' = IF ok /\ removal.act = "delete" THEN exists \ {p} ELSE exists
        /\ archived' = IF ok /\ removal.act = "archive" THEN archived \cup {p} ELSE archived
        /\ UNCHANGED <<vers, stored, ui, calls, filing, refresh, typed>>
    BY DEF ServeRemoval
  <1>2. BackendOK /\ RequestsOK
    BY DEF IInv
  <1>3. ok /\ removal.act = "delete" => p \notin archived /\ \A v \in VersionIds : vers[v].policy # p
    BY DEF Deletable
  <1>4. ok /\ removal.act = "archive" => p \in exists
    BY DEF Archivable
  <1> HIDE DEF ok
  <1>5. BackendOK'
    <2>1. archived' \subseteq exists' /\ exists' \subseteq Policies
      BY <1>1, <1>2, <1>3, <1>4 DEF BackendOK
    <2>2. \A v \in VersionIds : vers[v].policy \in exists => vers[v].policy \in exists'
      BY <1>1, <1>3
    <2>3. QED
      BY <1>1, <1>2, <2>1, <2>2 DEF BackendOK
  <1>6. Grows(vers, vers', stored, stored')
    BY <1>1 DEF Grows
  <1>7. RequestsOK'
    BY <1>1, <1>2 DEF RequestsOK
  <1>8. SavesOK(calls, vers, stored)' /\ PageOK' /\ TypedOK'
    BY <1>1, <1>6, SavesKept, PageKept, TypedKept DEF IInv
  <1>9. QED
    BY <1>5, <1>7, <1>8 DEF IInv

LEMMA DeleteSucceedsStep ==
  ASSUME IInv, DeleteSucceeds
  PROVE  IInv'
  <1> DEFINE e == NewEditor(ui)
             u == [e EXCEPT !.list.st = "loading"]
  <1>1. /\ ui' = Rendered(u, FALSE, FALSE) /\ typed' = FALSE
        /\ refresh' = [NoRefresh EXCEPT !.st = "sent"] /\ removal' = NoRemoval
        /\ UNCHANGED <<backend, calls, filing>>
    BY DEF DeleteSucceeds, Render, loadPolicies
  <1>2. PageOK /\ ui \in Page
    BY DEF IInv, PageOK, Fits
  <1>3. e \in Page /\ e.load = ui.load /\ e.save = "unsaved"
    BY <1>2, NewEditorIs
  <1> HIDE DEF e
  <1>4. u \in Page /\ u.load = ui.load /\ u.save = "unsaved"
    BY <1>3 DEF Page, List
  <1> HIDE DEF u
  <1>5. Fits(u, selectedPolicy(ui), stored)
    BY <1>2, <1>4 DEF PageOK, Fits, LoadOf, EditorOK
  <1>6. PageOK'
    BY <1>1, <1>5, PageRendered DEF backend
  <1>7. BackendOK' /\ SavesOK(calls, vers, stored)'
    BY <1>1, BackendKept, SavesKept DEF IInv
  <1>8. RequestsOK' /\ TypedOK'
    BY <1>1 DEF IInv, RequestsOK, NoRefresh, NoRemoval, Policy, TypedOK
  <1>9. QED
    BY <1>6, <1>7, <1>8 DEF IInv

\* The record of another policy than the selected one leaves the editor alone.
LEMMA RecordReplacedStep ==
  ASSUME IInv, RecordReplaced
  PROVE  IInv'
  <1> DEFINE p == removal.policy
             hit == selectedPolicy(ui) = p
             old == p \in archived
             list == WithRecord(ui.list, p, old)
             u == [ui EXCEPT !.list = list]
  <1>1. /\ ui' = Rendered(u, hit, FALSE) /\ typed' = (typed /\ ~hit)
        /\ calls' = [c \in CallIds |-> [calls[c] EXCEPT
                        !.renewed = @ \/ (Saving(c) /\ calls[c].policy = removal.policy)]]
        /\ removal' = NoRemoval /\ UNCHANGED <<backend, filing, refresh>>
    BY DEF RecordReplaced
  <1>2. /\ ui \in Page /\ PageOK /\ RequestsOK /\ SavesOK(calls, vers, stored) /\ TypedOK
        /\ p \in Policies
    BY DEF IInv, PageOK, Fits, RequestsOK, RecordReplaced, Policy
  <1>3. hit \in BOOLEAN /\ old \in BOOLEAN
    OBVIOUS
  <1>4. /\ list \in List /\ list.st = ui.list.st
        /\ list.st = "ready" => list.known = ui.list.known \cup {p}
    <2>1. ui.list \in List
      BY <1>2 DEF Page
    <2>2. \A o \in BOOLEAN :
            LET l == WithRecord(ui.list, p, o) IN
            /\ l \in List /\ l.st = ui.list.st
            /\ l.st = "ready" => l.known = ui.list.known \cup {p}
      BY <1>2, <2>1, WithRecordIs
    <2> HIDE DEF old, p
    <2>3. QED
      BY <1>3, <2>2
  <1> HIDE DEF list, old
  <1>5. /\ u \in Page /\ u.list = list /\ u.sel = ui.sel /\ u.load = ui.load
        /\ u.text = ui.text /\ u.save = ui.save /\ u.source = ui.source
        /\ u.dirty = ui.dirty /\ u.saved = ui.saved
    BY <1>2, <1>4 DEF Page
  <1> HIDE DEF u
  <1>6. Fits(u, selectedPolicy(ui), stored)
    BY <1>2, <1>5 DEF PageOK, Fits, EditorOK, LoadOf
  <1>7. PageOK'
    BY <1>1, <1>3, <1>6, PageRendered DEF backend
  <1>8. BackendOK' /\ UNCHANGED <<vers, stored>>
    BY <1>1, BackendKept DEF IInv, backend
  <1>9. SavesOK(calls, vers, stored)'
    <2>1. ASSUME NEW c \in CallIds
          PROVE  /\ calls'[c] \in Call
                 /\ calls'[c].st = calls[c].st /\ calls'[c].on = calls[c].on
                 /\ calls'[c].policy = calls[c].policy /\ calls'[c].text = calls[c].text
      <3> DEFINE renewed == calls[c].renewed \/ (Saving(c) /\ calls[c].policy = p)
      <3>1. calls'[c] = [calls[c] EXCEPT !.renewed = renewed] /\ calls[c] \in Call
        BY <1>1, <1>2 DEF SavesOK
      <3>2. renewed \in BOOLEAN
        BY DEF Saving
      <3> HIDE DEF renewed
      <3>3. QED
        BY <3>1, <3>2 DEF Call
    <2>2. \A c \in CallIds : SaveOK(calls'[c], vers, stored)
      BY <1>2, <2>1 DEF SavesOK, SaveOK
    <2>3. calls' \in [CallIds -> Call]
      BY <1>1, <2>1
    <2>4. QED
      BY <1>8, <2>2, <2>3 DEF SavesOK
  <1>10. RequestsOK'
    BY <1>1, <1>2 DEF RequestsOK, NoRemoval, Policy
  <1>11. ui'.list = list
    BY <1>1, <1>3, <1>5, RenderedIs
  <1>12. ASSUME typed, ~hit, ui.list.st = "ready"
         PROVE  ui'.load = ui.load /\ ui'.dirty = ui.dirty /\ ui'.saved = ui.saved
    <2>1. selectedPolicy(ui) # None
      BY <1>2, <1>12 DEF TypedOK, LoadingVersions, PageOK, Fits, LoadOf
    <2>2. selectedPolicy(u) = selectedPolicy(ui)
      BY <1>4, <1>5, <1>12, <2>1 DEF selectedPolicy
    <2>3. hit = FALSE
      BY <1>3, <1>12
    <2>4. QED
      BY <1>1, <1>3, <1>5, <2>2, <2>3, RenderedIs
  <1>13. TypedOK'
    BY <1>1, <1>2, <1>4, <1>11, <1>12 DEF TypedOK, LoadingVersions
  <1>14. QED
    BY <1>7, <1>8, <1>9, <1>10, <1>13 DEF IInv

-----------------------------------------------------------------------------
\* The invariant.

LEMMA InitOK ==
  ASSUME Init
  PROVE  IInv
  <1> DEFINE p == Oldest(exists)
             list == [ st |-> "ready", known |-> exists, old |-> {} ]
             load == [NoLoad EXCEPT !.st = "sent", !.policy = p, !.hydrate = TRUE]
  <1>1. /\ vers = FirstVersion /\ exists = FirstPolicies /\ archived = {}
        /\ stored = [ v \in VersionIds |-> IF vers[v].st = "none" THEN {} ELSE {vers[v].text} ]
        /\ ui = [ list |-> list, sel |-> p, versions |-> NoVersions("loading"),
                  draft |-> None, text |-> "new", checks |-> FALSE, source |-> Local,
                  save |-> "unsaved", submit |-> "idle", dirty |-> FALSE,
                  preserve |-> None, saved |-> None, review |-> NoReview, asking |-> None,
                  load |-> load ]
        /\ calls = [ c \in CallIds |-> NoCall ] /\ typed = FALSE
        /\ filing = NoFiling /\ removal = NoRemoval /\ refresh = NoRefresh
    BY DEF Init
  <1>2. p \in exists /\ p \in Policies /\ p # None /\ exists \subseteq Policies
    BY <1>1, FirstAssumption, OldestIs, Constants
  <1>3. BackendOK
    <2>1. vers \in [VersionIds -> Versions]
      BY <1>1, FirstAssumption
    <2>2. stored \in [VersionIds -> SUBSET Texts]
      BY <1>1, <2>1 DEF Versions
    <2>3. ASSUME NEW v \in VersionIds
          PROVE  IF vers[v].st = "none" THEN vers[v].policy = None
                 ELSE vers[v].policy \in exists /\ vers[v].text \in stored[v]
      BY <1>1, FirstAssumption
    <2>4. QED
      BY <1>1, <1>2, <2>1, <2>2, <2>3 DEF BackendOK
  <1>4. PageOK
    <2>1. list \in List /\ list.st = "ready" /\ list.known = exists
      BY <1>2 DEF List
    <2>2. load \in Load /\ load.st = "sent" /\ load.policy = p /\ load.got = NoAnswer
      BY <1>2, Constants DEF NoLoad, Load, Policy
    <2>3. /\ NoVersions("loading") \in ShownVersions /\ None \in Version /\ None \in Policy
          /\ p \in Policy /\ "new" \in Texts
          /\ NoReview \in [ on : Version, status : {"none", "pending", "open", "closed"} ]
      BY <1>2 DEF NoVersions, ShownVersions, Version, Policy, NoReview, Texts
    <2> HIDE DEF list, load, p
    <2>4. ui \in Page
      BY <1>1, <2>1, <2>2, <2>3, Constants DEF Page
    <2>5. ui.list = list /\ ui.sel = p /\ ui.load = load /\ ui.save = "unsaved"
      BY <1>1
    <2>6. selectedPolicy(ui) = p
      BY <1>2, <2>1, <2>5 DEF selectedPolicy
    <2>7. QED
      BY <1>2, <2>2, <2>4, <2>5, <2>6, Constants DEF PageOK, Fits, LoadOf, GotOK, EditorOK
  <1>5. SavesOK(calls, vers, stored)
    <2>1. SaveOK(NoCall, vers, stored)
      BY DEF SaveOK, NoCall
    <2>2. QED
      BY <1>1, <2>1, Constants DEF SavesOK
  <1>6. RequestsOK /\ TypedOK
    BY <1>1 DEF RequestsOK, TypedOK, NoFiling, NoRemoval, NoRefresh, Version, Policy
  <1>7. QED
    BY <1>3, <1>4, <1>5, <1>6 DEF IInv

LEMMA ClickOK ==
  ASSUME IInv, Click
  PROVE  IInv'
  <1>1. CASE handleSubmitReview \/ handleRefresh \/ handleNewPolicy
    BY <1>1, HandleSubmitReviewStep, HandleRefreshStep, HandleNewPolicyStep
  <1>2. CASE handleAddPolicyCheck \/ handleRemovePolicyCheck
    BY <1>2, CheckSteps
  <1>3. CASE handleValidate \/ handleSelectRule
    BY <1>3, ValidateAndRuleSteps
  <1>4. CASE handleSaveDraft \/ handleCreateNewDraftForChanges
    BY <1>4, HandleSaveSteps
  <1>5. CASE handleDeletePolicy \/ handleArchivePolicy \/ \E p \in Movable : handleMovePolicyToFolder(p)
    BY <1>5, LifecycleSteps
  <1>6. CASE \E p \in Policies : handleSelectPolicy(p)
    BY <1>6, HandleSelectPolicyStep
  <1>7. CASE \E t \in Typed : handleChangeCondition(t)
    BY <1>7, HandleChangeConditionStep
  <1>8. QED
    BY <1>1, <1>2, <1>3, <1>4, <1>5, <1>6, <1>7 DEF Click

LEMMA AnswerOK ==
  ASSUME IInv, \/ Loading \/ Submitting \/ Removing \/ Failing \/ OthersAct
               \/ \E c \in CallIds : SaveStep(c)
  PROVE  IInv'
  <1>1. CASE Loading
    BY <1>1, ReadPoliciesStep, ShowPoliciesStep, ReadVersionsStep, ShowVersionsStep,
       ShowRulesStep, ShowRuleChecksStep, ValidateAndRuleSteps, ReviewStateStep DEF Loading
  <1>2. CASE Submitting
    BY <1>2, ServeFilingStep, FilingSucceedsStep, FilingFailsStep, ShowFiledStep DEF Submitting
  <1>3. CASE Removing
    BY <1>3, ServeRemovalStep, DeleteSucceedsStep, RecordReplacedStep DEF Removing
  <1>4. CASE Failing
    <2>1. CASE FailPolicies \/ FailVersions \/ FailRules
      BY <2>1, FailPoliciesStep, FailVersionsStep, FailRulesStep
    <2>2. CASE FailReviewState
      BY <2>2, ReviewStateStep
    <2>3. CASE LoseFiling \/ RemovalFails
      BY <2>3, RequestSteps
    <2>4. CASE \E c \in CallIds : LoseSave(c) \/ FailReload(c)
      BY <2>4, LoseSaveStep, FailReloadStep
    <2>5. QED
      BY <1>4, <2>1, <2>2, <2>3, <2>4 DEF Failing
  <1>5. CASE OthersAct
    BY <1>5, OthersActStep
  <1>6. CASE \E c \in CallIds : SaveStep(c)
    <2>1. PICK c \in CallIds : SaveStep(c)
      BY <1>6
    <2>2. QED
      BY <2>1, ServeCreatePolicyStep, ServeSaveStep, SaveSucceedsStep, SaveFailsStep,
         ReadReloadStep, ShowReloadStep DEF SaveStep
  <1>7. QED
    BY <1>1, <1>2, <1>3, <1>4, <1>5, <1>6

LEMMA NextOK ==
  ASSUME IInv, [Next]_vars
  PROVE  IInv'
  <1>1. CASE Click
    BY <1>1, ClickOK
  <1>2. CASE \/ Loading \/ Submitting \/ Removing \/ Failing \/ OthersAct
             \/ \E c \in CallIds : SaveStep(c)
    BY <1>2, AnswerOK
  <1>3. CASE UNCHANGED vars
    <2>1. UNCHANGED <<backend, ui, calls, filing, removal, refresh, typed>>
      BY <1>3 DEF vars, backend
    <2>2. RequestsOK'
      BY <2>1, RequestsKept DEF IInv
    <2>3. QED
      BY <2>1, <2>2, RequestStep
  <1>4. QED
    BY <1>1, <1>2, <1>3 DEF Next

LEMMA Invariant == Spec => []IInv
  <1>1. Init => IInv
    BY InitOK
  <1>2. IInv /\ [Next]_vars => IInv'
    BY NextOK
  <1>3. QED
    BY <1>1, <1>2, PTL DEF Spec

-----------------------------------------------------------------------------
\* The theorems.

\* The page and the backend keep their types, for any policies, texts and bounds.
THEOREM TypeCorrect == Spec => []TypeOK
  <1>1. IInv => TypeOK
    <2>1. ASSUME IInv
          PROVE  TypeOK
      <3>1. BackendOK /\ ui \in Page
        BY <2>1 DEF IInv, PageOK, Fits
      <3>2. \A v \in VersionIds : vers[v].policy \in Policies \cup {None} /\ stored[v] \subseteq Texts
        BY <3>1 DEF BackendOK, Versions
      <3>3. QED
        BY <3>1, <3>2 DEF TypeOK, BackendOK, Page, Policy, Version, Source
    <2>2. QED
      BY <2>1
  <1>2. QED
    BY <1>1, Invariant, PTL

\* A save writes a version of the policy it was clicked for, whatever the page shows
\* of other policies by the time it is sent (handleSaveDraft, ensurePolicyDraft).
THEOREM SavesStayInPolicy == Spec => []WritesStayInPolicy
  <1>1. IInv => WritesStayInPolicy
    BY DEF IInv, SavesOK, SaveOK, WritesStayInPolicy, Saving
  <1>2. QED
    BY <1>1, Invariant, PTL

\* What the page calls saved is a text that the version it names has held, however
\* answers, edits and saves of several policies interleave.
THEOREM SavedTextWasStored == Spec => []SavedWasStored
  <1>1. IInv => SavedWasStored
    BY DEF IInv, PageOK, Fits, EditorOK, SavedWasStored
  <1>2. QED
    BY <1>1, Invariant, PTL

\* No policy that has versions is deleted, however old the page's view of it is
\* (_require_policy_can_be_deleted).
THEOREM VersionsHaveTheirPolicy == Spec => []VersionsKeepTheirPolicy
  <1>1. IInv => VersionsKeepTheirPolicy
    BY DEF IInv, BackendOK, VersionsKeepTheirPolicy
  <1>2. QED
    BY <1>1, Invariant, PTL

\* Versions that arrive late do not replace what was typed meanwhile, nor what was
\* typed and saved (loadVersions).
THEOREM TypingIsKept == Spec => LateLoadKeepsTyping
  <1>1. ASSUME IInv, ShowVersions, typed
        PROVE  ui'.text = ui.text /\ ui'.checks = ui.checks
    <2> DEFINE u == [ui EXCEPT !.load = NoLoad]
               w == ShowsVersions(u, ui.load.got, ui.load.hydrate, ui.load.policy)
               d == ui.load.got.latest # None
               p == selectedPolicy(ui)
    <2>1. ui.load.st = "got" /\ ui' = Rendered(w, FALSE, d)
      BY <1>1 DEF ShowVersions
    <2>2. /\ PageOK /\ ui \in Page /\ ui.load.policy = p /\ p # None
          /\ ui.load.got \in Answer /\ GotOK(ui.load.got, stored)
          /\ ui.load.hydrate \in BOOLEAN /\ ui.load.policy \in Policy /\ d \in BOOLEAN
      BY <1>1, <2>1 DEF IInv, PageOK, Fits, LoadOf, Page, Load
    <2>3. ui.dirty \/ ui.saved = ui.load.policy \/ ~ui.load.hydrate
      BY <1>1, <2>2, SelectedPolicy DEF IInv, TypedOK
    <2>4. /\ u \in Page /\ u.load = NoLoad /\ u.text = ui.text /\ u.save = ui.save
          /\ u.source = ui.source /\ u.checks = ui.checks /\ u.dirty = ui.dirty
          /\ u.saved = ui.saved /\ u.list = ui.list /\ u.sel = ui.sel
      BY <2>2, Constants DEF Page
    <2>5. Fits(u, p, stored)
      BY <2>2, <2>4, Constants DEF PageOK, Fits, LoadOf, EditorOK, GotOK
    <2> HIDE DEF u
    <2>6. /\ Fits(w, p, stored) /\ w.list = u.list /\ w.sel = u.sel
          /\ w.text = u.text /\ w.checks = u.checks
      BY <2>2, <2>3, <2>4, <2>5, ShowsVersionsOK
    <2> HIDE DEF w, d
    <2>7. w \in Page /\ d \in BOOLEAN /\ w.list = ui.list /\ w.sel = ui.sel
      BY <2>2, <2>4, <2>6 DEF Fits
    <2>8. ui'.text = w.text /\ ui'.checks = w.checks
      BY <2>1, <2>7, RenderKeeps
    <2>9. QED
      BY <2>4, <2>6, <2>8
  <1>2. IInv /\ [Next]_vars => [ShowVersions /\ typed => ui'.text = ui.text /\ ui'.checks = ui.checks]_vars
    BY <1>1
  <1>3. QED
    BY <1>2, Invariant, PTL DEF Spec, LateLoadKeepsTyping
=============================================================================

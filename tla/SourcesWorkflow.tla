-------------------------- MODULE SourcesWorkflow --------------------------
(***************************************************************************)
(* The review of sources in apps/web/app/access-data/sources-workflow.tsx, *)
(* which no route mounts any more: a list of sources, and next to it the   *)
(* data usage profile and the access grants of the source that was clicked *)
(* last.  Its two requests are aborted by nothing.  One usage question     *)
(* stands for the five, and for the list that mentions one of its tokens.  *)
(***************************************************************************)
EXTENDS Naturals, FiniteSets

CONSTANTS
    Sources,      \* sources that exist or are registered meanwhile
    Profiled,     \* those with a data usage profile
    MaxVisits,    \* bounds how often a source is clicked
    MaxTroubles,  \* bounds failing requests and what others change
    None

VARIABLES
    listedUse, \* backend: the lists of each profile that mention the usage
    heldOn,    \* backend: the sources that some access grant is for
    catalog,   \* sourcesState
    chosen,    \* selectedSource
    panel,     \* profileState and relatedGrantState
    visits,    \* the calls of handleSelectSource with their requests
    hasty,     \* history: a source was clicked while another one was still loading
    troubles   \* bound

vars == <<listedUse, heldOn, catalog, chosen, panel, visits, hasty, troubles>>

VisitIds == 1..MaxVisits
Parts    == {"profile", "grants"}

NoVisit == [ of |-> None, profile |-> "no", grants |-> "no" ]

Idle == [ st |-> "idle", of |-> None, is |-> {} ]

Trouble == troubles < MaxTroubles /\ troubles' = troubles + 1

\* Others revise a profile, or grant or end access to a source.
OthersChange ==
    /\ \/ /\ \E s \in Profiled, lists \in SUBSET {"allowed", "prohibited"} :
                lists # listedUse[s] /\ listedUse' = [listedUse EXCEPT ![s] = lists]
          /\ UNCHANGED heldOn
       \/ /\ \E s \in Sources :
                heldOn' = IF s \in heldOn THEN heldOn \ {s} ELSE heldOn \cup {s}
          /\ UNCHANGED listedUse
    /\ Trouble
    /\ UNCHANGED <<catalog, chosen, panel, visits, hasty>>

\* The answer to the load that the mount effect has started.
ShowCatalog ==
    /\ catalog.st = "loading"
    /\ \/ /\ \E rows \in SUBSET Sources : catalog' = [ st |-> "ready", rows |-> rows ]
          /\ UNCHANGED troubles
       \/ catalog' = [catalog EXCEPT !.st = "error"] /\ Trouble
    /\ UNCHANGED <<listedUse, heldOn, chosen, panel, visits, hasty>>

handleSelectSource(s, v) ==
    /\ chosen' = s
    /\ panel' = [p \in Parts |-> [ st |-> "loading", of |-> s, is |-> {} ]]
    /\ visits' = [visits EXCEPT ![v] = [ of |-> s, profile |-> "sent", grants |-> "sent" ]]

\* A click on a source of the list.
ClickSource ==
    /\ catalog.st = "ready"
    /\ \E s \in catalog.rows, v \in VisitIds :
        /\ \A u \in VisitIds : visits[u] = NoVisit <=> u >= v
        /\ handleSelectSource(s, v)
    /\ hasty' = (hasty \/ \E v \in VisitIds, p \in Parts : visits[v][p] = "sent")
    /\ UNCHANGED <<listedUse, heldOn, catalog, troubles>>

\* The panel takes what arrives, whichever source it is about.
Arrives(v, p, st, is) ==
    /\ visits[v][p] = "sent"
    /\ panel' = [panel EXCEPT ![p] = [ st |-> st, of |-> visits[v].of, is |-> is ]]
    /\ visits' = [visits EXCEPT ![v][p] = "done"]
    /\ UNCHANGED <<listedUse, heldOn, catalog, chosen, hasty>>

\* 404 says that there is no profile.
ShowProfile(v) ==
    /\ IF visits[v].of \in Profiled
       THEN Arrives(v, "profile", "ready", listedUse[visits[v].of])
       ELSE Arrives(v, "profile", "missing", {})
    /\ UNCHANGED troubles

\* All grants arrive, and those on the source are kept.
ShowGrants(v) ==
    /\ Arrives(v, "grants", "ready", heldOn \cap {visits[v].of})
    /\ UNCHANGED troubles

FailPart(v, p) == Arrives(v, p, "error", {}) /\ Trouble

-----------------------------------------------------------------------------
\* What the panel shows of what has arrived.

ProfileStatus == panel.profile.st

\* What is prohibited is said first.
usageSignal(lists) ==
    IF "prohibited" \in lists THEN "listed_prohibited"
    ELSE IF "allowed" \in lists THEN "listed_allowed"
    ELSE "no_signal"

UsageQuestions == IF ProfileStatus = "ready" THEN usageSignal(panel.profile.is) ELSE "none"

RelatedAccessGrants == IF panel.grants.st = "ready" THEN panel.grants.is ELSE {}

-----------------------------------------------------------------------------
Init ==
    /\ listedUse \in [Profiled -> SUBSET {"allowed", "prohibited"}]
    /\ heldOn \in { {}, Sources }
    /\ catalog = [ st |-> "loading", rows |-> {} ]
    /\ chosen = None
    /\ panel = [p \in Parts |-> Idle]
    /\ visits = [v \in VisitIds |-> NoVisit]
    /\ hasty = FALSE /\ troubles = 0

Answers ==
    \/ ShowCatalog
    \/ \E v \in VisitIds : ShowProfile(v) \/ ShowGrants(v) \/ \E p \in Parts : FailPart(v, p)

Next == Answers \/ ClickSource \/ OthersChange

Spec == Init /\ [][Next]_vars

-----------------------------------------------------------------------------
\* Properties.

\* What stands next to a source is about it, if one waits for its answers before
\* clicking another: a source without a profile never shows the last one's profile,
\* nor grants on another source.
PanelIsOfTheSource ==
    ~hasty =>
        /\ \A p \in Parts : panel[p].of = chosen
        /\ ProfileStatus = "ready" => chosen \in Profiled
        /\ ProfileStatus = "missing" => chosen \notin Profiled
        /\ RelatedAccessGrants \subseteq {chosen}

\* A usage that the profile prohibits is never said to be allowed, also when a list of
\* what is allowed mentions it too, nor is one that no list mentions.
SignalFollowsTheLists ==
    ProfileStatus = "ready" =>
        LET s == panel.profile.of IN
        /\ troubles = 0 /\ "prohibited" \in listedUse[s]
              => UsageQuestions = "listed_prohibited"
        /\ troubles = 0 /\ listedUse[s] = {} => UsageQuestions = "no_signal"
        /\ UsageQuestions = "listed_allowed" => panel.profile.is = {"allowed"}

\* The list, the profile and the grants on loading.
Waiting ==
    (IF catalog.st = "loading" THEN {"sources"} ELSE {})
    \cup { p \in Parts : panel[p].st = "loading" }

=============================================================================

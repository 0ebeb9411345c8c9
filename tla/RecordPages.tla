---------------------------- MODULE RecordPages ----------------------------
(***************************************************************************)
(* The pages of apps/web that show records and change none - the overview, *)
(* the agents, one agent, the runtime activity, the integrations and the   *)
(* evidence lookup, and what Policy Studio only reads - under the shell    *)
(* that shows the number of pending approvals around every page.  A page   *)
(* starts its requests when it is mounted and aborts them when it is left; *)
(* requests can be answered in any order.  Effects that React runs after a *)
(* render belong to the step that caused the render.                       *)
(***************************************************************************)
EXTENDS Naturals, FiniteSets, Sequences, SequencesExt

CONSTANTS
    AgentOrder,   \* the agents, in the order in which the backend lists them
    MaxNavs,      \* bounds how often the user goes to a page
    MaxLookups,   \* bounds the evidence requests of a page
    MaxTroubles,  \* bounds failing requests
    None

Agents == ToSet(AgentOrder)

AgentsAssumption ==
    AgentOrder \in Seq(Agents) /\ AgentOrder # <<>> /\ None \notin Agents

VARIABLES
    path,     \* the page that is mounted, and its agent
    nav,      \* how many pages were opened
    asks,     \* the shell's requests in flight, by the page they were sent for
    badge,    \* the page for which pendingApprovals was set last
    parts,    \* what the page loads, part by part
    data,     \* what the overview has read, and (history) which reads failed
    watch,    \* the overview's search, selection and governance profile
    lookup,   \* the evidence that is asked for and shown
    troubles  \* bound

vars == <<path, nav, asks, badge, parts, data, watch, lookup, troubles>>

Trouble == troubles < MaxTroubles /\ troubles' = troubles + 1

-----------------------------------------------------------------------------
\* The requests of each part of a page, and those that follow on an answer.

Parts(p) ==
    CASE p.page = "overview" -> {"overview"}
      [] p.page = "agents"   -> {"agents"}
      [] p.page = "detail"   -> {"profile", "activity"}
      [] p.page = "runtime"  -> {"runtime"}
      [] p.page = "hub"      -> {"registry"}
      [] p.page = "studio"   -> {"actor", "targets"}
      [] OTHER               -> {}

AllParts == {"overview", "agents", "profile", "activity", "runtime", "registry",
             "actor", "targets"}

\* What Policy Studio offers as targets of a policy check.
TargetReads == {"agents", "sources", "access-grants", "models", "capabilities"}

Reads(part) ==
    CASE part = "profile"  -> {"governance-profile", "human-approvals"}
      [] part = "registry" -> {"service-actors"}
      [] part = "targets"  -> TargetReads
      [] OTHER             -> {part}

\* fetchServiceActorRegistrySummary asks three more things about every actor, and
\* loadPolicyCheckInventory for the profile of every source, once it has the rest.
Follows(part, read, left) ==
    CASE read = "service-actors" -> { {}, {"api-keys", "scopes", "scope-rules"} }
      [] part = "targets" /\ read \in TargetReads /\ left = {} -> { {}, {"usage-profiles"} }
      [] OTHER -> { {} }

Loading(part) == [ st |-> "loading", sent |-> Reads(part) ]

Pages ==
    { [ page |-> "detail", agent |-> a ] : a \in Agents } \cup
    { [ page |-> p, agent |-> None ] :
        p \in {"overview", "agents", "runtime", "hub", "studio", "evidence", "other"} }

NoData   == [ agents |-> <<>>, errors |-> {}, failed |-> {} ]
NoWatch  == [ search |-> None, selected |-> None, of |-> None, st |-> "none", asked |-> {} ]
NoLookup == [ input |-> None, st |-> "idle", label |-> None, bundle |-> None, sent |-> <<>> ]

-----------------------------------------------------------------------------
\* Going to a page: the effects of the page that is left abort their requests,
\* those of the next one and of the shell send theirs.

\* Mutant: the shell does not abort the request of the last page.
ShellAsksKeepsOld == asks' = asks \cup {nav'}

ShellAsks == asks' = {nav'}

Navigate ==
    /\ nav < MaxNavs
    /\ \E p \in Pages \ {path} : path' = p
    /\ nav' = nav + 1
    /\ ShellAsks
    /\ parts' = [part \in Parts(path') |-> Loading(part)]
    /\ data' = NoData /\ watch' = NoWatch /\ lookup' = NoLookup
    /\ UNCHANGED <<badge, troubles>>

\* An approval count, or none because the request has failed.
ShowPendingApprovals ==
    /\ \E n \in asks : asks' = asks \ {n} /\ badge' = n
    /\ UNCHANGED <<path, nav, parts, data, watch, lookup, troubles>>

-----------------------------------------------------------------------------
\* The parts of a page.

Set(part, st, sent) == parts' = [parts EXCEPT ![part] = [ st |-> st, sent |-> sent ]]

\* A part is ready with the last answer that it waits for.
Answered(part, read) ==
    /\ LET left == parts[part].sent \ {read} IN
       \E more \in Follows(part, read, left) :
          Set(part, IF left \cup more = {} THEN "ready" ELSE "loading", left \cup more)
    /\ UNCHANGED troubles

\* Mutant: only the first request of a part is caught.
FailedIfFirst(part, read) ==
    /\ IF read \in Reads(part) THEN Set(part, "error", {})
       ELSE Set(part, "loading", parts[part].sent \ {read})
    /\ Trouble

\* The first failure decides; the hub tells a disabled registry (503) apart, and
\* the studio counts the profiles that it has not got.
Failed(part, read) ==
    /\ IF read = "usage-profiles" THEN Set(part, "warned", {})
       ELSE Set(part, "error", {}) \/ (part = "registry" /\ Set(part, "disabled", {}))
    /\ Trouble

LoadPart(part) ==
    /\ part \in DOMAIN parts \ {"overview"}
    /\ \E read \in parts[part].sent : Answered(part, read) \/ Failed(part, read)
    /\ UNCHANGED <<path, nav, asks, badge, data, watch, lookup>>

-----------------------------------------------------------------------------
\* The overview.

OverviewReads ==
    << "/agents", "/human-approvals", "/policies", "/sources", "/access-grants",
       "/runtime/tool-calls/activity", "/me", "/policy-version-review-requests" >>

\* Mutant: one label is missing in the middle.
labelsShifted(i) == IF i < 3 THEN OverviewReads[i] ELSE OverviewReads[(i % 8) + 1]

\* The label of the request with a certain index.
labels(i) == OverviewReads[i]

overviewAgentRows == { a \in ToSet(data.agents) : watch.search \in {None, a} }

\* Mutant: the request about the last agent is not aborted.
ProfileEffectKeepsOld(w, a) ==
    IF a = None \/ a = w.of THEN w
    ELSE [w EXCEPT !.of = a, !.st = "loading", !.asked = @ \cup {a}]

\* The effect for the governance profile of the selected agent.
ProfileEffect(w, a) ==
    IF a = None \/ a = w.of THEN w
    ELSE [w EXCEPT !.of = a, !.st = "loading", !.asked = {a}]

\* The first render with agents shows any of them, the riskiest or the one that is
\* searched for, before the selection effect selects the first of the list.
SelectionEffect(agents) ==
    IF agents = <<>> THEN watch' = watch
    ELSE \E a \in Agents :
            watch' = ProfileEffect([ProfileEffect(watch, a) EXCEPT !.selected = agents[1]],
                                   agents[1])

\* load: all the requests have been answered or have failed.
LoadOverview ==
    /\ "overview" \in DOMAIN parts /\ parts["overview"].st = "loading"
    /\ \E failed \in SUBSET (1..8), agents \in {AgentOrder, <<>>} :
        /\ IF failed = {} THEN UNCHANGED troubles ELSE Trouble
        /\ data' = [ agents |-> IF 1 \in failed THEN <<>> ELSE agents,
                     errors |-> { labels(i) : i \in failed }, failed |-> failed ]
        /\ Set("overview", "ready", {})
    /\ SelectionEffect(data'.agents)
    /\ UNCHANGED <<path, nav, asks, badge, lookup>>

SearchAgents(search) ==
    /\ path.page = "overview"
    /\ watch.search # search
    /\ watch' = [watch EXCEPT !.search = search]
    /\ UNCHANGED <<path, nav, asks, badge, parts, data, lookup, troubles>>

SelectAgent(a) ==
    /\ a \in overviewAgentRows
    /\ watch' = ProfileEffect([watch EXCEPT !.selected = a], a)
    /\ UNCHANGED <<path, nav, asks, badge, parts, data, lookup, troubles>>

\* profileState is for the agent that was asked for.
ShowProfile ==
    /\ \E a \in watch.asked :
        \/ /\ watch' = [watch EXCEPT !.of = a, !.st = "ready", !.asked = @ \ {a}]
           /\ UNCHANGED troubles
        \/ /\ watch' = [watch EXCEPT !.of = a, !.st = "error", !.asked = @ \ {a}]
           /\ Trouble
    /\ UNCHANGED <<path, nav, asks, badge, parts, data, lookup>>

\* selectedProfile: a profile of an agent that was selected before is not used.
selectedProfile == watch.st = "ready" /\ watch.of = watch.selected

\* What the number of tools, models and sources the agent may use is counted in.
accessGrantsForAgent == IF selectedProfile THEN "profile" ELSE "/access-grants"

\* The card of the selected agent: the grants that are counted, and what is said
\* about its profile.
AgentCard ==
    [ grants |-> accessGrantsForAgent,
      note   |-> CASE watch.st = "loading" -> "loading"
                   [] watch.st = "error" /\ watch.of = watch.selected -> "unavailable"
                   [] OTHER -> "none" ]

\* Recent decisions and approvals, which are empty if they could not be read.
RecentRecords == [ decisions |-> "/runtime/tool-calls/activity",
                   approvals |-> "/human-approvals" ]

\* The evidence is spoken of in the profile only.
EvidenceCard == IF selectedProfile THEN watch.of ELSE None

\* The reviews, pending approvals and policies of the work list.
overviewWorkItems ==
    {"/policy-version-review-requests", "/human-approvals", "/policies"}

\* The first two failures are named above the page.
ErrorNote ==
    { labels(i) : i \in { i \in data.failed :
                            Cardinality({ j \in data.failed : j < i }) < 2 } }

\* The reads without which some part of the page would be empty.
EmptyWithout ==
    IF watch.selected = None THEN overviewWorkItems \cup {"/agents"}
    ELSE overviewWorkItems \cup {AgentCard.grants}
         \cup {RecentRecords.decisions, RecentRecords.approvals}

\* The numbers of the overview, where a failed read is said to be unavailable.
overviewMetricValue(read) ==
    IF parts["overview"].st = "loading" THEN "Loading"
    ELSE IF read \in data.errors THEN "Unavailable" ELSE "number"

-----------------------------------------------------------------------------
\* Evidence: the lookup of the evidence page, which may be repeated while it is
\* under way, and the button of the agent's page, which may not.

TypeAgentId(a) ==
    /\ path.page = "evidence" /\ lookup.input # a
    /\ lookup' = [lookup EXCEPT !.input = a]
    /\ UNCHANGED <<path, nav, asks, badge, parts, data, watch, troubles>>

AskEvidence(a) ==
    lookup' = [lookup EXCEPT !.st = "loading", !.label = a, !.bundle = None,
                             !.sent = Append(@, a)]

\* Without an id nothing is asked, but what was asked before still arrives.
handleSubmit ==
    /\ path.page = "evidence" /\ Len(lookup.sent) < MaxLookups
    /\ IF lookup.input = None
       THEN lookup' = [lookup EXCEPT !.st = "error", !.label = None, !.bundle = None]
       ELSE AskEvidence(lookup.input)
    /\ UNCHANGED <<path, nav, asks, badge, parts, data, watch, troubles>>

\* Shown with the page once the profile is there.
handleLoadEvidence ==
    /\ path.page = "detail" /\ parts["profile"].st = "ready"
    /\ lookup.st # "loading"
    /\ AskEvidence(path.agent)
    /\ UNCHANGED <<path, nav, asks, badge, parts, data, watch, troubles>>

\* Mutant: the label is what the input says by now.
BundleOfInput(a, left) ==
    lookup' = [lookup EXCEPT !.st = "ready", !.bundle = a, !.sent = left,
                   !.label = IF path.page = "evidence" THEN lookup.input ELSE a]

Bundle(a, left) ==
    lookup' = [lookup EXCEPT !.st = "ready", !.label = a, !.bundle = a, !.sent = left]

ShowEvidence ==
    /\ \E i \in DOMAIN lookup.sent :
        LET a == lookup.sent[i]   left == RemoveAt(lookup.sent, i) IN
        \/ Bundle(a, left) /\ UNCHANGED troubles
        \/ /\ lookup' = [lookup EXCEPT !.st = "error", !.label = a, !.bundle = None,
                                       !.sent = left]
           /\ Trouble
    /\ UNCHANGED <<path, nav, asks, badge, parts, data, watch>>

-----------------------------------------------------------------------------
Init ==
    /\ path \in Pages
    /\ nav = 1 /\ asks = {1} /\ badge = 0
    /\ parts = [part \in Parts(path) |-> Loading(part)]
    /\ data = NoData /\ watch = NoWatch /\ lookup = NoLookup
    /\ troubles = 0

Answers == LoadOverview \/ \E part \in AllParts : LoadPart(part)

Next ==
    \/ Navigate \/ ShowPendingApprovals \/ Answers \/ ShowProfile \/ ShowEvidence
    \/ \E a \in Agents \cup {None} : SearchAgents(a) \/ TypeAgentId(a)
    \/ \E a \in Agents : SelectAgent(a)
    \/ handleSubmit \/ handleLoadEvidence

Spec == Init /\ [][Next]_vars

\* Every request ends with an answer or an error.
FairSpec == Spec /\ WF_vars(Answers) /\ WF_vars(ShowEvidence)

-----------------------------------------------------------------------------
\* Properties.

\* Once the shell waits for nothing, its count was read for the page that is shown:
\* a slow answer from an earlier page does not come back over it.
BadgeIsOfThisPage == asks = {} => badge = nav

\* The overview's profile panel does not stay empty: once nothing is asked any more,
\* the profile or its error is that of the selected agent, whichever agents were
\* selected meanwhile and in whatever order their profiles arrived.
ProfileIsOfSelection ==
    watch.selected # None /\ watch.asked = {}
        => watch.of = watch.selected /\ watch.st \in {"ready", "error"}

\* A failed read of agents, approvals or policies is shown as unavailable and not as
\* none, and only that read: the requests and their labels are matched by position.
\* What is empty for want of a failed read is named above the page, or two other reads
\* are, and where the grants of all agents could not be read the selected agent's are still counted,
\* from its own profile, unless the page says that this is loading or unavailable.
FailuresAreAdmitted ==
    path.page = "overview" /\ parts["overview"].st = "ready" =>
        /\ \A i \in 1..3 : overviewMetricValue(OverviewReads[i]) = "Unavailable"
                             <=> i \in data.failed
        /\ \/ EmptyWithout \cap { OverviewReads[i] : i \in data.failed } \subseteq ErrorNote
           \/ Cardinality(ErrorNote) = 2
        /\ 5 \in data.failed /\ AgentCard.note = "none" /\ watch.selected # None
              => AgentCard.grants = "profile" /\ EvidenceCard = watch.selected

\* An evidence bundle is shown under the id of its agent, although the id can be
\* edited and asked for again while the answer is under way.
BundleIsLabelled == lookup.bundle # None => lookup.label = lookup.bundle

\* The parts of the page that are loading.
Waiting ==
    { part \in DOMAIN parts : parts[part].st = "loading" }
    \cup (IF lookup.st = "loading" THEN {"lookup"} ELSE {})

=============================================================================

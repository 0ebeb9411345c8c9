--------------------------- MODULE InventoryLists ---------------------------
(***************************************************************************)
(* The inventory lists of the Access & Data page (apps/web/app/access-data/*)
(* access-inventory-matrix.tsx): sources, their data usage profiles, models*)
(* and capabilities, and the readiness of the policy checks that is derived*)
(* from them.  The profiles are asked for when the sources are there, one  *)
(* request per source; a load may be repeated while it is under way.  The  *)
(* grants, which the page acts on, are the subject of AccessInventory.     *)
(***************************************************************************)
EXTENDS Naturals, FiniteSets

CONSTANTS
    Sources,      \* sources that exist or are registered meanwhile
    Profiled,     \* those with a data usage profile
    MaxLoads,     \* bounds how often the page rounds
    MaxTroubles   \* bounds failing requests and registered sources

ProfiledAssumption == Profiled \subseteq Sources

VARIABLES
    registered, \* backend: the sources
    list,       \* sourcesState, usageProfilesState, modelsState, capabilitiesState
    rounds,      \* the requests of each call of loadAccessData
    overlapped, \* history: a load was started before the last one had ended
    troubles    \* bound

vars == <<registered, list, rounds, overlapped, troubles>>

LoadIds == 1..MaxLoads
Simple  == {"models", "capabilities"}

\* of: the sources that the rows were asked for.
Reset == [ st |-> "loading", rows |-> {}, of |-> {} ]

NoLoad == [ sources |-> "no", profiles |-> "no", asked |-> {},
            models |-> "no", capabilities |-> "no" ]

Asked == [ sources |-> "sent", profiles |-> "wait", asked |-> {},
           models |-> "sent", capabilities |-> "sent" ]

Ended(l) ==
    /\ rounds[l].sources = "done" /\ rounds[l].profiles = "done"
    /\ \A k \in Simple : rounds[l][k] = "done"

Trouble == troubles < MaxTroubles /\ troubles' = troubles + 1

RegisterSource ==
    /\ \E s \in Sources \ registered : registered' = registered \cup {s}
    /\ Trouble
    /\ UNCHANGED <<list, rounds, overlapped>>

\* loadAccessData, started by the Refresh button.
loadAccessData ==
    /\ \E l \in LoadIds \ {1} :
        /\ rounds[l].sources = "no"
        /\ \A k \in 1..(l - 1) : rounds[k].sources # "no"
        /\ rounds' = [rounds EXCEPT ![l] = Asked]
        /\ overlapped' = (overlapped \/ \E k \in 1..(l - 1) : ~Ended(k))
    /\ list' = [k \in {"sources", "profiles"} \cup Simple |-> Reset]
    /\ UNCHANGED <<registered, troubles>>

ShowSimple(l, k) ==
    /\ rounds[l][k] = "sent"
    /\ rounds' = [rounds EXCEPT ![l][k] = "done"]
    /\ \/ list' = [list EXCEPT ![k] = [ st |-> "ready", rows |-> {k}, of |-> {} ]]
          /\ UNCHANGED troubles
       \/ list' = [list EXCEPT ![k] = [Reset EXCEPT !.st = "error"]] /\ Trouble
    /\ UNCHANGED <<registered, overlapped>>

\* Mutant: without a source nobody answers for the profiles.
ShowSourcesForgetsNone(l) ==
    /\ rounds[l].sources = "sent"
    /\ list' = [list EXCEPT !.sources = [ st |-> "ready", rows |-> registered, of |-> {} ]]
    /\ rounds' = [rounds EXCEPT ![l].sources = "done", ![l].asked = registered,
                              ![l].profiles = IF registered = {} THEN "done" ELSE "sent"]
    /\ UNCHANGED <<registered, overlapped, troubles>>

\* Mutant: the profiles are asked for the sources of the last render.
ShowSourcesOfLastRender(l) ==
    /\ rounds[l].sources = "sent"
    /\ list' = [list EXCEPT !.sources = [ st |-> "ready", rows |-> registered, of |-> {} ]]
    /\ rounds' = [rounds EXCEPT ![l].sources = "done", ![l].profiles = "sent",
                              ![l].asked = list.sources.rows]
    /\ UNCHANGED <<registered, overlapped, troubles>>

\* The sources have arrived: without any the profiles are ready.
ShowSources(l) ==
    /\ rounds[l].sources = "sent"
    /\ list' = [list EXCEPT
            !.sources = [ st |-> "ready", rows |-> registered, of |-> {} ],
            !.profiles = IF registered = {} THEN [Reset EXCEPT !.st = "ready"] ELSE @]
    /\ rounds' = [rounds EXCEPT ![l].sources = "done", ![l].asked = registered,
                              ![l].profiles = IF registered = {} THEN "done" ELSE "sent"]
    /\ UNCHANGED <<registered, overlapped, troubles>>

\* The sources have failed, and the profiles with them.
FailSources(l) ==
    /\ rounds[l].sources = "sent"
    /\ list' = [list EXCEPT !.sources = [Reset EXCEPT !.st = "error"],
                            !.profiles = [Reset EXCEPT !.st = "error"]]
    /\ rounds' = [rounds EXCEPT ![l].sources = "done", ![l].profiles = "done"]
    /\ Trouble
    /\ UNCHANGED <<registered, overlapped>>

\* loadUsageProfilesForSources catches what fails for a single source.
ShowProfiles(l) ==
    /\ rounds[l].profiles = "sent"
    /\ \E failed \in {{}} \cup {{s} : s \in rounds[l].asked} :
        /\ IF failed = {} THEN UNCHANGED troubles ELSE Trouble
        /\ list' = [list EXCEPT !.profiles =
                [ st |-> "ready", of |-> rounds[l].asked,
                  rows |-> (rounds[l].asked \cap Profiled) \ failed ]]
    /\ rounds' = [rounds EXCEPT ![l].profiles = "done", ![l].asked = {}]
    /\ UNCHANGED <<registered, overlapped>>

-----------------------------------------------------------------------------
\* What the page says about the policy checks.

readinessFromArrayState(k) ==
    IF list[k].st = "ready"
    THEN IF list[k].rows = {} THEN "missing" ELSE "ready"
    ELSE list[k].st

readinessFromUsageProfiles ==
    IF list.profiles.st = "ready"
    THEN IF list.sources.rows = {} \/ list.profiles.rows = {} THEN "missing" ELSE "ready"
    ELSE list.profiles.st

readinessItems ==
    [ data_usage_profile_status |-> readinessFromUsageProfiles,
      source_status             |-> readinessFromArrayState("sources"),
      source_classification     |-> readinessFromArrayState("profiles"),
      model_asset_status        |-> readinessFromArrayState("models"),
      capability_status         |-> readinessFromArrayState("capabilities") ]

-----------------------------------------------------------------------------
\* The mount effect has started the first load.
Init ==
    /\ registered \in SUBSET Profiled
    /\ list = [k \in {"sources", "profiles"} \cup Simple |-> Reset]
    /\ rounds = [l \in LoadIds |-> IF l = 1 THEN Asked ELSE NoLoad]
    /\ overlapped = FALSE /\ troubles = 0

Answer(l) ==
    \/ ShowSources(l) \/ FailSources(l) \/ ShowProfiles(l)
    \/ \E k \in Simple : ShowSimple(l, k)

Answers == \E l \in LoadIds : Answer(l)

Next == RegisterSource \/ loadAccessData \/ Answers

Spec == Init /\ [][Next]_vars

\* Every request ends with an answer or an error.
FairSpec == Spec /\ WF_vars(Answers)

-----------------------------------------------------------------------------
\* Properties.

\* The profiles next to the sources are those of these sources, also when sources
\* are registered or requests fail meanwhile, if a load is repeated only after
\* the last one has ended.
ProfilesAreOfTheSources ==
    ~overlapped /\ list.sources.st = "ready" /\ list.profiles.st = "ready"
        => list.profiles.of = list.sources.rows

\* The readiness items on loading: the profiles wait for the sources, and are not
\* asked for when these fail or there are none.
Waiting == { item \in DOMAIN readinessItems : readinessItems[item] = "loading" }

=============================================================================

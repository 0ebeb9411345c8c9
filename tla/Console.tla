------------------------------ MODULE Console ------------------------------
(***************************************************************************)
(* The pages of apps/web that have a module for each of their parts: the   *)
(* browser has one page open at a time (app/layout.tsx mounts the page of  *)
(* the route in the shell), and a page starts anew when it is mounted.     *)
(* The parts share nothing but the bound on troubles, so that what is      *)
(* checked of each here is what its own specification says of it.  The     *)
(* policy editor of PolicyDsl is one of them, and so are the four older    *)
(* screens that are still in the source but that no route mounts.          *)
(***************************************************************************)
EXTENDS PolicyDsl

CONSTANTS
    Watched,                                  \* the parts that are watched
    GrantOrder, FirstStatus, Filters,         \* "access": AccessInventory
    Sources, Profiled,                        \* "lists": InventoryLists
    Targets, Declared,                        \* "form": AgentForm
    Policies, Folders, Existing,              \* "folders": PolicyFolders
    AgentOrder,                               \* "records": RecordPages
    Approvals, StatusFilters,                 \* "approvals": ApprovalsList
    Reviews, Own, Replacing,                  \* "reviews": PolicyReviews
    MaxLoads, MaxCalls, MaxSubmits, MaxClicks, MaxNavs, MaxLookups,
    MaxVisits, MaxSwitches, MaxPosts, MaxTroubles

VARIABLES
    mounted,   \* the part that is on the screen
    troubles,  \* bound of each part
    status, grants, loads, filter, selected, note, action, calls,       \* AccessInventory
    registered, list, rounds, overlapped,                               \* InventoryLists
    ui, sub, agent, agents, granted, lost, submits,                     \* AgentForm
    exists, folderOf, shown, listed, requests, reads, lifecycle, clicks,\* PolicyFolders
    path, nav, asks, badge, parts, data, watch, lookup,                 \* RecordPages
    standing, table, said, sends, blurred,                              \* GrantsWorkflow
    listedUse, heldOn, catalog, chosen, panel, visits, hasty,           \* SourcesWorkflow
    verdict, queue, queries,                                            \* ApprovalsList
    review, reviewer, queued, posts, gets, says, crossed, hopped        \* PolicyReviews

Access  == INSTANCE AccessInventory
Lists   == INSTANCE InventoryLists
Form    == INSTANCE AgentForm
FolderList == INSTANCE PolicyFolders
Records == INSTANCE RecordPages
GrantTable == INSTANCE GrantsWorkflow
SourceReview == INSTANCE SourcesWorkflow
Queue   == INSTANCE ApprovalsList
ReviewQueue == INSTANCE PolicyReviews

accessVars  == <<status, grants, loads, filter, selected, note, action, calls>>
listsVars   == <<registered, list, rounds, overlapped>>
formVars    == <<ui, sub, agent, agents, granted, lost, submits>>
foldersVars == <<exists, folderOf, shown, listed, requests, reads, lifecycle, clicks>>
recordsVars == <<path, nav, asks, badge, parts, data, watch, lookup>>
pageVars    == <<accessVars, listsVars, formVars, foldersVars, recordsVars, editorVars>>

grantTableVars   == <<standing, table, said, sends, blurred>>
sourceReviewVars == <<listedUse, heldOn, catalog, chosen, panel, visits, hasty>>
queueVars        == <<verdict, queue, queries>>
reviewQueueVars  == <<review, reviewer, queued, posts, gets, says, crossed, hopped>>
olderVars        == <<grantTableVars, sourceReviewVars, queueVars, reviewQueueVars>>

vars == <<mounted, troubles, pageVars, olderVars>>

ASSUME WatchedAssumption ==
    Watched \subseteq {"access", "lists", "form", "folders", "records", "editor",
                       "grant table", "source review", "approvals", "reviews"}

ASSUME PartsAssumption ==
    /\ Access!GrantsAssumption /\ Access!FiltersAssumption
    /\ Lists!ProfiledAssumption /\ Form!TargetsAssumption
    /\ FolderList!FoldersAssumption /\ Records!AgentsAssumption
    /\ ReviewQueue!OwnAssumption

ASSUME BoundsAssumption ==
    /\ MaxLoads \in Nat /\ MaxCalls \in Nat /\ MaxVisits \in Nat
    /\ MaxSwitches \in Nat /\ MaxPosts \in Nat

-----------------------------------------------------------------------------
\* Nothing is kept of a part that is not mounted.
NoAccess  == /\ status = None /\ grants = None /\ loads = None /\ filter = None
             /\ selected = None /\ note = None /\ action = None /\ calls = None
NoLists   == registered = None /\ list = None /\ rounds = None /\ overlapped = None
NoForm    == /\ ui = None /\ sub = None /\ agent = None /\ agents = None
             /\ granted = None /\ lost = None /\ submits = None
NoFolders == /\ exists = None /\ folderOf = None /\ shown = None /\ listed = None
             /\ requests = None /\ reads = None /\ lifecycle = None /\ clicks = None
NoRecords == /\ path = None /\ nav = None /\ asks = None /\ badge = None
             /\ parts = None /\ data = None /\ watch = None /\ lookup = None
NoEditor  == /\ editor = None /\ checks = None /\ rule = None /\ version = None
             /\ meant = None /\ link = None /\ edits = None
NoGrantTable   == /\ standing = None /\ table = None /\ said = None
                  /\ sends = None /\ blurred = None
NoSourceReview == /\ listedUse = None /\ heldOn = None /\ catalog = None /\ chosen = None
                  /\ panel = None /\ visits = None /\ hasty = None
NoQueue        == verdict = None /\ queue = None /\ queries = None
NoReviewQueue  == /\ review = None /\ reviewer = None /\ queued = None /\ posts = None
                  /\ gets = None /\ says = None /\ crossed = None /\ hopped = None

Init ==
    /\ mounted \in Watched
    /\ IF mounted = "access"  THEN Access!Init     ELSE NoAccess
    /\ IF mounted = "lists"   THEN Lists!Init      ELSE NoLists
    /\ IF mounted = "form"    THEN Form!Init       ELSE NoForm
    /\ IF mounted = "folders" THEN FolderList!Init ELSE NoFolders
    /\ IF mounted = "records" THEN Records!Init    ELSE NoRecords
    /\ IF mounted = "editor"  THEN EditorInit      ELSE NoEditor
    /\ IF mounted = "grant table"   THEN GrantTable!Init   ELSE NoGrantTable
    /\ IF mounted = "source review" THEN SourceReview!Init ELSE NoSourceReview
    /\ IF mounted = "approvals"     THEN Queue!Init        ELSE NoQueue
    /\ IF mounted = "reviews"       THEN ReviewQueue!Init  ELSE NoReviewQueue
    /\ troubles = 0

OnlyAccess ==
    /\ mounted = "access"
    /\ UNCHANGED <<mounted, listsVars, formVars, foldersVars, recordsVars, editorVars,
                   olderVars>>

OnlyLists ==
    /\ mounted = "lists"
    /\ UNCHANGED <<mounted, accessVars, formVars, foldersVars, recordsVars, editorVars,
                   olderVars>>

OnlyForm ==
    /\ mounted = "form"
    /\ UNCHANGED <<mounted, accessVars, listsVars, foldersVars, recordsVars, editorVars,
                   olderVars>>

OnlyFolders ==
    /\ mounted = "folders"
    /\ UNCHANGED <<mounted, accessVars, listsVars, formVars, recordsVars, editorVars,
                   olderVars>>

OnlyRecords ==
    /\ mounted = "records"
    /\ UNCHANGED <<mounted, accessVars, listsVars, formVars, foldersVars, editorVars,
                   olderVars>>

OnlyEditor ==
    /\ mounted = "editor"
    /\ UNCHANGED <<mounted, troubles, accessVars, listsVars, formVars, foldersVars, recordsVars,
                   olderVars>>

OnlyGrantTable ==
    /\ mounted = "grant table"
    /\ UNCHANGED <<mounted, pageVars, sourceReviewVars, queueVars, reviewQueueVars>>

OnlySourceReview ==
    /\ mounted = "source review"
    /\ UNCHANGED <<mounted, pageVars, grantTableVars, queueVars, reviewQueueVars>>

OnlyQueue ==
    /\ mounted = "approvals"
    /\ UNCHANGED <<mounted, pageVars, grantTableVars, sourceReviewVars, reviewQueueVars>>

OnlyReviewQueue ==
    /\ mounted = "reviews"
    /\ UNCHANGED <<mounted, pageVars, grantTableVars, sourceReviewVars, queueVars>>

Next ==
    \/ OnlyAccess /\ Access!Next
    \/ OnlyLists /\ Lists!Next
    \/ OnlyForm /\ Form!Next
    \/ OnlyFolders /\ FolderList!Next
    \/ OnlyRecords /\ Records!Next
    \/ OnlyEditor /\ EditorNext
    \/ OnlyGrantTable /\ GrantTable!Next
    \/ OnlySourceReview /\ SourceReview!Next
    \/ OnlyQueue /\ Queue!Next
    \/ OnlyReviewQueue /\ ReviewQueue!Next

Spec == Init /\ [][Next]_vars

\* What the browser and the backend do by themselves for the page that is mounted:
\* every request is answered or fails, and its handler runs.  The user need not do
\* anything.  Evidence can be asked for without a bound, which must not keep the other
\* requests of its page from being answered.
FairSpec ==
    /\ Spec
    /\ WF_accessVars(mounted = "access" /\ Access!Answers)
    /\ WF_listsVars(mounted = "lists" /\ Lists!Answers)
    /\ WF_formVars(mounted = "form" /\ Form!Answers)
    /\ WF_foldersVars(mounted = "folders" /\ FolderList!Answers)
    /\ WF_recordsVars(mounted = "records" /\ Records!Answers)
    /\ WF_recordsVars(mounted = "records" /\ Records!ShowEvidence)
    /\ WF_grantTableVars(mounted = "grant table" /\ GrantTable!Answers)
    /\ WF_sourceReviewVars(mounted = "source review" /\ SourceReview!Answers)
    /\ WF_queueVars(mounted = "approvals" /\ Queue!Answers)
    /\ WF_reviewQueueVars(mounted = "reviews" /\ ReviewQueue!Answers)

-----------------------------------------------------------------------------
\* Properties.

\* Access grants: a note and a message belong to the grant they stand under, and
\* what a click acts on is on the page (app/access-data).
GrantActionsStayTogether == mounted = "access" => Access!GrantActionsStayTogether

\* Access grants: the backend refuses an offered transition only when the grant
\* has changed since its row was read (app/access-data, access_grants.py).
RefusedOnlyIfStale ==
    [][ mounted = "access" => Access!RefusedOnlyIfStale ]_vars

\* Agent form and older review queue: neither retries nor toggled targets register an
\* agent twice or declare a target twice, unless an answer was lost (app/agents), and
\* no review is decided, assigned or rolled back twice at once (app/human-approvals).
NothingIsStoredTwice ==
    /\ mounted = "form"    => Form!RegistersOnce /\ Form!GrantsOncePerTarget
    /\ mounted = "reviews" => ReviewQueue!OneAtATime

\* Agent form: a sensitive status needs its own confirmation, and a submission
\* drops no declaration silently (app/agents).
SubmissionIsFaithful ==
    [][ mounted = "form" =>
            Form!SensitiveStatusConfirmed /\ Form!NothingDroppedSilently ]_vars

\* Lists and records: what stands on a page is what was read for it - the count in
\* the shell, the profile of a selected agent, unavailable numbers, evidence, the
\* usage profiles of sources, and every policy in some folder (app/agcp-studio,
\* app/evidence, app/access-data, app/policies).  The older screens: the outcome of a
\* transition, the profile of the clicked source, what a filter or the two queries
\* of a load list (app/access-data, app/human-approvals).
PageShowsWhatWasRead ==
    /\ mounted = "lists"   => Lists!ProfilesAreOfTheSources
    /\ mounted = "folders" => FolderList!NoPolicyDisappears
    /\ mounted = "records" =>
        /\ Records!BadgeIsOfThisPage /\ Records!ProfileIsOfSelection
        /\ Records!FailuresAreAdmitted /\ Records!BundleIsLabelled
    /\ mounted = "grant table" =>
        GrantTable!RowsTellTheOutcome /\ GrantTable!TableCatchesUp
    /\ mounted = "source review" =>
        SourceReview!PanelIsOfTheSource /\ SourceReview!SignalFollowsTheLists
    /\ mounted = "approvals" => Queue!QueueIsOfTheFilter
    /\ mounted = "reviews"   => ReviewQueue!OpenReviewsAreListed

\* Policy editor: what the canvas prints is what its text compiles to, for every
\* condition that the text can express, and the compile bar agrees with both and with
\* the button that saves (app/policies).
CanvasAndCode == mounted = "editor" => CanvasAndCodeAgree /\ CompileBarIsRight

\* Policy editor: a saved draft refers to the check its rule was linked to, whatever
\* was changed about this and other checks meanwhile (app/policies).
LinkedCheckIsKept == [][ mounted = "editor" => LinkIsKept ]_vars

\* Nothing stays busy or loading: requests that fail, are lost, superseded or never
\* sent included.
Waiting ==
    CASE mounted = "access"  -> Access!Waiting
      [] mounted = "lists"   -> Lists!Waiting
      [] mounted = "form"    -> Form!Waiting
      [] mounted = "folders" -> FolderList!Waiting
      [] mounted = "records" -> Records!Waiting
      [] mounted = "editor"  -> {}
      [] mounted = "grant table"   -> GrantTable!Waiting
      [] mounted = "source review" -> SourceReview!Waiting
      [] mounted = "approvals"     -> Queue!Waiting
      [] mounted = "reviews"       -> ReviewQueue!Waiting

WhatIsStartedEnds == []<>(Waiting = {})

=============================================================================

------------------------------ MODULE MCPages ------------------------------
(***************************************************************************)
(* The pages of the web client, one at a time: part says which page is     *)
(* open.  A page is a fresh one when it is opened, so that nothing is lost *)
(* by checking each alone; all have the state of module Page.              *)
(***************************************************************************)
EXTENDS Naturals, Sequences, FiniteSets

CONSTANT NULL

VARIABLES part, server, query, ui, calls, ghost

all == <<part, server, query, ui, calls, ghost>>

Device == INSTANCE DevicePage WITH
    MaxCalls <- 2, Fields <- {"serial","location"}, Typed <- {""}, Tags <- {"t","u"}, Groups
    <- {"g"}, Keys <- {"k"}, Configs <- {"c0","c1"}, DEFAULT_DEVICE_CONFIG <- "c0",
    Maintenances <- {"m0","m1"}, Null <- NULL, Sessions <-
    {{"rows"},{"tags"},{"maintenance"},{"config"},{"groups","keys"}}

Dashboard == INSTANCE DashboardPage WITH
    MaxCalls <- 2, Devices <- {"d1","d2"}, Tagged <- {"d1"}, Grouped <- {"d2"}, Found <-
    {"d1"}, MaxRevoked <- 1, Null <- NULL, Sessions <- {{"tag"},{"group"},{"filter"}}

Library == INSTANCE CommandLibrary WITH
    MaxCalls <- 2, Ids <- {"i","j"}, First <- "i", Contents <- {"sh1","reboot"}, Shell <-
    {"sh1"}, Empty <- "empty", Views <- {"edit","run","commands","library"}

Admin == INSTANCE AdminPages WITH
    MaxCalls <- 2, Accounts <- {"me","ann","bob"}, Me <- "me", Orgs <- {"o","q"}, FirstOrg <-
    "o", MyRole <- "admin", Policies <- {"p","r"}, FirstPolicy <- "p", MaxRules <- 1,
    MaxEvaluations <- 2, Null <- NULL, Sessions <- {<<"users",{"press"}>>,
    <<"users",{"create","password"}>>, <<"organizations",{"create","confirm"}>>,
    <<"organizations",{"panel"}>>, <<"compliance",{"create"}>>, <<"compliance",{"panel"}>>}

Settings == INSTANCE SettingsPage WITH
    MaxCalls <- 2, Texts <- {"","x"}, DefaultName <- "DTSYS", DefaultLabel <- "label", Files
    <- {"f","g"}, Rules <- {"r","s"}, Names <- {"a"}, Devices <- {"d"}, MaxTokens <- 2, Null
    <- NULL, Sessions <- {{"branding"}, {"token","user"}, {"rules"},
    {"connections","storage"}}

Paged == INSTANCE PagedLists WITH
    MaxCalls <- 0, Filters <- {"","f"}, MaxPage <- 8, Totals <- [v \in
    {"alerts","audit","updates","software","events"} |-> [f \in {"","f"} |-> IF f = "" THEN IF
    v = "audit" THEN 8 ELSE 3 ELSE 1]], Views <-
    {"alerts","audit","updates","software","events"}

Inventory == INSTANCE InventoryPage WITH
    MaxCalls <- 2, Devices <- {"d1","d2"}, Values <- {"","x"}, File <- <<<<"d1","x">>,
    <<"d2","x">>>>, Packages <- <<"p","q">>, Affected <- [p \in {"p","q"} |-> IF p = "p" THEN
    {"d1"} ELSE {"d1","d2"}], Searches <- [s \in {"","q"} |-> IF s = "" THEN {"p","q"} ELSE
    {"q"}], Null <- NULL, Views <- {"cells","import","updates"}

Scheduled == INSTANCE Schedules WITH
    MaxCalls <- 3, Minutes <- 4, Hours <- 2, Days <- 4, Months <- 2, Weekdays <- 3, Attempts
    <- 60, Horizon <- 192, Nows <- {0, 29}, MinuteFields <- {<<>>, <<[from |-> 0, to |-> 0,
    step |-> 1]>>, <<[from |-> 0, to |-> 3, step |-> 2]>>}, HourFields <- {<<>>, <<[from |->
    1, to |-> 1, step |-> 1]>>}, DayFields <- {<<>>, <<[from |-> 1, to |-> 3, step |-> 2],
    [from |-> 4, to |-> 4, step |-> 1]>>}, MonthFields <- {<<>>, <<[from |-> 2, to |-> 2, step
    |-> 1]>>}, WeekdayFields <- {<<>>, <<[from |-> 0, to |-> 0, step |-> 1]>>, <<[from |-> 3,
    to |-> 3, step |-> 1]>>}, Views <- {"table", "preview"}

Feed == INSTANCE AlertsFeed WITH
    MaxCalls <- 2, Alerts <- {"a","b"}, DeviceOf <- [a \in {"a","b"} |-> "d"], Passing <-
    {"a"}

Shell == INSTANCE Frame WITH
    MaxCalls <- 2, Texts <- {"","ab","abc"}, Short <- {""}, Groups <- {"g","h"}, Views <-
    {"search","keys","groups"}, Hits <- [k \in {"devices","software"} |-> [t \in {"ab","abc"}
    |-> IF k = "devices" THEN (IF t = "ab" THEN <<"d1","d2">> ELSE <<"d2">>) ELSE (IF t = "ab"
    THEN <<"s1">> ELSE <<>>)]]

Custom == INSTANCE CustomDashboard WITH
    MaxCalls <- 0, availableWidgets <- {"a","b","c"}, defaultLayout <- <<[widgetId |-> "a",
    size |-> 1], [widgetId |-> "b", size |-> 2]>>, MaxSize <- 2, Null <- NULL

-----------------------------------------------------------------------------

Init ==
    \/ part = "device" /\ Device!Init
    \/ part = "dashboard" /\ Dashboard!Init
    \/ part = "library" /\ Library!Init
    \/ part = "admin" /\ Admin!Init
    \/ part = "settings" /\ Settings!Init
    \/ part = "paged" /\ Paged!Init
    \/ part = "inventory" /\ Inventory!Init
    \/ part = "schedules" /\ Scheduled!Init
    \/ part = "alerts" /\ Feed!Init
    \/ part = "frame" /\ Shell!Init
    \/ part = "custom" /\ Custom!Init

Next ==
    \/ part = "device" /\ part' = part /\ Device!Next
    \/ part = "dashboard" /\ part' = part /\ Dashboard!Next
    \/ part = "library" /\ part' = part /\ Library!Next
    \/ part = "admin" /\ part' = part /\ Admin!Next
    \/ part = "settings" /\ part' = part /\ Settings!Next
    \/ part = "paged" /\ part' = part /\ Paged!Next
    \/ part = "inventory" /\ part' = part /\ Inventory!Next
    \/ part = "schedules" /\ part' = part /\ Scheduled!Next
    \/ part = "alerts" /\ part' = part /\ Feed!Next
    \/ part = "frame" /\ part' = part /\ Shell!Next
    \/ part = "custom" /\ part' = part /\ Custom!Next

Spec == Init /\ [][Next]_all

-----------------------------------------------------------------------------

\* The types of the pages' state.
TypeOK ==
    CASE part = "device" -> Device!TypeOK
      [] part = "dashboard" -> Dashboard!TypeOK
      [] part = "library" -> Library!TypeOK
      [] part = "admin" -> Admin!TypeOK
      [] part = "settings" -> Settings!TypeOK
      [] part = "paged" -> Paged!TypeOK
      [] part = "inventory" -> Inventory!TypeOK
      [] part = "schedules" -> Scheduled!TypeOK
      [] part = "alerts" -> Feed!TypeOK
      [] part = "frame" -> Shell!TypeOK
      [] part = "custom" -> Custom!TypeOK

\* Pages show what they were given.  Once nothing is under way, every list, form
\* and panel shows what the server holds: every mutation invalidates what it
\* changes, and a late answer never replaces a newer one.  A form that was not
\* touched shows what was fetched, the preview of the branding what was saved,
\* the list of packages the search on the screen, and the top bar's badge misses
\* no alert that the sidebar's counts.
Shown ==
    /\ part = "device" => Device!Settled /\ Device!FormsFollow
    /\ part = "library" => Library!Settled
    /\ part = "admin" => Admin!Settled
    /\ part = "settings" => Settings!Settled /\ Settings!PreviewIsSaved
    /\ part = "paged" => Paged!SearchSettles
    /\ part = "inventory" => Inventory!Settled
    /\ part = "schedules" => Scheduled!Settled
    /\ part = "alerts" => Feed!Settled /\ Feed!StoreCoversList
    /\ part = "frame" => Shell!GroupsSettled

\* Inputs share their state with others, and callbacks reset it: still what is
\* sent for a field, a cell, an account, a rule or a saved command was typed in
\* its own input.
SendsItsOwn ==
    /\ part = "device" => Device!NoCrossWrites
    /\ part = "library" => Library!EditorShowsItsOwn
    /\ part = "admin" => Admin!PasswordForItsAccount
    /\ part = "settings" => Settings!RuleTargets
    /\ part = "inventory" => Inventory!SavesWhatIsShown

\* Requests for several things reach those they were made for: a command for
\* several devices names devices of the list, and is not sent twice by one bar;
\* Update Selected reaches every device on which a selected package is pending;
\* an import takes the rows of its file in order, and after a failure a prefix.
BatchesReach ==
    /\ part = "dashboard" => Dashboard!BulkTargets /\ Dashboard!OneBulkAtATime
    /\ part = "inventory" => Inventory!UpdateReaches /\ Inventory!ImportInOrder

\* A change is not undone by an earlier one, in whatever order requests are
\* handled and answered: presses of a switch that are under way together ask for
\* the same, so that the last one decides; a tag that was saved survives the next
\* one; a resolved alert that has left the store comes back only by a late event.
NotUndone ==
    /\ part = "device" => Device!TagsKept
    /\ part = "admin" => Admin!LastPressWins
    /\ part = "schedules" => Scheduled!TogglesAgree
    /\ part = "alerts" => Feed!NeverBack

\* What the dialog of a schedule says of a cron expression is what the server
\* will do: the runs it previews are the next ones, and an interval it words is
\* the one between runs.
CronShown == part = "schedules" => Scheduled!PreviewIsNextRuns /\ Scheduled!WordingHolds

\* Indices point to something.  There is a result under the selection of a search
\* when there are results, which are those of what was typed since it was opened;
\* a search of the packages is on a page there is; the control of a paged list
\* shows the pages near the current one; no widget is in a layout twice.
InRange ==
    /\ part = "frame" => Shell!SelectionInResults /\ Shell!SearchStartsEmpty
    /\ part = "paged" => Paged!PagerShows /\ Paged!SearchInRange
    /\ part = "custom" => Custom!EachOnce

\* Controls do what they say: those of a paged list never lead further out than
\* the list is on; a letter leads to another page only right after G; a drop
\* reorders the widgets, and no widget is lost by it.
ControlsMove ==
    [][/\ part = "paged" => Paged!NeverFurtherOut
       /\ part = "frame" => Shell!NavigatesAfterG
       /\ part = "custom" => Custom!DropReorders]_all
=============================================================================

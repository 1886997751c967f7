------------------------------- MODULE Website -------------------------------
(***************************************************************************)
(* The pages of the website (front/public/js/app.js) and the requests that *)
(* answer them (front/server.js): the overview of all plants, the page of  *)
(* one plant, their refresh loops, and the one chart file all pages share. *)
(* Editing a plant is in LatticeWatering, its schedules in                 *)
(* WateringSchedules; here nodes report and the backend starts and stops.  *)
(***************************************************************************)
EXTENDS Startup, PlantDb

CONSTANTS
    Tabs,                \* the tabs of the users' browsers
    Index,               \* the overview, the page at /
    Closed,              \* a tab without a page of the website
    NoChart              \* no picture in the file or on a page

ASSUME WebsiteAssumption ==
    /\ Index \notin Nodes
    /\ NoChart \notin Nodes
    /\ ~DbMayFail                       \* failures are events of Budget here

VARIABLES
    tabs,                \* the page of each tab
    strays,              \* charts being drawn for pages that have been left
    mychart              \* whose chart is in public/img/mychart.png

websiteVars == <<startupVars, dbVars, tabs, strays, mychart>>

(* What a page does once the fetch it awaits fails.  The overview and a    *)
(* page being built do not catch it.  The loop of a plant's page ignores a *)
(* failed chart, and a failed answer has already set the next timer.       *)
AfterFailure ==
    [refresh |-> "failed", load |-> "failed", list |-> "failed",
     chart |-> "info", drawing |-> "info", info |-> "asleep", image |-> "asleep",
     asleep |-> "asleep", failed |-> "failed", stopped |-> "stopped"]

(* An answer that breaks off after its headers fails in res.json, past     *)
(* the catch that would have set the timer.                                *)
AfterCut == [AfterFailure EXCEPT !["info"] = "stopped"]

Activity == DOMAIN AfterFailure
Waiting == {at \in Activity : AfterFailure[at] # at}

Page == [page : Nodes \cup {Index}, at : Activity,
         shown : UNION {[S -> Humidities \cup {NoReading}] : S \in SUBSET Nodes},
         chart : Nodes \cup {NoChart}]

(* Only a plant's page has ever shown a chart, or waits for one.           *)
TypeOK ==
    /\ StartupTypeOK
    /\ DbTypeOK
    /\ tabs \in [Tabs -> Page \cup {Closed}]
    /\ strays \in [Nodes -> Nat]
    /\ mychart \in Nodes \cup {NoChart}
    /\ \A t \in Tabs : tabs[t] # Closed =>
         IF tabs[t].page = Index
         THEN tabs[t].at \in {"refresh", "asleep", "failed"} /\ tabs[t].chart = NoChart
         ELSE DOMAIN tabs[t].shown \subseteq {tabs[t].page} /\ tabs[t].at # "refresh"

Init ==
    /\ StartupInit
    /\ DbInit
    /\ tabs = [t \in Tabs |-> Closed]
    /\ strays = [n \in Nodes |-> 0]
    /\ mychart = NoChart

At(t, at) == tabs[t] # Closed /\ tabs[t].at = at

(***************************************************************************)
(* The process, its database, and the nodes.                               *)
(***************************************************************************)
(* Mutant: the catch around a plant's answer sets no timer.                *)
FailedForGood(tab) ==
    IF tab = Closed THEN Closed
    ELSE [tab EXCEPT !.at = AfterCut[@],
                     !.chart = IF tab.at = "image" THEN NoChart ELSE @]

Failed(tab) ==
    IF tab = Closed THEN Closed
    ELSE [tab EXCEPT !.at = AfterFailure[@],
                     !.chart = IF tab.at = "image" THEN NoChart ELSE @]

(* The end of the process: connections and unfinished charts go with it.   *)
LoseAll ==
    /\ tabs' = [t \in Tabs |-> Failed(tabs[t])]
    /\ strays' = [n \in Nodes |-> 0]
    /\ UNCHANGED mychart

(* A handler that throws ends the process: nothing catches the rejection.  *)
Die ==
    /\ phase' = "down" /\ UNCHANGED <<file, tables>>
    /\ LoseAll
    /\ UNCHANGED dbVars

Crash == Stop /\ LoseAll /\ UNCHANGED dbVars

ForgetPlants ==
    /\ DeleteDatabase
    /\ plant_nodes' = [n \in Nodes |-> NoRow]
    /\ plant_humidities' = [n \in Nodes |-> NoReading]
    /\ UNCHANGED <<tabs, strays, mychart>>

Startup ==
    /\ Start \/ StartupStep \/ GiveUp
    /\ UNCHANGED <<dbVars, tabs, strays, mychart>>

NewRow == [pump_activated |-> FALSE, calibration |-> FactoryCalibration,
           thresholds |-> DefaultThresholds]

(* The two statements of a report from a plant, in either order.           *)
DataReport(n) ==
    /\ phase = "listening"
    /\ \/ ~Registered(n) /\ change_plant_node(n, NewRow)
       \/ \E h \in Humidities : insert_plant_humidity(n, h)
    /\ UNCHANGED <<startupVars, tabs, strays, mychart>>

(***************************************************************************)
(* The user.  A page left while its chart is drawn leaves a stray drawing. *)
(***************************************************************************)
Opened(page) ==
    [page |-> page, at |-> IF page = Index THEN "refresh" ELSE "load",
     shown |-> [n \in {} |-> NoReading], chart |-> NoChart]

Leave(t) ==
    strays' = IF At(t, "drawing") THEN [strays EXCEPT ![tabs[t].page] = @ + 1] ELSE strays

Visit(t, page) ==
    /\ phase = "listening" /\ Spend("visit")
    /\ Leave(t)
    /\ tabs' = [tabs EXCEPT ![t] = Opened(page)]
    /\ UNCHANGED <<phase, file, tables, dbVars, mychart>>

OpenOverview(t) == Visit(t, Index)

(* The link "Settings ..." of a plant on the overview.                     *)
OpenSettings(t) ==
    /\ tabs[t] # Closed /\ tabs[t].page = Index
    /\ \E n \in DOMAIN tabs[t].shown : Visit(t, n)

Reload(t) == tabs[t] # Closed /\ Visit(t, tabs[t].page)

Become(t, at) ==
    /\ tabs' = [tabs EXCEPT ![t].at = at]
    /\ UNCHANGED <<startupVars, dbVars, strays, mychart>>

(* "Refresh Show Plants" begins the loop anew.  On an overview whose loop  *)
(* goes on, a second loop would only repeat what the first one does.       *)
RefreshShowPlants(t) ==
    At(t, "failed") /\ tabs[t].page = Index /\ Become(t, "refresh")

(* Mutant: every page runs the loop of a plant's page.                     *)
WakeUpPlant(t) == At(t, "asleep") /\ Become(t, "chart")

(* The timer of a refresh loop.                                            *)
WakeUp(t) ==
    At(t, "asleep") /\ Become(t, IF tabs[t].page = Index THEN "refresh" ELSE "chart")

(***************************************************************************)
(* The requests.  An answer reaches the page in the step that makes it.    *)
(***************************************************************************)
Asks(t, at) == phase = "listening" /\ At(t, at)

Answered(t, page) ==
    /\ tabs' = [tabs EXCEPT ![t] = page]
    /\ UNCHANGED <<phase, file, tables, dbVars, strays, mychart>>

(* Mutant: plants without a reading are listed too.                        *)
OverviewOfRows == [n \in {m \in Nodes : Registered(m)} |-> plant_humidities[n]]

(* The rows that have a reading, each with the newest one.                 *)
Overview == [n \in {m \in Nodes : Listed(m)} |-> plant_humidities[n]]

plant_refresh(t) ==
    /\ Asks(t, "refresh")
    /\ \/ /\ Answered(t, [tabs[t] EXCEPT !.at = "asleep", !.shown = Overview])
          /\ UNCHANGED left
       \/ /\ Answered(t, [tabs[t] EXCEPT !.at = "asleep", !.shown = [n \in {} |-> NoReading]])
          /\ Spend("error")

(* What a plant's page shows of an answer.  A page being built shows the   *)
(* chart file at once, a refreshed one loads it anew after the answer.     *)
Shows(t, reading) ==
    [tabs[t] EXCEPT !.shown = [n \in {tabs[t].page} |-> reading],
                    !.at = IF @ = "load" THEN "list" ELSE "image",
                    !.chart = IF tabs[t].at = "load" THEN mychart ELSE @]

(* Without a row there is no configuration, without a reading no           *)
(* humidities[0].  If the select of the readings alone fails, the rows of  *)
(* the first one are taken for them, and the humidity is undefined.        *)
plant_detail_view(t) ==
    LET n == tabs[t].page IN
    /\ Asks(t, "load") \/ Asks(t, "info")
    /\ \/ Listed(n) /\ Answered(t, Shows(t, plant_humidities[n])) /\ UNCHANGED left
       \/ ~Listed(n) /\ Die /\ UNCHANGED left
       \/ Registered(n) /\ Answered(t, Shows(t, NoReading)) /\ Spend("error")
       \/ Die /\ Spend("error")

(* An error is an empty list to the page.                                  *)
select_watering_schedules(t) == Asks(t, "list") /\ Become(t, "chart")

(* The process ends if both selects fail; a failure of the second alone    *)
(* gives a chart of the configuration row.                                 *)
plant_chart(t) ==
    /\ Asks(t, "chart")
    /\ \/ Answered(t, [tabs[t] EXCEPT !.at = "drawing"]) /\ UNCHANGED left
       \/ Die /\ Spend("error")

(* The chart has been drawn; the write is synchronous.                     *)
WriteChart(t) ==
    /\ Asks(t, "drawing")
    /\ mychart' = tabs[t].page
    /\ tabs' = [tabs EXCEPT ![t].at = "info"]
    /\ UNCHANGED <<startupVars, dbVars, strays>>

WriteStray(n) ==
    /\ phase = "listening" /\ strays[n] > 0
    /\ mychart' = n
    /\ strays' = [strays EXCEPT ![n] = @ - 1]
    /\ UNCHANGED <<startupVars, dbVars, tabs>>

(* Mutant: the browser is left with the picture it has.                    *)
KeepImage(t) ==
    /\ Asks(t, "image")
    /\ Answered(t, [tabs[t] EXCEPT !.at = "asleep", !.chart = IF @ = NoChart THEN mychart ELSE @])
    /\ UNCHANGED left

(* The new address of the picture makes the browser load it; the page does *)
(* not wait for it, but sleeps for a second.                               *)
LoadImage(t) ==
    /\ Asks(t, "image")
    /\ Answered(t, [tabs[t] EXCEPT !.at = "asleep", !.chart = mychart])
    /\ UNCHANGED left

(* Nobody listens; or a connection breaks while the answer is on its way.  *)
FetchRefused(t) ==
    /\ phase # "listening" /\ tabs[t] # Closed /\ tabs[t].at \in Waiting
    /\ tabs' = [tabs EXCEPT ![t] = Failed(@)]
    /\ UNCHANGED <<startupVars, dbVars, strays, mychart>>

FetchCut(t) ==
    /\ phase = "listening" /\ tabs[t] # Closed /\ tabs[t].at \in Waiting
    /\ Spend("cut")
    /\ Leave(t)
    /\ tabs' = [tabs EXCEPT ![t].at = AfterCut[@]]
    /\ UNCHANGED <<phase, file, tables, dbVars, mychart>>

Serve(t) ==
    \/ plant_refresh(t) \/ plant_detail_view(t) \/ select_watering_schedules(t)
    \/ plant_chart(t) \/ WriteChart(t) \/ LoadImage(t)

Next ==
    \/ Startup \/ Crash \/ ForgetPlants
    \/ \E n \in Nodes : DataReport(n) \/ WriteStray(n)
    \/ \E t \in Tabs :
         \/ OpenOverview(t) \/ OpenSettings(t) \/ Reload(t) \/ RefreshShowPlants(t)
         \/ WakeUp(t) \/ FetchRefused(t) \/ FetchCut(t) \/ Serve(t)

(* What is under way goes on: statements, requests, timers, refusals.      *)
(* Nobody has to start or stop the backend, to visit it, or to report.     *)
Spec ==
    /\ Init /\ [][Next]_websiteVars
    /\ WF_websiteVars(StartupStep /\ UNCHANGED <<dbVars, tabs, strays, mychart>>)
    /\ \A n \in Nodes : WF_websiteVars(WriteStray(n))
    /\ \A t \in Tabs : WF_websiteVars(WakeUp(t) \/ FetchRefused(t) \/ Serve(t))

(***************************************************************************)
(* Properties.                                                             *)
(***************************************************************************)
(* As long as nobody deletes the database, no sequence of pages, clicks    *)
(* and reports ends the process without a failing statement or somebody    *)
(* stopping it: the handler that throws for a plant without a reading is   *)
(* never asked for one, since the overview does not link it                *)
(* (server.js:60-65, db.js:163-187).                                       *)
PagesDoNotStopIt ==
    [][phase = "listening" /\ phase' # "listening" =>
         left' # left \/ left["delete"] < Budget["delete"]]_websiteVars

IsCurrent(t) ==
    tabs[t].shown = IF tabs[t].page = Index THEN Overview
                    ELSE [n \in {tabs[t].page} |-> plant_humidities[n]]

(* While the backend listens, an open page shows the newest readings again *)
(* and again, whatever failed or was refused before, unless a connection   *)
(* was cut or its loop ended with a refused fetch that nothing catches     *)
(* (app.js:35-90, 295-310).                                                *)
ShowsNewest ==
    \A t \in Tabs :
        <>[](phase = "listening" /\ left["cut"] = Budget["cut"]) =>
            []<>(tabs[t] = Closed \/ tabs[t].at = "failed" \/ IsCurrent(t))

OnPlant(t, n) == tabs[t] # Closed /\ tabs[t].page = n

(* All pages share one chart file.  Once the pages of a single plant are   *)
(* left, those that still refresh come to show its chart and keep it,      *)
(* whatever drawings of other plants were under way (server.js:191-203,    *)
(* app.js:295-310).                                                        *)
ChartIsOfPlant ==
    \A n \in Nodes :
        <>[](phase = "listening" /\ \A t \in Tabs, m \in Nodes \ {n} : ~OnPlant(t, m)) =>
            <>[](\A t \in Tabs : OnPlant(t, n) =>
                   tabs[t].chart = n \/ tabs[t].at \in {"failed", "stopped"})

=============================================================================

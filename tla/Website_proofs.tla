---------------------------- MODULE Website_proofs ----------------------------
(***************************************************************************)
(* Proofs about the startup of the backend and the pages of the website:   *)
(* their types, that a backend which listens has its tables, and that no   *)
(* page ends the process.                                                  *)
(***************************************************************************)
EXTENDS Website, TLAPS

(* The parts of TypeOK that speak of the browsers.                         *)
PageOK(page) ==
    IF page.page = Index
    THEN page.at \in {"refresh", "asleep", "failed"} /\ page.chart = NoChart
    ELSE DOMAIN page.shown \subseteq {page.page} /\ page.at # "refresh"

TabsOK ==
    /\ tabs \in [Tabs -> Page \cup {Closed}]
    /\ \A t \in Tabs : tabs[t] # Closed => PageOK(tabs[t])

(* The conjuncts of the types.                                             *)
LEMMA TypeParts ==
  TypeOK <=> /\ StartupTypeOK /\ DbTypeOK /\ TabsOK
             /\ strays \in [Nodes -> Nat] /\ mychart \in Nodes \cup {NoChart}
  BY DEF TypeOK, TabsOK, PageOK

(***************************************************************************)
(* The startup.                                                            *)
(***************************************************************************)
LEMMA Spent ==
  ASSUME StartupTypeOK, NEW e \in Event \ {"any"}, Spend(e)
  PROVE  /\ left' \in [Event -> Nat] /\ left' # left
         /\ \A x \in Event : left'[x] <= left[x]
         /\ left'[e] < left[e]
<1>1. "any" \in Event /\ left \in [Event -> Nat]
  BY DEF StartupTypeOK, Event
<1>2. left' = [x \in Event |-> IF x = e \/ x = "any" THEN left[x] - 1 ELSE left[x]]
      /\ left[e] > 0 /\ left["any"] > 0
  BY <1>1 DEF Spend
<1>. QED
  BY <1>1, <1>2

(* A file is torn where a crash or an error has stopped the creation of    *)
(* its tables, which are made in order (db.js:24-68).                      *)
TablesInOrder ==
    /\ \E k \in 0 .. 3 : tables = {Table[j] : j \in 1 .. k}
    /\ phase = "listening" => tables = AllTables

(* The three tables, in order (db.js:35-67).                               *)
LEMMA TableNames ==
  /\ DOMAIN Table = 1 .. 3 /\ Len(Table) = 3
  /\ Table[1] = "plant_nodes" /\ Table[2] = "plant_humidities"
  /\ Table[3] = "plant_watering_schedules"
  /\ AllTables = {Table[j] : j \in 1 .. 3}
  BY DEF Table, AllTables

(* What a step of the startup may do.                                      *)
StartupActions == Start \/ StartupStep \/ GiveUp \/ Stop \/ DeleteDatabase

(* The startup keeps its types (db.js:71-84).                              *)
LEMMA StartupTypes ==
  ASSUME StartupTypeOK, StartupActions
  PROVE  StartupTypeOK'
<1>1. {"crash", "error", "delete"} \subseteq Event \ {"any"}
  BY DEF Event
<1>2. CASE Start
  BY <1>2 DEF StartupTypeOK, Start, Proceed, Phase
<1>3. CASE Open
  BY <1>1, <1>3, Spent DEF StartupTypeOK, Open, Proceed, Fail, Phase
<1>4. CASE CreateDb
  BY <1>1, <1>4, Spent DEF StartupTypeOK, CreateDb, Proceed, Fail, Phase
<1>5. CASE CreateTable
  BY <1>1, <1>5, Spent DEF StartupTypeOK, CreateTable, Proceed, Fail, Phase, AllTables
<1>6. CASE LoadSchedules
  BY <1>1, <1>6, Spent DEF StartupTypeOK, LoadSchedules, Proceed, Fail, Phase
<1>7. CASE GiveUp
  BY <1>7 DEF StartupTypeOK, GiveUp, Proceed, Phase
<1>8. CASE Stop
  BY <1>1, <1>8, Spent DEF StartupTypeOK, Stop, Phase
<1>9. CASE DeleteDatabase
  BY <1>1, <1>9, Spent DEF StartupTypeOK, DeleteDatabase, Phase
<1>. QED
  BY <1>2, <1>3, <1>4, <1>5, <1>6, <1>7, <1>8, <1>9 DEF StartupActions, StartupStep

(* The startup listens only behind a select that needs the last table.     *)
LEMMA StartupTables ==
  ASSUME TablesInOrder, StartupActions
  PROVE  TablesInOrder'
<1>1. CASE UNCHANGED tables /\ phase' # "listening"
  BY <1>1 DEF TablesInOrder
<1>2. CASE CreateTable
  <2>1. CASE Fail("tables", "stuck")
    BY <1>1, <2>1 DEF Fail
  <2>2. ASSUME NEW i \in DOMAIN Table,
               tables = {Table[j] : j \in 1 .. i - 1}, tables' = tables \cup {Table[i]},
               Proceed("tables", IF i = Len(Table) THEN "loading" ELSE "tables")
        PROVE  TablesInOrder'
    <3>1. i \in 1 .. 3
      BY TableNames
    <3>2. tables' = {Table[j] : j \in 1 .. i}
      <4>1. 1 .. i = (1 .. i - 1) \cup {i}
        BY <3>1
      <4>. QED
        BY <2>2, <4>1
    <3>3. phase' # "listening"
      BY <2>2 DEF Proceed
    <3>. QED
      BY <3>1, <3>2, <3>3 DEF TablesInOrder
  <2>. QED
    BY <1>2, <2>1, <2>2 DEF CreateTable
<1>3. CASE LoadSchedules
  <2>1. CASE phase' = "listening"
    <3>1. select_plant_watering_schedules /\ UNCHANGED tables
      BY <1>3, <2>1 DEF LoadSchedules, Proceed, Fail
    <3>2. PICK k \in 0 .. 3 : tables = {Table[j] : j \in 1 .. k}
      BY DEF TablesInOrder
    <3>3. "plant_watering_schedules" \in tables
      BY <3>1 DEF select_plant_watering_schedules
    <3>4. k = 3
      BY <3>2, <3>3, TableNames
    <3>. QED
      BY <3>1, <3>2, <3>4, TableNames DEF TablesInOrder
  <2>2. CASE phase' # "listening"
    BY <1>1, <1>3, <2>2 DEF LoadSchedules, Fail
  <2>. QED
    BY <2>1, <2>2
<1>4. CASE DeleteDatabase
  <2>1. tables' = {Table[j] : j \in 1 .. 0} /\ phase' # "listening"
    BY <1>4 DEF DeleteDatabase
  <2>. QED
    BY <2>1 DEF TablesInOrder
<1>5. CASE Start \/ Open \/ CreateDb \/ GiveUp \/ Stop
  BY <1>1, <1>5 DEF Start, Open, CreateDb, GiveUp, Stop, Proceed, Fail
<1>. QED
  BY <1>2, <1>3, <1>4, <1>5 DEF StartupActions, StartupStep

(***************************************************************************)
(* The pages.                                                              *)
(***************************************************************************)
Showns == UNION {[S -> Humidities \cup {NoReading}] : S \in SUBSET Nodes}

(* The fields of a page.                                                   *)
LEMMA PageFields ==
  /\ Page = [page : Nodes \cup {Index}, at : Activity, shown : Showns,
             chart : Nodes \cup {NoChart}]
  /\ Activity = {"refresh", "load", "list", "chart", "drawing", "info", "image",
                 "asleep", "failed", "stopped"}
  /\ \A at \in Activity : AfterFailure[at] \in Activity /\ AfterFailure[at] # "refresh"
                          /\ AfterCut[at] \in Activity /\ AfterCut[at] # "refresh"
  /\ \A at \in {"refresh", "asleep", "failed"} :
        AfterFailure[at] \in {"asleep", "failed"} /\ AfterCut[at] \in {"asleep", "failed"}
<1>1. Activity = {"refresh", "load", "list", "chart", "drawing", "info", "image",
                  "asleep", "failed", "stopped"}
  BY DEF Activity, AfterFailure
<1>2. \A at \in Activity : AfterFailure[at] \in Activity /\ AfterFailure[at] # "refresh"
  BY <1>1 DEF AfterFailure
<1>3. AfterCut = [at \in Activity |-> IF at = "info" THEN "stopped" ELSE AfterFailure[at]]
  BY <1>1 DEF AfterCut, AfterFailure
<1>4. \A at \in {"refresh", "asleep", "failed"} : AfterFailure[at] \in {"asleep", "failed"}
  BY DEF AfterFailure
<1>. QED
  BY <1>1, <1>2, <1>3, <1>4 DEF Page, Showns

(* A page whose plants, linked or shown, are listed (server.js:83-95).     *)
LinksOK(page) ==
    IF page.page = Index THEN \A n \in DOMAIN page.shown : Listed(n) ELSE Listed(page.page)

(* What becomes of the page of a tab, or of the tab.                       *)
Moves(t) ==
    \E q \in Page :
       /\ tabs' = [tabs EXCEPT ![t] = q] /\ PageOK(q)
       /\ (tabs[t] # Closed => LinksOK(tabs[t])) => LinksOK(q)

(* What it becomes when one of them changes.                               *)
LEMMA Field ==
  ASSUME NEW p \in Page
  PROVE  /\ p.page \in Nodes \cup {Index} /\ p.at \in Activity
         /\ p.shown \in Showns /\ p.chart \in Nodes \cup {NoChart}
  BY PageFields

(* A page that waits for something else is still a page (app.js:295-310).  *)
LEMMA PageAt ==
  ASSUME NEW p \in Page, NEW at \in Activity
  PROVE  /\ [p EXCEPT !.at = at] \in Page
         /\ [p EXCEPT !.at = at].page = p.page /\ [p EXCEPT !.at = at].at = at
         /\ [p EXCEPT !.at = at].shown = p.shown /\ [p EXCEPT !.at = at].chart = p.chart
  BY PageFields

(* The page moves within its loop, its links stay.                         *)
LEMMA MovesAt ==
  ASSUME TabsOK, NEW t \in Tabs, tabs[t] # Closed, NEW at \in Activity,
         IF tabs[t].page = Index THEN at \in {"refresh", "asleep", "failed"} ELSE at # "refresh",
         tabs' = [tabs EXCEPT ![t] = [tabs[t] EXCEPT !.at = at]]
  PROVE  Moves(t)
<1> DEFINE q == [tabs[t] EXCEPT !.at = at]
<1>0. tabs[t] \in Page /\ PageOK(tabs[t])
  BY DEF TabsOK
<1>1. q \in Page /\ q.page = tabs[t].page /\ q.at = at /\ q.shown = tabs[t].shown
      /\ q.chart = tabs[t].chart
  BY <1>0, PageAt
<1> HIDE DEF q
<1>2. PageOK(q)
  BY <1>0, <1>1 DEF PageOK
<1>3. LinksOK(tabs[t]) => LinksOK(q)
  BY <1>1 DEF LinksOK
<1>4. tabs' = [tabs EXCEPT ![t] = q]
  BY DEF q
<1>. QED
  BY <1>1, <1>2, <1>3, <1>4 DEF Moves

(* A page whose fetch has failed (app.js:295-310).                         *)
LEMMA FailedPage ==
  ASSUME NEW p \in Page, PageOK(p), p # Closed
  PROVE  Failed(p) \in Page /\ PageOK(Failed(p)) /\ (LinksOK(p) => LinksOK(Failed(p)))
<1>0. p.at \in Activity /\ p.chart \in Nodes \cup {NoChart}
  BY Field
<1> DEFINE c == IF p.at = "image" THEN NoChart ELSE p.chart
           q == [p EXCEPT !.at = AfterFailure[p.at], !.chart = c]
<1>1. Failed(p) = q
  BY DEF Failed
<1>2. c \in Nodes \cup {NoChart} /\ AfterFailure[p.at] \in Activity
  BY <1>0, PageFields
<1> HIDE DEF c
<1>3. q \in Page /\ q.page = p.page /\ q.at = AfterFailure[p.at] /\ q.shown = p.shown /\ q.chart = c
  BY <1>2, PageFields
<1> HIDE DEF q
<1>4. PageOK(q)
  <2>1. CASE p.page = Index
    <3>1. q.at \in {"asleep", "failed"}
      BY <1>3, <2>1, PageFields DEF PageOK
    <3>2. c = NoChart
      BY <2>1 DEF PageOK, c
    <3>. QED
      BY <1>3, <2>1, <3>1, <3>2 DEF PageOK
  <2>2. CASE p.page # Index
    BY <1>0, <1>3, <2>2, PageFields DEF PageOK
  <2>. QED
    BY <2>1, <2>2
<1>5. LinksOK(p) => LinksOK(q)
  BY <1>3 DEF LinksOK
<1>. QED
  BY <1>1, <1>3, <1>4, <1>5

(* A page that has just been opened (app.js:6-16).                         *)
LEMMA OpenedPage ==
  ASSUME NEW page \in Nodes \cup {Index}
  PROVE  /\ Opened(page) \in Page /\ PageOK(Opened(page))
         /\ (page = Index \/ Listed(page)) => LinksOK(Opened(page))
<1> DEFINE q == Opened(page)
<1>1. [n \in {} |-> NoReading] \in Showns /\ DOMAIN [n \in {} |-> NoReading] = {}
  <2>1. [n \in {} |-> NoReading] \in [{} -> Humidities \cup {NoReading}]
    OBVIOUS
  <2>. QED
    BY <2>1 DEF Showns
<1>2. q.page = page /\ q.at = (IF page = Index THEN "refresh" ELSE "load")
      /\ q.shown = [n \in {} |-> NoReading] /\ q.chart = NoChart
  BY DEF Opened
<1>3. q \in Page
  BY <1>1, PageFields DEF Opened
<1> HIDE DEF q
<1>4. PageOK(q)
  BY <1>1, <1>2 DEF PageOK
<1>5. (page = Index \/ Listed(page)) => LinksOK(q)
  BY <1>1, <1>2 DEF LinksOK
<1>. QED
  BY <1>3, <1>4, <1>5 DEF q

(* What the tabs hold.                                                     *)
LEMMA TabFields ==
  ASSUME TabsOK, NEW t \in Tabs, tabs[t] # Closed
  PROVE  /\ tabs[t] \in Page /\ PageOK(tabs[t])
         /\ tabs[t].page \in Nodes \cup {Index} /\ tabs[t].at \in Activity
         /\ tabs[t].shown \in Showns /\ DOMAIN tabs[t].shown \subseteq Nodes
         /\ tabs[t].chart \in Nodes \cup {NoChart}
         /\ tabs[t].at \notin {"refresh", "asleep", "failed"} =>
              tabs[t].page \in Nodes
<1>1. tabs[t] \in Page /\ PageOK(tabs[t])
  BY DEF TabsOK
<1>2. /\ tabs[t].page \in Nodes \cup {Index} /\ tabs[t].at \in Activity
      /\ tabs[t].shown \in Showns /\ tabs[t].chart \in Nodes \cup {NoChart}
  BY <1>1, Field
<1>3. \A s \in Showns : DOMAIN s \subseteq Nodes
  BY DEF Showns
<1>. QED
  BY <1>1, <1>2, <1>3 DEF PageOK

(* The user opens a page, from a link only of a listed plant.              *)
LEMMA VisitMoves ==
  ASSUME TabsOK, NEW t \in Tabs, OpenOverview(t) \/ OpenSettings(t) \/ Reload(t)
  PROVE  Moves(t)
<1>1. ASSUME NEW page \in Nodes \cup {Index}, Visit(t, page),
             page # Index => tabs[t] # Closed /\ (LinksOK(tabs[t]) => Listed(page))
      PROVE  Moves(t)
  <2>1. tabs' = [tabs EXCEPT ![t] = Opened(page)]
    BY <1>1 DEF Visit
  <2>2. (tabs[t] # Closed => LinksOK(tabs[t])) => LinksOK(Opened(page))
    BY <1>1, OpenedPage
  <2>. QED
    BY <2>1, <2>2, OpenedPage DEF Moves
<1>2. CASE OpenOverview(t)
  BY <1>1, <1>2 DEF OpenOverview
<1>3. CASE OpenSettings(t)
  <2>1. tabs[t] # Closed /\ tabs[t].page = Index
    BY <1>3 DEF OpenSettings
  <2>2. PICK n \in DOMAIN tabs[t].shown : Visit(t, n)
    BY <1>3 DEF OpenSettings
  <2>3. n \in Nodes
    BY <2>1, <2>2, TabFields
  <2>4. LinksOK(tabs[t]) => Listed(n)
    BY <2>1 DEF LinksOK
  <2>. QED
    BY <1>1, <2>1, <2>2, <2>3, <2>4
<1>4. CASE Reload(t)
  <2>1. tabs[t] # Closed /\ Visit(t, tabs[t].page)
    BY <1>4 DEF Reload
  <2>2. tabs[t].page \in Nodes \cup {Index}
    BY <2>1, TabFields
  <2>3. tabs[t].page # Index => (LinksOK(tabs[t]) => Listed(tabs[t].page))
    BY DEF LinksOK
  <2>. QED
    BY <1>1, <2>1, <2>2, <2>3
<1>. QED
  BY <1>2, <1>3, <1>4

(* Timers, clicks and failures move the page within its loop.              *)
LEMMA LoopMoves ==
  ASSUME TabsOK, NEW t \in Tabs,
         \/ RefreshShowPlants(t) \/ WakeUp(t) \/ FetchRefused(t) \/ FetchCut(t)
         \/ select_watering_schedules(t)
  PROVE  Moves(t)
<1>0. {"refresh", "load", "list", "chart", "drawing", "info", "image",
       "asleep", "failed", "stopped"} \subseteq Activity
  BY PageFields
<1>1. CASE RefreshShowPlants(t)
  BY <1>0, <1>1, MovesAt DEF RefreshShowPlants, Become, At
<1>2. CASE WakeUp(t)
  <2> DEFINE at == IF tabs[t].page = Index THEN "refresh" ELSE "chart"
  <2>1. tabs[t] # Closed /\ tabs' = [tabs EXCEPT ![t] = [tabs[t] EXCEPT !.at = at]]
    BY <1>2 DEF WakeUp, Become, At
  <2>2. at \in Activity
        /\ IF tabs[t].page = Index THEN at \in {"refresh", "asleep", "failed"} ELSE at # "refresh"
    BY <1>0
  <2> HIDE DEF at
  <2>. QED
    BY <2>1, <2>2, MovesAt
<1>3. CASE FetchRefused(t)
  <2>1. tabs[t] # Closed /\ tabs' = [tabs EXCEPT ![t] = Failed(tabs[t])]
    BY <1>3 DEF FetchRefused
  <2>2. Failed(tabs[t]) \in Page /\ PageOK(Failed(tabs[t]))
        /\ (LinksOK(tabs[t]) => LinksOK(Failed(tabs[t])))
    BY <2>1, TabFields, FailedPage
  <2>. QED
    BY <2>1, <2>2 DEF Moves
<1>4. CASE FetchCut(t)
  <2> DEFINE at == AfterCut[tabs[t].at]
  <2>1. tabs[t] # Closed /\ tabs' = [tabs EXCEPT ![t] = [tabs[t] EXCEPT !.at = at]]
    BY <1>4 DEF FetchCut
  <2>2. at \in Activity
        /\ IF tabs[t].page = Index THEN at \in {"refresh", "asleep", "failed"} ELSE at # "refresh"
    BY <2>1, TabFields, PageFields DEF PageOK
  <2> HIDE DEF at
  <2>. QED
    BY <2>1, <2>2, MovesAt
<1>5. CASE select_watering_schedules(t)
  <2>1. tabs[t] # Closed /\ tabs' = [tabs EXCEPT ![t] = [tabs[t] EXCEPT !.at = "chart"]]
        /\ tabs[t].at = "list"
    BY <1>5 DEF select_watering_schedules, Become, Asks, At
  <2>2. tabs[t].page # Index
    BY <2>1, TabFields DEF PageOK
  <2>. QED
    BY <1>0, <2>1, <2>2, MovesAt
<1>. QED
  BY <1>1, <1>2, <1>3, <1>4, <1>5

(* What a page of a plant shows of an answer (app.js:95-150, 295-310).     *)
LEMMA ShownMoves ==
  ASSUME TypeOK, NEW t \in Tabs, At(t, "load") \/ At(t, "info"),
         NEW reading \in Humidities \cup {NoReading},
         tabs' = [tabs EXCEPT ![t] = Shows(t, reading)]
  PROVE  Moves(t)
<1> DEFINE n == tabs[t].page
           s == [m \in {n} |-> reading]
           at == IF tabs[t].at = "load" THEN "list" ELSE "image"
           c == IF tabs[t].at = "load" THEN mychart ELSE tabs[t].chart
           q == [tabs[t] EXCEPT !.shown = s, !.at = at, !.chart = c]
<1>0. TabsOK /\ mychart \in Nodes \cup {NoChart}
  BY TypeParts
<1>1. tabs[t] # Closed /\ tabs[t] \in Page /\ n \in Nodes /\ tabs[t].chart \in Nodes \cup {NoChart}
  BY <1>0, TabFields DEF At
<1>2. Shows(t, reading) = q
  BY DEF Shows
<1>3. s \in Showns /\ DOMAIN s = {n}
  <2>1. s \in [{n} -> Humidities \cup {NoReading}] /\ {n} \in SUBSET Nodes
    BY <1>1
  <2>. QED
    BY <2>1 DEF Showns
<1>4. at \in Activity /\ at # "refresh" /\ c \in Nodes \cup {NoChart}
  BY <1>0, <1>1, PageFields
<1> HIDE DEF s, at, c
<1>5. q \in Page /\ q.page = n /\ q.at = at /\ q.shown = s
  BY <1>1, <1>3, <1>4, PageFields
<1> HIDE DEF q
<1>6. n # Index
  BY <1>1, WebsiteAssumption
<1>7. PageOK(q)
  BY <1>3, <1>4, <1>5, <1>6 DEF PageOK
<1>8. LinksOK(tabs[t]) => LinksOK(q)
  BY <1>5, <1>6 DEF LinksOK
<1>. QED
  BY <1>1, <1>2, <1>5, <1>7, <1>8 DEF Moves

(* A request is answered, or its handler throws: without a failing         *)
(* statement only the one of an unlisted plant does (server.js:60-95,      *)
(* 191-203).                                                               *)
LEMMA ServeMoves ==
  ASSUME TypeOK, NEW t \in Tabs, Serve(t)
  PROVE  \/ Moves(t) /\ UNCHANGED <<phase, file, tables, dbVars>>
            /\ (UNCHANGED left \/ Spend("error"))
            /\ strays' = strays /\ mychart' \in Nodes \cup {NoChart}
         \/ Die /\ Spend("error")
         \/ Die /\ UNCHANGED left
            /\ tabs[t] # Closed /\ tabs[t].page # Index /\ ~Listed(tabs[t].page)
<1>0. TabsOK /\ mychart \in Nodes \cup {NoChart} /\ DbTypeOK
  BY TypeParts
<1>a. {"refresh", "load", "list", "chart", "drawing", "info", "image",
       "asleep", "failed", "stopped"} \subseteq Activity
  BY PageFields
<1>1. CASE plant_refresh(t)
  <2>1. tabs[t] # Closed /\ tabs[t].at = "refresh" /\ tabs[t] \in Page /\ PageOK(tabs[t])
    BY <1>0, <1>1, TabFields DEF plant_refresh, Asks, At
  <2>2. tabs[t].page = Index /\ tabs[t].chart = NoChart
    BY <2>1 DEF PageOK
  <2>3. ASSUME NEW s \in Showns, \A n \in DOMAIN s : Listed(n),
               tabs' = [tabs EXCEPT ![t] = [tabs[t] EXCEPT !.at = "asleep", !.shown = s]]
        PROVE  Moves(t)
    <3> DEFINE q == [tabs[t] EXCEPT !.at = "asleep", !.shown = s]
    <3>1. q \in Page /\ q.page = Index /\ q.at = "asleep" /\ q.shown = s /\ q.chart = NoChart
      BY <2>1, <2>2, PageFields
    <3>2. tabs' = [tabs EXCEPT ![t] = q]
      BY <2>3
    <3> HIDE DEF q
    <3>3. PageOK(q) /\ LinksOK(q)
      BY <2>3, <3>1 DEF PageOK, LinksOK
    <3>. QED
      BY <3>1, <3>2, <3>3 DEF Moves
  <2>4. Overview \in Showns /\ \A n \in DOMAIN Overview : Listed(n)
    <3>1. Overview \in [{m \in Nodes : Listed(m)} -> Humidities \cup {NoReading}]
      BY <1>0 DEF Overview, DbTypeOK
    <3>. QED
      BY <3>1 DEF Showns
  <2>5. [n \in {} |-> NoReading] \in Showns /\ DOMAIN [n \in {} |-> NoReading] = {}
    <3>1. [n \in {} |-> NoReading] \in [{} -> Humidities \cup {NoReading}]
      OBVIOUS
    <3>. QED
      BY <3>1 DEF Showns
  <2>6. \/ /\ Answered(t, [tabs[t] EXCEPT !.at = "asleep", !.shown = Overview])
           /\ UNCHANGED left
        \/ /\ Answered(t, [tabs[t] EXCEPT !.at = "asleep", !.shown = [n \in {} |-> NoReading]])
           /\ Spend("error")
    BY <1>1 DEF plant_refresh
  <2>7. Moves(t)
    BY <2>3, <2>4, <2>5, <2>6 DEF Answered
  <2>. QED
    BY <1>0, <2>6, <2>7 DEF Answered
<1>2. CASE plant_detail_view(t)
  <2> DEFINE n == tabs[t].page
  <2>1. (At(t, "load") \/ At(t, "info")) /\ tabs[t] # Closed
    BY <1>2 DEF plant_detail_view, Asks, At
  <2>2. n \in Nodes
    BY <1>0, <2>1, TabFields DEF At
  <2>3. plant_humidities[n] \in Humidities \cup {NoReading} /\ n # Index
    BY <1>0, <2>2, WebsiteAssumption DEF DbTypeOK
  <2>4. CASE Listed(n) /\ Answered(t, Shows(t, plant_humidities[n])) /\ UNCHANGED left
    BY <1>0, <2>1, <2>3, <2>4, ShownMoves DEF Answered
  <2>5. CASE Registered(n) /\ Answered(t, Shows(t, NoReading)) /\ Spend("error")
    BY <1>0, <2>1, <2>5, ShownMoves DEF Answered
  <2>. QED
    BY <1>2, <2>1, <2>3, <2>4, <2>5 DEF plant_detail_view
<1>3. CASE select_watering_schedules(t)
  BY <1>0, <1>3, LoopMoves DEF select_watering_schedules, Become, startupVars
<1>4. CASE plant_chart(t)
  <2>1. tabs[t] # Closed /\ tabs[t].at = "chart"
    BY <1>4 DEF plant_chart, Asks, At
  <2>2. tabs[t].page # Index
    BY <1>0, <2>1, TabFields DEF PageOK
  <2>3. CASE Answered(t, [tabs[t] EXCEPT !.at = "drawing"]) /\ UNCHANGED left
    BY <1>0, <1>a, <2>1, <2>2, <2>3, MovesAt DEF Answered
  <2>. QED
    BY <1>4, <2>3 DEF plant_chart
<1>5. CASE WriteChart(t)
  <2>1. tabs[t] # Closed /\ tabs[t].at = "drawing"
        /\ tabs' = [tabs EXCEPT ![t] = [tabs[t] EXCEPT !.at = "info"]]
    BY <1>5 DEF WriteChart, Asks, At
  <2>2. tabs[t].page # Index /\ tabs[t].page \in Nodes
    BY <1>0, <2>1, TabFields DEF PageOK
  <2>3. Moves(t)
    BY <1>0, <1>a, <2>1, <2>2, MovesAt
  <2>. QED
    BY <1>5, <2>2, <2>3 DEF WriteChart, startupVars
<1>6. CASE LoadImage(t)
  <2>1. tabs[t] # Closed /\ tabs[t].at = "image"
    BY <1>6 DEF LoadImage, Asks, At
  <2>2. tabs[t].page # Index /\ tabs[t] \in Page /\ PageOK(tabs[t])
    BY <1>0, <2>1, TabFields DEF PageOK
  <2> DEFINE q == [tabs[t] EXCEPT !.at = "asleep", !.chart = mychart]
  <2>3. q \in Page /\ q.page = tabs[t].page /\ q.at = "asleep" /\ q.shown = tabs[t].shown
    BY <1>0, <2>2, PageFields
  <2>4. Answered(t, q) /\ UNCHANGED left
    BY <1>6 DEF LoadImage
  <2> HIDE DEF q
  <2>5. PageOK(q) /\ (LinksOK(tabs[t]) => LinksOK(q))
    BY <2>2, <2>3 DEF PageOK, LinksOK
  <2>6. Moves(t)
    BY <2>1, <2>3, <2>4, <2>5 DEF Moves, Answered
  <2>. QED
    BY <1>0, <2>4, <2>6 DEF Answered
<1>. QED
  BY <1>1, <1>2, <1>3, <1>4, <1>5, <1>6 DEF Serve

(***************************************************************************)
(* Every step, by what it does to the tabs.                                *)
(***************************************************************************)
LEMMA MovesTypes ==
  ASSUME TabsOK, NEW t \in Tabs, Moves(t)
  PROVE  TabsOK'
<1>1. PICK q \in Page : tabs' = [tabs EXCEPT ![t] = q] /\ PageOK(q)
  BY DEF Moves
<1>2. \A s \in Tabs : tabs'[s] = IF s = t THEN q ELSE tabs[s]
  BY <1>1 DEF TabsOK
<1>3. tabs' \in [Tabs -> Page \cup {Closed}]
  BY <1>1 DEF TabsOK
<1>4. \A s \in Tabs : tabs'[s] # Closed => PageOK(tabs'[s])
  BY <1>1, <1>2 DEF TabsOK
<1>. QED
  BY <1>3, <1>4 DEF TabsOK, PageOK

(* The end of the process, a report and a page that is left keep the types.*)
LEMMA LoseAllTypes ==
  ASSUME TypeOK, LoseAll
  PROVE  TabsOK' /\ strays' \in [Nodes -> Nat] /\ mychart' \in Nodes \cup {NoChart}
<1>1. \A t \in Tabs : /\ tabs'[t] = Failed(tabs[t])
                      /\ tabs[t] = Closed => Failed(tabs[t]) = Closed
                      /\ tabs[t] # Closed => Failed(tabs[t]) \in Page /\ PageOK(Failed(tabs[t]))
  BY TypeParts, TabFields, FailedPage DEF LoseAll, Failed
<1>2. tabs' \in [Tabs -> Page \cup {Closed}]
  BY <1>1 DEF LoseAll
<1>3. \A s \in Tabs : tabs'[s] # Closed => PageOK(tabs'[s])
  BY <1>1
<1>4. TabsOK'
  BY <1>2, <1>3 DEF TabsOK, PageOK
<1>. QED
  BY <1>4, TypeParts DEF LoseAll

(* Types after a report (server.js:287-294).                               *)
LEMMA ReportTypes ==
  ASSUME DbTypeOK, NEW n \in Nodes, DataReport(n)
  PROVE  /\ DbTypeOK'
         /\ \A m \in Nodes : Listed(m) => Listed(m)'
<1>1. NewRow \in Row
  BY PlantsAssumption, PlantDbAssumption DEF NewRow, Row
<1>2. CASE ~Registered(n) /\ change_plant_node(n, NewRow)
  BY <1>1, <1>2 DEF DbTypeOK, change_plant_node, Listed, Registered
<1>3. CASE \E h \in Humidities : insert_plant_humidity(n, h)
  BY <1>3, PlantDbAssumption DEF DbTypeOK, insert_plant_humidity, Listed, Registered
<1>. QED
  BY <1>2, <1>3 DEF DataReport

(* Types after a page is left (server.js:191-203).                         *)
LEMMA LeaveTypes ==
  ASSUME TypeOK, NEW t \in Tabs, Leave(t)
  PROVE  strays' \in [Nodes -> Nat]
<1>1. CASE At(t, "drawing")
  <2>1. strays' = [strays EXCEPT ![tabs[t].page] = @ + 1]
    BY <1>1 DEF Leave
  <2>2. tabs[t].page \in Nodes
    BY <1>1, TypeParts, TabFields DEF At
  <2>. QED
    BY <2>1, <2>2, TypeParts
<1>2. CASE ~At(t, "drawing")
  BY <1>2, TypeParts DEF Leave
<1>. QED
  BY <1>1, <1>2

(* What else changes when the page of a tab does.                          *)
LEMMA TabStep ==
  ASSUME TypeOK, NEW t \in Tabs,
         \/ OpenOverview(t) \/ OpenSettings(t) \/ Reload(t) \/ RefreshShowPlants(t)
         \/ WakeUp(t) \/ FetchRefused(t) \/ FetchCut(t)
  PROVE  /\ Moves(t) /\ UNCHANGED <<phase, file, tables, dbVars>>
         /\ UNCHANGED left \/ Spend("visit") \/ Spend("cut")
         /\ strays' \in [Nodes -> Nat] /\ mychart' = mychart
<1>0. TabsOK /\ strays \in [Nodes -> Nat]
  BY TypeParts
<1>1. CASE OpenOverview(t) \/ OpenSettings(t) \/ Reload(t)
  <2>1. Moves(t)
    BY <1>0, <1>1, VisitMoves
  <2>2. PICK page : Visit(t, page)
    BY <1>1 DEF OpenOverview, OpenSettings, Reload
  <2>. QED
    BY <2>1, <2>2, LeaveTypes DEF Visit
<1>2. CASE RefreshShowPlants(t) \/ WakeUp(t) \/ FetchRefused(t)
  <2>1. Moves(t)
    BY <1>0, <1>2, LoopMoves
  <2>. QED
    BY <1>0, <1>2, <2>1 DEF RefreshShowPlants, WakeUp, Become, FetchRefused, startupVars
<1>3. CASE FetchCut(t)
  <2>1. Moves(t)
    BY <1>0, <1>3, LoopMoves
  <2>. QED
    BY <1>3, <2>1, LeaveTypes DEF FetchCut
<1>. QED
  BY <1>1, <1>2, <1>3

(* Every step keeps the types.                                             *)
LEMMA TypeStep ==
  ASSUME TypeOK, [Next]_websiteVars
  PROVE  TypeOK'
<1>0. /\ StartupTypeOK /\ DbTypeOK /\ TabsOK
      /\ strays \in [Nodes -> Nat] /\ mychart \in Nodes \cup {NoChart}
  BY TypeParts
<1>a. {"visit", "cut", "error"} \subseteq Event \ {"any"} /\ left \in [Event -> Nat]
  BY <1>0 DEF Event, StartupTypeOK
<1>b. ASSUME StartupTypeOK', DbTypeOK', TabsOK',
             strays' \in [Nodes -> Nat], mychart' \in Nodes \cup {NoChart}
      PROVE  TypeOK'
  BY <1>b DEF TypeOK, TabsOK, PageOK
<1>c. ASSUME UNCHANGED <<phase, file, tables>>,
             UNCHANGED left \/ Spend("visit") \/ Spend("cut") \/ Spend("error")
      PROVE  StartupTypeOK'
  BY <1>0, <1>a, <1>c, Spent DEF StartupTypeOK
<1>d. UNCHANGED tabs => TabsOK'
  BY <1>0 DEF TabsOK, PageOK
<1>e. UNCHANGED dbVars => DbTypeOK'
  BY <1>0 DEF DbTypeOK, dbVars
<1>1. CASE Startup
  <2>1. StartupTypeOK'
    BY <1>0, <1>1, StartupTypes DEF Startup, StartupActions
  <2>. QED
    BY <1>0, <1>1, <1>b, <1>d, <1>e, <2>1 DEF Startup
<1>2. CASE Crash
  <2>1. StartupTypeOK'
    BY <1>0, <1>2, StartupTypes DEF Crash, StartupActions
  <2>. QED
    BY <1>2, <1>b, <1>e, <2>1, LoseAllTypes DEF Crash
<1>3. CASE ForgetPlants
  <2>1. StartupTypeOK'
    BY <1>0, <1>3, StartupTypes DEF ForgetPlants, StartupActions
  <2>2. DbTypeOK'
    BY <1>3 DEF ForgetPlants, DbTypeOK
  <2>. QED
    BY <1>0, <1>3, <1>b, <1>d, <2>1, <2>2 DEF ForgetPlants
<1>4. ASSUME NEW n \in Nodes, DataReport(n)
      PROVE  TypeOK'
  <2>1. DbTypeOK'
    BY <1>0, <1>4, ReportTypes
  <2>2. StartupTypeOK'
    BY <1>4, <1>c DEF DataReport, startupVars
  <2>. QED
    BY <1>0, <1>4, <1>b, <1>d, <2>1, <2>2 DEF DataReport
<1>5. ASSUME NEW n \in Nodes, WriteStray(n)
      PROVE  TypeOK'
  <2>1. StartupTypeOK'
    BY <1>5, <1>c DEF WriteStray, startupVars
  <2>2. strays' \in [Nodes -> Nat]
    BY <1>0, <1>5 DEF WriteStray
  <2>. QED
    BY <1>5, <1>b, <1>d, <1>e, <2>1, <2>2 DEF WriteStray
<1>6. ASSUME NEW t \in Tabs,
             \/ OpenOverview(t) \/ OpenSettings(t) \/ Reload(t) \/ RefreshShowPlants(t)
             \/ WakeUp(t) \/ FetchRefused(t) \/ FetchCut(t)
      PROVE  TypeOK'
  <2>1. /\ Moves(t) /\ UNCHANGED <<phase, file, tables, dbVars>>
        /\ UNCHANGED left \/ Spend("visit") \/ Spend("cut")
        /\ strays' \in [Nodes -> Nat] /\ mychart' = mychart
    BY <1>6, TabStep
  <2>2. TabsOK'
    BY <1>0, <2>1, MovesTypes
  <2>. QED
    BY <1>0, <1>b, <1>c, <1>e, <2>1, <2>2
<1>7. ASSUME NEW t \in Tabs, Serve(t)
      PROVE  TypeOK'
  <2>1. CASE /\ Moves(t) /\ UNCHANGED <<phase, file, tables, dbVars>>
             /\ (UNCHANGED left \/ Spend("error"))
             /\ strays' = strays /\ mychart' \in Nodes \cup {NoChart}
    <3>1. TabsOK'
      BY <1>0, <2>1, MovesTypes
    <3>. QED
      BY <1>0, <1>b, <1>c, <1>e, <2>1, <3>1
  <2>2. CASE Die /\ (Spend("error") \/ UNCHANGED left)
    <3>1. StartupTypeOK'
      BY <1>0, <1>a, <2>2, Spent DEF Die, StartupTypeOK, Phase
    <3>. QED
      BY <1>b, <1>e, <2>2, <3>1, LoseAllTypes DEF Die
  <2>. QED
    BY <1>7, <2>1, <2>2, ServeMoves
<1>8. CASE UNCHANGED websiteVars
  <2>1. StartupTypeOK'
    BY <1>8, <1>c DEF websiteVars, startupVars
  <2>. QED
    BY <1>0, <1>8, <1>b, <1>d, <1>e, <2>1 DEF websiteVars
<1>. QED
  BY <1>1, <1>2, <1>3, <1>4, <1>5, <1>6, <1>7, <1>8 DEF Next

(* Every state of startup and website has the types of their modules.      *)
THEOREM WebsiteTypes == Spec => []TypeOK
<1>1. Init => TypeOK
  <2> SUFFICES ASSUME Init
               PROVE  TypeOK
    OBVIOUS
  <2>1. StartupTypeOK
    BY StartupAssumption DEF Init, StartupInit, StartupTypeOK, Phase
  <2>2. DbTypeOK
    BY DEF Init, DbInit, DbTypeOK
  <2>3. TabsOK
    BY DEF Init, TabsOK
  <2>. QED
    BY <2>1, <2>2, <2>3, TypeParts DEF Init
<1>2. TypeOK /\ [Next]_websiteVars => TypeOK'
  BY TypeStep
<1>. QED
  BY <1>1, <1>2, PTL DEF Spec

(* The process is started and stopped, and tables are made, by the steps   *)
(* of the startup; a handler that throws ends the process.                 *)
LEMMA WhatTouchesTables ==
  ASSUME TypeOK, [Next]_websiteVars
  PROVE  \/ StartupActions
         \/ UNCHANGED <<phase, file, tables>>
         \/ Die
<1>1. CASE Startup \/ Crash \/ ForgetPlants
  BY <1>1 DEF Startup, Crash, ForgetPlants, StartupActions
<1>2. CASE \E n \in Nodes : DataReport(n) \/ WriteStray(n)
  BY <1>2 DEF DataReport, WriteStray, startupVars
<1>3. CASE \E t \in Tabs :
             \/ OpenOverview(t) \/ OpenSettings(t) \/ Reload(t) \/ RefreshShowPlants(t)
             \/ WakeUp(t) \/ FetchRefused(t) \/ FetchCut(t)
  BY <1>3, TabStep
<1>4. CASE \E t \in Tabs : Serve(t)
  BY <1>4, ServeMoves
<1>5. CASE UNCHANGED websiteVars
  BY <1>5 DEF websiteVars, startupVars
<1>. QED
  BY <1>1, <1>2, <1>3, <1>4, <1>5 DEF Next

(* A backend that listens has its tables: those there are were made in     *)
(* order, and the startup waits for the last one (db.js:35-67,             *)
(* server.js:339-371).                                                     *)
THEOREM TablesWhenServing == Spec => []ServesWithTables
<1>1. Init => TablesInOrder
  <2> SUFFICES ASSUME Init
               PROVE  TablesInOrder
    OBVIOUS
  <2>1. tables = {Table[j] : j \in 1 .. 0} /\ phase # "listening"
    BY DEF Init, StartupInit
  <2>. QED
    BY <2>1 DEF TablesInOrder
<1>2. TypeOK /\ TablesInOrder /\ [Next]_websiteVars => TablesInOrder'
  <2> SUFFICES ASSUME TypeOK, TablesInOrder, [Next]_websiteVars
               PROVE  TablesInOrder'
    OBVIOUS
  <2>1. CASE StartupActions
    BY <2>1, StartupTables
  <2>2. CASE UNCHANGED <<phase, file, tables>>
    BY <2>2 DEF TablesInOrder
  <2>3. CASE Die
    BY <2>3 DEF Die, TablesInOrder
  <2>. QED
    BY <2>1, <2>2, <2>3, WhatTouchesTables
<1>3. TablesInOrder => ServesWithTables
  BY DEF TablesInOrder, ServesWithTables
<1>. QED
  BY <1>1, <1>2, <1>3, WebsiteTypes, PTL DEF Spec

(* Files are created only where none was found (db.js:71-76).              *)
CreatedOnce == phase = "creating" => ~file

(* Each step creates files only where there is none, and keeps a torn one  *)
(* torn (db.js:71-84).                                                     *)
LEMMA CreatedOnceStep ==
  ASSUME TypeOK, CreatedOnce, [Next]_websiteVars
  PROVE  CreatedOnce' /\ (Torn => Torn' \/ DeleteDatabase)
<1>1. CASE UNCHANGED <<phase, file, tables>> \/ Die
  BY <1>1 DEF CreatedOnce, Torn, Die
<1>2. CASE StartupActions
  <2>1. CASE Start \/ Open \/ LoadSchedules \/ GiveUp \/ Stop
    BY <2>1 DEF CreatedOnce, Torn, Start, Open, LoadSchedules, GiveUp, Stop, Proceed, Fail
  <2>2. CASE CreateDb
    BY <2>2 DEF CreatedOnce, Torn, CreateDb, Proceed, Fail
  <2>3. CASE CreateTable
    BY <2>3 DEF CreatedOnce, Torn, CreateTable, Proceed, Fail
  <2>4. CASE DeleteDatabase
    BY <2>4 DEF CreatedOnce, DeleteDatabase
  <2>. QED
    BY <1>2, <2>1, <2>2, <2>3, <2>4 DEF StartupActions, StartupStep
<1>. QED
  BY <1>1, <1>2, WhatTouchesTables

(* A file that a crash or an error has left without one of its tables      *)
(* never gets it: only deleting the file helps (db.js:71-84).              *)
THEOREM TornForGood == Spec => [][Torn => Torn' \/ DeleteDatabase]_websiteVars
<1>1. Init => CreatedOnce
  BY DEF Init, StartupInit, CreatedOnce
<1>2. TypeOK /\ CreatedOnce /\ [Next]_websiteVars
        => CreatedOnce' /\ [Torn => Torn' \/ DeleteDatabase]_websiteVars
  BY CreatedOnceStep
<1>. QED
  BY <1>1, <1>2, WebsiteTypes, PTL DEF Spec

(***************************************************************************)
(* Links: until somebody deletes the database, the overviews link listed   *)
(* plants only, and the pages there are, are of listed plants.             *)
(***************************************************************************)
PagesLinked == \A t \in Tabs : tabs[t] # Closed => LinksOK(tabs[t])

LinksInv ==
    /\ left["delete"] <= Budget["delete"]
    /\ left["delete"] = Budget["delete"] => PagesLinked

(* What is listed stays listed, and every page has its links of before.    *)
LEMMA LinksStay ==
  ASSUME TypeOK, TypeOK', PagesLinked, \A n \in Nodes : Listed(n) => Listed(n)',
         \A t \in Tabs : tabs'[t] # Closed =>
             \/ tabs[t] # Closed /\ tabs'[t] = tabs[t]
             \/ LinksOK(tabs'[t])
  PROVE  PagesLinked'
<1> SUFFICES ASSUME NEW t \in Tabs, tabs'[t] # Closed
             PROVE  LinksOK(tabs[t])'
  BY DEF PagesLinked
<1> DEFINE q == tabs'[t]
<1>1. LinksOK(q)
  BY DEF PagesLinked
<1>2. TabsOK'
  BY TypeParts, PTL
<1>3. q.page \in Nodes \cup {Index} /\ DOMAIN q.shown \subseteq Nodes
  <2>1. q \in Page
    BY <1>2 DEF TabsOK
  <2>2. q.shown \in Showns
    BY <2>1, PageFields
  <2>. QED
    BY <2>1, <2>2, PageFields DEF Showns
<1>4. CASE q.page = Index
  BY <1>1, <1>3, <1>4 DEF LinksOK
<1>5. CASE q.page # Index
  BY <1>1, <1>3, <1>5 DEF LinksOK
<1>. QED
  BY <1>4, <1>5

(* A page that moves on, or fails, is still that of a listed plant.        *)
LEMMA MovesLinked ==
  ASSUME TypeOK, TypeOK', PagesLinked, UNCHANGED dbVars, NEW t \in Tabs, Moves(t)
  PROVE  PagesLinked'
<1>1. PICK q \in Page : tabs' = [tabs EXCEPT ![t] = q]
                        /\ ((tabs[t] # Closed => LinksOK(tabs[t])) => LinksOK(q))
  BY DEF Moves
<1>2. LinksOK(q)
  BY <1>1 DEF PagesLinked
<1>3. \A s \in Tabs : tabs'[s] = IF s = t THEN q ELSE tabs[s]
  BY <1>1, TypeParts DEF TabsOK
<1>4. \A n \in Nodes : Listed(n) => Listed(n)'
  BY DEF dbVars, Listed, Registered
<1>. QED
  BY <1>2, <1>3, <1>4, LinksStay

(* A page whose fetch fails keeps its links (app.js:295-304).              *)
LEMMA LoseAllLinked ==
  ASSUME TypeOK, TypeOK', PagesLinked, UNCHANGED dbVars, LoseAll
  PROVE  PagesLinked'
<1>1. \A t \in Tabs : tabs'[t] # Closed => LinksOK(tabs'[t])
  <2> SUFFICES ASSUME NEW t \in Tabs, tabs'[t] # Closed
               PROVE  LinksOK(tabs'[t])
    OBVIOUS
  <2>1. tabs'[t] = Failed(tabs[t])
    BY DEF LoseAll
  <2>2. tabs[t] # Closed
    BY <2>1 DEF Failed
  <2>. QED
    BY <2>1, <2>2, TypeParts, TabFields, FailedPage DEF PagesLinked
<1>2. \A n \in Nodes : Listed(n) => Listed(n)'
  BY DEF dbVars, Listed, Registered
<1>. QED
  BY <1>1, <1>2, LinksStay

(* The invariant of pages and plants is inductive.                         *)
LEMMA LinksStep ==
  ASSUME TypeOK, TypeOK', LinksInv, [Next]_websiteVars
  PROVE  LinksInv'
<1>0. /\ StartupTypeOK /\ "delete" \in Event /\ left["delete"] \in Nat /\ left'["delete"] \in Nat
      /\ Budget["delete"] \in Nat
      /\ {"crash", "error", "visit", "cut", "delete"} \subseteq Event \ {"any"}
  BY TypeParts, StartupAssumption DEF StartupTypeOK, Event, TypeOK
<1>a. ASSUME left'["delete"] <= left["delete"], PagesLinked => PagesLinked'
      PROVE  LinksInv'
  BY <1>0, <1>a DEF LinksInv
<1>b. ASSUME \/ UNCHANGED left \/ Spend("error") \/ Spend("crash") \/ Spend("visit") \/ Spend("cut")
      PROVE  left'["delete"] <= left["delete"]
  BY <1>0, <1>b, Spent
<1>c. ASSUME UNCHANGED <<dbVars, tabs>>
      PROVE  PagesLinked => PagesLinked'
  BY <1>c DEF PagesLinked, LinksOK, Listed, Registered, dbVars
<1>1. CASE Startup
  <2>1. UNCHANGED left \/ Spend("error")
    BY <1>1 DEF Startup, Start, StartupStep, Open, CreateDb, CreateTable, LoadSchedules,
                GiveUp, Proceed, Fail
  <2>. QED
    BY <1>1, <1>a, <1>b, <1>c, <2>1 DEF Startup
<1>2. CASE Crash
  BY <1>2, <1>a, <1>b, LoseAllLinked DEF Crash, Stop
<1>3. CASE ForgetPlants
  <2>1. left'["delete"] < left["delete"]
    BY <1>0, <1>3, Spent DEF ForgetPlants, DeleteDatabase
  <2>. QED
    BY <1>0, <2>1 DEF LinksInv
<1>4. ASSUME NEW n \in Nodes, DataReport(n)
      PROVE  LinksInv'
  <2>1. \A m \in Nodes : Listed(m) => Listed(m)'
    BY <1>4, TypeParts, ReportTypes
  <2>2. UNCHANGED <<left, tabs>>
    BY <1>4 DEF DataReport, startupVars
  <2>3. PagesLinked => PagesLinked'
    BY <2>1, <2>2, LinksStay DEF PagesLinked
  <2>. QED
    BY <1>a, <1>b, <2>2, <2>3
<1>5. ASSUME NEW n \in Nodes, WriteStray(n)
      PROVE  LinksInv'
  BY <1>5, <1>a, <1>b, <1>c DEF WriteStray, startupVars
<1>6. ASSUME NEW t \in Tabs,
             \/ OpenOverview(t) \/ OpenSettings(t) \/ Reload(t) \/ RefreshShowPlants(t)
             \/ WakeUp(t) \/ FetchRefused(t) \/ FetchCut(t)
      PROVE  LinksInv'
  BY <1>6, <1>a, <1>b, TabStep, MovesLinked
<1>7. ASSUME NEW t \in Tabs, Serve(t)
      PROVE  LinksInv'
  <2>1. CASE Moves(t) /\ UNCHANGED dbVars /\ (UNCHANGED left \/ Spend("error"))
    BY <2>1, <1>a, <1>b, MovesLinked
  <2>2. CASE Die /\ (Spend("error") \/ UNCHANGED left)
    BY <2>2, <1>a, <1>b, LoseAllLinked DEF Die
  <2>. QED
    BY <1>7, <2>1, <2>2, ServeMoves
<1>8. CASE UNCHANGED websiteVars
  BY <1>8, <1>a, <1>b, <1>c DEF websiteVars, startupVars
<1>. QED
  BY <1>1, <1>2, <1>3, <1>4, <1>5, <1>6, <1>7, <1>8 DEF Next

(* A step that ends a listening backend.                                   *)
PageDoesNotStopIt ==
    phase = "listening" /\ phase' # "listening" =>
        left' # left \/ left["delete"] < Budget["delete"]

(* With it no page ends the process.                                       *)
LEMMA StopStep ==
  ASSUME TypeOK, LinksInv, [Next]_websiteVars
  PROVE  PageDoesNotStopIt
<1> SUFFICES ASSUME phase = "listening", phase' # "listening", UNCHANGED left
             PROVE  left["delete"] < Budget["delete"]
  BY DEF PageDoesNotStopIt
<1>0. StartupTypeOK /\ {"crash", "error", "visit", "cut", "delete"} \subseteq Event \ {"any"}
      /\ left["delete"] \in Nat /\ Budget["delete"] \in Nat
  BY TypeParts, StartupAssumption DEF Event, StartupTypeOK
<1>1. \A e \in {"crash", "error", "visit", "cut", "delete"} : ~Spend(e)
  BY <1>0, Spent
<1>2. PICK t \in Tabs : Serve(t)
  <2>1. ~Startup
    BY DEF Startup, Start, StartupStep, Open, CreateDb, CreateTable, LoadSchedules,
           GiveUp, Proceed, Fail
  <2>2. ~Crash /\ ~ForgetPlants
    BY <1>1 DEF Crash, Stop, ForgetPlants, DeleteDatabase
  <2>3. \A n \in Nodes : ~DataReport(n) /\ ~WriteStray(n)
    BY DEF DataReport, WriteStray, startupVars
  <2>4. \A t \in Tabs : ~(\/ OpenOverview(t) \/ OpenSettings(t) \/ Reload(t)
                          \/ RefreshShowPlants(t) \/ WakeUp(t) \/ FetchRefused(t) \/ FetchCut(t))
    BY TabStep
  <2>5. ~UNCHANGED websiteVars
    BY DEF websiteVars, startupVars
  <2>. QED
    BY <2>1, <2>2, <2>3, <2>4, <2>5 DEF Next
<1>3. tabs[t] # Closed /\ tabs[t].page # Index /\ ~Listed(tabs[t].page)
  BY <1>1, <1>2, ServeMoves
<1>4. ~PagesLinked
  BY <1>3 DEF PagesLinked, LinksOK
<1>. QED
  BY <1>0, <1>4 DEF LinksInv

(* No page ends a process whose database nobody deletes: only a failing    *)
(* statement or somebody stopping it does, whatever is visited, clicked    *)
(* and reported (server.js:60-65, db.js:163-187).                          *)
THEOREM PagesAreHarmless == Spec => PagesDoNotStopIt
<1>1. Init => LinksInv
  BY StartupAssumption DEF Init, StartupInit, LinksInv, PagesLinked, Event
<1>2. TypeOK /\ TypeOK' /\ LinksInv /\ [Next]_websiteVars => LinksInv'
  BY LinksStep
<1>3. TypeOK /\ LinksInv /\ [Next]_websiteVars => [PageDoesNotStopIt]_websiteVars
  BY StopStep
<1>. QED
  BY <1>1, <1>2, <1>3, WebsiteTypes, PTL DEF Spec, PagesDoNotStopIt, PageDoesNotStopIt

=============================================================================

----------------------------- MODULE Board_proofs -----------------------------
(***************************************************************************)
(* What is proved of the threads of a board.                               *)
(***************************************************************************)
EXTENDS Board, SoilSensor_proofs, Queues_proofs

SoilValues == [dry : Int, wet : Int]

Reports == [moisture : Int, under : SoilValues, humidity : Int,
            pump_activated : BOOLEAN, soil_values : SoilValues]

(* The types of what a report is made from.                                *)
ReportTypeOK ==
    /\ pump_activated \in BOOLEAN
    /\ soil_values \in SoilValues
    /\ command \in [{"coap", "shell"} -> SoilValues]
    /\ report \in Reports

IInv == ReportTypeOK /\ HumidityInRange

(* Calibrations, readings and the report they go into.                     *)
LEMMA CalibrationTypes == Calibrations \subseteq SoilValues /\ FactoryCalibration \in SoilValues
BY BoardAssumption DEF SoilValues

(* The report of a board that has just booted shows no sample (main.c:96). *)
LEMMA BlankReport == Blank \in Reports
BY CalibrationTypes DEF Blank, Reports, SoilValues

(* It says 0, the reading at the dry value.                                *)
LEMMA BlankInRange ==
    /\ report = Blank => HumidityInRange
    /\ report' = Blank => HumidityInRange'
<1>1. FactoryCalibration.dry \in Int /\ FactoryCalibration.wet \in Int
  BY CalibrationTypes DEF SoilValues
<1>. QED
  BY <1>1 DEF Blank, HumidityInRange, Beyond

(* What soil_read returns for any calibration is an integer (main.c:27-33). *)
LEMMA ReadingType ==
    ASSUME NEW moisture \in Int, NEW dry \in Int, NEW wet \in Int,
           NEW h \in Readings(moisture, dry, wet)
    PROVE  h \in Int
<1>1. CASE dry = wet
  BY <1>1 DEF Readings
<1>2. CASE dry # wet
  <2>1. Percentage(moisture, dry, wet) \in Int
    <3> DEFINE i == (moisture - dry) * 100
               j == wet - dry
    <3>1. i \in Int /\ Magnitude(i) \in Int /\ Magnitude(j) \in Nat \ {0}
      BY <1>2 DEF Magnitude
    <3>2. Truncated(i, j) \in Int
      BY <3>1 DEF Truncated
    <3>. QED
      BY <3>2 DEF Percentage
  <2>2. soil_read(moisture, dry, wet) \in Int
    BY <2>1 DEF soil_read
  <2>. QED
    BY <1>2, <2>2 DEF Readings
<1>. QED
  BY <1>1, <1>2

(* A report whose sample, calibration and humidity stay as they were.      *)
LEMMA SameSample ==
    ASSUME HumidityInRange,
           report'.moisture = report.moisture, report'.under = report.under,
           report'.humidity = report.humidity
    PROVE  HumidityInRange'
BY DEF HumidityInRange

(* Each thread keeps the percentages in range.                             *)
LEMMA SampleInRange ==
    ASSUME ReportTypeOK, soil_read_step
    PROVE  ReportTypeOK' /\ HumidityInRange'
<1> USE DEF ReportTypeOK
<1>0. PICK moisture \in Moistures : \E h \in Readings(moisture, soil_values.dry, soil_values.wet) :
        report' = [report EXCEPT !.moisture = moisture, !.under = soil_values, !.humidity = h]
  BY DEF soil_read_step
<1>1. PICK h \in Readings(moisture, soil_values.dry, soil_values.wet) :
        report' = [report EXCEPT !.moisture = moisture, !.under = soil_values, !.humidity = h]
  BY <1>0
<1>2. moisture \in Int /\ soil_values.dry \in Int /\ soil_values.wet \in Int
  BY BoardAssumption DEF Sample, SoilValues
<1>3. h \in Int
  BY <1>1, <1>2, ReadingType
<1>4. /\ report'.moisture = moisture /\ report'.under = soil_values /\ report'.humidity = h
      /\ report' \in Reports
  BY <1>1, <1>2, <1>3 DEF Reports
<1>5. UNCHANGED <<pump_activated, soil_values, command>>
  BY DEF soil_read_step, boardVars
<1> DEFINE dry == soil_values.dry
           wet == soil_values.wet
           beyond == Beyond(moisture, soil_values)
<1>6. ASSUME wet < dry PROVE h = soil_read(moisture, dry, wet)
  BY <1>1, <1>2, <1>6 DEF Readings
<1>7. dry \in Int /\ wet \in Int
  BY <1>2
<1>8. ASSUME wet < dry, beyond <= 0 PROVE h \in 0 .. 100
  <2>1. wet <= moisture /\ moisture <= dry
    BY <1>2, <1>8 DEF Beyond
  <2> HIDE DEF dry, wet, beyond
  <2>2. soil_read(moisture, dry, wet) \in 0 .. 100
    BY <1>2, <1>7, <1>8, <2>1, InRange
  <2>. QED
    BY <1>6, <1>8, <2>2
<1>9. ASSUME wet < dry, dry - wet <= beyond, beyond < 156 * (dry - wet)
      PROVE  h \in 101 .. 255
  <2>1. soil_read(moisture, dry, wet) \in 101 .. 255
    <3>1. CASE moisture > dry
      <4>1. beyond = 100 * (moisture - dry)
        BY <3>1 DEF Beyond
      <4> HIDE DEF dry, wet, beyond
      <4>. QED
        BY <1>2, <1>7, <1>9, <4>1, TooDryIsNone
    <3>2. CASE ~(moisture > dry)
      <4>1. beyond = 100 * (wet - moisture)
        BY <3>2 DEF Beyond
      <4> HIDE DEF dry, wet, beyond
      <4>. QED
        BY <1>2, <1>7, <1>9, <4>1, TooWetIsNone
    <3>. QED
      BY <3>1, <3>2
  <2>. QED
    BY <1>6, <1>9, <2>1
<1>10. HumidityInRange'
  BY <1>4, <1>7, <1>8, <1>9 DEF HumidityInRange, Beyond
<1>. QED
  BY <1>4, <1>5, <1>10

(* A reset starts with a blank report (main.c:96).                         *)
LEMMA ResetInRange ==
    ASSUME IInv, Reset
    PROVE  IInv'
<1>1. report' = Blank
  BY DEF Reset
<1>2. HumidityInRange'
  BY <1>1, BlankInRange
<1>. QED
  BY <1>1, <1>2, BlankReport, CalibrationTypes DEF IInv, ReportTypeOK, Reset

(* Commands do not touch the report being written (main.c:17-55).          *)
LEMMA CommandInRange ==
    ASSUME IInv, NEW th \in {"coap", "shell"}, pump_toggle(th) \/ calibration(th)
    PROVE  IInv'
<1> USE DEF IInv, ReportTypeOK, reportVars
<1>1. UNCHANGED <<report, command>>
  BY DEF pump_toggle, calibration, Take, Toggle
<1>2. pump_activated' \in BOOLEAN
  BY DEF pump_toggle, calibration, Take, Toggle, boardVars
<1>3. soil_values' \in SoilValues
  BY DEF pump_toggle, calibration, Take, Toggle, boardVars, SoilValues
<1>4. HumidityInRange'
  BY <1>1, SameSample
<1>. QED
  BY <1>1, <1>2, <1>3, <1>4

(* data_thread writes reports with readings in range (main.c:109-135).     *)
LEMMA DataInRange ==
    ASSUME IInv, data_thread
    PROVE  IInv'
<1> USE DEF IInv, ReportTypeOK
<1>1. CASE soil_read_step
  BY <1>1, SampleInRange
<1>2. CASE Send
  <2>1. report' = Blank /\ UNCHANGED <<command, boardVars>>
    BY <1>2 DEF Send
  <2>2. HumidityInRange'
    BY <2>1, BlankInRange
  <2>. QED
    BY <2>1, <2>2, BlankReport DEF boardVars
<1>3. ASSUME NEW step, NEW m, NEW next, Take("data", step, m, next) PROVE IInv'
  <2>1. UNCHANGED <<report, command, boardVars>>
    BY <1>3 DEF Take
  <2>2. HumidityInRange'
    BY <2>1, SameSample
  <2>. QED
    BY <2>1, <2>2 DEF boardVars
<1>4. CASE Write("pump", "pump_mutex", "values", [report EXCEPT !.pump_activated = pump_activated])
  <2>1. /\ report' = [report EXCEPT !.pump_activated = pump_activated]
        /\ UNCHANGED <<command, boardVars>>
    BY <1>4 DEF Write
  <2>2. HumidityInRange' /\ report' \in Reports
    BY <2>1, SameSample DEF Reports
  <2>. QED
    BY <2>1, <2>2 DEF boardVars
<1>5. CASE Write("pair", "soil_mutex", "send", [report EXCEPT !.soil_values = soil_values])
  <2>1. /\ report' = [report EXCEPT !.soil_values = soil_values]
        /\ UNCHANGED <<command, boardVars>>
    BY <1>5 DEF Write
  <2>2. HumidityInRange' /\ report' \in Reports
    BY <2>1, SameSample DEF Reports
  <2>. QED
    BY <2>1, <2>2 DEF boardVars
<1>. QED
  BY <1>1, <1>2, <1>3, <1>4, <1>5 DEF data_thread

(* Steps that touch neither the report nor the board.                      *)
LEMMA QuietInRange ==
    ASSUME IInv, UNCHANGED <<boardVars, report>>, command' \in [{"coap", "shell"} -> SoilValues]
    PROVE  IInv'
<1>1. HumidityInRange'
  BY SameSample DEF IInv
<1>. QED
  BY <1>1 DEF IInv, ReportTypeOK, boardVars

(* What may be asked of a board.                                           *)
LEMMA AskedTypes ==
    ASSUME ReportTypeOK, NEW th \in {"coap", "shell"}, Asked(th)
    PROVE  command' \in [{"coap", "shell"} -> SoilValues]
BY CalibrationTypes DEF ReportTypeOK, Asked

(* The invariant is inductive.                                             *)
LEMMA IInvStep ==
    ASSUME IInv, [Next]_vars
    PROVE  IInv'
<1> USE DEF IInv
<1>1. CASE Receive
  BY <1>1, AskedTypes, QuietInRange DEF Receive, reportVars
<1>2. CASE TypeIn
  BY <1>2, AskedTypes, QuietInRange DEF TypeIn, reportVars
<1>3. ASSUME NEW th \in Thread, Work(th) PROVE IInv'
  <2>1. CASE wdt_thread
    BY <2>1, QuietInRange DEF wdt_thread, reportVars, ReportTypeOK
  <2>. QED
    BY <1>3, <2>1, CommandInRange, DataInRange DEF Work
<1>4. ASSUME NEW th \in Thread, Hang(th) PROVE IInv'
  BY <1>4, QuietInRange DEF Hang, reportVars, ReportTypeOK
<1>5. CASE Timer
  <2>1. CASE WakeUp
    BY <2>1, QuietInRange DEF WakeUp, reportVars, ReportTypeOK
  <2>. QED
    BY <1>5, <2>1, ResetInRange DEF Timer
<1>6. CASE PowerCycle
  BY <1>6, ResetInRange DEF PowerCycle
<1>7. CASE UNCHANGED vars
  BY <1>7, QuietInRange DEF vars, reportVars, ReportTypeOK
<1>. QED
  BY <1>1, <1>2, <1>3, <1>4, <1>5, <1>6, <1>7 DEF Next

(* Whatever commands arrive while a report is made, and whatever resets    *)
(* there are, a sample between the wet and the dry value it was taken      *)
(* under gives a percentage, and one well beyond them does not             *)
(* (main.c:27-33, 109-135).                                                *)
THEOREM Percentages == Spec => []HumidityInRange
<1>1. Init => IInv
  <2> SUFFICES ASSUME Init PROVE IInv
    OBVIOUS
  <2>1. ReportTypeOK
    BY CalibrationTypes, BlankReport DEF Init, ReportTypeOK
  <2>2. HumidityInRange
    BY BlankInRange DEF Init
  <2>. QED
    BY <2>1, <2>2 DEF IInv
<1>2. IInv /\ [Next]_vars => IInv'
  BY IInvStep
<1>3. IInv => HumidityInRange
  BY DEF IInv
<1>. QED
  BY <1>1, <1>2, <1>3, PTL DEF Spec

(***************************************************************************)
(* Mutual exclusion.  The queues of the mutexes are the threads between    *)
(* lock and unlock, the queue of the scheduler those that can run: the     *)
(* first thread of a mutex, and no other, is in its critical section and   *)
(* can run.                                                                *)
(***************************************************************************)
Commanding == {"coap", "shell"}

Section(m) == IF m = "pump_mutex" THEN {"PA28", "PA13", "flag", "pump"}
              ELSE {"dry", "wet", "sample", "pair"}

Holds(th, m) == mutexes[m] # <<>> /\ mutexes[m][1] = th

StepsOK ==
    /\ pc \in [Thread -> Step]
    /\ pc["data"] \in {"sleep", "read", "sample", "state", "pump", "values", "pair", "send"}
    /\ pc["wdt"] \in {"sleep", "kick"}
    /\ \A th \in Commanding :
         pc[th] \in {"idle", "toggle", "PA28", "PA13", "flag", "calibrate", "dry", "wet"}

MutexesOK ==
    /\ mutexes \in [Mutex -> Seq(Thread)]
    /\ \A m \in Mutex :
         /\ Distinct(mutexes[m])
         /\ \A th \in Thread : In(mutexes[m], th) <=> pc[th] \in Section(m)

Served(th) == \A m \in Mutex : pc[th] \in Section(m) => Holds(th, m)

ReadyOK ==
    /\ runqueue \in Seq(Urgent)
    /\ Distinct(runqueue)
    /\ \A th \in Urgent :
         In(runqueue, th) <=> pc[th] \notin {"sleep", "idle"} /\ Served(th)

QInv == MutexesOK /\ ReadyOK

(* The two critical sections have no step in common (main.c:17-55,         *)
(* 114-124).                                                               *)
LEMMA Sections ==
    /\ Mutex = {"pump_mutex", "soil_mutex"}
    /\ Section("pump_mutex") = {"PA28", "PA13", "flag", "pump"}
    /\ Section("soil_mutex") = {"dry", "wet", "sample", "pair"}
BY DEF Mutex, Section

(* A thread waits exactly if it is in a queue that another one leads.      *)
LEMMA WaitsOrServed == ASSUME MutexesOK, NEW th \in Thread PROVE Waits(th) <=> ~Served(th)
<1>1. ASSUME NEW m \in Mutex
      PROVE  In(Waiting(m), th) <=> pc[th] \in Section(m) /\ ~Holds(th, m)
  <2>1. mutexes[m] \in Seq(Thread) /\ Distinct(mutexes[m])
        /\ (In(mutexes[m], th) <=> pc[th] \in Section(m))
    BY DEF MutexesOK
  <2>2. CASE mutexes[m] = <<>>
    <3>1. ~In(mutexes[m], th)
      BY <2>2 DEF In
    <3>2. SubSeq(mutexes[m], 2, Len(mutexes[m])) = <<>>
      BY <2>2
    <3>. QED
      BY <2>1, <3>1, <3>2 DEF In, Waiting
  <2>3. CASE mutexes[m] # <<>>
    <3>1. Waiting(m) = Tail(mutexes[m])
          /\ (In(Tail(mutexes[m]), th) <=> In(mutexes[m], th) /\ th # mutexes[m][1])
      BY <2>1, <2>3, TailQueue DEF Waiting
    <3>. QED
      BY <2>1, <2>3, <3>1 DEF Holds
  <2>. QED
    BY <2>2, <2>3
<1>. QED
  BY <1>1 DEF Waits, Served

(* What runs is not waiting; in a critical section it holds the mutex.     *)
LEMMA RunsServed == ASSUME QInv, NEW th \in Thread, Runs(th) PROVE Served(th)
<1>1. CASE th = "shell"
  BY <1>1, WaitsOrServed DEF Runs, QInv
<1>2. CASE th # "shell"
  <2>1. runqueue # <<>> /\ Head(runqueue) = th /\ th \in Urgent
    BY <1>2 DEF Runs, Urgent
  <2>2. In(runqueue, th)
    BY <2>1, TailQueue DEF QInv, ReadyOK
  <2>. QED
    BY <2>1, <2>2 DEF QInv, ReadyOK
<1>. QED
  BY <1>1, <1>2

(* lock, from outside of every critical section (RIOT's mutex_lock).       *)
LEMMA LockQueues ==
    ASSUME QInv, pc \in [Thread -> Step], NEW th \in Thread, NEW m \in Mutex, NEW next \in Section(m),
           Runs(th), pc[th] \notin Section("pump_mutex") \cup Section("soil_mutex") \cup {"sleep", "idle"},
           Lock(th, m), GoTo(th, next)
    PROVE  /\ QInv'
           /\ \A x \in Thread, k \in Mutex : Holds(x, k) => Holds(x, k)'
           /\ mutexes[m] = <<>> => Holds(th, m)' /\ UNCHANGED runqueue
           /\ mutexes[m] # <<>> => runqueue' = Yield(th)
<1> USE Sections
<1>1. /\ mutexes[m] \in Seq(Thread) /\ Distinct(mutexes[m]) /\ ~In(mutexes[m], th)
      /\ mutexes \in [Mutex -> Seq(Thread)]
  BY DEF QInv, MutexesOK
<1>2. /\ mutexes' = [mutexes EXCEPT ![m] = Append(mutexes[m], th)]
      /\ pc' = [pc EXCEPT ![th] = next]
      /\ \A k \in Mutex \ {m} : mutexes'[k] = mutexes[k]
      /\ mutexes'[m] = Append(mutexes[m], th)
  BY <1>1 DEF Lock, GoTo
<1>3. /\ mutexes'[m] \in Seq(Thread) /\ Distinct(mutexes'[m])
      /\ \A x : In(mutexes'[m], x) <=> In(mutexes[m], x) \/ x = th
      /\ mutexes'[m] # <<>>
      /\ mutexes[m] # <<>> => mutexes'[m][1] = mutexes[m][1]
      /\ mutexes[m] = <<>> => mutexes'[m][1] = th
  BY <1>1, <1>2, AppendQueue
<1>4. MutexesOK'
  <2>1. ASSUME NEW k \in Mutex, NEW x \in Thread
        PROVE  In(mutexes'[k], x) <=> pc'[x] \in Section(k)
    <3>1. In(mutexes[k], x) <=> pc[x] \in Section(k)
      BY DEF QInv, MutexesOK
    <3>2. x # th => pc'[x] = pc[x]
      BY <1>2
    <3>3. CASE k = m
      BY <1>2, <1>3, <3>1, <3>2, <3>3
    <3>4. CASE k # m
      <4>1. mutexes'[k] = mutexes[k] /\ next \notin Section(k) /\ pc[th] \notin Section(k)
        BY <1>2, <3>4, Sections
      <4>. QED
        BY <1>2, <3>1, <3>2, <4>1
    <3>. QED
      BY <3>3, <3>4
  <2>2. mutexes' \in [Mutex -> Seq(Thread)] /\ \A k \in Mutex : Distinct(mutexes'[k])
    BY <1>1, <1>2, <1>3 DEF QInv, MutexesOK
  <2>. QED
    BY <2>1, <2>2 DEF MutexesOK, Section
<1>5. \A x \in Thread, k \in Mutex : Holds(x, k) => Holds(x, k)'
  BY <1>2, <1>3 DEF Holds
<1>6. \A x \in Thread \ {th} : Served(x)' <=> Served(x)
  <2>1. ASSUME NEW x \in Thread \ {th}, NEW k \in Mutex
        PROVE  (pc[x] \in Section(k) => Holds(x, k)) <=> (pc'[x] \in Section(k) => Holds(x, k)')
    <3>1. pc'[x] = pc[x]
      BY <1>2
    <3>2. CASE k # m
      BY <1>2, <3>1, <3>2 DEF Holds
    <3>3. CASE k = m /\ mutexes[m] # <<>>
      BY <1>3, <3>1, <3>3 DEF Holds
    <3>4. CASE k = m /\ mutexes[m] = <<>>
      <4>1. pc[x] \notin Section(m)
        BY <3>4 DEF QInv, MutexesOK, In
      <4>. QED
        BY <3>1, <3>4, <4>1
    <3>. QED
      BY <3>2, <3>3, <3>4
  <2>. QED
    BY <2>1 DEF Served, Section
<1>7. Served(th)' <=> mutexes[m] = <<>>
  <2>1. Holds(th, m)' <=> mutexes[m] = <<>>
    <3>1. mutexes[m] # <<>> => mutexes[m][1] # th
      BY <1>1, TailQueue
    <3>. QED
      BY <1>3, <3>1 DEF Holds
  <2>2. \A k \in Mutex : pc'[th] \in Section(k) <=> k = m
    BY <1>2
  <2>. QED
    BY <2>1, <2>2 DEF Served, Section
<1>8. ReadyOK'
  <2>1. CASE mutexes[m] = <<>> \/ th = "shell"
    <3>1. runqueue' = runqueue
      BY <2>1 DEF Lock, Yield
    <3>. QED
      BY <1>2, <1>6, <1>7, <2>1, <3>1, RunsServed DEF QInv, ReadyOK, Urgent
  <2>2. CASE mutexes[m] # <<>> /\ th # "shell"
    <3>1. runqueue # <<>> /\ Head(runqueue) = th /\ runqueue' = Tail(runqueue)
      BY <2>2 DEF Lock, Yield, Runs
    <3>2. runqueue' \in Seq(Urgent) /\ Distinct(runqueue')
          /\ \A x : In(runqueue', x) <=> In(runqueue, x) /\ x # th
      BY <3>1, TailQueue DEF QInv, ReadyOK
    <3>. QED
      BY <1>2, <1>6, <1>7, <2>2, <3>2 DEF QInv, ReadyOK, Urgent
  <2>. QED
    BY <2>1, <2>2
<1>. QED
  BY <1>3, <1>4, <1>5, <1>8 DEF QInv, Lock, Holds

(* The threads that are ready once th has left or kept its turn.           *)
LEMMA ReadyAfter ==
    ASSUME QInv, NEW th \in Thread, Runs(th), NEW next, NEW ready,
           \/ next = "idle" /\ ready = Yield(th)
           \/ next = "sleep" /\ ready = Yield(th)
           \/ next \notin {"sleep", "idle"} /\ ready = runqueue /\ In(runqueue, th)
    PROVE  /\ ready \in Seq(Urgent) /\ Distinct(ready)
           /\ \A x \in Urgent : In(ready, x) <=> IF x = th THEN next \notin {"sleep", "idle"} ELSE In(runqueue, x)
<1>1. CASE ready = runqueue /\ In(runqueue, th) /\ next \notin {"sleep", "idle"}
  BY <1>1 DEF QInv, ReadyOK
<1>2. CASE ready = Yield(th) /\ next \in {"sleep", "idle"} /\ th = "shell"
  BY <1>2 DEF QInv, ReadyOK, Urgent, Yield
<1>3. CASE ready = Yield(th) /\ next \in {"sleep", "idle"} /\ th # "shell"
  <2>1. runqueue # <<>> /\ Head(runqueue) = th /\ ready = Tail(runqueue)
    BY <1>3 DEF Yield, Runs
  <2>2. ready \in Seq(Urgent) /\ Distinct(ready)
        /\ \A x : In(ready, x) <=> In(runqueue, x) /\ x # th
    BY <2>1, TailQueue DEF QInv, ReadyOK
  <2>. QED
    BY <1>3, <2>2
<1>. QED
  BY <1>1, <1>2, <1>3

(* unlock: the first thread that waits holds the mutex and is ready.       *)
LEMMA UnlockQueues ==
    ASSUME QInv, pc \in [Thread -> Step], NEW th \in Thread, NEW m \in Mutex,
           NEW next \in Step \ (Section("pump_mutex") \cup Section("soil_mutex")), NEW ready,
           Runs(th), pc[th] \in Section(m), Unlock(th, m, ready), GoTo(th, next),
           ready \in Seq(Urgent), Distinct(ready),
           \A x \in Urgent : In(ready, x) <=> IF x = th THEN next \notin {"sleep", "idle"} ELSE In(runqueue, x)
    PROVE  /\ QInv'
           /\ Holds(th, m)
           /\ \A x \in Thread \ {th}, k \in Mutex : Holds(x, k) => Holds(x, k)'
           /\ \/ runqueue' = ready
              \/ \E x \in Urgent \ {th} : Holds(x, m)' /\ runqueue' = Append(ready, x) /\ ~In(ready, x)
<1> USE Sections
<1>1. /\ mutexes[m] \in Seq(Thread) /\ Distinct(mutexes[m])
      /\ mutexes \in [Mutex -> Seq(Thread)]
  BY DEF QInv, MutexesOK
<1>2. Holds(th, m) /\ mutexes[m] # <<>> /\ mutexes[m][1] = th
  BY RunsServed DEF Served, Holds
<1> DEFINE rest == Tail(mutexes[m])
<1>3. /\ Waiting(m) = rest /\ rest \in Seq(Thread) /\ Distinct(rest)
      /\ \A x : In(rest, x) <=> In(mutexes[m], x) /\ x # th
  BY <1>1, <1>2, TailQueue DEF Waiting
<1> HIDE DEF rest
<1>4. /\ pc' = [pc EXCEPT ![th] = next]
      /\ \A k \in Mutex \ {m} : mutexes'[k] = mutexes[k]
      /\ mutexes'[m] = rest
      /\ mutexes' \in [Mutex -> Seq(Thread)]
  BY <1>1, <1>3 DEF Unlock, GoTo
<1>5. MutexesOK'
  <2>1. ASSUME NEW k \in Mutex, NEW x \in Thread
        PROVE  In(mutexes'[k], x) <=> pc'[x] \in Section(k)
    <3>1. CASE x = th
      <4>1. pc'[x] = next
        BY <1>4, <3>1
      <4>2. ~In(mutexes'[k], x)
        <5>1. CASE k = m
          BY <1>3, <1>4, <3>1, <5>1
        <5>2. CASE k # m
          BY <1>4, <3>1, <5>2 DEF QInv, MutexesOK
        <5>. QED
          BY <5>1, <5>2
      <4>. QED
        BY <4>1, <4>2
    <3>2. CASE x # th
      <4>1. pc'[x] = pc[x]
        BY <1>4, <3>2
      <4>. QED
        BY <1>3, <1>4, <3>2, <4>1 DEF QInv, MutexesOK
    <3>. QED
      BY <3>1, <3>2
  <2>2. \A k \in Mutex : Distinct(mutexes'[k])
    BY <1>3, <1>4 DEF QInv, MutexesOK
  <2>. QED
    BY <1>4, <2>1, <2>2 DEF MutexesOK, Section
<1>6. \A x \in Thread \ {th}, k \in Mutex : Holds(x, k) => Holds(x, k)'
  BY <1>2, <1>4 DEF Holds
<1>7. rest # <<>> =>
        /\ rest[1] = Head(rest) /\ rest[1] \in Thread \ {th}
        /\ pc[rest[1]] \in Section(m) /\ ~Served(rest[1])
  <2> SUFFICES ASSUME rest # <<>>
               PROVE  /\ rest[1] = Head(rest) /\ rest[1] \in Thread \ {th}
                      /\ pc[rest[1]] \in Section(m) /\ ~Served(rest[1])
    OBVIOUS
  <2>1. rest[1] = Head(rest) /\ rest[1] \in Thread /\ In(rest, rest[1])
    BY <1>3, TailQueue
  <2>2. In(mutexes[m], rest[1]) /\ rest[1] # th
    BY <1>3, <2>1
  <2>3. pc[rest[1]] \in Section(m)
    BY <2>1, <2>2 DEF QInv, MutexesOK
  <2>4. ~Served(rest[1])
    BY <1>2, <2>2, <2>3 DEF Served, Holds
  <2>. QED
    BY <2>1, <2>2, <2>3, <2>4
<1>8. ASSUME NEW x \in Thread \ {th}
      PROVE  Served(x)' <=> Served(x) \/ (rest # <<>> /\ x = rest[1])
  <2>1. pc'[x] = pc[x]
    BY <1>4
  <2>2. \A k \in Mutex \ {m} : Holds(x, k)' <=> Holds(x, k)
    BY <1>4 DEF Holds
  <2>3. CASE pc[x] \in Section(m)
    <3>1. ~Served(x)
      BY <1>2, <2>3 DEF Served, Holds
    <3>2. Served(x)' <=> Holds(x, m)'
      BY <2>1, <2>3 DEF Served, Section
    <3>. QED
      BY <1>4, <3>1, <3>2 DEF Holds
  <2>4. CASE pc[x] \notin Section(m)
    <3>1. Served(x)' <=> Served(x)
      BY <2>1, <2>2, <2>4 DEF Served, Section
    <3>. QED
      BY <1>7, <2>4, <3>1
  <2>. QED
    BY <2>3, <2>4
<1>9. Served(th)'
  <2>1. pc'[th] = next
    BY <1>4
  <2>. QED
    BY <2>1 DEF Served, Section
<1>10. \A x \in Urgent : In(runqueue', x) <=> In(ready, x) \/ (rest # <<>> /\ x = rest[1])
  <2>1. CASE rest # <<>> /\ Head(rest) # "shell"
    BY <1>3, <1>7, <2>1, AppendQueue DEF Unlock, Urgent
  <2>2. CASE ~(rest # <<>> /\ Head(rest) # "shell")
    BY <1>3, <1>7, <2>2 DEF Unlock, Urgent
  <2>. QED
    BY <2>1, <2>2
<1>11. rest # <<>> /\ rest[1] # "shell" => rest[1] \in Urgent \ {th} /\ ~In(ready, rest[1])
  BY <1>7 DEF QInv, ReadyOK, Urgent
<1>12. \/ runqueue' = ready
       \/ \E x \in Urgent \ {th} : Holds(x, m)' /\ runqueue' = Append(ready, x) /\ ~In(ready, x)
  <2>1. CASE rest # <<>> /\ Head(rest) # "shell"
    <3>1. rest[1] \in Urgent \ {th} /\ ~In(ready, rest[1]) /\ runqueue' = Append(ready, rest[1])
      BY <1>3, <1>7, <1>11, <2>1 DEF Unlock
    <3>2. \A x : x = rest[1] => Holds(x, m)'
      BY <1>4, <2>1 DEF Holds
    <3>. QED
      BY <3>1, <3>2
  <2>2. CASE ~(rest # <<>> /\ Head(rest) # "shell")
    BY <1>3, <2>2 DEF Unlock
  <2>. QED
    BY <2>1, <2>2
<1>13. runqueue' \in Seq(Urgent) /\ Distinct(runqueue')
  <2>1. CASE runqueue' = ready
    BY <2>1
  <2>2. ASSUME NEW x \in Urgent, runqueue' = Append(ready, x), ~In(ready, x)
        PROVE  runqueue' \in Seq(Urgent) /\ Distinct(runqueue')
    BY <2>2, AppendQueue
  <2>. QED
    BY <1>12, <2>1, <2>2
<1>14. ReadyOK'
  <2>1. ASSUME NEW x \in Urgent
        PROVE  In(runqueue', x) <=> pc'[x] \notin {"sleep", "idle"} /\ Served(x)'
    <3>1. CASE x = th
      <4>1. pc'[x] = next
        BY <1>4, <3>1
      <4>. QED
        BY <1>7, <1>9, <1>10, <3>1, <4>1
    <3>2. CASE x # th
      <4>1. pc'[x] = pc[x] /\ x \in Thread \ {th}
        BY <1>4, <3>2 DEF Urgent
      <4>2. In(ready, x) <=> pc[x] \notin {"sleep", "idle"} /\ Served(x)
        BY <3>2 DEF QInv, ReadyOK
      <4>. QED
        BY <1>7, <1>8, <1>10, <4>1, <4>2
    <3>. QED
      BY <3>1, <3>2
  <2>. QED
    BY <1>13, <2>1 DEF ReadyOK
<1>. QED
  BY <1>2, <1>5, <1>6, <1>12, <1>14 DEF QInv

(* A step that neither takes nor gives back a mutex.                       *)
LEMMA MoveQueues ==
    ASSUME QInv, pc \in [Thread -> Step], NEW th \in Thread, NEW next \in Step, GoTo(th, next),
           UNCHANGED schedVars,
           \A k \in Mutex : pc[th] \in Section(k) <=> next \in Section(k),
           th # "shell" => (pc[th] \in {"sleep", "idle"} <=> next \in {"sleep", "idle"})
    PROVE  QInv' /\ \A x \in Thread, k \in Mutex : Holds(x, k) <=> Holds(x, k)'
<1>1. pc' = [pc EXCEPT ![th] = next] /\ mutexes' = mutexes /\ runqueue' = runqueue
  BY DEF GoTo, schedVars
<1>2. \A x \in Thread, k \in Mutex : pc'[x] \in Section(k) <=> pc[x] \in Section(k)
  BY <1>1
<1>3. \A x \in Thread, k \in Mutex : Holds(x, k) <=> Holds(x, k)'
  BY <1>1 DEF Holds
<1>4. MutexesOK'
  <2>1. \A k \in Mutex, x \in Thread : In(mutexes'[k], x) <=> pc'[x] \in Section(k)
    BY <1>1, <1>2 DEF QInv, MutexesOK
  <2>. QED
    BY <1>1, <2>1 DEF QInv, MutexesOK, Section
<1>5. \A x \in Thread : Served(x) <=> Served(x)'
  <2>1. \A x \in Thread, k \in Mutex :
          (pc[x] \in Section(k) => Holds(x, k)) <=> (pc'[x] \in Section(k) => Holds(x, k)')
    BY <1>2, <1>3
  <2>. QED
    BY <2>1 DEF Served, Section
<1>6. ReadyOK'
  BY <1>1, <1>5 DEF QInv, ReadyOK, Urgent
<1>. QED
  BY <1>3, <1>4, <1>6 DEF QInv

(* A thread outside of every critical section sleeps or waits for work.    *)
LEMMA LeaveQueues ==
    ASSUME QInv, pc \in [Thread -> Step], NEW th \in Urgent, NEW next \in {"sleep", "idle"},
           Runs(th), GoTo(th, next), runqueue' = Tail(runqueue), UNCHANGED mutexes,
           pc[th] \notin Section("pump_mutex") \cup Section("soil_mutex")
    PROVE  QInv' /\ \A x \in Thread, k \in Mutex : Holds(x, k) <=> Holds(x, k)'
<1> USE Sections
<1>1. pc' = [pc EXCEPT ![th] = next] /\ th \in Thread
  BY DEF GoTo, Urgent
<1>2. \A x \in Thread, k \in Mutex : pc'[x] \in Section(k) <=> pc[x] \in Section(k)
  BY <1>1
<1>3. \A x \in Thread, k \in Mutex : Holds(x, k) <=> Holds(x, k)'
  BY DEF Holds
<1>4. MutexesOK'
  <2>1. \A k \in Mutex, x \in Thread : In(mutexes'[k], x) <=> pc'[x] \in Section(k)
    BY <1>2 DEF QInv, MutexesOK
  <2>. QED
    BY <2>1 DEF QInv, MutexesOK, Section
<1>5. \A x \in Thread : Served(x) <=> Served(x)'
  <2>1. \A x \in Thread, k \in Mutex :
          (pc[x] \in Section(k) => Holds(x, k)) <=> (pc'[x] \in Section(k) => Holds(x, k)')
    BY <1>2, <1>3
  <2>. QED
    BY <2>1 DEF Served, Section
<1>6. runqueue' \in Seq(Urgent) /\ Distinct(runqueue')
      /\ \A x \in Urgent : In(runqueue', x) <=> In(runqueue, x) /\ x # th
  <2>1. Yield(th) = Tail(runqueue) /\ next \in {"sleep", "idle"}
    BY DEF Yield, Urgent
  <2>. QED
    BY <1>1, <2>1, ReadyAfter
<1>7. ReadyOK'
  BY <1>1, <1>5, <1>6 DEF QInv, ReadyOK, Urgent
<1>. QED
  BY <1>3, <1>4, <1>7 DEF QInv

(* A thread that sleeps or waits for work, and so is in no critical        *)
(* section, becomes ready.                                                 *)
LEMMA JoinQueues ==
    ASSUME QInv, pc \in [Thread -> Step], NEW th \in Urgent, NEW next \in Step, GoTo(th, next),
           runqueue' = Append(runqueue, th), UNCHANGED mutexes,
           pc[th] \in {"sleep", "idle"},
           next \notin Section("pump_mutex") \cup Section("soil_mutex") \cup {"sleep", "idle"}
    PROVE  QInv' /\ ~In(runqueue, th) /\ \A x \in Thread, k \in Mutex : Holds(x, k) <=> Holds(x, k)'
<1> USE Sections
<1>1. pc' = [pc EXCEPT ![th] = next] /\ th \in Thread
  BY DEF GoTo, Urgent
<1>2. \A x \in Thread, k \in Mutex : pc'[x] \in Section(k) <=> pc[x] \in Section(k)
  BY <1>1
<1>3. \A x \in Thread, k \in Mutex : Holds(x, k) <=> Holds(x, k)'
  BY DEF Holds
<1>4. MutexesOK'
  <2>1. \A k \in Mutex, x \in Thread : In(mutexes'[k], x) <=> pc'[x] \in Section(k)
    BY <1>2 DEF QInv, MutexesOK
  <2>. QED
    BY <2>1 DEF QInv, MutexesOK, Section
<1>5. \A x \in Thread : Served(x) <=> Served(x)'
  <2>1. \A x \in Thread, k \in Mutex :
          (pc[x] \in Section(k) => Holds(x, k)) <=> (pc'[x] \in Section(k) => Holds(x, k)')
    BY <1>2, <1>3
  <2>. QED
    BY <2>1 DEF Served, Section
<1>6. ~In(runqueue, th)
  BY DEF QInv, ReadyOK
<1>7. runqueue' \in Seq(Urgent) /\ Distinct(runqueue')
      /\ \A x : In(runqueue', x) <=> In(runqueue, x) \/ x = th
  BY <1>6, AppendQueue DEF QInv, ReadyOK
<1>8. Served(th)'
  BY <1>1 DEF Served, Section
<1>9. ReadyOK'
  BY <1>1, <1>5, <1>7, <1>8 DEF QInv, ReadyOK, Urgent
<1>. QED
  BY <1>3, <1>4, <1>6, <1>9 DEF QInv

(* The timers of data_thread and wdt_thread.                               *)
LEMMA WakeQueues ==
    ASSUME StepsOK, QInv, WakeUp
    PROVE  /\ QInv' /\ StepsOK'
           /\ \A x \in Thread, k \in Mutex : Holds(x, k) <=> Holds(x, k)'
           /\ pc["data"] # "sleep" =>
                pc'["data"] = pc["data"] /\ runqueue' \in {runqueue, Append(runqueue, "wdt")}
           /\ pc["data"] = "sleep" => pc'["data"] = "read"
           /\ \A th \in Commanding : pc'[th] = pc[th]
<1> USE Sections
<1> DEFINE asleep == {th \in {"data", "wdt"} : pc[th] = "sleep"}
<1>1. PICK order \in {<<>>, <<"data">>, <<"wdt">>, <<"data", "wdt">>, <<"wdt", "data">>} :
        {order[i] : i \in DOMAIN order} = asleep /\ runqueue' = runqueue \o order
  BY DEF WakeUp
<1>2. /\ pc' = [pc EXCEPT !["data"] = IF @ = "sleep" THEN "read" ELSE @,
                          !["wdt"] = IF @ = "sleep" THEN "kick" ELSE @]
      /\ mutexes' = mutexes
  BY DEF WakeUp
<1>3. /\ \A x \in Thread \ asleep : pc'[x] = pc[x]
      /\ \A x \in asleep : pc[x] = "sleep" /\ pc'[x] \in {"read", "kick"}
      /\ StepsOK'
      /\ pc["data"] = "sleep" => pc'["data"] = "read"
  BY <1>2 DEF StepsOK, Thread, Step, Commanding
<1>4. \A x \in Thread, k \in Mutex : pc'[x] \in Section(k) <=> pc[x] \in Section(k)
  BY <1>3
<1>5. \A x \in Thread, k \in Mutex : Holds(x, k) <=> Holds(x, k)'
  BY <1>2 DEF Holds
<1>6. MutexesOK'
  <2>1. \A k \in Mutex, x \in Thread : In(mutexes'[k], x) <=> pc'[x] \in Section(k)
    BY <1>2, <1>4 DEF QInv, MutexesOK
  <2>. QED
    BY <1>2, <2>1 DEF QInv, MutexesOK, Section
<1>7. \A x \in Thread : Served(x) <=> Served(x)'
  <2>1. \A x \in Thread, k \in Mutex :
          (pc[x] \in Section(k) => Holds(x, k)) <=> (pc'[x] \in Section(k) => Holds(x, k)')
    BY <1>4, <1>5
  <2>. QED
    BY <2>1 DEF Served, Section
<1>8. \A x \in asleep : x \in Urgent /\ ~In(runqueue, x) /\ Served(x)
  BY <1>3 DEF QInv, ReadyOK, Served, Section, Urgent, Thread
<1>9. runqueue \in Seq(Urgent) /\ Distinct(runqueue)
  BY DEF QInv, ReadyOK
<1>10. /\ runqueue' \in Seq(Urgent) /\ Distinct(runqueue')
       /\ \A x : In(runqueue', x) <=> In(runqueue, x) \/ x \in asleep
       /\ "data" \notin asleep => runqueue' \in {runqueue, Append(runqueue, "wdt")}
  <2>1. CASE order = <<>>
    <3>1. runqueue' = runqueue
      BY <1>1, <1>9, <2>1
    <3>2. asleep = {}
      BY <1>1, <2>1
    <3>. QED
      BY <1>9, <3>1, <3>2
  <2>2. ASSUME NEW a \in {"data", "wdt"}, order = <<a>>
        PROVE  <1>10!:
    <3>1. runqueue' = Append(runqueue, a) /\ asleep = {a}
      BY <1>1, <1>9, <2>2
    <3>. QED
      BY <1>8, <1>9, <3>1, AppendQueue
  <2>3. ASSUME NEW a \in {"data", "wdt"}, NEW b \in {"data", "wdt"}, a # b, order = <<a, b>>
        PROVE  <1>10!:
    <3> DEFINE q == Append(runqueue, a)
    <3>1. a \in asleep /\ b \in asleep /\ asleep = {a, b}
      BY <1>1, <2>3
    <3>2. runqueue' = Append(q, b)
      <4>1. a \in Urgent /\ b \in Urgent
        BY DEF Urgent, Thread
      <4>. QED
        BY <1>1, <1>9, <2>3, <4>1
    <3>3. q \in Seq(Urgent) /\ Distinct(q) /\ \A x : In(q, x) <=> In(runqueue, x) \/ x = a
      BY <1>8, <1>9, <3>1, AppendQueue
    <3> HIDE DEF q
    <3>4. b \in Urgent /\ ~In(q, b)
      BY <1>8, <2>3, <3>1, <3>3
    <3>5. /\ Append(q, b) \in Seq(Urgent) /\ Distinct(Append(q, b))
          /\ \A x : In(Append(q, b), x) <=> In(q, x) \/ x = b
      BY <3>3, <3>4, AppendQueue
    <3>6. "data" \in asleep
      BY <2>3, <3>1
    <3>. QED
      BY <3>1, <3>2, <3>3, <3>5, <3>6
  <2>. QED
    BY <1>1, <2>1, <2>2, <2>3
<1>11. ReadyOK'
  <2>1. \A x \in Urgent : In(runqueue', x) <=> pc'[x] \notin {"sleep", "idle"} /\ Served(x)'
    BY <1>3, <1>7, <1>8, <1>10 DEF QInv, ReadyOK, Urgent
  <2>. QED
    BY <1>10, <2>1 DEF ReadyOK
<1>. QED
  BY <1>3, <1>5, <1>6, <1>10, <1>11 DEF QInv, Commanding, Thread

(* The run queue and the mutexes, thread by thread.                        *)
LEMMA ResetQueues ==
    ASSUME Reset
    PROVE  QInv' /\ StepsOK'
<1>1. \A th \in Thread : Start[th] \in {"sleep", "idle"}
  BY DEF Start
<1>2. StepsOK'
  BY DEF Reset, Start, StepsOK, Thread, Step, Commanding
<1>3. \A q : q = <<>> => Distinct(q) /\ \A x : ~In(q, x)
  BY DEF Distinct, In
<1>4. MutexesOK'
  BY <1>1, <1>3, Sections DEF Reset, MutexesOK, Section
<1>5. ReadyOK'
  BY <1>1, <1>3 DEF Reset, ReadyOK, Urgent
<1>. QED
  BY <1>2, <1>4, <1>5 DEF QInv

(* Who holds a mutex and stays in its critical section goes on holding it. *)
KeepsMutexes == \A x \in Thread, k \in Mutex : Holds(x, k) /\ pc'[x] \in Section(k) => Holds(x, k)'

(* A thread takes a mutex for the section it is about to enter (RIOT's     *)
(* mutex_lock).                                                            *)
LEMMA TakeQueues ==
    ASSUME StepsOK, QInv, NEW th \in Thread, NEW step \in Step, NEW m \in Mutex, NEW next \in Section(m),
           Take(th, step, m, next),
           step \notin Section("pump_mutex") \cup Section("soil_mutex") \cup {"sleep", "idle"}
    PROVE  QInv' /\ KeepsMutexes
BY LockQueues DEF Take, At, StepsOK, KeepsMutexes

(* The steps of a command keep the queues (main.c:17-55).                  *)
LEMMA CommandQueues ==
    ASSUME StepsOK, QInv, NEW th \in Commanding, pump_toggle(th) \/ calibration(th)
    PROVE  QInv' /\ StepsOK' /\ KeepsMutexes
<1> USE Sections
<1>0. th \in Thread /\ pc \in [Thread -> Step]
  BY DEF Commanding, Thread, StepsOK
<1>1. CASE Take(th, "toggle", "pump_mutex", "PA28")
  <2>1. QInv' /\ KeepsMutexes
    BY <1>0, <1>1, TakeQueues DEF Step
  <2>. QED
    BY <1>0, <1>1, <2>1 DEF Take, GoTo, StepsOK, Commanding, Thread, Step
<1>2. CASE Take(th, "calibrate", "soil_mutex", "dry")
  <2>1. QInv' /\ KeepsMutexes
    BY <1>0, <1>2, TakeQueues DEF Step
  <2>. QED
    BY <1>0, <1>2, <2>1 DEF Take, GoTo, StepsOK, Commanding, Thread, Step
<1>3. ASSUME NEW step, NEW next, <<step, next>> \in {<<"PA28", "PA13">>, <<"PA13", "flag">>, <<"dry", "wet">>},
             At(th, step), GoTo(th, next), UNCHANGED schedVars
      PROVE  QInv' /\ StepsOK' /\ KeepsMutexes
  <2>1. QInv' /\ \A x \in Thread, k \in Mutex : Holds(x, k) <=> Holds(x, k)'
    BY <1>0, <1>3, MoveQueues DEF At, Step
  <2>2. StepsOK'
    BY <1>0, <1>3 DEF GoTo, StepsOK, Commanding, Thread, Step
  <2>. QED
    BY <2>1, <2>2 DEF KeepsMutexes
<1>4. ASSUME NEW step, NEW m \in Mutex, step \in Section(m), step \in {"flag", "wet"},
             At(th, step), GoTo(th, "idle"), Unlock(th, m, Yield(th))
      PROVE  QInv' /\ StepsOK' /\ KeepsMutexes
  <2>1. Runs(th) /\ pc[th] \in Section(m)
    BY <1>4 DEF At
  <2>2. /\ Yield(th) \in Seq(Urgent) /\ Distinct(Yield(th))
        /\ \A x \in Urgent : In(Yield(th), x) <=> IF x = th THEN "idle" \notin {"sleep", "idle"} ELSE In(runqueue, x)
    BY <1>0, <2>1, ReadyAfter
  <2>3. "idle" \in Step \ (Section("pump_mutex") \cup Section("soil_mutex"))
    BY DEF Step
  <2>4. QInv' /\ \A x \in Thread \ {th}, k \in Mutex : Holds(x, k) => Holds(x, k)'
    BY <1>0, <1>4, <2>1, <2>2, <2>3, UnlockQueues
  <2>5. pc' = [pc EXCEPT ![th] = "idle"]
    BY <1>4 DEF GoTo
  <2>6. StepsOK'
    BY <1>0, <2>5 DEF StepsOK, Commanding, Thread, Step
  <2>7. KeepsMutexes
    BY <1>0, <2>4, <2>5 DEF KeepsMutexes
  <2>. QED
    BY <2>4, <2>6, <2>7
<1>. QED
  BY <1>1, <1>2, <1>3, <1>4 DEF pump_toggle, calibration, Toggle

(* The steps of data_thread keep the queues (main.c:109-139).              *)
LEMMA DataQueues ==
    ASSUME StepsOK, QInv, data_thread
    PROVE  QInv' /\ StepsOK' /\ KeepsMutexes
<1> USE Sections
<1>0. "data" \in Thread /\ "data" \in Urgent /\ pc \in [Thread -> Step]
  BY DEF Thread, Urgent, StepsOK
<1>1. ASSUME NEW step, NEW m \in Mutex, NEW next \in Section(m), Take("data", step, m, next),
             step \in {"read", "state", "values"}, next \in {"sample", "pump", "pair"}
      PROVE  QInv' /\ StepsOK' /\ KeepsMutexes
  <2>1. QInv' /\ KeepsMutexes
    BY <1>0, <1>1, TakeQueues DEF Step
  <2>. QED
    BY <1>0, <1>1, <2>1 DEF Take, GoTo, StepsOK, Commanding, Thread, Step
<1>2. ASSUME NEW step, NEW m \in Mutex, step \in Section(m), NEW next \in {"state", "values", "send"},
             At("data", step), GoTo("data", next), Unlock("data", m, runqueue)
      PROVE  QInv' /\ StepsOK' /\ KeepsMutexes
  <2>1. Runs("data") /\ pc["data"] \in Section(m)
    BY <1>2 DEF At
  <2>2. In(runqueue, "data")
    BY <2>1, <1>0, TailQueue DEF Runs, QInv, ReadyOK
  <2>3. /\ runqueue \in Seq(Urgent) /\ Distinct(runqueue)
        /\ \A x \in Urgent : In(runqueue, x) <=> IF x = "data" THEN next \notin {"sleep", "idle"} ELSE In(runqueue, x)
    BY <1>0, <2>1, <2>2, ReadyAfter
  <2>4. next \in Step \ (Section("pump_mutex") \cup Section("soil_mutex"))
    BY DEF Step
  <2>5. QInv' /\ \A x \in Thread \ {"data"}, k \in Mutex : Holds(x, k) => Holds(x, k)'
    BY <1>0, <1>2, <2>1, <2>3, <2>4, UnlockQueues
  <2>6. pc' = [pc EXCEPT !["data"] = next]
    BY <1>2 DEF GoTo
  <2>7. StepsOK'
    BY <1>0, <2>6 DEF StepsOK, Commanding, Thread, Step
  <2>8. KeepsMutexes
    BY <1>0, <2>4, <2>5, <2>6 DEF KeepsMutexes
  <2>. QED
    BY <2>5, <2>7, <2>8
<1>3. CASE Send
  <2>1. QInv' /\ \A x \in Thread, k \in Mutex : Holds(x, k) <=> Holds(x, k)'
    BY <1>0, <1>3, LeaveQueues DEF Send, At
  <2>2. StepsOK'
    BY <1>0, <1>3 DEF Send, GoTo, StepsOK, Commanding, Thread, Step
  <2>. QED
    BY <2>1, <2>2 DEF KeepsMutexes
<1>. QED
  BY <1>1, <1>2, <1>3 DEF data_thread, Write, soil_read_step

(* Whatever happens, the queues stay in order.                             *)
LEMMA StepQueues ==
    ASSUME StepsOK, QInv, [Next]_vars
    PROVE  QInv' /\ StepsOK' /\ (KeepsMutexes \/ Reset)
<1> USE Sections
<1>0. pc \in [Thread -> Step]
  BY DEF StepsOK
<1>1. CASE Receive
  <2>1. PICK next \in {"toggle", "calibrate"} : GoTo("coap", next)
    BY <1>1 DEF Receive, Asked
  <2>2. QInv' /\ \A x \in Thread, k \in Mutex : Holds(x, k) <=> Holds(x, k)'
    BY <1>0, <1>1, <2>1, JoinQueues DEF Receive, Step, Urgent, Thread
  <2>3. StepsOK'
    BY <1>0, <2>1 DEF GoTo, StepsOK, Commanding, Thread, Step
  <2>. QED
    BY <2>2, <2>3 DEF KeepsMutexes
<1>2. CASE TypeIn
  <2>1. PICK next \in {"toggle", "calibrate"} : GoTo("shell", next)
    BY <1>2 DEF TypeIn, Asked
  <2>2. QInv' /\ \A x \in Thread, k \in Mutex : Holds(x, k) <=> Holds(x, k)'
    BY <1>0, <1>2, <2>1, MoveQueues DEF TypeIn, At, Step, Thread
  <2>3. StepsOK'
    BY <1>0, <2>1 DEF GoTo, StepsOK, Commanding, Thread, Step
  <2>. QED
    BY <2>2, <2>3 DEF KeepsMutexes
<1>3. ASSUME NEW th \in Thread, Work(th) PROVE QInv' /\ StepsOK' /\ KeepsMutexes
  <2>1. CASE wdt_thread
    <3>1. QInv' /\ \A x \in Thread, k \in Mutex : Holds(x, k) <=> Holds(x, k)'
      BY <1>0, <2>1, LeaveQueues DEF wdt_thread, At, Urgent, Thread
    <3>2. StepsOK'
      BY <1>0, <2>1 DEF wdt_thread, GoTo, StepsOK, Commanding, Thread, Step
    <3>. QED
      BY <3>1, <3>2 DEF KeepsMutexes
  <2>. QED
    BY <1>3, <2>1, CommandQueues, DataQueues DEF Work, Commanding
<1>4. CASE UNCHANGED <<pc, schedVars>>
  <2>1. \A x \in Thread, k \in Mutex : Holds(x, k) <=> Holds(x, k)'
    BY <1>4 DEF Holds, schedVars
  <2>2. \A x \in Thread : Served(x) <=> Served(x)'
    BY <1>4, <2>1 DEF Served
  <2>. QED
    BY <1>4, <2>1, <2>2 DEF QInv, MutexesOK, ReadyOK, StepsOK, KeepsMutexes, Urgent, schedVars
<1>5. CASE WakeUp
  BY <1>5, WakeQueues DEF KeepsMutexes
<1>6. CASE Reset
  BY <1>6, ResetQueues
<1>. QED
  BY <1>1, <1>2, <1>3, <1>4, <1>5, <1>6 DEF Next, Hang, Timer, PowerCycle, vars

(* The critical sections of the two commands.                              *)
HoldersOK ==
    \A th \in Commanding :
        /\ pc[th] \in {"PA13", "flag"} => Holds(th, "pump_mutex")
        /\ pc[th] = "wet" => Holds(th, "soil_mutex")

(* While a command toggles, the pins are ahead of the flag.                *)
PinsOK ==
    /\ pump_activated \in BOOLEAN /\ pins \in [Pin -> BOOLEAN]
    /\ pins["PUMP_PA28"] = IF \E th \in Commanding : pc[th] \in {"PA13", "flag"}
                           THEN ~pump_activated ELSE pump_activated
    /\ pins["PUMP_PA13"] = IF \E th \in Commanding : pc[th] = "flag"
                           THEN ~pump_activated ELSE pump_activated

LockInv == StepsOK /\ QInv /\ HoldersOK

(* What a command does next, once it holds its mutex.                      *)
LEMMA CommandSteps ==
    ASSUME StepsOK, [Next]_vars, NEW th \in Commanding, pc'[th] \in {"PA13", "flag", "wet"}
    PROVE  \/ pc'[th] = pc[th] /\ ~Reset
           \/ /\ Runs(th)
              /\ <<pc[th], pc'[th]>> \in {<<"PA28", "PA13">>, <<"PA13", "flag">>, <<"dry", "wet">>}
              /\ ~Reset
<1>0. pc \in [Thread -> Step] /\ th \in Thread
  BY DEF StepsOK, Commanding, Thread
<1>1. ~Reset
  BY <1>0 DEF Reset, Start, Commanding
<1>2. CASE Receive \/ TypeIn
  BY <1>0, <1>1, <1>2 DEF Receive, TypeIn, Asked, GoTo
<1>3. ASSUME NEW x \in Commanding, pump_toggle(x) \/ calibration(x)
      PROVE  \/ pc'[th] = pc[th]
             \/ /\ Runs(th)
                /\ <<pc[th], pc'[th]>> \in {<<"PA28", "PA13">>, <<"PA13", "flag">>, <<"dry", "wet">>}
  <2>1. PICK next \in Step : GoTo(x, next) /\ Runs(x)
          /\ (next \in {"PA13", "flag", "wet"} =>
                <<pc[x], next>> \in {<<"PA28", "PA13">>, <<"PA13", "flag">>, <<"dry", "wet">>})
    BY <1>3 DEF pump_toggle, calibration, Take, Toggle, At, Step
  <2>. QED
    BY <1>0, <2>1 DEF GoTo, Commanding, Thread
<1>4. CASE data_thread \/ wdt_thread
  <2>1. \E x \in {"data", "wdt"}, next \in Step : GoTo(x, next)
    BY <1>4 DEF data_thread, wdt_thread, Take, soil_read_step, Write, Send, Step
  <2>. QED
    BY <1>0, <1>1, <2>1 DEF GoTo, Commanding
<1>5. CASE WakeUp
  BY <1>0, <1>1, <1>5 DEF WakeUp, Commanding
<1>6. CASE UNCHANGED pc
  BY <1>1, <1>6
<1>. QED
  BY <1>1, <1>2, <1>3, <1>4, <1>5, <1>6
     DEF Next, Work, Hang, Timer, PowerCycle, vars, Commanding

(* The invariant of the locks is inductive.                                *)
LEMMA LockInvStep ==
    ASSUME LockInv, [Next]_vars
    PROVE  LockInv'
<1>1. QInv' /\ StepsOK' /\ (KeepsMutexes \/ Reset)
  BY StepQueues DEF LockInv
<1>2. ASSUME NEW th \in Commanding, NEW m \in Mutex, pc'[th] \in Section(m), pc'[th] \in {"PA13", "flag", "wet"}
      PROVE  Holds(th, m)'
  <2>1. th \in Thread
    BY DEF Commanding, Thread
  <2>2. /\ ~Reset
        /\ \/ pc'[th] = pc[th]
           \/ Runs(th) /\ <<pc[th], pc'[th]>> \in {<<"PA28", "PA13">>, <<"PA13", "flag">>, <<"dry", "wet">>}
    BY <1>2, CommandSteps DEF LockInv
  <2>3. Holds(th, m)
    <3>1. CASE pc'[th] = pc[th]
      BY <1>2, <3>1, Sections DEF LockInv, HoldersOK
    <3>2. CASE Runs(th) /\ <<pc[th], pc'[th]>> \in {<<"PA28", "PA13">>, <<"PA13", "flag">>, <<"dry", "wet">>}
      <4>1. pc[th] \in Section(m)
        BY <1>2, <3>2, Sections
      <4>. QED
        BY <2>1, <3>2, <4>1, RunsServed DEF LockInv, Served
    <3>. QED
      BY <2>2, <3>1, <3>2
  <2>. QED
    BY <1>1, <1>2, <2>1, <2>2, <2>3 DEF KeepsMutexes
<1>3. HoldersOK'
  BY <1>2, Sections DEF HoldersOK
<1>. QED
  BY <1>1, <1>3 DEF LockInv

(* A board boots with free mutexes and idle threads (main.c:170-202).      *)
LEMMA LockInvInit == ASSUME Init PROVE LockInv
<1>1. \A th \in Thread : Start[th] \in {"sleep", "idle"}
  BY DEF Start
<1>2. StepsOK
  BY DEF Init, Start, StepsOK, Thread, Step, Commanding
<1>3. \A q : q = <<>> => Distinct(q) /\ \A x : ~In(q, x)
  BY DEF Distinct, In
<1>4. MutexesOK
  BY <1>1, <1>3, Sections DEF Init, MutexesOK, Section
<1>5. ReadyOK
  BY <1>1, <1>3 DEF Init, ReadyOK, Urgent
<1>6. HoldersOK
  BY <1>1 DEF Init, HoldersOK, Commanding, Thread
<1>. QED
  BY <1>2, <1>4, <1>5, <1>6 DEF QInv, LockInv

(* Never two in the critical section of one mutex.                         *)
LEMMA Alone ==
    ASSUME LockInv, NEW th \in Commanding, Runs(th), NEW x \in Commanding \ {th}
    PROVE  /\ pc[th] \in {"PA28", "PA13", "flag"} => pc[x] \notin {"PA13", "flag"}
           /\ pc[th] \in {"dry", "wet"} => pc[x] # "wet"
<1>1. Served(th)
  BY RunsServed DEF LockInv, Commanding, Thread
<1>2. pc[th] \in {"PA28", "PA13", "flag"} => Holds(th, "pump_mutex")
  BY <1>1, Sections DEF Served
<1>3. pc[th] \in {"dry", "wet"} => Holds(th, "soil_mutex")
  BY <1>1, Sections DEF Served
<1>. QED
  BY <1>2, <1>3 DEF LockInv, HoldersOK, Holds

(* Only the thread in the section writes flag and pins.                    *)
LEMMA PinsStep ==
    ASSUME LockInv, PinsOK, [Next]_vars
    PROVE  PinsOK'
<1>0. pc \in [Thread -> Step] /\ Commanding \subseteq Thread
  BY DEF LockInv, StepsOK, Commanding, Thread
<1>1. CASE Reset
  BY <1>1 DEF Reset, Start, PinsOK, Pin, Commanding, Thread
<1>2. ASSUME UNCHANGED <<pins, pump_activated>>,
             \A th \in Commanding : /\ pc'[th] \in {"PA13", "flag"} <=> pc[th] \in {"PA13", "flag"}
                                    /\ pc'[th] = "flag" <=> pc[th] = "flag"
      PROVE  PinsOK'
  BY <1>2 DEF PinsOK
<1>3. CASE Receive \/ TypeIn
  BY <1>0, <1>2, <1>3 DEF Receive, TypeIn, Asked, At, GoTo, boardVars, Commanding
<1>4. ASSUME NEW th \in Commanding, pump_toggle(th) \/ calibration(th) PROVE PinsOK'
  <2>0. \A x \in Commanding \ {th} : pc[th] \in {"PA28", "PA13", "flag"} /\ Runs(th) => pc[x] \notin {"PA13", "flag"}
    BY Alone DEF LockInv
  <2>1. CASE Toggle(th, "PA28", "PUMP_PA28", "PA13")
    <3>1. pc[th] = "PA28" /\ Runs(th) /\ pc' = [pc EXCEPT ![th] = "PA13"]
          /\ pins' = [pins EXCEPT !["PUMP_PA28"] = ~pins["PUMP_PA28"]] /\ pump_activated' = pump_activated
      BY <2>1 DEF Toggle, At, GoTo
    <3>2. ~\E x \in Commanding : pc[x] \in {"PA13", "flag"}
      BY <2>0, <3>1
    <3>3. pc'[th] = "PA13" /\ ~\E x \in Commanding : pc'[x] = "flag"
      BY <1>0, <3>1, <3>2
    <3>4. pins["PUMP_PA28"] = pump_activated /\ pins["PUMP_PA13"] = pump_activated
      BY <3>2 DEF PinsOK
    <3>5. pins'["PUMP_PA28"] = ~pump_activated /\ pins'["PUMP_PA13"] = pump_activated
          /\ pins' \in [Pin -> BOOLEAN]
      BY <3>1, <3>4 DEF PinsOK, Pin
    <3>. QED
      BY <3>1, <3>3, <3>5 DEF PinsOK
  <2>2. CASE Toggle(th, "PA13", "PUMP_PA13", "flag")
    <3>1. pc[th] = "PA13" /\ Runs(th) /\ pc' = [pc EXCEPT ![th] = "flag"]
          /\ pins' = [pins EXCEPT !["PUMP_PA13"] = ~pins["PUMP_PA13"]] /\ pump_activated' = pump_activated
      BY <2>2 DEF Toggle, At, GoTo
    <3>2. ~\E x \in Commanding : pc[x] = "flag"
      BY <2>0, <3>1
    <3>3. pc'[th] = "flag"
      BY <1>0, <3>1
    <3>4. pins["PUMP_PA28"] = ~pump_activated /\ pins["PUMP_PA13"] = pump_activated
      BY <3>1, <3>2 DEF PinsOK
    <3>5. pins'["PUMP_PA28"] = ~pump_activated /\ pins'["PUMP_PA13"] = ~pump_activated
          /\ pins' \in [Pin -> BOOLEAN]
      BY <3>1, <3>4 DEF PinsOK, Pin
    <3>. QED
      BY <3>1, <3>3, <3>5 DEF PinsOK
  <2>3. CASE At(th, "flag") /\ GoTo(th, "idle") /\ pump_activated' = ~pump_activated /\ UNCHANGED pins
    <3>1. pc[th] = "flag" /\ Runs(th) /\ pc' = [pc EXCEPT ![th] = "idle"]
      BY <2>3 DEF At, GoTo
    <3>2. ~\E x \in Commanding : pc'[x] \in {"PA13", "flag"}
      BY <1>0, <2>0, <3>1
    <3>3. pins["PUMP_PA28"] = ~pump_activated /\ pins["PUMP_PA13"] = ~pump_activated
      BY <3>1 DEF PinsOK
    <3>. QED
      BY <2>3, <3>2, <3>3 DEF PinsOK
  <2>4. ASSUME NEW step, NEW next, At(th, step), GoTo(th, next), UNCHANGED <<pins, pump_activated>>,
               <<step, next>> \in {<<"toggle", "PA28">>, <<"calibrate", "dry">>, <<"dry", "wet">>, <<"wet", "idle">>}
        PROVE  PinsOK'
    BY <1>0, <1>2, <2>4 DEF At, GoTo
  <2>. QED
    BY <1>4, <2>1, <2>2, <2>3, <2>4 DEF pump_toggle, calibration, Take, boardVars
<1>5. CASE data_thread \/ wdt_thread
  <2>1. \E x \in {"data", "wdt"}, next \in Step : GoTo(x, next)
    BY <1>5 DEF data_thread, wdt_thread, Take, soil_read_step, Write, Send, Step
  <2>2. UNCHANGED <<pins, pump_activated>>
    BY <1>5 DEF data_thread, wdt_thread, Take, soil_read_step, Write, Send, boardVars
  <2>. QED
    BY <1>0, <1>2, <2>1, <2>2 DEF GoTo, Commanding
<1>6. CASE WakeUp
  BY <1>0, <1>2, <1>6 DEF WakeUp, Commanding, boardVars
<1>7. CASE UNCHANGED <<pc, boardVars>>
  BY <1>2, <1>7 DEF boardVars
<1>. QED
  BY <1>1, <1>3, <1>4, <1>5, <1>6, <1>7
     DEF Next, Work, Hang, Timer, PowerCycle, vars, Commanding

(* Whenever no thread is toggling, the flag a report shows and the two     *)
(* pins that drive the pump agree: pump_toggle is under its mutex, whatever *)
(* preempts it (main.c:12-23).                                             *)
THEOREM PinsFollowFlag == Spec => []PumpPinsAgree
<1>1. Init => LockInv /\ PinsOK
  <2> SUFFICES ASSUME Init PROVE LockInv /\ PinsOK
    OBVIOUS
  <2>1. PinsOK
    BY DEF Init, Start, PinsOK, Pin, Commanding, Thread
  <2>. QED
    BY <2>1, LockInvInit
<1>2. LockInv /\ PinsOK /\ [Next]_vars => (LockInv /\ PinsOK)'
  BY LockInvStep, PinsStep
<1>3. LockInv /\ PinsOK => PumpPinsAgree
  <2> SUFFICES ASSUME LockInv, PinsOK, mutexes["pump_mutex"] = <<>>
               PROVE  pins["PUMP_PA28"] = pump_activated /\ pins["PUMP_PA13"] = pump_activated
    BY DEF PumpPinsAgree, Pin
  <2>1. ~\E th \in Commanding : pc[th] \in {"PA13", "flag"}
    BY DEF LockInv, HoldersOK, Holds
  <2>. QED
    BY <2>1 DEF PinsOK
<1>. QED
  BY <1>1, <1>2, <1>3, PTL DEF Spec

CanGoOn(th) == ~Waits(th) /\ (th = "shell" \/ In(runqueue, th))

(* Whoever holds a mutex can go on: it waits for no other mutex and does   *)
(* not sleep, so that threads never wait for one another in a circle (the  *)
(* critical sections of main.c:17-33, 114-124 and 155-168 are not nested). *)
THEOREM HoldersGoOn == Spec => [](\A m \in Mutex : mutexes[m] # <<>> => CanGoOn(mutexes[m][1]))
<1>1. LockInv => \A m \in Mutex : mutexes[m] # <<>> => CanGoOn(mutexes[m][1])
  <2> SUFFICES ASSUME LockInv, NEW m \in Mutex, mutexes[m] # <<>>
               PROVE  CanGoOn(mutexes[m][1])
    OBVIOUS
  <2> DEFINE th == mutexes[m][1]
  <2>1. th \in Thread /\ In(mutexes[m], th)
    BY TailQueue DEF LockInv, QInv, MutexesOK
  <2>2. pc[th] \in Section(m)
    BY <2>1 DEF LockInv, QInv, MutexesOK
  <2>3. Served(th)
    <3> SUFFICES ASSUME NEW k \in Mutex, pc[th] \in Section(k)
                 PROVE  Holds(th, k)
      BY DEF Served
    <3>1. k = m
      BY <2>2, Sections
    <3>. QED
      BY <3>1 DEF Holds
  <2>4. ~Waits(th)
    BY <2>1, <2>3, WaitsOrServed DEF LockInv, QInv
  <2>5. th # "shell" => In(runqueue, th)
    <3>1. pc[th] \notin {"sleep", "idle"}
      BY <2>2, Sections
    <3>. QED
      BY <2>1, <2>3, <3>1 DEF LockInv, QInv, ReadyOK, Thread, Urgent
  <2>. QED
    BY <2>4, <2>5 DEF CanGoOn
<1>2. Init => LockInv
  BY LockInvInit
<1>3. LockInv /\ [Next]_vars => LockInv'
  BY LockInvStep
<1>. QED
  BY <1>1, <1>2, <1>3, PTL DEF Spec

(***************************************************************************)
(* Calibration.  Between the two writes of a command the pair is mixed;    *)
(* the command that runs is the only one under way.                        *)
(***************************************************************************)
ValuesOK ==
    /\ command \in [Commanding -> Calibrations]
    /\ soil_values \in Mixed
    /\ (\A th \in Commanding : pc[th] # "wet") => soil_values \in Calibrations
    /\ \A th \in Commanding : pc[th] = "wet" => soil_values.dry = command[th].dry

(* The pair of values, half by half.                                       *)
LEMMA Pairs ==
    /\ \A c \in Calibrations : c = [dry |-> c.dry, wet |-> c.wet] /\ c \in Mixed
    /\ \A v \in Mixed : v = [dry |-> v.dry, wet |-> v.wet]
    /\ \A v \in Mixed, c \in Calibrations :
        /\ [v EXCEPT !.dry = c.dry] = [dry |-> c.dry, wet |-> v.wet]
        /\ [v EXCEPT !.wet = c.wet] = [dry |-> v.dry, wet |-> c.wet]
        /\ [v EXCEPT !.dry = c.dry] \in Mixed /\ [v EXCEPT !.wet = c.wet] \in Mixed
        /\ [v EXCEPT !.dry = c.dry].dry = c.dry
        /\ v.dry = c.dry => [v EXCEPT !.wet = c.wet] = c
BY BoardAssumption DEF Mixed

(* Values follow the commands.                                             *)
LEMMA ValuesStep ==
    ASSUME LockInv, ValuesOK, [Next]_vars
    PROVE  ValuesOK'
<1>0. pc \in [Thread -> Step] /\ Commanding \subseteq Thread
  BY DEF LockInv, StepsOK, Commanding, Thread
<1>1. CASE Reset
  <2>1. \A th \in Commanding : pc'[th] = "idle"
    BY <1>1 DEF Reset, Start, Commanding, Thread
  <2>2. command' = command /\ soil_values' = FactoryCalibration
    BY <1>1 DEF Reset
  <2>. QED
    BY <2>1, <2>2, Pairs, BoardAssumption DEF ValuesOK
<1>2. ASSUME UNCHANGED <<soil_values, command>>,
             \A th \in Commanding : pc'[th] = "wet" <=> pc[th] = "wet"
      PROVE  ValuesOK'
  BY <1>2 DEF ValuesOK, Commanding
<1>3. ASSUME NEW th \in Commanding, pc[th] = "idle", Asked(th), UNCHANGED soil_values
      PROVE  ValuesOK'
  <2>1. PICK c \in Calibrations, next \in {"toggle", "calibrate"} :
          pc' = [pc EXCEPT ![th] = next] /\ command' \in {command, [command EXCEPT ![th] = c]}
    BY <1>3, BoardAssumption DEF Asked, GoTo
  <2>2. command' \in [Commanding -> Calibrations] /\ \A x \in Commanding \ {th} : command'[x] = command[x]
    BY <2>1 DEF ValuesOK
  <2>3. \A x \in Commanding : pc'[x] = "wet" <=> pc[x] = "wet" /\ x # th
    BY <1>0, <1>3, <2>1
  <2>. QED
    BY <1>3, <2>2, <2>3 DEF ValuesOK
<1>4. ASSUME NEW th \in Commanding, pump_toggle(th) \/ calibration(th) PROVE ValuesOK'
  <2>0. Runs(th) /\ pc[th] \in {"dry", "wet"} => \A x \in Commanding \ {th} : pc[x] # "wet"
    BY Alone DEF LockInv
  <2>1. CASE /\ At(th, "dry") /\ GoTo(th, "wet") /\ UNCHANGED command
             /\ soil_values' = [soil_values EXCEPT !.dry = command[th].dry]
    <3>1. Runs(th) /\ pc[th] = "dry" /\ pc' = [pc EXCEPT ![th] = "wet"]
      BY <2>1 DEF At, GoTo
    <3>2. pc'[th] = "wet" /\ \A x \in Commanding \ {th} : pc'[x] # "wet"
      BY <1>0, <2>0, <3>1
    <3>3. soil_values' \in Mixed /\ soil_values'.dry = command[th].dry
      <4>1. command[th] \in Calibrations /\ soil_values \in Mixed
        BY DEF ValuesOK
      <4>. QED
        BY <2>1, <4>1, Pairs
    <3>. QED
      BY <2>1, <3>2, <3>3 DEF ValuesOK
  <2>2. CASE /\ At(th, "wet") /\ GoTo(th, "idle") /\ UNCHANGED command
             /\ soil_values' = [soil_values EXCEPT !.wet = command[th].wet]
    <3>1. Runs(th) /\ pc[th] = "wet" /\ pc' = [pc EXCEPT ![th] = "idle"]
      BY <2>2 DEF At, GoTo
    <3>2. \A x \in Commanding : pc'[x] # "wet"
      BY <1>0, <2>0, <3>1
    <3>3. soil_values' = command[th] /\ command[th] \in Calibrations /\ soil_values' \in Mixed
      <4>1. command[th] \in Calibrations /\ soil_values \in Mixed
            /\ soil_values.dry = command[th].dry
        BY <3>1 DEF ValuesOK
      <4>2. \A c \in Calibrations, v \in Mixed :
              v.dry = c.dry => [v EXCEPT !.wet = c.wet] = c /\ c \in Mixed
        BY Pairs
      <4>. QED
        BY <2>2, <4>1, <4>2
    <3>. QED
      BY <2>2, <3>2, <3>3 DEF ValuesOK
  <2>3. ASSUME NEW step, NEW next, At(th, step), GoTo(th, next), UNCHANGED <<command, soil_values>>,
               step # "wet", next # "wet"
        PROVE  ValuesOK'
    BY <1>0, <1>2, <2>3 DEF At, GoTo
  <2>. QED
    BY <1>4, <2>1, <2>2, <2>3 DEF pump_toggle, calibration, Take, Toggle, boardVars
<1>5. CASE data_thread \/ wdt_thread
  <2>1. \E x \in {"data", "wdt"}, next \in Step : GoTo(x, next)
    BY <1>5 DEF data_thread, wdt_thread, Take, soil_read_step, Write, Send, Step
  <2>2. UNCHANGED <<command, soil_values>>
    BY <1>5 DEF data_thread, wdt_thread, Take, soil_read_step, Write, Send, boardVars
  <2>. QED
    BY <1>0, <1>2, <2>1, <2>2 DEF GoTo, Commanding
<1>6. CASE WakeUp
  BY <1>0, <1>2, <1>6 DEF WakeUp, Commanding, boardVars
<1>7. CASE UNCHANGED <<pc, command, boardVars>>
  BY <1>2, <1>7 DEF boardVars
<1>8. CASE Receive \/ TypeIn
  BY <1>3, <1>8 DEF Receive, TypeIn, At, boardVars, Commanding
<1>. QED
  BY <1>1, <1>4, <1>5, <1>6, <1>7, <1>8
     DEF Next, Work, Hang, Timer, PowerCycle, vars, Commanding

(* A board boots with its factory calibration (main.c:9-10).               *)
LEMMA ValuesInit == ASSUME Init PROVE ValuesOK
BY BoardAssumption, Pairs DEF Init, Start, ValuesOK, Commanding, Thread

BoardInv == LockInv /\ PinsOK /\ ValuesOK

(* All of these together.                                                  *)
LEMMA BoardInvariant == Spec => []BoardInv
<1>1. Init => BoardInv
  <2> SUFFICES ASSUME Init PROVE BoardInv
    OBVIOUS
  <2>1. PinsOK
    BY DEF Init, Start, PinsOK, Pin, Commanding, Thread
  <2>. QED
    BY <2>1, LockInvInit, ValuesInit DEF BoardInv
<1>2. BoardInv /\ [Next]_vars => BoardInv'
  BY LockInvStep, PinsStep, ValuesStep DEF BoardInv
<1>. QED
  BY <1>1, <1>2, PTL DEF Spec

(* The pair as Firmware has it: the last one commanded.                    *)
CommandedOK ==
    /\ \A th \in Commanding : pc[th] = "wet" => CommandedValues = command[th]
    /\ (\A th \in Commanding : pc[th] # "wet") => CommandedValues = soil_values

(* The values as the rest of the system sees them.                         *)
LEMMA Commanded == BoardInv => CommandedOK
<1> SUFFICES ASSUME BoardInv PROVE CommandedOK
  OBVIOUS
<1>1. \A th, x \in Commanding : pc[th] = "wet" /\ pc[x] = "wet" => th = x
  BY DEF BoardInv, LockInv, HoldersOK, Holds
<1>2. ASSUME NEW th \in Commanding, pc[th] = "wet" PROVE CommandedValues = command[th]
  <2>1. (CHOOSE x \in {"coap", "shell"} : pc[x] = "wet") = th
    BY <1>1, <1>2 DEF Commanding
  <2>2. [soil_values EXCEPT !.wet = command[th].wet] = command[th]
    BY <1>2, Pairs DEF BoardInv, ValuesOK
  <2>. QED
    BY <1>2, <2>1, <2>2 DEF CommandedValues, Commanding
<1>3. (\A th \in Commanding : pc[th] # "wet") => CommandedValues = soil_values
  BY DEF CommandedValues, Commanding
<1>. QED
  BY <1>2, <1>3 DEF CommandedOK

(* One command, or nothing, as the rest of the system sees it.             *)
OneCommand ==
    \/ Abstract!pump_toggle("board")
    \/ \E c \in Calibrations : Abstract!calibrate("board", c)
    \/ Abstract!Reset("board")

(* What amounts to a step of Firmware.                                     *)
LEMMA FirmwareSteps ==
    /\ pump_activated' = ~pump_activated /\ CommandedValues' = CommandedValues
         => Abstract!pump_toggle("board")
    /\ \A c \in Calibrations : CommandedValues' = c /\ pump_activated' = pump_activated
         => Abstract!calibrate("board", c)
    /\ pump_activated' = FALSE /\ CommandedValues' = FactoryCalibration => Abstract!Reset("board")
    /\ CommandedValues' = CommandedValues /\ pump_activated' = pump_activated
         => UNCHANGED Abstract!firmwareVars
BY DEF Abstract!pump_toggle, Abstract!calibrate, Abstract!Reset, Abstract!firmwareVars

(* A step that neither starts nor ends the second half of a calibration.   *)
LEMMA SamePair ==
    ASSUME BoardInv, BoardInv', UNCHANGED soil_values,
           \A th \in Commanding : /\ pc'[th] = "wet" <=> pc[th] = "wet"
                                  /\ pc[th] = "wet" => command'[th] = command[th]
    PROVE  CommandedValues' = CommandedValues
<1>1. CommandedOK /\ CommandedOK'
  BY Commanded, PTL
<1>. QED
  BY <1>1 DEF CommandedOK

(* A step of a command, the steps of Firmware and stutters (main.c:17-55,  *)
(* 144-168).                                                               *)
LEMMA CommandIsOneStep ==
    ASSUME BoardInv, BoardInv', NEW th \in Commanding, pump_toggle(th) \/ calibration(th)
    PROVE  OneCommand \/ UNCHANGED Abstract!firmwareVars
<1>0. /\ pc \in [Thread -> Step] /\ th \in Thread
      /\ CommandedOK /\ CommandedOK'
  <2>1. CommandedOK /\ CommandedOK'
    BY Commanded, PTL
  <2>. QED
    BY <2>1 DEF BoardInv, LockInv, StepsOK, Commanding, Thread
<1>1. Runs(th) /\ pc[th] \in {"dry", "wet"} => \A x \in Commanding \ {th} : pc[x] # "wet"
  BY Alone DEF BoardInv, LockInv
<1>2. CASE At(th, "flag") /\ GoTo(th, "idle") /\ pump_activated' = ~pump_activated /\ UNCHANGED <<soil_values, command>>
  <2>1. CommandedValues' = CommandedValues
    BY <1>0, <1>2, SamePair DEF At, GoTo
  <2>. QED
    BY <1>2, <2>1, FirmwareSteps DEF OneCommand
<1>3. CASE At(th, "dry") /\ GoTo(th, "wet") /\ UNCHANGED <<command, pump_activated>>
  <2>1. pc'[th] = "wet"
    BY <1>0, <1>3 DEF GoTo
  <2>2. CommandedValues' = command'[th] /\ command'[th] \in Calibrations
    BY <1>0, <2>1 DEF CommandedOK, BoardInv, ValuesOK
  <2>. QED
    BY <1>3, <2>2, FirmwareSteps DEF OneCommand
<1>4. CASE /\ At(th, "wet") /\ GoTo(th, "idle") /\ UNCHANGED <<command, pump_activated>>
           /\ soil_values' = [soil_values EXCEPT !.wet = command[th].wet]
  <2>1. CommandedValues = command[th] /\ command[th] \in Calibrations
    BY <1>0, <1>4 DEF CommandedOK, At, BoardInv, ValuesOK
  <2>2. soil_values' = command[th]
    BY <1>4, Pairs DEF At, BoardInv, ValuesOK
  <2>3. \A x \in Commanding : pc'[x] # "wet"
    BY <1>0, <1>1, <1>4 DEF At, GoTo
  <2>4. CommandedValues' = soil_values'
    BY <1>0, <2>3 DEF CommandedOK
  <2>. QED
    BY <1>4, <2>1, <2>2, <2>4, FirmwareSteps
<1>5. ASSUME NEW step, NEW next, At(th, step), GoTo(th, next), UNCHANGED <<command, soil_values, pump_activated>>,
             step # "wet", next # "wet"
      PROVE  UNCHANGED Abstract!firmwareVars
  <2>1. CommandedValues' = CommandedValues
    BY <1>0, <1>5, SamePair DEF At, GoTo
  <2>. QED
    BY <1>5, <2>1, FirmwareSteps
<1>. QED
  BY <1>2, <1>3, <1>4, <1>5 DEF pump_toggle, calibration, Take, Toggle, boardVars

(* Any step of the board, the steps of Firmware and stutters (main.c:17-55, *)
(* 82-91, 144-168).                                                        *)
LEMMA StepIsOneCommand ==
    ASSUME BoardInv, BoardInv', [Next]_vars
    PROVE  OneCommand \/ UNCHANGED Abstract!firmwareVars
<1>0. pc \in [Thread -> Step] /\ Commanding \subseteq Thread
  BY DEF BoardInv, LockInv, StepsOK, Commanding, Thread
<1>1. CASE Reset
  <2>1. CommandedOK'
    BY Commanded, PTL
  <2>2. \A th \in Commanding : pc'[th] # "wet"
    BY <1>1 DEF Reset, Start, Commanding, Thread
  <2>. QED
    BY <1>1, <2>1, <2>2, FirmwareSteps DEF CommandedOK, Reset, OneCommand
<1>2. ASSUME UNCHANGED <<soil_values, pump_activated>>,
             \A th \in Commanding : /\ pc'[th] = "wet" <=> pc[th] = "wet"
                                    /\ pc[th] = "wet" => command'[th] = command[th]
      PROVE  UNCHANGED Abstract!firmwareVars
  <2>1. CommandedValues' = CommandedValues
    BY <1>2, SamePair
  <2>. QED
    BY <1>2, <2>1, FirmwareSteps
<1>3. ASSUME NEW th \in Commanding, pc[th] = "idle", Asked(th), UNCHANGED boardVars
      PROVE  UNCHANGED Abstract!firmwareVars
  <2>1. PICK c \in Calibrations, next \in {"toggle", "calibrate"} :
          pc' = [pc EXCEPT ![th] = next] /\ command' \in {command, [command EXCEPT ![th] = c]}
    BY <1>3, BoardAssumption DEF Asked, GoTo
  <2>2. \A x \in Commanding : /\ pc'[x] = "wet" <=> pc[x] = "wet"
                              /\ pc[x] = "wet" => command'[x] = command[x]
    BY <1>0, <1>3, <2>1 DEF BoardInv, ValuesOK
  <2>. QED
    BY <1>2, <1>3, <2>2 DEF boardVars
<1>4. CASE data_thread \/ wdt_thread
  <2>1. \E x \in {"data", "wdt"}, next \in Step : GoTo(x, next)
    BY <1>4 DEF data_thread, wdt_thread, Take, soil_read_step, Write, Send, Step
  <2>2. UNCHANGED <<command, soil_values, pump_activated>>
    BY <1>4 DEF data_thread, wdt_thread, Take, soil_read_step, Write, Send, boardVars
  <2>. QED
    BY <1>0, <1>2, <2>1, <2>2 DEF GoTo, Commanding
<1>5. CASE WakeUp
  BY <1>0, <1>2, <1>5 DEF WakeUp, Commanding, boardVars
<1>6. CASE UNCHANGED <<pc, command, boardVars>>
  BY <1>2, <1>6 DEF boardVars
<1>7. CASE Receive \/ TypeIn
  BY <1>3, <1>7 DEF Receive, TypeIn, At, Commanding
<1>. QED
  BY <1>1, <1>3, <1>4, <1>5, <1>6, <1>7, CommandIsOneStep
     DEF Next, Work, Hang, Timer, PowerCycle, vars, Commanding

(* To the rest of the system every command and every reset is one step,    *)
(* and nothing else changes the board, whatever threads run in between:    *)
(* the threads implement the board as Firmware has it (main.c:17-55,       *)
(* 144-168).                                                               *)
THEOREM BoardImplementsFirmware == Spec => ImplementsFirmware
<1>1. Init => Abstract!FirmwareInit
  <2> SUFFICES ASSUME Init PROVE Abstract!FirmwareInit
    OBVIOUS
  <2>1. CommandedValues = FactoryCalibration
    BY DEF Init, Start, CommandedValues, Thread
  <2>. QED
    BY <2>1 DEF Init, Abstract!FirmwareInit
<1>2. BoardInv /\ BoardInv' /\ [Next]_vars => [OneCommand]_(Abstract!firmwareVars)
  BY StepIsOneCommand
<1>3. ImplementsFirmware <=> Abstract!FirmwareInit /\ [][OneCommand]_(Abstract!firmwareVars)
  BY DEF ImplementsFirmware, OneCommand
<1>. QED
  BY <1>1, <1>2, <1>3, BoardInvariant, PTL DEF Spec

(***************************************************************************)
(* Types.                                                                  *)
(***************************************************************************)
RestTypeOK ==
    /\ report.humidity \in 0 .. 255 /\ report.soil_values \in Mixed
    /\ unkicked \in 0 .. 1 /\ hung \in Thread \cup {"none"}
    /\ waited \in BOOLEAN /\ left \in [Event -> Nat]

(* A reading is a byte.                                                    *)
LEMMA ReadingByte ==
    ASSUME NEW moisture \in Int, NEW dry \in Int, NEW wet \in Int,
           NEW h \in Readings(moisture, dry, wet)
    PROVE  h \in 0 .. 255
<1>1. CASE dry = wet
  BY <1>1 DEF Readings
<1>2. CASE dry # wet
  <2> DEFINE i == (moisture - dry) * 100
             j == wet - dry
  <2>1. i \in Int /\ Magnitude(i) \in Int /\ Magnitude(j) \in Nat \ {0}
    BY <1>2 DEF Magnitude
  <2>2. Truncated(i, j) \in Int
    BY <2>1 DEF Truncated
  <2>3. Percentage(moisture, dry, wet) \in Int
    BY <2>2 DEF Percentage
  <2>4. soil_read(moisture, dry, wet) \in 0 .. 255
    BY <2>3 DEF soil_read
  <2>. QED
    BY <1>2, <2>4 DEF Readings
<1>. QED
  BY <1>1, <1>2

(* What a blank report shows (main.c:96).                                  *)
LEMMA BlankBytes == Blank.humidity \in 0 .. 255 /\ Blank.soil_values \in Mixed
BY Pairs, BoardAssumption DEF Blank

(* The budget of outside events stays one.                                 *)
LEMMA SpendType ==
    ASSUME left \in [Event -> Nat], NEW event \in Event, Spend(event)
    PROVE  left' \in [Event -> Nat]
BY DEF Spend

(* The other parts keep their types.                                       *)
LEMMA RestTypeStep ==
    ASSUME BoardInv, IInv, RestTypeOK, [Next]_vars
    PROVE  RestTypeOK'
<1> USE DEF RestTypeOK
<1>1. CASE Reset /\ (UNCHANGED left \/ Spend("power"))
  <2>1. report' = Blank /\ waited' = FALSE /\ unkicked' = 0 /\ hung' = "none"
    BY <1>1 DEF Reset
  <2>2. left' \in [Event -> Nat]
    BY <1>1, SpendType DEF Event
  <2>3. report'.humidity \in 0 .. 255 /\ report'.soil_values \in Mixed
    BY <2>1, BlankBytes
  <2>4. unkicked' \in 0 .. 1 /\ hung' \in Thread \cup {"none"}
    BY <2>1
  <2>5. waited' \in BOOLEAN
    BY <2>1
  <2>. QED
    BY <2>2, <2>3, <2>4, <2>5
<1>2. CASE Receive
  BY <1>2, SpendType DEF Receive, reportVars, Event
<1>3. CASE TypeIn
  BY <1>3, SpendType DEF TypeIn, reportVars, Event
<1>4. ASSUME NEW th \in Thread, Hang(th) PROVE RestTypeOK'
  BY <1>4, SpendType DEF Hang, reportVars, Event
<1>5. ASSUME NEW th, NEW step, NEW m, NEW next, Take(th, step, m, next) PROVE RestTypeOK'
  BY <1>5 DEF Take, Lock, outside
<1>6. ASSUME NEW th \in Commanding, pump_toggle(th) \/ calibration(th) PROVE RestTypeOK'
  BY <1>5, <1>6 DEF pump_toggle, calibration, Toggle, reportVars, outside
<1>7. CASE data_thread
  <2>1. CASE soil_read_step
    <3>1. PICK moisture \in Moistures : \E h \in Readings(moisture, soil_values.dry, soil_values.wet) :
            report' = [report EXCEPT !.moisture = moisture, !.under = soil_values, !.humidity = h]
      BY <2>1 DEF soil_read_step
    <3>2. PICK h \in Readings(moisture, soil_values.dry, soil_values.wet) :
            report' = [report EXCEPT !.moisture = moisture, !.under = soil_values, !.humidity = h]
      BY <3>1
    <3>3. moisture \in Int /\ soil_values.dry \in Int /\ soil_values.wet \in Int
      BY BoardAssumption DEF Sample, SoilValues, IInv, ReportTypeOK
    <3>4. h \in 0 .. 255
      BY <3>2, <3>3, ReadingByte
    <3>5. report'.humidity = h /\ report'.soil_values = report.soil_values
      BY <3>2 DEF IInv, ReportTypeOK, Reports
    <3>. QED
      BY <2>1, <3>4, <3>5 DEF soil_read_step, outside
  <2>2. CASE Write("pump", "pump_mutex", "values", [report EXCEPT !.pump_activated = pump_activated])
    <3>1. report' = [report EXCEPT !.pump_activated = pump_activated]
      BY <2>2 DEF Write
    <3>2. report'.humidity = report.humidity /\ report'.soil_values = report.soil_values
      BY <3>1 DEF IInv, ReportTypeOK, Reports
    <3>. QED
      BY <2>2, <3>2 DEF Write, outside
  <2>3. CASE Write("pair", "soil_mutex", "send", [report EXCEPT !.soil_values = soil_values])
    <3>1. report' = [report EXCEPT !.soil_values = soil_values]
      BY <2>3 DEF Write
    <3>2. report'.humidity = report.humidity /\ report'.soil_values = soil_values
      BY <3>1 DEF IInv, ReportTypeOK, Reports
    <3>. QED
      BY <2>3, <3>2 DEF Write, outside, BoardInv, ValuesOK
  <2>4. CASE Send
    BY <2>4, BlankBytes DEF Send, outside
  <2>. QED
    BY <1>5, <1>7, <2>1, <2>2, <2>3, <2>4 DEF data_thread
<1>8. CASE wdt_thread
  BY <1>8 DEF wdt_thread, reportVars
<1>9. CASE Timer
  BY <1>1, <1>9 DEF Timer, WakeUp, reportVars
<1>10. CASE PowerCycle
  BY <1>1, <1>10 DEF PowerCycle
<1>11. CASE UNCHANGED vars
  BY <1>11 DEF vars, reportVars, outside
<1>. QED
  BY <1>2, <1>3, <1>4, <1>6, <1>7, <1>8, <1>9, <1>10, <1>11 DEF Next, Work, Commanding

(* They hold at the start.                                                 *)
LEMMA TypesInit == Init => BoardInv /\ IInv /\ RestTypeOK
<1> SUFFICES ASSUME Init PROVE BoardInv /\ IInv /\ RestTypeOK
  OBVIOUS
<1>1. BoardInv
  BY LockInvInit, ValuesInit DEF Init, Start, BoardInv, PinsOK, Pin, Commanding, Thread
<1>2. ReportTypeOK /\ HumidityInRange
  <2>1. ReportTypeOK
    BY CalibrationTypes, BlankReport DEF Init, ReportTypeOK
  <2>2. HumidityInRange
    BY BlankInRange DEF Init
  <2>. QED
    BY <2>1, <2>2
<1>3. RestTypeOK
  <2>1. report = Blank /\ waited = FALSE /\ unkicked = 0 /\ hung = "none" /\ left = Budget
    BY DEF Init
  <2>2. report.humidity \in 0 .. 255 /\ report.soil_values \in Mixed
    BY <2>1, BlankBytes
  <2>3. unkicked \in 0 .. 1 /\ hung \in Thread \cup {"none"}
    BY <2>1
  <2>4. waited \in BOOLEAN
    BY <2>1
  <2>5. left \in [Event -> Nat]
    BY <2>1, BoardAssumption
  <2>. QED
    BY <2>2, <2>3, <2>4, <2>5 DEF RestTypeOK
<1>. QED
  BY <1>1, <1>2, <1>3 DEF IInv

(* Every variable keeps its type: the humidity of a report is a byte,      *)
(* whatever is calibrated, and the pair is made of values a user entered   *)
(* (main.c:27-55).                                                         *)
THEOREM BoardTypes == Spec => []TypeOK
<1> DEFINE Inv == BoardInv /\ IInv /\ RestTypeOK
<1>1. Init => Inv
  BY TypesInit
<1>2. Inv /\ [Next]_vars => Inv'
  BY LockInvStep, PinsStep, ValuesStep, IInvStep, RestTypeStep DEF BoardInv
<1>3. Inv => TypeOK
  BY DEF TypeOK, BoardInv, LockInv, StepsOK, QInv, MutexesOK, ReadyOK, PinsOK, ValuesOK, RestTypeOK, Commanding
<1>. QED
  BY <1>1, <1>2, <1>3, PTL DEF Spec

(***************************************************************************)
(* Reports.  While data_thread writes one, what can still run: the shell   *)
(* only while it holds the mutex data_thread waits for, gcoap's thread     *)
(* only from a place in the ready queue before data_thread, or while it    *)
(* holds that mutex.                                                       *)
(***************************************************************************)
Writing == {"state", "pump", "values", "pair", "send"}
Showing == {"values", "pair", "send"}

(* Nothing but data_thread runs in the third section and after, except     *)
(* gcoap's thread in a calibration data_thread waits for.                  *)
DataIsNext ==
    \/ In(runqueue, "data") /\ NotBefore(runqueue, "coap", "data")
    \/ pc["data"] = "pair" /\ pc["coap"] \in {"dry", "wet"} /\ Holds("coap", "soil_mutex")

SampleOK ==
    pc["data"] \in Writing => pc["shell"] \notin {"dry", "wet"} /\ report.under \in Calibrations

PumpOK ==
    pc["data"] \in Showing =>
        /\ pc["shell"] \notin {"PA28", "PA13", "flag"} /\ pc["coap"] \notin {"PA13", "flag"}
        /\ DataIsNext
        /\ report.pump_activated = pump_activated

PairOK == pc["data"] = "send" => pc["coap"] # "wet" /\ report.soil_values = soil_values

(* Until it waits for a mutex data_thread stays the first that is ready.   *)
UndisturbedOK ==
    /\ ~waited /\ pc["data"] \in Writing \cup {"sample"} => runqueue # <<>> /\ runqueue[1] = "data"
    /\ ~waited /\ pc["data"] \in Writing => report.under = soil_values

ReportOK == SampleOK /\ PumpOK /\ PairOK /\ UndisturbedOK

RInv == BoardInv /\ IInv /\ Served("shell") /\ ReportOK

(* Who holds a mutex is where its steps say, and ready.                    *)
LEMMA HolderReady ==
    ASSUME StepsOK, QInv, NEW x \in Thread, NEW m \in Mutex, Holds(x, m)
    PROVE  pc[x] \in Section(m) /\ Served(x) /\ (x \in Urgent => In(runqueue, x))
<1>1. In(mutexes[m], x)
  BY TailQueue DEF Holds, QInv, MutexesOK
<1>2. pc[x] \in Section(m)
  BY <1>1 DEF QInv, MutexesOK
<1>3. Served(x)
  <2>1. \A k \in Mutex : pc[x] \in Section(k) => k = m
    BY <1>2, Sections
  <2>. QED
    BY <2>1 DEF Served
<1>4. pc[x] \notin {"sleep", "idle"}
  BY <1>2, Sections
<1>. QED
  BY <1>2, <1>3, <1>4 DEF QInv, ReadyOK

(* A mutex that is not free has a holder.                                  *)
LEMMA FreeOrHeld ==
    ASSUME QInv, NEW m \in Mutex, mutexes[m] # <<>>
    PROVE  \E x \in Thread : Holds(x, m)
BY TailQueue DEF QInv, MutexesOK, Holds

(* The threads of a board.                                                 *)
LEMMA UrgentThread == Urgent \subseteq Thread /\ "data" \in Urgent /\ "coap" \in Urgent /\ "wdt" \in Urgent
                      /\ "shell" \in Thread /\ Thread = Urgent \cup {"shell"} /\ "shell" \notin Urgent
BY DEF Urgent, Thread

(* The shell runs while every mutex is free or its own.                    *)
LEMMA ShellRuns ==
    ASSUME StepsOK, QInv, Runs("shell"), NEW m \in Mutex, mutexes[m] # <<>>
    PROVE  Holds("shell", m)
<1>1. PICK x \in Thread : Holds(x, m)
  BY FreeOrHeld
<1>2. ~In(runqueue, x)
  BY DEF Runs, In
<1>. QED
  BY <1>1, <1>2, HolderReady, UrgentThread

(* So it never waits.                                                      *)
LEMMA ShellServed ==
    ASSUME StepsOK, QInv, Served("shell"), [Next]_vars
    PROVE  Served("shell")'
<1>1. QInv' /\ StepsOK' /\ (KeepsMutexes \/ Reset)
  BY StepQueues
<1>2. CASE Reset
  BY <1>2, Sections DEF Reset, Start, Served, Thread, Section
<1>3. CASE KeepsMutexes
  <2> SUFFICES ASSUME NEW m \in Mutex, pc'["shell"] \in Section(m) PROVE Holds("shell", m)'
    BY DEF Served, Section
  <2>1. CASE pc["shell"] \in Section(m)
    BY <1>3, <2>1, UrgentThread DEF Served, KeepsMutexes
  <2>2. CASE pc["shell"] \notin Section(m)
    <3>1. ASSUME NEW step, NEW k \in Mutex, NEW next \in Section(k), Take("shell", step, k, next),
                 step \in {"toggle", "calibrate"}
          PROVE  Holds("shell", m)'
      <4>1. Runs("shell") /\ pc["shell"] = step /\ Lock("shell", k) /\ pc' = [pc EXCEPT !["shell"] = next]
        BY <3>1 DEF Take, At, GoTo
      <4>2. k = m
        BY <2>2, <3>1, <4>1, Sections, UrgentThread DEF StepsOK
      <4>3. mutexes[m] = <<>>
        BY <2>2, <4>1, ShellRuns, HolderReady, UrgentThread
      <4>4. mutexes'[m] = Append(<<>>, "shell")
        BY <4>1, <4>2, <4>3 DEF Lock, QInv, MutexesOK
      <4>5. <<>> \in Seq(Thread)
        OBVIOUS
      <4>. QED
        BY <4>4, <4>5, AppendQueue, UrgentThread DEF Holds
    <3>2. CASE Reset
      BY <3>2, Sections DEF Reset, Start, Thread
    <3>3. CASE pc'["shell"] = pc["shell"]
      BY <2>2, <3>3
    <3>4. CASE TypeIn
      BY <2>2, <3>4, Sections, UrgentThread DEF TypeIn, Asked, GoTo, StepsOK
    <3>5. CASE pump_toggle("shell") \/ calibration("shell")
      <4>1. CASE Take("shell", "toggle", "pump_mutex", "PA28") \/ Take("shell", "calibrate", "soil_mutex", "dry")
        BY <3>1, <4>1, Sections
      <4>2. ASSUME NEW step, NEW next, At("shell", step), GoTo("shell", next),
                   <<step, next>> \in {<<"PA28", "PA13">>, <<"PA13", "flag">>, <<"flag", "idle">>,
                                       <<"dry", "wet">>, <<"wet", "idle">>}
            PROVE  Holds("shell", m)'
        BY <2>2, <4>2, Sections, UrgentThread DEF At, GoTo, StepsOK
      <4>. QED
        BY <3>5, <4>1, <4>2 DEF pump_toggle, calibration, Toggle
    <3>6. ASSUME NEW x \in Thread \ {"shell"}, NEW next \in Step, GoTo(x, next) PROVE pc'["shell"] = pc["shell"]
      BY <3>6, UrgentThread DEF GoTo, StepsOK
    <3>7. CASE Receive
      BY <3>3, <3>6, <3>7, UrgentThread DEF Receive, Asked, Step
    <3>8. CASE pump_toggle("coap") \/ calibration("coap")
      <4>1. \E next \in Step : GoTo("coap", next)
        BY <3>8 DEF pump_toggle, calibration, Take, Toggle, Step
      <4>. QED
        BY <3>3, <3>6, <4>1, UrgentThread
    <3>9. CASE data_thread \/ wdt_thread
      <4>1. \E x \in {"data", "wdt"}, next \in Step : GoTo(x, next)
        BY <3>9 DEF data_thread, wdt_thread, Take, soil_read_step, Write, Send, Step
      <4>. QED
        BY <3>3, <3>6, <4>1, UrgentThread
    <3>10. CASE WakeUp
      BY <3>3, <3>10, WakeQueues DEF Commanding
    <3>11. CASE UNCHANGED pc
      BY <3>3, <3>11
    <3>. QED
      BY <3>2, <3>4, <3>5, <3>7, <3>8, <3>9, <3>10, <3>11
         DEF Next, Work, Hang, Timer, PowerCycle, vars
  <2>. QED
    BY <2>1, <2>2
<1>. QED
  BY <1>1, <1>2, <1>3

(* What can run while a report is written.                                 *)
LEMMA WhoRuns ==
    ASSUME LockInv, Served("shell"), ReportOK
    PROVE  /\ Runs("shell") /\ pc["data"] \in Writing =>
                pc["data"] = "pump" /\ pc["shell"] \in {"PA28", "PA13", "flag"}
           /\ Runs("coap") /\ pc["data"] \in Showing =>
                pc["data"] = "pair" /\ pc["coap"] \in {"dry", "wet"} /\ Holds("coap", "soil_mutex")
           /\ ~waited /\ pc["data"] \in Writing \cup {"sample"} =>
                ~Runs("shell") /\ ~Runs("coap") /\ ~Runs("wdt")
<1> USE Sections, UrgentThread
<1>0. StepsOK /\ QInv
  BY DEF LockInv
<1>1. ASSUME Runs("shell"), pc["data"] \in Writing
      PROVE  pc["data"] = "pump" /\ pc["shell"] \in {"PA28", "PA13", "flag"}
  <2>1. ~In(runqueue, "data")
    BY <1>1 DEF Runs, In
  <2>2. ~Served("data")
    BY <1>0, <1>1, <2>1 DEF QInv, ReadyOK, Writing
  <2>3. PICK m \in Mutex : pc["data"] \in Section(m) /\ ~Holds("data", m)
    BY <2>2 DEF Served
  <2>4. mutexes[m] # <<>>
    BY <1>0, <2>3 DEF QInv, MutexesOK, In
  <2>5. Holds("shell", m)
    BY <1>0, <1>1, <2>4, ShellRuns
  <2>6. pc["shell"] \in Section(m)
    BY <1>0, <2>5, HolderReady
  <2>7. pc["shell"] \notin {"dry", "wet"}
    BY <1>1 DEF ReportOK, SampleOK
  <2>8. m = "pump_mutex"
    BY <1>0, <2>6, <2>7 DEF StepsOK, Commanding
  <2>. QED
    BY <1>0, <1>1, <2>3, <2>6, <2>8 DEF StepsOK, Commanding, Writing
<1>2. ASSUME Runs("coap"), pc["data"] \in Showing
      PROVE  pc["data"] = "pair" /\ pc["coap"] \in {"dry", "wet"} /\ Holds("coap", "soil_mutex")
  <2>1. runqueue # <<>> /\ runqueue[1] = "coap" /\ 1 \in DOMAIN runqueue
    BY <1>0, <1>2, TailQueue DEF Runs, QInv, ReadyOK
  <2>2. ~(In(runqueue, "data") /\ NotBefore(runqueue, "coap", "data"))
    <3> SUFFICES ASSUME NEW j \in DOMAIN runqueue, runqueue[j] = "data", NotBefore(runqueue, "coap", "data")
                 PROVE  FALSE
      BY DEF In
    <3>1. j <= 1
      BY <2>1 DEF NotBefore
    <3>2. j = 1
      BY <1>0, <3>1 DEF QInv, ReadyOK
    <3>. QED
      BY <2>1, <3>2
  <2>. QED
    BY <1>2, <2>2 DEF ReportOK, PumpOK, DataIsNext
<1>3. ASSUME ~waited, pc["data"] \in Writing \cup {"sample"}
      PROVE  ~Runs("shell") /\ ~Runs("coap") /\ ~Runs("wdt")
  <2>1. runqueue # <<>> /\ runqueue[1] = "data"
    BY <1>3 DEF ReportOK, UndisturbedOK
  <2>2. Head(runqueue) = "data"
    BY <1>0, <2>1, TailQueue DEF QInv, ReadyOK
  <2>. QED
    BY <2>1, <2>2 DEF Runs
<1>. QED
  BY <1>1, <1>2, <1>3

(* A step of another thread, or of a timer, in the middle of a report.     *)
LEMMA ReportKept ==
    ASSUME ReportOK, UNCHANGED <<report, waited>>, pc'["data"] = pc["data"],
           pc["data"] \in Writing => pc'["shell"] = pc["shell"] \/ pc'["shell"] \notin {"dry", "wet"},
           pc["data"] \in Showing =>
               /\ pc'["shell"] = pc["shell"] /\ pc'["coap"] \notin {"PA13", "flag"}
               /\ DataIsNext' /\ UNCHANGED pump_activated,
           pc["data"] = "send" => pc'["coap"] # "wet" /\ UNCHANGED soil_values,
           ~waited /\ pc["data"] \in Writing \cup {"sample"} =>
               runqueue' # <<>> /\ runqueue'[1] = "data" /\ UNCHANGED soil_values
    PROVE  ReportOK'
<1>1. SampleOK'
  BY DEF ReportOK, SampleOK, Writing
<1>2. PumpOK'
  BY DEF ReportOK, PumpOK, Showing
<1>3. PairOK'
  BY DEF ReportOK, PairOK
<1>4. UndisturbedOK'
  BY DEF ReportOK, UndisturbedOK, Writing
<1>. QED
  BY <1>1, <1>2, <1>3, <1>4 DEF ReportOK

(* A report that has not been begun is none that can be wrong.             *)
LEMMA NoReport == ASSUME pc'["data"] \in {"sleep", "read"} PROVE ReportOK'
BY DEF ReportOK, SampleOK, PumpOK, PairOK, UndisturbedOK, Writing, Showing

(* The steps of others leave it alone, and so do commands.                 *)
LEMMA OthersKeepReport ==
    ASSUME LockInv, Served("shell"), ReportOK, Receive \/ WakeUp \/ wdt_thread \/ TypeIn
    PROVE  ReportOK'
<1> USE UrgentThread
<1>0. StepsOK /\ QInv /\ runqueue \in Seq(Urgent) /\ pc \in [Thread -> Step] /\ Distinct(runqueue)
  BY DEF LockInv, QInv, ReadyOK, StepsOK
<1>1. ASSUME NEW x \in {"coap", "wdt"}, runqueue' = Append(runqueue, x), UNCHANGED <<report, waited, mutexes, boardVars>>,
             pc'["data"] = pc["data"], pc'["shell"] = pc["shell"],
             \/ pc'["coap"] = pc["coap"]
             \/ pc["coap"] = "idle" /\ pc'["coap"] \in {"toggle", "calibrate"}
      PROVE  ReportOK'
  <2>1. /\ In(runqueue, "data") => In(runqueue', "data")
        /\ NotBefore(runqueue, "coap", "data") => NotBefore(runqueue', "coap", "data")
        /\ runqueue # <<>> => runqueue'[1] = runqueue[1]
        /\ runqueue' # <<>>
    BY <1>0, <1>1, AppendQueue
  <2>2. DataIsNext => DataIsNext'
    BY <1>1, <2>1 DEF DataIsNext, Holds
  <2>. QED
    BY <1>1, <2>1, <2>2, ReportKept DEF boardVars, ReportOK, PumpOK, PairOK, UndisturbedOK
<1>2. CASE Receive
  <2>1. PICK next \in {"toggle", "calibrate"} : pc' = [pc EXCEPT !["coap"] = next]
    BY <1>2 DEF Receive, Asked, GoTo
  <2>. QED
    BY <1>0, <1>1, <1>2, <2>1 DEF Receive, reportVars
<1>3. CASE WakeUp
  <2>1. CASE pc["data"] = "sleep"
    BY <1>0, <1>3, <2>1, WakeQueues, NoReport
  <2>2. CASE pc["data"] # "sleep"
    <3>1. pc'["data"] = pc["data"] /\ runqueue' \in {runqueue, Append(runqueue, "wdt")}
          /\ pc'["coap"] = pc["coap"] /\ pc'["shell"] = pc["shell"]
      BY <1>0, <1>3, <2>2, WakeQueues DEF Commanding
    <3>2. UNCHANGED <<report, waited, mutexes, boardVars>>
      BY <1>3 DEF WakeUp, reportVars
    <3>3. CASE runqueue' = runqueue
      <4>1. DataIsNext => DataIsNext'
        BY <3>1, <3>2, <3>3 DEF DataIsNext, Holds
      <4>. QED
        BY <3>1, <3>2, <3>3, <4>1, ReportKept DEF boardVars, ReportOK, PumpOK, PairOK, UndisturbedOK
    <3>. QED
      BY <1>1, <3>1, <3>2, <3>3
  <2>. QED
    BY <2>1, <2>2
<1>4. CASE wdt_thread
  <2>1. /\ Runs("wdt") /\ pc' = [pc EXCEPT !["wdt"] = "sleep"] /\ runqueue' = Tail(runqueue)
        /\ UNCHANGED <<report, waited, mutexes, boardVars>>
    BY <1>4 DEF wdt_thread, At, GoTo, reportVars
  <2>2. runqueue # <<>> /\ runqueue[1] = "wdt"
    BY <1>0, <2>1, TailQueue DEF Runs
  <2>3. /\ In(runqueue, "data") => In(runqueue', "data")
        /\ NotBefore(runqueue, "coap", "data") => NotBefore(runqueue', "coap", "data")
    BY <1>0, <2>1, <2>2, TailQueue
  <2>4. DataIsNext => DataIsNext'
    BY <1>0, <2>1, <2>3 DEF DataIsNext, Holds
  <2>5. ~(~waited /\ pc["data"] \in Writing \cup {"sample"})
    BY <2>1, WhoRuns
  <2>. QED
    BY <1>0, <2>1, <2>4, <2>5, ReportKept DEF boardVars, ReportOK, PumpOK, PairOK
<1>5. CASE TypeIn
  <2>1. /\ Runs("shell") /\ pc["shell"] = "idle"
        /\ UNCHANGED <<report, waited>>
        /\ \E next \in {"toggle", "calibrate"} : pc' = [pc EXCEPT !["shell"] = next]
    BY <1>5 DEF TypeIn, At, Asked, GoTo, reportVars
  <2>2. pc["data"] \notin Writing /\ ~(~waited /\ pc["data"] \in Writing \cup {"sample"})
    BY <2>1, WhoRuns
  <2>. QED
    BY <1>0, <2>1, <2>2, ReportKept DEF Writing, Showing
<1>. QED
  BY <1>2, <1>3, <1>4, <1>5

(* Where gcoap's thread ends a calibration, data_thread comes next.        *)
LEMMA CalibratedThenData ==
    ASSUME LockInv, Served("shell"), ReportOK, pc["data"] = "pair", pc["coap"] \in {"dry", "wet"},
           Runs("coap"), Holds("coap", "soil_mutex"), Unlock("coap", "soil_mutex", Yield("coap"))
    PROVE  In(runqueue', "data") /\ NotBefore(runqueue', "coap", "data")
<1> USE UrgentThread, Sections
<1> DEFINE q == mutexes["soil_mutex"]
           rest == Tail(q)
<1>0. /\ q \in Seq(Thread) /\ Distinct(q) /\ \A x \in Thread : In(q, x) <=> pc[x] \in Section("soil_mutex")
      /\ q # <<>> /\ q[1] = "coap" /\ Waiting("soil_mutex") = SubSeq(q, 2, Len(q))
      /\ runqueue \in Seq(Urgent) /\ Distinct(runqueue) /\ runqueue # <<>> /\ Head(runqueue) = "coap"
      /\ runqueue' = IF Waiting("soil_mutex") # <<>> /\ Head(Waiting("soil_mutex")) # "shell"
                     THEN Append(Tail(runqueue), Head(Waiting("soil_mutex"))) ELSE Tail(runqueue)
  BY DEF LockInv, QInv, MutexesOK, ReadyOK, Holds, Waiting, Unlock, Yield, Runs
<1>1. rest \in Seq(Thread) /\ Waiting("soil_mutex") = rest
      /\ \A x : In(rest, x) <=> In(q, x) /\ x # "coap"
  <2>1. q \in Seq(Thread) /\ q # <<>> /\ Distinct(q) /\ q[1] = "coap"
    BY <1>0
  <2>2. SubSeq(q, 2, Len(q)) = rest /\ rest \in Seq(Thread) /\ \A x : In(rest, x) <=> In(q, x) /\ x # q[1]
    BY <2>1, TailQueue
  <2>3. Waiting("soil_mutex") = SubSeq(q, 2, Len(q))
    BY DEF Waiting
  <2> HIDE DEF q, rest
  <2>. QED
    BY <2>1, <2>2, <2>3
<1>2. In(rest, "data")
  BY <1>0, <1>1
<1>3. rest # <<>>
  BY <1>2 DEF In
<1>4. Head(rest) \in Thread /\ In(rest, Head(rest))
  BY <1>1, <1>3, TailQueue
<1>5. Head(rest) = "data"
  <2>1. pc[Head(rest)] \in Section("soil_mutex") /\ Head(rest) # "coap"
    BY <1>0, <1>1, <1>4
  <2>2. Head(rest) # "shell"
    BY <2>1 DEF LockInv, StepsOK, Commanding, ReportOK, SampleOK, Writing
  <2>3. Head(rest) # "wdt"
    BY <2>1 DEF LockInv, StepsOK
  <2>. QED
    BY <1>4, <2>1, <2>2, <2>3 DEF Thread
<1>6. runqueue' = Append(Tail(runqueue), "data")
  BY <1>0, <1>1, <1>3, <1>5
<1>7. Tail(runqueue) \in Seq(Urgent) /\ ~In(Tail(runqueue), "coap")
  BY <1>0, TailQueue
<1>8. In(runqueue', "data") /\ ~In(runqueue', "coap")
  BY <1>6, <1>7, AppendQueue
<1>. QED
  BY <1>8 DEF NotBefore, In

(* What a report already shows stays true when a command takes a step      *)
(* (main.c:109-135).                                                       *)
LEMMA CommandKeepsReport ==
    ASSUME LockInv, Served("shell"), ReportOK, waited \in BOOLEAN, NEW th \in Commanding,
           pump_toggle(th) \/ calibration(th)
    PROVE  ReportOK'
<1> USE UrgentThread
<1>1. PICK step, next :
        /\ At(th, step) /\ GoTo(th, next)
        /\ <<step, next>> \in {<<"toggle", "PA28">>, <<"PA28", "PA13">>, <<"PA13", "flag">>, <<"flag", "idle">>,
                               <<"calibrate", "dry">>, <<"dry", "wet">>, <<"wet", "idle">>}
        /\ step = "dry" => UNCHANGED <<schedVars, pump_activated>>
        /\ step = "wet" => Unlock(th, "soil_mutex", Yield(th)) /\ UNCHANGED pump_activated
  BY DEF pump_toggle, calibration, Take, Toggle
<1>2. Runs(th) /\ pc[th] = step /\ pc' = [pc EXCEPT ![th] = next] /\ pc \in [Thread -> Step]
      /\ pc'[th] = next /\ \A x \in Thread \ {th} : pc'[x] = pc[x]
  BY <1>1 DEF At, GoTo, Commanding, LockInv, StepsOK
<1>3. UNCHANGED <<report>> /\ (th \in {"coap", "shell"} => waited' = waited)
  BY DEF pump_toggle, calibration, Take, Toggle, Lock, reportVars, Commanding
<1>4. ~(~waited /\ pc["data"] \in Writing \cup {"sample"})
  BY <1>2, WhoRuns DEF Commanding
<1>5. CASE th = "shell"
  <2>1. pc["data"] \in Writing => pc["data"] = "pump" /\ pc["shell"] \in {"PA28", "PA13", "flag"}
    BY <1>2, <1>5, WhoRuns
  <2>2. pc["data"] \in Writing => pc'["shell"] \notin {"dry", "wet"}
    BY <1>1, <1>2, <1>5, <2>1
  <2>3. pc["data"] \notin Showing
    BY <2>1 DEF Showing, Writing
  <2>. QED
    BY <1>2, <1>3, <1>4, <1>5, <2>2, <2>3, ReportKept DEF Showing
<1>6. CASE th = "coap"
  <2>1. pc["data"] \in Showing =>
          pc["data"] = "pair" /\ pc["coap"] \in {"dry", "wet"} /\ Holds("coap", "soil_mutex")
    BY <1>2, <1>6, WhoRuns
  <2>2. ASSUME pc["data"] \in Showing
        PROVE  /\ pc'["coap"] \notin {"PA13", "flag"} /\ DataIsNext' /\ UNCHANGED pump_activated
    <3>1. CASE step = "dry"
      <4>1. next = "wet" /\ UNCHANGED <<schedVars, pump_activated>>
        BY <1>1, <3>1
      <4>2. DataIsNext'
        BY <1>2, <1>6, <2>1, <2>2, <4>1 DEF DataIsNext, Holds, schedVars
      <4>. QED
        BY <1>2, <1>6, <4>1, <4>2
    <3>2. CASE step = "wet"
      <4>1. next = "idle" /\ Unlock(th, "soil_mutex", Yield(th)) /\ UNCHANGED pump_activated
        BY <1>1, <3>2
      <4>2. DataIsNext'
        BY <1>2, <1>6, <2>1, <2>2, <4>1, CalibratedThenData DEF DataIsNext
      <4>. QED
        BY <1>2, <1>6, <4>1, <4>2
    <3>. QED
      BY <1>2, <1>6, <2>1, <2>2, <3>1, <3>2
  <2>3. pc["data"] # "send"
    BY <2>1 DEF Showing
  <2>. QED
    BY <1>2, <1>3, <1>4, <1>6, <2>2, <2>3, ReportKept
<1>. QED
  BY <1>5, <1>6 DEF Commanding

(* data_thread gives back a mutex and goes on.                             *)
LEMMA DataUnlocks ==
    ASSUME LockInv, NEW m \in Mutex, NEW next \in {"state", "values", "send"},
           pc["data"] \in Section(m), Runs("data"), GoTo("data", next), Unlock("data", m, runqueue)
    PROVE  /\ Holds("data", m)
           /\ runqueue' # <<>> /\ runqueue'[1] = "data"
           /\ In(runqueue', "data") /\ NotBefore(runqueue', "coap", "data")
<1> USE UrgentThread, Sections
<1>0. pc \in [Thread -> Step] /\ QInv
  BY DEF LockInv, StepsOK
<1>1. runqueue \in Seq(Urgent) /\ Distinct(runqueue) /\ runqueue # <<>> /\ Head(runqueue) = "data"
  BY DEF LockInv, QInv, ReadyOK, Runs
<1>2. In(runqueue, "data") /\ runqueue[1] = "data" /\ NotBefore(runqueue, "coap", "data")
  BY <1>1, TailQueue
<1>3. \A x \in Urgent : In(runqueue, x) <=> IF x = "data" THEN next \notin {"sleep", "idle"} ELSE In(runqueue, x)
  BY <1>2
<1>4. next \in Step \ (Section("pump_mutex") \cup Section("soil_mutex"))
  BY DEF Step
<1>5. /\ Holds("data", m)
      /\ \/ runqueue' = runqueue
         \/ \E x \in Urgent \ {"data"} : runqueue' = Append(runqueue, x)
  BY <1>0, <1>1, <1>3, <1>4, UnlockQueues
<1>6. CASE runqueue' = runqueue
  BY <1>1, <1>2, <1>5, <1>6
<1>7. ASSUME NEW x \in Urgent \ {"data"}, runqueue' = Append(runqueue, x)
      PROVE  /\ runqueue' # <<>> /\ runqueue'[1] = "data"
             /\ In(runqueue', "data") /\ NotBefore(runqueue', "coap", "data")
  BY <1>1, <1>2, <1>7, AppendQueue
<1>. QED
  BY <1>5, <1>6, <1>7

(* data_thread takes a mutex, or waits for it.                             *)
LEMMA DataTakes ==
    ASSUME LockInv, NEW m \in Mutex, NEW step, NEW next, Take("data", step, m, next)
    PROVE  /\ UNCHANGED <<report, boardVars>> /\ waited' = (waited \/ mutexes[m] # <<>>)
           /\ ~waited' => runqueue' # <<>> /\ runqueue'[1] = "data" /\ ~waited
           /\ mutexes[m] = <<>> => runqueue' = runqueue
           /\ \A x : mutexes[m] # <<>> /\ Holds(x, m) => Holds(x, m)'
           /\ In(runqueue, "data") /\ NotBefore(runqueue, "coap", "data")
           /\ pc'["data"] = next /\ pc'["shell"] = pc["shell"] /\ pc'["coap"] = pc["coap"]
<1> USE UrgentThread
<1>1. /\ Runs("data") /\ UNCHANGED <<report, boardVars>>
      /\ mutexes' = [mutexes EXCEPT ![m] = Append(mutexes[m], "data")]
      /\ runqueue' = (IF mutexes[m] = <<>> THEN runqueue ELSE Yield("data"))
      /\ waited' = (waited \/ mutexes[m] # <<>>)
      /\ pc' = [pc EXCEPT !["data"] = next]
  BY DEF Take, Lock, At, GoTo
<1>2. runqueue \in Seq(Urgent) /\ Distinct(runqueue) /\ runqueue # <<>> /\ Head(runqueue) = "data"
      /\ mutexes \in [Mutex -> Seq(Thread)] /\ pc \in [Thread -> Step]
  BY <1>1 DEF LockInv, QInv, MutexesOK, ReadyOK, StepsOK, Runs
<1>3. In(runqueue, "data") /\ runqueue[1] = "data" /\ NotBefore(runqueue, "coap", "data")
  <2>1. runqueue[1] = "data"
    BY <1>2
  <2>2. In(runqueue, runqueue[1]) /\ NotBefore(runqueue, "coap", runqueue[1])
    BY <1>2, TailQueue
  <2>. QED
    BY <2>1, <2>2
<1>4. mutexes'[m] = Append(mutexes[m], "data") /\ mutexes[m] \in Seq(Thread)
  BY <1>1, <1>2
<1>5. mutexes[m] # <<>> => mutexes'[m] # <<>> /\ mutexes'[m][1] = mutexes[m][1]
  BY <1>4, AppendQueue
<1>. QED
  BY <1>1, <1>2, <1>3, <1>5 DEF Holds

(* A report goes on: what data_thread reads agrees with what it has read.  *)
LEMMA DataKeepsReport ==
    ASSUME BoardInv, ReportTypeOK, Served("shell"), ReportOK, data_thread
    PROVE  ReportOK'
<1> USE UrgentThread, Sections
<1>0. LockInv /\ StepsOK /\ QInv /\ pc \in [Thread -> Step]
  BY DEF BoardInv, LockInv, StepsOK
<1>1. CASE Take("data", "read", "soil_mutex", "sample")
  <2>1. /\ pc'["data"] = "sample"
        /\ ~waited' => runqueue' # <<>> /\ runqueue'[1] = "data"
    BY <1>0, <1>1, DataTakes
  <2>. QED
    BY <2>1 DEF ReportOK, SampleOK, PumpOK, PairOK, UndisturbedOK, Writing, Showing
<1>2. CASE soil_read_step
  <2>1. PICK moisture \in Moistures : \E h \in Readings(moisture, soil_values.dry, soil_values.wet) :
          report' = [report EXCEPT !.moisture = moisture, !.under = soil_values, !.humidity = h]
    BY <1>2 DEF soil_read_step
  <2>2. report'.under = soil_values
    BY <2>1 DEF ReportTypeOK, Reports
  <2>3. /\ pc["data"] = "sample" /\ Runs("data") /\ GoTo("data", "state") /\ Unlock("data", "soil_mutex", runqueue)
        /\ UNCHANGED <<soil_values, waited>>
    BY <1>2 DEF soil_read_step, At, boardVars
  <2>4. Holds("data", "soil_mutex") /\ runqueue' # <<>> /\ runqueue'[1] = "data"
    BY <1>0, <2>3, DataUnlocks
  <2>5. pc'["data"] = "state" /\ pc'["shell"] = pc["shell"]
    BY <1>0, <2>3 DEF GoTo
  <2>6. pc["shell"] \notin {"dry", "wet"}
    BY <2>4 DEF Served, Holds
  <2>7. soil_values \in Calibrations
    <3>1. \A th \in Commanding : pc[th] # "wet"
      BY <1>0, <2>4 DEF LockInv, HoldersOK, Holds, Commanding
    <3>. QED
      BY <3>1 DEF BoardInv, ValuesOK
  <2>8. SampleOK'
    BY <2>2, <2>5, <2>6, <2>7 DEF SampleOK
  <2>9. UndisturbedOK'
    BY <2>2, <2>3, <2>4 DEF UndisturbedOK
  <2>. QED
    BY <2>5, <2>8, <2>9 DEF ReportOK, PumpOK, PairOK, Showing
<1>3. CASE Take("data", "state", "pump_mutex", "pump")
  <2>1. /\ pc["data"] = "state" /\ pc'["data"] = "pump" /\ pc'["shell"] = pc["shell"]
        /\ UNCHANGED <<report, boardVars>>
        /\ ~waited' => runqueue' # <<>> /\ runqueue'[1] = "data" /\ ~waited
    BY <1>0, <1>3, DataTakes DEF Take, At
  <2>2. SampleOK' /\ UndisturbedOK'
    BY <2>1 DEF ReportOK, SampleOK, UndisturbedOK, Writing, boardVars
  <2>. QED
    BY <2>1, <2>2 DEF ReportOK, PumpOK, PairOK, Showing
<1>4. CASE Write("pump", "pump_mutex", "values", [report EXCEPT !.pump_activated = pump_activated])
  <2>1. /\ pc["data"] = "pump" /\ Runs("data") /\ GoTo("data", "values") /\ Unlock("data", "pump_mutex", runqueue)
        /\ report' = [report EXCEPT !.pump_activated = pump_activated]
        /\ UNCHANGED <<soil_values, pump_activated, waited>>
    BY <1>4 DEF Write, At, boardVars
  <2>2. report'.under = report.under /\ report'.pump_activated = pump_activated
    BY <2>1 DEF ReportTypeOK, Reports
  <2>3. /\ Holds("data", "pump_mutex") /\ runqueue' # <<>> /\ runqueue'[1] = "data"
        /\ In(runqueue', "data") /\ NotBefore(runqueue', "coap", "data")
    BY <1>0, <2>1, DataUnlocks
  <2>4. pc'["data"] = "values" /\ pc'["shell"] = pc["shell"] /\ pc'["coap"] = pc["coap"]
    BY <1>0, <2>1 DEF GoTo
  <2>5. pc["shell"] \notin {"PA28", "PA13", "flag"} /\ pc["coap"] \notin {"PA13", "flag"}
    BY <1>0, <2>3 DEF Served, Holds, LockInv, HoldersOK, Commanding
  <2>6. SampleOK' /\ UndisturbedOK'
    BY <2>1, <2>2, <2>3, <2>4 DEF ReportOK, SampleOK, UndisturbedOK, Writing
  <2>7. PumpOK'
    BY <2>1, <2>2, <2>3, <2>4, <2>5 DEF PumpOK, DataIsNext
  <2>. QED
    BY <2>4, <2>6, <2>7 DEF ReportOK, PairOK
<1>5. CASE Take("data", "values", "soil_mutex", "pair")
  <2>1. /\ pc["data"] = "values" /\ pc'["data"] = "pair"
        /\ pc'["shell"] = pc["shell"] /\ pc'["coap"] = pc["coap"]
        /\ UNCHANGED <<report, boardVars>>
        /\ ~waited' => runqueue' # <<>> /\ runqueue'[1] = "data" /\ ~waited
        /\ mutexes["soil_mutex"] = <<>> => runqueue' = runqueue
        /\ \A x : mutexes["soil_mutex"] # <<>> /\ Holds(x, "soil_mutex") => Holds(x, "soil_mutex")'
        /\ In(runqueue, "data") /\ NotBefore(runqueue, "coap", "data")
    BY <1>0, <1>5, DataTakes DEF Take, At
  <2>2. SampleOK' /\ UndisturbedOK'
    BY <2>1 DEF ReportOK, SampleOK, UndisturbedOK, Writing, boardVars
  <2>3. DataIsNext'
    <3>1. CASE mutexes["soil_mutex"] = <<>>
      BY <2>1, <3>1 DEF DataIsNext
    <3>2. CASE mutexes["soil_mutex"] # <<>>
      <4>1. PICK x \in Thread : Holds(x, "soil_mutex")
        BY <1>0, <3>2, FreeOrHeld
      <4>2. pc[x] \in {"dry", "wet", "sample", "pair"}
        BY <1>0, <4>1, HolderReady
      <4>3. x = "coap"
        <5>1. x # "shell"
          BY <1>0, <2>1, <4>2 DEF ReportOK, SampleOK, Writing, StepsOK, Commanding
        <5>2. x # "wdt" /\ x # "data"
          BY <1>0, <2>1, <4>2 DEF StepsOK
        <5>. QED
          BY <5>1, <5>2 DEF Thread
      <4>4. pc["coap"] \in {"dry", "wet"}
        BY <1>0, <4>2, <4>3 DEF StepsOK, Commanding
      <4>. QED
        BY <2>1, <3>2, <4>1, <4>3, <4>4 DEF DataIsNext
    <3>. QED
      BY <3>1, <3>2
  <2>4. PumpOK'
    BY <2>1, <2>3 DEF ReportOK, PumpOK, Showing, boardVars
  <2>. QED
    BY <2>1, <2>2, <2>4 DEF ReportOK, PairOK
<1>6. CASE Write("pair", "soil_mutex", "send", [report EXCEPT !.soil_values = soil_values])
  <2>1. /\ pc["data"] = "pair" /\ Runs("data") /\ GoTo("data", "send") /\ Unlock("data", "soil_mutex", runqueue)
        /\ report' = [report EXCEPT !.soil_values = soil_values]
        /\ UNCHANGED <<soil_values, pump_activated, waited>>
    BY <1>6 DEF Write, At, boardVars
  <2>2. report'.under = report.under /\ report'.pump_activated = report.pump_activated
        /\ report'.soil_values = soil_values
    BY <2>1 DEF ReportTypeOK, Reports
  <2>3. /\ Holds("data", "soil_mutex") /\ runqueue' # <<>> /\ runqueue'[1] = "data"
        /\ In(runqueue', "data") /\ NotBefore(runqueue', "coap", "data")
    BY <1>0, <2>1, DataUnlocks
  <2>4. pc'["data"] = "send" /\ pc'["shell"] = pc["shell"] /\ pc'["coap"] = pc["coap"]
    BY <1>0, <2>1 DEF GoTo
  <2>5. pc["coap"] # "wet"
    BY <1>0, <2>3 DEF LockInv, HoldersOK, Holds, Commanding
  <2>6. SampleOK' /\ UndisturbedOK'
    BY <2>1, <2>2, <2>3, <2>4 DEF ReportOK, SampleOK, UndisturbedOK, Writing
  <2>7. PumpOK' /\ PairOK'
    BY <2>1, <2>2, <2>3, <2>4, <2>5 DEF ReportOK, PumpOK, PairOK, DataIsNext, Showing
  <2>. QED
    BY <2>6, <2>7 DEF ReportOK
<1>7. CASE Send
  BY <1>0, <1>7, NoReport DEF Send, GoTo
<1>. QED
  BY <1>1, <1>2, <1>3, <1>4, <1>5, <1>6, <1>7 DEF data_thread

(* The invariant of reports is inductive.                                  *)
LEMMA ReportStep ==
    ASSUME BoardInv, IInv, waited \in BOOLEAN, Served("shell"), ReportOK, [Next]_vars
    PROVE  ReportOK'
<1>0. LockInv
  BY DEF BoardInv
<1>1. CASE Reset
  BY <1>1, NoReport, UrgentThread DEF Reset, Start
<1>2. CASE Receive \/ WakeUp \/ wdt_thread \/ TypeIn
  BY <1>0, <1>2, OthersKeepReport
<1>3. ASSUME NEW th \in Commanding, pump_toggle(th) \/ calibration(th) PROVE ReportOK'
  BY <1>0, <1>3, CommandKeepsReport
<1>4. CASE data_thread
  BY <1>4, DataKeepsReport DEF IInv
<1>5. CASE UNCHANGED <<pc, schedVars, boardVars, reportVars>>
  <2>1. DataIsNext' <=> DataIsNext
    BY <1>5 DEF DataIsNext, Holds, schedVars
  <2>. QED
    BY <1>5, <2>1 DEF ReportOK, SampleOK, PumpOK, PairOK, UndisturbedOK, schedVars, boardVars, reportVars
<1>. QED
  BY <1>1, <1>2, <1>3, <1>4, <1>5 DEF Next, Work, Hang, Timer, PowerCycle, vars, Commanding

(* When a report is sent its pump state and its calibration are those of   *)
(* the board, although they were read in two critical sections, and its    *)
(* humidity was computed under that calibration unless data_thread had to  *)
(* wait for a mutex (main.c:109-135).                                      *)
THEOREM ReportsAgree == Spec => []ReportsAreSnapshots
<1> DEFINE Inv == BoardInv /\ IInv /\ RestTypeOK /\ Served("shell") /\ ReportOK
<1>1. Init => Inv
  <2> SUFFICES ASSUME Init PROVE Inv
    OBVIOUS
  <2>1. BoardInv /\ IInv /\ RestTypeOK
    BY TypesInit
  <2>2. Served("shell")
    BY Sections, UrgentThread DEF Init, Start, Served, Section
  <2>3. ReportOK
    BY UrgentThread DEF Init, Start, ReportOK, SampleOK, PumpOK, PairOK, UndisturbedOK, Writing, Showing
  <2>. QED
    BY <2>1, <2>2, <2>3
<1>2. Inv /\ [Next]_vars => Inv'
  BY LockInvStep, PinsStep, ValuesStep, IInvStep, RestTypeStep, ShellServed, ReportStep
     DEF BoardInv, LockInv, RestTypeOK
<1>3. Inv => ReportsAreSnapshots
  <2> SUFFICES ASSUME Inv, pc["data"] = "send" PROVE ReportsAreSnapshots
    BY DEF ReportsAreSnapshots
  <2>1. report.pump_activated = pump_activated /\ pc["shell"] \notin {"PA28", "PA13", "flag"}
        /\ pc["coap"] \notin {"PA13", "flag"}
    BY DEF ReportOK, PumpOK, Showing
  <2>2. \A p \in Pin : pins[p] = report.pump_activated
    BY <2>1 DEF BoardInv, PinsOK, Pin, Commanding
  <2>3. report.soil_values = soil_values /\ pc["coap"] # "wet" /\ pc["shell"] # "wet"
        /\ report.under \in Calibrations
    BY DEF ReportOK, PairOK, SampleOK, Writing
  <2>4. soil_values \in Calibrations
    BY <2>3 DEF BoardInv, ValuesOK, Commanding
  <2>5. waited \/ report.under = soil_values
    BY DEF ReportOK, UndisturbedOK, Writing
  <2>. QED
    BY <2>1, <2>2, <2>3, <2>4, <2>5 DEF ReportsAreSnapshots
<1>. QED
  BY <1>1, <1>2, <1>3, PTL DEF Spec

=============================================================================

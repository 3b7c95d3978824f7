---------------------- MODULE LocationReporting_proofs ----------------------
(***************************************************************************)
(* What LocationReporting guarantees for any number of executors, places   *)
(* and times: however start(), stop() and the runs follow each other, only *)
(* the current executor has anything left to run, and what is reported     *)
(* goes forward in time unless two runs overlap.                           *)
(***************************************************************************)
EXTENDS LocationReporting, TLAPS

(* Whatever is scheduled or runs belongs to the current executor and has   *)
(* not been shut down, or is a run that has been shut down; a run that     *)
(* computes has read where from the properties.                            *)
Alive(e) == task[e].pc \in Running \union {"new", "due", "waiting"}
TaskInv ==
  \A e \in Executor :
    /\ Alive(e) => \/ e = executor /\ ~task[e].shut
                   \/ task[e].pc \in Running /\ task[e].shut
    /\ task[e].pc = "compute" => task[e].propLoc \in Place

(* Between making an executor and scheduling its task, it is the current one. *)
StartInv == starting => executor \in Executor /\ task[executor].pc = "new"

IndInv == TypeOK /\ TaskInv /\ StartInv

Task == [pc : Running \union {"dead", "new", "due", "waiting", "thrown"},
         periodic : BOOLEAN, shut : BOOLEAN, time : Time, propLoc : Place \union {None}]

(* IndInv holds at the start. *)
LEMMA InitInv == Init => IndInv
<1> SUFFICES ASSUME Init PROVE IndInv
  OBVIOUS
<1>1. 0 \in Time
  BY LocationAssumption DEF Time
<1>2. NoTask \in Task
  BY <1>1 DEF NoTask, Task, Running
<1>3. TypeOK
  BY <1>1, <1>2 DEF Init, TypeOK, Task
<1>4. TaskInv /\ StartInv
  BY DEF Init, TaskInv, StartInv, Alive, NoTask, Running
<1>5. QED
  BY <1>3, <1>4 DEF IndInv

(* shutdownNow gives a task to the executor that has none left to run. *)
LEMMA ShutDownTask ==
  ASSUME IndInv, executor \in Executor
  PROVE  LET f == ShutDown(executor, task)
         IN /\ f \in [Executor -> Task]
            /\ \A e \in Executor \ {executor} : f[e] = task[e]
            /\ f[executor].pc \in Running => f[executor].shut
            /\ f[executor].pc \in Running \union {"dead"}
            /\ f[executor].pc = "compute" => f[executor].propLoc \in Place
<1>1. task \in [Executor -> Task]
  BY DEF IndInv, TypeOK, Task
<1>2. task[executor] \in Task
  BY <1>1
<1> DEFINE t == [task[executor] EXCEPT !.shut = TRUE,
                   !.pc = IF @ \in Running THEN @ ELSE "dead"]
<1>3. /\ t \in Task /\ t.shut /\ t.pc \in Running \union {"dead"}
      /\ t.pc = "compute" => t.propLoc \in Place
  BY <1>2 DEF Task, IndInv, TaskInv
<1>4. ShutDown(executor, task) = [task EXCEPT ![executor] = t]
  BY <1>1, <1>2 DEF ShutDown, Task
<1>5. QED
  BY <1>1, <1>3, <1>4

(***************************************************************************)
(* A step of the run on executor e keeps IndInv if it leaves the executors *)
(* alone and its task running, or ended, or waiting when it is not shut.   *)
(***************************************************************************)
LEMMA RunKeeps ==
  ASSUME IndInv, NEW e \in Executor, Alive(e), task[e].pc # "new", NEW t \in Task,
         task' = [task EXCEPT ![e] = t],
         t.shut = task[e].shut,
         t.pc \in Running \union {"dead", "thrown"} \/ (t.pc \in {"due", "waiting"} /\ ~t.shut),
         t.pc = "compute" => t.propLoc \in Place,
         UNCHANGED <<executor, starting>>
  PROVE  TaskInv' /\ StartInv' /\ task' \in [Executor -> Task]
<1>1. task \in [Executor -> Task]
  BY DEF IndInv, TypeOK, Task
<1>2. task'[e] = t /\ \A other \in Executor \ {e} : task'[other] = task[other]
  BY <1>1
<1>3. TaskInv'
  BY <1>2 DEF IndInv, TaskInv, Alive
<1>4. StartInv'
  BY <1>2 DEF IndInv, StartInv
<1>5. QED
  BY <1>1, <1>3, <1>4

(* IndInv is kept by every step. *)
LEMMA NextInv == IndInv /\ [Next]_vars => IndInv'
<1> SUFFICES ASSUME IndInv, [Next]_vars PROVE IndInv'
  OBVIOUS
<1>0. task \in [Executor -> Task] /\ NoTask \in Task
  <2>1. 0 \in Time
    BY LocationAssumption DEF Time
  <2>2. QED
    BY <2>1 DEF IndInv, TypeOK, Task, NoTask, Running
<1>a. CASE UNCHANGED vars
  BY <1>a DEF vars, fields, IndInv, TypeOK, TaskInv, StartInv, Alive
<1>1. CASE Tick
  BY <1>1, LocationAssumption
  DEF Tick, Time, fields, IndInv, TypeOK, TaskInv, StartInv, Alive
<1>2. CASE SetProperty
  BY <1>2 DEF SetProperty, fields, IndInv, TypeOK, TaskInv, StartInv, Alive
<1>3. CASE Stop
  <2>1. executor \in Executor /\ ~starting /\ task' = ShutDown(executor, task)
          /\ executor' = None /\ UNCHANGED <<clock, property, fields, starting, told>>
    BY <1>3 DEF Stop, IndInv, TypeOK
  <2>2. TaskInv' /\ StartInv' /\ task' \in [Executor -> Task]
    BY <2>1, ShutDownTask DEF IndInv, TaskInv, StartInv, Alive, Running
  <2>3. QED
    BY <2>1, <2>2 DEF IndInv, TypeOK, fields, Task
<1>4. CASE Schedule
  <2>1. executor \in Executor /\ task[executor].pc = "new" /\ ~task[executor].shut
    BY <1>4 DEF Schedule, IndInv, StartInv, TaskInv, Alive, Running
  <2> DEFINE t == [task[executor] EXCEPT !.pc = "due", !.periodic = randomMode]
  <2>2. t \in Task /\ t.pc = "due" /\ ~t.shut
    BY <1>0, <2>1 DEF Task, IndInv, TypeOK
  <2>3. task' = [task EXCEPT ![executor] = t]
    BY <1>4 DEF Schedule
  <2>4. task'[executor] = t /\ \A e \in Executor \ {executor} : task'[e] = task[e]
    BY <1>0, <2>1, <2>3
  <2>5. TaskInv' /\ StartInv' /\ task' \in [Executor -> Task]
    BY <1>0, <1>4, <2>2, <2>3, <2>4 DEF Schedule, IndInv, TaskInv, StartInv, Alive
  <2>6. QED
    BY <1>4, <2>5 DEF Schedule, IndInv, TypeOK, fields, Task
<1>5. ASSUME NEW e \in Executor, Start(e) PROVE IndInv'
  <2> DEFINE others == IF executor = None THEN task ELSE ShutDown(executor, task)
             t == [NoTask EXCEPT !.pc = "new"]
  <2>1. t \in Task /\ t.pc = "new" /\ ~t.shut
    BY <1>0 DEF Task, NoTask
  <2>2. /\ others \in [Executor -> Task]
        /\ \A f \in Executor : others[f].pc \in Running \union {"new", "due", "waiting"}
                                 => others[f].pc \in Running /\ others[f].shut
        /\ \A f \in Executor : others[f].pc = "compute" => others[f].propLoc \in Place
    <3>1. CASE executor = None
      BY <1>0, <3>1, LocationAssumption DEF IndInv, TaskInv, Alive
    <3>2. CASE executor # None
      <4>1. executor \in Executor
        BY <3>2 DEF IndInv, TypeOK
      <4>2. QED
        BY <3>2, <4>1, ShutDownTask DEF IndInv, TaskInv, Alive, Running
    <3>3. QED
      BY <3>1, <3>2
  <2>3. task' = [others EXCEPT ![e] = t] /\ executor' = e
          /\ UNCHANGED <<clock, property, fields, told>> /\ starting' = TRUE
    BY <1>5 DEF Start
  <2>4. task'[e] = t /\ \A f \in Executor \ {e} : task'[f] = others[f]
    <3> HIDE DEF others, t
    <3>1. QED
      BY <2>2, <2>3
  <2>5. task' \in [Executor -> Task]
    <3> HIDE DEF others, t
    <3>1. QED
      BY <2>1, <2>2, <2>3
  <2>6. TaskInv' /\ StartInv'
    <3> HIDE DEF others, t
    <3>1. TaskInv'
      <4>1. SUFFICES ASSUME NEW f \in Executor
                     PROVE  /\ Alive(f)' => \/ f = executor' /\ ~task'[f].shut
                                            \/ task'[f].pc \in Running /\ task'[f].shut
                            /\ task'[f].pc = "compute" => task'[f].propLoc \in Place
        BY DEF TaskInv, Alive
      <4>2. CASE f = e
        BY <2>1, <2>3, <2>4, <4>2
      <4>3. CASE f # e
        <5>1. task'[f] = others[f]
          BY <2>4, <4>3
        <5>2. others[f].pc \in Running \union {"new", "due", "waiting"}
                => others[f].pc \in Running /\ others[f].shut
          BY <2>2
        <5>3. others[f].pc = "compute" => others[f].propLoc \in Place
          BY <2>2
        <5>4. QED
          BY <5>1, <5>2, <5>3 DEF Alive
      <4>4. QED
        BY <4>2, <4>3
    <3>2. QED
      BY <2>1, <2>3, <2>4, <3>1 DEF StartInv
  <2>7. QED
    BY <2>3, <2>5, <2>6 DEF IndInv, TypeOK, fields, Task
<1>6. ASSUME NEW e \in Executor, Fire(e) PROVE IndInv'
  <2> DEFINE t == [task[e] EXCEPT !.pc = "due"]
  <2>1. task' = [task EXCEPT ![e] = t] /\ task[e].pc = "waiting"
    BY <1>6, <1>0 DEF Fire, Task
  <2>2. t \in Task /\ t.pc = "due" /\ t.shut = task[e].shut
    BY <1>0 DEF Task
  <2>3. ~t.shut /\ Alive(e)
    BY <1>0, <2>1, <2>2 DEF IndInv, TaskInv, Alive, Running
  <2>4. TaskInv' /\ StartInv' /\ task' \in [Executor -> Task]
    <3> HIDE DEF t
    <3>1. QED
      BY <1>6, <2>1, <2>2, <2>3, RunKeeps DEF Fire
  <2>5. QED
    BY <1>6, <2>4 DEF Fire, IndInv, TypeOK, fields, Task
<1>7. ASSUME NEW e \in Executor, GetLocationFromProperties(e) PROVE IndInv'
  <2> DEFINE t == [task[e] EXCEPT !.pc = "compute", !.time = clock, !.propLoc = property.place]
  <2>1. task' = [task EXCEPT ![e] = t]
    BY <1>7, <1>0 DEF GetLocationFromProperties, Task
  <2>2. t \in Task /\ t.pc \in Running /\ t.shut = task[e].shut /\ t.propLoc \in Place
    BY <1>0 DEF Task, IndInv, TypeOK, Running
  <2>3. TaskInv' /\ StartInv' /\ task' \in [Executor -> Task]
    BY <1>7, <2>1, <2>2, RunKeeps DEF GetLocationFromProperties, Alive
  <2>4. QED
    BY <1>7, <2>3 DEF GetLocationFromProperties, IndInv, TypeOK, Task
<1>8. ASSUME NEW e \in Executor, Run(e) PROVE IndInv'
  <2>1. PICK time \in Time : Made(e, time)
    BY <1>8, <1>0 DEF Run, IndInv, TypeOK, Task
  <2> DEFINE t == [task[e] EXCEPT !.pc = "check", !.time = time, !.propLoc = None]
  <2>2. task' = [task EXCEPT ![e] = t] /\ task[e].pc = "compute"
    BY <2>1, <1>8 DEF Made, Run
  <2>3. t \in Task /\ t.pc \in Running /\ t.pc # "compute" /\ t.shut = task[e].shut
    BY <1>0 DEF Task, Running
  <2>4. TaskInv' /\ StartInv' /\ task' \in [Executor -> Task]
    BY <1>8, <2>2, <2>3, RunKeeps DEF Run, Alive, Running
  <2>5. initLocation' \in Place
    BY <1>8, <2>2 DEF Run, IndInv, TypeOK, TaskInv
  <2>6. QED
    BY <1>8, <2>4, <2>5 DEF Run, IndInv, TypeOK, Task
<1>9. ASSUME NEW e \in Executor, RunThrows(e) PROVE IndInv'
  <2> DEFINE t == [task[e] EXCEPT !.pc = "thrown", !.propLoc = None]
  <2>1. task' = [task EXCEPT ![e] = t] /\ t \in Task /\ t.pc = "thrown" /\ t.shut = task[e].shut
    BY <1>9, <1>0 DEF RunThrows, Task
  <2>2. TaskInv' /\ StartInv' /\ task' \in [Executor -> Task]
    BY <1>9, <2>1, RunKeeps DEF RunThrows, Alive, Running
  <2>3. QED
    BY <1>9, <2>2 DEF RunThrows, IndInv, TypeOK, fields, Task
<1>10. ASSUME NEW e \in Executor, task[e].pc \in Running, EndOfRun(e),
              UNCHANGED <<executor, starting>>
      PROVE  TaskInv' /\ StartInv' /\ task' \in [Executor -> Task]
  <2> DEFINE t == [task[e] EXCEPT
                     !.pc = IF task[e].periodic /\ ~task[e].shut THEN "waiting" ELSE "dead",
                     !.time = 0]
  <2>1. 0 \in Time
    BY LocationAssumption DEF Time
  <2>2. /\ t \in Task /\ t.shut = task[e].shut
        /\ t.pc = "dead" \/ (t.pc = "waiting" /\ ~t.shut)
    BY <1>0, <2>1 DEF Task
  <2>3. task' = [task EXCEPT ![e] = t]
    BY <1>10 DEF EndOfRun
  <2>4. QED
    BY <1>10, <2>2, <2>3, RunKeeps DEF Alive, Running
<1>11. ASSUME NEW e \in Executor, Report(e) PROVE IndInv'
  <2>1. CASE NotNewer(task[e].time)
    <3>1. TaskInv' /\ StartInv' /\ task' \in [Executor -> Task]
      BY <1>10, <1>11, <2>1 DEF Report, Running
    <3>2. QED
      BY <1>11, <3>1 DEF Report, IndInv, TypeOK, fields, Task
  <2>2. CASE ~NotNewer(task[e].time)
    <3> DEFINE t == [task[e] EXCEPT !.pc = "set"]
    <3>1. /\ task' = [task EXCEPT ![e] = t]
          /\ t \in Task /\ t.pc \in Running /\ t.pc # "compute" /\ t.shut = task[e].shut
      BY <1>11, <1>0, <2>2 DEF Report, Task, Running
    <3>2. TaskInv' /\ StartInv' /\ task' \in [Executor -> Task]
      BY <1>11, <3>1, RunKeeps DEF Report, Alive, Running
    <3>3. QED
      BY <1>11, <3>2 DEF Report, IndInv, TypeOK, fields, Task
  <2>3. QED
    BY <2>1, <2>2
<1>12. ASSUME NEW e \in Executor, SetLastLocation(e) PROVE IndInv'
  <2> DEFINE t == [task[e] EXCEPT !.pc = "report"]
  <2>1. /\ task' = [task EXCEPT ![e] = t]
        /\ t \in Task /\ t.pc \in Running /\ t.pc # "compute" /\ t.shut = task[e].shut
    BY <1>12, <1>0 DEF SetLastLocation, Task, Running
  <2>2. TaskInv' /\ StartInv' /\ task' \in [Executor -> Task]
    BY <1>12, <2>1, RunKeeps DEF SetLastLocation, Alive, Running
  <2>3. lastLocation' \in Time
    BY <1>12, <1>0 DEF SetLastLocation, Task
  <2>4. QED
    BY <1>12, <2>2, <2>3 DEF SetLastLocation, IndInv, TypeOK, Task
<1>13. ASSUME NEW e \in Executor, ReportLocation(e) PROVE IndInv'
  <2>1. TaskInv' /\ StartInv' /\ task' \in [Executor -> Task]
    BY <1>10, <1>13 DEF ReportLocation, Running
  <2>2. told' \in Time
    BY <1>13, <1>0 DEF ReportLocation, Task
  <2>3. QED
    BY <1>13, <2>1, <2>2 DEF ReportLocation, IndInv, TypeOK, fields, Task
<1>14. QED
  BY <1>a, <1>1, <1>2, <1>3, <1>4, <1>5, <1>6, <1>7, <1>8, <1>9, <1>11, <1>12, <1>13
  DEF Next, RunStep

(* IndInv holds in every reachable state. *)
LEMMA Invariance == Spec => []IndInv
BY InitInv, NextInv, PTL DEF Spec

(***************************************************************************)
(* No task that was scheduled for an earlier request waits or is due       *)
(* (LocationThread.start, stop).                                           *)
(***************************************************************************)
THEOREM OnlyOneExecutor == Spec => []OneExecutor
<1>1. IndInv => OneExecutor
  BY DEF IndInv, TaskInv, Alive, OneExecutor, Running
<1>2. QED
  BY <1>1, Invariance, PTL

(* Every reachable state is well formed. *)
THEOREM TypeCorrect == Spec => []TypeOK
<1>1. IndInv => TypeOK
  BY DEF IndInv
<1>2. QED
  BY <1>1, Invariance, PTL

-----------------------------------------------------------------------------
(* No run begins but on the current executor, which has not been shut down. *)
RunsBeginCurrent ==
  [][\A e \in Executor :
       task[e].pc \notin Running /\ task'[e].pc \in Running => e = executor /\ ~task[e].shut]_vars

(* Nothing is from a time that is still to come. *)
ClockInv ==
  /\ {lastLocation, told} \subseteq {None} \union 0 .. clock
  /\ \A e \in Executor : task[e].time <= clock

(* Runs of two executors overlap only when stop() has come during a run. *)
NoOverlap ==
  \A e, f \in Executor : task[e].pc \in Running /\ task[f].pc \in Running => e = f

(* Each location that is reported is newer than the one before. *)
ReportsGoForward == [][told' # None /\ (told # None => told < told')]_told

(***************************************************************************)
(* How the last location, what has been told and the run that is under way *)
(* are related.                                                            *)
(***************************************************************************)
ForwardInv ==
  /\ \A e \in Executor : task[e].pc = "set" => lastLocation = None \/ lastLocation < task[e].time
  /\ \A e \in Executor : task[e].pc = "report" =>
       lastLocation = task[e].time /\ (told = None \/ told < lastLocation)
  /\ (\A e \in Executor : task[e].pc # "report") => told = lastLocation

(* Nothing has a time at the start. *)
LEMMA ClockInit == Init => ClockInv
BY LocationAssumption DEF Init, ClockInv, NoTask, Time

(* A run takes its time from the clock, and the clock does not go back. *)
LEMMA ClockNext == IndInv /\ ClockInv /\ [Next]_vars => ClockInv'
<1> SUFFICES ASSUME IndInv, ClockInv, [Next]_vars PROVE ClockInv'
  OBVIOUS
<1>t. task \in [Executor -> Task] /\ clock \in Nat
  BY LocationAssumption DEF IndInv, TypeOK, Task, Time
<1>s. task' \in [Executor -> Task] /\ clock' \in Nat
  BY NextInv, LocationAssumption DEF IndInv, TypeOK, Task, Time
<1>1. CASE Tick
  BY <1>1, <1>t, LocationAssumption DEF Tick, fields, ClockInv, Task, Time
<1>2. CASE SetProperty \/ UNCHANGED vars
  BY <1>2 DEF SetProperty, vars, fields, ClockInv
<1>3. CASE Stop
  BY <1>3, <1>t DEF Stop, ShutDown, fields, ClockInv, Task
<1>4. CASE Schedule
  BY <1>4, <1>t DEF Schedule, fields, ClockInv, Task
<1>5. ASSUME NEW e \in Executor, Start(e) PROVE ClockInv'
  BY <1>5, <1>t DEF Start, ShutDown, NoTask, fields, ClockInv, Task
<1>6. ASSUME NEW e \in Executor, Fire(e) \/ RunStep(e)
      PROVE  ClockInv'
  <2>1. \A f \in Executor : f # e => task'[f] = task[f]
    BY <1>6, <1>t DEF Fire, RunStep, GetLocationFromProperties, Run, Made, RunThrows, Report,
         EndOfRun, SetLastLocation, ReportLocation
  <2>2. task'[e].time \in {task[e].time, clock, 0}
    <3>1. CASE Fire(e) \/ GetLocationFromProperties(e)
      BY <1>t, <3>1 DEF Fire, GetLocationFromProperties, Task
    <3>2. CASE RunStep(e) /\ ~GetLocationFromProperties(e)
      BY <1>t, <3>2 DEF RunStep, Run, Made, RunThrows, Report,
           EndOfRun, SetLastLocation, ReportLocation, Task
    <3> QED BY <1>6, <3>1, <3>2
  <2>3. /\ clock' = clock
        /\ lastLocation' \in {lastLocation, task[e].time} /\ told' \in {told, task[e].time}
    BY <1>6 DEF Fire, RunStep, GetLocationFromProperties, Run, RunThrows, Report,
         SetLastLocation, ReportLocation, fields
  <2>4. task[e].time \in 0 .. clock
    BY <1>t, LocationAssumption DEF ClockInv, Task, Time
  <2>5. \A f \in Executor : task'[f].time <= clock
    BY <1>t, <2>1, <2>2, <2>4 DEF ClockInv
  <2> QED BY <2>3, <2>4, <2>5 DEF ClockInv
<1> QED
  BY <1>1, <1>2, <1>3, <1>4, <1>5, <1>6 DEF Next, RunStep

(* A run begins with GetLocationFromProperties, on an executor that is due. *)
LEMMA RunBegins ==
  ASSUME IndInv, [Next]_vars, NEW e \in Executor,
         task[e].pc \notin Running, task'[e].pc \in Running
  PROVE  GetLocationFromProperties(e) /\ e = executor /\ ~task[e].shut
<1>t. task \in [Executor -> Task] /\ executor \in Executor \union {None}
  BY DEF IndInv, TypeOK, Task
<1>1. CASE Tick \/ SetProperty \/ UNCHANGED vars
  BY <1>1 DEF Tick, SetProperty, vars
<1>2. CASE Stop
  BY <1>2, <1>t DEF Stop, ShutDown, Task, Running
<1>3. CASE Schedule
  BY <1>3, <1>t DEF Schedule, Task, Running
<1>4. ASSUME NEW f \in Executor, Start(f) PROVE FALSE
  <2>1. CASE executor = None
    BY <1>4, <1>t, <2>1 DEF Start, NoTask, Task, Running
  <2>2. CASE executor # None
    BY <1>4, <1>t, <2>2 DEF Start, ShutDown, NoTask, Task, Running
  <2> QED BY <2>1, <2>2
<1>5. ASSUME NEW f \in Executor, Fire(f) PROVE FALSE
  BY <1>5, <1>t DEF Fire, Task, Running
<1>6. ASSUME NEW f \in Executor, RunStep(f), ~GetLocationFromProperties(f) PROVE FALSE
  <2>1. task[f].pc \in Running
    BY <1>6 DEF RunStep, Run, RunThrows, Report, SetLastLocation, ReportLocation, Running
  <2>2. task'[e] = task[e]
    BY <1>6, <1>t, <2>1 DEF RunStep, Run, Made, RunThrows, Report, EndOfRun, SetLastLocation,
         ReportLocation, Task
  <2> QED BY <2>2
<1>7. ASSUME NEW f \in Executor, GetLocationFromProperties(f)
      PROVE  GetLocationFromProperties(e) /\ task[e].pc = "due"
  BY <1>7, <1>t DEF GetLocationFromProperties, Task
<1>8. GetLocationFromProperties(e) /\ task[e].pc = "due"
  BY <1>1, <1>2, <1>3, <1>4, <1>5, <1>6, <1>7 DEF Next, RunStep
<1> QED BY <1>8 DEF IndInv, TaskInv, Alive, Running

(***************************************************************************)
(* After stop() or a new start() no run begins on the executor before: of  *)
(* what StopEndsReports says only that what runs ends is left to fairness. *)
(***************************************************************************)
THEOREM NoRunAfterStop == Spec => RunsBeginCurrent
<1>1. IndInv /\ [Next]_vars
        => [\A e \in Executor :
              task[e].pc \notin Running /\ task'[e].pc \in Running
                => e = executor /\ ~task[e].shut]_vars
  BY RunBegins
<1> QED BY <1>1, Invariance, PTL DEF Spec, RunsBeginCurrent

(* Neither what is remembered nor what is told is ever from the future. *)
THEOREM NothingFromTheFuture == Spec => []ClockInv
BY ClockInit, ClockNext, Invariance, PTL DEF Spec

-----------------------------------------------------------------------------
(* The end of a run: what is to be remembered and told is in its hands. *)
Ending == {"set", "report"}

(* Nobody but the run itself changes how far it has come to its end. *)
LEMMA EndingIsKept ==
  ASSUME IndInv, [Next]_vars, \A e \in Executor : ~RunStep(e)
  PROVE  /\ UNCHANGED <<lastLocation, told>>
         /\ \A e \in Executor :
              task[e].pc \in Ending \/ task'[e].pc \in Ending =>
                task'[e].pc = task[e].pc /\ task'[e].time = task[e].time
<1>t. task \in [Executor -> Task] /\ executor \in Executor \union {None}
  BY DEF IndInv, TypeOK, Task
<1> USE DEF Ending, Running
<1>1. CASE Tick \/ SetProperty \/ UNCHANGED vars
  BY <1>1 DEF Tick, SetProperty, vars, fields
<1>2. CASE Stop
  BY <1>2, <1>t DEF Stop, ShutDown, fields, Task
<1>3. CASE Schedule
  BY <1>3, <1>t DEF Schedule, fields, Task, IndInv, StartInv
<1>4. ASSUME NEW f \in Executor, Start(f)
      PROVE  /\ UNCHANGED <<lastLocation, told>>
             /\ \A e \in Executor :
                  task[e].pc \in Ending \/ task'[e].pc \in Ending =>
                    task'[e].pc = task[e].pc /\ task'[e].time = task[e].time
  <2>1. CASE executor = None
    BY <1>4, <1>t, <2>1 DEF Start, Ended, NoTask, fields, Task
  <2>2. CASE executor # None
    BY <1>4, <1>t, <2>2 DEF Start, Ended, ShutDown, NoTask, fields, Task
  <2> QED BY <2>1, <2>2
<1>5. ASSUME NEW f \in Executor, Fire(f)
      PROVE  /\ UNCHANGED <<lastLocation, told>>
             /\ \A e \in Executor :
                  task[e].pc \in Ending \/ task'[e].pc \in Ending =>
                    task'[e].pc = task[e].pc /\ task'[e].time = task[e].time
  BY <1>5, <1>t DEF Fire, fields, Task
<1> QED BY <1>1, <1>2, <1>3, <1>4, <1>5 DEF Next

(* Runs that do not overlap leave each other's times in order. *)
LEMMA ForwardNext ==
  ASSUME IndInv, ForwardInv, NoOverlap, [Next]_vars
  PROVE  /\ ForwardInv'
         /\ told' # told => told' # None /\ (told # None => told < told')
<1>t. task \in [Executor -> Task] /\ lastLocation \in Time \union {None}
  BY DEF IndInv, TypeOK, Task
<1>n. Time \subseteq Nat /\ None \notin Nat
  BY LocationAssumption DEF Time
<1>1. CASE \A e \in Executor : ~RunStep(e)
  <2>1. /\ UNCHANGED <<lastLocation, told>>
        /\ \A e \in Executor :
             task[e].pc \in Ending \/ task'[e].pc \in Ending =>
               task'[e].pc = task[e].pc /\ task'[e].time = task[e].time
    BY <1>1, EndingIsKept
  <2> QED BY <2>1 DEF ForwardInv, Ending
<1>2. ASSUME NEW e \in Executor, RunStep(e)
      PROVE  /\ ForwardInv'
             /\ told' # told => told' # None /\ (told # None => told < told')
  <2>1. \A f \in Executor : f # e => task'[f] = task[f]
    BY <1>2, <1>t DEF RunStep, GetLocationFromProperties, Run, Made, RunThrows, Report,
         EndOfRun, SetLastLocation, ReportLocation
  <2>2. CASE GetLocationFromProperties(e)
    <3>1. task'[e].pc = "compute" /\ task[e].pc = "due" /\ UNCHANGED <<lastLocation, told>>
      BY <2>2, <1>t DEF GetLocationFromProperties, Task
    <3> QED BY <2>1, <3>1 DEF ForwardInv
  <2>3. ASSUME ~GetLocationFromProperties(e)
        PROVE  /\ task[e].pc \in Running
               /\ \A f \in Executor : f # e => task[f].pc \notin Ending
    BY <1>2, <2>3 DEF NoOverlap, RunStep, Run, RunThrows, Report, SetLastLocation,
         ReportLocation, Running, Ending
  <2>4. CASE Run(e) \/ RunThrows(e)
    <3>1. task'[e].pc \notin Ending /\ task[e].pc = "compute" /\ UNCHANGED <<lastLocation, told>>
      BY <2>4, <1>t DEF Run, Made, RunThrows, fields, Task, Ending
    <3> QED BY <2>1, <3>1 DEF ForwardInv, Ending
  <2>5. CASE Report(e)
    <3>1. /\ UNCHANGED <<lastLocation, told>> /\ task[e].pc = "check"
          /\ task'[e].pc # "report"
          /\ task'[e].pc = "set" => ~NotNewer(task[e].time) /\ task'[e].time = task[e].time
      <4>1. CASE NotNewer(task[e].time)
        <5>1. EndOfRun(e) /\ UNCHANGED <<lastLocation, told>> /\ task[e].pc = "check"
          BY <2>5, <4>1 DEF Report, fields
        <5>2. task'[e].pc \in {"waiting", "dead"}
          BY <5>1, <1>t DEF EndOfRun, Task
        <5> QED BY <5>1, <5>2
      <4>2. CASE ~NotNewer(task[e].time)
        BY <2>5, <4>2, <1>t DEF Report, fields, Task
      <4> QED BY <4>1, <4>2
    <3>2. ~NotNewer(task[e].time) => lastLocation = None \/ lastLocation < task[e].time
      <4>1. task[e].time \in Nat /\ lastLocation \in Nat \union {None}
        BY <1>t, <1>n DEF Task
      <4> QED BY <4>1 DEF NotNewer
    <3> QED BY <2>1, <3>1, <3>2 DEF ForwardInv
  <2>6. CASE SetLastLocation(e)
    <3>1. /\ task[e].pc = "set" /\ task'[e].pc = "report" /\ task'[e].time = task[e].time
          /\ lastLocation' = task[e].time /\ told' = told
      BY <2>6, <1>t DEF SetLastLocation, Task
    <3>2. \A f \in Executor : f # e => task[f].pc \notin Ending
      BY <2>3, <3>1, <2>6 DEF SetLastLocation, GetLocationFromProperties
    <3>3. told = lastLocation /\ (lastLocation = None \/ lastLocation < task[e].time)
      BY <3>1, <3>2 DEF ForwardInv, Ending
    <3> QED BY <2>1, <3>1, <3>2, <3>3 DEF ForwardInv, Ending
  <2>7. CASE ReportLocation(e)
    <3>1. /\ task[e].pc = "report" /\ task'[e].pc \notin Ending
          /\ lastLocation' = lastLocation /\ told' = task[e].time
      BY <2>7, <1>t DEF ReportLocation, EndOfRun, fields, Task, Ending
    <3>2. \A f \in Executor : f # e => task[f].pc \notin Ending
      BY <2>3, <3>1, <2>7 DEF ReportLocation, GetLocationFromProperties
    <3>3. lastLocation = task[e].time /\ (told = None \/ told < lastLocation)
      BY <3>1 DEF ForwardInv
    <3>4. task[e].time # None
      BY <1>t, <1>n DEF Task
    <3> QED BY <2>1, <3>1, <3>2, <3>3, <3>4 DEF ForwardInv, Ending
  <2> QED BY <1>2, <2>2, <2>4, <2>5, <2>6, <2>7 DEF RunStep
<1> QED BY <1>1, <1>2

(***************************************************************************)
(* As long as no run is under way when the next executor begins its own,   *)
(* the locations that are reported go forward in time, and between runs    *)
(* the manager has been told what the thread remembers.  Two runs that     *)
(* overlap can report an old location after a new one.                     *)
(***************************************************************************)
THEOREM TimeGoesForward ==
  Spec /\ []NoOverlap => ReportsGoForward /\ []ForwardInv
<1>1. Init => ForwardInv
  BY DEF Init, ForwardInv, NoTask
<1>2. IndInv /\ ForwardInv /\ NoOverlap /\ [Next]_vars => ForwardInv'
  BY ForwardNext
<1>3. IndInv /\ ForwardInv /\ NoOverlap /\ [Next]_vars
        => [told' # None /\ (told # None => told < told')]_told
  BY ForwardNext
<1> QED BY <1>1, <1>2, <1>3, Invariance, PTL DEF Spec, ReportsGoForward

=============================================================================

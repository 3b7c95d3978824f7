------------------------- MODULE LocationReporting -------------------------
(***************************************************************************)
(* The location provider of DigiServicesApp: DigiLocationProvider starts   *)
(* and stops a LocationThread, which runs on an executor of its own for    *)
(* every request; run() reads the system properties, makes a location and  *)
(* reports it.  An executor that is shut down lets a run that has begun go *)
(* on, beside those of the next executor.                                  *)
(***************************************************************************)
EXTENDS Naturals, FiniteSets

CONSTANTS
  Executor,   \* the executors (an executor that has ended is used again)
  Place,      \* the values of digi.location.default
  MaxTime,    \* bound: the clock of the device
  None

ASSUME LocationAssumption ==
  /\ Executor # {} /\ Place # {}
  /\ MaxTime \in Nat
  /\ None \notin Executor \union Place \union Nat

VARIABLES
  clock,         \* System.currentTimeMillis
  property,      \* digi.location.default and digi.location.mode.random
  randomMode, initLocation, lastLocation, executor,  \* the fields of LocationThread
  starting,      \* start() has made an executor and has not scheduled the task yet
  task,          \* per executor: the run, and whether and how it is scheduled
  told           \* the last location the location manager has been told

(* A location that is only compared by age, like lastLocation and told, is *)
(* represented by its time.                                                *)

fields == <<randomMode, initLocation, lastLocation>>
vars == <<clock, property, fields, executor, starting, task, told>>

Time == 0 .. MaxTime
NoTask == [pc |-> "dead", periodic |-> FALSE, shut |-> FALSE, time |-> 0, propLoc |-> None]

(* Inside run() *)
Running == {"compute", "check", "set", "report"}

TypeOK ==
  /\ clock \in Time
  /\ property \in [place : Place, random : BOOLEAN]
  /\ randomMode \in BOOLEAN
  /\ initLocation \in Place
  /\ lastLocation \in Time \union {None} /\ told \in Time \union {None}
  /\ executor \in Executor \union {None}
  /\ starting \in BOOLEAN
  /\ task \in [Executor -> [pc : Running \union {"dead", "new", "due", "waiting", "thrown"},
                            periodic : BOOLEAN, shut : BOOLEAN,
                            time : Time, propLoc : Place \union {None}]]

(* The constructor reads the properties. *)
Init ==
  /\ clock = 0
  /\ property \in [place : Place, random : BOOLEAN]
  /\ randomMode = property.random
  /\ initLocation = property.place
  /\ lastLocation = None /\ told = None
  /\ executor = None
  /\ starting = FALSE
  /\ task = [e \in Executor |-> NoTask]

-----------------------------------------------------------------------------
(* The environment: time passes, and setprop changes the properties. *)

Tick ==
  /\ clock < MaxTime
  /\ clock' = clock + 1
  /\ UNCHANGED <<property, fields, executor, starting, task, told>>

SetProperty ==
  /\ property' \in [place : Place, random : BOOLEAN] \ {property}
  /\ UNCHANGED <<clock, fields, executor, starting, task, told>>

-----------------------------------------------------------------------------
(***************************************************************************)
(* DigiLocationProvider, called by one thread at a time: onSetRequest      *)
(* starts or stops the thread, onDisable and destroy stop it.              *)
(***************************************************************************)

(* shutdownNow: what waits is dropped, what runs goes on *)
ShutDown(e, f) ==
  [f EXCEPT ![e].shut = TRUE, ![e].pc = IF @ \in Running THEN @ ELSE "dead"]

(* Mutant: stop() drops the executor without shutting it down. *)
StopForgets ==
  /\ ~starting
  /\ executor # None
  /\ executor' = None
  /\ UNCHANGED <<clock, property, fields, starting, task, told>>

Stop ==
  /\ ~starting
  /\ executor # None
  /\ task' = ShutDown(executor, task)
  /\ executor' = None
  /\ UNCHANGED <<clock, property, fields, starting, told>>

(* Bound: there are as many executors as the set has members. *)
Ended(e) == task[e].pc \in {"dead", "thrown"}

(* Mutant: start() does not look for an executor. *)
StartBeside(e) ==
  /\ ~starting
  /\ Ended(e)
  /\ task' = [task EXCEPT ![e] = [NoTask EXCEPT !.pc = "new"]]
  /\ executor' = e
  /\ starting' = TRUE
  /\ UNCHANGED <<clock, property, fields, told>>

Start(e) ==
  /\ ~starting
  /\ Ended(e)
  /\ LET others == IF executor = None THEN task ELSE ShutDown(executor, task) IN
       task' = [others EXCEPT ![e] = [NoTask EXCEPT !.pc = "new"]]
  /\ executor' = e
  /\ starting' = TRUE
  /\ UNCHANGED <<clock, property, fields, told>>

(* In random mode at a fixed rate, otherwise once *)
Schedule ==
  /\ starting
  /\ task' = [task EXCEPT ![executor] = [@ EXCEPT !.pc = "due", !.periodic = randomMode]]
  /\ starting' = FALSE
  /\ UNCHANGED <<clock, property, fields, executor, told>>

-----------------------------------------------------------------------------
(* The run on executor e *)

(* The next run of a periodic task is due. *)
Fire(e) ==
  /\ task[e].pc = "waiting"
  /\ task' = [task EXCEPT ![e].pc = "due"]
  /\ UNCHANGED <<clock, property, fields, executor, starting, told>>

GetLocationFromProperties(e) ==
  /\ task[e].pc = "due"
  /\ randomMode' = property.random
  /\ task' = [task EXCEPT ![e].pc = "compute",
                          ![e].time = clock, ![e].propLoc = property.place]
  /\ UNCHANGED <<clock, property, initLocation, lastLocation, executor, starting, told>>

Unchanged(e) == initLocation = task[e].propLoc
Made(e, time) ==
  task' = [task EXCEPT ![e] = [@ EXCEPT !.pc = "check", !.time = time, !.propLoc = None]]

(* The configured location, or in random mode, unless it is new, one near the last *)
Run(e) ==
  /\ task[e].pc = "compute"
  /\ \/ ~(randomMode /\ Unchanged(e)) /\ Made(e, task[e].time)
     \/ randomMode /\ Unchanged(e) /\ lastLocation # None /\ Made(e, clock)
  /\ initLocation' = IF randomMode THEN task[e].propLoc ELSE initLocation
  /\ UNCHANGED <<clock, property, randomMode, lastLocation, executor, starting, told>>

(* getRandomLocation(null, 500): the exception ends the task, periodic or not. *)
RunThrows(e) ==
  /\ task[e].pc = "compute"
  /\ randomMode /\ Unchanged(e) /\ lastLocation = None
  /\ task' = [task EXCEPT ![e] = [@ EXCEPT !.pc = "thrown", !.propLoc = None]]
  /\ UNCHANGED <<clock, property, fields, executor, starting, told>>

(* Mutant: every task runs once. *)
EndOfRunOnce(e) == task' = [task EXCEPT ![e] = [@ EXCEPT !.pc = "dead", !.time = 0]]

(* After a run: a periodic task waits for the next, unless it has been shut down *)
EndOfRun(e) ==
  task' = [task EXCEPT ![e] =
             [@ EXCEPT !.pc = IF task[e].periodic /\ ~task[e].shut THEN "waiting" ELSE "dead",
                       !.time = 0]]

(* Mutant: the location is compared with itself. *)
NotNewerThanSelf(time) == time <= time
NotNewer(time) == lastLocation # None /\ time <= lastLocation

Report(e) ==
  /\ task[e].pc = "check"
  /\ IF NotNewer(task[e].time) THEN EndOfRun(e)
     ELSE task' = [task EXCEPT ![e].pc = "set"]
  /\ UNCHANGED <<clock, property, fields, executor, starting, told>>

SetLastLocation(e) ==
  /\ task[e].pc = "set"
  /\ lastLocation' = task[e].time
  /\ task' = [task EXCEPT ![e].pc = "report"]
  /\ UNCHANGED <<clock, property, randomMode, initLocation, executor, starting, told>>

ReportLocation(e) ==
  /\ task[e].pc = "report"
  /\ told' = task[e].time
  /\ EndOfRun(e)
  /\ UNCHANGED <<clock, property, fields, executor, starting>>

-----------------------------------------------------------------------------
RunStep(e) ==
  \/ GetLocationFromProperties(e) \/ Run(e) \/ RunThrows(e)
  \/ Report(e) \/ SetLastLocation(e) \/ ReportLocation(e)

Next ==
  \/ Tick \/ SetProperty
  \/ Stop \/ Schedule
  \/ \E e \in Executor : Start(e) \/ Fire(e) \/ RunStep(e)

Spec == Init /\ [][Next]_vars

(***************************************************************************)
(* The threads are scheduled, and the period of a task passes.  Nobody has *)
(* to ask for locations or to change the properties.                       *)
(***************************************************************************)
FairSpec ==
  /\ Spec
  /\ WF_vars(Schedule)
  /\ \A e \in Executor : WF_vars(Fire(e) \/ RunStep(e))

-----------------------------------------------------------------------------
(***************************************************************************)
(* However start() and stop() follow each other and the runs, only the     *)
(* current executor has anything left to run: no task outlives the request *)
(* that it was scheduled for, except for a run that has begun.             *)
(***************************************************************************)
OneExecutor == \A e \in Executor : task[e].pc \in {"due", "waiting"} => e = executor

(* When nobody asks for locations any more, the reports end. *)
StopEndsReports ==
  <>[](executor = None) => <>[](\A e \in Executor : task[e].pc \in {"dead", "thrown"})

(***************************************************************************)
(* A request for locations is answered, in either mode, with a location    *)
(* that is no older than the request: the runs of an earlier executor that *)
(* store their location in between do not make report() drop it for good.  *)
(***************************************************************************)
NewerThanLast(t) == lastLocation # None => lastLocation < t
RequestAnswered ==
  \A e \in Executor, t \in 0 .. MaxTime :
    task[e].pc = "due" /\ clock = t /\ NewerThanLast(t)
      ~> \/ told # None /\ told >= t
         \/ task[e].shut
         \/ task[e].pc = "thrown"

(***************************************************************************)
(* In random mode locations are made again and again, until stop() or an   *)
(* exception in a run.                                                     *)
(***************************************************************************)
RandomGoesOn ==
  <>[](executor # None /\ task[executor].periodic /\ task[executor].pc # "thrown")
    => []<>(\E e \in Executor : task[e].pc = "check")

=============================================================================

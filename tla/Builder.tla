------------------------------- MODULE Builder -------------------------------
(***************************************************************************)
(* The BuilderModule (src/modules/builder.cpp) and its                     *)
(* WorkerBuilderControllers (src/modules/builderc.cpp), with the           *)
(* ControllerTasks (src/controller.cpp) that bind units to them.           *)
(*                                                                         *)
(* The build UPC gets a main task without units and a controller.  Every   *)
(* unit the controller takes (a builder, or a unit in the way) is bound by *)
(* a further task of the same controller; a task is named by its UPC id    *)
(* and a controller by the id of its main task.  The tasks of a controller *)
(* end together: a success or failure reaches all of them at an update,    *)
(* and a cancelled one makes the module cancel its siblings.               *)
(*                                                                         *)
(* One frame is State::update (trackers and Blackboard::update), the other *)
(* modules, and BuilderModule::step.  A controller's step is split into    *)
(* Check, Release, Find and Act; nothing runs between them.  Distances,    *)
(* resources and the map are nondeterministic.                             *)
(***************************************************************************)
EXTENDS Integers, FiniteSets

CONSTANTS
  Unit,            \* the player's workers and detectors
  Detector,        \* those that are detectors: they fly and do not build
  None,            \* no unit, no task
  Other,           \* stands for any task of another module
  MaxUpc,          \* bound: UPC ids, for builds and for the units they take
  MaxBuilds,       \* bound: builds
  UpdateInterval,  \* frames between two full steps of a controller (4)
  TrackerTimeout   \* updates before a pending tracker times out (more than 6)

ASSUME BuilderAssumption ==
  /\ MaxUpc \in Nat /\ MaxBuilds \in Nat
  /\ UpdateInterval \in Nat \ {0, 1} /\ TrackerTimeout \in Nat \ {0}
  /\ IsFiniteSet(Unit) /\ None \notin Unit /\ Detector \subseteq Unit

Ids == 1 .. MaxUpc

\* A build whose task was cancelled is over after more than this many updates.
EndsWithin == 1

VARIABLES
  posted,     \* the UPC ids 1..posted have been given out
  task,       \* the tasks: controller, status, units
  ctl,        \* the controllers, by the id of their main task
  onBoard,    \* tasksById_
  removal,    \* tasksToBeRemoved_
  byUnit,     \* tasksByUnit_
  dead,       \* units that have died
  phase,      \* what the frame does next
  tasks,      \* tasks: what BuilderModule::step found on the board
  stepped,    \* controllers it has stepped
  cur,        \* the controller being stepped
  way,        \* units it has still to move out of the way
  orphaned,   \* history: <<controller, unit>> released through movedUnits_
  age         \* history: updates since a task of the controller was cancelled

boardVars == <<posted, task, onBoard, removal, byUnit>>
loopVars == <<tasks, stepped>>
vars == <<posted, task, ctl, onBoard, removal, byUnit, dead, phase, tasks, stepped,
          cur, way, orphaned, age>>

NoTask == [ctl |-> 0, status |-> "Unknown", units |-> {}]

NewTask(c, units) == [ctl |-> c, status |-> "Ongoing", units |-> units]

\* tracker, status, tracked: the kind of tracker_, its status and its unit; wait:
\* updates it has been pending; since: frames since lastUpdate_, at most
\* UpdateInterval.
NewController(id) ==
  [upcId |-> id, units |-> [u \in Unit |-> 0], builder |-> None,
   detector |-> None, moved |-> {},
   succeeded |-> FALSE, failed |-> FALSE, tracker |-> "none",
   status |-> "NotTracking", tracked |-> None, wait |-> 0, since |-> UpdateInterval]

Builds == {c \in 1 .. posted : task[c].ctl = c}
TasksOf(c) == {i \in 1 .. posted : task[i].ctl = c}

Finished(t) == t.status \in {"Success", "Cancelled", "Failure"}

Init ==
  /\ posted = 0
  /\ task = [i \in Ids |-> NoTask]
  /\ ctl = [i \in Ids |-> NewController(0)]
  /\ onBoard = {}
  /\ removal = {}
  /\ byUnit = [u \in Unit |-> None]
  /\ dead = {}
  /\ phase = "update"
  /\ tasks = {}
  /\ stepped = {}
  /\ cur = 0
  /\ way = {}
  /\ orphaned = {}
  /\ age = [i \in Ids |-> 0]

-----------------------------------------------------------------------------
(* Controllers and units.                                                   *)

\* Mutant: the controller forgets the unit but keeps it as its builder.
RemovedKeep(k, S) ==
  [k EXCEPT !.units = [u \in Unit |-> IF <<u, @[u]>> \in S THEN 0 ELSE @[u]]]

\* isControllingUnitWith and WorkerBuilderController::removeUnit for the pairs
\* <<unit, task>> in S.
Removed(k, S) ==
  [k EXCEPT !.units = [u \in Unit |-> IF <<u, @[u]>> \in S THEN 0 ELSE @[u]],
            !.builder = IF @ # None /\ <<@, k.units[@]>> \in S THEN None ELSE @,
            !.detector = IF @ # None /\ <<@, k.units[@]>> \in S THEN None ELSE @]

\* Units the tasks in I hold, with the task.
Held(I) == {p \in Unit \X I : p[1] \in task[p[2]].units}

\* ControllerTask::cancel for the tasks in I.
CancelTasks(I) ==
  LET J == {i \in I : task[i].status = "Ongoing"}
  IN /\ ctl' = [c \in Ids |-> Removed(ctl[c], Held(J \cap TasksOf(c)))]
     /\ task' = [i \in Ids |-> IF i \in J
                               THEN [task[i] EXCEPT !.status = "Cancelled", !.units = {}]
                               ELSE task[i]]

\* grabUnit refuses when the newest task of the controller has ended.
CanGrab(c) == ctl[c].upcId \in onBoard /\ ~Finished(task[ctl[c].upcId])

\* grabUnit: a new task of the controller takes the unit from whoever has it; k
\* is the rest of the controller's new state.
Grab(c, u, k) ==
  IF CanGrab(c)
  THEN /\ posted' = posted + 1
       /\ task' = [task EXCEPT ![posted + 1] = NewTask(c, {u})]
       /\ onBoard' = onBoard \cup {posted + 1}
       /\ byUnit' = [byUnit EXCEPT ![u] = posted + 1]
       /\ ctl' = [ctl EXCEPT ![c] = [k EXCEPT !.upcId = posted + 1,
                                              !.units[u] = posted + 1]]
  ELSE /\ ctl' = [ctl EXCEPT ![c] = k]
       /\ UNCHANGED <<posted, task, onBoard, byUnit>>

\* releaseUnit for every unit of movedUnits_: it leaves whatever task of the
\* module has it; k is the rest of the controller's new state.
ReleaseMoved(c, k) ==
  LET M == ctl[c].moved
      ours == {u \in M : byUnit[u] \in Ids}
      from(u) == task[byUnit[u]].ctl
  IN /\ ctl' = [ctl EXCEPT ![c] =
                  [k EXCEPT !.moved = {},
                            !.units = [u \in Unit |->
                               IF u \in M /\ (u \in ours => @[u] = byUnit[u])
                               THEN 0 ELSE @[u]]]]
     /\ task' = [i \in Ids |->
                  [task[i] EXCEPT !.units = {u \in @ : u \notin ours \/ byUnit[u] # i}]]
     /\ byUnit' = [u \in Unit |-> IF u \in ours THEN None ELSE byUnit[u]]
     /\ orphaned' = orphaned \cup {<<from(u), u>> : u \in ours}
                             \cup {<<c, u>> : u \in M \cap {ctl[c].builder}}

-----------------------------------------------------------------------------
(* State::update: units die, trackers are updated, then the blackboard.     *)

\* The states Tracker::update may leave the tracker of k in, when the units in D
\* are dead.  A drone that dies may have become the building.
TrackerStates(k, D) ==
  LET to(status, wait) == [k EXCEPT !.status = status, !.wait = wait]
  IN IF k.tracker = "none" \/ k.status \notin {"Pending", "Ongoing"} THEN {k}
     ELSE IF k.tracker = "move" /\ k.tracked \in D THEN {to("Failure", 0)}
     ELSE IF k.status = "Pending"
     THEN {to("Ongoing", 0)}
          \cup (IF k.tracked \in D THEN {to("Failure", 0)} ELSE {})
          \cup (IF k.wait < TrackerTimeout THEN {to("Pending", k.wait + 1)}
                ELSE {k, to("Timeout", 0)})
     ELSE {k, to("Success", 0),
           IF k.tracker = "move" THEN to("Pending", 0) ELSE to("Failure", 0)}

\* One more frame since the last full step.
Aged(k) == [k EXCEPT !.since = IF @ < UpdateInterval THEN @ + 1 ELSE @]

\* ControllerTask::update drops the units that died or that another task has.
Lost(i, D) == {u \in task[i].units : u \in D \/ byUnit[u] # i}

TaskUpdated(i, D) ==
  IF task[i].status # "Ongoing" THEN task[i]
  ELSE [task[i] EXCEPT
          !.units = @ \ Lost(i, D),
          !.status = IF ctl[task[i].ctl].succeeded THEN "Success"
                     ELSE IF ctl[task[i].ctl].failed THEN "Failure" ELSE @]

\* The board drops the tasks scheduled at the last update, with the last one the
\* controller, and maps each unit to the task that still holds it.
BoardUpdate(D, k) ==
  LET board == onBoard \ removal
      ongoing(c) == {i \in board \cap TasksOf(c) : task[i].status = "Ongoing"}
      lost(c) == {p \in Unit \X ongoing(c) : p[1] \in Lost(p[2], dead \cup D)}
      cancelled(c) == \E i \in TasksOf(c) : task[i].status = "Cancelled"
  IN /\ phase = "update"
     /\ \A c \in Builds : k[c] \in TrackerStates(ctl[c], dead \cup D)
     /\ dead' = dead \cup D
     /\ ctl' = [c \in Ids |-> IF board \cap TasksOf(c) = {} THEN NewController(0)
                              ELSE Removed(Aged(k[c]), lost(c))]
     /\ task' = [i \in Ids |-> IF i \in board THEN TaskUpdated(i, dead')
                               ELSE task[i]]
     /\ onBoard' = board
     /\ removal' = {i \in board : Finished(task'[i])}
     /\ byUnit' = [u \in Unit |->
          IF u \in dead' THEN None
          ELSE IF byUnit[u] \in Ids /\ (byUnit[u] \notin board \/ u \notin task'[byUnit[u]].units)
               THEN None ELSE byUnit[u]]
     /\ age' = [c \in Ids |-> IF c \in Builds /\ cancelled(c) /\ age[c] <= EndsWithin + Cardinality(Unit)
                              THEN age[c] + 1 ELSE age[c]]
     /\ phase' = "others"
     /\ UNCHANGED <<posted, loopVars, cur, way, orphaned>>

-----------------------------------------------------------------------------
(* The other modules.                                                       *)

\* The placer cancels the task it proxies.
CancelBuild(c) ==
  /\ phase = "others"
  /\ c \in Builds \cap onBoard
  /\ task[c].status = "Ongoing"
  /\ CancelTasks({c})
  /\ UNCHANGED <<posted, onBoard, removal, byUnit, dead, phase, loopVars, cur, way,
                 orphaned, age>>

\* Another module posts a task with the unit, or its task lets the unit go.
OtherTask(u, t) ==
  /\ phase = "others"
  /\ u \notin dead
  /\ t = Other \/ (t = None /\ byUnit[u] = Other)
  /\ byUnit' = [byUnit EXCEPT ![u] = t]
  /\ UNCHANGED <<posted, task, ctl, onBoard, removal, dead, phase, loopVars, cur, way,
                 orphaned, age>>

-----------------------------------------------------------------------------
(* BuilderModule::step.                                                     *)

\* New build UPCs get a controller and a main task; then the tasks are listed.
Begin(new) ==
  /\ phase = "others"
  /\ posted + new <= MaxUpc
  /\ Cardinality(Builds) + new <= MaxBuilds
  /\ posted' = posted + new
  /\ task' = [i \in Ids |-> IF i \in posted + 1 .. posted + new THEN NewTask(i, {})
                            ELSE task[i]]
  /\ ctl' = [i \in Ids |-> IF i \in posted + 1 .. posted + new THEN NewController(i)
                           ELSE ctl[i]]
  /\ onBoard' = onBoard \cup (posted + 1 .. posted + new)
  /\ tasks' = onBoard'
  /\ phase' = "builder"
  /\ UNCHANGED <<removal, byUnit, dead, stepped, cur, way, orphaned, age>>

Listed == {task[i].ctl : i \in tasks}

\* step() of a controller that was not stepped yet: nothing, when it is done or
\* its newest task was cancelled.
StartStep(c) ==
  LET k == ctl[c]
      over == k.succeeded \/ k.failed \/
              (k.upcId \in onBoard /\ task[k.upcId].status = "Cancelled")
  IN /\ phase = "builder"
     /\ c \in Listed \ stepped
     /\ stepped' = stepped \cup {c}
     /\ cur' = c
     /\ phase' = IF over THEN "builder" ELSE "check"
     /\ UNCHANGED <<boardVars, ctl, dead, tasks, way, orphaned, age>>

Continue(k, next) ==
  /\ ctl' = [ctl EXCEPT ![cur] = k]
  /\ phase' = next
  /\ UNCHANGED <<boardVars, dead, loopVars, cur, way, orphaned, age>>

\* The location is checked every 11 frames until the building is started.
LocationInvalid ==
  /\ phase = "check"
  /\ ctl[cur].tracker # "build"
  /\ Continue([ctl[cur] EXCEPT !.failed = TRUE], "builder")

NoTracker(k) == [k EXCEPT !.tracker = "none", !.status = "NotTracking",
                          !.tracked = None, !.wait = 0]

\* lastUpdate_ = 0.
Due(k) == [k EXCEPT !.since = UpdateInterval]

CheckTracker ==
  LET k == ctl[cur]
  IN /\ phase = "check"
     /\ \/ /\ k.tracker = "move" /\ k.status = "Success"
           /\ Continue(Due(NoTracker(k)), "release")
        \/ /\ k.tracker = "move" /\ k.status \in {"Timeout", "Failure"}
           /\ Continue(NoTracker(k), "release")
        \/ /\ k.tracker = "build" /\ k.status = "Success"
           /\ Continue([k EXCEPT !.succeeded = TRUE], "builder")
        \/ /\ k.tracker = "build" /\ k.status \in {"Timeout", "Failure"}
           /\ \/ Continue(Due(NoTracker(k)), "release")
              \/ Continue([NoTracker(k) EXCEPT !.failed = TRUE], "builder")
        \/ /\ k.tracker = "none" \/ k.status \in {"Pending", "Ongoing"}
           /\ Continue(k, "release")

\* The end of a step, when less than UpdateInterval frames have passed.
Throttled(k) == k.since < UpdateInterval

Throttle(k) == IF Throttled(k) THEN k ELSE [k EXCEPT !.since = 0]

\* Units moved out of the way are given back after 30 frames.
Release(give) ==
  /\ phase = "release"
  /\ IF give
     THEN ctl[cur].moved # {} /\ ReleaseMoved(cur, Throttle(ctl[cur]))
     ELSE /\ ctl' = [ctl EXCEPT ![cur] = Throttle(@)]
          /\ UNCHANGED <<task, byUnit, orphaned>>
  /\ phase' = IF Throttled(ctl[cur]) THEN "builder" ELSE "find"
  /\ UNCHANGED <<posted, onBoard, removal, dead, loopVars, cur, way, age>>

\* findBuilder: a worker that no task of the module has.
Find(u) ==
  /\ phase = "find"
  /\ ctl[cur].builder = None
  /\ ctl[cur].tracker # "build"
  /\ u \in Unit \ (Detector \cup dead)
  /\ byUnit[u] \notin Ids
  /\ posted < MaxUpc
  /\ Grab(cur, u, [ctl[cur] EXCEPT !.builder = u])
  /\ phase' = "act"
  /\ UNCHANGED <<removal, dead, loopVars, cur, way, orphaned, age>>

\* The controller has a builder, or finds none.
NoFind ==
  /\ phase = "find"
  /\ Continue(ctl[cur], "act")

\* A free detector goes with the builder.
FindDetector(u) ==
  /\ phase = "act"
  /\ ctl[cur].builder # None
  /\ ctl[cur].detector = None
  /\ u \in Detector \ dead
  /\ byUnit[u] = None
  /\ posted < MaxUpc
  /\ Grab(cur, u, [ctl[cur] EXCEPT !.detector = u])
  /\ UNCHANGED <<removal, dead, phase, loopVars, cur, way, orphaned, age>>

\* Nothing to do now: no builder, on its way, or not enough resources.
Idle ==
  /\ phase = "act"
  /\ Continue(ctl[cur], "builder")

Track(k, kind) ==
  [k EXCEPT !.tracker = kind, !.status = "Pending", !.wait = 0, !.tracked = k.builder]

\* The builder is far from the location.
MoveBuilder ==
  /\ phase = "act"
  /\ ctl[cur].builder # None
  /\ ctl[cur].tracker = "none"
  /\ Continue(Track(ctl[cur], "move"), "builder")

\* The builder is there; the units in W are in the way.
AtLocation(W) ==
  /\ phase = "act"
  /\ ctl[cur].builder # None
  /\ ctl[cur].tracker = "none"
  /\ W \subseteq Unit \ (Detector \cup dead \cup {ctl[cur].builder})
  /\ posted + Cardinality(W) <= MaxUpc
  /\ way' = W
  /\ phase' = "clear"
  /\ UNCHANGED <<boardVars, ctl, dead, loopVars, cur, orphaned, age>>

MoveAway(u) ==
  /\ phase = "clear"
  /\ u \in way
  /\ Grab(cur, u, [ctl[cur] EXCEPT !.moved = @ \cup {u}])
  /\ way' = way \ {u}
  /\ UNCHANGED <<removal, dead, phase, loopVars, cur, orphaned, age>>

\* A unit that cannot be moved is attacked first.
KillBlocking ==
  /\ phase = "clear"
  /\ way = {}
  /\ ReleaseMoved(cur, ctl[cur])
  /\ phase' = "builder"
  /\ UNCHANGED <<posted, onBoard, removal, dead, loopVars, cur, way, age>>

StartBuilding ==
  /\ phase = "clear"
  /\ way = {}
  /\ Continue(Track(ctl[cur], "build"), "builder")

\* Mutant: siblings of a finished task are left alone.
SiblingsNone(c) == {}

\* The listed tasks of c that are cancelled because one of them is finished.
Siblings(c) ==
  LET own == tasks \cap TasksOf(c)
  IN IF \E i \in own : Finished(task[i]) THEN own ELSE {}

\* The loop cancels them when it comes to the finished task.  Steps of other
\* controllers in between only matter for units released through movedUnits_.
EndLoop ==
  /\ phase = "builder"
  /\ Listed \subseteq stepped
  /\ CancelTasks(UNION {Siblings(c) : c \in Listed})
  /\ phase' = "update"
  /\ tasks' = {}
  /\ stepped' = {}
  /\ cur' = 0
  /\ UNCHANGED <<posted, onBoard, removal, byUnit, dead, way, orphaned, age>>

Update ==
  \E D \in SUBSET (Unit \ dead) :
    \E k \in [Builds -> UNION {TrackerStates(ctl[c], dead \cup D) : c \in Builds}] :
      BoardUpdate(D, k)

Others ==
  \/ \E c \in Ids : CancelBuild(c)
  \/ \E u \in Unit, t \in {None, Other} : OtherTask(u, t)

Step ==
  \/ LocationInvalid \/ CheckTracker
  \/ \E give \in BOOLEAN : Release(give)
  \/ NoFind \/ \E u \in Unit : Find(u)
  \/ (\E u \in Unit : FindDetector(u))
  \/ Idle \/ MoveBuilder \/ \E W \in SUBSET Unit : AtLocation(W)
  \/ (\E u \in Unit : MoveAway(u)) \/ KillBlocking \/ StartBuilding

Loop ==
  \/ \E new \in 0 .. MaxBuilds : Begin(new)
  \/ \E c \in Ids : StartStep(c)
  \/ EndLoop

Next == Update \/ Others \/ Step \/ Loop

Spec == Init /\ [][Next]_vars

-----------------------------------------------------------------------------
(* Properties.                                                              *)

\* The types; the tables of the board hold ids that were given out.
TypeOK ==
  /\ posted \in 0 .. MaxUpc
  /\ \A i \in Ids : task[i].units \subseteq Unit /\ task[i].ctl \in 0 .. posted
  /\ \A i \in Ids : ctl[i].upcId \in 0 .. posted /\ ctl[i].since \in 0 .. UpdateInterval
  /\ onBoard \subseteq 1 .. posted
  /\ removal \subseteq onBoard
  /\ byUnit \in [Unit -> onBoard \cup {None, Other}]
  /\ stepped \subseteq Listed

\* Once a task of a build was cancelled, the build ends: after more than EndsWithin
\* updates no task of it is ongoing, although the controller may still take units in
\* between.  Every worker that dies meanwhile can make it take one more.  Except for
\* a controller that released a unit through movedUnits_: that unit may still be its
\* builder_, may die as such without being removed, and lets the controller go on.
CancelledBuildEnds ==
  phase = "update" =>
    \A c \in Builds :
      /\ age[c] > EndsWithin + Cardinality(dead)
      /\ \A u \in Unit : <<c, u>> \notin orphaned
      => \A i \in TasksOf(c) : Finished(task[i])

\* After an update a controller whose newest task is ongoing commands only units
\* that the blackboard gives to its own tasks: builder_, detector_ and units_ are
\* never out of date, except for a unit that was released through movedUnits_.
OwnUnits ==
  \A c \in Builds, u \in Unit :
    /\ ctl[c].upcId \in onBoard /\ task[ctl[c].upcId].status = "Ongoing"
    /\ u \in {ctl[c].builder, ctl[c].detector} \/ ctl[c].units[u] # 0
    => byUnit[u] \in TasksOf(c) \/ <<c, u>> \in orphaned

CommandsOwnUnits == [][phase = "update" => OwnUnits']_vars

=============================================================================

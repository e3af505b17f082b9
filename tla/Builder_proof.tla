---------------------------- MODULE Builder_proof ----------------------------
(***************************************************************************)
(* Proofs about Builder, for any number of units, builds and UPCs, every   *)
(* time-out of the trackers and every update interval of at least two      *)
(* frames.                                                                 *)
(***************************************************************************)
EXTENDS Builder, FiniteSetTheorems, TLAPS

-----------------------------------------------------------------------------
(* What the controllers know of their units.                                *)

\* The statuses of tasks and trackers.
TaskStatus == {"Unknown", "Ongoing", "Success", "Failure", "Cancelled"}

TrackerStatus == {"NotTracking", "Pending", "Ongoing", "Success", "Timeout", "Failure"}

\* The tasks and the controllers, as records.
Tasks == [ctl : 0 .. MaxUpc, status : TaskStatus, units : SUBSET Unit]

Controllers ==
  [upcId : 0 .. MaxUpc, units : [Unit -> 0 .. MaxUpc], builder : Unit \cup {None},
   detector : Unit \cup {None}, moved : SUBSET Unit, succeeded : BOOLEAN,
   failed : BOOLEAN, tracker : {"none", "move", "build"},
   status : TrackerStatus,
   tracked : Unit \cup {None}, wait : Nat, since : 0 .. UpdateInterval]

\* The parts of a controller's step.
StepPhases == {"check", "release", "find", "act", "clear"}

\* The types, and the ids that the tables of the board hold.
Types ==
  /\ posted \in 0 .. MaxUpc
  /\ task \in [Ids -> Tasks]
  /\ ctl \in [Ids -> Controllers]
  /\ onBoard \subseteq 1 .. posted
  /\ removal \subseteq onBoard
  /\ tasks \subseteq onBoard
  /\ byUnit \in [Unit -> onBoard \cup {None, Other}]
  /\ dead \subseteq Unit
  /\ age \in [Ids -> Nat]

\* A task that was given out belongs to a build; an ongoing one is on the board
\* and holds no dead units.
TaskOK(i) ==
  /\ i <= posted => task[i].ctl \in Builds /\ task[i].status # "Unknown"
  /\ i > posted => task[i] = NoTask
  /\ task[i].status = "Ongoing" => i \in onBoard /\ task[i].units \cap dead = {}
  /\ i \in removal => Finished(task[i])

\* The newest task of controller c has ended, so that c takes no more units.
Over(c) == ~(ctl[c].upcId \in onBoard /\ task[ctl[c].upcId].status = "Ongoing")

\* An ongoing task of c has unit u, and c knows it.
Holds(c, u) ==
  /\ ctl[c].units[u] \in Ids
  /\ task[ctl[c].units[u]].ctl = c
  /\ task[ctl[c].units[u]].status = "Ongoing"
  /\ u \in task[ctl[c].units[u]].units

\* c regards u as its own.
Commands(c, u) ==
  ctl[c].units[u] # 0 \/ u = ctl[c].builder \/ u = ctl[c].detector

\* What c commands is held by its tasks, unless it was released through movedUnits_.
ControllerOK(c) ==
  /\ ctl[c].upcId # 0 => task[ctl[c].upcId].ctl = c
  /\ ctl[c].detector # None => ctl[c].detector \in Detector
  /\ ctl[c].moved \cap Detector = {}
  /\ \A u \in Unit : Commands(c, u) => Over(c) \/ <<c, u>> \in orphaned \/ Holds(c, u)

\* The loop of BuilderModule::step.
LoopOK ==
  /\ way \subseteq Unit \ (Detector \cup dead)
  /\ IF phase = "clear" THEN posted + Cardinality(way) <= MaxUpc ELSE way = {}
  /\ phase \in {"update", "others"} => tasks = {} /\ stepped = {}
  /\ phase \in StepPhases => cur \in stepped
  /\ stepped \subseteq Builds

\* The inductive invariant about tasks, controllers and units.
UInv ==
  /\ Types
  /\ LoopOK
  /\ \A i \in Ids : TaskOK(i)
  /\ \A c \in Ids : ControllerOK(c)

-----------------------------------------------------------------------------
(* Records.                                                                 *)

\* The fields of a task have their types.
LEMMA TaskFields ==
  ASSUME NEW t \in Tasks
  PROVE  t.ctl \in 0 .. MaxUpc /\ t.status \in TaskStatus /\ t.units \in SUBSET Unit
BY Zenon DEF Tasks

\* The tasks the module posts are well typed, ongoing and hold the given units.
LEMMA NewTasks ==
  /\ NoTask \in Tasks
  /\ \A c \in 0 .. MaxUpc, S \in SUBSET Unit :
       /\ NewTask(c, S) \in Tasks
       /\ NewTask(c, S).ctl = c /\ NewTask(c, S).status = "Ongoing" /\ NewTask(c, S).units = S
<1>1. 0 \in 0 .. MaxUpc
  BY BuilderAssumption
<1>2. QED
  BY Zenon, <1>1 DEF NoTask, NewTask, Tasks, TaskStatus

\* The fields of a controller have their types.
LEMMA Fields ==
  ASSUME NEW k \in Controllers
  PROVE  /\ k.upcId \in 0 .. MaxUpc
         /\ k.units \in [Unit -> 0 .. MaxUpc]
         /\ k.builder \in Unit \cup {None}
         /\ k.detector \in Unit \cup {None}
         /\ k.moved \in SUBSET Unit
         /\ k.since \in 0 .. UpdateInterval
         /\ k.wait \in Nat
         /\ k.status \in TrackerStatus
         /\ k.tracked \in Unit \cup {None}
         /\ k.tracker \in {"none", "move", "build"}
BY Zenon DEF Controllers

\* A change of a controller that does not concern its units.
SameUnits(k, m) ==
  /\ m.upcId = k.upcId /\ m.units = k.units /\ m.moved = k.moved
  /\ m.builder = k.builder /\ m.detector = k.detector

\* A change that does not concern its tracker and its timing.
SameTracker(k, m) ==
  /\ m.tracker = k.tracker /\ m.status = k.status /\ m.tracked = k.tracked
  /\ m.wait = k.wait /\ m.since = k.since

\* A controller that succeeds or fails keeps its units.
LEMMA Ended ==
  ASSUME NEW k \in Controllers
  PROVE  /\ [k EXCEPT !.failed = TRUE] \in Controllers
         /\ SameUnits(k, [k EXCEPT !.failed = TRUE])
         /\ [k EXCEPT !.succeeded = TRUE] \in Controllers
         /\ SameUnits(k, [k EXCEPT !.succeeded = TRUE])
BY Zenon DEF Controllers, SameUnits

\* Dropping the tracker keeps the units and the timing.
LEMMA Untracked ==
  ASSUME NEW k \in Controllers
  PROVE  /\ NoTracker(k) \in Controllers /\ SameUnits(k, NoTracker(k))
         /\ NoTracker(k).tracker = "none" /\ NoTracker(k).since = k.since
<1>1. 0 \in Nat
  BY Zenon
<1>2. QED
  BY Zenon, <1>1 DEF NoTracker, Controllers, TrackerStatus, SameUnits

\* A new tracker is pending on the builder; units and timing are kept.
LEMMA Tracking ==
  ASSUME NEW k \in Controllers, NEW kind \in {"move", "build"}
  PROVE  /\ Track(k, kind) \in Controllers /\ SameUnits(k, Track(k, kind))
         /\ Track(k, kind).since = k.since
         /\ Track(k, kind).status = "Pending" /\ Track(k, kind).wait = 0
         /\ Track(k, kind).tracked = k.builder
<1>1. 0 \in Nat
  BY Zenon
<1>2. QED
  BY Zenon, <1>1 DEF Track, Controllers, TrackerStatus, SameUnits

\* A new controller commands no unit.
LEMMA NewControllers ==
  ASSUME NEW c \in 0 .. MaxUpc
  PROVE  /\ NewController(c) \in Controllers
         /\ NewController(c).upcId = c /\ NewController(c).moved = {}
         /\ NewController(c).builder = None /\ NewController(c).detector = None
         /\ \A u \in Unit : NewController(c).units[u] = 0
<1>1. 0 \in Nat /\ 0 \in 0 .. MaxUpc /\ UpdateInterval \in 0 .. UpdateInterval
  BY BuilderAssumption
<1>2. QED
  BY Zenon, <1>1 DEF NewController, Controllers, TrackerStatus

\* removeUnit.
LEMMA Removal ==
  ASSUME NEW k \in Controllers, NEW S
  PROVE  /\ Removed(k, S) \in Controllers /\ SameTracker(k, Removed(k, S))
         /\ Removed(k, S).upcId = k.upcId /\ Removed(k, S).moved = k.moved
         /\ \A u \in Unit : Removed(k, S).units[u] =
              IF <<u, k.units[u]>> \in S THEN 0 ELSE k.units[u]
         /\ Removed(k, S).builder =
              IF k.builder # None /\ <<k.builder, k.units[k.builder]>> \in S
              THEN None ELSE k.builder
         /\ Removed(k, S).detector =
              IF k.detector # None /\ <<k.detector, k.units[k.detector]>> \in S
              THEN None ELSE k.detector
<1>1. 0 \in 0 .. MaxUpc
  BY BuilderAssumption
<1>2. PICK f, b, d :
        /\ f = [u \in Unit |-> IF <<u, k.units[u]>> \in S THEN 0 ELSE k.units[u]]
        /\ b = IF k.builder # None /\ <<k.builder, k.units[k.builder]>> \in S
                THEN None ELSE k.builder
        /\ d = IF k.detector # None /\ <<k.detector, k.units[k.detector]>> \in S
                THEN None ELSE k.detector
  BY Zenon
<1>3. f \in [Unit -> 0 .. MaxUpc] /\ b \in Unit \cup {None} /\ d \in Unit \cup {None}
  BY Zenon, <1>1, <1>2, Fields
<1>4. PICK m : m = [k EXCEPT !.units = f, !.builder = b, !.detector = d]
  BY Zenon
<1>5. /\ m \in Controllers /\ SameTracker(k, m) /\ m.upcId = k.upcId /\ m.moved = k.moved
      /\ m.units = f /\ m.builder = b /\ m.detector = d
  BY Zenon, <1>3, <1>4 DEF Controllers, SameTracker
<1>6. Removed(k, S) = m
  BY Zenon, <1>2, <1>4 DEF Removed
<1>7. QED
  BY Zenon, <1>2, <1>5, <1>6

\* A tracker that was just started neither succeeds nor times out at the next
\* update, and fails only if its unit is dead.
LEMMA TrackerMoves ==
  ASSUME NEW k \in Controllers, NEW D, NEW m \in TrackerStates(k, D)
  PROVE  /\ m \in Controllers /\ SameUnits(k, m)
         /\ m.since = k.since /\ m.tracker = k.tracker
         /\ k.tracker = "none" => m = k
         /\ k.tracker = "build" /\ k.status = "Pending" /\ k.wait = 0 =>
              m.status \in {"Ongoing", "Pending"} \/ (m.status = "Failure" /\ k.tracked \in D)
         /\ k.tracker = "move" /\ k.status = "Pending" /\ k.wait = 0 =>
              m.status \in {"Ongoing", "Pending", "Failure"}
<1>1. 0 \in Nat /\ k.wait + 1 \in Nat /\ (k.wait = 0 => k.wait < TrackerTimeout)
  BY Fields, BuilderAssumption
<1>2. \/ m = k /\ ~(k.tracker # "none" /\ k.status = "Pending" /\ k.wait = 0)
      \/ /\ k.tracker # "none"
         /\ \E s \in TrackerStatus,
               w \in {0, k.wait + 1} :
              /\ m = [k EXCEPT !.status = s, !.wait = w]
              /\ k.status = "Pending" /\ k.wait = 0 =>
                   s \in {"Ongoing", "Pending"} \/ (s = "Failure" /\ k.tracked \in D)
  <2>1. CASE k.tracker = "none" \/ k.status \notin {"Pending", "Ongoing"}
    <3>1. m = k
      BY Zenon, <2>1 DEF TrackerStates
    <3>2. QED
      BY Zenon, <2>1, <3>1 DEF TrackerStatus
  <2>2. CASE /\ ~(k.tracker = "none" \/ k.status \notin {"Pending", "Ongoing"})
             /\ k.tracker = "move" /\ k.tracked \in D
    <3>1. m = [k EXCEPT !.status = "Failure", !.wait = 0]
      BY Zenon, <2>2 DEF TrackerStates
    <3>2. QED
      BY Zenon, <2>2, <3>1 DEF TrackerStatus
  <2>3. CASE /\ k.tracker # "none" /\ k.status = "Pending"
             /\ ~(k.tracker = "move" /\ k.tracked \in D)
    <3>1. m \in {[k EXCEPT !.status = "Ongoing", !.wait = 0]}
             \cup (IF k.tracked \in D THEN {[k EXCEPT !.status = "Failure", !.wait = 0]} ELSE {})
             \cup (IF k.wait < TrackerTimeout
                   THEN {[k EXCEPT !.status = "Pending", !.wait = k.wait + 1]}
                   ELSE {k, [k EXCEPT !.status = "Timeout", !.wait = 0]})
      BY Zenon, <2>3 DEF TrackerStates
    <3>2. QED
      BY Zenon, <1>1, <2>3, <3>1 DEF TrackerStatus
  <2>4. CASE /\ k.tracker # "none" /\ k.status = "Ongoing"
             /\ ~(k.tracker = "move" /\ k.tracked \in D)
    <3>1. m \in {k, [k EXCEPT !.status = "Success", !.wait = 0],
                  IF k.tracker = "move" THEN [k EXCEPT !.status = "Pending", !.wait = 0]
                  ELSE [k EXCEPT !.status = "Failure", !.wait = 0]}
      BY Zenon, <2>4 DEF TrackerStates
    <3>2. QED
      BY Zenon, <2>4, <3>1 DEF TrackerStatus
  <2>5. QED
    BY Zenon, <2>1, <2>2, <2>3, <2>4
<1>3. CASE m = k /\ ~(k.tracker # "none" /\ k.status = "Pending" /\ k.wait = 0)
  BY Zenon, <1>3 DEF SameUnits
<1>4. ASSUME NEW s \in TrackerStatus,
             NEW w \in {0, k.wait + 1}, m = [k EXCEPT !.status = s, !.wait = w],
             k.tracker # "none",
             k.status = "Pending" /\ k.wait = 0 =>
               s \in {"Ongoing", "Pending"} \/ (s = "Failure" /\ k.tracked \in D)
      PROVE  /\ m \in Controllers /\ SameUnits(k, m)
             /\ m.since = k.since /\ m.tracker = k.tracker
             /\ k.status = "Pending" /\ k.wait = 0 =>
                  m.status \in {"Ongoing", "Pending"} \/ (m.status = "Failure" /\ k.tracked \in D)
  <2>1. w \in Nat
    BY Zenon, <1>1
  <2>2. /\ m \in Controllers /\ SameUnits(k, m)
        /\ m.since = k.since /\ m.tracker = k.tracker /\ m.status = s
    BY Zenon, <2>1, <1>4 DEF Controllers, SameUnits
  <2>3. QED
    BY Zenon, <2>2, <1>4
<1>5. QED
  BY Zenon, <1>2, <1>3, <1>4

-----------------------------------------------------------------------------
(* The state.                                                               *)

\* Ids that were given out are between 1 and MaxUpc, as are those in
\* the tables of the board.
LEMMA IdFacts ==
  ASSUME Types
  PROVE  /\ posted \in Nat /\ posted <= MaxUpc /\ 0 \notin Ids /\ Ids \subseteq 0 .. MaxUpc
         /\ 1 .. posted \subseteq Ids
         /\ \A i \in Ids : i \in 1 .. posted <=> i <= posted
         /\ \A i \in Ids : i <= posted \/ i > posted
         /\ onBoard \subseteq Ids /\ removal \subseteq Ids /\ tasks \subseteq Ids
BY BuilderAssumption DEF Types, Ids

\* The builds and their tasks among all ids.
LEMMA Given ==
  ASSUME Types, \A i \in Ids : TaskOK(i)
  PROVE  /\ \A c \in Ids : c \in Builds <=> task[c].ctl = c
         /\ \A c, i \in Ids : i \in TasksOf(c) <=> task[i].ctl = c
         /\ \A c \in Ids : \A i \in TasksOf(c) : i \in Ids /\ i <= posted
         /\ Builds \subseteq Ids
<1>1. \A i \in Ids : i > posted => task[i].ctl = 0
  BY DEF TaskOK, NoTask
<1>2. QED
  BY Zenon, <1>1, IdFacts DEF Builds, TasksOf

\* A controller whose units stay as they are keeps its part of the invariant if
\* its tasks keep what they hold, or it is over.
LEMMA KeepController ==
  ASSUME NEW c \in Ids, ControllerOK(c), SameUnits(ctl[c], ctl'[c]),
         ctl[c].upcId # 0 => task'[ctl[c].upcId].ctl = c,
         Over(c) => Over(c)',
         \A u \in Unit : <<c, u>> \in orphaned => <<c, u>> \in orphaned',
         \A u \in Unit : Holds(c, u) => Over(c)' \/ <<c, u>> \in orphaned' \/ Holds(c, u)'
  PROVE  ControllerOK(c)'
BY Zenon DEF ControllerOK, SameUnits, Commands

\* A step that leaves controller d and its tasks alone.
LEMMA Untouched ==
  ASSUME NEW d \in Ids, ControllerOK(d), ctl'[d] = ctl[d], ctl[d].upcId \in 0 .. MaxUpc,
         \A i \in Ids : task[i].ctl = d => task'[i] = task[i] /\ (i \in onBoard' => i \in onBoard),
         onBoard' \subseteq Ids,
         \A u \in Unit : <<d, u>> \in orphaned => <<d, u>> \in orphaned'
  PROVE  ControllerOK(d)'
<1>1. 0 \notin Ids /\ (ctl[d].upcId # 0 => ctl[d].upcId \in Ids)
  BY DEF Ids
<1>2. ctl[d].upcId # 0 => task[ctl[d].upcId].ctl = d
  BY Zenon DEF ControllerOK
<1>3. \/ ctl[d].upcId = 0 /\ 0 \notin onBoard'
      \/ /\ ctl[d].upcId # 0 /\ task'[ctl[d].upcId] = task[ctl[d].upcId]
         /\ ctl[d].upcId \in onBoard' => ctl[d].upcId \in onBoard
  BY Zenon, <1>1, <1>2
<1>4. Over(d) => Over(d)'
  BY Zenon, <1>3 DEF Over
<1>5. ctl[d].upcId # 0 => task'[ctl[d].upcId].ctl = d
  BY Zenon, <1>2, <1>3
<1>6. \A u \in Unit : Holds(d, u) => Holds(d, u)'
  BY Zenon DEF Holds
<1>7. SameUnits(ctl[d], ctl'[d])
  BY Zenon DEF SameUnits
<1>8. QED
  BY Zenon, <1>4, <1>5, <1>6, <1>7, KeepController

\* A step that leaves the tasks alone, and what the controllers know of units.
LEMMA QuietStep ==
  ASSUME UInv, LoopOK', ctl' \in [Ids -> Controllers],
         byUnit' \in [Unit -> onBoard \cup {None, Other}],
         \A c \in Ids : SameUnits(ctl[c], ctl'[c]),
         UNCHANGED <<posted, task, onBoard, removal, dead, tasks, orphaned, age>>
  PROVE  UInv'
<1>1. Types'
  BY Zenon DEF UInv, Types
<1>2. ASSUME NEW i \in Ids
      PROVE  TaskOK(i)'
  BY Zenon DEF UInv, TaskOK, Builds
<1>3. ASSUME NEW c \in Ids
      PROVE  ControllerOK(c)'
  <2>1. ControllerOK(c) /\ SameUnits(ctl[c], ctl'[c])
    BY Zenon DEF UInv
  <2>2. QED
    <3>1. /\ ctl[c].upcId # 0 => task'[ctl[c].upcId].ctl = c
          /\ Over(c) => Over(c)'
          /\ \A u \in Unit : Holds(c, u) => Holds(c, u)'
      BY Zenon, <2>1 DEF ControllerOK, Over, Holds, SameUnits
    <3>2. QED
      BY Zenon, <2>1, <3>1, KeepController
<1>4. QED
  BY Zenon, <1>1, <1>2, <1>3 DEF UInv

\* In the beginning there are no tasks, and no controller commands a unit.
LEMMA InitUInv == Init => UInv
<1> SUFFICES ASSUME Init PROVE UInv
  BY Zenon
<1>1. 0 \in 0 .. MaxUpc /\ 0 \in Nat /\ Ids \subseteq Nat /\ (\A i \in Ids : ~(i <= 0)) /\ 0 \in Nat
  BY BuilderAssumption DEF Ids
<1>2. Types
  BY Zenon, <1>1, NewTasks, NewControllers DEF Init, Types
<1>3. LoopOK
  BY Zenon DEF Init, LoopOK, StepPhases
<1>4. ASSUME NEW i \in Ids
      PROVE  TaskOK(i)
  BY Zenon, <1>1 DEF Init, TaskOK, NoTask
<1>5. ASSUME NEW c \in Ids
      PROVE  ControllerOK(c)
  <2>1. ctl[c] = NewController(0)
    BY Zenon DEF Init
  <2>2. \A u \in Unit : u # None
    BY Zenon, BuilderAssumption
  <2>3. QED
    BY <1>1, <2>1, <2>2, NewControllers DEF ControllerOK, Commands
<1>6. QED
  BY Zenon, <1>2, <1>3, <1>4, <1>5 DEF UInv

\* grabUnit by controller c, whose new state is k but for the unit.
LEMMA GrabStep ==
  ASSUME UInv, (Builds \subseteq Builds') => LoopOK',
         NEW c \in Builds, NEW u \in Unit \ dead, NEW k \in Controllers,
         posted < MaxUpc, Grab(c, u, k),
         k.upcId = ctl[c].upcId, k.units = ctl[c].units,
         k.detector # None => k.detector \in Detector, k.moved \cap Detector = {},
         \A v \in Unit : v = k.builder \/ v = k.detector =>
           v = u \/ v = ctl[c].builder \/ v = ctl[c].detector,
         UNCHANGED <<removal, dead, tasks, orphaned, age>>
  PROVE  UInv'
<1>1. /\ Types /\ (\A i \in Ids : TaskOK(i)) /\ (\A d \in Ids : ControllerOK(d))
      /\ Builds \subseteq Ids /\ c \in Ids /\ task[c].ctl = c
      /\ task \in [Ids -> Tasks] /\ ctl \in [Ids -> Controllers]
  BY Zenon, Given DEF UInv, Types
<1>2. CASE ~CanGrab(c)
  <2>1. /\ ctl' = [ctl EXCEPT ![c] = k] /\ Over(c)
        /\ UNCHANGED <<posted, task, onBoard, byUnit>>
    BY Zenon, <1>2 DEF Grab, CanGrab, Over, Finished
  <2>2. ctl' \in [Ids -> Controllers] /\ ctl'[c] = k /\ \A d \in Ids : d # c => ctl'[d] = ctl[d]
    BY Zenon, <1>1, <2>1
  <2>3. Types'
    BY Zenon, <1>1, <2>1, <2>2 DEF Types
  <2>4. ASSUME NEW i \in Ids PROVE TaskOK(i)'
    BY Zenon, <1>1, <2>1 DEF TaskOK, Builds
  <2>5. ASSUME NEW d \in Ids PROVE ControllerOK(d)'
    <3>1. CASE d # c
      <4>1. ctl'[d] = ctl[d] /\ ControllerOK(d)
        BY Zenon, <1>1, <2>2, <3>1
      <4>2. QED
        BY Zenon, <4>1, <2>1, <1>1, Fields, IdFacts, Untouched
    <3>2. ControllerOK(c)'
      <4>1. ctl'[c] = k /\ Over(c)' /\ ControllerOK(c)
        BY Zenon, <1>1, <2>1, <2>2 DEF Over
      <4>2. QED
        BY Zenon, <4>1, <2>1 DEF ControllerOK
    <3>3. QED
      BY Zenon, <3>1, <3>2
  <2>6. Builds' = Builds
    BY Zenon, <2>1 DEF Builds
  <2>7. QED
    BY Zenon, <2>3, <2>4, <2>5, <2>6 DEF UInv
<1>3. CASE CanGrab(c)
  <2>1. PICK n, t, m : /\ n = posted + 1 /\ t = NewTask(c, {u})
                       /\ m = [k EXCEPT !.upcId = n, !.units[u] = n]
    BY Zenon
  <2>2. /\ posted' = n /\ task' = [task EXCEPT ![n] = t] /\ onBoard' = onBoard \cup {n}
        /\ byUnit' = [byUnit EXCEPT ![u] = n] /\ ctl' = [ctl EXCEPT ![c] = m]
    BY Zenon, <1>3, <2>1 DEF Grab
  <2>3. /\ n \in Ids /\ n \in 0 .. MaxUpc /\ n # 0 /\ n \notin 1 .. posted /\ ~(n <= posted)
        /\ n <= n /\ ~(n > n)
        /\ \A i : i \in 1 .. n <=> i \in 1 .. posted \/ i = n
        /\ \A i \in Ids : /\ i <= n <=> i <= posted \/ i = n
                          /\ i > n => i > posted /\ i # n
    BY <1>1, <2>1, BuilderAssumption DEF Types, Ids
  <2>4. t \in Tasks /\ t.ctl = c /\ t.status = "Ongoing" /\ t.units = {u}
    <3>1. c \in 0 .. MaxUpc /\ {u} \in SUBSET Unit
      BY Zenon, <1>1, IdFacts
    <3>2. QED
      BY Zenon, <2>1, <3>1 DEF NewTask, Tasks, TaskStatus
  <2>5. u \in Unit /\ k.units \in [Unit -> 0 .. MaxUpc]
    BY Zenon, Fields
  <2>6. /\ m \in Controllers /\ m.upcId = n /\ m.moved = k.moved
        /\ m.builder = k.builder /\ m.detector = k.detector
        /\ m.units[u] = n /\ \A v \in Unit : v # u => m.units[v] = k.units[v]
    <3>1. m.units = [k.units EXCEPT ![u] = n] /\ m \in Controllers
      BY Zenon, <2>1, <2>3, <2>5 DEF Controllers
    <3>2. /\ m.upcId = n /\ m.moved = k.moved
          /\ m.builder = k.builder /\ m.detector = k.detector
      BY Zenon, <2>1 DEF Controllers
    <3>3. QED
      BY Zenon, <3>1, <3>2, <2>5
  <2>7. /\ task' \in [Ids -> Tasks] /\ task'[n] = t /\ \A i \in Ids : i # n => task'[i] = task[i]
        /\ ctl' \in [Ids -> Controllers] /\ ctl'[c] = m /\ \A d \in Ids : d # c => ctl'[d] = ctl[d]
    BY Zenon, <1>1, <2>2, <2>3, <2>4, <2>6
  <2>8. Types'
    <3>1. onBoard' \subseteq 1 .. n /\ posted' \in 0 .. MaxUpc
      BY Zenon, <1>1, <2>2, <2>3 DEF Types
    <3>2. byUnit' \in [Unit -> onBoard' \cup {None, Other}]
      BY Zenon, <1>1, <2>2, <2>5 DEF Types
    <3>3. QED
      BY Zenon, <1>1, <2>2, <2>7, <3>1, <3>2 DEF Types
  <2>9. c # n /\ \A d \in Builds : d # n /\ d \in Builds'
    BY Zenon, <2>2, <2>3, <2>7, Given, <1>1 DEF Builds
  <2>10. ASSUME NEW i \in Ids PROVE TaskOK(i)'
    <3>1. TaskOK(n)'
      <4>1. n \notin removal /\ {u} \cap dead = {} /\ task[c].ctl = c
        BY Zenon, <1>1, <2>3 DEF Types
      <4>2. QED
        BY Zenon, <4>1, <2>2, <2>3, <2>4, <2>7, <2>9 DEF TaskOK
    <3>2. CASE i # n
      BY Zenon, <3>2, <2>2, <2>3, <2>7, <2>9, <1>1 DEF TaskOK
    <3>3. QED
      BY Zenon, <3>1, <3>2
  <2>11. \A i \in onBoard : i # n /\ i \in Ids
    BY Zenon, <2>3, <1>1, IdFacts DEF Types
  <2>12. \A d \in Ids : task[n].ctl # d
    <3>1. task[n] = NoTask
      BY Zenon, <1>1, <2>3, IdFacts DEF TaskOK
    <3>2. QED
      BY <3>1, <1>1, IdFacts DEF NoTask
  <2>13. ASSUME NEW d \in Ids, d # c PROVE ControllerOK(d)'
    <3>1. ctl'[d] = ctl[d] /\ ControllerOK(d) /\ ctl[d].upcId \in 0 .. MaxUpc
      BY Zenon, <1>1, <2>7, <2>13, Fields
    <3>2. \A i \in Ids : task[i].ctl = d => task'[i] = task[i] /\ (i \in onBoard' => i \in onBoard)
      BY Zenon, <2>2, <2>7, <2>12
    <3>3. onBoard' \subseteq Ids
      BY Zenon, <2>2, <2>3, <2>11
    <3>4. QED
      BY Zenon, <3>1, <3>2, <3>3, Untouched
  <2>14. ControllerOK(c)'
    <3>1. ControllerOK(c) /\ ~Over(c)
      <4>1. /\ ctl[c].upcId \in onBoard /\ ~Finished(task[ctl[c].upcId])
            /\ ctl[c].upcId \in Ids /\ ctl[c].upcId <= posted
        BY Zenon, <1>3, <1>1, IdFacts DEF CanGrab, Types
      <4>2. /\ task[ctl[c].upcId].status # "Unknown" /\ ControllerOK(c)
            /\ task[ctl[c].upcId].status \in TaskStatus
        BY Zenon, <4>1, <1>1, TaskFields DEF TaskOK
      <4>3. QED
        BY Zenon, <4>1, <4>2 DEF Finished, TaskStatus, Over
    <3>2. ctl'[c].upcId # 0 => task'[ctl'[c].upcId].ctl = c
      BY Zenon, <2>4, <2>6, <2>7
    <3>3. ASSUME NEW v \in Unit, Commands(c, v)'
          PROVE  <<c, v>> \in orphaned' \/ Holds(c, v)'
      <4>1. CASE v = u
        BY Zenon, <4>1, <2>3, <2>4, <2>6, <2>7 DEF Holds
      <4>2. CASE v # u
        <5>1. ctl'[c].units[v] = ctl[c].units[v] /\ Commands(c, v)
          BY Zenon, <3>3, <4>2, <2>6, <2>7 DEF Commands
        <5>2. <<c, v>> \in orphaned \/ Holds(c, v)
          BY Zenon, <3>1, <5>1 DEF ControllerOK
        <5>3. Holds(c, v) => Holds(c, v)'
          BY Zenon, <5>1, <1>1, <2>7, <2>12 DEF Holds
        <5>4. QED
          BY Zenon, <5>2, <5>3
      <4>3. QED
        BY Zenon, <4>1, <4>2
    <3>4. QED
      BY Zenon, <3>2, <3>3, <2>6, <2>7 DEF ControllerOK
  <2>16. QED
    BY Zenon, <2>8, <2>9, <2>10, <2>13, <2>14 DEF UInv
<1>4. QED
  BY Zenon, <1>2, <1>3

\* releaseUnit for the units of movedUnits_ of controller c, whose new state is k
\* but for the units.
LEMMA ReleaseStep ==
  ASSUME UInv, (Builds \subseteq Builds') => LoopOK',
         NEW c \in Builds, NEW k \in Controllers, SameUnits(ctl[c], k),
         ReleaseMoved(c, k), UNCHANGED <<posted, onBoard, removal, dead, tasks, age>>
  PROVE  UInv'
<1>1. /\ Types /\ (\A i \in Ids : TaskOK(i)) /\ (\A d \in Ids : ControllerOK(d))
      /\ Builds \subseteq Ids /\ c \in Ids
      /\ task \in [Ids -> Tasks] /\ ctl \in [Ids -> Controllers]
  BY Zenon, Given DEF UInv, Types
<1>2. PICK M, ours, f, m :
        /\ M = ctl[c].moved /\ ours = {u \in M : byUnit[u] \in Ids}
        /\ f = [u \in Unit |-> IF u \in M /\ (u \in ours => k.units[u] = byUnit[u])
                               THEN 0 ELSE k.units[u]]
        /\ m = [k EXCEPT !.moved = {}, !.units = f]
  BY Zenon
<1>3. /\ ctl' = [ctl EXCEPT ![c] = m]
      /\ task' = [i \in Ids |->
           [task[i] EXCEPT !.units = {u \in task[i].units : u \notin ours \/ byUnit[u] # i}]]
      /\ byUnit' = [u \in Unit |-> IF u \in ours THEN None ELSE byUnit[u]]
      /\ orphaned' = orphaned \cup {<<task[byUnit[u]].ctl, u>> : u \in ours}
                              \cup {<<c, u>> : u \in M \cap {ctl[c].builder}}
  BY Zenon, <1>2 DEF ReleaseMoved
<1>4. /\ m \in Controllers /\ m.units = f /\ m.moved = {} /\ m.upcId = ctl[c].upcId
      /\ m.builder = ctl[c].builder /\ m.detector = ctl[c].detector
  <2>1. 0 \in 0 .. MaxUpc
    BY BuilderAssumption
  <2>2. f \in [Unit -> 0 .. MaxUpc]
    BY Zenon, <2>1, <1>2, Fields
  <2>3. QED
    BY Zenon, <1>2, <2>2 DEF Controllers, SameUnits
<1>5. \A i \in Ids : /\ task'[i] \in Tasks
                     /\ task'[i].ctl = task[i].ctl /\ task'[i].status = task[i].status
                     /\ \A u : u \in task'[i].units <=>
                          u \in task[i].units /\ ~(u \in ours /\ byUnit[u] = i)
  <2> SUFFICES ASSUME NEW i \in Ids
               PROVE  /\ task'[i] \in Tasks
                      /\ task'[i].ctl = task[i].ctl /\ task'[i].status = task[i].status
                      /\ \A u : u \in task'[i].units <=>
                           u \in task[i].units /\ ~(u \in ours /\ byUnit[u] = i)
    BY Zenon
  <2>1. PICK S : S = {u \in task[i].units : u \notin ours \/ byUnit[u] # i}
    BY Zenon
  <2>2. task'[i] = [task[i] EXCEPT !.units = S] /\ task[i] \in Tasks /\ S \in SUBSET Unit
    BY Zenon, <1>1, <1>3, <2>1, TaskFields
  <2>3. /\ task'[i] \in Tasks /\ task'[i].units = S
        /\ task'[i].ctl = task[i].ctl /\ task'[i].status = task[i].status
    BY Zenon, <2>2 DEF Tasks
  <2>4. QED
    BY Zenon, <2>1, <2>3
<1>6. /\ ctl' \in [Ids -> Controllers] /\ ctl'[c] = m
      /\ \A d \in Ids : d # c => ctl'[d] = ctl[d]
      /\ task' \in [Ids -> Tasks]
  BY Zenon, <1>1, <1>3, <1>4, <1>5
<1>7. Types'
  <2>1. byUnit' \in [Unit -> onBoard \cup {None, Other}]
    BY Zenon, <1>1, <1>3 DEF Types
  <2>2. QED
    BY Zenon, <1>1, <1>6, <2>1 DEF Types
<1>8. \A u : \A d : <<d, u>> \in orphaned => <<d, u>> \in orphaned'
  BY Zenon, <1>3
<1>9. ASSUME NEW d \in Ids, NEW u \in Unit, Holds(d, u)
      PROVE  \/ <<d, u>> \in orphaned'
             \/ /\ ctl'[d].units[u] = ctl[d].units[u] => Holds(d, u)'
                /\ ~(u \in ours /\ byUnit[u] = ctl[d].units[u])
  <2>1. CASE u \in ours /\ byUnit[u] = ctl[d].units[u]
    <3>1. task[byUnit[u]].ctl = d
      BY Zenon, <1>9, <2>1 DEF Holds
    <3>2. QED
      BY Zenon, <3>1, <2>1, <1>3
  <2>2. CASE ~(u \in ours /\ byUnit[u] = ctl[d].units[u])
    BY Zenon, <1>5, <1>9, <2>2 DEF Holds
  <2>3. QED
    BY Zenon, <2>1, <2>2
<1>20. Builds' = Builds
  <2>1. \A j \in 1 .. posted : j \in Ids
    BY Zenon, <1>1, IdFacts
  <2>2. posted' = posted /\ \A j \in 1 .. posted : task'[j].ctl = task[j].ctl
    BY Zenon, <1>5, <2>1
  <2>3. QED
    BY Zenon, <2>2 DEF Builds
<1>10. ASSUME NEW i \in Ids PROVE TaskOK(i)'
  <2>1. TaskOK(i) /\ Builds' = Builds
    BY Zenon, <1>1, <1>20
  <2>2. i > posted => task'[i] = NoTask
    <3>1. ASSUME i > posted PROVE task'[i] = NoTask
      <4>1. task[i] = [ctl |-> 0, status |-> "Unknown", units |-> {}]
        BY Zenon, <2>1, <3>1 DEF TaskOK, NoTask
      <4>2. {u \in task[i].units : u \notin ours \/ byUnit[u] # i} = {}
        BY <4>1
      <4>3. task'[i] = [task[i] EXCEPT !.units = {}]
        BY Zenon, <4>2, <1>3
      <4>4. QED
        BY <4>1, <4>3 DEF NoTask
    <3>2. QED
      BY Zenon, <3>1
  <2>3. Finished(task[i]) => Finished(task'[i])
    BY Zenon, <1>5 DEF Finished
  <2>4. task'[i].units \cap dead' \subseteq task[i].units \cap dead
    BY Zenon, <1>5
  <2>5. QED
    BY Zenon, <2>1, <2>2, <2>3, <2>4, <1>5 DEF TaskOK
<1>11. \A d \in Ids : ctl[d].upcId \in Ids \cup {0}
  BY <1>1, Fields DEF Ids
<1>12. ASSUME NEW d \in Ids, ctl'[d].upcId = ctl[d].upcId
       PROVE  /\ ctl[d].upcId # 0 => task'[ctl[d].upcId].ctl = d
              /\ Over(d) => Over(d)'
  <2>1. ControllerOK(d) /\ onBoard \subseteq Ids
    BY Zenon, <1>1, IdFacts
  <2>2. QED
    BY Zenon, <2>1, <1>5, <1>11, <1>12 DEF ControllerOK, Over
<1>13. ASSUME NEW d \in Ids, d # c PROVE ControllerOK(d)'
  <2>1. ctl'[d] = ctl[d] /\ SameUnits(ctl[d], ctl'[d]) /\ ControllerOK(d)
    BY Zenon, <1>1, <1>6, <1>13 DEF SameUnits
  <2>2. \A u \in Unit : Holds(d, u) => <<d, u>> \in orphaned' \/ Holds(d, u)'
    BY Zenon, <1>9, <2>1
  <2>3. /\ ctl[d].upcId # 0 => task'[ctl[d].upcId].ctl = d
        /\ Over(d) => Over(d)'
    BY Zenon, <2>1, <1>12
  <2>4. QED
    BY Zenon, <2>1, <2>2, <2>3, <1>8, KeepController
<1>14. ControllerOK(c)'
  <2>1. ControllerOK(c) /\ ctl'[c] = m
    BY Zenon, <1>1, <1>6
  <2>2. /\ ctl[c].upcId # 0 => task'[ctl[c].upcId].ctl = c
        /\ Over(c) => Over(c)'
    <3>1. ctl'[c].upcId = ctl[c].upcId
      BY Zenon, <2>1, <1>4
    <3>2. QED
      BY Zenon, <3>1, <1>1, <1>12
  <2>3. ASSUME NEW u \in Unit, Commands(c, u)', Holds(c, u)
        PROVE  <<c, u>> \in orphaned' \/ Holds(c, u)'
    <3>1. f[u] = IF u \in M /\ (u \in ours => ctl[c].units[u] = byUnit[u])
                 THEN 0 ELSE ctl[c].units[u]
      BY Zenon, <1>2 DEF SameUnits
    <3>2. CASE u \in M /\ (u \in ours => ctl[c].units[u] = byUnit[u])
      <4>1. CASE u \in ours
        BY Zenon, <2>3, <3>2, <4>1, <1>1, <1>9
      <4>2. CASE u \notin ours
        <5>1. u \notin Detector
          BY Zenon, <2>1, <3>2, <1>2 DEF ControllerOK
        <5>2. u = ctl[c].builder
          <6>1. ctl'[c].units[u] = 0
            BY Zenon, <2>1, <1>4, <3>1, <3>2
          <6>2. ctl'[c].detector = ctl[c].detector /\ ctl'[c].builder = ctl[c].builder
            BY Zenon, <2>1, <1>4
          <6>3. u # ctl[c].detector
            BY Zenon, <5>1, <2>1, BuilderAssumption DEF ControllerOK
          <6>4. QED
            BY Zenon, <6>1, <6>2, <6>3, <2>3 DEF Commands
        <5>3. QED
          BY Zenon, <5>2, <3>2, <1>3
      <4>3. QED
        BY Zenon, <4>1, <4>2
    <3>3. CASE ~(u \in M /\ (u \in ours => ctl[c].units[u] = byUnit[u]))
      <4>1. ctl'[c].units[u] = ctl[c].units[u]
        BY Zenon, <2>1, <1>4, <3>1, <3>3
      <4>2. QED
        BY Zenon, <4>1, <2>3, <1>1, <1>9
    <3>4. QED
      BY Zenon, <3>2, <3>3
  <2>4. \A u \in Unit : Commands(c, u)' => Commands(c, u)
    <3>1. \A u \in Unit : f[u] = 0 \/ f[u] = ctl[c].units[u]
      BY Zenon, <1>2 DEF SameUnits
    <3>2. QED
      BY Zenon, <3>1, <2>1, <1>4 DEF Commands
  <2>5. \A u \in Unit : Commands(c, u)' => Over(c)' \/ <<c, u>> \in orphaned' \/ Holds(c, u)'
    BY Zenon, <2>1, <2>2, <2>3, <2>4, <1>8 DEF ControllerOK
  <2>6. QED
    BY Zenon, <2>1, <2>2, <2>5, <1>4 DEF ControllerOK
<1>15. QED
  BY Zenon, <1>7, <1>10, <1>13, <1>14, <1>20 DEF UInv

\* removeUnit for the pairs in S, where controller c was changed to k before.
LEMMA RemoveUnits ==
  ASSUME NEW c \in Ids, NEW k \in Controllers, NEW S, SameUnits(ctl[c], k),
         ctl'[c] = Removed(k, S), ControllerOK(c),
         ctl[c].upcId # 0 => task'[ctl[c].upcId].ctl = c,
         Over(c) => Over(c)',
         \A u \in Unit : <<c, u>> \in orphaned => <<c, u>> \in orphaned',
         \A u \in Unit : Holds(c, u) =>
           \/ Over(c)' \/ <<u, ctl[c].units[u]>> \in S
           \/ /\ task'[ctl[c].units[u]].ctl = c
              /\ task'[ctl[c].units[u]].status = "Ongoing"
              /\ u \in task'[ctl[c].units[u]].units
  PROVE  ControllerOK(c)'
<1>1. /\ ctl'[c].upcId = ctl[c].upcId /\ ctl'[c].moved = ctl[c].moved
      /\ \A u \in Unit : ctl'[c].units[u] =
           IF <<u, ctl[c].units[u]>> \in S THEN 0 ELSE ctl[c].units[u]
      /\ ctl'[c].builder =
           IF ctl[c].builder # None /\ <<ctl[c].builder, ctl[c].units[ctl[c].builder]>> \in S
           THEN None ELSE ctl[c].builder
      /\ ctl'[c].detector =
           IF ctl[c].detector # None /\ <<ctl[c].detector, ctl[c].units[ctl[c].detector]>> \in S
           THEN None ELSE ctl[c].detector
  <2>1. /\ k.upcId = ctl[c].upcId /\ k.units = ctl[c].units /\ k.moved = ctl[c].moved
        /\ k.builder = ctl[c].builder /\ k.detector = ctl[c].detector
    BY Zenon DEF SameUnits
  <2> DEFINE m == Removed(k, S)
  <2>2. /\ m.upcId = k.upcId /\ m.moved = k.moved
        /\ \A u \in Unit : m.units[u] =
             IF <<u, k.units[u]>> \in S THEN 0 ELSE k.units[u]
        /\ m.builder =
             IF k.builder # None /\ <<k.builder, k.units[k.builder]>> \in S
             THEN None ELSE k.builder
        /\ m.detector =
             IF k.detector # None /\ <<k.detector, k.units[k.detector]>> \in S
             THEN None ELSE k.detector
    BY Removal
  <2>3. QED
    BY Zenon, <2>1, <2>2
<1>2. ASSUME NEW u \in Unit, Commands(c, u)'
      PROVE  Over(c)' \/ <<c, u>> \in orphaned' \/ Holds(c, u)'
  <2>1. u # None
    BY Zenon, BuilderAssumption
  <2>2. <<u, ctl[c].units[u]>> \notin S
    BY Zenon, <1>1, <1>2, <2>1 DEF Commands
  <2>3. Commands(c, u) /\ ctl'[c].units[u] = ctl[c].units[u]
    BY Zenon, <1>1, <1>2, <2>1, <2>2 DEF Commands
  <2>4. Over(c) \/ <<c, u>> \in orphaned \/ Holds(c, u)
    BY Zenon, <2>3 DEF ControllerOK
  <2>5. Holds(c, u) => Over(c)' \/ Holds(c, u)'
    BY Zenon, <2>2, <2>3 DEF Holds
  <2>6. QED
    BY Zenon, <2>4, <2>5
<1>3. QED
  BY Zenon, <1>1, <1>2 DEF ControllerOK

\* ControllerTask::cancel: the unfinished tasks in I become cancelled and give up
\* their units, the others stay as they are.
LEMMA CancelEffect ==
  ASSUME Types, NEW I \in SUBSET Ids, CancelTasks(I), NEW i \in Ids
  PROVE  /\ task'[i] \in Tasks /\ task'[i].ctl = task[i].ctl
         /\ i \in I /\ task[i].status = "Ongoing" => task'[i].status = "Cancelled"
         /\ ~(i \in I /\ task[i].status = "Ongoing") => task'[i] = task[i]
         /\ SameTracker(ctl[i], ctl'[i])
<1>1. task[i] \in Tasks /\ ctl[i] \in Controllers
  BY Zenon DEF Types
<1>2. PICK S : ctl'[i] = Removed(ctl[i], S)
  BY Zenon DEF CancelTasks
<1>3. SameTracker(ctl[i], ctl'[i])
  <2>1. SameTracker(ctl[i], Removed(ctl[i], S))
    BY Zenon, <1>1, Removal
  <2>2. QED
    BY Zenon, <1>2, <2>1
<1>4. task'[i] = IF i \in I /\ task[i].status = "Ongoing"
                 THEN [task[i] EXCEPT !.status = "Cancelled", !.units = {}] ELSE task[i]
  BY Zenon DEF CancelTasks
<1>5. CASE i \in I /\ task[i].status = "Ongoing"
  <2>1. PICK t : t = [task[i] EXCEPT !.status = "Cancelled", !.units = {}]
    BY Zenon
  <2>2. t \in Tasks /\ t.status = "Cancelled" /\ t.ctl = task[i].ctl
    BY Zenon, <1>1, <2>1 DEF Tasks, TaskStatus
  <2>3. QED
    BY Zenon, <1>3, <1>4, <1>5, <2>1, <2>2
<1>6. CASE ~(i \in I /\ task[i].status = "Ongoing")
  BY Zenon, <1>1, <1>3, <1>4, <1>6
<1>7. QED
  BY Zenon, <1>5, <1>6

\* Cancelling tasks keeps the invariant: their units are removed from the
\* controllers in the same call.
LEMMA CancelStep ==
  ASSUME UInv, (Builds \subseteq Builds') => LoopOK',
         NEW I \in SUBSET Ids, CancelTasks(I), tasks' \subseteq tasks,
         UNCHANGED <<posted, onBoard, removal, byUnit, dead, orphaned, age>>
  PROVE  UInv'
<1>1. /\ Types /\ (\A i \in Ids : TaskOK(i)) /\ (\A d \in Ids : ControllerOK(d))
      /\ task \in [Ids -> Tasks] /\ ctl \in [Ids -> Controllers]
      /\ onBoard \subseteq Ids /\ tasks \subseteq onBoard
  BY Zenon, IdFacts DEF UInv, Types
<1>2. PICK J : J = {i \in I : task[i].status = "Ongoing"}
  BY Zenon
<1>3. /\ ctl' = [c \in Ids |-> Removed(ctl[c], Held(J \cap TasksOf(c)))]
      /\ task' = [i \in Ids |-> IF i \in J
                                THEN [task[i] EXCEPT !.status = "Cancelled", !.units = {}]
                                ELSE task[i]]
      /\ J \subseteq Ids
  BY Zenon, <1>2 DEF CancelTasks
<1>4. \A i \in Ids : /\ task'[i] \in Tasks /\ task'[i].ctl = task[i].ctl
                     /\ i \notin J => task'[i] = task[i]
                     /\ i \in J => task'[i].status = "Cancelled" /\ task[i].status = "Ongoing"
  BY Zenon, <1>1, <1>2, CancelEffect
<1>5. Types'
  <2>1. task' \in [Ids -> Tasks]
    BY Zenon, <1>3, <1>4
  <2>2. ctl' \in [Ids -> Controllers]
    BY Zenon, <1>1, <1>3, Removal
  <2>3. QED
    BY Zenon, <1>1, <2>1, <2>2 DEF Types
<1>20. Builds' = Builds
  <2>1. \A j \in 1 .. posted : j \in Ids
    BY Zenon, <1>1, IdFacts
  <2>2. posted' = posted /\ \A j \in 1 .. posted : task'[j].ctl = task[j].ctl
    BY Zenon, <1>4, <2>1
  <2>3. QED
    BY Zenon, <2>2 DEF Builds
<1>6. ASSUME NEW i \in Ids PROVE TaskOK(i)'
  <2>1. TaskOK(i) /\ Builds' = Builds
    BY Zenon, <1>1, <1>20
  <2>2. CASE i \notin J
    BY Zenon, <2>1, <2>2, <1>4 DEF TaskOK
  <2>3. CASE i \in J
    <3>1. task'[i].status = "Cancelled" /\ task'[i].ctl = task[i].ctl /\ task[i].status = "Ongoing"
      BY Zenon, <2>3, <1>4
    <3>2. ~(i > posted)
      BY <2>1, <3>1 DEF TaskOK, NoTask
    <3>3. QED
      BY Zenon, <2>1, <3>1, <3>2 DEF TaskOK, Finished
  <2>4. QED
    BY Zenon, <2>2, <2>3
<1>7. ASSUME NEW c \in Ids PROVE ControllerOK(c)'
  <2>1. /\ ControllerOK(c) /\ ctl[c] \in Controllers /\ SameUnits(ctl[c], ctl[c])
        /\ ctl'[c] = Removed(ctl[c], Held(J \cap TasksOf(c)))
    BY Zenon, <1>1, <1>3 DEF SameUnits
  <2>2. ctl[c].upcId \in Ids \cup {0}
    BY <2>1, Fields DEF Ids
  <2>3. /\ ctl[c].upcId # 0 => task'[ctl[c].upcId].ctl = c
        /\ Over(c) => Over(c)'
    <3>1. /\ ctl[c].upcId # 0 => task'[ctl[c].upcId].ctl = c
          /\ ctl'[c].upcId = ctl[c].upcId
      <4>1. Removed(ctl[c], Held(J \cap TasksOf(c))).upcId = ctl[c].upcId
        BY Zenon, <2>1, Removal
      <4>2. ctl[c].upcId # 0 => task[ctl[c].upcId].ctl = c
        BY Zenon, <2>1 DEF ControllerOK
      <4>3. QED
        BY Zenon, <2>1, <2>2, <4>1, <4>2, <1>4
    <3>2. ctl[c].upcId \in onBoard /\ task'[ctl[c].upcId].status = "Ongoing" =>
             task[ctl[c].upcId].status = "Ongoing"
      BY Zenon, <1>1, <1>4
    <3>3. QED
      BY Zenon, <3>1, <3>2 DEF Over
  <2>4. ASSUME NEW u \in Unit, Holds(c, u)
        PROVE  \/ <<u, ctl[c].units[u]>> \in Held(J \cap TasksOf(c))
               \/ /\ task'[ctl[c].units[u]].ctl = c
                  /\ task'[ctl[c].units[u]].status = "Ongoing"
                  /\ u \in task'[ctl[c].units[u]].units
    <3>1. PICK i : i = ctl[c].units[u]
      BY Zenon
    <3>2. i \in Ids /\ task[i].ctl = c /\ task[i].status = "Ongoing" /\ u \in task[i].units
      BY Zenon, <2>4, <3>1 DEF Holds
    <3>3. CASE i \notin J
      <4>1. task'[i] = task[i]
        BY Zenon, <3>2, <3>3, <1>4
      <4>2. QED
        BY Zenon, <3>1, <3>2, <4>1
    <3>4. CASE i \in J
      <4>1. i \in J \cap TasksOf(c)
        BY Zenon, <3>2, <3>4, <1>1, Given
      <4>2. <<u, i>> \in Held(J \cap TasksOf(c))
        BY Zenon, <3>2, <4>1 DEF Held
      <4>3. QED
        BY Zenon, <4>2, <3>1
    <3>5. QED
      BY Zenon, <3>3, <3>4
  <2>5. QED
    BY Zenon, <2>1, <2>3, <2>4, RemoveUnits
<1>8. QED
  BY Zenon, <1>5, <1>6, <1>7, <1>20 DEF UInv

\* The new builds of a step of the module keep the invariant.
LEMMA BeginStep ==
  ASSUME UInv, NEW new \in 0 .. MaxBuilds, Begin(new)
  PROVE  UInv'
<1>1. /\ Types /\ (\A i \in Ids : TaskOK(i)) /\ (\A d \in Ids : ControllerOK(d))
      /\ task \in [Ids -> Tasks] /\ ctl \in [Ids -> Controllers]
      /\ onBoard \subseteq Ids /\ removal \subseteq onBoard /\ stepped = {} /\ Builds \subseteq Ids
      /\ way = {}
  BY Zenon, IdFacts, Given DEF UInv, Types, LoopOK, Begin
<1>2. PICK N : N = posted + 1 .. posted + new
  BY Zenon
<1>3. /\ task' = [i \in Ids |-> IF i \in N THEN NewTask(i, {}) ELSE task[i]]
      /\ ctl' = [i \in Ids |-> IF i \in N THEN NewController(i) ELSE ctl[i]]
      /\ onBoard' = onBoard \cup N /\ tasks' = onBoard' /\ phase' = "builder"
      /\ UNCHANGED <<removal, byUnit, dead, stepped, cur, way, orphaned, age>>
  BY Zenon, <1>2 DEF Begin
<1>4. /\ N \subseteq Ids /\ posted' \in 0 .. MaxUpc
      /\ \A i : i \in 1 .. posted' <=> i \in 1 .. posted \/ i \in N
      /\ \A i \in Ids : /\ i <= posted' <=> i <= posted \/ i \in N
                        /\ i > posted' => i > posted /\ i \notin N
                        /\ i <= posted => i \notin N
                        /\ i \in N => i <= posted' /\ ~(i > posted')
                        /\ i \in N => i > posted
  BY <1>1, <1>2, BuilderAssumption DEF Begin, Types, Ids
<1>5. \A i \in N : /\ task'[i] \in Tasks /\ task'[i].ctl = i /\ task'[i].status = "Ongoing"
                   /\ task'[i].units = {} /\ task[i] = NoTask /\ i \notin onBoard
  <2>1. {} \in SUBSET Unit /\ Ids \subseteq 0 .. MaxUpc
    BY Zenon, <1>1, IdFacts
  <2>2. \A i \in N : task[i] = NoTask /\ i \notin onBoard
    BY Zenon, <1>1, <1>4, IdFacts DEF TaskOK, Types
  <2>3. \A i \in N : task'[i] = NewTask(i, {}) /\ i \in 0 .. MaxUpc
    BY Zenon, <1>3, <1>4, <2>1
  <2>4. ASSUME NEW i \in N
        PROVE  /\ NewTask(i, {}) \in Tasks /\ NewTask(i, {}).ctl = i
               /\ NewTask(i, {}).status = "Ongoing" /\ NewTask(i, {}).units = {}
    BY Zenon, <2>1, <2>3 DEF NewTask, Tasks, TaskStatus
  <2>5. QED
    BY <2>2, <2>3, <2>4
<1>6. \A i \in Ids : i \notin N => task'[i] = task[i] /\ ctl'[i] = ctl[i]
  BY Zenon, <1>3
<1>7. Types'
  <2>1. task' \in [Ids -> Tasks]
    BY Zenon, <1>1, <1>3, <1>5, <1>6
  <2>2. ctl' \in [Ids -> Controllers]
    BY Zenon, <1>1, <1>3, NewControllers, IdFacts
  <2>3. onBoard' \subseteq 1 .. posted' /\ byUnit' \in [Unit -> onBoard' \cup {None, Other}]
    BY Zenon, <1>1, <1>3, <1>4 DEF Types
  <2>4. QED
    BY Zenon, <1>1, <1>3, <1>4, <2>1, <2>2, <2>3 DEF Types
<1>8. LoopOK'
  BY Zenon, <1>1, <1>3 DEF LoopOK, StepPhases
<1>9. \A c \in Builds : c \in Builds'
  BY Zenon, <1>1, <1>4, <1>6, IdFacts DEF Builds
<1>10. ASSUME NEW i \in Ids PROVE TaskOK(i)'
  <2>1. CASE i \in N
    <3>1. i \in Builds' /\ i \notin removal'
      BY Zenon, <2>1, <1>1, <1>3, <1>4, <1>5 DEF Builds
    <3>2. QED
      BY Zenon, <2>1, <3>1, <1>3, <1>4, <1>5 DEF TaskOK
  <2>2. CASE i \notin N
    BY Zenon, <2>2, <1>1, <1>3, <1>4, <1>6, <1>9 DEF TaskOK
  <2>3. QED
    BY Zenon, <2>1, <2>2
<1>11. ASSUME NEW c \in Ids PROVE ControllerOK(c)'
  <2>1. CASE c \in N
    <3>1. ctl'[c] = NewController(c) /\ c \in 0 .. MaxUpc /\ \A u \in Unit : u # None
      BY Zenon, <2>1, <1>1, <1>3, IdFacts, BuilderAssumption
    <3>2. /\ ctl'[c].upcId = c /\ ctl'[c].detector = None /\ ctl'[c].moved = {}
          /\ ctl'[c].builder = None /\ \A u \in Unit : ctl'[c].units[u] = 0
      BY <3>1, NewControllers
    <3>3. QED
      BY Zenon, <2>1, <3>1, <3>2, <1>5 DEF ControllerOK, Commands
  <2>2. CASE c \notin N
    <3>1. ctl'[c] = ctl[c] /\ ControllerOK(c) /\ ctl[c].upcId \in 0 .. MaxUpc
      BY Zenon, <2>2, <1>1, <1>6, Fields
    <3>2. \A i \in Ids : task[i].ctl = c => i \notin N
      BY <1>1, <1>5, IdFacts DEF NoTask
    <3>3. \A i \in Ids : task[i].ctl = c => task'[i] = task[i] /\ (i \in onBoard' => i \in onBoard)
      BY Zenon, <3>2, <1>3, <1>6
    <3>4. onBoard' \subseteq Ids
      BY Zenon, <1>1, <1>3, <1>4
    <3>5. QED
      BY Zenon, <3>1, <3>3, <3>4, <1>3, Untouched
  <2>3. QED
    BY Zenon, <2>1, <2>2
<1>12. QED
  BY Zenon, <1>7, <1>8, <1>10, <1>11 DEF UInv

\* The units, with the task, that the ongoing tasks of c lose when those in D are dead.
LostUnits(c, D) ==
  {p \in Unit \X {i \in (onBoard \ removal) \cap TasksOf(c) : task[i].status = "Ongoing"} :
     p[1] \in Lost(p[2], D)}

\* ControllerTask::update: what an update of the board does to one task.
LEMMA BoardTasks ==
  ASSUME UInv, NEW D \in SUBSET (Unit \ dead), NEW k, BoardUpdate(D, k), NEW i \in Ids
  PROVE  /\ task'[i] \in Tasks /\ task'[i].ctl = task[i].ctl
         /\ task[i].status # "Ongoing" => task'[i] = task[i]
         /\ task[i].status = "Ongoing" =>
              /\ i \in onBoard \ removal
              /\ task'[i].units = task[i].units \ Lost(i, dead')
              /\ task'[i].status = IF ctl[task[i].ctl].succeeded THEN "Success"
                                   ELSE IF ctl[task[i].ctl].failed THEN "Failure" ELSE "Ongoing"
<1>1. /\ task[i] \in Tasks /\ TaskOK(i)
      /\ task'[i] = IF i \in onBoard \ removal THEN TaskUpdated(i, dead') ELSE task[i]
  BY Zenon DEF UInv, Types, BoardUpdate
<1>2. CASE task[i].status # "Ongoing"
  BY Zenon, <1>1, <1>2 DEF TaskUpdated
<1>3. CASE task[i].status = "Ongoing"
  <2>1. i \in onBoard \ removal
    BY Zenon, <1>1, <1>3 DEF TaskOK, Finished
  <2>2. PICK S, s : /\ S = task[i].units \ Lost(i, dead')
                    /\ s = IF ctl[task[i].ctl].succeeded THEN "Success"
                           ELSE IF ctl[task[i].ctl].failed THEN "Failure" ELSE "Ongoing"
    BY Zenon
  <2>3. task'[i] = [task[i] EXCEPT !.units = S, !.status = s]
    BY Zenon, <1>1, <1>3, <2>1, <2>2 DEF TaskUpdated
  <2>4. S \in SUBSET Unit /\ s \in TaskStatus
    BY Zenon, <1>1, <2>2, TaskFields DEF TaskStatus
  <2>5. /\ task'[i] \in Tasks /\ task'[i].ctl = task[i].ctl
        /\ task'[i].units = S /\ task'[i].status = s
    BY Zenon, <1>1, <2>3, <2>4 DEF Tasks
  <2>6. QED
    BY Zenon, <1>3, <2>1, <2>2, <2>5
<1>4. QED
  BY Zenon, <1>2, <1>3

\* The passing of a frame keeps a controller's units and tracker.
LEMMA AgedController ==
  ASSUME NEW k \in Controllers
  PROVE  /\ Aged(k) \in Controllers /\ SameUnits(k, Aged(k))
         /\ Aged(k).tracker = k.tracker /\ Aged(k).status = k.status
         /\ Aged(k).tracked = k.tracked /\ Aged(k).wait = k.wait
         /\ k.since < UpdateInterval => Aged(k).since = k.since + 1
         /\ ~(k.since < UpdateInterval) => Aged(k).since = k.since
<1>1. PICK s : s = IF k.since < UpdateInterval THEN k.since + 1 ELSE k.since
  BY Zenon
<1>2. s \in 0 .. UpdateInterval
  BY <1>1, Fields, BuilderAssumption
<1>3. PICK m : m = [k EXCEPT !.since = s]
  BY Zenon
<1>4. /\ m \in Controllers /\ SameUnits(k, m) /\ m.since = s
      /\ m.tracker = k.tracker /\ m.status = k.status /\ m.wait = k.wait /\ m.tracked = k.tracked
  BY Zenon, <1>2, <1>3 DEF Controllers, SameUnits
<1>5. Aged(k) = m
  BY Zenon, <1>1, <1>3 DEF Aged
<1>6. QED
  BY Zenon, <1>1, <1>4, <1>5

\* What an update of the board does to one controller: it is gone with its tasks,
\* or it loses the units that died or were taken.
LEMMA BoardControllers ==
  ASSUME UInv, NEW D \in SUBSET (Unit \ dead), NEW k, BoardUpdate(D, k), NEW c \in Ids
  PROVE  \/ onBoard' \cap TasksOf(c) = {} /\ ctl'[c] = NewController(0)
         \/ /\ onBoard' \cap TasksOf(c) # {} /\ c \in Builds
            /\ k[c] \in TrackerStates(ctl[c], dead')
            /\ k[c] \in Controllers /\ SameUnits(ctl[c], k[c])
            /\ ctl'[c] = Removed(Aged(k[c]), LostUnits(c, dead'))
<1>1. /\ ctl[c] \in Controllers /\ Types /\ (\A i \in Ids : TaskOK(i)) /\ dead' = dead \cup D
      /\ onBoard' = onBoard \ removal
      /\ \A d \in Builds : k[d] \in TrackerStates(ctl[d], dead')
  BY Zenon DEF UInv, Types, BoardUpdate
<1>2. ctl'[c] = IF onBoard' \cap TasksOf(c) = {} THEN NewController(0)
                ELSE Removed(Aged(k[c]), LostUnits(c, dead'))
  BY Zenon, <1>1 DEF BoardUpdate, LostUnits
<1>3. CASE onBoard' \cap TasksOf(c) # {}
  <2>1. PICK i : i \in Ids /\ i <= posted /\ task[i].ctl = c
    BY Zenon, <1>3, <1>1, Given
  <2>2. c \in Builds
    BY Zenon, <2>1, <1>1 DEF TaskOK
  <2>3. k[c] \in TrackerStates(ctl[c], dead')
    BY Zenon, <2>2, <1>1
  <2>4. k[c] \in Controllers /\ SameUnits(ctl[c], k[c])
    BY Zenon, <1>1, <2>3, TrackerMoves
  <2>5. QED
    BY Zenon, <1>2, <1>3, <2>2, <2>3, <2>4
<1>4. QED
  BY Zenon, <1>2, <1>3

\* An update of the board keeps the invariant.
LEMMA BoardStep ==
  ASSUME UInv, NEW D \in SUBSET (Unit \ dead), NEW k, BoardUpdate(D, k)
  PROVE  UInv'
<1>1. /\ Types /\ (\A i \in Ids : TaskOK(i)) /\ (\A d \in Ids : ControllerOK(d)) /\ LoopOK
      /\ task \in [Ids -> Tasks] /\ ctl \in [Ids -> Controllers]
      /\ onBoard \subseteq Ids /\ removal \subseteq onBoard /\ tasks = {} /\ stepped = {} /\ way = {}
  BY Zenon, IdFacts DEF UInv, Types, LoopOK, BoardUpdate
<1>2. /\ dead' = dead \cup D /\ onBoard' = onBoard \ removal /\ phase = "update" /\ phase' = "others"
      /\ removal' = {i \in onBoard' : Finished(task'[i])}
      /\ UNCHANGED <<posted, tasks, stepped, cur, way, orphaned>>
  BY Zenon DEF BoardUpdate, loopVars
<1>3. Types'
  <2>1. task' \in [Ids -> Tasks]
    <3>1. task' = [i \in Ids |-> IF i \in onBoard \ removal THEN TaskUpdated(i, dead') ELSE task[i]]
      BY Zenon DEF BoardUpdate
    <3>2. \A i \in Ids : task'[i] \in Tasks
      BY Zenon, BoardTasks
    <3>3. QED
      BY Zenon, <3>1, <3>2
  <2>2. ctl' \in [Ids -> Controllers]
    <3>1. ASSUME NEW c \in Ids PROVE ctl'[c] \in Controllers
      <4>1. 0 \in 0 .. MaxUpc
        BY BuilderAssumption
      <4>2. NewController(0) \in Controllers
        BY Zenon, <4>1, NewControllers
      <4>3. k[c] \in Controllers => Removed(Aged(k[c]), LostUnits(c, dead')) \in Controllers
        BY Zenon, AgedController, Removal
      <4>4. QED
        BY Zenon, <4>2, <4>3, BoardControllers
    <3>2. PICK h : ctl' = [c \in Ids |-> h[c]]
      <4>1. ctl' = [c \in Ids |-> ctl'[c]]
        BY Zenon DEF BoardUpdate
      <4>2. QED
        BY Zenon, <4>1
    <3>3. QED
      BY Zenon, <3>1, <3>2
  <2>3. onBoard' \subseteq 1 .. posted' /\ removal' \subseteq onBoard' /\ tasks' \subseteq onBoard'
        /\ dead' \subseteq Unit /\ posted' \in 0 .. MaxUpc
    BY Zenon, <1>1, <1>2 DEF Types
  <2>4. byUnit' \in [Unit -> onBoard' \cup {None, Other}]
    <3>1. byUnit' = [u \in Unit |->
            IF u \in dead' THEN None
            ELSE IF byUnit[u] \in Ids /\ (byUnit[u] \notin onBoard' \/ u \notin task'[byUnit[u]].units)
                 THEN None ELSE byUnit[u]]
      BY Zenon, <1>2 DEF BoardUpdate
    <3>2. \A u \in Unit : byUnit[u] \in onBoard \cup {None, Other}
      BY Zenon, <1>1 DEF Types
    <3>3. QED
      BY Zenon, <1>1, <3>1, <3>2
  <2>5. age' \in [Ids -> Nat]
    <3>1. PICK P : age' = [c \in Ids |-> IF P[c] THEN age[c] + 1 ELSE age[c]]
      <4>1. age' = [c \in Ids |-> IF [d \in Ids |->
               d \in Builds /\ (\E i \in TasksOf(d) : task[i].status = "Cancelled")
               /\ age[d] <= EndsWithin + Cardinality(Unit)][c] THEN age[c] + 1 ELSE age[c]]
        BY Zenon DEF BoardUpdate
      <4>2. QED
        BY Zenon, <4>1
    <3>2. age \in [Ids -> Nat]
      BY Zenon, <1>1 DEF Types
    <3>3. QED
      BY <3>1, <3>2
  <2>6. QED
    BY Zenon, <2>1, <2>2, <2>3, <2>4, <2>5 DEF Types
<1>4. LoopOK'
  BY Zenon, <1>1, <1>2 DEF LoopOK, StepPhases
<1>5. ASSUME NEW i \in Ids PROVE TaskOK(i)'
  <2>1. TaskOK(i) /\ task'[i].ctl = task[i].ctl
    BY Zenon, <1>1, BoardTasks
  <2>2. Builds' = Builds
    <3>1. \A j \in 1 .. posted : j \in Ids
      BY Zenon, <1>1, IdFacts
    <3>2. posted' = posted /\ \A j \in 1 .. posted : task'[j].ctl = task[j].ctl
      BY Zenon, <1>2, <3>1, BoardTasks
    <3>3. QED
      BY Zenon, <3>2 DEF Builds
  <2>3. CASE task[i].status # "Ongoing"
    <3>1. task'[i] = task[i]
      BY Zenon, <2>3, BoardTasks
    <3>2. QED
      BY Zenon, <2>1, <2>2, <2>3, <3>1, <1>2 DEF TaskOK
  <2>4. CASE task[i].status = "Ongoing"
    <3>1. /\ i \in onBoard \ removal /\ task'[i].units = task[i].units \ Lost(i, dead')
          /\ task'[i].status # "Unknown"
      BY Zenon, <2>4, BoardTasks
    <3>2. ~(i > posted)
      BY <2>1, <2>4 DEF TaskOK, NoTask
    <3>3. task'[i].units \cap dead' = {}
      BY Zenon, <3>1 DEF Lost
    <3>4. QED
      BY Zenon, <2>1, <2>2, <3>1, <3>2, <3>3, <1>2 DEF TaskOK
  <2>5. QED
    BY Zenon, <2>3, <2>4
<1>6. ASSUME NEW c \in Ids PROVE ControllerOK(c)'
  <2>1. CASE ctl'[c] = NewController(0)
    <3>1. /\ ctl'[c].upcId = 0 /\ ctl'[c].detector = None /\ ctl'[c].moved = {}
          /\ ctl'[c].builder = None /\ \A u \in Unit : ctl'[c].units[u] = 0
      BY <2>1, NewControllers, BuilderAssumption
    <3>2. \A u \in Unit : u # None
      BY Zenon, BuilderAssumption
    <3>3. QED
      BY Zenon, <3>1, <3>2 DEF ControllerOK, Commands
  <2>2. CASE /\ c \in Builds /\ k[c] \in Controllers /\ SameUnits(ctl[c], k[c])
             /\ ctl'[c] = Removed(Aged(k[c]), LostUnits(c, dead'))
    <3>1. /\ ControllerOK(c) /\ Aged(k[c]) \in Controllers /\ SameUnits(ctl[c], Aged(k[c]))
          /\ ctl[c].upcId \in 0 .. MaxUpc
      BY Zenon, <1>1, <2>2, AgedController, Fields DEF SameUnits
    <3>2. ctl[c].upcId \in Ids \cup {0}
      BY <3>1 DEF Ids
    <3>3. ctl'[c].upcId = ctl[c].upcId
      <4>1. Removed(Aged(k[c]), LostUnits(c, dead')).upcId = Aged(k[c]).upcId
        BY Zenon, <3>1, Removal
      <4>2. QED
        BY Zenon, <4>1, <3>1, <2>2 DEF SameUnits
    <3>4. ctl[c].upcId # 0 => task'[ctl[c].upcId].ctl = c
      <4>1. ctl[c].upcId # 0 => ctl[c].upcId \in Ids /\ task[ctl[c].upcId].ctl = c
        BY Zenon, <3>1, <3>2 DEF ControllerOK
      <4>2. QED
        BY Zenon, <4>1, BoardTasks
    <3>5. Over(c) \/ ctl[c].succeeded \/ ctl[c].failed => Over(c)'
      <4>1. CASE ctl[c].upcId \notin onBoard'
        BY Zenon, <4>1, <3>3 DEF Over
      <4>2. CASE ctl[c].upcId \in onBoard'
        <5>1. ctl[c].upcId \in onBoard /\ ctl[c].upcId \in Ids /\ ctl[c].upcId # 0
          BY Zenon, <4>2, <1>1, <1>2, IdFacts
        <5>2. task[ctl[c].upcId].ctl = c
          BY Zenon, <5>1, <3>1 DEF ControllerOK
        <5>3. Over(c) \/ ctl[c].succeeded \/ ctl[c].failed => task'[ctl[c].upcId].status # "Ongoing"
          BY Zenon, <5>1, <5>2, BoardTasks DEF Over
        <5>4. QED
          BY Zenon, <5>3, <3>3 DEF Over
      <4>3. QED
        BY Zenon, <4>1, <4>2
    <3>6. ASSUME NEW u \in Unit, Holds(c, u)
          PROVE  \/ Over(c)' \/ <<u, ctl[c].units[u]>> \in LostUnits(c, dead')
                 \/ /\ task'[ctl[c].units[u]].ctl = c
                    /\ task'[ctl[c].units[u]].status = "Ongoing"
                    /\ u \in task'[ctl[c].units[u]].units
      <4>1. PICK i : i = ctl[c].units[u]
        BY Zenon
      <4>2. i \in Ids /\ task[i].ctl = c /\ task[i].status = "Ongoing" /\ u \in task[i].units
        BY Zenon, <3>6, <4>1 DEF Holds
      <4>3. /\ i \in onBoard \ removal /\ task'[i].ctl = c
            /\ task'[i].units = task[i].units \ Lost(i, dead')
            /\ task'[i].status = "Ongoing" \/ ctl[c].succeeded \/ ctl[c].failed
        BY Zenon, <4>2, BoardTasks
      <4>4. CASE u \in Lost(i, dead')
        <5>1. i \in TasksOf(c)
          BY Zenon, <4>2, <1>1, Given
        <5>2. <<u, i>> \in LostUnits(c, dead')
          BY Zenon, <4>2, <4>3, <4>4, <5>1 DEF LostUnits
        <5>3. QED
          BY Zenon, <5>2, <4>1
      <4>5. CASE u \notin Lost(i, dead')
        BY Zenon, <4>1, <4>2, <4>3, <4>5, <3>5
      <4>6. QED
        BY Zenon, <4>4, <4>5
    <3>7. QED
      BY Zenon, <2>2, <3>1, <3>4, <3>5, <3>6, <1>2, RemoveUnits
  <2>3. QED
    BY Zenon, <2>1, <2>2, BoardControllers
<1>7. QED
  BY Zenon, <1>3, <1>4, <1>5, <1>6 DEF UInv

-----------------------------------------------------------------------------
(* One step of the system.                                                  *)

\* The controller that is being stepped.
LEMMA Stepping ==
  ASSUME UInv, phase \in StepPhases
  PROVE  /\ cur \in Builds /\ cur \in Ids /\ ctl[cur] \in Controllers
         /\ cur \in stepped /\ stepped \subseteq Builds /\ ctl \in [Ids -> Controllers]
         /\ ControllerOK(cur)
BY Zenon, Given DEF UInv, Types, LoopOK

\* A part of a controller's step that changes no units keeps the invariant.
LEMMA ContinueStep ==
  ASSUME UInv, phase \in StepPhases, way = {},
         NEW k \in Controllers, SameUnits(ctl[cur], k), ctl' = [ctl EXCEPT ![cur] = k],
         phase' \in {"builder", "release", "find", "act"},
         UNCHANGED <<boardVars, dead, loopVars, cur, way, orphaned, age>>
  PROVE  UInv'
<1>1. /\ cur \in Builds /\ cur \in Ids /\ ctl[cur] \in Controllers
      /\ cur \in stepped /\ stepped \subseteq Builds /\ ctl \in [Ids -> Controllers]
  BY Zenon, Stepping
<1>2. UNCHANGED <<posted, task, onBoard, removal, byUnit, dead, tasks, stepped, cur, way, orphaned, age>>
  BY Zenon DEF boardVars, loopVars
<1>3. LoopOK'
  <2>1. Builds' = Builds
    BY Zenon, <1>2 DEF Builds
  <2>2. phase' # "clear" /\ phase' \notin {"update", "others"}
    BY Zenon
  <2>3. QED
    BY Zenon, <1>1, <1>2, <2>1, <2>2 DEF LoopOK
<1>4. ctl' \in [Ids -> Controllers] /\ \A c \in Ids : SameUnits(ctl[c], ctl'[c])
  BY Zenon, <1>1 DEF SameUnits
<1>5. byUnit' \in [Unit -> onBoard \cup {None, Other}]
  BY Zenon, <1>2 DEF UInv, Types
<1>6. QED
  BY Zenon, <1>2, <1>3, <1>4, <1>5, QuietStep

\* Starting a full step resets the timing and keeps the units.
LEMMA Throttling ==
  ASSUME NEW k \in Controllers
  PROVE  /\ Throttle(k) \in Controllers /\ SameUnits(k, Throttle(k))
         /\ Throttle(k).tracker = k.tracker /\ Throttle(k).status = k.status
         /\ Throttle(k).tracked = k.tracked /\ Throttle(k).wait = k.wait
         /\ ~Throttled(k) => Throttle(k).since = 0
         /\ Throttled(k) => Throttle(k) = k
<1>1. 0 \in 0 .. UpdateInterval
  BY BuilderAssumption
<1>2. CASE Throttled(k)
  BY Zenon, <1>2 DEF Throttle, SameUnits
<1>3. CASE ~Throttled(k)
  <2>1. Throttle(k) = [k EXCEPT !.since = 0]
    BY Zenon, <1>3 DEF Throttle
  <2>2. PICK m : m = [k EXCEPT !.since = 0]
    BY Zenon
  <2>3. /\ m \in Controllers /\ SameUnits(k, m) /\ m.since = 0
        /\ m.tracker = k.tracker /\ m.status = k.status /\ m.wait = k.wait /\ m.tracked = k.tracked
    BY Zenon, <1>1, <2>2 DEF Controllers, SameUnits
  <2>4. QED
    BY Zenon, <1>3, <2>1, <2>2, <2>3
<1>4. QED
  BY Zenon, <1>2, <1>3

\* The results of the tracker that a step looks at keep the units.
LEMMA TrackerChecked ==
  ASSUME NEW k \in Controllers
  PROVE  /\ Due(NoTracker(k)) \in Controllers /\ SameUnits(k, Due(NoTracker(k)))
         /\ Due(NoTracker(k)).tracker = "none" /\ Due(NoTracker(k)).since = UpdateInterval
         /\ [NoTracker(k) EXCEPT !.failed = TRUE] \in Controllers
         /\ SameUnits(k, [NoTracker(k) EXCEPT !.failed = TRUE])
<1>1. UpdateInterval \in 0 .. UpdateInterval
  BY BuilderAssumption
<1>2. PICK n : n = NoTracker(k)
  BY Zenon
<1>3. n \in Controllers /\ SameUnits(k, n) /\ n.tracker = "none"
  BY Zenon, <1>2, Untracked
<1>4. PICK m : m = [n EXCEPT !.since = UpdateInterval]
  BY Zenon
<1>5. m \in Controllers /\ SameUnits(n, m) /\ m.tracker = n.tracker /\ m.since = UpdateInterval
  BY Zenon, <1>1, <1>3, <1>4 DEF Controllers, SameUnits
<1>6. Due(NoTracker(k)) = m
  BY Zenon, <1>2, <1>4 DEF Due
<1>7. [n EXCEPT !.failed = TRUE] \in Controllers /\ SameUnits(n, [n EXCEPT !.failed = TRUE])
  BY Zenon, <1>3, Ended
<1>8. QED
  BY Zenon, <1>2, <1>3, <1>5, <1>6, <1>7 DEF SameUnits

\* Moving one unit out of the way uses one of the UPC ids set aside for it.
LEMMA WayShrinks ==
  ASSUME UInv, NEW u \in way
  PROVE  /\ Cardinality(way) \in Nat /\ Cardinality(way \ {u}) = Cardinality(way) - 1
         /\ Cardinality(way) > 0
<1>1. IsFiniteSet(way)
  BY Zenon, FS_Subset, BuilderAssumption DEF UInv, LoopOK
<1>2. Cardinality(way) \in Nat /\ Cardinality(way \ {u}) \in Nat
  BY Zenon, <1>1, FS_CardinalityType, FS_RemoveElement
<1>3. Cardinality(way \ {u}) = Cardinality(way) - 1
  BY Zenon, <1>1, FS_RemoveElement
<1>4. QED
  BY <1>2, <1>3

\* The check of the location and of the tracker keeps the invariant.
LEMMA CheckUInv ==
  ASSUME UInv, LocationInvalid \/ CheckTracker
  PROVE  UInv'
<1>1. phase = "check" /\ phase \in StepPhases /\ way = {}
  BY Zenon DEF LocationInvalid, CheckTracker, StepPhases, UInv, LoopOK
<1>2. /\ cur \in Builds /\ cur \in Ids /\ ctl[cur] \in Controllers
  BY Zenon, <1>1, Stepping
<1>3. \E k \in {ctl[cur], [ctl[cur] EXCEPT !.failed = TRUE], [ctl[cur] EXCEPT !.succeeded = TRUE],
                Due(NoTracker(ctl[cur])), NoTracker(ctl[cur]),
                [NoTracker(ctl[cur]) EXCEPT !.failed = TRUE]} :
        Continue(k, "builder") \/ Continue(k, "release")
  BY Zenon DEF LocationInvalid, CheckTracker
<1>4. PICK k : /\ k \in Controllers /\ SameUnits(ctl[cur], k)
               /\ Continue(k, "builder") \/ Continue(k, "release")
  <2>1. SameUnits(ctl[cur], ctl[cur])
    BY Zenon DEF SameUnits
  <2>2. /\ [ctl[cur] EXCEPT !.failed = TRUE] \in Controllers
        /\ SameUnits(ctl[cur], [ctl[cur] EXCEPT !.failed = TRUE])
        /\ [ctl[cur] EXCEPT !.succeeded = TRUE] \in Controllers
        /\ SameUnits(ctl[cur], [ctl[cur] EXCEPT !.succeeded = TRUE])
    BY Zenon, <1>2, Ended
  <2>3. /\ NoTracker(ctl[cur]) \in Controllers /\ SameUnits(ctl[cur], NoTracker(ctl[cur]))
        /\ Due(NoTracker(ctl[cur])) \in Controllers
        /\ SameUnits(ctl[cur], Due(NoTracker(ctl[cur])))
        /\ [NoTracker(ctl[cur]) EXCEPT !.failed = TRUE] \in Controllers
        /\ SameUnits(ctl[cur], [NoTracker(ctl[cur]) EXCEPT !.failed = TRUE])
    BY Zenon, <1>2, Untracked, TrackerChecked
  <2>4. QED
    BY Zenon, <1>2, <1>3, <2>1, <2>2, <2>3
<1>5. /\ ctl' = [ctl EXCEPT ![cur] = k] /\ phase' \in {"builder", "release", "find", "act"}
      /\ UNCHANGED <<boardVars, dead, loopVars, cur, way, orphaned, age>>
  BY Zenon, <1>4 DEF Continue
<1>6. QED
  BY Zenon, <1>1, <1>4, <1>5, ContinueStep

\* Releasing units, also through movedUnits_, keeps the invariant.
LEMMA ReleaseUInv ==
  ASSUME UInv, NEW give \in BOOLEAN, Release(give)
  PROVE  UInv'
<1>1. phase = "release" /\ phase \in StepPhases /\ way = {}
  BY Zenon DEF Release, StepPhases, UInv, LoopOK
<1>2. /\ cur \in Builds /\ cur \in Ids /\ ctl[cur] \in Controllers
      /\ cur \in stepped /\ stepped \subseteq Builds
  BY Zenon, <1>1, Stepping
<1>3. PICK k : /\ k = Throttle(ctl[cur]) /\ k \in Controllers /\ SameUnits(ctl[cur], k)
  BY Zenon, <1>2, Throttling
<1>4. /\ phase' \in {"builder", "find"} /\ phase' \in {"builder", "release", "find", "act"}
      /\ UNCHANGED <<posted, onBoard, removal, dead, tasks, stepped, cur, way, age>>
  BY Zenon DEF Release, loopVars
<1>5. CASE give
  <2>1. ReleaseMoved(cur, k)
    BY Zenon, <1>3, <1>5 DEF Release
  <2>2. (Builds \subseteq Builds') => LoopOK'
    BY Zenon, <1>1, <1>2, <1>4 DEF LoopOK
  <2>3. QED
    BY Zenon, <1>2, <1>3, <1>4, <2>1, <2>2, ReleaseStep
<1>6. CASE ~give
  <2>1. ctl' = [ctl EXCEPT ![cur] = k] /\ UNCHANGED <<task, byUnit, orphaned>>
    BY Zenon, <1>3, <1>6 DEF Release
  <2>2. UNCHANGED <<boardVars, dead, loopVars, cur, way, orphaned, age>>
    BY Zenon, <1>4, <2>1 DEF boardVars, loopVars
  <2>3. QED
    BY Zenon, <1>1, <1>3, <1>4, <2>1, <2>2, ContinueStep
<1>7. QED
  BY Zenon, <1>5, <1>6

\* Taking a builder or a detector keeps the invariant.
LEMMA FindUInv ==
  ASSUME UInv, NEW u \in Unit, Find(u) \/ FindDetector(u)
  PROVE  UInv'
<1>1. phase \in {"find", "act"} /\ phase \in StepPhases /\ way = {}
  BY Zenon DEF Find, FindDetector, StepPhases, UInv, LoopOK
<1>2. /\ cur \in Builds /\ cur \in Ids /\ ctl[cur] \in Controllers
      /\ cur \in stepped /\ stepped \subseteq Builds /\ ControllerOK(cur)
  BY Zenon, <1>1, Stepping
<1>3. /\ posted < MaxUpc /\ u \in Unit \ dead /\ phase' = "act"
      /\ UNCHANGED <<removal, dead, tasks, stepped, cur, way, orphaned, age>>
  BY Zenon, <1>1 DEF Find, FindDetector, loopVars
<1>4. (Builds \subseteq Builds') => LoopOK'
  BY Zenon, <1>1, <1>2, <1>3 DEF LoopOK
<1>5. PICK k \in Controllers :
        /\ Grab(cur, u, k) /\ k.upcId = ctl[cur].upcId /\ k.units = ctl[cur].units
        /\ k.detector # None => k.detector \in Detector
        /\ k.moved \cap Detector = {}
        /\ \A v \in Unit : v = k.builder \/ v = k.detector =>
             v = u \/ v = ctl[cur].builder \/ v = ctl[cur].detector
  <2>1. CASE Find(u)
    <3>1. PICK m : m = [ctl[cur] EXCEPT !.builder = u]
      BY Zenon
    <3>2. /\ m \in Controllers /\ m.builder = u /\ m.detector = ctl[cur].detector
          /\ m.units = ctl[cur].units /\ m.moved = ctl[cur].moved /\ m.upcId = ctl[cur].upcId
      BY Zenon, <3>1, <1>2 DEF Controllers
    <3>3. QED
      BY Zenon, <2>1, <3>1, <3>2, <1>2 DEF Find, ControllerOK
  <2>2. CASE FindDetector(u)
    <3>1. PICK m : m = [ctl[cur] EXCEPT !.detector = u]
      BY Zenon
    <3>2. /\ m \in Controllers /\ m.detector = u /\ m.builder = ctl[cur].builder
          /\ m.units = ctl[cur].units /\ m.moved = ctl[cur].moved /\ m.upcId = ctl[cur].upcId
      BY Zenon, <3>1, <1>2 DEF Controllers
    <3>3. QED
      BY Zenon, <2>2, <3>1, <3>2, <1>2 DEF FindDetector, ControllerOK
  <2>3. QED
    BY Zenon, <2>1, <2>2
<1>6. QED
  BY SMTT(20), <1>2, <1>3, <1>4, <1>5, GrabStep

\* Moving the builder and starting the building keep the invariant.
LEMMA ActUInv ==
  ASSUME UInv, NoFind \/ Idle \/ MoveBuilder \/ StartBuilding
  PROVE  UInv'
<1>1. phase \in StepPhases /\ way = {}
  BY Zenon DEF NoFind, Idle, MoveBuilder, StartBuilding, StepPhases, UInv, LoopOK
<1>2. /\ cur \in Builds /\ cur \in Ids /\ ctl[cur] \in Controllers
  BY Zenon, <1>1, Stepping
<1>3. \E k \in {ctl[cur], Track(ctl[cur], "move"), Track(ctl[cur], "build")} :
        Continue(k, "builder") \/ Continue(k, "act")
  BY Zenon DEF NoFind, Idle, MoveBuilder, StartBuilding
<1>4. PICK k : /\ k \in Controllers /\ SameUnits(ctl[cur], k)
               /\ Continue(k, "builder") \/ Continue(k, "act")
  <2>1. SameUnits(ctl[cur], ctl[cur])
    BY Zenon DEF SameUnits
  <2>2. /\ Track(ctl[cur], "move") \in Controllers /\ SameUnits(ctl[cur], Track(ctl[cur], "move"))
        /\ Track(ctl[cur], "build") \in Controllers /\ SameUnits(ctl[cur], Track(ctl[cur], "build"))
    BY Zenon, <1>2, Tracking
  <2>3. QED
    BY Zenon, <1>2, <1>3, <2>1, <2>2
<1>5. /\ ctl' = [ctl EXCEPT ![cur] = k] /\ phase' \in {"builder", "release", "find", "act"}
      /\ UNCHANGED <<boardVars, dead, loopVars, cur, way, orphaned, age>>
  BY Zenon, <1>4 DEF Continue
<1>6. QED
  BY Zenon, <1>1, <1>4, <1>5, ContinueStep

\* Clearing the location keeps the invariant.
LEMMA ClearUInv ==
  ASSUME UInv, \/ \E W \in SUBSET Unit : AtLocation(W)
               \/ \E u \in Unit : MoveAway(u)
               \/ KillBlocking
  PROVE  UInv'
<1>1. phase \in {"act", "clear"} /\ phase \in StepPhases
  BY Zenon DEF AtLocation, MoveAway, KillBlocking, StepPhases
<1>2. /\ cur \in Builds /\ cur \in Ids /\ ctl[cur] \in Controllers
      /\ cur \in stepped /\ stepped \subseteq Builds /\ ControllerOK(cur)
  BY Zenon, <1>1, Stepping
<1>3. ASSUME NEW W \in SUBSET Unit, AtLocation(W) PROVE UInv'
  <2>1. /\ way' = W /\ phase' = "clear" /\ W \subseteq Unit \ (Detector \cup dead)
        /\ posted + Cardinality(W) <= MaxUpc
        /\ UNCHANGED <<posted, task, onBoard, removal, byUnit, ctl,
                       dead, tasks, stepped, cur, orphaned, age>>
    BY Zenon, <1>3 DEF AtLocation, boardVars, loopVars
  <2>2. Builds' = Builds
    BY Zenon, <2>1 DEF Builds
  <2>3. LoopOK'
    BY Zenon, <1>2, <2>1, <2>2 DEF LoopOK
  <2>4. ctl' \in [Ids -> Controllers] /\ byUnit' \in [Unit -> onBoard \cup {None, Other}]
    BY Zenon, <2>1 DEF UInv, Types
  <2>5. \A c \in Ids : SameUnits(ctl[c], ctl'[c])
    BY Zenon, <2>1 DEF SameUnits
  <2>6. QED
    BY Zenon, <2>1, <2>3, <2>4, <2>5, QuietStep
<1>4. ASSUME NEW u \in Unit, MoveAway(u) PROVE UInv'
  <2>1. PICK k : k = [ctl[cur] EXCEPT !.moved = @ \cup {u}]
    BY Zenon
  <2>2. /\ phase = "clear" /\ phase' = "clear" /\ u \in way /\ way' = way \ {u}
        /\ Grab(cur, u, k)
        /\ UNCHANGED <<removal, dead, tasks, stepped, cur, orphaned, age>>
    BY Zenon, <1>4, <2>1 DEF MoveAway, loopVars
  <2>3. /\ way \subseteq Unit \ (Detector \cup dead) /\ posted + Cardinality(way) <= MaxUpc
        /\ posted \in 0 .. MaxUpc
    BY Zenon, <2>2 DEF UInv, LoopOK, Types
  <2>4. /\ k \in Controllers /\ k.detector = ctl[cur].detector /\ k.builder = ctl[cur].builder
        /\ k.units = ctl[cur].units /\ k.moved = ctl[cur].moved \cup {u}
        /\ k.upcId = ctl[cur].upcId
    BY Zenon, <2>1, <1>2 DEF Controllers
  <2>5. posted' = posted \/ posted' = posted + 1
    BY Zenon, <2>2 DEF Grab
  <2>6. posted < MaxUpc /\ posted' + Cardinality(way \ {u}) <= MaxUpc
    BY SMTT(20), <2>2, <2>3, <2>5, WayShrinks, BuilderAssumption
  <2>7. (Builds \subseteq Builds') => LoopOK'
    BY Zenon, <1>2, <2>2, <2>3, <2>6 DEF LoopOK
  <2>8. /\ k.detector # None => k.detector \in Detector
        /\ k.moved \cap Detector = {}
        /\ u \in Unit \ dead
    BY Zenon, <1>2, <2>2, <2>3, <2>4 DEF ControllerOK
  <2>9. \A v \in Unit : v = k.builder \/ v = k.detector =>
             v = u \/ v = ctl[cur].builder \/ v = ctl[cur].detector
    BY Zenon, <2>4
  <2>10. QED
    BY SMTT(20), <1>2, <2>2, <2>4, <2>6, <2>7, <2>8, <2>9, GrabStep
<1>5. CASE KillBlocking
  <2>1. /\ way = {} /\ phase' = "builder" /\ ReleaseMoved(cur, ctl[cur])
        /\ UNCHANGED <<posted, onBoard, removal, dead, tasks, stepped, cur, way, age>>
    BY Zenon, <1>5 DEF KillBlocking, loopVars
  <2>2. SameUnits(ctl[cur], ctl[cur])
    BY Zenon DEF SameUnits
  <2>3. (Builds \subseteq Builds') => LoopOK'
    BY Zenon, <1>2, <2>1 DEF LoopOK, StepPhases
  <2>4. QED
    BY Zenon, <1>2, <2>1, <2>2, <2>3, ReleaseStep
<1>6. QED
  BY Zenon, <1>3, <1>4, <1>5

\* What other modules do between the update and the step keeps the invariant.
LEMMA OthersUInv ==
  ASSUME UInv, Others
  PROVE  UInv'
<1>1. ASSUME NEW c \in Ids, CancelBuild(c) PROVE UInv'
  <2>1. /\ phase = "others" /\ CancelTasks({c}) /\ {c} \in SUBSET Ids
        /\ UNCHANGED <<posted, onBoard, removal, byUnit, dead, phase, tasks, stepped, cur, way,
                       orphaned, age>>
    BY Zenon, <1>1 DEF CancelBuild, loopVars
  <2>2. (Builds \subseteq Builds') => LoopOK'
    BY Zenon, <2>1 DEF UInv, LoopOK, StepPhases
  <2>3. QED
    BY Zenon, <2>1, <2>2, CancelStep
<1>2. ASSUME NEW u \in Unit, NEW t \in {None, Other}, OtherTask(u, t) PROVE UInv'
  <2>1. /\ byUnit' = [byUnit EXCEPT ![u] = t]
        /\ UNCHANGED <<posted, task, ctl, onBoard, removal, dead, phase, tasks, stepped, cur, way,
                       orphaned, age>>
    BY Zenon, <1>2 DEF OtherTask, loopVars
  <2>2. Builds' = Builds
    BY Zenon, <2>1 DEF Builds
  <2>3. LoopOK'
    BY Zenon, <2>1, <2>2 DEF UInv, LoopOK
  <2>4. ctl' \in [Ids -> Controllers] /\ byUnit' \in [Unit -> onBoard \cup {None, Other}]
    BY Zenon, <2>1 DEF UInv, Types
  <2>5. \A c \in Ids : SameUnits(ctl[c], ctl'[c])
    BY Zenon, <2>1 DEF SameUnits
  <2>6. QED
    BY Zenon, <2>1, <2>3, <2>4, <2>5, QuietStep
<1>3. QED
  BY Zenon, <1>1, <1>2 DEF Others

\* The loop of BuilderModule::step keeps the invariant.
LEMMA LoopUInv ==
  ASSUME UInv, Loop
  PROVE  UInv'
<1>1. ASSUME NEW c \in Ids, StartStep(c) PROVE UInv'
  <2>1. /\ phase = "builder" /\ phase' \in {"builder", "check"} /\ c \in Listed
        /\ stepped' = stepped \cup {c} /\ cur' = c
        /\ UNCHANGED <<posted, task, onBoard, removal, byUnit, ctl, dead, tasks, way, orphaned, age>>
    BY Zenon, <1>1 DEF StartStep, boardVars
  <2>2. Builds' = Builds
    BY Zenon, <2>1 DEF Builds
  <2>3. c \in Builds
    <3>1. PICK i \in tasks : task[i].ctl = c
      BY Zenon, <2>1 DEF Listed
    <3>2. i \in Ids /\ i <= posted
      BY Zenon, IdFacts DEF UInv, Types
    <3>3. QED
      BY Zenon, <3>1, <3>2 DEF UInv, TaskOK
  <2>4. LoopOK'
    <3>1. phase' # "clear" /\ phase' \notin {"update", "others"} /\ phase # "clear"
      BY Zenon, <2>1
    <3>2. QED
      BY Zenon, <2>1, <2>2, <2>3, <3>1 DEF UInv, LoopOK
  <2>5. ctl' \in [Ids -> Controllers] /\ byUnit' \in [Unit -> onBoard \cup {None, Other}]
    BY Zenon, <2>1 DEF UInv, Types
  <2>6. \A d \in Ids : SameUnits(ctl[d], ctl'[d])
    BY Zenon, <2>1 DEF SameUnits
  <2>7. QED
    BY Zenon, <2>1, <2>4, <2>5, <2>6, QuietStep
<1>2. CASE EndLoop
  <2>1. PICK I : I = UNION {Siblings(c) : c \in Listed}
    BY Zenon
  <2>2. /\ phase = "builder" /\ phase' = "update" /\ CancelTasks(I) /\ tasks' = {} /\ stepped' = {}
        /\ UNCHANGED <<posted, onBoard, removal, byUnit, dead, way, orphaned, age>>
    BY Zenon, <1>2, <2>1 DEF EndLoop
  <2>3. I \in SUBSET Ids
    <3>1. \A c : Siblings(c) \subseteq tasks
      BY Zenon DEF Siblings
    <3>2. QED
      BY Zenon, <2>1, <3>1, IdFacts DEF UInv
  <2>4. (Builds \subseteq Builds') => LoopOK'
    BY Zenon, <2>2 DEF UInv, LoopOK, StepPhases
  <2>5. QED
    BY Zenon, <2>2, <2>3, <2>4, CancelStep
<1>3. QED
  BY Zenon, <1>1, <1>2, BeginStep DEF Loop

\* UInv is inductive.
LEMMA NextUInv == UInv /\ [Next]_vars => UInv'
<1> SUFFICES ASSUME UInv, [Next]_vars PROVE UInv'
  BY Zenon
<1>1. CASE Update
  BY Zenon, <1>1, BoardStep DEF Update
<1>2. CASE Step
  BY Zenon, <1>2, CheckUInv, ReleaseUInv, FindUInv, ActUInv, ClearUInv DEF Step
<1>3. CASE UNCHANGED vars
  <2>1. UNCHANGED <<posted, task, ctl, onBoard, removal, byUnit, dead, phase, tasks, stepped, cur,
                    way, orphaned, age>>
    BY Zenon, <1>3 DEF vars
  <2>2. Builds' = Builds
    BY Zenon, <2>1 DEF Builds
  <2>3. LoopOK'
    BY Zenon, <2>1, <2>2 DEF UInv, LoopOK
  <2>4. ctl' \in [Ids -> Controllers] /\ byUnit' \in [Unit -> onBoard \cup {None, Other}]
    BY Zenon, <2>1 DEF UInv, Types
  <2>5. \A c \in Ids : SameUnits(ctl[c], ctl'[c])
    BY Zenon, <2>1 DEF SameUnits
  <2>6. QED
    BY Zenon, <2>1, <2>3, <2>4, <2>5, QuietStep
<1>4. QED
  BY Zenon, <1>1, <1>2, <1>3, OthersUInv, LoopUInv DEF Next

\* What a controller knows of its units is always right: whatever it commands is
\* held by an ongoing task of its own, or was released through movedUnits_, or the
\* controller takes no more units.
THEOREM Invariance == Spec => []UInv
BY PTL, InitUInv, NextUInv DEF Spec

\* Nothing but the update happens at the beginning of a frame.
LEMMA OnlyUpdate ==
  ASSUME Next, phase = "update"
  PROVE  Update
<1>1. ~Others
  BY Zenon DEF Others, CancelBuild, OtherTask
<1>2. ~Loop
  BY Zenon DEF Loop, Begin, StartStep, EndLoop
<1>3. ~Step
  BY Zenon DEF Step, LocationInvalid, CheckTracker, Release, NoFind, Find, FindDetector, Idle,
               MoveBuilder, AtLocation, MoveAway, KillBlocking, StartBuilding
<1>4. QED
  BY Zenon, <1>1, <1>2, <1>3 DEF Next

\* After an update every unit that is held by an ongoing task is mapped to it, so
\* controllers command their own units.
LEMMA UpdatedUnits ==
  ASSUME UInv, UInv', NEW D \in SUBSET (Unit \ dead), NEW k, BoardUpdate(D, k)
  PROVE  OwnUnits'
<1> SUFFICES ASSUME NEW c \in Builds', NEW u \in Unit, Commands(c, u)', ~Over(c)',
                    <<c, u>> \notin orphaned'
             PROVE  byUnit'[u] \in TasksOf(c)'
  BY Zenon DEF OwnUnits, Commands, Over
<1>1. c \in Ids /\ \A i \in Ids : task'[i].ctl = c => i \in TasksOf(c)'
  <2>1. posted' = posted /\ \A i \in Ids : i \in 1 .. posted \/ task'[i] = NoTask
    <3>1. posted' = posted /\ \A i \in Ids : i \in 1 .. posted \/ i > posted
      BY Zenon, IdFacts DEF BoardUpdate, UInv
    <3>2. QED
      BY Zenon, <3>1 DEF UInv, TaskOK
  <2>2. c \in Ids
    BY Zenon, <2>1, IdFacts DEF UInv, Builds
  <2>3. ASSUME NEW i \in Ids, task'[i].ctl = c PROVE i \in TasksOf(c)'
    <3>1. task'[i] # NoTask
      BY SMTT(20), <2>2, <2>3 DEF NoTask, Ids
    <3>2. QED
      BY Zenon, <2>1, <2>3, <3>1 DEF TasksOf
  <2>4. QED
    BY Zenon, <2>2, <2>3
<1>2. PICK i : i = ctl'[c].units[u]
  BY Zenon
<1>3. i \in Ids /\ task'[i].ctl = c /\ task'[i].status = "Ongoing" /\ u \in task'[i].units
  <2>1. ControllerOK(c)'
    BY Zenon, <1>1 DEF UInv
  <2>2. Holds(c, u)'
    BY Zenon, <2>1 DEF ControllerOK
  <2>3. QED
    BY Zenon, <1>2, <2>2 DEF Holds
<1>4. task[i].status = "Ongoing"
  BY Zenon, <1>3, BoardTasks
<1>5. /\ i \in onBoard \ removal /\ u \in task[i].units /\ u \notin Lost(i, dead')
  BY Zenon, <1>3, <1>4, BoardTasks
<1>6. u \notin dead' /\ byUnit[u] = i
  BY Zenon, <1>5 DEF Lost
<1>7. byUnit'[u] = i
  <2>1. byUnit'[u] = IF u \in dead' THEN None
          ELSE IF byUnit[u] \in Ids /\
                  (byUnit[u] \notin onBoard \ removal \/ u \notin task'[byUnit[u]].units)
               THEN None ELSE byUnit[u]
    BY Zenon DEF BoardUpdate
  <2>2. QED
    BY Zenon, <2>1, <1>3, <1>5, <1>6
<1>8. QED
  BY Zenon, <1>1, <1>3, <1>7

\* After every update a controller that may still take units commands only units
\* that the blackboard gives to its own tasks, except those released through
\* movedUnits_: removeUnit reaches every unit that died, was taken or was cancelled.
THEOREM UnitsUpToDate == Spec => CommandsOwnUnits
<1>1. UInv /\ UInv' /\ [Next]_vars => [phase = "update" => OwnUnits']_vars
  BY Zenon, OnlyUpdate, UpdatedUnits DEF Update
<1>2. QED
  BY PTL, <1>1, Invariance DEF Spec, CommandsOwnUnits

-----------------------------------------------------------------------------
(* How long a cancelled build goes on.                                      *)

\* A task of c was cancelled; a task of c goes on; c released nothing through
\* movedUnits_.
Cancelling(c) == \E i \in TasksOf(c) : task[i].status = "Cancelled"
Alive(c) == \E i \in TasksOf(c) : task[i].status = "Ongoing"
Unreleased(c) == \A u \in Unit : <<c, u>> \notin orphaned

\* A cancelled build that has not ended.
Ending(c) == Cancelling(c) /\ Alive(c) /\ Unreleased(c)

\* A task that the loop of BuilderModule::step has not listed.
Late(c) == \E i \in TasksOf(c) : i \notin tasks /\ task[i].status = "Ongoing"

\* The tasks in S make the loop cancel all of them, and one stays on the board.
Marked(c, S) ==
  /\ \E i \in TasksOf(c) : i \in S /\ task[i].status = "Cancelled"
  /\ \E i \in TasksOf(c) : i \in S \ removal /\ task[i].status \in {"Ongoing", "Cancelled"}

\* The tracker of c cannot make it act at the next update, unless its unit dies.
Fresh(c) ==
  \/ ctl[c].tracker = "none"
  \/ ctl[c].status = "Pending" /\ ctl[c].wait = 0 /\ ctl[c].tracked \in Unit \ dead

\* The tracker of c makes it act although it is throttled.
Ready(c) ==
  \/ ctl[c].tracker = "move" /\ ctl[c].status = "Success"
  \/ ctl[c].tracker = "build" /\ ctl[c].status \in {"Timeout", "Failure"}

\* The age by which a cancelled build has ended.
Deadline == EndsWithin + Cardinality(dead)

\* c has acted in this frame; it will not act in the next one.
Last(c) == age[c] = 0 \/ (age[c] <= Deadline /\ Fresh(c))

\* c will not act in this frame, if the deadline has passed.
Waits(c) ==
  \/ age[c] = 0
  \/ /\ ctl[c].since < UpdateInterval
     /\ age[c] <= Deadline + 1
     /\ Ready(c) => age[c] <= Deadline

\* c acts no more, or the step ends after releasing units.
Checked(c) == Last(c) \/ ctl[c].since < UpdateInterval

\* The age counts from the first cancelled task.
AgeOK(c) == ~Cancelling(c) => age[c] = 0

\* Before an update: of an unfinished cancelled build a cancelled task is still to be
\* listed by the loop, and its controller has just acted for the last time.
UpdateOK(c) ==
  /\ Cancelling(c) /\ Alive(c) =>
       \E i \in TasksOf(c) : i \in onBoard \ removal /\ task[i].status = "Cancelled"
  /\ Ending(c) => ctl[c].since = 0 /\ Last(c)

\* After an update: the loop will see the cancelled task, and the controller waits.
OthersOK(c) ==
  /\ Cancelling(c) /\ Alive(c) => Marked(c, onBoard)
  /\ Ending(c) => Waits(c)

\* Within the loop: the same for the tasks it has listed.  Tasks posted meanwhile
\* belong to a controller that was stepped and may go on for one more frame.
SteppedOK(c) ==
  /\ Cancelling(c) /\ Alive(c) => Marked(c, tasks)
  /\ Late(c) => ~Over(c) /\ c \in stepped /\ ctl[c].since = 0 /\ (Ending(c) => Last(c))
  /\ c \notin stepped => (Ending(c) => Waits(c))

\* The controller being stepped: it gets past Release only within the deadline.
CurrentOK ==
  /\ phase \in {"check", "release"} => ~Late(cur)
  /\ phase = "check" => (Ending(cur) => Waits(cur))
  /\ phase = "release" => (Ending(cur) => Checked(cur))
  /\ phase \in {"find", "act", "clear"} => ctl[cur].since = 0 /\ (Ending(cur) => Last(cur))
  /\ phase = "clear" => ctl[cur].builder # None

\* A cancelled build goes on only while its controller takes new units behind the
\* back of the loop, and this ends with its deadline.
KInv ==
  /\ \A c \in Ids : AgeOK(c)
  /\ phase = "update" => \A c \in Ids : UpdateOK(c)
  /\ phase = "others" => \A c \in Ids : OthersOK(c)
  /\ phase \notin {"update", "others"} => CurrentOK /\ \A c \in Ids : SteppedOK(c)

\* The tasks of c and their status stay the same.
SameTasks(c) ==
  TasksOf(c)' = TasksOf(c) /\ \A i \in TasksOf(c) : task'[i].status = task[i].status

\* A step that keeps the tasks of c keeps what KInv says of them.
LEMMA TasksStay ==
  ASSUME NEW c \in Ids, SameTasks(c)
  PROVE  /\ Cancelling(c)' <=> Cancelling(c)
         /\ Alive(c)' <=> Alive(c)
         /\ tasks' = tasks => (Late(c)' <=> Late(c))
         /\ tasks' = tasks /\ removal' = removal /\ Marked(c, tasks) => Marked(c, tasks)'
         /\ removal' = removal /\ onBoard' = onBoard /\ Marked(c, onBoard) => Marked(c, onBoard)'
         /\ orphaned \subseteq orphaned' => (Ending(c)' => Ending(c))
<1>1. /\ Cancelling(c)' <=> Cancelling(c)
      /\ Alive(c)' <=> Alive(c)
  BY Zenon DEF SameTasks, Cancelling, Alive
<1>2. tasks' = tasks => (Late(c)' <=> Late(c))
  BY Zenon DEF SameTasks, Late
<1>3. tasks' = tasks /\ removal' = removal /\ Marked(c, tasks) => Marked(c, tasks)'
  BY Zenon DEF SameTasks, Marked
<1>4. removal' = removal /\ onBoard' = onBoard /\ Marked(c, onBoard) => Marked(c, onBoard)'
  BY Zenon DEF SameTasks, Marked
<1>5. orphaned \subseteq orphaned' => (Ending(c)' => Ending(c))
  BY Zenon, <1>1 DEF Ending, Unreleased
<1>6. QED
  BY Zenon, <1>1, <1>2, <1>3, <1>4, <1>5

\* A step that keeps tracker, timing and age of c keeps what KInv says of them.
LEMMA TimingStays ==
  ASSUME NEW c \in Ids, SameTracker(ctl[c], ctl'[c]), age'[c] = age[c], dead' = dead
  PROVE  /\ Last(c) => Last(c)'
         /\ Waits(c) => Waits(c)'
         /\ ctl'[c].since = ctl[c].since
<1>1. Fresh(c) => Fresh(c)'
  BY Zenon DEF Fresh, SameTracker
<1>2. (Ready(c)' => Ready(c)) /\ ctl'[c].since = ctl[c].since /\ Deadline' = Deadline
  BY Zenon DEF Ready, SameTracker, Deadline
<1>3. QED
  BY Zenon, <1>1, <1>2 DEF Last, Waits

\* A step of the current controller, as far as the others are concerned.
LEMMA CurrentSteps ==
  ASSUME UInv, KInv, phase \in StepPhases, phase' \notin {"update", "others"},
         UNCHANGED <<tasks, removal, stepped, cur, dead, age>>, orphaned \subseteq orphaned',
         \A d \in Ids : d # cur => /\ SameTasks(d) /\ ctl'[d] = ctl[d]
                                   /\ ~Over(d) => ~Over(d)',
         AgeOK(cur)', SteppedOK(cur)', CurrentOK'
  PROVE  KInv'
<1>1. phase \notin {"update", "others"}
  BY Zenon DEF StepPhases
<1>2. ASSUME NEW d \in Ids, d # cur PROVE AgeOK(d)' /\ SteppedOK(d)'
  <2>1. AgeOK(d) /\ SteppedOK(d)
    BY Zenon, <1>1 DEF KInv
  <2>2. SameTasks(d) /\ ctl'[d] = ctl[d] /\ (~Over(d) => ~Over(d)')
    BY Zenon, <1>2
  <2>3. /\ Last(d) => Last(d)'
        /\ Waits(d) => Waits(d)'
        /\ ctl'[d].since = ctl[d].since
    BY Zenon, <2>2, TimingStays DEF SameTracker
  <2>4. /\ Cancelling(d)' <=> Cancelling(d)
        /\ Alive(d)' <=> Alive(d)
        /\ Late(d)' <=> Late(d)
        /\ Marked(d, tasks) => Marked(d, tasks)'
        /\ Ending(d)' => Ending(d)
    BY Zenon, <2>2, TasksStay
  <2>5. AgeOK(d)'
    BY Zenon, <2>1, <2>4 DEF AgeOK
  <2>6. SteppedOK(d)'
    BY Zenon, <2>1, <2>2, <2>3, <2>4 DEF SteppedOK
  <2>7. QED
    BY Zenon, <2>5, <2>6
<1>3. QED
  BY Zenon, <1>2 DEF KInv

\* A step of the current controller that takes no unit.
LEMMA QuietCurrent ==
  ASSUME UInv, KInv, phase \in StepPhases, phase' \notin {"update", "others"},
         UNCHANGED <<posted, onBoard, tasks, removal, stepped, cur, dead, age>>,
         orphaned \subseteq orphaned',
         \A i \in Ids : task'[i].ctl = task[i].ctl /\ task'[i].status = task[i].status,
         NEW k, ctl' = [ctl EXCEPT ![cur] = k], k.upcId = ctl[cur].upcId,
         Late(cur) => k.since = 0 /\ (Ending(cur) => Last(cur)'),
         (~Late(cur) => ~Late(cur)') /\ (Ending(cur)' => Ending(cur)) => CurrentOK'
  PROVE  KInv'
<1>1. /\ phase \notin {"update", "others"} /\ cur \in Ids /\ cur \in stepped
      /\ ctl \in [Ids -> Controllers]
  BY Zenon, Stepping DEF StepPhases
<1>2. \A d \in Ids : SameTasks(d)
  <2>1. \A j \in 1 .. posted : j \in Ids
    BY Zenon, IdFacts DEF UInv
  <2>2. ASSUME NEW d \in Ids PROVE TasksOf(d)' = TasksOf(d)
    <3>1. posted' = posted /\ \A j \in 1 .. posted : task'[j].ctl = task[j].ctl
      BY Zenon, <2>1
    <3>2. QED
      BY Zenon, <3>1 DEF TasksOf
  <2>3. ASSUME NEW d \in Ids, NEW i \in TasksOf(d) PROVE task'[i].status = task[i].status
    BY Zenon, <2>1 DEF TasksOf
  <2>4. QED
    BY Zenon, <2>2, <2>3 DEF SameTasks
<1>3. \A d \in Ids : ctl'[d].upcId = ctl[d].upcId /\ (d # cur => ctl'[d] = ctl[d])
  BY Zenon, <1>1
<1>4. \A d \in Ids : ~Over(d) => ~Over(d)'
  <2>1. onBoard \subseteq Ids
    BY Zenon, IdFacts DEF UInv
  <2>2. ASSUME NEW d \in Ids, ~Over(d) PROVE ~Over(d)'
    <3>1. ctl[d].upcId \in onBoard /\ task[ctl[d].upcId].status = "Ongoing"
      BY Zenon, <2>2 DEF Over
    <3>2. task'[ctl[d].upcId].status = "Ongoing" /\ ctl'[d].upcId = ctl[d].upcId
      <4>1. ctl[d].upcId \in Ids /\ ctl'[d].upcId = ctl[d].upcId
        BY Zenon, <2>1, <3>1, <1>3
      <4>2. QED
        BY Zenon, <3>1, <4>1
    <3>3. QED
      BY SMTT(20), <3>1, <3>2 DEF Over
  <2>3. QED
    BY Zenon, <2>2
<1>5. /\ Cancelling(cur)' <=> Cancelling(cur)
      /\ Alive(cur)' <=> Alive(cur)
      /\ Late(cur)' <=> Late(cur)
      /\ Marked(cur, tasks) => Marked(cur, tasks)'
      /\ Ending(cur)' => Ending(cur)
  BY Zenon, <1>1, <1>2, TasksStay
<1>6. AgeOK(cur) /\ SteppedOK(cur)
  BY Zenon, <1>1 DEF KInv
<1>7. AgeOK(cur)'
  BY Zenon, <1>5, <1>6 DEF AgeOK
<1>8. ctl'[cur] = k
  BY Zenon, <1>1
<1>9. SteppedOK(cur)'
  BY Zenon, <1>1, <1>4, <1>5, <1>6, <1>8 DEF SteppedOK
<1>10. CurrentOK'
  BY Zenon, <1>5
<1>11. QED
  BY Zenon, <1>2, <1>3, <1>4, <1>7, <1>9, <1>10, CurrentSteps

\* The deadline is a number: only finitely many units can die.
LEMMA Numbers ==
  ASSUME UInv
  PROVE  /\ Cardinality(dead) \in Nat /\ Deadline \in Nat
         /\ \A c \in Ids : age[c] \in Nat /\ ctl[c].since \in 0 .. UpdateInterval
<1>1. Cardinality(dead) \in Nat
  BY Zenon, FS_Subset, FS_CardinalityType, BuilderAssumption DEF UInv, Types
<1>2. \A c \in Ids : age[c] \in Nat /\ ctl[c].since \in 0 .. UpdateInterval
  BY Zenon, Fields DEF UInv, Types
<1>3. QED
  BY SMTT(20), <1>1, <1>2 DEF Deadline, EndsWithin

\* The check of the location and of the tracker keeps KInv: a controller that has
\* passed the deadline has nothing to react to.
LEMMA CheckKInv ==
  ASSUME UInv, KInv, LocationInvalid \/ CheckTracker
  PROVE  KInv'
<1>1. /\ phase = "check" /\ phase \in StepPhases /\ phase \notin {"update", "others"}
  BY Zenon DEF LocationInvalid, CheckTracker, StepPhases
<1>2. /\ cur \in Ids /\ ctl[cur] \in Controllers /\ ctl \in [Ids -> Controllers]
  BY Zenon, <1>1, Stepping
<1>3. ~Late(cur) /\ (Ending(cur) => Waits(cur))
  BY Zenon, <1>1 DEF KInv, CurrentOK
<1>4. PICK k : /\ k.upcId = ctl[cur].upcId
               /\ \/ Continue(k, "builder")
                  \/ /\ Continue(k, "release")
                     /\ \/ Ready(cur) /\ k.tracker = "none"
                        \/ k.since = ctl[cur].since
  <2>1. PICK h : h = ctl[cur]
    BY Zenon
  <2>2. CASE \/ Continue([h EXCEPT !.failed = TRUE], "builder")
             \/ Continue([h EXCEPT !.succeeded = TRUE], "builder")
    BY Zenon, <1>2, <2>1, <2>2, Ended DEF SameUnits
  <2>3. CASE Continue([NoTracker(h) EXCEPT !.failed = TRUE], "builder")
    BY Zenon, <1>2, <2>1, <2>3, TrackerChecked DEF SameUnits
  <2>4. CASE Continue(h, "release")
    BY Zenon, <2>1, <2>4
  <2>5. CASE Continue(NoTracker(h), "release")
    BY Zenon, <1>2, <2>1, <2>5, Untracked DEF SameUnits
  <2>6. CASE Continue(Due(NoTracker(h)), "release") /\ Ready(cur)
    BY Zenon, <1>2, <2>1, <2>6, TrackerChecked DEF SameUnits
  <2>7. QED
    BY Zenon, <2>1, <2>2, <2>3, <2>4, <2>5, <2>6 DEF LocationInvalid, CheckTracker, Ready
<1>5. /\ ctl' = [ctl EXCEPT ![cur] = k] /\ phase' \in {"builder", "release"}
      /\ UNCHANGED <<posted, task, onBoard, tasks, removal, stepped, cur, dead, age, orphaned>>
  BY Zenon, <1>4 DEF Continue, boardVars, loopVars
<1>6. ASSUME ~Late(cur)', Ending(cur)' => Ending(cur) PROVE CurrentOK'
  <2>1. CASE phase' = "builder"
    BY Zenon, <2>1 DEF CurrentOK
  <2>2. CASE phase' = "release"
    <3>1. ctl'[cur] = k /\ age' = age /\ dead' = dead /\ cur' = cur
      BY Zenon, <1>2, <1>5
    <3>2. \/ Ready(cur) /\ k.tracker = "none"
          \/ k.since = ctl[cur].since
      BY Zenon, <1>4, <2>2 DEF Continue
    <3>3. ASSUME Waits(cur) PROVE Checked(cur)'
      BY Zenon, <3>1, <3>2, <3>3 DEF Waits, Checked, Last, Fresh, Deadline
    <3>4. QED
      BY Zenon, <1>3, <1>6, <2>2, <3>1, <3>3 DEF CurrentOK
  <2>3. QED
    BY Zenon, <1>5, <2>1, <2>2
<1>7. phase' \notin {"update", "others"} /\ orphaned \subseteq orphaned'
  BY Zenon, <1>5
<1>8. \A i \in Ids : task'[i].ctl = task[i].ctl /\ task'[i].status = task[i].status
  BY Zenon, <1>5
<1>9. (~Late(cur) => ~Late(cur)') /\ (Ending(cur)' => Ending(cur)) => CurrentOK'
  BY Zenon, <1>3, <1>6
<1>10. QED
  BY Zenon, <1>1, <1>3, <1>4, <1>5, <1>7, <1>8, <1>9, QuietCurrent

\* What releaseUnit leaves alone.
LEMMA ReleaseEffect ==
  ASSUME UInv, NEW c \in Ids, NEW h \in Controllers, ReleaseMoved(c, h)
  PROVE  /\ orphaned \subseteq orphaned'
         /\ \A i \in Ids : task'[i].ctl = task[i].ctl /\ task'[i].status = task[i].status
         /\ \E k : /\ ctl' = [ctl EXCEPT ![c] = k]
                  /\ k.upcId = h.upcId /\ SameTracker(h, k)
<1>1. orphaned \subseteq orphaned'
  BY Zenon DEF ReleaseMoved
<1>2. ASSUME NEW i \in Ids
      PROVE  task'[i].ctl = task[i].ctl /\ task'[i].status = task[i].status
  <2>1. PICK S : task'[i] = [task[i] EXCEPT !.units = S]
    BY Zenon DEF ReleaseMoved
  <2>2. task[i] \in Tasks
    BY Zenon DEF UInv, Types
  <2>3. QED
    BY Zenon, <2>1, <2>2 DEF Tasks
<1>3. PICK f : ctl' = [ctl EXCEPT ![c] = [h EXCEPT !.moved = {}, !.units = f]]
  BY Zenon DEF ReleaseMoved
<1>4. PICK k : k = [h EXCEPT !.moved = {}, !.units = f]
  BY Zenon
<1>5. k.upcId = h.upcId /\ SameTracker(h, k)
  BY Zenon, <1>4 DEF Controllers, SameTracker
<1>6. QED
  BY Zenon, <1>1, <1>2, <1>3, <1>4, <1>5

\* Releasing units keeps KInv: past the deadline the step ends here, throttled.
LEMMA ReleaseKInv ==
  ASSUME UInv, KInv, NEW give \in BOOLEAN, Release(give)
  PROVE  KInv'
<1>1. /\ phase = "release" /\ phase \in StepPhases /\ phase \notin {"update", "others"}
  BY Zenon DEF Release, StepPhases
<1>2. /\ cur \in Ids /\ ctl[cur] \in Controllers /\ ctl \in [Ids -> Controllers]
  BY Zenon, <1>1, Stepping
<1>3. ~Late(cur) /\ (Ending(cur) => Checked(cur))
  BY Zenon, <1>1 DEF KInv, CurrentOK
<1>4. PICK h : /\ h = Throttle(ctl[cur]) /\ h \in Controllers /\ SameUnits(ctl[cur], h)
               /\ h.tracker = ctl[cur].tracker /\ h.status = ctl[cur].status
               /\ h.tracked = ctl[cur].tracked /\ h.wait = ctl[cur].wait
               /\ ~Throttled(ctl[cur]) => h.since = 0
  BY Zenon, <1>2, Throttling
<1>5. /\ phase' = IF Throttled(ctl[cur]) THEN "builder" ELSE "find"
      /\ UNCHANGED <<posted, onBoard, tasks, removal, stepped, cur, dead, age>>
  BY Zenon DEF Release, loopVars
<1>6. PICK k : /\ ctl' = [ctl EXCEPT ![cur] = k] /\ orphaned \subseteq orphaned'
               /\ k.upcId = h.upcId /\ SameTracker(h, k)
               /\ \A i \in Ids : task'[i].ctl = task[i].ctl /\ task'[i].status = task[i].status
  <2>1. CASE give
    <3>1. ReleaseMoved(cur, h)
      BY Zenon, <1>4, <2>1 DEF Release
    <3>2. QED
      BY Zenon, <1>2, <1>4, <3>1, ReleaseEffect
  <2>2. CASE ~give
    BY Zenon, <1>4, <2>2 DEF Release, SameTracker
  <2>3. QED
    BY Zenon, <2>1, <2>2
<1>7. ASSUME Ending(cur)' => Ending(cur) PROVE CurrentOK'
  <2>1. CASE phase' = "builder"
    BY Zenon, <2>1 DEF CurrentOK
  <2>2. CASE phase' = "find" /\ ~Throttled(ctl[cur])
    <3>1. ctl'[cur] = k /\ age' = age /\ dead' = dead /\ cur' = cur /\ k.since = 0
      BY Zenon, <1>2, <1>4, <1>5, <1>6, <2>2 DEF SameTracker
    <3>2. Checked(cur) => Last(cur)
      BY Zenon, <2>2 DEF Throttled, Checked
    <3>3. /\ k.tracker = ctl[cur].tracker /\ k.status = ctl[cur].status
          /\ k.tracked = ctl[cur].tracked /\ k.wait = ctl[cur].wait
      BY Zenon, <1>4, <1>6 DEF SameTracker
    <3>4. Last(cur) => Last(cur)'
      BY Zenon, <3>1, <3>3 DEF Last, Fresh, Deadline
    <3>5. QED
      BY Zenon, <1>3, <1>7, <2>2, <3>1, <3>2, <3>4 DEF CurrentOK
  <2>3. QED
    BY Zenon, <1>5, <2>1, <2>2
<1>8. phase' \notin {"update", "others"} /\ k.upcId = ctl[cur].upcId
  BY Zenon, <1>4, <1>5, <1>6 DEF SameUnits
<1>9. QED
  BY Zenon, <1>1, <1>3, <1>5, <1>6, <1>7, <1>8, QuietCurrent

\* grabUnit by the current controller, whose new state is k but for the unit.
LEMMA GrabKInv ==
  ASSUME UInv, KInv, phase \in {"find", "act", "clear"}, phase' \in {"act", "clear"},
         NEW u \in Unit, NEW k \in Controllers, Grab(cur, u, k), posted < MaxUpc,
         k.upcId = ctl[cur].upcId, SameTracker(ctl[cur], k),
         phase' = "clear" => k.builder # None,
         UNCHANGED <<removal, dead, tasks, stepped, cur, orphaned, age>>
  PROVE  KInv'
<1>1. phase \in StepPhases /\ phase \notin {"update", "others"} /\ phase' \notin {"update", "others"}
  BY Zenon DEF StepPhases
<1>2. /\ cur \in Ids /\ ctl[cur] \in Controllers /\ ctl \in [Ids -> Controllers]
      /\ cur \in stepped /\ ControllerOK(cur)
  BY Zenon, <1>1, Stepping
<1>3. ctl[cur].since = 0 /\ (Ending(cur) => Last(cur))
  BY Zenon, <1>1 DEF KInv, CurrentOK
<1>4. ASSUME NEW m, ctl' = [ctl EXCEPT ![cur] = m], SameTracker(k, m), m.builder = k.builder,
             Ending(cur)' => Ending(cur)
      PROVE  /\ ctl'[cur].since = 0 /\ (Ending(cur)' => Last(cur)')
             /\ Last(cur) => Last(cur)'
             /\ CurrentOK'
  <2>1. ctl'[cur] = m
    BY Zenon, <1>2, <1>4
  <2>2. SameTracker(ctl[cur], ctl'[cur])
    BY Zenon, <1>4, <2>1 DEF SameTracker
  <2>3. (Last(cur) => Last(cur)') /\ ctl'[cur].since = ctl[cur].since
    BY Zenon, <1>2, <2>2, TimingStays
  <2>4. CurrentOK'
    BY Zenon, <1>3, <1>4, <2>1, <2>3 DEF CurrentOK
  <2>5. QED
    BY Zenon, <1>3, <1>4, <2>3, <2>4
<1>5. CASE ~CanGrab(cur)
  <2>1. ctl' = [ctl EXCEPT ![cur] = k] /\ UNCHANGED <<posted, task, onBoard>>
    BY Zenon, <1>5 DEF Grab
  <2>2. SameTracker(k, k)
    BY Zenon DEF SameTracker
  <2>3. Late(cur) => k.since = 0 /\ (Ending(cur) => Last(cur)')
    <3>1. (Last(cur) => Last(cur)') /\ k.since = 0
      <4>1. SameTracker(ctl[cur], ctl'[cur])
        BY Zenon, <2>1, <1>2
      <4>2. QED
        BY Zenon, <4>1, <1>2, <1>3, TimingStays DEF SameTracker
    <3>2. QED
      BY Zenon, <3>1, <1>3
  <2>4. \A i \in Ids : task'[i].ctl = task[i].ctl /\ task'[i].status = task[i].status
    BY Zenon, <2>1
  <2>5. (~Late(cur) => ~Late(cur)') /\ (Ending(cur)' => Ending(cur)) => CurrentOK'
    BY Zenon, <1>4, <2>1, <2>2
  <2>6. QED
    BY Zenon, <1>1, <2>1, <2>3, <2>4, <2>5, QuietCurrent
<1>6. CASE CanGrab(cur)
  <2>1. PICK n, m : n = posted + 1 /\ m = [k EXCEPT !.upcId = n, !.units[u] = n]
    BY Zenon
  <2>2. /\ posted' = n /\ task' = [task EXCEPT ![n] = NewTask(cur, {u})]
        /\ onBoard' = onBoard \cup {n} /\ ctl' = [ctl EXCEPT ![cur] = m]
    BY Zenon, <1>6, <2>1 DEF Grab
  <2>3. /\ m.upcId = n /\ m.builder = k.builder /\ SameTracker(k, m)
    BY Zenon, <2>1 DEF Controllers, SameTracker
  <2>4. /\ n \in Ids /\ n \notin 1 .. posted
        /\ \A i : i \in 1 .. n <=> i \in 1 .. posted \/ i = n
        /\ 1 .. posted \subseteq Ids
    BY SMTT(20), <2>1, BuilderAssumption DEF UInv, Types, Ids
  <2>5. NewTask(cur, {u}).ctl = cur /\ NewTask(cur, {u}).status = "Ongoing"
    BY Zenon DEF NewTask
  <2>6. /\ task'[n].ctl = cur /\ task'[n].status = "Ongoing"
        /\ \A i \in 1 .. posted : task'[i] = task[i]
    <3>1. task \in [Ids -> Tasks]
      BY Zenon DEF UInv, Types
    <3>2. QED
      BY Zenon, <2>2, <2>4, <2>5, <3>1
  <2>7. \A d : /\ d # cur => TasksOf(d)' = TasksOf(d)
               /\ TasksOf(cur)' = TasksOf(cur) \cup {n}
    BY Zenon, <2>2, <2>4, <2>6 DEF TasksOf
  <2>8. \A d : \A i \in TasksOf(d) : task'[i] = task[i] /\ i \in 1 .. posted
    BY Zenon, <2>6 DEF TasksOf
  <2>9. onBoard \subseteq 1 .. posted /\ tasks \subseteq 1 .. posted
    BY Zenon DEF UInv, Types
  <2>10. Alive(cur)
    <3>1. PICK i : i = ctl[cur].upcId
      BY Zenon
    <3>2. i \in onBoard /\ ~Finished(task[i]) /\ i \in 1 .. posted /\ i \in Ids
      BY Zenon, <1>6, <2>4, <2>9, <3>1 DEF CanGrab
    <3>3. i # 0 /\ i <= posted
      BY SMTT(20), <3>2 DEF UInv, Types
    <3>4. task[i].ctl = cur /\ task[i].status # "Unknown" /\ task[i].status \in TaskStatus
      BY Zenon, <1>2, <3>1, <3>2, <3>3, TaskFields DEF UInv, Types, TaskOK, ControllerOK
    <3>5. task[i].status = "Ongoing"
      BY Zenon, <3>2, <3>4 DEF Finished, TaskStatus
    <3>6. QED
      BY Zenon, <3>2, <3>4, <3>5 DEF Alive, TasksOf
  <2>11. Cancelling(cur)' <=> Cancelling(cur)
    BY Zenon, <2>6, <2>7, <2>8 DEF Cancelling
  <2>12. Ending(cur)' => Ending(cur)
    BY Zenon, <2>10, <2>11 DEF Ending, Unreleased
  <2>13. ASSUME NEW d \in Ids, d # cur
         PROVE  SameTasks(d) /\ ctl'[d] = ctl[d] /\ (~Over(d) => ~Over(d)')
    <3>1. ctl'[d] = ctl[d]
      BY Zenon, <1>2, <2>2, <2>13
    <3>2. SameTasks(d)
      BY Zenon, <2>7, <2>8, <2>13 DEF SameTasks
    <3>3. ASSUME ~Over(d) PROVE ~Over(d)'
      <4>1. ctl[d].upcId \in onBoard /\ task[ctl[d].upcId].status = "Ongoing"
        BY Zenon, <3>3 DEF Over
      <4>2. task'[ctl[d].upcId] = task[ctl[d].upcId] /\ ctl[d].upcId \in onBoard'
        BY Zenon, <4>1, <2>2, <2>6, <2>9
      <4>3. QED
        BY Zenon, <3>1, <4>1, <4>2 DEF Over
    <3>4. QED
      BY Zenon, <3>1, <3>2, <3>3
  <2>14. AgeOK(cur)'
    BY Zenon, <1>2, <2>11 DEF KInv, AgeOK
  <2>15. /\ ctl'[cur].since = 0 /\ (Ending(cur)' => Last(cur)') /\ CurrentOK'
    BY Zenon, <1>4, <2>2, <2>3, <2>12
  <2>16. SteppedOK(cur)'
    <3>1. ~Over(cur)'
      BY Zenon, <1>2, <2>2, <2>3, <2>6 DEF Over
    <3>2. Marked(cur, tasks) => Marked(cur, tasks)'
      BY Zenon, <2>7, <2>8 DEF Marked
    <3>3. Cancelling(cur)' => Marked(cur, tasks)
      BY Zenon, <1>1, <1>2, <2>10, <2>11 DEF KInv, SteppedOK
    <3>4. QED
      BY Zenon, <1>2, <2>15, <3>1, <3>2, <3>3 DEF SteppedOK
  <2>17. QED
    BY Zenon, <1>1, <2>13, <2>14, <2>15, <2>16, CurrentSteps
<1>7. QED
  BY Zenon, <1>5, <1>6

\* Taking a builder or a detector keeps KInv: the build is within its deadline.
LEMMA FindKInv ==
  ASSUME UInv, KInv, NEW u \in Unit, Find(u) \/ FindDetector(u)
  PROVE  KInv'
<1>1. phase \in {"find", "act", "clear"} /\ phase \in StepPhases
  BY Zenon DEF Find, FindDetector, StepPhases
<1>2. ctl[cur] \in Controllers
  BY Zenon, <1>1, Stepping
<1>3. /\ posted < MaxUpc /\ phase' = "act" /\ phase' \in {"act", "clear"} /\ phase' # "clear"
      /\ UNCHANGED <<removal, dead, tasks, stepped, cur, orphaned, age>>
  BY Zenon, <1>1 DEF Find, FindDetector, loopVars
<1>4. PICK k \in Controllers :
        Grab(cur, u, k) /\ k.upcId = ctl[cur].upcId /\ SameTracker(ctl[cur], k)
  <2>1. CASE Find(u)
    <3>1. PICK m : m = [ctl[cur] EXCEPT !.builder = u]
      BY Zenon
    <3>2. m \in Controllers /\ m.upcId = ctl[cur].upcId /\ SameTracker(ctl[cur], m)
      BY Zenon, <3>1, <1>2 DEF Controllers, SameTracker
    <3>3. QED
      BY Zenon, <2>1, <3>1, <3>2 DEF Find
  <2>2. CASE FindDetector(u)
    <3>1. PICK m : m = [ctl[cur] EXCEPT !.detector = u]
      BY Zenon
    <3>2. m \in Controllers /\ m.upcId = ctl[cur].upcId /\ SameTracker(ctl[cur], m)
      BY Zenon, <3>1, <1>2 DEF Controllers, SameTracker
    <3>3. QED
      BY Zenon, <2>2, <3>1, <3>2 DEF FindDetector
  <2>3. QED
    BY Zenon, <2>1, <2>2
<1>5. QED
  BY Zenon, <1>1, <1>3, <1>4, GrabKInv

\* The builder of an unreleased controller that may take units is not dead.
LEMMA LiveBuilder ==
  ASSUME UInv, NEW c \in Ids, ~Over(c), Unreleased(c), ctl[c].builder # None
  PROVE  ctl[c].builder \in Unit \ dead
<1>1. ctl[c] \in Controllers /\ ControllerOK(c)
  BY Zenon DEF UInv, Types
<1>2. ctl[c].builder \in Unit
  BY Zenon, <1>1, Fields
<1>3. Holds(c, ctl[c].builder)
  BY Zenon, <1>1, <1>2 DEF ControllerOK, Commands, Unreleased
<1>4. QED
  BY Zenon, <1>2, <1>3 DEF UInv, TaskOK, Holds

\* Moving the builder and starting the building keep KInv: the new tracker cannot
\* make the controller act in the next frame.
LEMMA ActKInv ==
  ASSUME UInv, KInv, NoFind \/ Idle \/ MoveBuilder \/ StartBuilding
  PROVE  KInv'
<1>1. /\ phase \in {"find", "act", "clear"} /\ phase \in StepPhases
      /\ phase \notin {"update", "others"}
  BY Zenon DEF NoFind, Idle, MoveBuilder, StartBuilding, StepPhases
<1>2. /\ cur \in Ids /\ ctl[cur] \in Controllers /\ ctl \in [Ids -> Controllers]
  BY Zenon, <1>1, Stepping
<1>3. /\ ctl[cur].since = 0 /\ (Ending(cur) => Last(cur)) /\ SteppedOK(cur)
      /\ phase = "clear" => ctl[cur].builder # None
  BY Zenon, <1>1, <1>2 DEF KInv, CurrentOK
<1>4. PICK k : /\ k.upcId = ctl[cur].upcId /\ k.since = ctl[cur].since
               /\ \/ Continue(k, "builder")
                  \/ Continue(k, "act") /\ k = ctl[cur]
               /\ \/ k = ctl[cur]
                  \/ /\ ctl[cur].builder # None
                     /\ k.status = "Pending" /\ k.wait = 0 /\ k.tracked = ctl[cur].builder
  <2>1. CASE NoFind \/ Idle
    BY Zenon, <2>1 DEF NoFind, Idle
  <2>2. CASE MoveBuilder
    <3>1. ctl[cur].builder # None /\ Continue(Track(ctl[cur], "move"), "builder")
      BY Zenon, <2>2 DEF MoveBuilder
    <3>2. PICK m : m = Track(ctl[cur], "move")
      BY Zenon
    <3>3. /\ SameUnits(ctl[cur], m) /\ m.since = ctl[cur].since
          /\ m.status = "Pending" /\ m.wait = 0 /\ m.tracked = ctl[cur].builder
      BY Zenon, <1>2, <3>2, Tracking
    <3>4. QED
      BY Zenon, <3>1, <3>2, <3>3 DEF SameUnits
  <2>3. CASE StartBuilding
    <3>1. ctl[cur].builder # None /\ Continue(Track(ctl[cur], "build"), "builder")
      BY Zenon, <1>3, <2>3 DEF StartBuilding
    <3>2. PICK m : m = Track(ctl[cur], "build")
      BY Zenon
    <3>3. /\ SameUnits(ctl[cur], m) /\ m.since = ctl[cur].since
          /\ m.status = "Pending" /\ m.wait = 0 /\ m.tracked = ctl[cur].builder
      BY Zenon, <1>2, <3>2, Tracking
    <3>4. QED
      BY Zenon, <3>1, <3>2, <3>3 DEF SameUnits
  <2>4. QED
    BY Zenon, <2>1, <2>2, <2>3
<1>5. /\ ctl' = [ctl EXCEPT ![cur] = k] /\ phase' \in {"builder", "act"}
      /\ phase' \notin {"update", "others"}
      /\ UNCHANGED <<posted, task, onBoard, tasks, removal, stepped, cur, dead, age, orphaned>>
  BY Zenon, <1>4 DEF Continue, boardVars, loopVars
<1>6. ctl'[cur] = k
  BY Zenon, <1>2, <1>5
<1>7. ASSUME Late(cur), Ending(cur) PROVE Last(cur)'
  <2>1. Last(cur) /\ ~Over(cur) /\ Unreleased(cur)
    BY Zenon, <1>3, <1>7 DEF SteppedOK, Ending
  <2>2. Fresh(cur) => Fresh(cur)'
    <3>1. CASE k = ctl[cur]
      BY Zenon, <3>1, <1>5, <1>6 DEF Fresh
    <3>2. CASE /\ ctl[cur].builder # None
               /\ k.status = "Pending" /\ k.wait = 0 /\ k.tracked = ctl[cur].builder
      <4>1. ctl[cur].builder \in Unit \ dead
        BY Zenon, <1>2, <2>1, <3>2, LiveBuilder
      <4>2. QED
        BY Zenon, <4>1, <3>2, <1>5, <1>6 DEF Fresh
    <3>3. QED
      BY Zenon, <3>1, <3>2, <1>4
  <2>3. QED
    BY Zenon, <2>1, <2>2, <1>5 DEF Last, Deadline
<1>8. ASSUME Ending(cur)' => Ending(cur) PROVE CurrentOK'
  <2>1. CASE phase' = "builder"
    BY Zenon, <2>1 DEF CurrentOK
  <2>2. CASE phase' = "act"
    <3>1. ctl'[cur] = ctl[cur]
      BY Zenon, <1>4, <1>6, <2>2 DEF Continue
    <3>2. Last(cur) => Last(cur)'
      BY Zenon, <3>1, <1>5 DEF Last, Fresh, Deadline
    <3>3. QED
      BY Zenon, <1>3, <1>5, <1>8, <2>2, <3>1, <3>2 DEF CurrentOK
  <2>3. QED
    BY Zenon, <1>5, <2>1, <2>2
<1>9. Late(cur) => k.since = 0 /\ (Ending(cur) => Last(cur)')
  BY Zenon, <1>3, <1>4, <1>7
<1>10. \A i \in Ids : task'[i].ctl = task[i].ctl /\ task'[i].status = task[i].status
  BY Zenon, <1>5
<1>11. orphaned \subseteq orphaned'
  BY Zenon, <1>5
<1>12. QED
  BY Zenon, <1>1, <1>4, <1>5, <1>8, <1>9, <1>10, <1>11, QuietCurrent

\* Clearing the location keeps KInv.
LEMMA ClearKInv ==
  ASSUME UInv, KInv, \/ \E W \in SUBSET Unit : AtLocation(W)
                     \/ \E u \in Unit : MoveAway(u)
                     \/ KillBlocking
  PROVE  KInv'
<1>1. /\ phase \in {"find", "act", "clear"} /\ phase \in StepPhases
      /\ phase \notin {"update", "others"}
  BY Zenon DEF AtLocation, MoveAway, KillBlocking, StepPhases
<1>2. /\ cur \in Ids /\ ctl[cur] \in Controllers /\ ctl \in [Ids -> Controllers]
  BY Zenon, <1>1, Stepping
<1>3. /\ ctl[cur].since = 0 /\ (Ending(cur) => Last(cur)) /\ SteppedOK(cur)
      /\ phase = "clear" => ctl[cur].builder # None
  BY Zenon, <1>1, <1>2 DEF KInv, CurrentOK
<1>4. ASSUME NEW W \in SUBSET Unit, AtLocation(W) PROVE KInv'
  <2>1. /\ phase' = "clear" /\ ctl[cur].builder # None
        /\ phase' \notin {"update", "others"}
        /\ UNCHANGED <<posted, task, ctl, onBoard, tasks, removal, stepped, cur, dead, age, orphaned>>
    BY Zenon, <1>4 DEF AtLocation, boardVars, loopVars
  <2>2. ctl' = [ctl EXCEPT ![cur] = ctl[cur]]
    BY Zenon, <1>2, <2>1
  <2>3. Last(cur) => Last(cur)'
    BY Zenon, <2>1 DEF Last, Fresh, Deadline
  <2>4. (~Late(cur) => ~Late(cur)') /\ (Ending(cur)' => Ending(cur)) => CurrentOK'
    BY Zenon, <1>3, <2>1, <2>3 DEF CurrentOK
  <2>5. Late(cur) => ctl[cur].since = 0 /\ (Ending(cur) => Last(cur)')
    BY Zenon, <1>3, <2>3
  <2>6. \A i \in Ids : task'[i].ctl = task[i].ctl /\ task'[i].status = task[i].status
    BY Zenon, <2>1
  <2>7. QED
    BY Zenon, <1>1, <2>1, <2>2, <2>4, <2>5, <2>6, QuietCurrent
<1>5. ASSUME NEW u \in Unit, MoveAway(u) PROVE KInv'
  <2>1. PICK k : k = [ctl[cur] EXCEPT !.moved = @ \cup {u}]
    BY Zenon
  <2>2. /\ phase = "clear" /\ phase' = "clear" /\ u \in way /\ Grab(cur, u, k)
        /\ UNCHANGED <<removal, dead, tasks, stepped, cur, orphaned, age>>
    BY Zenon, <1>5, <2>1 DEF MoveAway, loopVars
  <2>3. /\ k \in Controllers /\ k.upcId = ctl[cur].upcId /\ SameTracker(ctl[cur], k)
        /\ k.builder = ctl[cur].builder
    BY Zenon, <2>1, <1>2 DEF Controllers, SameTracker
  <2>4. posted < MaxUpc
    <3>1. posted + Cardinality(way) <= MaxUpc /\ posted \in 0 .. MaxUpc
      BY Zenon, <2>2 DEF UInv, LoopOK, Types
    <3>2. Cardinality(way) \in Nat /\ Cardinality(way) > 0
      BY Zenon, <2>2, WayShrinks
    <3>3. QED
      BY SMTT(20), <3>1, <3>2, BuilderAssumption
  <2>5. phase' \in {"act", "clear"} /\ (phase' = "clear" => k.builder # None)
    BY Zenon, <1>3, <2>2, <2>3
  <2>6. QED
    BY Zenon, <1>1, <2>2, <2>3, <2>4, <2>5, GrabKInv
<1>6. CASE KillBlocking
  <2>1. /\ phase' = "builder" /\ ReleaseMoved(cur, ctl[cur]) /\ phase' \notin {"update", "others"}
        /\ UNCHANGED <<posted, onBoard, tasks, removal, stepped, cur, dead, age>>
    BY Zenon, <1>6 DEF KillBlocking, loopVars
  <2>2. PICK k : /\ ctl' = [ctl EXCEPT ![cur] = k] /\ orphaned \subseteq orphaned'
                 /\ k.upcId = ctl[cur].upcId /\ SameTracker(ctl[cur], k)
                 /\ \A i \in Ids : task'[i].ctl = task[i].ctl /\ task'[i].status = task[i].status
    BY Zenon, <1>2, <2>1, ReleaseEffect
  <2>3. (Last(cur) => Last(cur)') /\ k.since = 0
    <3>1. ctl'[cur] = k
      BY Zenon, <1>2, <2>2
    <3>2. QED
      BY Zenon, <1>2, <1>3, <2>1, <2>2, <3>1, TimingStays DEF SameTracker
  <2>4. CurrentOK'
    BY Zenon, <2>1 DEF CurrentOK
  <2>5. Late(cur) => k.since = 0 /\ (Ending(cur) => Last(cur)')
    BY Zenon, <1>3, <2>3
  <2>6. QED
    BY Zenon, <1>1, <2>1, <2>2, <2>4, <2>5, QuietCurrent
<1>7. QED
  BY Zenon, <1>4, <1>5, <1>6

\* A step that changes no task and no controller.
LEMMA Still ==
  ASSUME UNCHANGED <<posted, task, ctl, onBoard, removal, dead, tasks, orphaned, age>>, NEW c \in Ids
  PROVE  /\ Cancelling(c)' <=> Cancelling(c)
         /\ Alive(c)' <=> Alive(c)
         /\ Late(c)' <=> Late(c)
         /\ Marked(c, tasks) => Marked(c, tasks)'
         /\ Marked(c, onBoard) => Marked(c, onBoard)'
         /\ Ending(c)' => Ending(c)
         /\ Last(c) => Last(c)'
         /\ Waits(c) => Waits(c)'
         /\ AgeOK(c) => AgeOK(c)'
         /\ OthersOK(c) => OthersOK(c)'
<1>1. SameTasks(c) /\ orphaned \subseteq orphaned'
  BY Zenon DEF SameTasks, TasksOf
<1>2. /\ Cancelling(c)' <=> Cancelling(c)
      /\ Alive(c)' <=> Alive(c)
      /\ Late(c)' <=> Late(c)
      /\ Marked(c, tasks) => Marked(c, tasks)'
      /\ Marked(c, onBoard) => Marked(c, onBoard)'
      /\ Ending(c)' => Ending(c)
  BY Zenon, <1>1, TasksStay
<1>3. SameTracker(ctl[c], ctl'[c]) /\ age'[c] = age[c]
  BY Zenon DEF SameTracker
<1>4. (Last(c) => Last(c)') /\ (Waits(c) => Waits(c)')
  BY Zenon, <1>3, TimingStays
<1>5. QED
  BY Zenon, <1>2, <1>4 DEF AgeOK, OthersOK

\* Starting the step of a controller keeps KInv.
LEMMA StartKInv ==
  ASSUME UInv, KInv, NEW c \in Ids, StartStep(c)
  PROVE  KInv'
<1>1. /\ phase = "builder" /\ phase' \in {"builder", "check"} /\ c \notin stepped
      /\ stepped' = stepped \cup {c} /\ cur' = c
      /\ UNCHANGED <<posted, task, onBoard, removal, ctl, dead, tasks, orphaned, age>>
  BY Zenon DEF StartStep, boardVars
<1>2. phase \notin {"update", "others"} /\ phase' \notin {"update", "others"}
  BY Zenon, <1>1
<1>3. ASSUME NEW d \in Ids PROVE AgeOK(d)' /\ SteppedOK(d)'
  <2>1. AgeOK(d) /\ SteppedOK(d)
    BY Zenon, <1>2 DEF KInv
  <2>2. ~Over(d) => ~Over(d)'
    BY Zenon, <1>1 DEF Over
  <2>3. ctl'[d].since = ctl[d].since /\ (d \in stepped => d \in stepped')
    BY Zenon, <1>1
  <2>4. QED
    BY Zenon, <1>1, <2>1, <2>2, <2>3, Still DEF SteppedOK
<1>4. CurrentOK'
  <2>1. ~Late(c) /\ (Ending(c) => Waits(c))
    BY Zenon, <1>1, <1>2 DEF KInv, SteppedOK
  <2>2. ~Late(c)' /\ (Ending(c)' => Waits(c)')
    BY Zenon, <1>1, <2>1, Still
  <2>3. QED
    BY Zenon, <1>1, <2>2 DEF CurrentOK
<1>5. QED
  BY Zenon, <1>2, <1>3, <1>4 DEF KInv

\* New builds have no cancelled task.
LEMMA BeginKInv ==
  ASSUME UInv, KInv, NEW new \in 0 .. MaxBuilds, Begin(new)
  PROVE  KInv'
<1>1. PICK N : N = posted + 1 .. posted + new
  BY Zenon
<1>2. /\ task' = [i \in Ids |-> IF i \in N THEN NewTask(i, {}) ELSE task[i]]
      /\ ctl' = [i \in Ids |-> IF i \in N THEN NewController(i) ELSE ctl[i]]
      /\ onBoard' = onBoard \cup N /\ tasks' = onBoard' /\ phase' = "builder" /\ phase = "others"
      /\ UNCHANGED <<removal, dead, stepped, orphaned, age>>
  BY Zenon, <1>1 DEF Begin
<1>3. /\ N \subseteq Ids /\ \A i : i \in 1 .. posted' <=> i \in 1 .. posted \/ i \in N
      /\ \A i \in 1 .. posted : i \in Ids /\ i \notin N
  BY SMTT(20), <1>1, BuilderAssumption DEF Begin, Types, Ids, UInv
<1>4. /\ \A i \in N : task'[i].ctl = i /\ task'[i].status = "Ongoing"
      /\ \A i \in 1 .. posted : task'[i] = task[i]
  <2>1. \A i \in N : task'[i] = NewTask(i, {})
    BY Zenon, <1>2, <1>3
  <2>2. \A i \in N : task'[i].ctl = i /\ task'[i].status = "Ongoing"
    <3>1. ASSUME NEW i PROVE NewTask(i, {}).ctl = i /\ NewTask(i, {}).status = "Ongoing"
      BY Zenon DEF NewTask
    <3>2. QED
      BY Zenon, <2>1, <3>1
  <2>3. QED
    BY Zenon, <1>2, <1>3, <2>2
<1>5. ASSUME NEW c \in Ids, NEW i
      PROVE  /\ i \in TasksOf(c) => i \in TasksOf(c)' /\ task'[i] = task[i]
             /\ i \in TasksOf(c)' => i \in TasksOf(c) \/ (i = c /\ c \in N)
    BY Zenon, <1>3, <1>4 DEF TasksOf
<1>6. ASSUME NEW c \in Ids PROVE AgeOK(c)' /\ SteppedOK(c)'
  <2>1. AgeOK(c) /\ OthersOK(c)
    BY Zenon, <1>2 DEF KInv
  <2>2. Cancelling(c)' <=> Cancelling(c)
    <3>1. ASSUME Cancelling(c) PROVE Cancelling(c)'
      BY Zenon, <1>5, <3>1 DEF Cancelling
    <3>2. ASSUME Cancelling(c)' PROVE Cancelling(c)
      <4>1. PICK i \in TasksOf(c)' : task'[i].status = "Cancelled"
        BY Zenon, <3>2 DEF Cancelling
      <4>2. i \in TasksOf(c)
        BY Zenon, <1>4, <1>5, <4>1
      <4>3. QED
        BY Zenon, <1>5, <4>1, <4>2 DEF Cancelling
    <3>3. QED
      BY Zenon, <3>1, <3>2
  <2>3. AgeOK(c)'
    BY Zenon, <1>2, <2>1, <2>2 DEF AgeOK
  <2>4. ~Late(c)'
    <3>1. ASSUME NEW i \in TasksOf(c)', task'[i].status = "Ongoing" PROVE i \in onBoard'
      <4>1. i \in Ids
        BY Zenon, <1>3, <1>5, <3>1 DEF TasksOf
      <4>2. UInv'
        BY Zenon, BeginStep
      <4>3. QED
        BY Zenon, <3>1, <4>1, <4>2 DEF UInv, TaskOK
    <3>2. QED
      BY Zenon, <1>2, <3>1 DEF Late
  <2>5. ASSUME Cancelling(c)', Alive(c)'
        PROVE  c \notin N /\ Alive(c)
    <3>1. PICK i \in TasksOf(c) : i \in 1 .. posted /\ i \in Ids /\ i <= posted /\ task[i].ctl = c
      BY Zenon, <1>3, <2>2, <2>5, IdFacts DEF Cancelling, TasksOf, UInv
    <3>2. c \in Builds
      BY Zenon, <3>1 DEF UInv, TaskOK
    <3>3. c \notin N
      BY Zenon, <3>2, <1>3 DEF Builds
    <3>4. Alive(c)
      BY Zenon, <1>5, <2>5, <3>3 DEF Alive
    <3>5. QED
      BY Zenon, <3>3, <3>4
  <2>6. Cancelling(c)' /\ Alive(c)' => Marked(c, tasks)'
    <3>1. Marked(c, onBoard) => Marked(c, tasks)'
      BY Zenon, <1>2, <1>5 DEF Marked
    <3>2. QED
      BY Zenon, <2>1, <2>2, <2>5, <3>1 DEF OthersOK
  <2>7. Ending(c)' => Waits(c)'
    <3>1. Ending(c)' => Ending(c) /\ c \notin N
      BY Zenon, <1>2, <2>2, <2>5 DEF Ending, Unreleased
    <3>2. c \notin N => (Waits(c) => Waits(c)')
      <4>1. c \notin N => ctl'[c] = ctl[c]
        BY Zenon, <1>2
      <4>2. QED
        BY Zenon, <1>2, <4>1, TimingStays DEF SameTracker
    <3>3. QED
      BY Zenon, <2>1, <3>1, <3>2 DEF OthersOK
  <2>8. QED
    BY Zenon, <2>3, <2>4, <2>6, <2>7 DEF SteppedOK
<1>7. phase' \notin {"update", "others"} /\ CurrentOK'
  BY Zenon, <1>2 DEF CurrentOK
<1>8. QED
  BY Zenon, <1>6, <1>7 DEF KInv

\* Cancelling a build from outside starts its count of updates at zero.
LEMMA OthersKInv ==
  ASSUME UInv, KInv, Others
  PROVE  KInv'
<1>1. ASSUME NEW b \in Ids, CancelBuild(b) PROVE KInv'
  <2>1. /\ phase = "others" /\ phase' = "others" /\ CancelTasks({b}) /\ {b} \in SUBSET Ids
        /\ b \in Builds /\ b \in onBoard /\ task[b].status = "Ongoing"
        /\ UNCHANGED <<posted, onBoard, removal, dead, tasks, orphaned, age>>
    BY Zenon, <1>1 DEF CancelBuild, loopVars
  <2>2. /\ \A i \in Ids : task'[i].ctl = task[i].ctl /\ (i # b => task'[i] = task[i])
        /\ task'[b].status = "Cancelled"
        /\ \A c \in Ids : SameTracker(ctl[c], ctl'[c])
    BY Zenon, <2>1, CancelEffect DEF UInv
  <2>3. b \in TasksOf(b) /\ b \notin removal /\ \A c \in Ids : c # b => b \notin TasksOf(c)
    BY Zenon, <2>1 DEF UInv, TaskOK, Finished, Builds, TasksOf
  <2>4. \A j \in 1 .. posted : j \in Ids
    BY Zenon, IdFacts DEF UInv
  <2>5. \A c \in Ids : TasksOf(c)' = TasksOf(c)
    <3>1. posted' = posted /\ \A j \in 1 .. posted : task'[j].ctl = task[j].ctl
      BY Zenon, <2>1, <2>2, <2>4
    <3>2. QED
      BY Zenon, <3>1 DEF TasksOf
  <2>6. \A c \in Ids : c # b => SameTasks(c)
    BY Zenon, <2>2, <2>3, <2>4, <2>5 DEF SameTasks, TasksOf
  <2>7. \A c \in Ids : Waits(c) => Waits(c)'
    BY Zenon, <2>1, <2>2, TimingStays
  <2>8. \A c \in Ids : AgeOK(c) /\ OthersOK(c)
    BY Zenon, <2>1 DEF KInv
  <2>9. ASSUME NEW c \in Ids, c # b PROVE AgeOK(c)' /\ OthersOK(c)'
    <3>1. orphaned \subseteq orphaned' /\ age'[c] = age[c]
      BY Zenon, <2>1
    <3>2. /\ Cancelling(c)' <=> Cancelling(c)
          /\ Alive(c)' <=> Alive(c)
          /\ Marked(c, onBoard) => Marked(c, onBoard)'
          /\ Ending(c)' => Ending(c)
      BY Zenon, <2>1, <2>6, <2>9, <3>1, TasksStay
    <3>3. QED
      BY Zenon, <2>7, <2>8, <3>1, <3>2 DEF AgeOK, OthersOK
  <2>10. AgeOK(b)' /\ OthersOK(b)'
    <3>1. Cancelling(b)' /\ Marked(b, onBoard)'
      BY Zenon, <2>1, <2>2, <2>3, <2>5 DEF Cancelling, Marked
    <3>2. CASE Cancelling(b)
      <4>1. Alive(b) /\ (Unreleased(b)' => Unreleased(b))
        BY Zenon, <2>1, <2>3 DEF Alive, Unreleased
      <4>2. QED
        BY Zenon, <2>7, <2>8, <3>1, <3>2, <4>1 DEF AgeOK, OthersOK, Ending
    <3>3. CASE ~Cancelling(b)
      <4>1. age'[b] = 0
        BY Zenon, <2>1, <2>8, <3>3 DEF AgeOK
      <4>2. QED
        BY Zenon, <3>1, <4>1 DEF AgeOK, OthersOK, Waits
    <3>4. QED
      BY Zenon, <3>2, <3>3
  <2>11. QED
    BY Zenon, <2>1, <2>9, <2>10 DEF KInv
<1>2. ASSUME NEW u \in Unit, NEW t \in {None, Other}, OtherTask(u, t) PROVE KInv'
  <2>1. /\ phase = "others" /\ phase' = "others"
        /\ UNCHANGED <<posted, task, ctl, onBoard, removal, dead, tasks, orphaned, age>>
    BY Zenon, <1>2 DEF OtherTask, loopVars
  <2>2. \A c \in Ids : AgeOK(c)' /\ OthersOK(c)'
    BY Zenon, <2>1, Still DEF KInv
  <2>3. QED
    BY Zenon, <2>1, <2>2 DEF KInv
<1>3. QED
  BY Zenon, <1>1, <1>2 DEF Others

\* The end of the loop cancels the siblings of cancelled tasks; only the units the
\* controller took in this very step escape.
LEMMA EndKInv ==
  ASSUME UInv, KInv, EndLoop
  PROVE  KInv'
<1>1. PICK I : I = UNION {Siblings(c) : c \in Listed}
  BY Zenon
<1>2. /\ phase = "builder" /\ phase' = "update" /\ CancelTasks(I) /\ tasks' = {}
      /\ phase \notin {"update", "others"}
      /\ UNCHANGED <<posted, onBoard, removal, dead, orphaned, age>>
  BY Zenon, <1>1 DEF EndLoop
<1>3. I \in SUBSET Ids /\ tasks \subseteq Ids /\ tasks \subseteq onBoard
  <2>1. tasks \subseteq Ids /\ tasks \subseteq onBoard /\ \A c : Siblings(c) \subseteq tasks
    BY Zenon, IdFacts DEF UInv, Types, Siblings
  <2>2. QED
    BY Zenon, <1>1, <2>1
<1>4. /\ \A i \in Ids : /\ task'[i].ctl = task[i].ctl
                        /\ i \in I /\ task[i].status = "Ongoing" => task'[i].status = "Cancelled"
                        /\ ~(i \in I /\ task[i].status = "Ongoing") => task'[i] = task[i]
      /\ \A c \in Ids : SameTracker(ctl[c], ctl'[c])
  BY Zenon, <1>2, <1>3, CancelEffect DEF UInv
<1>5. \A j \in 1 .. posted : j \in Ids
  BY Zenon, IdFacts DEF UInv
<1>6. \A c \in Ids : TasksOf(c)' = TasksOf(c) /\ TasksOf(c) \subseteq Ids
  <2>1. posted' = posted /\ \A j \in 1 .. posted : task'[j].ctl = task[j].ctl
    BY Zenon, <1>2, <1>4, <1>5
  <2>2. QED
    BY Zenon, <2>1, <1>5 DEF TasksOf
\* The listed tasks of c are cancelled together, when one of them is finished.
<1>7. ASSUME NEW c \in Ids, NEW i \in TasksOf(c)
      PROVE  i \in I <=> i \in tasks /\ \E j \in TasksOf(c) : j \in tasks /\ Finished(task[j])
  <2>1. task[i].ctl = c
    BY Zenon, <1>7 DEF TasksOf
  <2>2. ASSUME i \in I
        PROVE  i \in tasks /\ \E j \in TasksOf(c) : j \in tasks /\ Finished(task[j])
    <3>1. PICK d \in Listed : i \in Siblings(d)
      BY Zenon, <1>1, <2>2
    <3>2. /\ i \in tasks /\ i \in TasksOf(d)
          /\ \E j \in tasks \cap TasksOf(d) : Finished(task[j])
      BY Zenon, <3>1 DEF Siblings
    <3>3. d = c
      BY Zenon, <2>1, <3>2 DEF TasksOf
    <3>4. QED
      BY Zenon, <3>2, <3>3
  <2>3. ASSUME i \in tasks, \E j \in TasksOf(c) : j \in tasks /\ Finished(task[j])
        PROVE  i \in I
    <3>1. i \in Siblings(c)
      BY Zenon, <1>7, <2>3 DEF Siblings
    <3>2. c \in Listed
      BY Zenon, <2>1, <2>3 DEF Listed
    <3>3. QED
      BY Zenon, <1>1, <3>1, <3>2
  <2>4. QED
    BY Zenon, <2>2, <2>3
<1>8. ASSUME NEW c \in Ids, Cancelling(c)', Alive(c)'
      PROVE  /\ \E i \in TasksOf(c) : i \in onBoard \ removal /\ task'[i].status = "Cancelled"
             /\ Late(c) /\ Alive(c) /\ (Cancelling(c) \/ age[c] = 0)
  <2>1. PICK i \in TasksOf(c) : task[i].status = "Ongoing" /\ i \notin I
    <3>1. PICK i \in TasksOf(c) : task'[i].status = "Ongoing"
      BY Zenon, <1>6, <1>8 DEF Alive
    <3>2. QED
      BY Zenon, <1>4, <1>6, <3>1
  <2>2. Alive(c) /\ AgeOK(c) /\ SteppedOK(c)
    BY Zenon, <1>2, <2>1 DEF Alive, KInv
  <2>3. PICK j \in TasksOf(c) :
          /\ j \in tasks \ removal /\ task'[j].status = "Cancelled"
          /\ \E l \in TasksOf(c) : l \in tasks /\ Finished(task[l])
    <3>1. CASE Cancelling(c)
      <4>1. Marked(c, tasks)
        BY Zenon, <2>2, <3>1 DEF SteppedOK
      <4>2. PICK l \in TasksOf(c) : l \in tasks /\ task[l].status = "Cancelled"
        BY Zenon, <4>1 DEF Marked
      <4>3. PICK j \in TasksOf(c) :
              j \in tasks \ removal /\ task[j].status \in {"Ongoing", "Cancelled"}
        BY Zenon, <4>1 DEF Marked
      <4>4. Finished(task[l])
        BY Zenon, <4>2 DEF Finished
      <4>5. j \in I /\ j \in Ids
        BY Zenon, <1>6, <1>7, <4>2, <4>3, <4>4
      <4>6. task'[j].status = "Cancelled"
        BY Zenon, <1>4, <4>3, <4>5
      <4>7. QED
        BY Zenon, <4>2, <4>3, <4>4, <4>6
    <3>2. CASE ~Cancelling(c)
      <4>1. PICK j \in TasksOf(c) : task'[j].status = "Cancelled"
        BY Zenon, <1>6, <1>8 DEF Cancelling
      <4>2. j \in Ids /\ task[j].status # "Cancelled"
        BY Zenon, <1>6, <3>2, <4>1 DEF Cancelling
      <4>3. j \in I /\ task[j].status = "Ongoing"
        BY Zenon, <1>4, <4>1, <4>2
      <4>4. j \notin removal
        BY Zenon, <4>2, <4>3 DEF UInv, TaskOK, Finished
      <4>5. QED
        BY Zenon, <1>7, <4>1, <4>3, <4>4
    <3>3. QED
      BY Zenon, <3>1, <3>2
  <2>4. i \notin tasks
    BY Zenon, <1>7, <2>1, <2>3
  <2>5. Late(c)
    BY Zenon, <2>1, <2>4 DEF Late
  <2>6. QED
    BY Zenon, <1>3, <2>2, <2>3, <2>5 DEF AgeOK
<1>9. ASSUME NEW c \in Ids PROVE AgeOK(c)' /\ UpdateOK(c)'
  <2>1. AgeOK(c) /\ SteppedOK(c)
    BY Zenon, <1>2 DEF KInv
  <2>2. Cancelling(c) => Cancelling(c)'
    BY Zenon, <1>4, <1>6 DEF Cancelling
  <2>3. AgeOK(c)'
    BY Zenon, <1>2, <2>1, <2>2 DEF AgeOK
  <2>4. (Last(c) => Last(c)') /\ ctl'[c].since = ctl[c].since /\ age'[c] = age[c]
    BY Zenon, <1>2, <1>4, TimingStays
  <2>5. Ending(c)' => ctl'[c].since = 0 /\ Last(c)'
    <3>1. ASSUME Ending(c)' PROVE ctl'[c].since = 0 /\ Last(c)'
      <4>1. Late(c) /\ Alive(c) /\ (Cancelling(c) \/ age[c] = 0) /\ Unreleased(c)
        BY Zenon, <1>2, <1>8, <3>1 DEF Ending, Unreleased
      <4>2. ctl[c].since = 0 /\ (Ending(c) => Last(c))
        BY Zenon, <2>1, <4>1 DEF SteppedOK
      <4>3. QED
        BY Zenon, <2>4, <4>1, <4>2 DEF Ending, Last
    <3>2. QED
      BY Zenon, <3>1
  <2>6. UpdateOK(c)'
    BY Zenon, <1>2, <1>6, <1>8, <2>5 DEF UpdateOK
  <2>7. QED
    BY Zenon, <2>3, <2>6
<1>10. QED
  BY Zenon, <1>2, <1>9 DEF KInv

\* Every unit that dies moves the deadline.
LEMMA MoreDead ==
  ASSUME UInv, NEW D \in SUBSET (Unit \ dead), dead' = dead \cup D
  PROVE  /\ Cardinality(dead) \in Nat /\ Cardinality(dead') \in Nat
         /\ Cardinality(dead) <= Cardinality(dead')
         /\ \A u \in D : Cardinality(dead) + 1 <= Cardinality(dead')
<1>1. IsFiniteSet(dead) /\ IsFiniteSet(dead') /\ dead \subseteq dead'
  BY Zenon, FS_Subset, BuilderAssumption DEF UInv, Types
<1>2. Cardinality(dead) \in Nat /\ Cardinality(dead') \in Nat
  BY Zenon, <1>1, FS_CardinalityType
<1>3. Cardinality(dead) <= Cardinality(dead')
  BY Zenon, <1>1, FS_Subset
<1>4. ASSUME NEW u \in D PROVE Cardinality(dead) + 1 <= Cardinality(dead')
  <2>1. Cardinality(dead \cup {u}) = Cardinality(dead) + 1
    BY Zenon, <1>1, FS_AddElement
  <2>2. dead \cup {u} \in SUBSET dead'
    BY Zenon
  <2>3. Cardinality(dead \cup {u}) <= Cardinality(dead')
    BY Zenon, <1>1, <2>2, FS_Subset
  <2>4. QED
    BY Zenon, <2>1, <2>3
<1>5. QED
  BY Zenon, <1>2, <1>3, <1>4

\* An update adds one to the age of an ending build; its deadline moves only when
\* a unit dies, and only then may a fresh tracker fail.
LEMMA UpdateKInv ==
  ASSUME UInv, KInv, NEW D \in SUBSET (Unit \ dead), NEW k, BoardUpdate(D, k)
  PROVE  KInv'
<1>1. /\ phase = "update" /\ phase' = "others" /\ dead' = dead \cup D
      /\ onBoard' = onBoard \ removal /\ removal' = {i \in onBoard' : Finished(task'[i])}
      /\ posted' = posted /\ orphaned' = orphaned
  BY Zenon DEF BoardUpdate
<1>2. \A c \in Ids : age'[c] = IF /\ c \in Builds
                                  /\ \E i \in TasksOf(c) : task[i].status = "Cancelled"
                                  /\ age[c] <= EndsWithin + Cardinality(Unit)
                               THEN age[c] + 1 ELSE age[c]
  BY Zenon DEF BoardUpdate
<1>3. \A j \in 1 .. posted : j \in Ids
  BY Zenon, IdFacts DEF UInv
<1>4. \A i \in Ids : /\ task'[i].ctl = task[i].ctl
                     /\ task'[i].status = "Cancelled" <=> task[i].status = "Cancelled"
                     /\ task'[i].status = "Ongoing" =>
                          task[i].status = "Ongoing" /\ i \in onBoard \ removal
  BY Zenon, BoardTasks
<1>5. \A c \in Ids : TasksOf(c)' = TasksOf(c) /\ TasksOf(c) \subseteq Ids
  <2>1. posted' = posted /\ \A j \in 1 .. posted : task'[j].ctl = task[j].ctl
    BY Zenon, <1>1, <1>3, <1>4
  <2>2. QED
    BY Zenon, <2>1, <1>3 DEF TasksOf
<1>6. \A c \in Ids : (Cancelling(c)' <=> Cancelling(c)) /\ (Alive(c)' => Alive(c))
  BY Zenon, <1>4, <1>5 DEF Cancelling, Alive
<1>7. ASSUME NEW c \in Ids PROVE AgeOK(c)'
  <2>1. AgeOK(c)
    BY Zenon DEF KInv
  <2>2. ASSUME ~Cancelling(c) PROVE age'[c] = age[c]
    BY Zenon, <1>2, <2>2 DEF Cancelling
  <2>3. QED
    BY Zenon, <1>6, <2>1, <2>2 DEF AgeOK
<1>8. ASSUME NEW c \in Ids, Cancelling(c)', Alive(c)' PROVE Marked(c, onBoard)'
  <2>1. PICK i \in TasksOf(c) : i \in onBoard \ removal /\ task[i].status = "Cancelled"
    BY Zenon, <1>1, <1>6, <1>8 DEF KInv, UpdateOK
  <2>2. PICK j \in TasksOf(c) : task'[j].status = "Ongoing"
    BY Zenon, <1>5, <1>8 DEF Alive
  <2>3. i \in onBoard' /\ task'[i].status = "Cancelled"
    BY Zenon, <1>1, <1>4, <1>5, <2>1
  <2>4. j \in onBoard' /\ j \notin removal'
    BY Zenon, <1>1, <1>4, <1>5, <2>2 DEF Finished
  <2>5. QED
    BY Zenon, <1>5, <2>2, <2>3, <2>4 DEF Marked
<1>9. ASSUME NEW c \in Ids, Ending(c)' PROVE Waits(c)'
  <2>1. Ending(c) /\ ctl[c].since = 0 /\ Last(c) /\ ctl[c] \in Controllers
    <3>1. Ending(c)
      BY Zenon, <1>1, <1>6, <1>9 DEF Ending, Unreleased
    <3>2. QED
      BY Zenon, <1>1, <3>1 DEF KInv, UpdateOK, UInv, Types
  <2>2. PICK m : m = k[c]
    BY Zenon
  <2>3. /\ m \in TrackerStates(ctl[c], dead') /\ m \in Controllers
        /\ ctl'[c] = Removed(Aged(m), LostUnits(c, dead'))
    <3>1. PICK j \in TasksOf(c) : task'[j].status = "Ongoing"
      BY Zenon, <1>5, <1>9 DEF Ending, Alive
    <3>2. j \in onBoard'
      BY Zenon, <1>1, <1>4, <1>5, <3>1
    <3>3. QED
      BY Zenon, <2>2, <3>1, <3>2, BoardControllers
  <2>4. /\ Aged(m) \in Controllers /\ Aged(m).tracker = m.tracker /\ Aged(m).status = m.status
        /\ m.since < UpdateInterval => Aged(m).since = m.since + 1
    BY Zenon, <2>3, AgedController
  <2>5. SameTracker(Aged(m), ctl'[c])
    <3>1. SameTracker(Aged(m), Removed(Aged(m), LostUnits(c, dead')))
      BY Zenon, <2>4, Removal
    <3>2. QED
      BY Zenon, <2>3, <3>1
  <2>6. m.since = 0 /\ m.tracker = ctl[c].tracker
    <3>1. m.since = ctl[c].since /\ m.tracker = ctl[c].tracker
      BY SMTT(20), <2>1, <2>3, TrackerMoves
    <3>2. QED
      BY Zenon, <2>1, <3>1
  <2>7. ctl'[c].since = 1 /\ 1 < UpdateInterval /\ 0 < UpdateInterval
    <3>1. 1 < UpdateInterval /\ 0 < UpdateInterval /\ 0 + 1 = 1
      BY SMTT(20), BuilderAssumption
    <3>2. QED
      BY Zenon, <2>4, <2>5, <2>6, <3>1 DEF SameTracker
  <2>8. ctl'[c].tracker = m.tracker /\ ctl'[c].status = m.status
    BY Zenon, <2>4, <2>5 DEF SameTracker
  <2>9. ASSUME Fresh(c), Ready(c)' PROVE \E u \in D : TRUE
    <3>1. /\ ctl[c].tracker # "none"
          /\ \/ m.status = "Success" /\ ctl[c].tracker = "move"
             \/ m.status \in {"Timeout", "Failure"} /\ ctl[c].tracker = "build"
      BY Zenon, <2>6, <2>8, <2>9 DEF Ready
    <3>2. ctl[c].status = "Pending" /\ ctl[c].wait = 0 /\ ctl[c].tracked \in Unit \ dead
      BY Zenon, <2>9, <3>1 DEF Fresh
    <3>3. /\ ctl[c].tracker = "build" =>
               m.status \in {"Ongoing", "Pending"} \/ (m.status = "Failure" /\ ctl[c].tracked \in dead')
          /\ ctl[c].tracker = "move" => m.status \in {"Ongoing", "Pending", "Failure"}
      BY Zenon, <2>1, <2>3, <3>2, TrackerMoves
    <3>4. ctl[c].tracked \in dead'
      BY Zenon, <3>1, <3>3
    <3>5. QED
      BY Zenon, <1>1, <3>2, <3>4
  <2>10. age[c] \in Nat /\ (age'[c] = age[c] \/ age'[c] = age[c] + 1)
    BY Zenon, <1>2 DEF UInv, Types
  <2>11. /\ Cardinality(dead) \in Nat /\ Cardinality(dead') \in Nat
         /\ Cardinality(dead) <= Cardinality(dead')
         /\ \A u \in D : Cardinality(dead) + 1 <= Cardinality(dead')
    BY Zenon, <1>1, MoreDead
  <2>12. /\ age'[c] <= 1 + Cardinality(dead') + 1
         /\ Ready(c)' => age'[c] <= 1 + Cardinality(dead')
    <3>1. CASE age[c] = 0
      BY SMTT(20), <2>10, <2>11, <3>1
    <3>2. CASE age[c] <= 1 + Cardinality(dead) /\ Fresh(c)
      <4>1. age'[c] <= 1 + Cardinality(dead') + 1
        BY SMTT(20), <2>10, <2>11, <3>2
      <4>2. ASSUME Ready(c)' PROVE age'[c] <= 1 + Cardinality(dead')
        <5>1. Cardinality(dead) + 1 <= Cardinality(dead')
          BY Zenon, <2>9, <2>11, <3>2, <4>2
        <5>2. QED
          BY SMTT(20), <2>10, <2>11, <3>2, <5>1
      <4>3. QED
        BY Zenon, <4>1, <4>2
    <3>3. QED
      BY Zenon, <2>1, <3>1, <3>2 DEF Last, Deadline, EndsWithin
  <2>13. QED
    BY Zenon, <2>7, <2>12 DEF Waits, Deadline, EndsWithin
<1>10. QED
  BY Zenon, <1>1, <1>7, <1>8, <1>9 DEF KInv, OthersOK

\* In the beginning nothing was cancelled.
LEMMA InitKInv == Init => KInv
<1> SUFFICES ASSUME Init PROVE KInv
  BY Zenon
<1>1. \A c : TasksOf(c) = {}
  BY SMTT(20) DEF Init, TasksOf
<1>2. \A c \in Ids : age[c] = 0
  BY Zenon DEF Init
<1>3. \A c \in Ids : ~Alive(c) /\ ~Ending(c)
  BY Zenon, <1>1 DEF Alive, Ending
<1>4. phase = "update"
  BY Zenon DEF Init
<1>5. QED
  BY Zenon, <1>2, <1>3, <1>4 DEF KInv, AgeOK, UpdateOK

\* KInv is inductive relative to UInv.
LEMMA NextKInv == UInv /\ KInv /\ [Next]_vars => KInv'
<1> SUFFICES ASSUME UInv, KInv, [Next]_vars PROVE KInv'
  BY Zenon
<1>1. CASE Update
  BY Zenon, <1>1, UpdateKInv DEF Update
<1>2. CASE Step
  BY Zenon, <1>2, CheckKInv, ReleaseKInv, FindKInv, ActKInv, ClearKInv DEF Step
<1>3. CASE Loop
  BY Zenon, <1>3, BeginKInv, StartKInv, EndKInv DEF Loop
<1>4. CASE UNCHANGED vars
  <2>1. UNCHANGED <<posted, task, ctl, onBoard, removal,
                    dead, phase, tasks, stepped, cur, orphaned, age>>
    BY Zenon, <1>4 DEF vars
  <2>2. CASE phase = "update"
    <3>1. \A c \in Ids : AgeOK(c)' /\ UpdateOK(c)'
      <4>1. ASSUME NEW c \in Ids PROVE AgeOK(c)' /\ UpdateOK(c)'
        <5>1. /\ AgeOK(c) /\ UpdateOK(c) /\ ctl'[c].since = ctl[c].since
          BY Zenon, <2>1, <2>2 DEF KInv
        <5>2. TasksOf(c)' = TasksOf(c)
          BY Zenon, <2>1 DEF TasksOf
        <5>3. QED
          BY Zenon, <2>1, <5>1, <5>2, Still DEF UpdateOK
      <4>2. QED
        BY Zenon, <4>1
    <3>2. QED
      BY Zenon, <2>1, <2>2, <3>1 DEF KInv
  <2>3. CASE phase = "others"
    BY Zenon, <2>1, <2>3, Still DEF KInv
  <2>4. CASE phase \notin {"update", "others"}
    <3>1. ASSUME NEW c \in Ids PROVE AgeOK(c)' /\ SteppedOK(c)'
      <4>1. AgeOK(c) /\ SteppedOK(c) /\ (~Over(c) => ~Over(c)') /\ ctl'[c].since = ctl[c].since
        BY Zenon, <2>1, <2>4 DEF KInv, Over
      <4>2. QED
        BY Zenon, <2>1, <4>1, Still DEF SteppedOK
    <3>2. CurrentOK'
      <4>1. CASE phase \in StepPhases
        <5>1. cur \in Ids /\ CurrentOK
          BY Zenon, <2>4, <4>1, Stepping DEF KInv
        <5>2. /\ ctl'[cur] = ctl[cur] /\ cur' = cur /\ phase' = phase
              /\ Late(cur)' <=> Late(cur)
              /\ Ending(cur)' => Ending(cur)
              /\ Last(cur) => Last(cur)'
              /\ Waits(cur) => Waits(cur)'
          BY Zenon, <2>1, <5>1, Still
        <5>3. Checked(cur) => Checked(cur)'
          BY Zenon, <5>2 DEF Checked
        <5>4. QED
          BY Zenon, <5>1, <5>2, <5>3 DEF CurrentOK
      <4>2. CASE phase \notin StepPhases
        BY Zenon, <2>1, <4>2 DEF CurrentOK, StepPhases
      <4>3. QED
        BY Zenon, <4>1, <4>2
    <3>3. QED
      BY Zenon, <2>1, <2>4, <3>1, <3>2 DEF KInv
  <2>5. QED
    BY Zenon, <2>2, <2>3, <2>4
<1>5. QED
  BY Zenon, <1>1, <1>2, <1>3, <1>4, OthersKInv DEF Next

\* KInv bounds the age of a build that was cancelled and has not ended.
LEMMA Deadlines == UInv /\ KInv => CancelledBuildEnds
<1> SUFFICES ASSUME UInv, KInv, phase = "update", NEW c \in Builds,
                    age[c] > EndsWithin + Cardinality(dead), Unreleased(c),
                    NEW i \in TasksOf(c), ~Finished(task[i])
             PROVE  FALSE
  BY Zenon DEF CancelledBuildEnds, Unreleased
<1>1. c \in Ids /\ i \in Ids /\ i <= posted
  BY Zenon, Given DEF UInv
<1>2. task[i].status = "Ongoing"
  <2>1. task[i].status # "Unknown" /\ task[i].status \in TaskStatus
    BY Zenon, <1>1, TaskFields DEF UInv, Types, TaskOK
  <2>2. QED
    BY Zenon, <2>1 DEF Finished, TaskStatus
<1>3. age[c] # 0 /\ ~(age[c] <= Deadline)
  BY SMTT(20), <1>1, Numbers DEF Deadline
<1>4. Ending(c)
  BY Zenon, <1>1, <1>2, <1>3 DEF KInv, AgeOK, Ending, Alive
<1>5. QED
  BY Zenon, <1>1, <1>3, <1>4 DEF KInv, UpdateOK, Last

\* A build one of whose tasks was cancelled ends within EndsWithin + 1 updates and
\* one more for each unit that has died, unless a unit of its controller was released
\* through movedUnits_: no order of cancellations, deaths, tracker results and
\* grabbed units keeps it going.
THEOREM CancelledBuildsEnd == Spec => []CancelledBuildEnds
BY PTL, Invariance, InitKInv, NextKInv, Deadlines DEF Spec

=============================================================================

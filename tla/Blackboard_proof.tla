-------------------------- MODULE Blackboard_proof --------------------------
(***************************************************************************)
(* Proofs about Blackboard, for any set of units, any number of UPCs and   *)
(* any mix of task kinds: the posting of UPCs and tasks, the operations of *)
(* modules on their tasks and every step of Blackboard::update preserve    *)
(* the inductive invariant.                                                *)
(***************************************************************************)
EXTENDS Blackboard, TLAPS

\* The tasks that the loop of update() has already visited.
Visited == IF phase = "update" THEN tasksById \ pending ELSE {}

\* Ids are given out in order, a UPC gets its task when it leaves the board, and
\* only posted UPCs are on the board, active or have a task.
IdsInOrder ==
  /\ upcs \cup activeUpcs \cup tasksById \subseteq 1 .. posted
  /\ \A i \in Ids : i \in upcs \/ i > posted => task[i].kind = "none"
  /\ \A i \in tasksById : task[i].kind # "none"

\* The loop visits tasks of the board, newest first.
LoopOrder ==
  /\ pending \subseteq tasksById
  /\ phase = "modules" => pending = {}
  /\ \A s \in pending : \A t \in Visited : s < t

\* A proxy has a newer task as target and no units; a SharedControllerTask starts
\* Ongoing; it and a TacticsTask are without units once cancelled.
WellFormed(t) ==
  /\ task[t].kind = "proxy" => task[t].units = {} /\ task[t].target \in Ids /\ t < task[t].target
  /\ task[t].kind = "shared" => task[t].status # "Unknown"
  /\ task[t].kind \in {"tactics", "shared"} /\ task[t].status = "Cancelled" =>
       task[t].units = {}

\* What a controller and a scheduled removal may refer to.
KindsKept ==
  /\ \A t \in Ids : WellFormed(t)
  /\ \A u \in Unit : controlled[u] # NoTask => task[controlled[u]].kind = "shared"
  /\ tasksToBeRemoved \subseteq tasksById
  /\ \A t \in tasksToBeRemoved :
       task[t].kind = "shared" => task[t].status # "Ongoing"

\* Only a task that has finished can hold on to the entry of a dead unit.
DeadReleased ==
  \A u \in dead : tasksByUnit[u] # NoTask => Finished(tasksByUnit[u])

\* Among the visited tasks the mapping is already exact.
VisitedMapped ==
  \A t \in Visited : \A u \in Unit :
    /\ u \in task[t].units => tasksByUnit[u] \in Visited /\ tasksByUnit[u] <= t
    /\ tasksByUnit[u] = t => u \in task[t].units

\* Among the visited tasks a unit has one unfinished holder.
VisitedExclusive ==
  \A u \in Unit : \A s, t \in Visited :
    u \in task[s].units /\ u \in task[t].units /\ ~Finished(s) /\ ~Finished(t)
      => s = t

\* A visited unfinished task holds no dead unit.
VisitedAlive ==
  \A t \in Visited : \A u \in dead : u \in task[t].units => Finished(t)

\* A visited proxy shows the status of its target.
VisitedProxies ==
  \A t \in Visited :
    task[t].kind = "proxy" /\ task[t].found /\ task[t].status # "Cancelled"
      => task[t].status = task[task[t].target].status

IInv ==
  /\ TypeOK
  /\ MappedOnBoard
  /\ AncestorsActive
  /\ ControlledByTask
  /\ IdsInOrder
  /\ LoopOrder
  /\ KindsKept
  /\ DeadReleased
  /\ VisitedMapped
  /\ VisitedExclusive
  /\ VisitedAlive
  /\ VisitedProxies

-----------------------------------------------------------------------------

\* UPC ids are compared as integers (basetypes.h:23).
LEMMA IdsAreIntegers == Ids \subseteq Int
BY DEF Ids

\* What update() can do to a task (Task::update and its overrides): it keeps the
\* kind, drops units only, and an unfinished task that is not a proxy is left with
\* units mapped to it; a SharedControllerTask drops dead units too, and one that
\* ceases to be Ongoing has no unit left.
LEMMA UpdatedFacts ==
  ASSUME TypeOK, NEW t \in Ids, task[t].kind # "none", WellFormed(t)
  PROVE  /\ Updated(t) \in Tasks
         /\ Updated(t).kind = task[t].kind
         /\ Updated(t).units \subseteq task[t].units
         /\ Updated(t).status \notin {"Success", "Cancelled", "Failure"} /\ task[t].kind # "proxy" =>
              ~Finished(t) /\ Updated(t).units \subseteq Kept(t)
         /\ task[t].kind = "shared" =>
              /\ Updated(t).status = "Ongoing" => task[t].status = "Ongoing"
              /\ task[t].status = "Ongoing" /\ Updated(t).status # "Ongoing" =>
                   Updated(t).units = {}
<1> USE DEF TypeOK, Tasks, Status, AllKinds, With, WellFormed
<1>1. /\ task[t] \in Tasks
      /\ task[t].units \subseteq Unit
      /\ Kept(t) \subseteq task[t].units
  BY Zenon DEF Kept
<1>2. ASSUME NEW k \in SUBSET task[t].units
      PROVE  /\ UpdateUnits(t, k) \in Tasks
             /\ UpdateUnits(t, k).kind = task[t].kind
             /\ UpdateUnits(t, k).units = k
             /\ UpdateUnits(t, k).status = IF k = {} THEN "Failure" ELSE task[t].status
  BY Zenon, <1>1, <1>2 DEF UpdateUnits
<1>3. ASSUME task[t].kind = "proxy"
      PROVE  /\ UpdateProxy(t) \in Tasks
             /\ UpdateProxy(t).kind = "proxy"
             /\ UpdateProxy(t).units = task[t].units
  BY Zenon, <1>1, <1>3 DEF UpdateProxy
<1>4. CASE task[t].status = "Cancelled"
  <2>1. Updated(t) = task[t]
    BY Zenon, <1>4 DEF Updated
  <2> QED BY <2>1, <1>1, <1>4 DEF Finished
<1>5. CASE task[t].status # "Cancelled" /\ task[t].kind = "micro"
  <2>1. Updated(t) = UpdateUnits(t, Kept(t))
    BY Zenon, <1>5 DEF Updated
  <2> QED BY <2>1, <1>1, <1>2, <1>5 DEF Finished
<1>6. CASE task[t].status # "Cancelled" /\ task[t].kind = "scout"
  <2>1. Updated(t) = IF Finished(t) THEN task[t] ELSE UpdateUnits(t, Kept(t))
    BY Zenon, <1>6 DEF Updated
  <2> QED BY <2>1, <1>1, <1>2, <1>6 DEF Finished
<1>7. CASE task[t].status # "Cancelled" /\ task[t].kind = "tactics"
  <2>1. Updated(t) = With(t, task[t].status, Kept(t))
    BY Zenon, <1>7 DEF Updated
  <2> QED BY <2>1, <1>1, <1>7 DEF Finished
<1>8. CASE task[t].status # "Cancelled" /\ task[t].kind = "shared"
  <2>1. Updated(t) = IF task[t].status # "Ongoing" THEN task[t]
                     ELSE UpdateUnits(t, Kept(t) \ dead)
    BY Zenon, <1>8 DEF Updated
  <2>2. Kept(t) \ dead \in SUBSET task[t].units
    BY Zenon, <1>1
  <2>3. CASE task[t].status = "Ongoing"
    BY <2>1, <2>2, <2>3, <1>2, <1>8 DEF Finished
  <2>4. CASE task[t].status # "Ongoing"
    BY Zenon, <2>1, <2>4, <1>1, <1>8 DEF Finished
  <2> QED BY Zenon, <2>3, <2>4
<1>9. CASE task[t].status # "Cancelled" /\ task[t].kind = "proxy"
  <2>1. Updated(t) = UpdateProxy(t)
    BY Zenon, <1>9 DEF Updated
  <2> QED BY Zenon, <2>1, <1>1, <1>3, <1>9 DEF Finished
<1> QED BY Zenon, <1>1, <1>4, <1>5, <1>6, <1>7, <1>8, <1>9

\* Outside update() no task counts as visited.
LEMMA ModulesPhase ==
  ASSUME phase = "modules", phase' = "modules", pending' = {}
  PROVE  /\ LoopOrder' /\ VisitedMapped' /\ VisitedExclusive' /\ VisitedAlive'
         /\ VisitedProxies'
BY Zenon DEF LoopOrder, Visited, VisitedMapped, VisitedExclusive, VisitedAlive, VisitedProxies

\* The invariant without the conjuncts about the loop of update().
BoardInv ==
  /\ TypeOK
  /\ MappedOnBoard
  /\ AncestorsActive
  /\ ControlledByTask
  /\ IdsInOrder
  /\ KindsKept
  /\ DeadReleased

\* A new task object and a changed one are task objects.
LEMMA TaskTypes ==
  ASSUME TypeOK
  PROVE  /\ \A k \in AllKinds, st \in Status, us \in SUBSET Unit, g \in Ids \cup {NoTask} :
              NewTask(k, st, us, g) \in Tasks
         /\ \A t \in Ids, st \in Status, us \in SUBSET Unit : With(t, st, us) \in Tasks
BY Zenon DEF TypeOK, Tasks, NewTask, With

\* The initial state satisfies the inductive invariant.
LEMMA InitIInv == Init => IInv
BY MaxUpcAssumption
DEF Init, IInv, TypeOK, MappedOnBoard, AncestorsActive, ControlledByTask, IdsInOrder,
    LoopOrder, KindsKept, WellFormed, DeadReleased, VisitedMapped, VisitedExclusive,
    VisitedAlive, VisitedProxies, Visited, Tasks, NewTask, Status, Ids, NoTask, kRootUpcId

\* What is known of the UPCs alone: they are given out in order, and the ones on the
\* board are active, with their sources.
UpcInv ==
  /\ posted \in 0 .. MaxUpc
  /\ sourceId \in [Ids -> {kRootUpcId} \cup Ids]
  /\ upcs \subseteq activeUpcs
  /\ activeUpcs \subseteq Ids
  /\ activeUpcs \subseteq 1 .. posted
  /\ \A i \in activeUpcs : sourceId[i] # kRootUpcId => sourceId[i] \in activeUpcs

\* A UPC is entered with an active source, or the root, and becomes active itself,
\* whatever else leaves the board.
LEMMA Entered ==
  ASSUME UpcInv, NEW src \in Sources,
         posted < MaxUpc,
         posted' = posted + 1,
         sourceId' = [sourceId EXCEPT ![posted + 1] = src],
         activeUpcs' = activeUpcs \cup {posted + 1},
         upcs' \subseteq upcs \cup {posted + 1}
  PROVE  /\ UpcInv'
         /\ posted \in Nat /\ posted + 1 \in Ids /\ posted + 1 \notin activeUpcs
<1>1. posted \in Nat /\ posted + 1 \in Ids
  BY MaxUpcAssumption DEF UpcInv, Ids
<1>2. posted + 1 \notin activeUpcs
  BY <1>1 DEF UpcInv
<1>3. posted' \in 0 .. MaxUpc /\ activeUpcs' \subseteq 1 .. posted'
  BY <1>1, MaxUpcAssumption DEF UpcInv
<1>4. /\ src \in {kRootUpcId} \cup Ids
      /\ sourceId' \in [Ids -> {kRootUpcId} \cup Ids]
      /\ activeUpcs' \subseteq Ids
      /\ upcs' \subseteq activeUpcs'
  BY Zenon, <1>1 DEF UpcInv, Sources
<1>5. \A i \in activeUpcs' : sourceId'[i] # kRootUpcId => sourceId'[i] \in activeUpcs'
  BY Zenon, <1>1, <1>2 DEF UpcInv, Sources
<1> QED BY Zenon, <1>1, <1>2, <1>3, <1>4, <1>5 DEF UpcInv

\* The same for postUPC, or for a call of it that posts nothing: what is on the board
\* afterwards is one of the UPCs left there or has a new id.
LEMMA Posting ==
  ASSUME BoardInv, NEW src \in Sources, NEW left \in SUBSET upcs, PostMoveUPC(src, left)
  PROVE  /\ UpcInv'
         /\ posted \in Nat /\ posted' \in Nat /\ posted <= posted'
         /\ activeUpcs \subseteq activeUpcs'
         /\ \A i \in upcs' : i \in left \/ i > posted
<1>1. UpcInv /\ posted \in Nat
  BY MaxUpcAssumption DEF BoardInv, TypeOK, AncestorsActive, IdsInOrder, UpcInv
<1>2. CASE AddUPC(src, left)
  <2>1. /\ posted < MaxUpc /\ posted' = posted + 1
        /\ sourceId' = [sourceId EXCEPT ![posted + 1] = src]
        /\ activeUpcs' = activeUpcs \cup {posted + 1}
        /\ upcs' = left \cup {posted + 1}
    BY Zenon, <1>2 DEF AddUPC
  <2>2. UpcInv'
    BY Zenon, <1>1, <2>1, Entered
  <2> QED BY <1>1, <2>1, <2>2
<1>3. CASE upcs' = left /\ UNCHANGED <<posted, sourceId, activeUpcs>>
  BY <1>1, <1>3 DEF UpcInv
<1> QED BY Zenon, <1>2, <1>3 DEF PostMoveUPC

\* Posting and consuming UPCs keeps the board consistent.
LEMMA UpcSteps ==
  ASSUME BoardInv,
         \/ \E src \in {kRootUpcId} \cup Ids : PostUPC(src)
         \/ \E id \in Ids : ConsumeUPC(id)
  PROVE  BoardInv'
<1>1. ASSUME NEW src \in {kRootUpcId} \cup Ids, PostUPC(src)
      PROVE  BoardInv'
  <2>1. UNCHANGED <<task, tasksById, tasksByUnit, tasksToBeRemoved, controlled, dead, phase,
                    pending>>
    BY Zenon, <1>1 DEF PostUPC, frameVars
  <2>2. PostMoveUPC(src, upcs) /\ src \in Sources
    BY Zenon, <1>1 DEF PostUPC, PostMoveUPC
  <2>3. /\ UpcInv'
        /\ posted \in Nat /\ posted' \in Nat /\ posted <= posted'
        /\ activeUpcs \subseteq activeUpcs'
        /\ \A i \in upcs' : i \in upcs \/ i > posted
    BY Zenon, <2>2, Posting
  <2>4. TypeOK' /\ MappedOnBoard' /\ ControlledByTask' /\ KindsKept' /\ DeadReleased'
    BY Zenon, <2>1, <2>3 DEF BoardInv, TypeOK, UpcInv, MappedOnBoard, ControlledByTask, KindsKept,
       WellFormed, DeadReleased, Finished
  <2>5. AncestorsActive'
    BY Zenon, <2>1, <2>3 DEF BoardInv, UpcInv, AncestorsActive
  <2>6. IdsInOrder'
    <3>1. \A i \in Ids : i \in upcs' \/ i > posted' => i \in upcs \/ i > posted
      BY <2>3 DEF Ids
    <3> QED BY Zenon, <2>1, <2>3, <2>5, <3>1 DEF BoardInv, UpcInv, AncestorsActive, IdsInOrder
  <2> QED BY Zenon, <2>4, <2>5, <2>6 DEF BoardInv
<1>2. ASSUME NEW id \in Ids, ConsumeUPC(id)
      PROVE  BoardInv'
  BY Zenon, <1>2 DEF ConsumeUPC, BoardInv, TypeOK, MappedOnBoard, AncestorsActive, ControlledByTask,
     IdsInOrder, KindsKept, WellFormed, DeadReleased, Finished, frameVars
<1> QED BY Zenon, <1>1, <1>2

\* Posting a task for a UPC of the board keeps the board consistent.
LEMMA PostSteps ==
  ASSUME BoardInv, NEW id \in Ids
  PROVE  (\/ PostProxyTask(id)
          \/ \E u \in Unit : PostScoutTask(id, u) \/ PostMicroTask(id, u)
          \/ \E units \in SUBSET Unit : PostSharedTask(id, units) \/ PostTacticsTask(id, units))
         => BoardInv'
<1> USE MaxUpcAssumption DEF BoardInv, AncestorsActive, IdsInOrder, frameVars, CanPost
<1>1. /\ id \in upcs => id \notin tasksById /\ task[id].kind = "none"
      /\ id # NoTask
      /\ \A u \in Unit : id \in upcs => controlled[u] # id /\ tasksByUnit[u] # id
      /\ posted \in Nat
  BY DEF TypeOK, Ids, NoTask, MappedOnBoard, ControlledByTask
<1>2. ASSUME NEW units \in SUBSET Unit, PostTacticsTask(id, units)
      PROVE  BoardInv'
  <2> DEFINE n == posted + 1
  <2>1. /\ posted < MaxUpc /\ id \in activeUpcs /\ units \subseteq Alive
        /\ posted' = n /\ sourceId' = [sourceId EXCEPT ![n] = id]
        /\ activeUpcs' = activeUpcs \cup {n} /\ tasksById' = tasksById \cup {n}
        /\ task' = [task EXCEPT ![n] = NewTask("tactics", "Unknown", units, NoTask)]
        /\ tasksByUnit' = Mapped(n, units)
        /\ UNCHANGED <<upcs, tasksToBeRemoved, controlled, dead, phase, pending>>
    BY Zenon, <1>2 DEF PostTacticsTask, frameVars
  <2>2. UpcInv
    BY Zenon DEF TypeOK, UpcInv
  <2>3. UpcInv' /\ n \in Ids /\ n \notin activeUpcs /\ n # NoTask
    <3>1. id \in Sources /\ upcs' \subseteq upcs \cup {n}
      BY Zenon, <2>1 DEF Sources
    <3>2. UpcInv' /\ n \in Ids /\ n \notin activeUpcs
      BY Zenon, <2>1, <2>2, <3>1, Entered
    <3> QED BY <3>2 DEF Ids, NoTask
  <2>4. /\ NewTask("tactics", "Unknown", units, NoTask) \in Tasks
        /\ NewTask("tactics", "Unknown", units, NoTask).kind = "tactics"
        /\ NewTask("tactics", "Unknown", units, NoTask).status = "Unknown"
    BY Zenon, TaskTypes DEF NewTask, AllKinds, Status
  <2> HIDE DEF n
  <2>5. /\ task' \in [Ids -> Tasks] /\ tasksByUnit' \in [Unit -> Ids \cup {NoTask}]
        /\ task'[n].kind = "tactics" /\ task'[n].status = "Unknown"
        /\ \A t \in Ids \ {n} : task'[t] = task[t]
        /\ \A v \in Unit : tasksByUnit'[v] \in {n, NoTask, tasksByUnit[v]}
        /\ \A v \in dead : tasksByUnit'[v] \in {NoTask, tasksByUnit[v]}
    BY Zenon, <2>1, <2>3, <2>4 DEF TypeOK, Mapped, Alive
  <2>6. TypeOK'
    BY Zenon, <2>1, <2>3, <2>5 DEF TypeOK, UpcInv
  <2>7. n \notin tasksById /\ n \notin tasksToBeRemoved /\ \A v \in Unit : controlled[v] # n
    BY Zenon, <2>3 DEF KindsKept, ControlledByTask
  <2>8. MappedOnBoard' /\ AncestorsActive'
    BY Zenon, <2>1, <2>3, <2>5 DEF UpcInv, MappedOnBoard
  <2>9. IdsInOrder'
    <3>1. posted' \in Nat /\ posted < posted' /\ n \in 1 .. posted'
      BY <1>1, <2>1 DEF n
    <3> QED BY <1>1, <2>1, <2>3, <2>5, <2>7, <3>1 DEF UpcInv, Ids
  <2>10. ControlledByTask' /\ KindsKept'
    BY <2>1, <2>3, <2>5, <2>7 DEF TypeOK, ControlledByTask, KindsKept, WellFormed
  <2>11. DeadReleased'
    BY SMTT(30), <2>1, <2>5, <2>7, <1>1 DEF TypeOK, MappedOnBoard, DeadReleased, Finished
  <2> QED BY Zenon, <2>6, <2>8, <2>9, <2>10, <2>11
<1>3. ASSUME PostProxyTask(id)
      PROVE  BoardInv'
  <2>1. /\ AddUPC(id, upcs \ {id}) /\ id \in upcs
        /\ task' = [task EXCEPT ![id] = NewTask("proxy", "Unknown", {}, posted + 1)]
        /\ tasksById' = tasksById \cup {id}
        /\ UNCHANGED <<tasksByUnit, tasksToBeRemoved, controlled, dead, phase, pending>>
    BY Zenon, <1>3 DEF PostProxyTask
  <2>2. id \in Sources /\ upcs \ {id} \in SUBSET upcs /\ PostMoveUPC(id, upcs \ {id})
    BY Zenon, <2>1 DEF Sources, PostMoveUPC
  <2>3. /\ UpcInv'
        /\ posted' \in Nat /\ posted <= posted'
        /\ activeUpcs \subseteq activeUpcs'
        /\ \A i \in upcs' : i \in upcs \ {id} \/ i > posted
    BY Zenon, <2>2, Posting DEF BoardInv
  <2>4. posted + 1 \in Ids
    BY <1>1, <2>1 DEF AddUPC, Ids
  <2>5. /\ NewTask("proxy", "Unknown", {}, posted + 1) \in Tasks
        /\ NewTask("proxy", "Unknown", {}, posted + 1).kind = "proxy"
        /\ NewTask("proxy", "Unknown", {}, posted + 1).units = {}
        /\ NewTask("proxy", "Unknown", {}, posted + 1).target = posted + 1
    BY Zenon, <2>4, TaskTypes DEF NewTask, AllKinds, Status
  <2>6. /\ TypeOK'
        /\ task'[id].kind = "proxy"
        /\ task'[id].units = {}
        /\ task'[id].target \in Ids
        /\ id < task'[id].target
        /\ \A t \in Ids \ {id} : task'[t] = task[t]
    BY <1>1, <2>1, <2>3, <2>4, <2>5 DEF TypeOK, UpcInv, Ids
  <2>7. MappedOnBoard' /\ AncestorsActive'
    BY Zenon, <2>1, <2>3 DEF UpcInv, MappedOnBoard
  <2>8. IdsInOrder'
    <3>1. \A i \in Ids : i \in upcs' \/ i > posted' => i # id /\ (i \in upcs \/ i > posted)
      BY <1>1, <2>1, <2>3 DEF Ids
    <3>2. upcs' \cup activeUpcs' \cup tasksById' \subseteq 1 .. posted'
      BY Zenon, <2>3, <2>7 DEF UpcInv
    <3>3. \A i \in Ids : i \in upcs' \/ i > posted' => task'[i].kind = "none"
      BY Zenon, <2>6, <3>1
    <3>4. \A i \in tasksById' : task'[i].kind # "none"
      BY Zenon, <2>1, <2>6 DEF TypeOK
    <3> QED BY Zenon, <3>2, <3>3, <3>4
  <2>9. ControlledByTask' /\ KindsKept' /\ DeadReleased'
    BY SMTT(30), <1>1, <2>1, <2>6 DEF TypeOK, ControlledByTask, KindsKept, WellFormed, DeadReleased,
       Finished
  <2> QED BY Zenon, <2>6, <2>7, <2>8, <2>9
<1>4. ASSUME NEW u \in Unit, PostScoutTask(id, u)
      PROVE  BoardInv'
  <2>1. /\ NewTask("scout", "Ongoing", {u}, NoTask) \in Tasks
        /\ NewTask("scout", "Ongoing", {u}, NoTask).kind = "scout"
    BY Zenon, TaskTypes DEF NewTask, AllKinds, Status
  <2>2. /\ id \in upcs /\ u \notin dead
        /\ PostMoveUPC(id, upcs \ {id})
        /\ tasksById' = tasksById \cup {id}
        /\ UNCHANGED <<tasksToBeRemoved, controlled, dead, phase, pending>>
    BY Zenon, <1>4 DEF PostScoutTask, Alive
  <2>3. id \in Sources /\ upcs \ {id} \in SUBSET upcs
    BY Zenon, <2>2 DEF Sources
  <2>4. /\ UpcInv'
        /\ posted' \in Nat /\ posted <= posted'
        /\ activeUpcs \subseteq activeUpcs'
        /\ \A i \in upcs' : i \in upcs \ {id} \/ i > posted
    BY Zenon, <2>2, <2>3, Posting DEF BoardInv
  <2>5. /\ TypeOK'
        /\ task'[id].kind = "scout"
        /\ \A t \in Ids \ {id} : task'[t] = task[t]
        /\ \A v \in Unit : tasksByUnit'[v] = IF v = u THEN id ELSE tasksByUnit[v]
    BY Zenon, <1>4, <2>1, <2>2, <2>4 DEF TypeOK, UpcInv, PostScoutTask
  <2>6. MappedOnBoard'
    BY Zenon, <2>2, <2>5 DEF MappedOnBoard
  <2>7. AncestorsActive' /\ IdsInOrder'
    BY SMTT(30), <1>1, <2>2, <2>4, <2>5 DEF TypeOK, UpcInv, Ids
  <2>8. ControlledByTask' /\ KindsKept'
    BY <1>1, <2>2, <2>5 DEF TypeOK, ControlledByTask, KindsKept, WellFormed
  <2>9. DeadReleased'
    BY SMTT(30), <1>1, <2>2, <2>5 DEF TypeOK, DeadReleased, Finished
  <2> QED BY Zenon, <2>5, <2>6, <2>7, <2>8, <2>9
<1>5. ASSUME NEW u \in Unit, PostMicroTask(id, u)
      PROVE  BoardInv'
  <2>1. /\ NewTask("micro", "Ongoing", {u}, NoTask) \in Tasks
        /\ NewTask("micro", "Ongoing", {u}, NoTask).kind = "micro"
    BY Zenon, TaskTypes DEF NewTask, AllKinds, Status
  <2>2. \A t \in Ids : /\ With(t, "Failure", task[t].units) \in Tasks
                       /\ With(t, "Failure", task[t].units).kind = task[t].kind
                       /\ With(t, "Failure", task[t].units).status = "Failure"
    BY TaskTypes DEF With, TypeOK, Tasks, Status
  <2>3. /\ Superseded(u) \subseteq tasksById
        /\ tasksById \subseteq Ids
        /\ \A t \in Superseded(u) : task[t].kind = "micro"
    BY Zenon DEF Superseded, TypeOK, MappedOnBoard
  <2>4. /\ TypeOK'
        /\ task'[id].kind = "micro"
        /\ \A t \in Superseded(u) \ {id} : task'[t].kind = "micro" /\ task'[t].status = "Failure"
        /\ \A t \in Ids \ ({id} \cup Superseded(u)) : task'[t] = task[t]
        /\ \A v \in Unit : tasksByUnit'[v] = IF v = u THEN id ELSE tasksByUnit[v]
    BY Zenon, <1>5, <2>1, <2>2, <2>3 DEF TypeOK, PostMicroTask
  <2>5. /\ id \in upcs /\ u \notin dead
        /\ upcs' = upcs \ {id} /\ tasksById' = tasksById \cup {id}
        /\ tasksToBeRemoved' = tasksToBeRemoved \cup Superseded(u)
        /\ UNCHANGED <<posted, sourceId, activeUpcs, controlled, dead>>
    BY Zenon, <1>5 DEF PostMicroTask, Alive
  <2>6. MappedOnBoard'
    BY Zenon, <2>4, <2>5 DEF MappedOnBoard
  <2>7. AncestorsActive' /\ IdsInOrder'
    BY SMTT(30), <1>1, <2>3, <2>4, <2>5 DEF TypeOK
  <2>8. ControlledByTask'
    BY SMTT(30), <1>1, <2>3, <2>4, <2>5 DEF TypeOK, ControlledByTask, KindsKept
  <2>9. KindsKept'
    BY SMTT(30), <1>1, <2>3, <2>4, <2>5 DEF TypeOK, ControlledByTask, KindsKept, WellFormed
  <2>10. DeadReleased'
    BY SMTT(30), <1>1, <2>3, <2>4, <2>5 DEF TypeOK, DeadReleased, Finished
  <2> QED BY Zenon, <2>4, <2>6, <2>7, <2>8, <2>9, <2>10
<1>6. ASSUME NEW units \in SUBSET Unit, PostSharedTask(id, units)
      PROVE  BoardInv'
  <2> USE <1>1, <1>6 DEF PostSharedTask, Alive, Mapped
  <2>1. /\ NewTask("shared", "Ongoing", units, NoTask) \in Tasks
        /\ NewTask("shared", "Ongoing", units, NoTask).kind = "shared"
        /\ NewTask("shared", "Ongoing", units, NoTask).status = "Ongoing"
        /\ NewTask("shared", "Ongoing", units, NoTask).units = units
    BY Zenon, TaskTypes DEF NewTask, AllKinds, Status
  <2>2. /\ TypeOK'
        /\ task'[id].kind = "shared"
        /\ task'[id].status = "Ongoing"
        /\ task'[id].units = units
        /\ \A t \in Ids \ {id} : task'[t] = task[t]
    BY Zenon, <2>1 DEF TypeOK
  <2>3. MappedOnBoard' /\ AncestorsActive' /\ IdsInOrder'
    BY SMTT(30), <2>2 DEF TypeOK, MappedOnBoard
  <2>4. ControlledByTask' /\ DeadReleased'
    BY SMTT(30), <2>2 DEF TypeOK, ControlledByTask, DeadReleased, Finished
  <2>5. id \notin tasksToBeRemoved
    BY Zenon DEF KindsKept
  <2>6. KindsKept'
    BY SMTT(30), <2>2, <2>5 DEF TypeOK, KindsKept, WellFormed
  <2> QED BY Zenon, <2>2, <2>3, <2>4, <2>6
<1> QED BY Zenon, <1>2, <1>3, <1>4, <1>5, <1>6

\* setUnits, cancel and the step of the scouting module keep the board consistent.
LEMMA OperateSteps ==
  ASSUME BoardInv, Operate
  PROVE  BoardInv'
<1> USE DEF BoardInv, frameVars, upcVars
<1>1. ASSUME NEW t \in Ids, NEW units \in SUBSET Unit, SetUnits(t, units)
      PROVE  BoardInv'
  <2>1. /\ With(t, task[t].status, units) \in Tasks
        /\ With(t, task[t].status, units).kind = task[t].kind
        /\ With(t, task[t].status, units).status = task[t].status
    BY Zenon, TaskTypes DEF With, TypeOK, Tasks
  <2>2. /\ TypeOK'
        /\ \A s \in Ids : task'[s].kind = task[s].kind /\ task'[s].status = task[s].status
        /\ \A s \in Ids \ {t} : task'[s] = task[s]
        /\ \A v \in Unit : tasksByUnit'[v] \in {t, NoTask, tasksByUnit[v]}
        /\ \A v \in dead : tasksByUnit'[v] \in {NoTask, tasksByUnit[v]}
    BY Zenon, <1>1, <2>1 DEF TypeOK, SetUnits, Mapped, Alive
  <2>3. /\ t \in tasksById /\ task[t].kind = "tactics" /\ task[t].status # "Cancelled"
        /\ UNCHANGED <<posted, sourceId, upcs, activeUpcs, tasksById, tasksToBeRemoved,
                       controlled, dead>>
    BY Zenon, <1>1 DEF SetUnits, Finished
  <2>4. MappedOnBoard'
    BY Zenon, <2>2, <2>3 DEF MappedOnBoard
  <2>5. AncestorsActive' /\ IdsInOrder'
    BY Zenon, <2>2, <2>3 DEF TypeOK, AncestorsActive, IdsInOrder
  <2>6. ControlledByTask' /\ KindsKept'
    BY SMTT(30), <2>2, <2>3 DEF TypeOK, ControlledByTask, KindsKept, WellFormed
  <2>7. DeadReleased'
    BY <2>2, <2>3 DEF TypeOK, DeadReleased, Finished
  <2> QED BY Zenon, <2>2, <2>4, <2>5, <2>6, <2>7
<1>2. ASSUME NEW t \in Ids, Cancel(t)
      PROVE  BoardInv'
  <2>1. PICK e \in Ids :
          BaseCancel(e) \/ ProxyCancel(e) \/ TacticsCancel(e) \/ SharedCancel(e)
    BY Zenon, <1>2 DEF Cancel
  <2>2. UNCHANGED <<posted, sourceId, activeUpcs, tasksById, tasksToBeRemoved, dead,
                    phase, pending>>
    BY Zenon, <1>2 DEF Cancel
  <2>3. \A us \in SUBSET Unit :
          /\ With(e, "Cancelled", us) \in Tasks
          /\ With(e, "Cancelled", us).kind = task[e].kind
          /\ With(e, "Cancelled", us).target = task[e].target
          /\ With(e, "Cancelled", us).status = "Cancelled"
          /\ With(e, "Cancelled", us).units = us
    BY Zenon, TaskTypes DEF With, Status
  <2>4. task[e].units \in SUBSET Unit
    BY Zenon DEF TypeOK, Tasks
  <2>5. /\ TypeOK'
        /\ upcs' \subseteq upcs
        /\ task'[e].kind = task[e].kind
        /\ task'[e].target = task[e].target
        /\ task'[e].status = "Cancelled"
        /\ task'[e].units \in {{}, task[e].units}
        /\ \A s \in Ids \ {e} : task'[s] = task[s]
        /\ \A v \in Unit : tasksByUnit'[v] \in {NoTask, tasksByUnit[v]}
        /\ \A v \in Unit : controlled'[v] \in {NoTask, controlled[v]}
        /\ task[e].kind = "shared" =>
             \A v \in task[e].units : controlled'[v] # e
        /\ task[e].kind \in {"tactics", "shared"} => task'[e].units = {}
    <3>1. CASE BaseCancel(e)
      BY Zenon, <2>2, <2>3, <2>4, <3>1 DEF BaseCancel, TypeOK
    <3>2. CASE ProxyCancel(e)
      BY Zenon, <2>2, <2>3, <2>4, <3>2 DEF ProxyCancel, TypeOK
    <3>3. CASE TacticsCancel(e)
      BY Zenon, <2>2, <2>3, <2>4, <3>3 DEF TacticsCancel, TypeOK, Mapped
    <3>4. CASE SharedCancel(e)
      BY SMTT(30), <2>2, <2>3, <2>4, <3>4 DEF SharedCancel, TypeOK, Ids, NoTask
    <3> QED BY Zenon, <2>1, <3>1, <3>2, <3>3, <3>4
  <2>6. MappedOnBoard'
    BY Zenon, <2>2, <2>5 DEF MappedOnBoard
  <2>7. AncestorsActive' /\ IdsInOrder'
    BY SMTT(30), <2>2, <2>5 DEF TypeOK, AncestorsActive, IdsInOrder
  <2>8. ControlledByTask'
    BY SMTT(30), <2>2, <2>5 DEF TypeOK, ControlledByTask, KindsKept
  <2>9. KindsKept'
    BY SMTT(30), <2>2, <2>5 DEF TypeOK, KindsKept, WellFormed
  <2>10. DeadReleased'
    BY <2>2, <2>5 DEF TypeOK, DeadReleased, Finished
  <2> QED BY Zenon, <2>5, <2>6, <2>7, <2>8, <2>9, <2>10
<1>3. ASSUME NEW t \in Ids, NEW result \in Status, ScoutStep(t, result)
      PROVE  BoardInv'
  <2> DEFINE after == Scouted(t, result)
  <2>1. /\ t \in tasksById /\ task[t].kind = "scout"
        /\ task' = [task EXCEPT ![t] = after]
        /\ tasksToBeRemoved \subseteq tasksToBeRemoved'
        /\ tasksToBeRemoved' \subseteq tasksToBeRemoved \cup {t}
        /\ PostMoveUPC(t, upcs)
        /\ after = task[t] \/ ~Finished(t)
        /\ UNCHANGED <<tasksById, tasksByUnit, controlled, dead, phase, pending>>
    BY Zenon, <1>3 DEF ScoutStep, PostMoveUPC, Scouted
  <2>2. after \in Tasks /\ after.kind = "scout"
    <3>1. Kept(t) \in SUBSET Unit
      BY Zenon DEF Kept, TypeOK, Tasks
    <3>2. WellFormed(t)
      BY Zenon DEF KindsKept
    <3>3. Updated(t) \in Tasks /\ Updated(t).kind = "scout"
      BY Zenon, <3>2, <2>1, UpdatedFacts
    <3>4. With(t, result, Kept(t)) \in Tasks /\ With(t, result, Kept(t)).kind = "scout"
      BY Zenon, <3>1, <2>1, TaskTypes DEF With
    <3> QED BY Zenon, <2>1, <3>3, <3>4 DEF Scouted, TypeOK
  <2> HIDE DEF after
  <2>3. t \in Sources
    BY Zenon, <2>1 DEF AncestorsActive, Sources
  <2>4. /\ UpcInv'
        /\ posted \in Nat /\ posted' \in Nat /\ posted <= posted'
        /\ activeUpcs \subseteq activeUpcs'
        /\ \A i \in upcs' : i \in upcs \/ i > posted
    BY Zenon, <2>1, <2>3, Posting DEF BoardInv
  <2>5. /\ TypeOK'
        /\ task'[t].kind = "scout"
        /\ \A s \in Ids \ {t} : task'[s] = task[s]
    BY Zenon, <2>1, <2>2, <2>4 DEF TypeOK, UpcInv
  <2>6. MappedOnBoard' /\ AncestorsActive' /\ IdsInOrder'
    BY <2>1, <2>4, <2>5 DEF TypeOK, UpcInv, MappedOnBoard, AncestorsActive, IdsInOrder, Ids
  <2>7. ControlledByTask' /\ KindsKept'
    BY <2>1, <2>5 DEF TypeOK, ControlledByTask, KindsKept, WellFormed
  <2>8. DeadReleased'
    BY <2>1, <2>5 DEF TypeOK, DeadReleased, Finished
  <2> QED BY Zenon, <2>5, <2>6, <2>7, <2>8
<1> QED BY Zenon, <1>1, <1>2, <1>3 DEF Operate

\* The part of update() before the loop: no iterator to a removed task survives,
\* the source UPCs of what is left stay active, and the units that died are
\* released.
LEMMA BeginStep ==
  ASSUME IInv, NEW died \in SUBSET Unit, BeginUpdate(died)
  PROVE  IInv'
<1> USE DEF IInv
<1> DEFINE left == tasksById \ tasksToBeRemoved
<1>1. /\ phase = "modules" /\ phase' = "update" /\ died \subseteq Alive
      /\ tasksById' = left /\ pending' = left /\ tasksToBeRemoved' = {}
      /\ dead' = dead \cup died
      /\ activeUpcs' = activeUpcs \cap WithAncestors(upcs \cup left)
      /\ tasksByUnit' = Unmap(tasksToBeRemoved \cap tasksById, died)
      /\ UNCHANGED <<posted, sourceId, upcs, task, controlled>>
  <2>1. tasksById \ (tasksToBeRemoved \cap tasksById) = left
    BY Zenon
  <2> QED BY Zenon, <2>1 DEF BeginUpdate
<1> HIDE DEF left
<1>2. left \subseteq tasksById /\ \A t \in tasksById : t \notin tasksToBeRemoved => t \in left
  BY Zenon DEF left
<1>3. \A u \in Unit : tasksByUnit'[u] = IF tasksByUnit[u] \in tasksToBeRemoved \/ u \in died
                                        THEN NoTask ELSE tasksByUnit[u]
  BY Zenon, <1>1 DEF Unmap, KindsKept
<1>4. TypeOK'
  <2>1. tasksByUnit' \in [Unit -> Ids \cup {NoTask}]
    BY Zenon, <1>1, <1>3 DEF TypeOK, Unmap
  <2> QED BY Zenon, <1>1, <1>2, <2>1 DEF TypeOK
<1>5. MappedOnBoard'
  BY Zenon, <1>1, <1>2, <1>3 DEF MappedOnBoard
<1>6. AncestorsActive'
  <2>1. upcs \cup left \subseteq WithAncestors(upcs \cup left)
    BY Zenon, <1>2 DEF WithAncestors, TypeOK
  <2>2. ASSUME NEW i \in activeUpcs \cap WithAncestors(upcs \cup left),
               sourceId[i] # kRootUpcId
        PROVE  sourceId[i] \in activeUpcs \cap WithAncestors(upcs \cup left)
    <3>1. sourceId[i] \in activeUpcs /\ sourceId[i] \in Ids
      BY Zenon, <2>2 DEF AncestorsActive, TypeOK
    <3>2. ASSUME NEW S \in SUBSET Ids, upcs \cup left \subseteq S,
                 \A j \in S : sourceId[j] # kRootUpcId => sourceId[j] \in S
          PROVE  sourceId[i] \in S
      <4>1. i \in S
        BY Zenon, <3>2 DEF WithAncestors
      <4> QED BY Zenon, <4>1, <3>2, <2>2
    <3> QED BY Zenon, <3>1, <3>2 DEF WithAncestors
  <2> QED BY Zenon, <1>1, <1>2, <2>1, <2>2 DEF AncestorsActive
<1>7. ControlledByTask'
  BY Zenon, <1>1, <1>2 DEF ControlledByTask, KindsKept
<1>8. IdsInOrder'
  BY Zenon, <1>1, <1>2 DEF IdsInOrder
<1>9. Visited' = {}
  BY Zenon, <1>1 DEF Visited
<1>10. /\ LoopOrder' /\ VisitedMapped' /\ VisitedExclusive' /\ VisitedAlive'
       /\ VisitedProxies'
  BY Zenon, <1>1, <1>9 DEF LoopOrder, VisitedMapped, VisitedExclusive, VisitedAlive, VisitedProxies
<1>11. KindsKept'
  BY Zenon, <1>1 DEF KindsKept, WellFormed
<1>12. DeadReleased'
  BY Zenon, <1>1, <1>3 DEF DeadReleased, Finished, TypeOK
<1> QED BY Zenon, <1>4, <1>5, <1>6, <1>7, <1>8, <1>10, <1>11, <1>12

\* One turn of the loop.  The task that is updated is older than the visited ones:
\* it keeps only units that none of them holds unfinished.
LEMMA UpdateStep ==
  ASSUME IInv, NEW t \in Ids, UpdateTask(t)
  PROVE  IInv'
<1> USE DEF IInv
<1> DEFINE r == Updated(t)
<1>1. /\ phase = "update" /\ phase' = "update"
      /\ t \in pending /\ \A s \in pending : s <= t
      /\ pending' = pending \ {t}
      /\ UNCHANGED <<posted, sourceId, upcs, activeUpcs, tasksById, dead>>
  BY Zenon DEF UpdateTask, Turn, upcVars
<1>2. t \in tasksById /\ task[t].kind # "none" /\ WellFormed(t) /\ t # NoTask
  BY <1>1 DEF LoopOrder, IdsInOrder, KindsKept, Ids, NoTask
<1>3. /\ r \in Tasks
      /\ r.kind = task[t].kind
      /\ r.units \subseteq task[t].units
      /\ r.status \notin {"Success", "Cancelled", "Failure"} /\ task[t].kind # "proxy" =>
           ~Finished(t) /\ r.units \subseteq Kept(t)
      /\ task[t].kind = "shared" =>
           /\ r.status = "Ongoing" => task[t].status = "Ongoing"
           /\ task[t].status = "Ongoing" /\ r.status # "Ongoing" => r.units = {}
  BY Zenon, <1>2, UpdatedFacts
<1>4. /\ task[t].kind = "proxy" => r.units = {} /\ r.target = task[t].target
      /\ task[t].kind = "shared" => r.status # "Unknown"
      /\ task[t].kind \in {"tactics", "shared"} /\ r.status = "Cancelled" => r.units = {}
      /\ task[t].kind = "proxy" /\ r.found /\ r.status # "Cancelled" =>
           r.status = task[task[t].target].status
  <2>1. CASE task[t].kind = "proxy"
    BY Zenon, <1>2, <2>1 DEF Updated, UpdateProxy, WellFormed
  <2>2. CASE task[t].kind = "shared"
    BY Zenon, <1>2, <2>2 DEF Updated, UpdateUnits, With, WellFormed
  <2>3. CASE task[t].kind = "tactics"
    BY Zenon, <1>2, <2>3 DEF Updated, With, WellFormed
  <2> QED BY Zenon, <2>1, <2>2, <2>3
<1>5. task' = [task EXCEPT ![t] = r]
  BY Zenon DEF UpdateTask
<1>6. \A u \in Unit : tasksByUnit'[u] = IF u \in r.units THEN t
                                        ELSE IF tasksByUnit[u] = t THEN NoTask
                                        ELSE tasksByUnit[u]
  BY Zenon DEF UpdateTask, Mapped
<1>7. \A u \in Unit : controlled'[u] = IF /\ task[t].kind = "shared"
                                          /\ controlled[u] = t
                                          /\ u \in task[t].units \ r.units
                                       THEN NoTask ELSE controlled[u]
  BY Zenon DEF UpdateTask
<1>8. /\ tasksToBeRemoved \subseteq tasksToBeRemoved'
      /\ tasksToBeRemoved' \subseteq tasksToBeRemoved \cup {t}
      /\ t \in tasksToBeRemoved' /\ t \notin tasksToBeRemoved =>
           r.status \in {"Success", "Cancelled", "Failure"}
  BY Zenon DEF UpdateTask, Scheduled
<1>9. TypeOK'
  <2>1. tasksByUnit' \in [Unit -> Ids \cup {NoTask}]
    BY Zenon DEF TypeOK, UpdateTask, Mapped
  <2>2. controlled' \in [Unit -> Ids \cup {NoTask}]
    BY Zenon DEF TypeOK, UpdateTask
  <2>3. task' \in [Ids -> Tasks]
    BY Zenon, <1>3, <1>5 DEF TypeOK
  <2> QED BY Zenon, <1>1, <1>8, <2>1, <2>2, <2>3 DEF TypeOK
<1> HIDE DEF r
<1>10. task'[t] = r /\ \A s \in Ids \ {t} : task'[s] = task[s]
  BY Zenon, <1>5 DEF TypeOK
<1>11. MappedOnBoard'
  BY Zenon, <1>1, <1>2, <1>6 DEF MappedOnBoard
<1>12. AncestorsActive' /\ IdsInOrder'
  BY Zenon, <1>1, <1>3, <1>10 DEF AncestorsActive, IdsInOrder, TypeOK
<1>13. ControlledByTask'
  <2> SUFFICES ASSUME NEW u \in Unit, controlled'[u] # NoTask
               PROVE  /\ controlled'[u] \in tasksById
                      /\ task'[controlled'[u]].status = "Ongoing"
                      /\ u \in task'[controlled'[u]].units
    BY Zenon, <1>1 DEF ControlledByTask
  <2>1. /\ controlled'[u] = controlled[u]
        /\ ~(task[t].kind = "shared" /\ controlled[u] = t /\ u \in task[t].units \ r.units)
    BY Zenon, <1>7
  <2>2. /\ controlled[u] \in tasksById
        /\ task[controlled[u]].status = "Ongoing"
        /\ task[controlled[u]].kind = "shared"
        /\ u \in task[controlled[u]].units
    BY Zenon, <2>1 DEF ControlledByTask, KindsKept
  <2>3. CASE controlled[u] = t
    BY Zenon, <2>1, <2>2, <2>3, <1>3, <1>10
  <2>4. CASE controlled[u] # t
    <3>1. task'[controlled[u]] = task[controlled[u]]
      BY Zenon, <2>2, <2>4, <1>10 DEF TypeOK
    <3> QED BY Zenon, <2>1, <2>2, <3>1
  <2> QED BY Zenon, <2>3, <2>4
<1>14. KindsKept'
  <2>1. \A s \in Ids : WellFormed(s)'
    BY Zenon, <1>2, <1>3, <1>4, <1>10 DEF KindsKept, WellFormed
  <2>2. \A u \in Unit : controlled'[u] # NoTask => task'[controlled'[u]].kind = "shared"
    BY SMTT(60), <1>3, <1>7, <1>10 DEF KindsKept, TypeOK
  <2>3. \A s \in tasksToBeRemoved' : task'[s].kind = "shared" => task'[s].status # "Ongoing"
    BY <1>3, <1>8, <1>10 DEF KindsKept, TypeOK
  <2> QED BY Zenon, <1>1, <1>2, <1>8, <2>1, <2>2, <2>3 DEF KindsKept
<1>15. Visited' = Visited \cup {t} /\ t \notin Visited /\ Visited \subseteq Ids
  BY Zenon, <1>1, <1>2 DEF Visited, TypeOK
<1>16. \A s \in Visited : t < s
  BY Zenon, <1>1 DEF LoopOrder
<1>17. LoopOrder'
  <2>1. \A s \in pending' : s < t
    <3>1. pending \subseteq Int /\ t \in Int
      BY Zenon, IdsAreIntegers DEF TypeOK
    <3> QED BY <1>1, <3>1
  <2> QED BY Zenon, <1>1, <1>15, <2>1 DEF LoopOrder
<1>18. VisitedMapped'
  <2>1. \A s \in Visited : task'[s] = task[s] /\ s \in Int /\ t \in Int
    BY Zenon, <1>10, <1>15, IdsAreIntegers
  <2>2. ASSUME NEW s \in Visited, NEW u \in Unit, u \in task[s].units
        PROVE  tasksByUnit'[u] \in Visited' /\ tasksByUnit'[u] <= s
    <3>1. tasksByUnit[u] \in Visited /\ tasksByUnit[u] <= s /\ t < s
      BY Zenon, <2>2, <1>16 DEF VisitedMapped
    <3>2. tasksByUnit[u] # t
      BY Zenon, <3>1, <1>15
    <3>3. tasksByUnit'[u] = t \/ tasksByUnit'[u] = tasksByUnit[u]
      BY Zenon, <3>2, <1>6
    <3>4. t <= s
      BY <2>1, <3>1
    <3> QED BY Zenon, <3>1, <3>3, <3>4, <1>15
  <2>3. ASSUME NEW s \in Visited, NEW u \in Unit, tasksByUnit'[u] = s
        PROVE  u \in task[s].units
    BY <2>1, <2>3, <1>2, <1>6, <1>15 DEF VisitedMapped, TypeOK, Ids, NoTask
  <2>4. ASSUME NEW u \in Unit
        PROVE  /\ u \in r.units => tasksByUnit'[u] = t
               /\ tasksByUnit'[u] = t => u \in r.units
    BY Zenon, <1>2, <1>6
  <2>5. t <= t
    BY IdsAreIntegers
  <2> QED BY Zenon, <2>1, <2>2, <2>3, <2>4, <2>5, <1>10, <1>15 DEF VisitedMapped
<1>19. \A u \in r.units : r.status \notin {"Success", "Cancelled", "Failure"} =>
         tasksByUnit[u] = t /\ ~Finished(t)
  BY Zenon, <1>3, <1>4 DEF Kept
<1>20. VisitedExclusive'
  BY <1>10, <1>15, <1>19 DEF VisitedExclusive, VisitedMapped, Finished
<1>21. VisitedAlive'
  BY Zenon, <1>1, <1>2, <1>10, <1>15, <1>19 DEF VisitedAlive, DeadReleased, Finished
<1>22. DeadReleased'
  <2> SUFFICES ASSUME NEW u \in dead, tasksByUnit'[u] # NoTask
               PROVE  task'[tasksByUnit'[u]].status \in {"Success", "Cancelled", "Failure"}
    BY Zenon, <1>1 DEF DeadReleased, Finished
  <2>1. u \in Unit
    BY Zenon DEF TypeOK
  <2>2. CASE u \in r.units
    <3>1. tasksByUnit'[u] = t
      BY Zenon, <2>1, <2>2, <1>6
    <3>2. r.status \in {"Success", "Cancelled", "Failure"}
      BY Zenon, <2>2, <1>2, <1>19 DEF DeadReleased
    <3> QED BY Zenon, <3>1, <3>2, <1>10
  <2>3. CASE u \notin r.units
    <3>1. tasksByUnit'[u] = tasksByUnit[u] /\ tasksByUnit[u] # t
      BY Zenon, <2>1, <2>3, <1>6
    <3>2. tasksByUnit[u] \in Ids /\ Finished(tasksByUnit[u])
      BY Zenon, <2>1, <3>1 DEF DeadReleased, TypeOK
    <3> QED BY Zenon, <3>1, <3>2, <1>10 DEF Finished
  <2> QED BY Zenon, <2>2, <2>3
<1>23. VisitedProxies'
  <2>1. \A s \in Visited' : task[s].kind = "proxy" =>
          /\ task'[s].target = task[s].target
          /\ task'[task[s].target] = task[task[s].target]
    <3>1. \A s \in Ids : task[s].kind = "proxy" => task[s].target \in Ids /\ s < task[s].target
      BY Zenon DEF KindsKept, WellFormed
    <3>2. \A s \in Visited' : s \in Ids /\ t <= s
      BY <1>15, <1>16 DEF Ids
    <3>3. \A s \in Visited' : task[s].kind = "proxy" => task[s].target # t
      BY <3>1, <3>2 DEF Ids
    <3>4. ASSUME NEW s \in Visited', task[s].kind = "proxy"
          PROVE  task'[s].target = task[s].target
      <4>1. CASE s = t
        BY Zenon, <3>4, <4>1, <1>4, <1>10
      <4>2. CASE s # t
        BY Zenon, <3>2, <4>2, <1>10
      <4> QED BY Zenon, <4>1, <4>2
    <3>5. ASSUME NEW s \in Visited', task[s].kind = "proxy"
          PROVE  task'[task[s].target] = task[task[s].target]
      <4>1. task[s].target \in Ids \ {t}
        BY Zenon, <3>1, <3>2, <3>3, <3>5
      <4> QED BY Zenon, <4>1, <1>10
    <3> QED BY Zenon, <3>4, <3>5
  <2> QED BY SMTT(30), <1>3, <1>4, <1>10, <1>15, <2>1 DEF VisitedProxies
<1> QED BY Zenon, <1>9, <1>11, <1>12, <1>13, <1>14, <1>17, <1>18, <1>20, <1>21, <1>22, <1>23

\* The end of update() changes only the phase.
LEMMA EndStep ==
  ASSUME IInv, EndUpdate
  PROVE  IInv'
<1>1. /\ phase = "update" /\ phase' = "modules" /\ pending = {} /\ pending' = {}
      /\ UNCHANGED <<posted, sourceId, upcs, activeUpcs, task, tasksById, tasksByUnit,
                     tasksToBeRemoved, controlled, dead>>
  BY Zenon DEF EndUpdate, upcVars
<1>2. Visited' = {}
  BY Zenon, <1>1 DEF Visited
<1>3. /\ LoopOrder' /\ VisitedMapped' /\ VisitedExclusive' /\ VisitedAlive'
      /\ VisitedProxies'
  BY Zenon, <1>1, <1>2 DEF LoopOrder, VisitedMapped, VisitedExclusive, VisitedAlive, VisitedProxies
<1>4. BoardInv'
  BY Zenon, <1>1 DEF IInv, BoardInv, TypeOK, MappedOnBoard, AncestorsActive, ControlledByTask,
     IdsInOrder, KindsKept, WellFormed, DeadReleased, Finished
<1> QED BY Zenon, <1>3, <1>4 DEF IInv, BoardInv

-----------------------------------------------------------------------------

\* Every step of the modules and of update() preserves the inductive invariant.
LEMMA NextIInv == IInv /\ [Next]_vars => IInv'
<1> SUFFICES ASSUME IInv, [Next]_vars PROVE IInv'
  BY Zenon
<1>1. BoardInv
  BY Zenon DEF IInv, BoardInv
<1>2. CASE Post
  <2>1. BoardInv'
    <3>1. CASE \/ \E src \in {kRootUpcId} \cup Ids : PostUPC(src)
               \/ \E id \in Ids : ConsumeUPC(id)
      BY Zenon, <1>1, <3>1, UpcSteps
    <3>2. ASSUME NEW id \in Ids,
                 \/ PostProxyTask(id)
                 \/ \E u \in Unit : PostScoutTask(id, u) \/ PostMicroTask(id, u)
                 \/ \E units \in SUBSET Unit :
                      PostSharedTask(id, units) \/ PostTacticsTask(id, units)
          PROVE  BoardInv'
      BY Zenon, <1>1, <3>2, PostSteps
    <3> QED BY Zenon, <1>2, <3>1, <3>2 DEF Post
  <2>2. phase = "modules" /\ phase' = "modules" /\ pending' = pending
    BY Zenon, <1>2 DEF Post, PostUPC, ConsumeUPC, PostTacticsTask, PostProxyTask, PostScoutTask,
       PostMicroTask, PostSharedTask, CanPost, frameVars
  <2>3. pending' = {}
    BY Zenon, <2>2 DEF IInv, LoopOrder
  <2> QED BY Zenon, <2>1, <2>2, <2>3, ModulesPhase DEF IInv, BoardInv
<1>3. CASE Operate
  <2>1. BoardInv'
    BY Zenon, <1>1, <1>3, OperateSteps
  <2>2. phase = "modules" /\ phase' = "modules" /\ pending' = pending
    BY Zenon, <1>3 DEF Operate, SetUnits, Cancel, ScoutStep, frameVars
  <2>3. pending' = {}
    BY Zenon, <2>2 DEF IInv, LoopOrder
  <2> QED BY Zenon, <2>1, <2>2, <2>3, ModulesPhase DEF IInv, BoardInv
<1>4. CASE Frame
  BY Zenon, <1>4, BeginStep, UpdateStep, EndStep DEF Frame
<1>5. CASE UNCHANGED vars
  <2>1. BoardInv'
    BY Zenon, <1>1, <1>5 DEF vars, BoardInv, TypeOK, MappedOnBoard, AncestorsActive, ControlledByTask,
       IdsInOrder, KindsKept, WellFormed, DeadReleased, Finished
  <2>2. /\ LoopOrder' /\ VisitedMapped' /\ VisitedExclusive' /\ VisitedAlive'
        /\ VisitedProxies'
    BY Zenon, <1>5 DEF vars, IInv, LoopOrder, Visited, VisitedMapped, VisitedExclusive, VisitedAlive,
       VisitedProxies, Finished
  <2> QED BY Zenon, <2>1, <2>2 DEF IInv, BoardInv
<1> QED BY Zenon, <1>2, <1>3, <1>4, <1>5 DEF Next

\* The inductive invariant holds in every reachable state of the board.
THEOREM Invariance == Spec => []IInv
BY InitIInv, NextIInv, PTL DEF Spec

\* Every variable of the board keeps its type (blackboard.h:255-285).
THEOREM TypeCorrect == Spec => []TypeOK
BY Invariance, PTL DEF IInv

\* No entry of tasksByUnit_ is an iterator to an erased task
\* (blackboard.cpp:210-237, 367-376).
THEOREM NoDanglingTask == Spec => []MappedOnBoard
BY Invariance, PTL DEF IInv

\* postCommand finds every ancestor of a UPC in use among the active UPCs
\* (blackboard.cpp:287-294, 380-405).
THEOREM CommandsTraceable == Spec => []AncestorsActive
BY Invariance, PTL DEF IInv

\* A SharedController controls units of Ongoing tasks of the board only
\* (controller.cpp:155-209).
THEOREM ControlSound == Spec => []ControlledByTask
BY Invariance, PTL DEF IInv

\* After update() a unit has at most one unfinished holder and a dead unit has
\* none (blackboard.cpp:420-455, task.cpp:36-47).
THEOREM ExclusiveUnits == Spec => []OneHolder
<1>1. IInv => OneHolder
  BY Zenon DEF IInv, OneHolder, Settled, Holders, Visited, VisitedExclusive, VisitedAlive, TypeOK
<1> QED BY <1>1, Invariance, PTL

\* After update() tasksByUnit_ maps each unit to the oldest task that holds it
\* (blackboard.cpp:444-455).
THEOREM ExactMapping == Spec => []MappedToHolder
<1>1. IInv => MappedToHolder
  <2> SUFFICES ASSUME IInv, Settled, NEW u \in Unit
               PROVE  /\ tasksByUnit[u] = NoTask <=> Holders(u) = {}
                      /\ tasksByUnit[u] # NoTask =>
                           /\ tasksByUnit[u] \in Holders(u)
                           /\ \A t \in Holders(u) : tasksByUnit[u] <= t
    BY Zenon DEF MappedToHolder
  <2>1. Visited = tasksById
    BY Zenon DEF Visited, Settled
  <2>2. tasksByUnit[u] # NoTask => tasksByUnit[u] \in Holders(u)
    BY Zenon, <2>1 DEF IInv, MappedOnBoard, VisitedMapped, Holders
  <2>3. \A t \in Holders(u) : tasksByUnit[u] \in tasksById /\ tasksByUnit[u] <= t
    BY Zenon, <2>1 DEF IInv, VisitedMapped, Holders
  <2>4. NoTask \notin tasksById
    BY SMTT(30) DEF IInv, TypeOK, Ids, NoTask
  <2> QED BY Zenon, <2>2, <2>3, <2>4
<1> QED BY <1>1, Invariance, PTL

\* A cancelled TacticsTask or SharedControllerTask keeps no unit (task.h:66-69,
\* tactics.h:31-36, controller.cpp:197-209).
THEOREM CancelReleases == Spec => []CancelFreesUnits
<1>1. IInv => CancelFreesUnits
  BY Zenon DEF IInv, CancelFreesUnits, Settled, Visited, VisitedMapped, MappedOnBoard, KindsKept,
     WellFormed, TypeOK
<1> QED BY <1>1, Invariance, PTL

\* After update() a proxy that has found its target shows the target's status
\* (task.cpp:52-69, blackboard.cpp:420-430).
THEOREM ProxiesCurrent == Spec => []ProxyUpToDate
<1>1. IInv => ProxyUpToDate
  BY Zenon DEF IInv, ProxyUpToDate, Settled, Visited, VisitedProxies
<1> QED BY <1>1, Invariance, PTL

\* Every task that the loop has visited is scheduled for removal when it has to be.
VisitedScheduled ==
  \A t \in Visited : Finished(t) /\ AutoRemove(task[t].kind) => t \in tasksToBeRemoved

\* No finished auto-removed task outlives the next update()
\* (blackboard.cpp:350-378, 457-462).
THEOREM FinishedTasksLeave == Spec => []AutoRemoved
<1>1. Init => VisitedScheduled
  BY Zenon DEF Init, VisitedScheduled, Visited
<1>2. IInv /\ VisitedScheduled /\ [Next]_vars => VisitedScheduled'
  <2> SUFFICES ASSUME IInv, VisitedScheduled, [Next]_vars
               PROVE  VisitedScheduled'
    BY Zenon
  <2>1. CASE phase' # "update"
    BY Zenon, <2>1 DEF VisitedScheduled, Visited
  <2>2. ASSUME NEW died \in SUBSET Unit, BeginUpdate(died)
        PROVE  VisitedScheduled'
    BY Zenon, <2>2 DEF BeginUpdate, VisitedScheduled, Visited
  <2>3. ASSUME NEW t \in Ids, UpdateTask(t)
        PROVE  VisitedScheduled'
    <3>1. /\ task' = [task EXCEPT ![t] = Updated(t)]
          /\ tasksToBeRemoved' = tasksToBeRemoved \cup {x \in {t} : Scheduled(x)}
          /\ Visited' \subseteq Visited \cup {t}
      BY Zenon, <2>3 DEF UpdateTask, Visited
    <3>2. task \in [Ids -> Tasks] /\ Visited \subseteq Ids
      BY Zenon DEF IInv, TypeOK, Visited
    <3>3. Updated(t).kind = task[t].kind
      <4>1. task[t].kind # "none" /\ WellFormed(t)
        BY Zenon, <2>3 DEF IInv, UpdateTask, Turn, LoopOrder, IdsInOrder, KindsKept
      <4> QED BY Zenon, <4>1, UpdatedFacts DEF IInv
    <3>4. ASSUME NEW s \in Visited', Finished(s)', AutoRemove(task[s].kind)'
          PROVE  s \in tasksToBeRemoved'
      <4>1. CASE s = t
        BY Zenon, <4>1, <3>1, <3>2, <3>3, <3>4 DEF Scheduled, Finished, AutoRemove
      <4>2. CASE s # t
        BY Zenon, <4>2, <3>1, <3>2, <3>4 DEF VisitedScheduled, Finished, AutoRemove
      <4> QED BY Zenon, <4>1, <4>2
    <3> QED BY Zenon, <3>4 DEF VisitedScheduled
  <2>4. CASE UNCHANGED vars
    BY Zenon, <2>4 DEF vars, VisitedScheduled, Visited, Finished, AutoRemove
  <2>5. CASE Post
    <3>1. phase' # "update"
      BY Zenon, <2>5 DEF Post, PostUPC, ConsumeUPC, PostTacticsTask, PostProxyTask, PostScoutTask,
         PostMicroTask, PostSharedTask, CanPost, frameVars
    <3> QED BY Zenon, <3>1, <2>1
  <2>6. CASE Operate
    <3>1. phase' # "update"
      BY Zenon, <2>6 DEF Operate, SetUnits, Cancel, ScoutStep, frameVars
    <3> QED BY Zenon, <3>1, <2>1
  <2>7. CASE EndUpdate
    BY Zenon, <2>1, <2>7 DEF EndUpdate
  <2> QED BY Zenon, <2>2, <2>3, <2>4, <2>5, <2>6, <2>7 DEF Next, Frame
<1>3. VisitedScheduled => AutoRemoved
  BY Zenon DEF VisitedScheduled, AutoRemoved, Settled, Visited
<1> QED BY <1>1, <1>2, <1>3, Invariance, PTL DEF Spec

=============================================================================

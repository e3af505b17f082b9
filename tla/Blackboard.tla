----------------------------- MODULE Blackboard -----------------------------
(***************************************************************************)
(* The Blackboard of the bot (src/blackboard.cpp, src/upcstorage.cpp) and  *)
(* the tasks that modules keep on it (src/task.cpp, src/controller.cpp and *)
(* the task classes of the modules).                                       *)
(*                                                                         *)
(* Modules post UPCs (a plan: units, position, command), consume UPCs of   *)
(* other modules and post a Task for each one they work on.  A task        *)
(* occupies units; tasksByUnit_ says which task a unit belongs to.  One    *)
(* frame is State::update, which ends in Blackboard::update, followed by   *)
(* the steps of the modules.  Everything runs in one thread, so an action  *)
(* is one call (or one handler) of a module; Blackboard::update is split   *)
(* at its loop over the tasks: BeginUpdate, one UpdateTask per task in     *)
(* descending order of UPC id, EndUpdate.                                  *)
(*                                                                         *)
(* tasks_, tasksById_ and tasksByModule_ hold the same tasks and change    *)
(* together; tasksById stands for the three.  A UPC has at most one task   *)
(* and the task carries the UPC's id, so an id also names the task object, *)
(* which stays readable (a ProxyTask keeps a shared_ptr) after the board   *)
(* dropped it.                                                             *)
(*                                                                         *)
(* The kinds of task, by their update() and cancel():                      *)
(*   micro    MicroTask of CombatMicro: one unit, auto-removed             *)
(*   scout    ScoutingTask: one unit, removed by its module                *)
(*   tactics  TacticsTask: units reassigned by setUnits, auto-removed      *)
(*   shared   SharedControllerTask: units entered in a SharedController    *)
(*   proxy    ProxyTask: mirrors the status of the task of another UPC     *)
(***************************************************************************)
EXTENDS Integers, FiniteSets

CONSTANTS
  Unit,      \* the units of the player
  MaxUpc,    \* bound: UPCs posted in a behaviour
  Kinds      \* the kinds of task the modules of this instance post

AllKinds == {"micro", "scout", "tactics", "shared", "proxy"}

ASSUME MaxUpcAssumption == MaxUpc \in Nat
ASSUME KindsAssumption == Kinds \subseteq AllKinds

kRootUpcId == 0

Ids == 1 .. MaxUpc

\* kInvalidUpcId; in tasksByUnit and controlled it means "no entry".
NoTask == -1

Status == {"Unknown", "Ongoing", "Success", "Cancelled", "Failure"}

VARIABLES
  posted,       \* upcStorage_: the ids 1..posted have been given out
  sourceId,     \* upcStorage_: the source UPC of each posted UPC
  upcs,         \* upcs_: posted and not yet consumed
  activeUpcs,   \* activeUpcs_: on the board, with a task, or an ancestor
  task,         \* the task objects
  tasksById,    \* tasks_, tasksById_, tasksByModule_: ids of tasks on the board
  tasksByUnit,  \* tasksByUnit_
  tasksToBeRemoved, \* tasksToBeRemoved_ (a repeated entry is only warned about)
  controlled,   \* units_ of the SharedController: unit -> UPC id
  dead,         \* units that have died
  phase,        \* "modules" (module steps) or "update" (in Blackboard::update)
  pending       \* tasks that the loop of update() has still to visit

vars == <<posted, sourceId, upcs, activeUpcs, task, tasksById, tasksByUnit,
          tasksToBeRemoved, controlled, dead, phase, pending>>

upcVars == <<posted, sourceId, upcs, activeUpcs>>
frameVars == <<dead, phase, pending>>

Tasks == [kind : AllKinds \cup {"none"}, status : Status, units : SUBSET Unit,
          target : Ids \cup {NoTask}, found : BOOLEAN]

NewTask(kind, status, units, target) ==
  [kind |-> kind, status |-> status, units |-> units, target |-> target,
   found |-> FALSE]

\* Task t with another status and other units.
With(t, status, units) ==
  [kind |-> task[t].kind, status |-> status, units |-> units,
   target |-> task[t].target, found |-> task[t].found]

Init ==
  /\ posted = 0
  /\ sourceId = [i \in Ids |-> kRootUpcId]
  /\ upcs = {}
  /\ activeUpcs = {}
  /\ task = [i \in Ids |-> NewTask("none", "Unknown", {}, NoTask)]
  /\ tasksById = {}
  /\ tasksByUnit = [u \in Unit |-> NoTask]
  /\ tasksToBeRemoved = {}
  /\ controlled = [u \in Unit |-> NoTask]
  /\ dead = {}
  /\ phase = "modules"
  /\ pending = {}

Finished(t) == task[t].status \in {"Success", "Cancelled", "Failure"}

\* The last argument of postTask in the module of each kind.
AutoRemove(kind) == kind # "scout"

-----------------------------------------------------------------------------
(* UPCs.                                                                    *)

\* A module gives as source a UPC it is working on: one on the board, one it
\* consumed in this frame or one it has a task for; all of them are active.
Sources == {kRootUpcId} \cup activeUpcs

\* Blackboard::postUPC for a UPC that no filter holds back; left are the UPCs on
\* the board without it.
AddUPC(src, left) ==
  /\ posted < MaxUpc
  /\ posted' = posted + 1
  /\ sourceId' = [sourceId EXCEPT ![posted + 1] = src]
  /\ upcs' = left \cup {posted + 1}
  /\ activeUpcs' = activeUpcs \cup {posted + 1}

\* The calls of postUPC that are not part of an action below.
PostUPC(src) ==
  /\ phase = "modules"
  /\ src \in Sources
  /\ AddUPC(src, upcs)
  /\ UNCHANGED <<task, tasksById, tasksByUnit, tasksToBeRemoved, controlled,
                 frameVars>>

\* Consumed (or removed) without a task.
ConsumeUPC(id) ==
  /\ phase = "modules"
  /\ id \in upcs
  /\ upcs' = upcs \ {id}
  /\ UNCHANGED <<posted, sourceId, activeUpcs, task, tasksById, tasksByUnit,
                 tasksToBeRemoved, controlled, frameVars>>

-----------------------------------------------------------------------------
(* Posting a task: the module consumes UPC id and posts its task.           *)

\* postTask throws when tasksById_ has the id.
CanPost(id, kind) ==
  /\ phase = "modules"
  /\ kind \in Kinds
  /\ id \in upcs
  /\ id \notin tasksById

\* Mutant: the old entries of t are not erased.
MappedAddOnly(t, units) ==
  [u \in Unit |-> IF u \in units THEN t ELSE tasksByUnit[u]]

\* tasksByUnit_ after the entries of t are replaced by the units it holds.
Mapped(t, units) ==
  [u \in Unit |-> IF u \in units THEN t
                  ELSE IF tasksByUnit[u] = t THEN NoTask
                  ELSE tasksByUnit[u]]

\* A module assigns units that are alive.
Alive == Unit \ dead

\* ScoutingModule::findUnit passes over the units that are scouting already.
Scouting(u) ==
  \E t \in tasksById : tasksByUnit[u] = t /\ task[t].kind = "scout" /\ ~Finished(t)

\* ScoutingModule::postMoveUPC does not post when the unit is already on its way,
\* or when the UPC is filtered out.
PostMoveUPC(src, left) ==
  \/ AddUPC(src, left)
  \/ upcs' = left /\ UNCHANGED <<posted, sourceId, activeUpcs>>

\* With the move filtered out there is no task: that is ConsumeUPC.
PostScoutTask(id, u) ==
  /\ CanPost(id, "scout")
  /\ u \in Alive /\ ~Scouting(u)
  /\ PostMoveUPC(id, upcs \ {id})
  /\ task' = [task EXCEPT ![id] = NewTask("scout", "Ongoing", {u}, NoTask)]
  /\ tasksById' = tasksById \cup {id}
  /\ tasksByUnit' = [tasksByUnit EXCEPT ![u] = id]
  /\ UNCHANGED <<tasksToBeRemoved, controlled, frameVars>>

\* CombatMicro replaces its previous task for the unit, if there is one.
Superseded(u) ==
  {p \in {tasksByUnit[u]} \ {NoTask} : task[p].kind = "micro"}

PostMicroTask(id, u) ==
  /\ CanPost(id, "micro")
  /\ u \in Alive
  /\ upcs' = upcs \ {id}
  /\ task' = [t \in Ids |->
                IF t = id THEN NewTask("micro", "Ongoing", {u}, NoTask)
                ELSE IF t \in Superseded(u) THEN With(t, "Failure", task[t].units)
                ELSE task[t]]
  /\ tasksById' = tasksById \cup {id}
  /\ tasksByUnit' = [tasksByUnit EXCEPT ![u] = id]
  /\ tasksToBeRemoved' = tasksToBeRemoved \cup Superseded(u)
  /\ UNCHANGED <<posted, sourceId, activeUpcs, controlled, frameVars>>

\* GathererModule::step takes those units of the UPC that no task has; the
\* constructor of SharedControllerTask enters them in the controller.
PostSharedTask(id, units) ==
  /\ CanPost(id, "shared")
  /\ units \subseteq Alive /\ units # {}
  /\ \A u \in units : tasksByUnit[u] = NoTask
  /\ upcs' = upcs \ {id}
  /\ task' = [task EXCEPT ![id] = NewTask("shared", "Ongoing", units, NoTask)]
  /\ tasksById' = tasksById \cup {id}
  /\ tasksByUnit' = Mapped(id, units)
  /\ controlled' = [u \in Unit |-> IF u \in units THEN id ELSE controlled[u]]
  /\ UNCHANGED <<posted, sourceId, activeUpcs, tasksToBeRemoved, frameVars>>

\* TacticsModule::process for a new group: it posts a UPC under the one it consumed,
\* consumes it at once, posts the task and gives it the units of the group.
PostTacticsTask(src, units) ==
  /\ phase = "modules"
  /\ "tactics" \in Kinds
  /\ posted < MaxUpc
  /\ src \in activeUpcs
  /\ units \subseteq Alive
  /\ posted' = posted + 1
  /\ sourceId' = [sourceId EXCEPT ![posted + 1] = src]
  /\ activeUpcs' = activeUpcs \cup {posted + 1}
  /\ task' = [task EXCEPT ![posted + 1] = NewTask("tactics", "Unknown", units, NoTask)]
  /\ tasksById' = tasksById \cup {posted + 1}
  /\ tasksByUnit' = Mapped(posted + 1, units)
  /\ UNCHANGED <<upcs, tasksToBeRemoved, controlled, frameVars>>

\* The module consumes the UPC, posts a more concrete one and tracks that one.
PostProxyTask(id) ==
  /\ CanPost(id, "proxy")
  /\ AddUPC(id, upcs \ {id})
  /\ task' = [task EXCEPT ![id] = NewTask("proxy", "Unknown", {}, posted + 1)]
  /\ tasksById' = tasksById \cup {id}
  /\ UNCHANGED <<tasksByUnit, tasksToBeRemoved, controlled, frameVars>>

-----------------------------------------------------------------------------
(* Operations of the modules on their tasks.                                *)

\* TacticsTask::setUnits, followed by Blackboard::updateTasksByUnit.  A cancelled
\* task has left the board by the time TacticsModule::process runs again, two
\* frames later at the earliest (the default interval is three).
SetUnits(t, units) ==
  /\ phase = "modules"
  /\ t \in tasksById
  /\ task[t].kind = "tactics"
  /\ ~Finished(t)
  /\ units \subseteq Alive
  /\ task' = [task EXCEPT ![t] = With(t, task[t].status, units)]
  /\ tasksByUnit' = Mapped(t, units)
  /\ UNCHANGED <<upcVars, tasksById, tasksToBeRemoved, controlled, frameVars>>

\* A ProxyTask hands cancel() to the task it has found, which may be a proxy.
CancelEnd[t \in Ids] ==
  IF task[t].kind = "proxy" /\ task[t].found THEN CancelEnd[task[t].target] ELSE t

\* Task::cancel.
BaseCancel(e) ==
  /\ task[e].kind \in {"micro", "scout"}
  /\ task' = [task EXCEPT ![e] = With(e, "Cancelled", task[e].units)]
  /\ UNCHANGED <<upcs, tasksByUnit, controlled>>

\* ProxyTask::cancel without a target: removes the UPC of the target.
ProxyCancel(e) ==
  /\ task[e].kind = "proxy"
  /\ ~task[e].found
  /\ upcs' = upcs \ {task[e].target}
  /\ task' = [task EXCEPT ![e] = With(e, "Cancelled", task[e].units)]
  /\ UNCHANGED <<tasksByUnit, controlled>>

\* Mutant: only the status is set.
TacticsCancelKeepsUnits(e) ==
  /\ task[e].kind = "tactics"
  /\ task' = [task EXCEPT ![e] = With(e, "Cancelled", task[e].units)]
  /\ UNCHANGED <<upcs, tasksByUnit, controlled>>

TacticsCancel(e) ==
  /\ task[e].kind = "tactics"
  /\ task' = [task EXCEPT ![e] = With(e, "Cancelled", {})]
  /\ tasksByUnit' = Mapped(e, {})
  /\ UNCHANGED <<upcs, controlled>>

\* Mutant: the controller is not told.
SharedCancelKeepsControl(e) ==
  /\ task[e].kind = "shared"
  /\ task[e].status = "Ongoing"
  /\ task' = [task EXCEPT ![e] = With(e, "Cancelled", {})]
  /\ UNCHANGED <<upcs, tasksByUnit, controlled>>

\* SharedControllerTask::cancel does nothing unless the task is Ongoing.
SharedCancel(e) ==
  /\ task[e].kind = "shared"
  /\ task[e].status = "Ongoing"
  /\ controlled' = [u \in Unit |-> IF u \in task[e].units /\ controlled[u] = e
                                   THEN NoTask ELSE controlled[u]]
  /\ task' = [task EXCEPT ![e] = With(e, "Cancelled", {})]
  /\ UNCHANGED <<upcs, tasksByUnit>>

\* Modules cancel their tactics tasks and their proxies; through a proxy the signal
\* reaches tasks of every kind.
Cancel(t) ==
  /\ phase = "modules"
  /\ t \in tasksById
  /\ task[t].kind \in {"tactics", "proxy"}
  /\ \E e \in Ids :
       /\ e = CancelEnd[t]
       /\ BaseCancel(e) \/ ProxyCancel(e) \/ TacticsCancel(e) \/ SharedCancel(e)
  /\ UNCHANGED <<posted, sourceId, activeUpcs, tasksById, tasksToBeRemoved,
                 frameVars>>

-----------------------------------------------------------------------------
(* Task::update and its overrides, and the board's loop over the tasks.     *)

\* Task::removeDeadOrReassignedUnits.
Kept(t) == {u \in task[t].units : tasksByUnit[u] = t}

\* The update() of a task that fails without units.
UpdateUnits(t, kept) ==
  With(t, IF kept = {} THEN "Failure" ELSE task[t].status, kept)

UpdateProxy(t) ==
  IF task[t].found \/ task[t].target \in tasksById
  THEN [kind |-> "proxy", status |-> task[task[t].target].status,
        units |-> task[t].units, target |-> task[t].target, found |-> TRUE]
  ELSE task[t]

\* The task after task->update(state_), which is skipped for Cancelled tasks.
Updated(t) ==
  IF task[t].status = "Cancelled" THEN task[t] ELSE
    CASE task[t].kind = "micro"    -> UpdateUnits(t, Kept(t))
      [] task[t].kind = "scout"    -> IF Finished(t) THEN task[t]
                                      ELSE UpdateUnits(t, Kept(t))
      [] task[t].kind = "tactics"  -> With(t, task[t].status, Kept(t))
      [] task[t].kind = "shared"   -> IF task[t].status # "Ongoing" THEN task[t]
                                      ELSE UpdateUnits(t, Kept(t) \ dead)
      [] task[t].kind = "proxy"    -> UpdateProxy(t)
      [] OTHER                     -> task[t]

\* A scout after ScoutingModule::step has updated it and ended it when the goal is
\* met (Success) or its next move is filtered out (Cancelled).
Scouted(t, result) ==
  IF Finished(t) THEN task[t]
  ELSE IF Kept(t) = {} THEN Updated(t)
  ELSE With(t, result, Kept(t))

\* ScoutingModule::step for one task.  A unit that is still the task's is sent on,
\* or back to base when the task has finished, which is then marked for removal.
ScoutStep(t, result) ==
  LET after == Scouted(t, result)
  IN  /\ phase = "modules"
      /\ t \in tasksById
      /\ task[t].kind = "scout"
      /\ result \in {"Ongoing", "Success", "Cancelled"}
      /\ task' = [task EXCEPT ![t] = after]
      /\ tasksToBeRemoved' = tasksToBeRemoved \cup
           {x \in {t} : after.status \in {"Success", "Cancelled", "Failure"}}
      /\ IF \E u \in after.units : tasksByUnit[u] = t
         THEN PostMoveUPC(t, upcs)
         ELSE UNCHANGED upcVars
      /\ UNCHANGED <<tasksById, tasksByUnit, controlled, frameVars>>

\* Mutant: the sources of the UPCs in use are not kept.
WithoutAncestors(roots) == roots

\* The UPCs in roots and all their ancestors: the least set that contains roots
\* and the source of each member.
WithAncestors(roots) ==
  {i \in Ids : \A S \in SUBSET Ids :
     (/\ roots \subseteq S
      /\ \A j \in S : sourceId[j] # kRootUpcId => sourceId[j] \in S) => i \in S}

\* tasksByUnit_ without the entries of removed tasks and of dead units.
Unmap(removed, died) ==
  [u \in Unit |-> IF tasksByUnit[u] \in removed \/ u \in died
                  THEN NoTask ELSE tasksByUnit[u]]

\* update() up to the loop over the tasks; died are getDestroyUnits().
BeginUpdate(died) ==
  LET removed == tasksToBeRemoved \cap tasksById
      left    == tasksById \ removed
  IN  /\ phase = "modules"
      /\ died \subseteq Alive
      /\ dead' = dead \cup died
      /\ tasksById' = left
      /\ tasksToBeRemoved' = {}
      /\ activeUpcs' = activeUpcs \cap WithAncestors(upcs \cup left)
      /\ tasksByUnit' = Unmap(removed, died)
      /\ pending' = left
      /\ phase' = "update"
      /\ UNCHANGED <<posted, sourceId, upcs, task, controlled>>

\* Mutant: oldest task first.
TurnOldestFirst(t) == t \in pending /\ \A s \in pending : t <= s

\* The loop visits the tasks in reverse order of their UPC ids.
Turn(t) == t \in pending /\ \A s \in pending : s <= t

\* Mutant: cancelled tasks, whose update() is skipped, are not scheduled.
ScheduledUnlessCancelled(t) ==
  AutoRemove(task[t].kind) /\ Updated(t).status \in {"Success", "Failure"}

\* Auto-removal is turned on and the task has finished.
Scheduled(t) ==
  /\ AutoRemove(task[t].kind)
  /\ Updated(t).status \in {"Success", "Cancelled", "Failure"}

\* One turn of the loop.
UpdateTask(t) ==
  /\ phase = "update"
  /\ Turn(t)
  /\ task' = [task EXCEPT ![t] = Updated(t)]
  /\ controlled' = [u \in Unit |-> IF /\ task[t].kind = "shared"
                                      /\ controlled[u] = t
                                      /\ u \in task[t].units \ Updated(t).units
                                   THEN NoTask ELSE controlled[u]]
  /\ tasksByUnit' = Mapped(t, Updated(t).units)
  /\ tasksToBeRemoved' = tasksToBeRemoved \cup {x \in {t} : Scheduled(x)}
  /\ pending' = pending \ {t}
  /\ UNCHANGED <<upcVars, tasksById, dead, phase>>

EndUpdate ==
  /\ phase = "update"
  /\ pending = {}
  /\ phase' = "modules"
  /\ UNCHANGED <<upcVars, task, tasksById, tasksByUnit, tasksToBeRemoved,
                 controlled, dead, pending>>

-----------------------------------------------------------------------------

Post ==
  \/ \E src \in {kRootUpcId} \cup Ids : PostUPC(src)
  \/ \E id \in Ids :
       \/ ConsumeUPC(id)
       \/ PostProxyTask(id)
       \/ \E u \in Unit : PostScoutTask(id, u) \/ PostMicroTask(id, u)
       \/ \E units \in SUBSET Unit : PostSharedTask(id, units) \/ PostTacticsTask(id, units)

Operate ==
  \E t \in Ids :
    \/ Cancel(t)
    \/ \E units \in SUBSET Unit : SetUnits(t, units)
    \/ \E result \in Status : ScoutStep(t, result)

Frame ==
  \/ \E died \in SUBSET Unit : BeginUpdate(died)
  \/ \E t \in Ids : UpdateTask(t)
  \/ EndUpdate

Next == Post \/ Operate \/ Frame

Spec == Init /\ [][Next]_vars

-----------------------------------------------------------------------------

\* The types; an entry of a table is a posted id or NoTask, never the result of an
\* unchecked look-up (combatmicro.cpp:190-197).
TypeOK ==
  /\ posted \in 0 .. MaxUpc
  /\ sourceId \in [Ids -> {kRootUpcId} \cup Ids]
  /\ upcs \subseteq Ids
  /\ activeUpcs \subseteq Ids
  /\ task \in [Ids -> Tasks]
  /\ tasksById \subseteq Ids
  /\ tasksByUnit \in [Unit -> Ids \cup {NoTask}]
  /\ tasksToBeRemoved \subseteq Ids
  /\ controlled \in [Unit -> Ids \cup {NoTask}]
  /\ dead \subseteq Unit
  /\ phase \in {"modules", "update"}
  /\ pending \subseteq Ids

\* The entries of tasksByUnit_ are list iterators: every one of them points to a
\* task that is still in tasks_, so taskWithUnit never follows an iterator to an
\* erased element (blackboard.cpp:210-237, 367-376).
MappedOnBoard ==
  \A u \in Unit : tasksByUnit[u] # NoTask => tasksByUnit[u] \in tasksById

\* Every UPC on the board, every UPC with a task on the board and every ancestor
\* of an active UPC has its entry in activeUpcs_, so the walk of postCommand from
\* such a UPC to the root never meets a missing entry (blackboard.cpp:287-294),
\* whatever update() has pruned.
AncestorsActive ==
  /\ upcs \cup tasksById \subseteq activeUpcs
  /\ \A i \in activeUpcs : sourceId[i] # kRootUpcId => sourceId[i] \in activeUpcs

\* Update() is done and no module has run yet.
Settled == phase = "update" /\ pending = {}

Holders(u) == {t \in tasksById : u \in task[t].units}

\* After update() a unit is held by at most one unfinished task, however many
\* tasks were posted for it or given it since the last update (blackboard.cpp:
\* 420-455 with task.cpp:36-47 and controller.cpp:167-195), and a dead unit by
\* none.
OneHolder ==
  Settled => \A u \in Unit :
    LET live == {t \in Holders(u) : ~Finished(t)}
    IN  /\ \A s, t \in live : s = t
        /\ u \in dead => live = {}

\* After update() the mapping is exact: a unit is mapped to the oldest task that
\* holds it, and to none only when no task holds it.
MappedToHolder ==
  Settled => \A u \in Unit :
    /\ tasksByUnit[u] = NoTask <=> Holders(u) = {}
    /\ tasksByUnit[u] # NoTask =>
         /\ tasksByUnit[u] \in Holders(u)
         /\ \A t \in Holders(u) : tasksByUnit[u] <= t

\* A SharedController controls a unit under the id of a task that is on the
\* board, Ongoing and holds the unit: neither reassignment, death, cancel() nor
\* removal of tasks leaves a unit behind in the controller
\* (controller.cpp:155-209).
ControlledByTask ==
  \A u \in Unit : controlled[u] # NoTask =>
    LET t == controlled[u]
    IN  t \in tasksById /\ task[t].status = "Ongoing" /\ u \in task[t].units

\* Tasks are updated newest first, so a proxy, which is older than its target,
\* shows after update() the status the target has at that very moment
\* (task.cpp:52-69, blackboard.cpp:420-430).
ProxyUpToDate ==
  Settled => \A t \in tasksById :
    task[t].kind = "proxy" /\ task[t].found /\ task[t].status # "Cancelled"
      => task[t].status = task[task[t].target].status

\* A finished task that is auto-removed leaves the board in time: once update() is
\* done it is scheduled, however it was finished (by its own update(), by another
\* module, through a proxy, or by cancel(), after which its update() is skipped), and
\* the next update() drops it (blackboard.cpp:426-428, 457-462, 350-378).
AutoRemoved ==
  Settled => \A t \in tasksById :
    Finished(t) /\ AutoRemove(task[t].kind) => t \in tasksToBeRemoved

\* Cancelling a task that overrides cancel() frees its units (task.h:66-69,
\* tactics.h:31-36, controller.cpp:197-209): after update() no unit belongs to a
\* cancelled TacticsTask or SharedControllerTask, whoever cancelled it and whatever
\* was assigned to it before.
CancelFreesUnits ==
  Settled => \A u \in Unit : tasksByUnit[u] # NoTask =>
    LET t == tasksByUnit[u]
    IN  ~(task[t].status = "Cancelled" /\ task[t].kind \in {"tactics", "shared"})

=============================================================================

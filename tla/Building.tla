------------------------------ MODULE Building ------------------------------
(***************************************************************************)
(* How a building of the build order gets built: AutoBuildTask             *)
(* (src/modules/autobuild.cpp) posts a request for each item, the          *)
(* BuildingPlacerModule (src/modules/buildingplacer.cpp) reserves tiles    *)
(* for it and posts a build UPC with the position, and the BuilderModule   *)
(* (src/modules/builder.cpp) runs a task for the build UPC.  The placer    *)
(* proxies that task and tries another position when it fails; AutoBuild   *)
(* proxies the placer and cancels what the build order no longer wants.    *)
(*                                                                         *)
(* One frame is Blackboard::update and then the steps of the three modules *)
(* in the order of kDefaultModules.  Everything runs in one thread; the    *)
(* loops of the placer are one action per UPC or task.                     *)
(*                                                                         *)
(* All items are of one building type, so an item of the build order is    *)
(* its position: a site, or NoPos.  What the Builder's controllers do with *)
(* workers is not part of this module: a build task starts construction,   *)
(* succeeds or fails at any update.  Priorities only order the Builder's   *)
(* tasks and are left out.                                                 *)
(***************************************************************************)
EXTENDS Integers, FiniteSetsExt

CONSTANTS
  Sites,        \* positions a building can have
  NoPos,        \* Position(-1, -1), kInvalidPosition
  Area,         \* the tiles of a building at a site
  Addon,        \* the tiles of its addon (getAddon; empty for most types)
  Entries,      \* items the build order may hold: sites, or NoPos
  ModelLoaded,  \* model_ != nullptr in the placer
  MaxUpc,       \* bound: UPCs posted in a behaviour
  MaxWanted     \* bound: items of the build order at one time

ASSUME EntriesAssumption == Entries \subseteq Sites \cup {NoPos}
ASSUME SitesAssumption == \A s \in Sites : Area[s] # {} /\ Area[s] \cap Addon[s] = {}
ASSUME BoundsAssumption == MaxUpc \in Nat /\ MaxWanted \in Nat

Ids == 1 .. MaxUpc

\* kRootUpcId for a source, kInvalidUpcId for a target.
NoId == 0

VARIABLES
  posted,     \* the UPC ids 1..posted have been given out
  upc,        \* the UPCs: source and position
  upcs,       \* upcs_: the UPCs on the board
  task,       \* the task of each UPC
  onBoard,    \* tasksById_: ids of the tasks on the board
  removal,    \* tasksToBeRemoved_
  tiles,      \* the tiles with reservedAsUnbuildable
  targets,    \* targetUpcIds_ of the AutoBuildTask, which is in the order of the ids
  found,      \* the targets whose entry of targets_ is set
  phase,      \* what the frame does next
  todo,       \* UPCs or tasks the current loop of the placer has still to visit
  revived     \* history: requests retried after they were cancelled

vars == <<posted, upc, upcs, task, onBoard, removal, tiles, targets, found,
          phase, todo, revived>>

Full(s) == Area[s] \cup Addon[s]

Request(id) == upc[id].src = NoId

Finished(t) == t.status \in {"Success", "Cancelled", "Failure"}

\* A task that was never posted.
NoTask == [kind |-> "none", status |-> "Unknown", target |-> NoId,
           found |-> FALSE, respawn |-> FALSE, reserved |-> FALSE,
           pos |-> NoPos, started |-> FALSE]

PlacerTask(b, s) ==
  [NoTask EXCEPT !.kind = "placer", !.target = b, !.reserved = TRUE, !.pos = s]

\* The ControllerTask of a WorkerBuilderController.
BuildTask(s) ==
  [NoTask EXCEPT !.kind = "build", !.status = "Ongoing", !.pos = s]

Tasks ==
  [kind : {"none", "placer", "build"},
   status : {"Unknown", "Ongoing", "Success", "Cancelled", "Failure"},
   target : {NoId} \cup Ids, found : BOOLEAN, respawn : BOOLEAN,
   reserved : BOOLEAN, pos : Sites \cup {NoPos}, started : BOOLEAN]

Init ==
  /\ posted = 0
  /\ upc = [i \in Ids |-> [src |-> NoId, pos |-> NoPos]]
  /\ upcs = {}
  /\ task = [i \in Ids |-> NoTask]
  /\ onBoard = {}
  /\ removal = {}
  /\ tiles = {}
  /\ targets = {}
  /\ found = {}
  /\ phase = "update"
  /\ todo = {}
  /\ revived = {}

-----------------------------------------------------------------------------
(* Task::update and Task::cancel, on the task function t.                   *)

Ongoing(board) == {i \in board : task[i].kind = "build" /\ task[i].status = "Ongoing"}

\* What the controllers of the ongoing builds may report at an update: nothing,
\* construction started, success once it has started, failure at any time.
Reports(board) ==
  {o \in [Ongoing(board) -> {"none", "start", "success", "failure"}] :
     \A i \in Ongoing(board) :
        /\ o[i] = "start" => ~task[i].started
        /\ o[i] = "success" => task[i].started}

\* ControllerTask::update.
BuildsUpdated(o) ==
  [i \in Ids |->
     IF i \notin DOMAIN o THEN task[i]
     ELSE CASE o[i] = "none" -> task[i]
            [] o[i] = "start" -> [task[i] EXCEPT !.started = TRUE]
            [] o[i] = "success" -> [task[i] EXCEPT !.status = "Success"]
            [] o[i] = "failure" -> [task[i] EXCEPT !.status = "Failure"]]

\* ProxyTask::update: the status of the target, once the board has its task.
Proxied(t, r, board) ==
  IF t[r].found \/ t[r].target \in board
  THEN [t[r] EXCEPT !.found = TRUE, !.status = t[t[r].target].status]
  ELSE t[r]

\* The rest of BuildingPlacerTask::update: a failure schedules a retry, any
\* other end gives the tiles back.
PlacerUpdated(p) ==
  IF ~Finished(p) THEN p
  ELSE IF p.status = "Failure"
       THEN [p EXCEPT !.respawn = TRUE, !.status = "Unknown", !.found = FALSE,
                      !.target = NoId]
       ELSE [p EXCEPT !.reserved = FALSE]

\* The tasks on the board after the updates of builds and placers; b gives the
\* builds after theirs.  A build has a larger id than its placer, so its update
\* comes first.  Cancelled tasks are not updated.
TasksUpdated(b, board) ==
  [i \in Ids |->
     IF i \in board /\ b[i].kind = "placer" /\ b[i].status # "Cancelled"
     THEN PlacerUpdated(Proxied(b, i, board))
     ELSE b[i]]

\* ControllerTask::cancel.
BuildCancelled(b) ==
  IF b.status = "Ongoing" THEN [b EXCEPT !.status = "Cancelled"] ELSE b

\* BuildingPlacerTask::cancel with ProxyTask::cancel: with a target the status
\* is left to the next update.
PlacerCancelled(p) ==
  [p EXCEPT !.reserved = FALSE,
            !.status = IF p.found THEN p.status ELSE "Cancelled"]

\* The builds that cancelling the requests in S cancels: the found targets of
\* placers, and builds that the Builder runs for the request itself.
BuildsOf(t, S) ==
  {t[r].target : r \in {q \in S : t[q].kind = "placer" /\ t[q].found}} \cup
  {r \in S : t[r].kind = "build"}

\* Mutant: cancel is not passed on to the target.
CancelledAlone(t, S) ==
  [i \in Ids |-> IF i \in S /\ t[i].kind = "placer" THEN PlacerCancelled(t[i])
                 ELSE t[i]]

\* cancel() of the tasks of the requests in S.
Cancelled(t, S) ==
  [i \in Ids |-> IF i \in BuildsOf(t, S) THEN BuildCancelled(t[i])
                 ELSE IF i \in S /\ t[i].kind = "placer"
                      THEN PlacerCancelled(t[i])
                      ELSE t[i]]

\* The UPCs that ProxyTask::cancel removes from the board.
CancelledUpcs(t, S) ==
  {t[r].target : r \in {q \in S : t[q].kind = "placer" /\ ~t[q].found}}

\* unreserveLocation for the tasks that hold tiles in t and not in u.
Unreserved(t, u) ==
  tiles \ UNION {Full(t[i].pos) : i \in {j \in Ids : t[j].reserved /\ ~u[j].reserved}}

-----------------------------------------------------------------------------
(* Blackboard::update.  The AutoBuildTask has the smallest id and comes     *)
(* last, after the finished tasks were scheduled for removal.               *)

\* newUnit() in AutoBuildTask::update, once for each of the n buildings that
\* appeared: it drops the first target of the building's type, and cancels it if
\* known.
Dropped(n) == {r \in targets : Cardinality({q \in targets : q < r}) < n}

BoardUpdate ==
  /\ phase = "update"
  /\ \E o \in Reports(onBoard \ removal) :
       LET board == onBoard \ removal
           known == found \cup (targets \cap board)
           dropped == Dropped(Quantify(DOMAIN o, LAMBDA i : o[i] = "start"))
           updated == TasksUpdated(BuildsUpdated(o), board)
           left == Cancelled(updated, dropped \cap known)
       IN /\ onBoard' = board
          /\ removal' = {i \in board : Finished(updated[i])}
          /\ task' = left
          /\ upcs' = upcs \ CancelledUpcs(updated, dropped \cap known)
          /\ tiles' = Unreserved(task, left)
          /\ targets' = targets \ dropped
          /\ found' = known \ dropped
  /\ phase' = "autobuild"
  /\ UNCHANGED <<posted, upc, todo, revived>>

-----------------------------------------------------------------------------
(* AutoBuildModule::step.                                                   *)

EndAutoBuild ==
  /\ phase' = "place"
  /\ todo' = {r \in upcs' : upc'[r].src = NoId}

\* No replanning in this frame.
SkipEvaluate ==
  /\ phase = "autobuild"
  /\ UNCHANGED <<posted, upc, upcs, task, onBoard, removal, tiles, targets, found,
                 revived>>
  /\ EndAutoBuild

\* The targets that evaluate() keeps: their UPC was consumed and their task is
\* known and not finished.
Running == {r \in targets : r \notin upcs /\ r \in found /\ ~Finished(task[r])}

\* The targets matched with the items wanted: for each item the first ones that
\* ask for it.
Matched(wanted) ==
  {r \in Running :
     Cardinality({q \in Running : q < r /\ upc[q].pos = upc[r].pos}) < wanted[upc[r].pos]}

\* How often each item is wanted and no target asks for it.
Missing(wanted) ==
  [e \in Entries |-> wanted[e] - Quantify(Matched(wanted), LAMBDA r : upc[r].pos = e)]

\* evaluate(): UPCs nobody consumed are taken back, ended targets dropped, new
\* requests posted for the n missing items, and targets that are no longer wanted
\* cancelled.
Evaluate(wanted, n, items) ==
  LET unwanted == Running \ Matched(wanted)
      new == posted + 1 .. posted + n
  IN /\ phase = "autobuild"
     /\ \A e \in Entries : Quantify(1 .. n, LAMBDA i : items[i] = e) = Missing(wanted)[e]
     /\ posted + n <= MaxUpc
     /\ posted' = posted + n
     /\ upc' = [i \in Ids |-> IF i \in new
                              THEN [src |-> NoId, pos |-> items[i - posted]]
                              ELSE upc[i]]
     /\ upcs' = (upcs \ (targets \cup CancelledUpcs(task, unwanted))) \cup new
     /\ task' = Cancelled(task, unwanted)
     /\ tiles' = Unreserved(task, task')
     /\ targets' = Matched(wanted) \cup new
     /\ found' = Matched(wanted)
     /\ EndAutoBuild
     /\ UNCHANGED <<onBoard, removal, revived>>

\* switchToBuildOrder(): MultiProxyTask::cancel of the current AutoBuildTask;
\* the task of the next build order starts without targets.
SwitchBuildOrder ==
  LET known == targets \cap found
  IN /\ phase = "autobuild"
     /\ targets # {}
     /\ task' = Cancelled(task, known)
     /\ upcs' = upcs \ (CancelledUpcs(task, known) \cup (targets \ found))
     /\ tiles' = Unreserved(task, task')
     /\ targets' = {}
     /\ found' = {}
     /\ UNCHANGED <<posted, upc, onBoard, removal, phase, todo, revived>>

-----------------------------------------------------------------------------
(* BuildingPlacerModule::step.                                              *)

Free(T, tls) == T \cap tls = {}

\* upcWithPositionForBuilding for a request for position e when the tiles tls
\* are reserved: the position asked for, checked without its addon; a position
\* found nearby or by heuristics, checked with it; one the model picks in the
\* mask of canBuildAt; or none, since other conditions of the map may fail.
Locations(e, tls) ==
  {NoPos} \cup {s \in Sites : Free(Full(s), tls)}
          \cup {s \in Sites : Free(Area[s], tls) /\ (s = e \/ ModelLoaded)}

\* postUPC for a build of request r at s.
PostBuild(r, s, left) ==
  /\ posted < MaxUpc
  /\ posted' = posted + 1
  /\ upc' = [upc EXCEPT ![posted + 1] = [src |-> r, pos |-> s]]
  /\ upcs' = left \cup {posted + 1}

\* fullReserve: the building's tiles, then its addon's.  reserveArea throws on a
\* reserved tile and undoes only its own tiles; the exception ends the bot.
Reserve(s, tls, rest) ==
  IF Free(Addon[s], tls)
  THEN tiles' = tls \cup Full(s) /\ phase' = phase /\ todo' = rest
  ELSE tiles' = tls \cup Area[s] /\ phase' = "threw" /\ todo' = {}

\* The next request of the loop.
First(r) == r \in todo /\ \A q \in todo : r <= q

\* A request stays on the board when no position is found for it.
SkipRequest(r) ==
  /\ phase = "place"
  /\ First(r)
  /\ todo' = todo \ {r}
  /\ UNCHANGED <<posted, upc, upcs, task, onBoard, removal, tiles, targets, found,
                 phase, revived>>

PlaceRequest(r, s) ==
  /\ phase = "place"
  /\ First(r)
  /\ s \in Locations(upc[r].pos, tiles) \ {NoPos}
  /\ PostBuild(r, s, upcs \ {r})
  /\ Reserve(s, tiles, todo \ {r})
  /\ IF phase' = "threw" THEN UNCHANGED <<task, onBoard>>
     ELSE /\ task' = [task EXCEPT ![r] = PlacerTask(posted + 1, s)]
          /\ onBoard' = onBoard \cup {r}
  /\ UNCHANGED <<removal, targets, found, revived>>

BeginRetries ==
  /\ phase = "place"
  /\ todo = {}
  /\ phase' = "retry"
  /\ todo' = {r \in onBoard : task[r].respawn}
  /\ UNCHANGED <<posted, upc, upcs, task, onBoard, removal, tiles, targets, found,
                 revived>>

\* Mutant: a retry keeps the tiles of the position that failed.
WithOld(r) == tiles

\* The tiles after the unreserveLocation of a retry.
WithoutOld(r) == IF task[r].reserved THEN tiles \ Full(task[r].pos) ELSE tiles

\* No other position: the retry stays scheduled, without tiles.
PostponeRetry(r) ==
  /\ phase = "retry"
  /\ r \in todo
  /\ tiles' = WithoutOld(r)
  /\ task' = [task EXCEPT ![r].reserved = FALSE]
  /\ todo' = todo \ {r}
  /\ UNCHANGED <<posted, upc, upcs, onBoard, removal, targets, found, phase, revived>>

\* Mutant: respawn is not reset.
RetriedAgain(p, b, s, reserved) ==
  [p EXCEPT !.target = b, !.pos = s, !.reserved = reserved]

\* The task of a retry whose new build is b at s.
Retried(p, b, s, reserved) ==
  [p EXCEPT !.respawn = FALSE, !.target = b, !.pos = s, !.reserved = reserved]

Retry(r, s) ==
  /\ phase = "retry"
  /\ r \in todo
  /\ s \in Locations(upc[r].pos, WithoutOld(r)) \ {NoPos}
  /\ PostBuild(r, s, upcs)
  /\ Reserve(s, WithoutOld(r), todo \ {r})
  /\ task' = [task EXCEPT ![r] = Retried(@, posted + 1, s, phase' # "threw")]
  /\ revived' = IF task[r].status = "Cancelled" THEN revived \cup {r} ELSE revived
  /\ UNCHANGED <<onBoard, removal, targets, found>>

EndPlacer ==
  /\ phase = "retry"
  /\ todo = {}
  /\ phase' = "builder"
  /\ UNCHANGED <<posted, upc, upcs, task, onBoard, removal, tiles, targets, found,
                 todo, revived>>

-----------------------------------------------------------------------------

\* BuilderModule::step consumes every UPC with a sharp position: the builds, and
\* requests for a position that the placer left on the board.
BuilderStep ==
  LET sharp == {i \in upcs : upc[i].pos # NoPos}
  IN /\ phase = "builder"
     /\ upcs' = upcs \ sharp
     /\ task' = [i \in Ids |-> IF i \in sharp THEN BuildTask(upc[i].pos) ELSE task[i]]
     /\ onBoard' = onBoard \cup sharp
     /\ phase' = "update"
     /\ UNCHANGED <<posted, upc, removal, tiles, targets, found, todo, revived>>

Wanted == {w \in [Entries -> 0 .. MaxWanted] : SumFunction(w) <= MaxWanted}

AutoBuild ==
  \/ SkipEvaluate
  \/ \E w \in Wanted, n \in 0 .. MaxWanted :
       \E items \in [1 .. n -> Entries] : Evaluate(w, n, items)
  \/ SwitchBuildOrder

Placer ==
  \/ \E r \in Ids : SkipRequest(r) \/ \E s \in Sites : PlaceRequest(r, s)
  \/ BeginRetries
  \/ \E r \in Ids : PostponeRetry(r) \/ \E s \in Sites : Retry(r, s)
  \/ EndPlacer

Next == BoardUpdate \/ AutoBuild \/ Placer \/ BuilderStep

Spec == Init /\ [][Next]_vars

-----------------------------------------------------------------------------
(* Properties.                                                              *)

\* The types; the tables of the board hold ids that were given out.
TypeOK ==
  /\ posted \in 0 .. MaxUpc
  /\ upc \in [Ids -> [src : {NoId} \cup Ids, pos : Sites \cup {NoPos}]]
  /\ upcs \subseteq 1 .. posted
  /\ task \in [Ids -> Tasks]
  /\ onBoard \subseteq 1 .. posted
  /\ removal \subseteq onBoard
  /\ targets \subseteq 1 .. posted
  /\ found \subseteq targets
  /\ phase \in {"update", "autobuild", "place", "retry", "builder", "threw"}
  /\ todo \subseteq 1 .. posted
  /\ revived \subseteq 1 .. posted

Reserving == {r \in Ids : task[r].reserved}

\* A build that can still become a building.
Live(b) == b \in upcs \/ (task[b].kind = "build" /\ task[b].status = "Ongoing")

\* The reserved tiles are those of the placer tasks that hold a reservation, no
\* two tasks hold a tile, and a task that leaves the board holds none: tiles are
\* never lost, and unreserveArea never meets a tile that is not reserved.  The
\* exception is a request retried after it was cancelled.
ReservationsExact ==
  phase # "threw" =>
    /\ tiles = UNION {Full(task[r].pos) : r \in Reserving}
    /\ \A r, q \in Reserving : r # q => Free(Full(task[r].pos), Full(task[q].pos))
    /\ Reserving \ revived \subseteq onBoard

\* A request has at most one build under way: a retry starts only once the build
\* before it has ended, whatever was cancelled or failed in between.
OneBuildPerRequest ==
  \A b, c \in 1 .. posted :
    ~Request(b) /\ upc[b].src = upc[c].src /\ Live(b) /\ Live(c) => b = c

\* While a placed build is under way its placer proxies it and holds the tiles of
\* its position, so nothing else is placed where a worker is about to build.
LiveBuildReserved ==
  phase # "threw" =>
    \A b \in 1 .. posted :
      ~Request(b) /\ Live(b) =>
        LET p == task[upc[b].src]
        IN p.target = b /\ p.reserved /\ p.pos = upc[b].pos

\* Only what the build order still asks for is built: when the frame ends, a
\* build under way belongs to a target of the AutoBuildTask.
BuildsTracked ==
  phase = "update" =>
    \A b \in 1 .. posted :
      Live(b) => (IF Request(b) THEN b ELSE upc[b].src) \in targets

=============================================================================

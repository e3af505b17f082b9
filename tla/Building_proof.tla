--------------------------- MODULE Building_proof ---------------------------
(***************************************************************************)
(* Proofs about Building, for all sites, tiles, build orders and bounds.   *)
(***************************************************************************)
EXTENDS Building, TLAPS

-----------------------------------------------------------------------------
(* The inductive invariant.  Its parts take what a step changes as          *)
(* parameters, since an update of the board changes the tasks twice: the    *)
(* tasks t, the UPCs U and the tasks B on the board, the tasks R to be      *)
(* removed from it, the targets G of the AutoBuildTask and the phase ph.    *)

\* The placer p of request i.  Its target was posted for it; the target it found is
\* a build; to be retried it has no target.  It is on the board until it ends, and
\* then holds tiles only if it was retried after its cancellation.  AutoBuild has
\* forgotten it if it was cancelled before it found its target.  Otherwise it finds
\* the task of its target at the next update, for the Builder's step is the last of
\* the frame.
PlacerOK(p, t, B, R, G, ph, i) ==
  /\ Request(i)
  /\ p.target # NoId => p.target <= posted /\ upc[p.target].src = i
  /\ p.found => p.target # NoId /\ t[p.target].kind = "build"
  /\ p.respawn => p.target = NoId
  /\ ~p.found => p.status \in {"Unknown", "Cancelled"}
  /\ ~Finished(p) => i \in B
  /\ Finished(p) /\ p.reserved => i \in revived
  /\ ~p.found /\ p.status = "Cancelled" => i \notin G
  /\ ~p.found /\ p.status = "Unknown" /\ p.target # NoId /\ t[p.target].kind = "build"
       => ph = "update" /\ p.target \in B \ R

\* The task of UPC i.  It is NoTask before the UPC is consumed; a build holds nothing
\* and proxies nothing; only finished tasks leave the board.
TaskOK(t, U, B, R, G, ph, i) ==
  /\ t[i].kind = "none" => t[i] = NoTask /\ i \notin B
  /\ t[i].kind # "none" => i <= posted /\ i \notin U
  /\ t[i].kind = "build" => ~t[i].reserved /\ ~t[i].found /\ ~t[i].respawn
  /\ i \in R => Finished(t[i])
  /\ t[i].kind = "placer" => PlacerOK(t[i], t, B, R, G, ph, i)

Underway(t, U, b) == b \in U \/ (t[b].kind = "build" /\ t[b].status = "Ongoing")

\* A placer posted build b, and holds its tiles while it is under way.
BuildOK(t, U, b) ==
  ~Request(b) =>
    /\ t[upc[b].src].kind = "placer"
    /\ Underway(t, U, b) =>
         /\ t[upc[b].src].target = b
         /\ t[upc[b].src].reserved
         /\ t[upc[b].src].pos = upc[b].pos

Sound(t, U, B, R, G, ph) ==
  /\ \A i \in Ids : TaskOK(t, U, B, R, G, ph, i)
  /\ \A b \in 1 .. posted : BuildOK(t, U, b)

\* What the loops of the placer have still to visit.
Visits ==
  /\ phase = "place" => \A r \in todo : r \in upcs /\ Request(r)
  /\ phase = "retry" => \A r \in todo : r \in onBoard /\ task[r].respawn

\* The tiles of T are those of the tasks that hold a reservation, each of one.
Holding(t, T) ==
  /\ \A x : x \in T <=> \E r \in Ids : t[r].reserved /\ x \in Full(t[r].pos)
  /\ \A r, q \in Ids :
       t[r].reserved /\ t[q].reserved /\ r # q =>
         \A x : ~(x \in Full(t[r].pos) /\ x \in Full(t[q].pos))

\* Once reserveArea has thrown nothing happens any more.
IInv ==
  /\ TypeOK
  /\ phase = "threw" => OneBuildPerRequest
  /\ phase # "threw" =>
       /\ Sound(task, upcs, onBoard, removal, targets, phase)
       /\ Visits
       /\ Holding(task, tiles)

-----------------------------------------------------------------------------
(* The state.                                                               *)

\* The types as the proofs use them.
LEMMA Types ==
  ASSUME TypeOK
  PROVE  /\ posted \in Nat /\ posted <= MaxUpc
         /\ 1 .. posted \subseteq Ids
         /\ NoId \notin Ids
         /\ upcs \subseteq Ids /\ onBoard \subseteq Ids /\ removal \subseteq Ids
         /\ targets \subseteq Ids /\ todo \subseteq Ids
         /\ \A i \in Ids : upc[i].src \in {NoId} \cup Ids /\ upc[i].pos \in Sites \cup {NoPos}
         /\ task \in [Ids -> Tasks]
BY BoundsAssumption DEF TypeOK, Ids, NoId

LEMMA Fields ==
  ASSUME NEW p \in Tasks
  PROVE  /\ p.kind \in {"none", "placer", "build"}
         /\ p.status \in {"Unknown", "Ongoing", "Success", "Cancelled", "Failure"}
         /\ p.target # NoId => p.target \in Ids
BY Zenon DEF Tasks

\* The task of a UPC nobody consumed.
LEMMA NoTaskFields ==
  /\ NoTask \in Tasks /\ NoTask.kind = "none"
  /\ ~NoTask.reserved /\ ~NoTask.found /\ ~NoTask.respawn
BY Zenon DEF NoTask, Tasks, NoId

\* Taking UPCs from the board, forgetting targets and moving on to the next phase
\* disturbs nothing.
LEMMA Fewer ==
  ASSUME NEW t, NEW U, NEW B, NEW R, NEW G, NEW ph, Sound(t, U, B, R, G, ph),
         NEW U2 \in SUBSET U, NEW G2 \in SUBSET G, NEW ph2, ph # "update"
  PROVE  Sound(t, U2, B, R, G2, ph2)
<1>1. \A i \in Ids : TaskOK(t, U2, B, R, G2, ph2, i)
  BY Zenon DEF Sound, TaskOK, PlacerOK
<1>2. \A b \in 1 .. posted : BuildOK(t, U2, b)
  BY Zenon DEF Sound, BuildOK, Underway
<1>3. QED
  BY Zenon, <1>1, <1>2 DEF Sound

\* The target of a placer that found it, or that is on the board, is a build.
LEMMA TargetBuilds ==
  ASSUME TypeOK, NEW U, NEW B, NEW R, NEW G, NEW ph, NEW t \in [Ids -> Tasks],
         Sound(t, U, B, R, G, ph),
         NEW i \in Ids, t[i].kind = "placer", t[i].found \/ t[i].target \in B \cap Ids
  PROVE  /\ t[i].target \in Ids /\ t[t[i].target].kind = "build"
         /\ t[i].target <= posted /\ t[i].target \notin U /\ ~t[i].respawn
<1>1. TaskOK(t, U, B, R, G, ph, i) /\ t[i].target \in Ids
  BY Zenon, Fields, Types DEF Sound, TaskOK, PlacerOK
<1>2. TaskOK(t, U, B, R, G, ph, t[i].target) /\ t[t[i].target] \in Tasks
      /\ t[t[i].target].kind \in {"none", "placer", "build"} /\ NoId \notin Ids
  BY Zenon, <1>1, Fields, Types DEF Sound
<1>3. QED
  BY Zenon, <1>1, <1>2 DEF TaskOK, PlacerOK, Request

-----------------------------------------------------------------------------
(* The tiles.                                                               *)

\* Tasks that lose their reservation give back their tiles, and no others.
LEMMA Releasing ==
  ASSUME NEW t, NEW T, Holding(t, T), NEW u, NEW V,
         \A i \in Ids : u[i].reserved => t[i].reserved /\ u[i].pos = t[i].pos,
         \A x : x \in V <=>
                  x \in T /\ ~ \E i \in Ids : t[i].reserved /\ ~u[i].reserved /\ x \in Full(t[i].pos)
  PROVE  Holding(u, V)
<1>1. ASSUME NEW x
      PROVE  x \in V <=> \E r \in Ids : u[r].reserved /\ x \in Full(u[r].pos)
  BY Zenon DEF Holding
<1>2. QED
  BY Zenon, <1>1 DEF Holding

LEMMA Unreserving ==
  ASSUME Holding(task, tiles), NEW u,
         \A i \in Ids : u[i].reserved => task[i].reserved /\ u[i].pos = task[i].pos
  PROVE  Holding(u, Unreserved(task, u))
<1>1. ASSUME NEW x
      PROVE  x \in Unreserved(task, u) <=>
               x \in tiles /\ ~ \E i \in Ids : task[i].reserved /\ ~u[i].reserved
                                                /\ x \in Full(task[i].pos)
  BY Zenon DEF Unreserved
<1>2. QED
  BY <1>1, Releasing

\* A retry first gives back the tiles of the position that failed.
LEMMA ReleasingOne ==
  ASSUME Holding(task, tiles), NEW r \in Ids, NEW u, ~u[r].reserved,
         \A i \in Ids \ {r} : u[i] = task[i]
  PROVE  Holding(u, WithoutOld(r))
<1>1. ASSUME NEW x
      PROVE  x \in WithoutOld(r) <=>
               x \in tiles /\ ~ \E i \in Ids : task[i].reserved /\ ~u[i].reserved
                                                /\ x \in Full(task[i].pos)
  BY Zenon DEF WithoutOld
<1>2. QED
  BY <1>1, Releasing

\* A placer reserves the tiles of a site that are free.
LEMMA ReservingOne ==
  ASSUME NEW t, NEW T, NEW u, NEW s, NEW r \in Ids, Holding(t, T), ~t[r].reserved,
         Free(Full(s), T), u[r].reserved, u[r].pos = s, \A i \in Ids \ {r} : u[i] = t[i]
  PROVE  Holding(u, T \cup Full(s))
<1>1. \A x : ~(x \in Full(s) /\ x \in T)
  BY Zenon DEF Free
<1>2. ASSUME NEW x
      PROVE  x \in T \cup Full(s) <=> \E i \in Ids : u[i].reserved /\ x \in Full(u[i].pos)
  BY Zenon DEF Holding
<1>3. ASSUME NEW i \in Ids, NEW q \in Ids, u[i].reserved, u[q].reserved, i # q, NEW x
      PROVE  ~(x \in Full(u[i].pos) /\ x \in Full(u[q].pos))
  BY <1>1, <1>3 DEF Holding
<1>4. QED
  BY Zenon, <1>2, <1>3 DEF Holding

-----------------------------------------------------------------------------
(* Cancellation.                                                            *)

\* What a cancelled task q has in common with the task p it was before.
Alike(p, q) ==
  /\ q.kind = p.kind /\ q.pos = p.pos /\ q.target = p.target
  /\ q.found = p.found /\ q.respawn = p.respawn
  /\ q.reserved => p.reserved
  /\ q.status = "Ongoing" => p.status = "Ongoing"
  /\ Finished(p) => Finished(q)

\* cancel() of one build.
LEMMA CancelBuild ==
  ASSUME NEW p \in Tasks
  PROVE  LET q == BuildCancelled(p)
         IN q \in Tasks /\ Alike(p, q) /\ q.status # "Ongoing"
BY DEF Tasks, BuildCancelled, Finished, Alike

\* cancel() of one placer.
LEMMA CancelPlacer ==
  ASSUME NEW p \in Tasks
  PROVE  LET q == PlacerCancelled(p)
         IN /\ q \in Tasks /\ Alike(p, q) /\ ~q.reserved
            /\ q.status = IF p.found THEN p.status ELSE "Cancelled"
BY Zenon DEF Tasks, PlacerCancelled, Finished, Alike

\* cancel() of the requests in S: their placers lose their tiles, their found
\* targets end, and all else stays.
Withdrawn(t, u, S) ==
  \A i \in Ids :
    /\ Alike(t[i], u[i])
    /\ t[i].kind = "none" => u[i] = t[i]
    /\ t[i].kind = "placer" =>
         IF i \in S
         THEN ~u[i].reserved /\ u[i].status = IF t[i].found THEN t[i].status ELSE "Cancelled"
         ELSE u[i] = t[i]
    /\ i \in S /\ t[i].kind = "placer" /\ t[i].found => u[t[i].target].status # "Ongoing"

LEMMA Cancelling ==
  ASSUME NEW t \in [Ids -> Tasks], NEW S \in SUBSET Ids,
         \A i \in S : t[i].kind = "placer" /\ t[i].found =>
                        t[i].target \in Ids /\ t[t[i].target].kind = "build",
         NEW u, u = Cancelled(t, S)
  PROVE  u \in [Ids -> Tasks] /\ Withdrawn(t, u, S)
<1>1. ASSUME NEW i \in Ids
      PROVE  /\ i \in BuildsOf(t, S) => t[i].kind = "build" /\ u[i] = BuildCancelled(t[i])
             /\ i \in S /\ t[i].kind = "placer" => u[i] = PlacerCancelled(t[i])
             /\ i \notin BuildsOf(t, S) /\ ~(i \in S /\ t[i].kind = "placer") => u[i] = t[i]
  BY Zenon DEF Cancelled, BuildsOf
<1>2. ASSUME NEW i \in Ids
      PROVE  Alike(t[i], t[i])
  BY Zenon DEF Alike
<1>3. u \in [Ids -> Tasks]
  <2>1. \A i \in Ids : u[i] \in Tasks
    BY Zenon, <1>1, CancelBuild, CancelPlacer
  <2>2. QED
    BY Zenon, <2>1 DEF Cancelled
<1>4. ASSUME NEW i \in Ids
      PROVE  /\ Alike(t[i], u[i])
             /\ t[i].kind = "none" => u[i] = t[i]
             /\ t[i].kind = "placer" =>
                  IF i \in S
                  THEN ~u[i].reserved /\ u[i].status = IF t[i].found THEN t[i].status ELSE "Cancelled"
                  ELSE u[i] = t[i]
  BY <1>1, <1>2, CancelBuild, CancelPlacer
<1>5. ASSUME NEW i \in S, t[i].kind = "placer", t[i].found
      PROVE  u[t[i].target].status # "Ongoing"
  <2>1. t[i].target \in BuildsOf(t, S) /\ t[i].target \in Ids
    BY Zenon, <1>5 DEF BuildsOf
  <2>2. QED
    BY <2>1, <1>1, CancelBuild
<1>6. QED
  BY Zenon, <1>3, <1>4, <1>5 DEF Withdrawn

\* AutoBuild may cancel any of its targets, once the placers have found the tasks of
\* theirs: the UPCs it takes from the board are then the only builds under way that it
\* does not end itself.
LEMMA CancelKeeps ==
  ASSUME TypeOK, NEW t \in [Ids -> Tasks], NEW U, NEW B, NEW R, NEW G \in SUBSET Ids,
         Sound(t, U, B, R, G, "autobuild"),
         NEW S \in SUBSET G, NEW u, u = Cancelled(t, S)
  PROVE  /\ u \in [Ids -> Tasks]
         /\ \A i \in Ids : Alike(t[i], u[i])
         /\ Sound(u, U \ CancelledUpcs(t, S), B, R, G \ S, "autobuild")
<1>1. \A i \in Ids : TaskOK(t, U, B, R, G, "autobuild", i) /\ t[i] \in Tasks
  BY Zenon DEF Sound
<1>2. \A i \in Ids : t[i].kind = "placer" /\ t[i].found =>
                       t[i].target \in Ids /\ t[t[i].target].kind = "build"
  BY Zenon, <1>1, Fields DEF TaskOK, PlacerOK
<1>3. u \in [Ids -> Tasks] /\ Withdrawn(t, u, S)
  BY Zenon, <1>2, Cancelling
<1>4. ASSUME NEW i \in Ids
      PROVE  TaskOK(u, U \ CancelledUpcs(t, S), B, R, G \ S, "autobuild", i)
  <2>1. Alike(t[i], u[i]) /\ TaskOK(t, U, B, R, G, "autobuild", i) /\ t[i] \in Tasks
    BY Zenon, <1>1, <1>3 DEF Withdrawn
  <2>2. CASE t[i].kind # "placer"
    BY Zenon, <2>1, <2>2, <1>3 DEF TaskOK, Alike, Withdrawn
  <2>3. CASE t[i].kind = "placer"
    <3>1. t[i].target # NoId => u[t[i].target].kind = t[t[i].target].kind
      BY Zenon, <2>1, <1>3, Fields DEF Withdrawn, Alike
    <3>2. PlacerOK(u[i], u, B, R, G \ S, "autobuild", i)
      BY <2>1, <2>3, <3>1, <1>3 DEF TaskOK, PlacerOK, Alike, Withdrawn, Finished
    <3>3. QED
      BY Zenon, <2>1, <2>3, <3>2 DEF TaskOK, Alike
  <2>4. QED
    BY Zenon, <2>2, <2>3
<1>5. ASSUME NEW b \in 1 .. posted
      PROVE  BuildOK(u, U \ CancelledUpcs(t, S), b)
  <2> SUFFICES ASSUME ~Request(b) PROVE BuildOK(u, U \ CancelledUpcs(t, S), b)
    BY Zenon DEF BuildOK
  <2>1. PICK r \in Ids : r = upc[b].src
    BY Zenon, Types DEF Request
  <2>2. b \in Ids /\ b # NoId /\ BuildOK(t, U, b) /\ t[r].kind = "placer"
    BY Zenon, <2>1, Types DEF Sound, BuildOK
  <2>3. /\ TaskOK(t, U, B, R, G, "autobuild", b) /\ Alike(t[b], u[b])
        /\ TaskOK(t, U, B, R, G, "autobuild", r) /\ Alike(t[r], u[r])
    BY Zenon, <2>2, <1>1, <1>3 DEF Withdrawn
  <2>4. ASSUME Underway(u, U \ CancelledUpcs(t, S), b), r \in S
        PROVE  FALSE
    <3>1. t[r].target = b
      BY Zenon, <2>1, <2>2, <2>3, <2>4 DEF BuildOK, Underway, Alike
    <3>2. CASE t[r].found
      <4>1. u[b].status # "Ongoing" /\ t[b].kind = "build"
        BY Zenon, <3>1, <3>2, <2>2, <2>4, <1>2, <1>3 DEF Withdrawn
      <4>2. QED
        BY Zenon, <4>1, <2>3, <2>4 DEF TaskOK, Underway
    <3>3. CASE ~t[r].found
      <4>1. b \in CancelledUpcs(t, S)
        BY Zenon, <3>1, <3>3, <2>2, <2>4 DEF CancelledUpcs
      <4>2. t[b].kind = "build"
        BY Zenon, <4>1, <2>3, <2>4 DEF Underway, Alike
      <4>3. QED
        BY Zenon, <4>2, <3>1, <3>3, <2>2, <2>3, <2>4 DEF TaskOK, PlacerOK
    <3>4. QED
      BY Zenon, <3>2, <3>3
  <2>5. CASE r \notin S
    BY Zenon, <2>1, <2>2, <2>3, <2>5, <1>3 DEF BuildOK, Underway, Alike, Withdrawn
  <2>6. CASE r \in S
    BY Zenon, <2>1, <2>2, <2>3, <2>4, <2>6 DEF BuildOK, Alike
  <2>7. QED
    BY Zenon, <2>5, <2>6
<1>6. QED
  BY Zenon, <1>3, <1>4, <1>5 DEF Sound, Withdrawn

-----------------------------------------------------------------------------
(* Blackboard::update.                                                      *)

\* One report of a controller.
LEMMA ReportOne ==
  ASSUME NEW p \in Tasks, p.status = "Ongoing",
         NEW q \in {p, [p EXCEPT !.started = TRUE], [p EXCEPT !.status = "Success"],
                    [p EXCEPT !.status = "Failure"]}
  PROVE  q \in Tasks /\ Alike(p, q)
BY Zenon DEF Tasks, Alike, Finished

\* BuildsUpdated changes ongoing builds only, and only their progress.
LEMMA Reporting ==
  ASSUME TypeOK, NEW board \in SUBSET onBoard, NEW o \in Reports(board),
         NEW i \in Ids
  PROVE  LET b == BuildsUpdated(o)[i]
         IN b \in Tasks /\ Alike(task[i], b) /\ (task[i].kind # "build" => b = task[i])
<1>1. DOMAIN o = Ongoing(board) /\ task[i] \in Tasks
  BY Zenon, Types DEF Reports
<1>2. CASE i \in DOMAIN o
  <2>1. o[i] \in {"none", "start", "success", "failure"}
    BY Zenon, <1>1, <1>2 DEF Reports
  <2>2. /\ task[i].kind = "build" /\ task[i].status = "Ongoing"
        /\ BuildsUpdated(o)[i] \in {task[i], [task[i] EXCEPT !.started = TRUE],
                                    [task[i] EXCEPT !.status = "Success"],
                                    [task[i] EXCEPT !.status = "Failure"]}
    BY Zenon, <1>1, <1>2, <2>1 DEF BuildsUpdated, Ongoing
  <2>3. QED
    BY Zenon, <2>2, <1>1, ReportOne
<1>3. CASE i \notin DOMAIN o
  BY Zenon, <1>1, <1>3 DEF BuildsUpdated, Alike
<1>4. QED
  BY Zenon, <1>2, <1>3

\* The end of a placer's update.
LEMMA UpdateOne ==
  ASSUME NEW m \in Tasks
  PROVE  LET q == PlacerUpdated(m)
         IN /\ q \in Tasks /\ q.kind = m.kind /\ q.pos = m.pos
            /\ m.status = "Failure" =>
                 /\ q.status = "Unknown" /\ ~q.found /\ q.respawn /\ q.target = NoId
                 /\ q.reserved <=> m.reserved
            /\ m.status # "Failure" =>
                 /\ q.status = m.status /\ q.found = m.found
                 /\ q.respawn = m.respawn /\ q.target = m.target
                 /\ q.reserved <=> m.reserved /\ ~Finished(q)
<1> DEFINE q == PlacerUpdated(m)
<1>1. CASE m.status = "Failure"
  <2>1. q = [m EXCEPT !.respawn = TRUE, !.status = "Unknown", !.found = FALSE,
                      !.target = NoId]
    BY Zenon, <1>1 DEF PlacerUpdated, Finished
  <2> HIDE DEF q
  <2>2. /\ q \in Tasks
        /\ q.kind = m.kind /\ q.pos = m.pos
        /\ q.status = "Unknown" /\ ~q.found /\ q.respawn /\ q.target = NoId
        /\ q.reserved = m.reserved
    BY Zenon, <2>1 DEF Tasks
  <2>3. QED
    BY Zenon, <2>2, <1>1 DEF q
<1>2. CASE m.status \in {"Success", "Cancelled"}
  <2>1. q = [m EXCEPT !.reserved = FALSE]
    BY Zenon, <1>2 DEF PlacerUpdated, Finished
  <2> HIDE DEF q
  <2>2. /\ q \in Tasks
        /\ q.kind = m.kind /\ q.pos = m.pos
        /\ q.status = m.status /\ q.found = m.found
        /\ q.respawn = m.respawn /\ q.target = m.target
        /\ ~q.reserved
    BY Zenon, <2>1 DEF Tasks
  <2>3. QED
    BY Zenon, <2>2, <1>2 DEF q, Finished
<1>3. CASE m.status \notin {"Success", "Cancelled", "Failure"}
  <2>1. q = m /\ ~Finished(m)
    BY Zenon, <1>3 DEF PlacerUpdated, Finished
  <2>2. QED
    BY Zenon, <2>1, <1>3
<1>4. QED
  BY Zenon, <1>1, <1>2, <1>3

\* The placers that an update of the board changes.
Proxying(board) ==
  {i \in board : /\ task[i].kind = "placer" /\ task[i].status # "Cancelled"
                 /\ task[i].found \/ task[i].target \in board}

\* What an update does to placer p when the task of its target has status st: it gives
\* the tiles back when the target ends, except that a failure schedules a retry.
Advanced(p, q, st) ==
  /\ q.kind = p.kind /\ q.pos = p.pos
  /\ q.reserved => p.reserved
  /\ st = "Failure" =>
       q.status = "Unknown" /\ ~q.found /\ q.respawn /\ q.target = NoId
  /\ st # "Failure" =>
       /\ q.status = st /\ q.found /\ ~q.respawn /\ q.target = p.target
       /\ q.reserved <=> p.reserved /\ ~Finished(q)

\* The tasks m after their updates.
Updated(m, board) ==
  \A i \in Ids :
    /\ i \notin Proxying(board) =>
         Alike(task[i], m[i]) /\ (task[i].kind # "build" => m[i] = task[i])
    /\ i \in Proxying(board) =>
         /\ task[i].target \in Ids /\ task[task[i].target].kind = "build"
         /\ task[i].target <= posted /\ task[i].target \notin upcs
         /\ Advanced(task[i], m[i], m[task[i].target].status)

LEMMA UpdatingOne ==
  ASSUME TypeOK, Sound(task, upcs, onBoard, removal, targets, phase),
         NEW board \in SUBSET onBoard, NEW o \in Reports(board),
         NEW m, m = TasksUpdated(BuildsUpdated(o), board), NEW i \in Ids
  PROVE  /\ m[i] \in Tasks
         /\ i \notin Proxying(board) =>
              Alike(task[i], m[i]) /\ (task[i].kind # "build" => m[i] = task[i])
         /\ i \in Proxying(board) =>
              /\ task[i].target \in Ids /\ task[task[i].target].kind = "build"
              /\ task[i].target <= posted /\ task[i].target \notin upcs
              /\ Advanced(task[i], m[i], m[task[i].target].status)
<1> DEFINE b == BuildsUpdated(o)
<1>1. \A j \in Ids : /\ b[j] \in Tasks /\ Alike(task[j], b[j])
                     /\ task[j].kind # "build" => b[j] = task[j]
                     /\ task[j] \in Tasks
  BY Zenon, Reporting, Types
<1> HIDE DEF b
<1>2. \A j \in Ids : task[j].kind # "placer" => m[j] = b[j]
  BY Zenon, <1>1 DEF TasksUpdated, b, Alike
<1>3. CASE i \notin Proxying(board)
  <2>1. CASE task[i].kind # "placer" \/ i \notin board \/ task[i].status = "Cancelled"
    <3>1. m[i] = b[i]
      BY Zenon, <1>1, <1>2, <2>1 DEF TasksUpdated, b
    <3>2. QED
      BY Zenon, <3>1, <1>1, <1>3, <2>1
  <2>2. CASE task[i].kind = "placer" /\ i \in board /\ task[i].status # "Cancelled"
    <3>1. b[i] = task[i] /\ ~task[i].found /\ task[i].target \notin board
      BY Zenon, <2>2, <1>1, <1>3 DEF Proxying
    <3>2. m[i] = PlacerUpdated(task[i])
      BY Zenon, <3>1, <2>2 DEF TasksUpdated, Proxied, b
    <3>3. ~Finished(task[i])
      BY Zenon, <3>1, <2>2 DEF Sound, TaskOK, PlacerOK, Finished
    <3>4. m[i] = task[i]
      BY Zenon, <3>2, <3>3 DEF PlacerUpdated
    <3>5. QED
      BY Zenon, <3>4, <1>1, <1>3 DEF Alike
  <2>3. QED
    BY Zenon, <2>1, <2>2
<1>4. CASE i \in Proxying(board)
  <2>1. /\ i \in board /\ task[i].kind = "placer" /\ task[i].status # "Cancelled"
        /\ task[i].found \/ task[i].target \in board
        /\ task[i] \in Tasks
    BY Zenon, <1>1, <1>4 DEF Proxying
  <2>2. /\ task[i].target \in Ids /\ task[task[i].target].kind = "build"
        /\ task[i].target <= posted /\ task[i].target \notin upcs /\ ~task[i].respawn
    <3>1. task \in [Ids -> Tasks] /\ board \subseteq onBoard \cap Ids
      BY Zenon, Types
    <3>2. QED
      BY Zenon, <2>1, <3>1, TargetBuilds
  <2>3. PICK st : st = m[task[i].target].status /\ st = b[task[i].target].status
    BY Zenon, <2>2, <1>2
  <2>4. st \in {"Unknown", "Ongoing", "Success", "Cancelled", "Failure"}
    BY Zenon, <2>2, <2>3, <1>1, Fields
  <2>5. PICK p : p = [task[i] EXCEPT !.found = TRUE, !.status = st]
    BY Zenon
  <2>6. m[i] = PlacerUpdated(p)
    <3>1. b[i] = task[i]
      BY Zenon, <2>1, <1>1
    <3>2. QED
      BY Zenon, <2>1, <2>3, <2>5, <3>1 DEF TasksUpdated, Proxied, b
  <2>7. /\ p \in Tasks /\ p.kind = task[i].kind /\ p.pos = task[i].pos
        /\ p.target = task[i].target /\ p.found /\ ~p.respawn /\ p.reserved = task[i].reserved
        /\ p.status = st
    BY Zenon, <2>1, <2>2, <2>4, <2>5 DEF Tasks
  <2>8. m[i] \in Tasks /\ Advanced(task[i], m[i], st)
    BY <2>6, <2>7, UpdateOne DEF Advanced
  <2>9. QED
    BY Zenon, <2>2, <2>3, <2>8, <1>4
<1>5. QED
  BY Zenon, <1>3, <1>4

LEMMA Updating ==
  ASSUME TypeOK, Sound(task, upcs, onBoard, removal, targets, phase),
         NEW board \in SUBSET onBoard, NEW o \in Reports(board),
         NEW m, m = TasksUpdated(BuildsUpdated(o), board)
  PROVE  m \in [Ids -> Tasks] /\ Updated(m, board)
<1>1. \A i \in Ids : m[i] \in Tasks
  BY Zenon, UpdatingOne
<1>2. m \in [Ids -> Tasks]
  BY Zenon, <1>1 DEF TasksUpdated
<1>3. Updated(m, board)
  BY SMTT(30), UpdatingOne DEF Updated
<1>4. QED
  BY Zenon, <1>2, <1>3

LEMMA UpdateKeeps ==
  ASSUME TypeOK, Sound(task, upcs, onBoard, removal, targets, "update"),
         NEW board, \A i : i \in board <=> i \in onBoard /\ i \notin removal,
         NEW m \in [Ids -> Tasks], Updated(m, board),
         NEW R, \A i : i \in R <=> i \in board /\ Finished(m[i])
  PROVE  /\ \A i \in Ids : m[i].pos = task[i].pos /\ (m[i].reserved => task[i].reserved)
         /\ Sound(m, upcs, board, R, targets, "autobuild")
<1>1. \A i \in Ids :
        /\ m[i] \in Tasks
        /\ i \notin Proxying(board) =>
             Alike(task[i], m[i]) /\ (task[i].kind # "build" => m[i] = task[i])
        /\ i \in Proxying(board) =>
             /\ task[i].target \in Ids /\ task[task[i].target].kind = "build"
             /\ task[i].target <= posted /\ task[i].target \notin upcs
             /\ Advanced(task[i], m[i], m[task[i].target].status)
  BY Zenon DEF Updated
<1>2. \A i \in Ids : /\ m[i].kind = task[i].kind /\ m[i].pos = task[i].pos
                     /\ m[i].reserved => task[i].reserved
  BY Zenon, <1>1 DEF Alike, Advanced
<1>4. \A i \in Ids : /\ TaskOK(task, upcs, onBoard, removal, targets, "update", i)
                     /\ task[i] \in Tasks
  BY Zenon, Types DEF Sound
<1>5. ASSUME NEW i \in Ids
      PROVE  TaskOK(m, upcs, board, R, targets, "autobuild", i)
  <2>1. /\ TaskOK(task, upcs, onBoard, removal, targets, "update", i) /\ task[i] \in Tasks
        /\ m[i].kind = task[i].kind
    BY Zenon, <1>2, <1>4
  <2>2. CASE i \notin Proxying(board)
    <3>1. CASE task[i].kind # "placer"
      BY Zenon, <2>1, <2>2, <3>1, <1>1 DEF TaskOK, Alike
    <3>2. CASE task[i].kind = "placer"
      <4>1. m[i] = task[i] /\ (task[i].target # NoId => m[task[i].target].kind = task[task[i].target].kind)
        BY Zenon, <2>1, <2>2, <3>2, <1>1, <1>2, Fields
      <4>2. ~Finished(task[i]) => i \in board
        BY Zenon, <2>1, <3>2 DEF TaskOK, PlacerOK
      <4>3. PlacerOK(m[i], m, board, R, targets, "autobuild", i)
        BY Zenon, <2>1, <2>2, <3>2, <4>1, <4>2 DEF TaskOK, PlacerOK, Proxying, Finished
      <4>4. QED
        BY Zenon, <2>1, <3>2, <4>1, <4>3 DEF TaskOK
    <3>3. QED
      BY Zenon, <3>1, <3>2
  <2>3. CASE i \in Proxying(board)
    <3>1. /\ i \in board /\ task[i].kind = "placer"
          /\ task[i].target # NoId /\ m[task[i].target].kind = "build"
          /\ Advanced(task[i], m[i], m[task[i].target].status)
      BY SMTT(30), <2>3, <1>1, <1>2, Types DEF Proxying
    <3>2. PlacerOK(m[i], m, board, R, targets, "autobuild", i)
      BY Zenon, <2>1, <3>1 DEF TaskOK, PlacerOK, Advanced, Finished
    <3>3. QED
      BY Zenon, <2>1, <3>1, <3>2 DEF TaskOK
  <2>4. QED
    BY Zenon, <2>2, <2>3
<1>6. ASSUME NEW b \in 1 .. posted
      PROVE  BuildOK(m, upcs, b)
  <2> SUFFICES ASSUME ~Request(b) PROVE BuildOK(m, upcs, b)
    BY Zenon DEF BuildOK
  <2>1. PICK r \in Ids : r = upc[b].src
    BY Zenon, Types DEF Request
  <2>2. b \in Ids /\ BuildOK(task, upcs, b) /\ task[r].kind = "placer"
    BY Zenon, <2>1, Types DEF Sound, BuildOK
  <2>3. Underway(m, upcs, b) => Underway(task, upcs, b)
    BY Zenon, <2>2, <1>1, <1>2 DEF Underway, Alike, Proxying
  <2>4. CASE r \notin Proxying(board)
    BY Zenon, <2>1, <2>2, <2>3, <2>4, <1>1 DEF BuildOK
  <2>5. CASE r \in Proxying(board) /\ Underway(m, upcs, b)
    <3>1. task[r].target = b
      BY Zenon, <2>1, <2>2, <2>3, <2>5 DEF BuildOK
    <3>2. m[b].status = "Ongoing" /\ Advanced(task[r], m[r], "Ongoing")
      BY Zenon, <2>5, <3>1, <1>1 DEF Underway
    <3>3. QED
      BY Zenon, <2>1, <2>2, <2>3, <2>5, <3>2 DEF BuildOK, Advanced, Finished
  <2>6. QED
    BY Zenon, <2>1, <2>2, <2>4, <2>5, <1>2 DEF BuildOK
<1>7. QED
  BY Zenon, <1>2, <1>5, <1>6 DEF Sound

LEMMA BoardUpdateStep ==
  ASSUME IInv, BoardUpdate
  PROVE  IInv'
<1>1. /\ phase = "update" /\ phase' = "autobuild"
      /\ posted' = posted /\ upc' = upc /\ todo' = todo /\ revived' = revived
  BY Zenon DEF BoardUpdate
<1>2. PICK o \in Reports(onBoard \ removal) :
        LET board == onBoard \ removal
            known == found \cup (targets \cap board)
            dropped == Dropped(Quantify(DOMAIN o, LAMBDA i : o[i] = "start"))
            updated == TasksUpdated(BuildsUpdated(o), board)
            left == Cancelled(updated, dropped \cap known)
        IN /\ onBoard' = board
           /\ removal' = {i \in board : Finished(updated[i])}
           /\ task' = left
           /\ upcs' = upcs \ CancelledUpcs(updated, dropped \cap known)
           /\ tiles' = Unreserved(task, left)
           /\ targets' = targets \ dropped
           /\ found' = known \ dropped
  BY Zenon DEF BoardUpdate
<1>3. Dropped(Quantify(DOMAIN o, LAMBDA i : o[i] = "start")) \subseteq targets
  BY Zenon DEF Dropped
<1>4. PICK board, dropped, m, S, R, U, V :
        /\ board = onBoard \ removal /\ o \in Reports(board)
        /\ dropped \subseteq targets /\ S \subseteq dropped
        /\ found' \subseteq targets \ dropped
        /\ m = TasksUpdated(BuildsUpdated(o), board)
        /\ R = {i \in board : Finished(m[i])}
        /\ U = upcs \ CancelledUpcs(m, S)
        /\ V = Cancelled(m, S)
        /\ onBoard' = board /\ removal' = R /\ task' = V /\ upcs' = U
        /\ tiles' = Unreserved(task, V)
        /\ targets' = targets \ dropped
  <2>1. found \cup (targets \cap (onBoard \ removal)) \subseteq targets
    BY Zenon, <1>1 DEF IInv, TypeOK
  <2>2. QED
    BY Zenon, <1>2, <1>3, <2>1
<1>5. /\ TypeOK /\ Sound(task, upcs, onBoard, removal, targets, "update")
      /\ Holding(task, tiles) /\ targets \in SUBSET Ids
  BY Zenon, <1>1, Types DEF IInv
<1>6. m \in [Ids -> Tasks] /\ Updated(m, board)
  BY Zenon, <1>1, <1>4, <1>5, Updating
<1>7. /\ \A i \in Ids : m[i].pos = task[i].pos /\ (m[i].reserved => task[i].reserved)
      /\ Sound(m, upcs, board, R, targets, "autobuild")
  <2>1. /\ \A i : i \in board <=> i \in onBoard /\ i \notin removal
        /\ \A i : i \in R <=> i \in board /\ Finished(m[i])
    BY Zenon, <1>4
  <2>2. QED
    BY Zenon, <1>5, <1>6, <2>1, UpdateKeeps
<1>8. /\ V \in [Ids -> Tasks]
      /\ \A i \in Ids : Alike(m[i], V[i])
      /\ Sound(V, U, board, R, targets \ S, "autobuild")
  <2>1. S \in SUBSET targets /\ U = upcs \ CancelledUpcs(m, S) /\ V = Cancelled(m, S)
    BY Zenon, <1>4
  <2>2. QED
    BY Zenon, <1>5, <1>6, <1>7, <2>1, CancelKeeps
<1>9. Sound(V, U, board, R, targets', "autobuild")
  <2>1. targets' \in SUBSET (targets \ S) /\ U \in SUBSET U
    BY Zenon, <1>4
  <2>2. QED
    BY <1>8, <2>1, Fewer
<1>10. Sound(task, upcs, onBoard, removal, targets, phase)'
  <2>1. onBoard' = board /\ removal' = R /\ task' = V /\ upcs' = U
    BY Zenon, <1>4
  <2>2. QED
    BY <1>1, <2>1, <1>9 DEF Sound, TaskOK, PlacerOK, BuildOK, Underway, Request
<1>11. Holding(task, tiles)'
  <2>1. \A i \in Ids : V[i].reserved => task[i].reserved /\ V[i].pos = task[i].pos
    BY Zenon, <1>7, <1>8 DEF Alike
  <2>2. Holding(V, Unreserved(task, V))
    BY Zenon, <1>5, <2>1, Unreserving
  <2>3. tiles' = Unreserved(task, V) /\ task' = V
    BY Zenon, <1>4
  <2>4. QED
    BY Zenon, <2>2, <2>3 DEF Holding
<1>12. TypeOK'
  <2>1. /\ onBoard' \subseteq onBoard /\ removal' \subseteq onBoard' /\ task' \in [Ids -> Tasks]
        /\ upcs' \subseteq upcs /\ targets' \subseteq targets /\ found' \subseteq targets'
    BY Zenon, <1>4, <1>8
  <2>2. QED
    BY Zenon, <1>1, <1>5, <2>1 DEF TypeOK
<1>13. QED
  BY Zenon, <1>1, <1>10, <1>11, <1>12 DEF IInv, Visits

-----------------------------------------------------------------------------
(* AutoBuildModule::step.                                                   *)

LEMMA SwitchStep ==
  ASSUME IInv, SwitchBuildOrder
  PROVE  IInv'
<1>1. PICK S, u, U :
        /\ S = targets \cap found
        /\ u = Cancelled(task, S)
        /\ U = upcs \ CancelledUpcs(task, S)
        /\ task' = u /\ upcs' \subseteq U /\ tiles' = Unreserved(task, u)
  BY Zenon DEF SwitchBuildOrder
<1>2. /\ phase = "autobuild" /\ targets' = {} /\ found' = {}
      /\ posted' = posted /\ upc' = upc /\ onBoard' = onBoard /\ removal' = removal
      /\ phase' = phase /\ todo' = todo /\ revived' = revived
  BY Zenon DEF SwitchBuildOrder
<1>3. /\ TypeOK /\ Sound(task, upcs, onBoard, removal, targets, "autobuild")
      /\ Holding(task, tiles) /\ task \in [Ids -> Tasks] /\ targets \in SUBSET Ids
  BY Zenon, <1>2, Types DEF IInv
<1>4. /\ u \in [Ids -> Tasks] /\ \A i \in Ids : Alike(task[i], u[i])
      /\ Sound(u, U, onBoard, removal, targets \ S, "autobuild")
  <2>1. S \in SUBSET targets
    BY Zenon, <1>1
  <2>2. QED
    BY Zenon, <1>1, <1>3, <2>1, CancelKeeps
<1>5. Sound(u, upcs', onBoard, removal, {}, "autobuild")
  <2>1. upcs' \in SUBSET U /\ {} \in SUBSET (targets \ S)
    BY Zenon, <1>1
  <2>2. QED
    BY <1>4, <2>1, Fewer
<1>6. Sound(task, upcs, onBoard, removal, targets, phase)'
  <2>1. task' = u
    BY Zenon, <1>1
  <2>2. QED
    BY <2>1, <1>2, <1>5 DEF Sound, TaskOK, PlacerOK, BuildOK, Underway, Request
<1>7. Holding(task, tiles)'
  <2>1. Holding(u, Unreserved(task, u))
    BY Zenon, <1>3, <1>4, Unreserving DEF Alike
  <2>2. QED
    BY Zenon, <1>1, <2>1 DEF Holding
<1>8. TypeOK'
  <2>1. task' \in [Ids -> Tasks] /\ upcs' \subseteq upcs
    BY Zenon, <1>1, <1>4
  <2>2. QED
    BY Zenon, <2>1, <1>2, <1>3 DEF TypeOK
<1>9. QED
  BY Zenon, <1>2, <1>6, <1>7, <1>8 DEF IInv, Visits

LEMMA Older ==
  ASSUME NEW p \in Nat, NEW q \in Nat, p <= q, NEW j \in Ids, j <= p
  PROVE  j <= q /\ ~(j > p)
BY BoundsAssumption DEF Ids

\* New requests disturb nothing: they have no task yet, and no build has their ids.
LEMMA PostRequests ==
  ASSUME TypeOK, posted' \in Nat, posted <= posted', revived' = revived,
         \A i \in Ids : IF i > posted THEN i <= posted' => upc'[i].src = NoId
                                      ELSE upc'[i] = upc[i],
         NEW t \in [Ids -> Tasks], NEW U, NEW B, NEW R, NEW G,
         Sound(t, U, B, R, G, "autobuild"), NEW U2, NEW G2,
         \A i \in Ids : i <= posted => (i \in U2 => i \in U) /\ (i \in G2 => i \in G),
         posted' <= MaxUpc
  PROVE  Sound(t, U2, B, R, G2, "place")'
<1>1. posted \in Nat /\ Ids \subseteq Nat /\ 1 .. posted' \subseteq Ids
  BY SMTT(30), Types, BoundsAssumption DEF Ids
<1>2. ASSUME NEW i \in Ids
      PROVE  TaskOK(t, U2, B, R, G2, "place", i)'
  <2>1. /\ TaskOK(t, U, B, R, G, "autobuild", i) /\ t[i] \in Tasks
        /\ t[i].target # NoId => t[i].target \in Ids
    BY Zenon, Fields DEF Sound
  <2>2. t[i].kind # "none" => /\ i <= posted /\ i <= posted'
                              /\ upc'[i] = upc[i] /\ i \notin U2 /\ (i \in G2 => i \in G)
    BY SMTT(30), <2>1, <1>1 DEF TaskOK
  <2>3. t[i].kind = "placer" /\ t[i].target # NoId =>
          t[i].target <= posted /\ t[i].target <= posted' /\ upc'[t[i].target] = upc[t[i].target]
    <3>1. t[i].kind = "placer" /\ t[i].target # NoId => t[i].target <= posted
      BY Zenon, <2>1 DEF TaskOK, PlacerOK
    <3>2. ASSUME NEW j \in Ids, j <= posted
          PROVE  j <= posted' /\ upc'[j] = upc[j]
      <4>1. j <= posted' /\ ~(j > posted)
        BY Zenon, <3>2, <1>1, Older
      <4>2. QED
        BY Zenon, <4>1
    <3>3. QED
      BY Zenon, <3>1, <3>2, <2>1
  <2>4. t[i].kind = "placer" => PlacerOK(t[i], t, B, R, G2, "place", i)'
    BY Zenon, <2>1, <2>2, <2>3 DEF TaskOK, PlacerOK, Request, Finished
  <2>5. QED
    BY Zenon, <2>1, <2>2, <2>4 DEF TaskOK, Finished
<1>3. ASSUME NEW b \in 1 .. posted', ~Request(b)'
      PROVE  BuildOK(t, U2, b)'
  <2>1. b \in 1 .. posted /\ b \in Ids /\ upc'[b] = upc[b] /\ (b \in U2 => b \in U)
    BY SMTT(30), <1>1, <1>3 DEF Request
  <2>2. QED
    BY <2>1 DEF Sound, BuildOK, Underway, Request
<1>4. QED
  BY Zenon, <1>2, <1>3 DEF Sound, BuildOK

LEMMA EvaluateStep ==
  ASSUME IInv, NEW w \in Wanted, NEW n \in 0 .. MaxWanted, NEW items \in [1 .. n -> Entries],
         Evaluate(w, n, items)
  PROVE  IInv'
<1>1. PICK S, u, U, new :
        /\ S = Running \ Matched(w)
        /\ u = Cancelled(task, S)
        /\ U = upcs \ CancelledUpcs(task, S)
        /\ new = posted + 1 .. posted + n
        /\ task' = u /\ upcs' = (upcs \ (targets \cup CancelledUpcs(task, S))) \cup new
        /\ tiles' = Unreserved(task, u)
        /\ upc' = [i \in Ids |-> IF i \in new
                                 THEN [src |-> NoId, pos |-> items[i - posted]]
                                 ELSE upc[i]]
        /\ targets' = Matched(w) \cup new /\ found' = Matched(w)
  BY Zenon DEF Evaluate
<1>2. /\ phase = "autobuild" /\ phase' = "place"
      /\ onBoard' = onBoard /\ removal' = removal /\ revived' = revived
      /\ todo' = {r \in upcs' : upc'[r].src = NoId}
      /\ posted' = posted + n /\ posted' <= MaxUpc
  BY Zenon DEF Evaluate, EndAutoBuild
<1>3. /\ TypeOK /\ Sound(task, upcs, onBoard, removal, targets, "autobuild")
      /\ Holding(task, tiles) /\ task \in [Ids -> Tasks] /\ targets \in SUBSET Ids
  BY Zenon, <1>2, Types DEF IInv
<1>4. /\ posted \in Nat /\ n \in Nat /\ posted' \in Nat /\ posted <= posted'
      /\ Ids \subseteq Nat /\ 1 .. posted' \subseteq Ids
      /\ \A i : i \in new <=> i \in Nat /\ i > posted /\ i <= posted'
      /\ \A i : i \in 1 .. posted' <=> i \in 1 .. posted \/ i \in new
  BY SMTT(30), <1>1, <1>2, <1>3, Types, BoundsAssumption DEF Ids
<1>5. S \in SUBSET targets /\ Matched(w) \subseteq targets \ S
      /\ upcs' \subseteq U \cup new /\ U \subseteq upcs
  BY Zenon, <1>1 DEF Running, Matched
<1>6. /\ u \in [Ids -> Tasks] /\ \A i \in Ids : Alike(task[i], u[i])
      /\ Sound(u, U, onBoard, removal, targets \ S, "autobuild")
  BY ZenonT(30), <1>1, <1>3, <1>5, CancelKeeps
<1>7. \A i \in Ids : IF i > posted THEN i <= posted' => upc'[i].src = NoId
                                   ELSE upc'[i] = upc[i]
  BY Zenon, <1>1, <1>4
<1>8. PICK U2, G2, B, R : U2 = upcs' /\ G2 = targets' /\ B = onBoard /\ R = removal
  BY Zenon
<1>9. Sound(u, U2, B, R, G2, "place")'
  <2>1. \A i \in Ids : i <= posted => (i \in U2 => i \in U) /\ (i \in G2 => i \in targets \ S)
    BY SMTT(30), <1>1, <1>4, <1>5, <1>8
  <2>2. Sound(u, U, B, R, targets \ S, "autobuild")
    BY Zenon, <1>6, <1>8
  <2>3. QED
    BY Zenon, <2>1, <2>2, <1>2, <1>3, <1>4, <1>6, <1>7, PostRequests
<1>10. Sound(task, upcs, onBoard, removal, targets, phase)'
  <2>1. task' = u
    BY Zenon, <1>1
  <2>2. QED
    BY ZenonT(30), <2>1, <1>2, <1>8, <1>9 DEF Sound, TaskOK, PlacerOK, BuildOK, Underway, Request, Finished
<1>11. Holding(task, tiles)'
  <2>1. Holding(u, Unreserved(task, u))
    BY Zenon, <1>3, <1>6, Unreserving DEF Alike
  <2>2. QED
    BY Zenon, <1>1, <2>1 DEF Holding
<1>12. TypeOK'
  <2>1. task' \in [Ids -> Tasks]
    BY Zenon, <1>1, <1>6
  <2>2. /\ upcs' \subseteq 1 .. posted' /\ onBoard' \subseteq 1 .. posted'
        /\ revived' \subseteq 1 .. posted' /\ removal' \subseteq onBoard'
        /\ targets' \subseteq 1 .. posted' /\ found' \subseteq targets'
        /\ todo' \subseteq upcs'
    BY Zenon, <1>1, <1>2, <1>3, <1>4, <1>5 DEF TypeOK
  <2>3. upc' \in [Ids -> [src : {NoId} \cup Ids, pos : Sites \cup {NoPos}]]
    <3>1. \A i \in new : items[i - posted] \in Sites \cup {NoPos}
      BY <1>1, <1>4, EntriesAssumption
    <3>2. \A i \in Ids : upc[i] \in [src : {NoId} \cup Ids, pos : Sites \cup {NoPos}]
      BY Zenon, <1>3 DEF TypeOK
    <3>3. QED
      BY Zenon, <3>1, <3>2, <1>1
  <2>4. posted' \in 0 .. MaxUpc /\ phase' = "place"
    BY SMTT(30), <1>2, <1>4, BoundsAssumption
  <2>5. QED
    BY Zenon, <2>1, <2>2, <2>3, <2>4 DEF TypeOK
<1>13. QED
  BY Zenon, <1>2, <1>10, <1>11, <1>12 DEF IInv, Visits, Request

-----------------------------------------------------------------------------
(* BuildingPlacerModule::step.                                              *)

\* The UPCs when placer p of request r has posted its target, if it has one, and left
\* are the others on the board.
Posted(r, p, left) ==
  /\ posted' \in 0 .. MaxUpc /\ posted <= posted'
  /\ upc' \in [Ids -> [src : {NoId} \cup Ids, pos : Sites \cup {NoPos}]]
  /\ \A i \in Ids : i <= posted => upc'[i] = upc[i]
  /\ \A i : i \in 1 .. posted' <=> i \in 1 .. posted \/ (i = p.target /\ i # NoId)
  /\ \A i : i \in upcs' <=> i \in left \/ (i = p.target /\ i # NoId)
  /\ p.target # NoId =>
       /\ p.target \in Ids /\ p.target > posted
       /\ upc'[p.target].src = r /\ upc'[p.target].pos = p.pos

\* postUPC gives the new build the next id.
LEMMA Posting ==
  ASSUME TypeOK, NEW r \in Ids, NEW s \in Sites, NEW left, PostBuild(r, s, left),
         NEW p, p.target = posted + 1, p.pos = s
  PROVE  Posted(r, p, left) /\ p.target \in Ids /\ p.target # NoId
<1>1. /\ posted \in Nat /\ posted < MaxUpc /\ posted' = posted + 1 /\ MaxUpc \in Nat
  BY Zenon, BoundsAssumption, Types DEF PostBuild
<1>2. /\ posted' \in Ids /\ posted' # NoId /\ posted' > posted
      /\ posted' \in 0 .. MaxUpc /\ posted <= posted'
      /\ \A i : i \in 1 .. posted' <=> i \in 1 .. posted \/ i = posted'
      /\ \A i \in Ids : i <= posted => i # posted'
  BY SMTT(30), <1>1 DEF Ids, NoId
<1>3. /\ upc' = [upc EXCEPT ![posted'] = [src |-> r, pos |-> s]]
      /\ upcs' = left \cup {posted'}
      /\ upc \in [Ids -> [src : {NoId} \cup Ids, pos : Sites \cup {NoPos}]]
  BY Zenon, <1>1 DEF PostBuild, TypeOK
<1>4. /\ upc' \in [Ids -> [src : {NoId} \cup Ids, pos : Sites \cup {NoPos}]]
      /\ upc'[posted'] = [src |-> r, pos |-> s]
      /\ \A i \in Ids : i # posted' => upc'[i] = upc[i]
  BY Zenon, <1>2, <1>3
<1>5. QED
  BY Zenon, <1>1, <1>2, <1>3, <1>4 DEF Posted

\* The placer of request r becomes p, on the board, without a build under way before.
LEMMA PlacerMoves ==
  ASSUME TypeOK, Sound(task, upcs, onBoard, removal, targets, phase), phase # "update",
         NEW r \in 1 .. posted, Request(r), task[r].kind # "build",
         \A c \in 1 .. posted : upc[c].src = r => ~Underway(task, upcs, c),
         NEW p \in Tasks, task'[r] = p, \A i \in Ids \ {r} : task'[i] = task[i],
         p.kind = "placer", ~p.found, p.status \in {"Unknown", "Cancelled"},
         p.respawn => p.target = NoId, p.target # NoId => p.reserved,
         p.status = "Cancelled" => r \notin targets /\ (p.reserved => r \in revived'),
         r \in removal => Finished(p),
         Posted(r, p, upcs \ {r}),
         onBoard' = onBoard \cup {r}, removal' = removal, targets' = targets,
         revived \subseteq revived'
  PROVE  Sound(task, upcs, onBoard, removal, targets, phase)'
<1>1. /\ r \in Ids /\ 1 .. posted \subseteq Ids /\ NoId \notin Ids /\ posted \in Nat
      /\ Ids \subseteq Nat /\ posted' \in Nat /\ posted <= posted'
  BY SMTT(30), Types DEF Ids, Posted
<1>2. \A i \in Ids : i <= posted => /\ upc'[i] = upc[i] /\ i # p.target /\ i <= posted'
                                    /\ i \in upcs' <=> i \in upcs \ {r}
  BY SMTT(30), <1>1 DEF Posted
<1>3. r <= posted /\ r # p.target /\ r \notin upcs' /\ upc'[r] = upc[r]
  BY SMTT(30), <1>1, <1>2
<1>4. p.target # NoId => task[p.target].kind = "none"
  BY SMTT(30), <1>1 DEF Sound, TaskOK, Posted
<1>5. TaskOK(task, upcs, onBoard, removal, targets, phase, r)'
  <2>1. PlacerOK(task[r], task, onBoard, removal, targets, phase, r)'
    BY SMTT(30), <1>3, <1>4 DEF PlacerOK, Posted, Request, Finished
  <2>2. QED
    BY SMTT(30), <2>1, <1>1, <1>3 DEF TaskOK
<1>6. ASSUME NEW i \in Ids, i # r
      PROVE  TaskOK(task, upcs, onBoard, removal, targets, phase, i)'
  <2>1. TaskOK(task, upcs, onBoard, removal, targets, phase, i) /\ task'[i] = task[i]
    BY Zenon, <1>6 DEF Sound
  <2>2. CASE task[i].kind # "placer"
    BY Zenon, <2>1, <2>2, <1>2, <1>6 DEF TaskOK, Finished
  <2>3. CASE task[i].kind = "placer"
    <3>1. PICK q, g : q = task[i] /\ g = q.target
      BY Zenon
    <3>2. g # NoId => g \in Ids
      BY Zenon, <3>1, Types, Fields
    <3>3. PlacerOK(q, task, onBoard, removal, targets, phase, i) /\ i <= posted /\ i \notin upcs
      BY Zenon, <2>1, <2>3, <3>1 DEF TaskOK
    <3>4. g # NoId => /\ g <= posted' /\ upc'[g].src = i
                      /\ task'[g].kind = "build" <=> task[g].kind = "build"
      BY Zenon, <3>1, <3>2, <3>3, <1>2 DEF PlacerOK
    <3>5. PlacerOK(task[i], task, onBoard, removal, targets, phase, i)'
      BY Zenon, <2>1, <3>1, <3>3, <3>4, <1>2 DEF PlacerOK, Request, Finished
    <3>6. QED
      BY Zenon, <2>1, <2>3, <3>3, <3>5, <1>2, <1>6 DEF TaskOK, Finished
  <2>4. QED
    BY Zenon, <2>2, <2>3
<1>7. ASSUME NEW b \in 1 .. posted', ~Request(b)'
      PROVE  BuildOK(task, upcs, b)'
  <2>1. CASE b \in 1 .. posted
    <3>1. b \in Ids /\ b <= posted /\ upc'[b] = upc[b] /\ (b \in upcs' => b \in upcs)
      BY SMTT(30), <2>1, <1>1, <1>2
    <3>2. PICK q \in Ids : q = upc[b].src
      BY Zenon, <3>1, <1>7, Types DEF Request
    <3>3. BuildOK(task, upcs, b) /\ task[q].kind = "placer"
      BY Zenon, <2>1, <3>1, <3>2, <1>7 DEF Sound, BuildOK, Request
    <3>4. Underway(task, upcs, b)' => Underway(task, upcs, b)
      BY Zenon, <3>1 DEF Underway
    <3>5. CASE q = r
      BY Zenon, <2>1, <3>1, <3>2, <3>4, <3>5 DEF BuildOK
    <3>6. CASE q # r
      BY <3>1, <3>2, <3>3, <3>4, <3>6, <1>7 DEF BuildOK, Request
    <3>7. QED
      BY Zenon, <3>5, <3>6
  <2>2. CASE b = p.target /\ b # NoId
    BY Zenon, <2>2, <1>1 DEF Posted, BuildOK
  <2>3. QED
    BY Zenon, <2>1, <2>2 DEF Posted
<1>8. QED
  BY Zenon, <1>5, <1>6, <1>7 DEF Sound, BuildOK

LEMMA PlacerTypes ==
  ASSUME TypeOK, NEW r, NEW p, NEW left \in SUBSET upcs, Posted(r, p, left),
         task' \in [Ids -> Tasks], onBoard \subseteq onBoard', onBoard' \subseteq 1 .. posted,
         removal' = removal, targets' = targets, found' = found,
         todo' \subseteq todo, revived' \subseteq 1 .. posted,
         phase' \in {"place", "retry", "threw"}
  PROVE  TypeOK'
<1>1. /\ posted' \in 0 .. MaxUpc /\ \A i : i \in 1 .. posted => i \in 1 .. posted'
      /\ upc' \in [Ids -> [src : {NoId} \cup Ids, pos : Sites \cup {NoPos}]]
  BY Zenon DEF Posted
<1>2. \A i : i \in upcs' => i \in 1 .. posted'
  BY Zenon, <1>1 DEF Posted, TypeOK
<1>3. /\ onBoard' \subseteq 1 .. posted' /\ removal' \subseteq onBoard'
      /\ targets' \subseteq 1 .. posted' /\ found' \subseteq targets'
      /\ todo' \subseteq 1 .. posted' /\ revived' \subseteq 1 .. posted'
  BY Zenon, <1>1 DEF TypeOK
<1>4. upcs' \subseteq 1 .. posted' /\ phase' \in {"update", "autobuild", "place", "retry", "builder", "threw"}
  BY Zenon, <1>2
<1>5. QED
  BY Zenon, <1>1, <1>3, <1>4 DEF TypeOK

\* A request without a build under way may get one, even if reserveArea throws.
LEMMA OneMore ==
  ASSUME TypeOK, Sound(task, upcs, onBoard, removal, targets, phase),
         NEW r \in 1 .. posted, NEW p, NEW left \in SUBSET upcs, Posted(r, p, left),
         \A i \in Ids : task'[i].kind = task[i].kind /\ task'[i].status = task[i].status,
         \A c \in 1 .. posted : upc[c].src = r => ~Underway(task, upcs, c)
  PROVE  OneBuildPerRequest'
<1>1. r \in Ids /\ 1 .. posted \subseteq Ids /\ posted \in Nat /\ Ids \subseteq Nat
  BY SMTT(30), Types DEF Ids
<1>2. ASSUME NEW c \in 1 .. posted
      PROVE  /\ upc'[c] = upc[c] /\ c # p.target
             /\ Live(c)' => Underway(task, upcs, c)
  <2>1. c \in Ids /\ c <= posted /\ c # NoId
    BY SMTT(30), <1>1 DEF NoId
  <2>2. c # p.target
    BY SMTT(30), <2>1, <1>1 DEF Posted
  <2>3. upc'[c] = upc[c] /\ (c \in upcs' => c \in upcs)
    BY Zenon, <2>1, <2>2 DEF Posted
  <2>4. QED
    BY Zenon, <2>1, <2>2, <2>3 DEF Live, Underway
<1>3. ASSUME NEW b \in 1 .. posted', NEW c \in 1 .. posted', upc'[b].src # NoId,
             upc'[b].src = upc'[c].src, Live(b)', Live(c)'
      PROVE  b = c
  <2>1. CASE b \in 1 .. posted /\ c \in 1 .. posted
    <3>1. BuildOK(task, upcs, b) /\ BuildOK(task, upcs, c)
      BY Zenon, <2>1 DEF Sound
    <3>2. QED
      BY SMTT(30), <2>1, <3>1, <1>2, <1>3 DEF BuildOK, Request
  <2>2. CASE b \notin 1 .. posted
    BY SMTT(30), <2>2, <1>2, <1>3 DEF Posted
  <2>3. CASE c \notin 1 .. posted
    BY <2>3, <1>2, <1>3 DEF Posted
  <2>4. QED
    BY Zenon, <2>1, <2>2, <2>3
<1>4. QED
  BY Zenon, <1>3 DEF OneBuildPerRequest, Request

\* Every site the placer picks has its tiles free, if not its addon's.
LEMMA Locating ==
  ASSUME NEW e, NEW T, NEW s \in Locations(e, T) \ {NoPos}
  PROVE  s \in Sites /\ (Free(Addon[s], T) => Free(Full(s), T))
BY Zenon DEF Locations, Free, Full

LEMMA NewPlacer ==
  ASSUME NEW b \in Ids, NEW s \in Sites
  PROVE  LET p == PlacerTask(b, s)
         IN /\ p \in Tasks /\ p.kind = "placer" /\ p.status = "Unknown" /\ p.target = b
            /\ ~p.found /\ ~p.respawn /\ p.reserved /\ p.pos = s
BY Zenon DEF PlacerTask, NoTask, Tasks, NoId

\* A request that gets a position gets a placer task, unless reserveArea throws.
LEMMA PlaceStep ==
  ASSUME IInv, NEW r \in Ids, NEW s \in Sites, PlaceRequest(r, s)
  PROVE  IInv'
<1>1. /\ phase = "place" /\ r \in todo /\ s \in Locations(upc[r].pos, tiles) \ {NoPos}
      /\ PostBuild(r, s, upcs \ {r}) /\ Reserve(s, tiles, todo \ {r})
      /\ removal' = removal /\ targets' = targets /\ found' = found /\ revived' = revived
  BY Zenon DEF PlaceRequest, First
<1>2. /\ TypeOK /\ Sound(task, upcs, onBoard, removal, targets, phase) /\ Visits
      /\ Holding(task, tiles) /\ task \in [Ids -> Tasks] /\ r \in 1 .. posted
  BY Zenon, <1>1, Types DEF IInv, TypeOK
<1>3. r \in upcs /\ Request(r) /\ r \notin removal /\ task[r] = NoTask
  <2>1. r \in upcs /\ Request(r)
    BY Zenon, <1>1, <1>2 DEF Visits
  <2>2. task[r] = NoTask
    BY Zenon, <1>2, <2>1 DEF Sound, TaskOK
  <2>3. ~Finished(NoTask)
    BY Zenon DEF Finished, NoTask
  <2>4. QED
    BY Zenon, <1>2, <2>1, <2>2, <2>3 DEF Sound, TaskOK
<1>4. \A c \in 1 .. posted : upc[c].src = r => ~Underway(task, upcs, c)
  <2>1. task[r].kind # "placer" /\ r # NoId
    BY Zenon, <1>3, NoTaskFields, Types, <1>2
  <2>2. QED
    BY Zenon, <1>2, <2>1 DEF Sound, BuildOK, Request
<1>5. PICK p : p = PlacerTask(posted + 1, s)
  BY Zenon
<1>6. p.target = posted + 1 /\ p.pos = s
  BY Zenon, <1>5 DEF PlacerTask, NoTask
<1>7. Posted(r, p, upcs \ {r}) /\ p.target \in Ids /\ p.target # NoId
  BY Zenon, <1>1, <1>2, <1>6, Posting
<1>8. /\ p \in Tasks /\ p.kind = "placer" /\ p.status = "Unknown"
      /\ ~p.found /\ ~p.respawn /\ p.reserved
  BY SMTT(30), <1>5, <1>6, <1>7, NewPlacer
<1>9. todo' \subseteq todo /\ phase' \in {"place", "threw"}
  BY Zenon, <1>1 DEF Reserve
<1>10. CASE phase' = "threw"
  <2>1. task' = task /\ onBoard' = onBoard
    BY Zenon, <1>10 DEF PlaceRequest
  <2>2. TypeOK'
    <3>1. upcs \ {r} \in SUBSET upcs /\ onBoard' \subseteq 1 .. posted /\ revived' \subseteq 1 .. posted
      BY Zenon, <2>1, <1>1, <1>2 DEF TypeOK
    <3>2. QED
      BY Zenon, <3>1, <2>1, <1>1, <1>2, <1>7, <1>9, PlacerTypes
  <2>3. OneBuildPerRequest'
    BY Zenon, <2>1, <1>2, <1>4, <1>7, OneMore
  <2>4. QED
    BY Zenon, <1>10, <2>2, <2>3 DEF IInv
<1>11. CASE phase' # "threw"
  <2>1. /\ task' = [task EXCEPT ![r] = p] /\ onBoard' = onBoard \cup {r}
    BY Zenon, <1>5, <1>11 DEF PlaceRequest
  <2>2. /\ phase' = phase /\ tiles' = tiles \cup Full(s) /\ todo' = todo \ {r}
        /\ Free(Addon[s], tiles)
    BY Zenon, <1>1, <1>11 DEF Reserve
  <2>3. /\ task'[r] = p /\ (\A i \in Ids \ {r} : task'[i] = task[i]) /\ task' \in [Ids -> Tasks]
    BY Zenon, <2>1, <1>2, <1>8
  <2>4. TypeOK'
    <3>1. /\ upcs \ {r} \in SUBSET upcs /\ revived' \subseteq 1 .. posted
          /\ onBoard' \subseteq 1 .. posted /\ onBoard \subseteq onBoard'
      BY Zenon, <2>1, <1>1, <1>2 DEF TypeOK
    <3>2. QED
      BY Zenon, <3>1, <2>3, <1>1, <1>2, <1>7, <1>9, PlacerTypes
  <2>5. Sound(task, upcs, onBoard, removal, targets, phase)'
    <3>1. task[r].kind # "build" /\ revived \subseteq revived' /\ phase # "update"
      BY Zenon, <1>1, <1>3, NoTaskFields
    <3>2. QED
      BY Zenon, <3>1, <2>1, <2>3, <1>1, <1>2, <1>3, <1>4, <1>7, <1>8, PlacerMoves
  <2>6. Holding(task, tiles)'
    <3>1. Holding(task', tiles \cup Full(s))
      BY Zenon, <2>2, <2>3, <1>1, <1>2, <1>3, <1>6, <1>8, NoTaskFields, Locating, ReservingOne
    <3>2. QED
      BY Zenon, <3>1, <2>2 DEF Holding
  <2>7. Visits'
    <3>1. ASSUME NEW q \in todo \ {r}
          PROVE  q \in upcs' /\ Request(q)'
      <4>1. q \in upcs \ {r} /\ Request(q) /\ q \in Ids /\ q <= posted
        BY SMTT(30), <1>1, <1>2, Types DEF Visits, TypeOK
      <4>2. QED
        BY Zenon, <4>1, <1>7 DEF Posted, Request
    <3>2. QED
      BY Zenon, <3>1, <2>2, <1>1 DEF Visits
  <2>8. QED
    BY Zenon, <1>11, <2>4, <2>5, <2>6, <2>7 DEF IInv
<1>12. QED
  BY Zenon, <1>10, <1>11

\* A retry starts only once the request's build has ended.
LEMMA NoBuild ==
  ASSUME IInv, phase = "retry", NEW r \in todo
  PROVE  /\ r \in Ids /\ r \in 1 .. posted /\ r \in onBoard /\ r \notin upcs /\ Request(r)
         /\ task[r].kind = "placer" /\ ~task[r].found /\ task[r].target = NoId
         /\ task[r].status \in {"Unknown", "Cancelled"}
         /\ task[r].status = "Cancelled" => r \notin targets
         /\ r \in removal => Finished(task[r])
         /\ \A c \in 1 .. posted : upc[c].src = r => ~Underway(task, upcs, c)
<1>1. TypeOK /\ Sound(task, upcs, onBoard, removal, targets, phase) /\ task \in [Ids -> Tasks]
  BY Zenon, Types DEF IInv
<1>2. r \in onBoard /\ task[r].respawn /\ r \in 1 .. posted /\ r \in Ids /\ r # NoId
  BY Zenon, <1>1, Types DEF IInv, Visits, TypeOK
<1>3. TaskOK(task, upcs, onBoard, removal, targets, phase, r)
  BY Zenon, <1>1, <1>2 DEF Sound
<1>4. task[r].kind = "placer"
  BY Zenon, <1>1, <1>2, <1>3, Fields DEF TaskOK
<1>5. \A c \in 1 .. posted : upc[c].src = r => ~Underway(task, upcs, c)
  <2>1. \A c \in 1 .. posted : c # NoId
    BY SMTT(30) DEF NoId
  <2>2. task[r].target = NoId
    BY Zenon, <1>2, <1>3, <1>4 DEF TaskOK, PlacerOK
  <2>3. QED
    BY Zenon, <2>1, <2>2, <1>1, <1>2 DEF Sound, BuildOK, Request
<1>6. QED
  BY Zenon, <1>2, <1>3, <1>4, <1>5 DEF TaskOK, PlacerOK

LEMMA PostponedPlacer ==
  ASSUME NEW p \in Tasks
  PROVE  LET q == [p EXCEPT !.reserved = FALSE]
         IN /\ q \in Tasks /\ q.kind = p.kind /\ q.status = p.status /\ q.target = p.target
            /\ q.found = p.found /\ q.respawn = p.respawn /\ ~q.reserved
            /\ Finished(q) <=> Finished(p)
BY Zenon DEF Tasks, Finished

\* A retry that finds no position only gives its tiles back.
LEMMA PostponeStep ==
  ASSUME IInv, NEW r \in Ids, PostponeRetry(r)
  PROVE  IInv'
<1>1. /\ phase = "retry" /\ phase' = phase /\ r \in todo /\ todo' = todo \ {r}
      /\ tiles' = WithoutOld(r) /\ task' = [task EXCEPT ![r].reserved = FALSE]
      /\ posted' = posted /\ upc' = upc /\ upcs' = upcs /\ onBoard' = onBoard
      /\ removal' = removal /\ targets' = targets /\ found' = found /\ revived' = revived
  BY Zenon DEF PostponeRetry
<1>2. /\ TypeOK /\ Sound(task, upcs, onBoard, removal, targets, phase) /\ Visits
      /\ Holding(task, tiles) /\ task \in [Ids -> Tasks]
  BY Zenon, <1>1, Types DEF IInv
<1>3. /\ r \in 1 .. posted /\ r \in onBoard /\ r \notin upcs /\ Request(r)
      /\ task[r].kind = "placer" /\ ~task[r].found /\ task[r].target = NoId
      /\ task[r].status \in {"Unknown", "Cancelled"}
      /\ task[r].status = "Cancelled" => r \notin targets
      /\ r \in removal => Finished(task[r])
      /\ \A c \in 1 .. posted : upc[c].src = r => ~Underway(task, upcs, c)
  BY Zenon, <1>1, NoBuild
<1>4. PICK p : p = [task[r] EXCEPT !.reserved = FALSE]
  BY Zenon
<1>5. /\ p \in Tasks /\ p.kind = "placer" /\ p.status = task[r].status /\ p.target = NoId
      /\ ~p.found /\ p.respawn = task[r].respawn /\ ~p.reserved
      /\ Finished(p) <=> Finished(task[r])
  BY Zenon, <1>2, <1>3, <1>4, PostponedPlacer
<1>6. task'[r] = p /\ (\A i \in Ids \ {r} : task'[i] = task[i]) /\ task' \in [Ids -> Tasks]
  BY Zenon, <1>1, <1>2, <1>4, <1>5
<1>7. Posted(r, p, upcs \ {r})
  BY <1>1, <1>2, <1>3, <1>5 DEF Posted, TypeOK
<1>8. Sound(task, upcs, onBoard, removal, targets, phase)'
  <2>1. onBoard' = onBoard \cup {r} /\ revived \subseteq revived' /\ phase # "update"
    BY Zenon, <1>1, <1>3
  <2>2. QED
    BY Zenon, <2>1, <1>1, <1>2, <1>3, <1>5, <1>6, <1>7, PlacerMoves
<1>9. Holding(task, tiles)'
  <2>1. Holding(task', WithoutOld(r))
    BY Zenon, <1>2, <1>5, <1>6, ReleasingOne
  <2>2. QED
    BY Zenon, <2>1, <1>1 DEF Holding
<1>10. Visits' /\ TypeOK'
  BY <1>1, <1>2, <1>6 DEF Visits, TypeOK
<1>11. QED
  BY Zenon, <1>1, <1>8, <1>9, <1>10 DEF IInv

\* A retry that finds a position, unless reserveArea throws.
LEMMA RetryStep ==
  ASSUME IInv, NEW r \in Ids, NEW s \in Sites, Retry(r, s)
  PROVE  IInv'
<1>1. /\ phase = "retry" /\ r \in todo /\ s \in Locations(upc[r].pos, WithoutOld(r)) \ {NoPos}
      /\ PostBuild(r, s, upcs) /\ Reserve(s, WithoutOld(r), todo \ {r})
      /\ onBoard' = onBoard /\ removal' = removal /\ targets' = targets /\ found' = found
  BY Zenon DEF Retry
<1>2. /\ TypeOK /\ Sound(task, upcs, onBoard, removal, targets, phase) /\ Visits
      /\ Holding(task, tiles) /\ task \in [Ids -> Tasks]
  BY Zenon, <1>1, Types DEF IInv
<1>3. /\ r \in 1 .. posted /\ r \in onBoard /\ r \notin upcs /\ Request(r)
      /\ task[r].kind = "placer" /\ ~task[r].found
      /\ task[r].status \in {"Unknown", "Cancelled"}
      /\ task[r].status = "Cancelled" => r \notin targets
      /\ r \in removal => Finished(task[r])
      /\ \A c \in 1 .. posted : upc[c].src = r => ~Underway(task, upcs, c)
  BY Zenon, <1>1, NoBuild
<1>4. PICK held, b, p : /\ held \in BOOLEAN /\ (held <=> phase' # "threw")
                        /\ b = posted + 1
                        /\ p = Retried(task[r], b, s, held)
                        /\ task' = [task EXCEPT ![r] = p]
  BY Zenon DEF Retry
<1>5. /\ p.target = b /\ p.pos = s /\ (b \in Ids => p \in Tasks)
      /\ p.kind = task[r].kind /\ p.status = task[r].status /\ p.found = task[r].found
      /\ ~p.respawn /\ (p.reserved <=> held)
  <2>1. PICK q \in Tasks : q = task[r]
    BY Zenon, <1>2
  <2>2. p = Retried(q, b, s, held) /\ held \in BOOLEAN
    BY Zenon, <2>1, <1>4
  <2>3. /\ b \in Ids => p \in Tasks
        /\ p.kind = q.kind /\ p.status = q.status /\ p.target = b
        /\ p.found = q.found /\ ~p.respawn /\ (p.reserved <=> held) /\ p.pos = s
    BY Zenon, <2>2 DEF Retried, Tasks
  <2>4. QED
    BY Zenon, <2>1, <2>3
<1>6. Posted(r, p, upcs) /\ p.target \in Ids /\ p.target # NoId
  BY Zenon, <1>1, <1>2, <1>4, <1>5, Posting
<1>7. /\ p \in Tasks /\ p.kind = "placer" /\ p.status = task[r].status
      /\ ~p.found /\ ~p.respawn /\ (p.reserved <=> phase' # "threw")
  BY Zenon, <1>3, <1>4, <1>5, <1>6
<1>8. /\ todo' \subseteq todo /\ phase' \in {"retry", "threw"}
      /\ revived \subseteq revived' /\ revived' \subseteq 1 .. posted
      /\ task[r].status = "Cancelled" => r \in revived'
  BY Zenon, <1>1, <1>2, <1>3 DEF Reserve, Retry, TypeOK
<1>9. task'[r] = p /\ (\A i \in Ids \ {r} : task'[i] = task[i]) /\ task' \in [Ids -> Tasks]
  BY Zenon, <1>2, <1>4, <1>7
<1>10. TypeOK'
  <2>1. upcs \in SUBSET upcs /\ onBoard' \subseteq 1 .. posted /\ onBoard \subseteq onBoard'
    BY Zenon, <1>1, <1>2 DEF TypeOK
  <2>2. QED
    BY Zenon, <2>1, <1>1, <1>2, <1>6, <1>8, <1>9, PlacerTypes
<1>11. CASE phase' = "threw"
  <2>1. \A i \in Ids : task'[i].kind = task[i].kind /\ task'[i].status = task[i].status
    BY Zenon, <1>3, <1>7, <1>9
  <2>2. upcs \in SUBSET upcs
    BY Zenon
  <2>3. OneBuildPerRequest'
    BY Zenon, <2>1, <2>2, <1>2, <1>3, <1>6, OneMore
  <2>4. QED
    BY Zenon, <1>10, <1>11, <2>3 DEF IInv
<1>12. CASE phase' # "threw"
  <2>1. /\ phase' = phase /\ tiles' = WithoutOld(r) \cup Full(s) /\ todo' = todo \ {r}
        /\ Free(Addon[s], WithoutOld(r))
    <3>1. Reserve(s, WithoutOld(r), todo \ {r})
      BY Zenon, <1>1
    <3>2. QED
      BY Zenon, <3>1, <1>12 DEF Reserve
  <2>2. Sound(task, upcs, onBoard, removal, targets, phase)'
    <3>1. /\ onBoard' = onBoard \cup {r} /\ upcs = upcs \ {r} /\ phase # "update"
      BY Zenon, <1>1, <1>3
    <3>2. /\ p.status = "Cancelled" => r \notin targets /\ r \in revived'
          /\ r \in removal => Finished(p)
      BY Zenon, <1>3, <1>7, <1>8 DEF Finished
    <3>3. QED
      BY Zenon, <3>1, <3>2, <1>1, <1>2, <1>3, <1>6, <1>7, <1>8, <1>9, <1>12, PlacerMoves
  <2>3. Holding(task, tiles)'
    <3>1. PICK u : u = [task EXCEPT ![r].reserved = FALSE]
      BY Zenon
    <3>2. ~u[r].reserved /\ \A i \in Ids \ {r} : u[i] = task[i]
      BY Zenon, <3>1, <1>2, PostponedPlacer
    <3>3. Holding(u, WithoutOld(r))
      BY Zenon, <3>2, <1>2, ReleasingOne
    <3>4. Holding(task', WithoutOld(r) \cup Full(s))
      BY Zenon, <3>2, <3>3, <2>1, <1>1, <1>5, <1>7, <1>9, <1>12, Locating, ReservingOne
    <3>5. QED
      BY Zenon, <3>4, <2>1 DEF Holding
  <2>4. Visits'
    <3>1. \A q \in todo' : q \in todo /\ task'[q] = task[q]
      BY Zenon, <2>1, <1>2, <1>9, Types
    <3>2. QED
      BY Zenon, <3>1, <2>1, <1>1, <1>2 DEF Visits
  <2>5. QED
    BY Zenon, <1>10, <1>12, <2>2, <2>3, <2>4 DEF IInv
<1>13. QED
  BY Zenon, <1>11, <1>12

-----------------------------------------------------------------------------
(* The other steps.                                                         *)

LEMMA NewBuild ==
  ASSUME NEW s \in Sites \cup {NoPos}
  PROVE  LET b == BuildTask(s)
         IN /\ b \in Tasks /\ b.kind = "build" /\ b.status = "Ongoing"
            /\ ~b.found /\ ~b.respawn /\ ~b.reserved /\ ~Finished(b)
BY Zenon DEF BuildTask, NoTask, Tasks, NoId, Finished

\* The Builder's step starts a task for every UPC with a position.
LEMMA BuilderModuleStep ==
  ASSUME IInv, BuilderStep
  PROVE  IInv'
<1>1. PICK S \in SUBSET upcs :
        /\ upcs' = upcs \ S /\ onBoard' = onBoard \cup S
        /\ task' = [i \in Ids |-> IF i \in S THEN BuildTask(upc[i].pos) ELSE task[i]]
  BY Zenon DEF BuilderStep
<1>2. /\ phase = "builder" /\ phase' = "update" /\ posted' = posted /\ upc' = upc
      /\ removal' = removal /\ tiles' = tiles /\ targets' = targets /\ found' = found
      /\ todo' = todo /\ revived' = revived
  BY Zenon DEF BuilderStep
<1>3. /\ TypeOK /\ Sound(task, upcs, onBoard, removal, targets, phase)
      /\ Holding(task, tiles) /\ task \in [Ids -> Tasks] /\ S \subseteq Ids /\ NoId \notin Ids
  BY Zenon, <1>1, <1>2, Types DEF IInv
<1>4. ASSUME NEW i \in S
      PROVE  /\ task[i].kind = "none" /\ ~task[i].reserved /\ i \notin removal /\ i <= posted
             /\ task'[i] \in Tasks /\ task'[i].kind = "build" /\ task'[i].status = "Ongoing"
             /\ ~task'[i].found /\ ~task'[i].respawn /\ ~task'[i].reserved
             /\ ~Finished(task'[i])
  <2>1. TaskOK(task, upcs, onBoard, removal, targets, phase, i) /\ i \in upcs /\ i <= posted
    BY SMTT(30), <1>3 DEF Sound, TypeOK
  <2>2. task'[i] = BuildTask(upc[i].pos) /\ upc[i].pos \in Sites \cup {NoPos}
    BY Zenon, <1>1, <1>3, Types
  <2>3. QED
    BY Zenon, <2>1, <2>2, <1>3, NewBuild, NoTaskFields DEF TaskOK, TypeOK
<1>5. \A i \in Ids \ S : task'[i] = task[i]
  BY Zenon, <1>1
<1>6. TypeOK'
  <2>1. task' \in [Ids -> Tasks]
    BY Zenon, <1>1, <1>3, <1>4, <1>5
  <2>2. QED
    BY Zenon, <2>1, <1>1, <1>2, <1>3 DEF TypeOK
<1>7. ASSUME NEW i \in Ids
      PROVE  TaskOK(task, upcs, onBoard, removal, targets, phase, i)'
  <2>1. TaskOK(task, upcs, onBoard, removal, targets, phase, i)
    BY Zenon, <1>3 DEF Sound
  <2>2. CASE i \in S
    BY Zenon, <2>2, <1>1, <1>2, <1>4 DEF TaskOK
  <2>3. CASE i \notin S /\ task[i].kind # "placer"
    BY Zenon, <2>1, <2>3, <1>1, <1>2, <1>5 DEF TaskOK
  <2>4. CASE i \notin S /\ task[i].kind = "placer"
    <3>1. PICK q, g : q = task[i] /\ g = q.target
      BY Zenon
    <3>2. PlacerOK(q, task, onBoard, removal, targets, phase, i) /\ task'[i] = q
      BY Zenon, <2>1, <2>4, <3>1, <1>5 DEF TaskOK
    <3>3. g # NoId => g \in Ids
      BY Zenon, <3>1, <1>3, Fields
    <3>4. g # NoId /\ task[g].kind = "build" => task'[g].kind = "build"
      BY Zenon, <3>3, <1>4, <1>5
    <3>5. g # NoId /\ task'[g].kind = "build" =>
            task[g].kind = "build" \/ g \in onBoard' \ removal'
      BY Zenon, <3>3, <1>1, <1>2, <1>4, <1>5
    <3>6. PlacerOK(task[i], task, onBoard, removal, targets, phase, i)'
      BY Zenon, <3>1, <3>2, <3>4, <3>5, <1>1, <1>2 DEF PlacerOK, Request
    <3>7. QED
      BY Zenon, <2>1, <2>4, <3>1, <3>2, <3>6, <1>1, <1>2 DEF TaskOK
  <2>5. QED
    BY Zenon, <2>2, <2>3, <2>4
<1>8. ASSUME NEW b \in 1 .. posted
      PROVE  BuildOK(task, upcs, b)'
  <2>1. BuildOK(task, upcs, b) /\ b \in Ids /\ upc[b].src \in {NoId} \cup Ids
    BY Zenon, <1>3, Types DEF Sound
  <2>2. Underway(task, upcs, b)' => Underway(task, upcs, b)
    BY Zenon, <2>1, <1>1, <1>4, <1>5 DEF Underway
  <2>3. QED
    BY Zenon, <2>1, <2>2, <1>2, <1>4, <1>5 DEF BuildOK, Request
<1>9. Sound(task, upcs, onBoard, removal, targets, phase)'
  BY Zenon, <1>2, <1>7, <1>8 DEF Sound
<1>10. Holding(task, tiles)'
  BY Zenon, <1>2, <1>3, <1>4, <1>5 DEF Holding
<1>11. QED
  BY Zenon, <1>2, <1>6, <1>9, <1>10 DEF IInv, Visits

\* A step that only moves on to the next phase or the next visit.
LEMMA QuietStep ==
  ASSUME IInv, phase \notin {"threw", "update"},
         UNCHANGED <<posted, upc, upcs, task, onBoard, removal, tiles, targets, found, revived>>,
         phase' \in {"place", "retry", "builder"},
         todo' \subseteq 1 .. posted, Visits'
  PROVE  IInv'
<1>1. TypeOK'
  BY Zenon DEF IInv, TypeOK
<1>2. Sound(task, upcs, onBoard, removal, targets, phase')
  BY Zenon, Fewer DEF IInv
<1>3. Sound(task, upcs, onBoard, removal, targets, phase)'
  BY ZenonT(30), <1>2 DEF Sound, TaskOK, PlacerOK, BuildOK, Underway, Request
<1>4. Holding(task, tiles)'
  BY Zenon DEF IInv, Holding
<1>5. QED
  BY Zenon, <1>1, <1>3, <1>4 DEF IInv

LEMMA InitIInv == Init => IInv
<1> SUFFICES ASSUME Init PROVE IInv
  BY Zenon
<1>1. \A i \in Ids : task[i] = NoTask
  BY Zenon DEF Init
<1>2. TypeOK
  BY SMTT(30), NoTaskFields, BoundsAssumption DEF Init, TypeOK, Ids, NoId
<1>3. Sound(task, upcs, onBoard, removal, targets, phase)
  BY SMTT(30), <1>1, NoTaskFields DEF Init, Sound, TaskOK
<1>4. Holding(task, tiles)
  BY Zenon, <1>1, NoTaskFields DEF Init, Holding
<1>5. QED
  BY Zenon, <1>2, <1>3, <1>4 DEF IInv, Init, Visits

LEMMA NextIInv == IInv /\ [Next]_vars => IInv'
<1> SUFFICES ASSUME IInv, [Next]_vars PROVE IInv'
  BY Zenon
<1>1. CASE BoardUpdate
  BY Zenon, <1>1, BoardUpdateStep
<1>2. CASE SkipEvaluate
  <2>1. /\ phase = "autobuild" /\ phase' = "place" /\ todo' = {r \in upcs' : upc'[r].src = NoId}
        /\ UNCHANGED <<posted, upc, upcs, task, onBoard, removal, tiles, targets, found, revived>>
    BY Zenon, <1>2 DEF SkipEvaluate, EndAutoBuild
  <2>2. todo' \subseteq 1 .. posted /\ Visits'
    BY Zenon, <2>1 DEF IInv, TypeOK, Visits, Request
  <2>3. QED
    BY Zenon, <2>1, <2>2, QuietStep
<1>3. ASSUME NEW w \in Wanted, NEW n \in 0 .. MaxWanted, NEW items \in [1 .. n -> Entries],
             Evaluate(w, n, items)
      PROVE  IInv'
  BY Zenon, <1>3, EvaluateStep
<1>4. CASE SwitchBuildOrder
  BY Zenon, <1>4, SwitchStep
<1>5. ASSUME NEW r \in Ids, SkipRequest(r)
      PROVE  IInv'
  <2>1. /\ phase = "place" /\ phase' = "place" /\ todo' = todo \ {r}
        /\ UNCHANGED <<posted, upc, upcs, task, onBoard, removal, tiles, targets, found, revived>>
    BY Zenon, <1>5 DEF SkipRequest
  <2>2. todo' \subseteq 1 .. posted /\ Visits'
    BY Zenon, <2>1 DEF IInv, TypeOK, Visits, Request
  <2>3. QED
    BY Zenon, <2>1, <2>2, QuietStep
<1>6. ASSUME NEW r \in Ids, NEW s \in Sites, PlaceRequest(r, s)
      PROVE  IInv'
  BY Zenon, <1>6, PlaceStep
<1>7. CASE BeginRetries
  <2>1. /\ phase = "place" /\ phase' = "retry" /\ todo' = {r \in onBoard : task[r].respawn}
        /\ UNCHANGED <<posted, upc, upcs, task, onBoard, removal, tiles, targets, found, revived>>
    BY Zenon, <1>7 DEF BeginRetries
  <2>2. todo' \subseteq 1 .. posted /\ Visits'
    BY Zenon, <2>1 DEF IInv, TypeOK, Visits
  <2>3. QED
    BY Zenon, <2>1, <2>2, QuietStep
<1>8. ASSUME NEW r \in Ids, PostponeRetry(r)
      PROVE  IInv'
  BY Zenon, <1>8, PostponeStep
<1>9. ASSUME NEW r \in Ids, NEW s \in Sites, Retry(r, s)
      PROVE  IInv'
  BY Zenon, <1>9, RetryStep
<1>10. CASE EndPlacer
  <2>1. /\ phase = "retry" /\ phase' = "builder" /\ todo' = todo
        /\ UNCHANGED <<posted, upc, upcs, task, onBoard, removal, tiles, targets, found, revived>>
    BY Zenon, <1>10 DEF EndPlacer
  <2>2. todo' \subseteq 1 .. posted /\ Visits'
    BY Zenon, <2>1 DEF IInv, TypeOK, Visits
  <2>3. QED
    BY Zenon, <2>1, <2>2, QuietStep
<1>11. CASE BuilderStep
  BY Zenon, <1>11, BuilderModuleStep
<1>12. CASE UNCHANGED vars
  <2>1. /\ UNCHANGED <<posted, upc, upcs, task, onBoard, removal, tiles, targets, found, revived>>
        /\ UNCHANGED <<phase, todo>>
    BY Zenon, <1>12 DEF vars
  <2>2. TypeOK' /\ (Visits => Visits') /\ (Holding(task, tiles) => Holding(task, tiles)')
    BY Zenon, <2>1 DEF IInv, TypeOK, Visits, Request, Holding
  <2>3. OneBuildPerRequest => OneBuildPerRequest'
    BY SMTT(30), <2>1 DEF OneBuildPerRequest, Live, Request
  <2>4. Sound(task, upcs, onBoard, removal, targets, phase)
          => Sound(task, upcs, onBoard, removal, targets, phase)'
    BY SMTT(30), <2>1 DEF Sound, TaskOK, PlacerOK, BuildOK, Underway, Request
  <2>5. QED
    BY Zenon, <2>1, <2>2, <2>3, <2>4 DEF IInv
<1>13. QED
  BY Zenon, <1>1, <1>2, <1>3, <1>4, <1>5, <1>6, <1>7, <1>8, <1>9, <1>10, <1>11, <1>12
     DEF Next, AutoBuild, Placer

-----------------------------------------------------------------------------

\* The invariant holds in every state, whatever is wanted, cancelled, failed or
\* retried.
THEOREM Invariance == Spec => []IInv
BY InitIInv, NextIInv, PTL DEF Spec

\* The reserved tiles are exactly those of the placers that hold a reservation,
\* no tile is held twice, and only a request retried after its cancellation
\* (BuildingPlacerModule::step) takes tiles with it when it leaves the board.
THEOREM TilesExact == Spec => []ReservationsExact
<1>1. IInv => ReservationsExact
  <2> SUFFICES ASSUME IInv, phase # "threw" PROVE ReservationsExact
    BY Zenon DEF ReservationsExact
  <2>1. /\ TypeOK /\ Sound(task, upcs, onBoard, removal, targets, phase)
        /\ Holding(task, tiles) /\ task \in [Ids -> Tasks]
    BY Zenon, Types DEF IInv
  <2>2. tiles = UNION {Full(task[r].pos) : r \in Reserving}
    BY Zenon, <2>1 DEF Holding, Reserving
  <2>3. \A r, q \in Reserving : r # q => Free(Full(task[r].pos), Full(task[q].pos))
    BY Zenon, <2>1 DEF Holding, Reserving, Free
  <2>4. ASSUME NEW r \in Reserving, r \notin revived
        PROVE  r \in onBoard
    <3>1. r \in Ids /\ task[r].reserved
      BY Zenon DEF Reserving
    <3>2. TaskOK(task, upcs, onBoard, removal, targets, phase, r)
      BY Zenon, <3>1, <2>1 DEF Sound
    <3>3. QED
      BY Zenon, <3>1, <3>2, <2>1, <2>4, Fields, NoTaskFields DEF TaskOK, PlacerOK
  <2>5. QED
    BY Zenon, <2>2, <2>3, <2>4 DEF ReservationsExact
<1>2. QED
  BY <1>1, Invariance, PTL

\* A request never has two builds under way, not even after reserveArea threw.
THEOREM OneBuildAtATime == Spec => []OneBuildPerRequest
<1>1. IInv => OneBuildPerRequest
  BY SMTT(30) DEF IInv, Sound, BuildOK, Underway, OneBuildPerRequest, Live, Request
<1>2. QED
  BY <1>1, Invariance, PTL

\* The tiles of a build under way are reserved by the placer that proxies it.
THEOREM BuildsReserved == Spec => []LiveBuildReserved
<1>1. IInv => LiveBuildReserved
  BY Zenon DEF IInv, Sound, BuildOK, Underway, LiveBuildReserved, Live
<1>2. QED
  BY <1>1, Invariance, PTL

=============================================================================

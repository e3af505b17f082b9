----------------------------- MODULE SyncTrainer -----------------------------
(***************************************************************************)
(* cpid/synctrainer.cpp with the episode handles of cpid/trainer.cpp.      *)
(*                                                                         *)
(* Game threads play episodes: they ask forward() for an action and give   *)
(* the frame to step().  The frames go to a buffer that an episode owns    *)
(* until it ends and that the next episode inherits.  The training thread  *)
(* calls update(), which trains on the buffers that hold returnsLength_    *)
(* frames.                                                                 *)
(*                                                                         *)
(* A section under stepMutex_ (a mutex with priorities, modelled on its    *)
(* own in PriorityMutex) is one step, except the one of update(), which    *)
(* `updating' marks.  The batcher that runs the model for forward() is     *)
(* modelled in AsyncBatcher; here its answer is one step.  A frame is what *)
(* the properties need of it: whether it starts its episode, ends it, and  *)
(* was computed by the current model (which only an on-policy trainer      *)
(* cares for).  An episode is known by the thread that plays it; what the  *)
(* maps hold of episodes whose handle is gone is left out.  The threads    *)
(* are driven as trainLoop of scripts/bo-switch/train.cpp and the tests    *)
(* do: updates, a stop flag, reset(), join.                                *)
(***************************************************************************)
EXTENDS Integers, Sequences, FiniteSets

CONSTANTS
  Games,            \* the threads that play
  NoOwner,          \* the empty id, and the id of an episode that is over
  NumBuffers,       \* bound: indices of buffers_
  ReturnsLength,    \* returnsLength_
  TrainerBatchSize, \* trainerBatchSize_
  MaxUpdates,       \* bound: calls of update() before the stop
  MaxFrames         \* bound: frames a buffer holds when updates lag behind

\* The constructor throws on a returnsLength below 2.
ASSUME SyncTrainerAssumption ==
  /\ IsFiniteSet(Games)
  /\ NoOwner \notin Games
  /\ NumBuffers \in Nat
  /\ ReturnsLength \in Nat /\ ReturnsLength >= 2
  /\ TrainerBatchSize \in Nat \ {0}
  /\ MaxUpdates \in Nat
  /\ MaxFrames \in Nat

Buffers == 1 .. NumBuffers

VARIABLES
  forceOnPolicy, \* forceOnPolicy_
  overlapping,   \* overlappingUpdates_
  pc,            \* where a game thread is
  fresh,         \* whether its episode has no frame yet
  answer,        \* the model of its last forward(): "none", "current", "old"
  active,        \* actives_: the threads whose episode is active
  bufferOf,      \* gamesToBuffers_ for their episode, 0 where there is none
  size,          \* buffers_.size()
  frames,        \* Buffer::frames
  isDone,        \* Buffer::isDone
  owner,         \* Buffer::currentOwner
  lastUpdate,    \* Buffer::lastUpdateNum
  ready,         \* the keys of readyToUpdate_
  updateCount,   \* updateCount_
  updating,      \* whether update() is in its section under stepMutex_
  selected,      \* selectedBuffers
  main,          \* where the training thread is
  finish         \* the flag that stops the game threads

players  == <<pc, fresh, answer>>
episodes == <<active, bufferOf>>
buffers  == <<size, frames, isDone, owner, lastUpdate, ready>>
trainer  == <<updateCount, updating, selected, main, finish>>
options  == <<forceOnPolicy, overlapping>>
vars == <<options, players, episodes, buffers, trainer>>

Frame == [first : BOOLEAN, last : BOOLEAN, current : BOOLEAN]

PC == {"idle", "begin", "play", "enter", "check", "blocked", "query", "act", "drop",
       "exit"}
MainPC == {"update", "doUpdate", "cleanup", "notify", "reset", "resetNotify", "join",
           "done"}

\* A type invariant.
TypeOK ==
  /\ forceOnPolicy \in BOOLEAN /\ overlapping \in BOOLEAN
  /\ pc \in [Games -> PC]
  /\ fresh \in [Games -> BOOLEAN]
  /\ answer \in [Games -> {"none", "current", "old"}]
  /\ active \subseteq Games
  /\ bufferOf \in [Games -> Buffers \cup {0}]
  /\ size \in Buffers \cup {0}
  /\ frames \in [Buffers -> Seq(Frame)]
  /\ isDone \in [Buffers -> BOOLEAN]
  /\ owner \in [Buffers -> Games \cup {NoOwner}]
  /\ lastUpdate \in [Buffers -> Nat]
  /\ ready \subseteq Buffers
  /\ updateCount \in Nat
  /\ updating \in BOOLEAN
  /\ selected \subseteq Buffers
  /\ main \in MainPC
  /\ finish \in BOOLEAN

\* overlappingUpdates_ has no effect with forceOnPolicy_.
Init ==
  /\ forceOnPolicy \in BOOLEAN
  /\ overlapping \in IF forceOnPolicy THEN {FALSE} ELSE BOOLEAN
  /\ pc = [g \in Games |-> "idle"]
  /\ fresh = [g \in Games |-> FALSE]
  /\ answer = [g \in Games |-> "none"]
  /\ active = {}
  /\ bufferOf = [g \in Games |-> 0]
  /\ size = 0
  /\ frames = [b \in Buffers |-> << >>]
  /\ isDone = [b \in Buffers |-> FALSE]
  /\ owner = [b \in Buffers |-> NoOwner]
  /\ lastUpdate = [b \in Buffers |-> 0]
  /\ ready = {}
  /\ updateCount = 0
  /\ updating = FALSE
  /\ selected = {}
  /\ main = "update"
  /\ finish = FALSE

-----------------------------------------------------------------------------
(* Episode buffers. *)

\* The buffers between two episodes.
Free == {b \in 1 .. size : isDone[b]}

\* getBufferForHandleUNSAFE: the buffer of the episode; else the free one updated
\* longest ago, the first of them; else a new one.
BufferFor(g) ==
  IF bufferOf[g] # 0 THEN bufferOf[g]
  ELSE IF Free = {} THEN size + 1
  ELSE CHOOSE b \in Free :
         \A c \in Free : \/ lastUpdate[b] < lastUpdate[c]
                         \/ lastUpdate[b] = lastUpdate[c] /\ b <= c

\* The exception of getBufferForHandleUNSAFE.
LostBuffer(g) == bufferOf[g] # 0 /\ owner[bufferOf[g]] # g

\* What getBufferForHandleUNSAFE does to take b for an episode, and what it makes of isDone.
Take(g, b) ==
  /\ ~LostBuffer(g)
  /\ b \in Buffers
  /\ bufferOf' = [bufferOf EXCEPT ![g] = b]
  /\ owner' = [owner EXCEPT ![b] = g]
  /\ size' = IF b > size THEN b ELSE size

Taken(g, b) == [isDone EXCEPT ![b] = IF bufferOf[g] = 0 THEN FALSE ELSE @]

-----------------------------------------------------------------------------
(* A game thread. *)

Goto(g, label) == pc' = [pc EXCEPT ![g] = label]

\* while (!finish)
Loop(g) ==
  /\ pc[g] = "idle"
  /\ Goto(g, IF finish THEN "exit" ELSE "begin")
  /\ UNCHANGED <<fresh, answer, episodes, buffers, trainer, options>>

\* startEpisode
StartEpisode(g) ==
  /\ pc[g] = "begin"
  /\ active' = active \cup {g}
  /\ fresh' = [fresh EXCEPT ![g] = TRUE]
  /\ Goto(g, "play")
  /\ UNCHANGED <<answer, bufferOf, buffers, trainer, options>>

\* Between two frames: call forward(), or give the episode up (the game ended
\* without a last frame, an exception, or the stop flag).
Play(g) ==
  /\ pc[g] = "play"
  /\ \/ ~finish /\ Goto(g, IF forceOnPolicy THEN "enter" ELSE "query")
     \/ Goto(g, "drop")
  /\ UNCHANGED <<fresh, answer, episodes, buffers, trainer, options>>

\* forward(), the section under stepMutex_.
ForwardEnter(g) ==
  /\ pc[g] = "enter"
  /\ ~updating
  /\ \/ /\ g \notin active
        /\ Goto(g, "drop")
        /\ UNCHANGED <<bufferOf, size, owner, isDone>>
     \/ /\ g \in active
        /\ LET b == BufferFor(g)
           IN  Take(g, b) /\ isDone' = Taken(g, b)
        /\ Goto(g, "check")
  /\ UNCHANGED <<fresh, answer, active, frames, lastUpdate, ready, trainer, options>>

\* forward(), the predicate of forwardCV_.
ForwardCheck(g) ==
  /\ pc[g] = "check"
  /\ Goto(g, IF g \notin active THEN "drop"
             ELSE IF bufferOf[g] \in ready THEN "blocked" ELSE "query")
  /\ UNCHANGED <<fresh, answer, episodes, buffers, trainer, options>>

\* Trainer::forward: the answer of the model, or an exception, which ends the episode.
Answer(g) ==
  /\ pc[g] = "query"
  /\ \/ answer' = [answer EXCEPT ![g] = "current"] /\ Goto(g, "act")
     \/ Goto(g, "drop") /\ UNCHANGED answer
  /\ UNCHANGED <<fresh, episodes, buffers, trainer, options>>

\* step() of an episode that reset() has stopped.
StepInactive(g) ==
  /\ pc[g] = "act"
  /\ ~updating
  /\ g \notin active
  /\ answer' = [answer EXCEPT ![g] = "none"]
  /\ Goto(g, "drop")
  /\ UNCHANGED <<fresh, episodes, buffers, trainer, options>>

\* Mutant: a buffer is handed on although its last frame is not terminal.
StepDone(b, done) == [isDone EXCEPT ![b] = TRUE]

\* step(): whether the buffer can go to another episode.
StepFree(b, done) == [isDone EXCEPT ![b] = done]

\* step() with the frame of the last answer.
Step(g, done) ==
  /\ pc[g] = "act"
  /\ ~updating
  /\ g \in active
  /\ LET b == BufferFor(g)
         f == [first |-> fresh[g], last |-> done, current |-> answer[g] = "current"]
     IN  /\ Take(g, b)
         /\ Len(frames[b]) < MaxFrames
         /\ frames' = [frames EXCEPT ![b] = Append(@, f)]
         /\ isDone' = StepFree(b, done)
         /\ ready' = IF Len(frames[b]) + 1 >= ReturnsLength THEN ready \cup {b} ELSE ready
         /\ active' = IF done THEN active \ {g} ELSE active
  /\ fresh' = [fresh EXCEPT ![g] = FALSE]
  /\ answer' = [answer EXCEPT ![g] = "none"]
  /\ Goto(g, IF done THEN "drop" ELSE "play")
  /\ UNCHANGED <<lastUpdate, trainer, options>>

\* Mutant: a stopped episode leaves its buffer in readyToUpdate_.
ForceStopReady(b) == ready

\* forceStopEpisode: the frames are gone, so they are no longer ready.
ForceStopErase(b) == ready \ {b}

\* ~EpisodeHandle: forceStopEpisode, which takes a buffer even if the episode has none.
ForceStopEpisode(g) ==
  /\ pc[g] = "drop"
  /\ ~updating
  /\ LET b == BufferFor(g)
     IN  \/ /\ g \notin active
            /\ UNCHANGED <<active, size, frames, isDone, lastUpdate, ready>>
         \/ /\ g \in active
            /\ ~LostBuffer(g)
            /\ b \in Buffers
            /\ size' = IF b > size THEN b ELSE size
            /\ active' = active \ {g}
            /\ frames' = [frames EXCEPT ![b] = << >>]
            /\ isDone' = [isDone EXCEPT ![b] = TRUE]
            /\ lastUpdate' = [lastUpdate EXCEPT ![b] = updateCount]
            /\ ready' = ForceStopErase(b)
  /\ bufferOf' = [bufferOf EXCEPT ![g] = 0]
  /\ owner' = [b \in Buffers |-> IF owner[b] = g THEN NoOwner ELSE owner[b]]
  /\ fresh' = [fresh EXCEPT ![g] = FALSE]
  /\ answer' = [answer EXCEPT ![g] = "none"]
  /\ Goto(g, "idle")
  /\ UNCHANGED <<trainer, options>>

-----------------------------------------------------------------------------
(* The training thread. *)

\* Threads in forwardCV_.wait look at the predicate again.
WakeForward == [g \in Games |-> IF pc[g] = "blocked" THEN "check" ELSE pc[g]]

\* update(): trainerBatchSize_ buffers are ready, or fewer for more than five seconds;
\* the wait polls, and readyToUpdate_ has no order.
UpdateSelect ==
  /\ main = "update"
  /\ updateCount < MaxUpdates
  /\ ready # {}
  /\ \E s \in SUBSET ready :
       /\ s # {}
       /\ \/ Cardinality(s) = TrainerBatchSize
          \/ s = ready /\ Cardinality(s) < TrainerBatchSize
       /\ selected' = s
  /\ updateCount' = updateCount + 1
  /\ updating' = TRUE
  /\ main' = "doUpdate"
  /\ UNCHANGED <<players, episodes, buffers, finish, options>>

\* What was computed by the model that an update replaces.
Outdated(x) == IF x = "current" THEN "old" ELSE x

OutdatedFrames(s) == [i \in 1 .. Len(s) |-> [s[i] EXCEPT !.current = FALSE]]

\* update(): the model changes, in one step for the batcher (lockModel, or setModel
\* of a clone).
DoUpdate ==
  /\ main = "doUpdate"
  /\ IF forceOnPolicy
       THEN /\ frames' = [b \in Buffers |-> OutdatedFrames(frames[b])]
            /\ answer' = [g \in Games |-> Outdated(answer[g])]
       ELSE UNCHANGED <<frames, answer>>
  /\ main' = "cleanup"
  /\ UNCHANGED <<pc, fresh, episodes, size, isDone, owner, lastUpdate, ready,
                 updateCount, updating, selected, finish, options>>

\* doUpdate throws: the lock is released, nothing is cleaned up, and the caller calls
\* update() again.
DoUpdateThrows ==
  /\ main = "doUpdate"
  /\ updating' = FALSE
  /\ selected' = {}
  /\ main' = "update"
  /\ UNCHANGED <<players, episodes, buffers, updateCount, finish, options>>

\* Mutant: an on-policy update only clears the buffers it used.
Cleared == selected

\* update(): the buffers an update with forceOnPolicy_ clears.
ClearedOnPolicy == Buffers

\* update(): how many frames leave a buffer that was used.
ToDelete == IF overlapping THEN 1 ELSE ReturnsLength - 1

Kept(b) == SubSeq(frames[b], ToDelete + 1, Len(frames[b]))

\* update(): the buffers still ready without forceOnPolicy_.
StillReady == {b \in ready : b \in selected => Len(Kept(b)) >= ReturnsLength}

\* update(): the frames are discarded; the lock is released.
Cleanup ==
  /\ main = "cleanup"
  /\ frames' = [b \in Buffers |->
                 IF forceOnPolicy
                   THEN IF b \in ClearedOnPolicy THEN << >> ELSE frames[b]
                   ELSE IF b \in selected THEN Kept(b) ELSE frames[b]]
  /\ ready' = IF forceOnPolicy THEN {} ELSE StillReady
  /\ lastUpdate' = [b \in Buffers |-> IF b \in selected THEN updateCount ELSE lastUpdate[b]]
  /\ updating' = FALSE
  /\ selected' = {}
  /\ main' = "notify"
  /\ UNCHANGED <<players, episodes, size, isDone, owner, updateCount, finish,
                 options>>

\* Mutant: update() does not wake the threads in forward().
UpdateQuiet ==
  /\ main = "notify"
  /\ main' = "update"
  /\ UNCHANGED <<players, episodes, buffers, updateCount, updating, selected, finish, options>>

\* update(): the notifications after the lock.
UpdateNotify ==
  /\ main = "notify"
  /\ pc' = WakeForward
  /\ main' = "update"
  /\ UNCHANGED <<fresh, answer, episodes, buffers, updateCount, updating,
                 selected, finish, options>>

\* The owner stops training: it raises the flag,
Finish ==
  /\ main = "update"
  /\ updateCount = MaxUpdates
  /\ finish' = TRUE
  /\ main' = "reset"
  /\ UNCHANGED <<players, episodes, buffers, updateCount, updating, selected,
                 options>>

\* calls reset() (the section under stepMutex_ and forwardMutex_),
Reset ==
  /\ main = "reset"
  /\ frames' = [b \in Buffers |-> << >>]
  /\ isDone' = [b \in Buffers |-> b <= size]
  /\ owner' = [b \in Buffers |-> NoOwner]
  /\ ready' = {}
  /\ active' = {}
  /\ main' = "resetNotify"
  /\ UNCHANGED <<players, bufferOf, size, lastUpdate, updateCount, updating, selected,
                 finish, options>>

\* wakes those that wait in forward(),
ResetNotify ==
  /\ main = "resetNotify"
  /\ pc' = WakeForward
  /\ main' = "join"
  /\ UNCHANGED <<fresh, answer, episodes, buffers, updateCount, updating,
                 selected, finish, options>>

\* and joins the game threads.
Join ==
  /\ main = "join"
  /\ \A g \in Games : pc[g] = "exit"
  /\ main' = "done"
  /\ UNCHANGED <<players, episodes, buffers, updateCount, updating, selected, finish, options>>

-----------------------------------------------------------------------------

Player(g) ==
  \/ Loop(g) \/ StartEpisode(g) \/ Play(g) \/ ForwardEnter(g) \/ ForwardCheck(g)
  \/ Answer(g) \/ StepInactive(g)
  \/ \E done \in BOOLEAN : Step(g, done)
  \/ ForceStopEpisode(g)

Trainer ==
  \/ UpdateSelect \/ DoUpdate \/ DoUpdateThrows \/ Cleanup \/ UpdateNotify
  \/ Finish \/ Reset \/ ResetNotify \/ Join

Next == (\E g \in Games : Player(g)) \/ Trainer

Spec == Init /\ [][Next]_vars

-----------------------------------------------------------------------------
(* Properties. *)

\* An episode under way that has a buffer owns it, and nobody else can take it: the
\* exception of getBufferForHandleUNSAFE ("wants to access his buffer ... but it no
\* longer owns it", synctrainer.cpp:462-469) is never thrown.
OwnsBuffer ==
  \A g \in active : bufferOf[g] # 0 =>
    /\ owner[bufferOf[g]] = g
    /\ bufferOf[g] \in 1 .. size
    /\ ~isDone[bufferOf[g]]

\* A buffer in readyToUpdate_ holds returnsLength_ frames, whatever order steps, stops,
\* resets and updates came in: the LOG_IF(FATAL) of update() (synctrainer.cpp:248-252)
\* is never reached, and createBatch reads no frame past the end.
ReadyFull == \A b \in ready : b <= size /\ Len(frames[b]) >= ReturnsLength

\* None of the internal checks of SyncTrainer fails.
NoInternalError == OwnsBuffer /\ ReadyFull

\* Returns are computed across the frames of a buffer and cut at terminal frames only, so
\* where one episode's frames end and another's begin the last frame is terminal
\* (step() keeps a buffer until isDone, forceStopEpisode clears it).
EpisodesSeparated ==
  \A b \in Buffers : \A i \in 1 .. Len(frames[b]) - 1 :
    frames[b][i + 1].first => frames[b][i].last

\* With forceOnPolicy_ an update trains on frames of the current model, but for the first
\* frame of a buffer, whose action may have been chosen before the last update (forward()
\* waits while the buffer is ready, synctrainer.cpp:416-419; update() clears all buffers).
OnPolicyFrames ==
  forceOnPolicy /\ main # "cleanup" =>
    \A b \in Buffers : \A i \in 2 .. Len(frames[b]) : frames[b][i].current

\* A thread that waits in forward() waits for an update that will come: its buffer is
\* ready, or a notification is under way, from update() or from reset() ("This can wait
\* indefinitively when we finish training / Solution: Call trainer->reset()",
\* synctrainer.cpp:414-415; the notifications are sent after the locks are released).
WaitersNotified ==
  \A g \in Games : pc[g] = "blocked" =>
    \/ g \in active /\ bufferOf[g] \in ready
    \/ main \in {"notify", "resetNotify"}
=============================================================================

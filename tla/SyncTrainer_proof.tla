------------------------- MODULE SyncTrainer_proof --------------------------
(***************************************************************************)
(* The theorems of priority_mutex and of the synchronous trainers that     *)
(* lock one.  The invariants of PriorityMutex hold for every finite set of *)
(* threads and every maximal priority, and the mutex implements Mutex.     *)
(* The invariants of SyncTrainer hold for any number of game threads,      *)
(* buffers, updates and frames, and for every returnsLength_.              *)
(***************************************************************************)
EXTENDS SyncTrainer, PriorityMutex, FiniteSetTheorems, WellFoundedInduction, TLAPS

(* priority_mutex. *)

\* The threads that queueCount_ counts at priority p.
Queue(p) == {t \in Threads : place[t] \in Registered /\ prio[t] = p}

\* Who can still be overtaken: a thread about to enter through lock() has not
\* been preceded by another one since a higher priority registered.
OvertakeFresh ==
  \A s, t \in Threads :
    place[s] = "leave" /\ place[t] \in Registered /\ prio[t] > prio[s] => overtaken[t] = 0

\* The inductive invariant.  OwnerConsistent makes the dataMutex_ sections
\* exclusive; CountsRegistered ties canGo() to actual threads, which both
\* NoLostWakeup and OvertakeFresh need when a check fails or passes.
MutexInv ==
  /\ MutexTypeOK
  /\ OwnerConsistent
  /\ CountsRegistered
  /\ NoLostWakeup
  /\ OvertakenOnce
  /\ OvertakeFresh

-----------------------------------------------------------------------------

\* Each queue is a finite set, so that its cardinality is a natural number.
LEMMA QueueFinite ==
  ASSUME NEW p PROVE IsFiniteSet(Queue(p)) /\ Cardinality(Queue(p)) \in Nat
  BY Zenon, FS_Subset, FS_CardinalityType, ThreadsAssumption DEF Queue

\* canGo(p) is true exactly when no thread of a higher priority is registered.
LEMMA CanGoMeaning ==
  ASSUME MutexTypeOK, CountsRegistered, NEW p \in Prios
  PROVE  CanGo(p) <=> \A t \in Threads : place[t] \in Registered => ~(prio[t] > p)
  <1>1. ASSUME NEW q \in Prios PROVE queueCount[q] = 0 <=> Queue(q) = {}
    BY Zenon, QueueFinite, FS_EmptySet DEF CountsRegistered, Queue
  <1>2. QED
    BY Zenon, <1>1 DEF CanGo, Queue, MutexTypeOK

\* The initial state satisfies the invariant.
LEMMA InitMutexInv == MutexInit => MutexInv
  <1> SUFFICES ASSUME MutexInit PROVE MutexInv
    BY Zenon
  <1>1. MutexTypeOK
    BY MaxPrioAssumption DEF MutexInit, MutexTypeOK, Places, Prios
  <1>2. CountsRegistered
    <2>1. \A p : Queue(p) = {}
      BY Zenon DEF MutexInit, Queue, Registered
    <2>2. QED
      BY Zenon, <2>1, FS_EmptySet DEF MutexInit, CountsRegistered, Queue
  <1>3. QED
    BY Zenon, <1>1, <1>2, ThreadsAssumption
    DEF MutexInit, MutexInv, OwnerConsistent, NoLostWakeup, OvertakenOnce, OvertakeFresh,
        Registered

\* A step that changes neither prio nor who is registered keeps the counts.
LEMMA CountsKept ==
  ASSUME CountsRegistered, UNCHANGED <<prio, queueCount>>,
         \A t \in Threads : place'[t] \in Registered <=> place[t] \in Registered
  PROVE  CountsRegistered'
  <1>1. \A p \in Prios : Queue(p)' = Queue(p)
    BY Zenon DEF Queue
  <1>2. QED
    BY Zenon, <1>1 DEF CountsRegistered, Queue

-----------------------------------------------------------------------------

\* Every step of every thread keeps the invariant.
LEMMA NextMutexInv == MutexInv /\ [MutexNext]_mutexVars => MutexInv'
  <1> SUFFICES ASSUME MutexInv, [MutexNext]_mutexVars PROVE MutexInv'
    BY Zenon
  <1> USE ThreadsAssumption, MaxPrioAssumption
  <1> USE DEF MutexInv
  <1>1. ASSUME NEW t \in Threads, NEW p \in Prios, LockRegister(t, p) PROVE MutexInv'
    <2> USE <1>1 DEF LockRegister, Move
    <2>1. place[t] = "idle" /\ place'[t] = "queued" /\ prio'[t] = p
      BY Zenon DEF MutexTypeOK
    <2>2. \A s \in Threads \ {t} : place'[s] = place[s] /\ prio'[s] = prio[s]
      BY Zenon DEF MutexTypeOK
    <2>3. MutexTypeOK'
      BY DEF MutexTypeOK, Places
    <2>4. OwnerConsistent'
      BY Zenon, <2>1, <2>2 DEF OwnerConsistent
    <2>5. CountsRegistered'
      <3>1. Queue(p)' = Queue(p) \cup {t} /\ t \notin Queue(p)
        BY Zenon, <2>1, <2>2 DEF Queue, Registered
      <3>2. \A q \in Prios \ {p} : Queue(q)' = Queue(q)
        BY Zenon, <2>1, <2>2 DEF Queue, Registered
      <3>3. Cardinality(Queue(p)') = Cardinality(Queue(p)) + 1
        BY Zenon, <3>1, QueueFinite, FS_AddElement
      <3>4. QED
        BY Zenon, <3>2, <3>3 DEF CountsRegistered, Queue, MutexTypeOK
    <2>6. NoLostWakeup'
      BY Zenon, <2>1, <2>2 DEF NoLostWakeup, Registered
    <2>7. OvertakenOnce'
      BY <2>1, <2>2 DEF OvertakenOnce, MutexTypeOK
    <2>8. OvertakeFresh'
      BY Zenon, <2>1, <2>2 DEF OvertakeFresh, MutexTypeOK
    <2>9. QED
      BY Zenon, <2>3, <2>4, <2>5, <2>6, <2>7, <2>8
  <1>2. ASSUME NEW t \in Threads, TakeDataMutex(t) PROVE MutexInv'
    <2> USE <1>2 DEF TakeDataMutex, Move
    <2>1. place[t] \in {"queued", "woken"} /\ place'[t] = "check"
      BY Zenon DEF MutexTypeOK
    <2>2. \A s \in Threads \ {t} : place'[s] = place[s]
      BY Zenon DEF MutexTypeOK
    <2>3. MutexTypeOK'
      BY Zenon DEF MutexTypeOK, Places
    <2>4. OwnerConsistent'
      BY Zenon, <2>1, <2>2 DEF OwnerConsistent
    <2>5. CountsRegistered'
      BY Zenon, <2>1, <2>2, CountsKept DEF Registered
    <2>6. NoLostWakeup'
      BY Zenon, <2>1, <2>2 DEF NoLostWakeup, Registered
    <2>7. OvertakenOnce' /\ OvertakeFresh'
      BY Zenon, <2>1, <2>2 DEF OvertakenOnce, OvertakeFresh, Registered
    <2>8. QED
      BY Zenon, <2>3, <2>4, <2>5, <2>6, <2>7
  <1>3. ASSUME NEW t \in Threads, CheckPasses(t) PROVE MutexInv'
    <2> USE <1>3 DEF CheckPasses, Move
    <2>1. place[t] = "check" /\ place'[t] = "leave"
      BY Zenon DEF MutexTypeOK
    <2>2. \A s \in Threads \ {t} : place'[s] = place[s]
      BY Zenon DEF MutexTypeOK
    <2>3. MutexTypeOK'
      BY Zenon DEF MutexTypeOK, Places
    <2>4. OwnerConsistent'
      BY Zenon, <2>1, <2>2 DEF OwnerConsistent
    <2>5. CountsRegistered'
      BY Zenon, <2>1, <2>2, CountsKept DEF Registered
    <2>6. NoLostWakeup'
      BY Zenon, <2>1, <2>2 DEF NoLostWakeup, Registered
    <2>7. OvertakenOnce'
      BY Zenon, <2>1, <2>2 DEF OvertakenOnce, Registered
    <2>8. OvertakeFresh'
      <3>1. \A s \in Threads : place[s] \in Registered => ~(prio[s] > prio[t])
        BY Zenon, CanGoMeaning DEF MutexTypeOK
      <3>2. QED
        BY Zenon, <2>1, <2>2, <3>1 DEF OvertakeFresh, Registered
    <2>9. QED
      BY Zenon, <2>3, <2>4, <2>5, <2>6, <2>7, <2>8
  <1>4. ASSUME NEW t \in Threads, CheckWaits(t) PROVE MutexInv'
    <2> USE <1>4 DEF CheckWaits, Move
    <2>1. place[t] = "check" /\ place'[t] = "waiting"
      BY Zenon DEF MutexTypeOK
    <2>2. \A s \in Threads \ {t} : place'[s] = place[s]
      BY Zenon DEF MutexTypeOK
    <2>3. MutexTypeOK'
      BY Zenon DEF MutexTypeOK, Places
    <2>4. OwnerConsistent'
      BY Zenon, <2>1, <2>2 DEF OwnerConsistent, MutexTypeOK
    <2>5. CountsRegistered'
      BY Zenon, <2>1, <2>2, CountsKept DEF Registered
    <2>6. NoLostWakeup'
      <3>1. PICK h \in Threads : place[h] \in Registered /\ prio[h] > prio[t]
        BY Zenon, CanGoMeaning DEF MutexTypeOK
      <3>2. h # t
        BY <3>1 DEF MutexTypeOK, Prios
      <3>3. QED
        BY Zenon, <2>1, <2>2, <3>1, <3>2 DEF NoLostWakeup, Registered
    <2>7. OvertakenOnce' /\ OvertakeFresh'
      BY Zenon, <2>1, <2>2 DEF OvertakenOnce, OvertakeFresh, Registered
    <2>8. QED
      BY Zenon, <2>3, <2>4, <2>5, <2>6, <2>7
  <1>5. ASSUME NEW t \in Threads, SpuriousWakeup(t) PROVE MutexInv'
    <2> USE <1>5 DEF SpuriousWakeup, Move
    <2>1. place[t] = "waiting" /\ place'[t] = "woken"
      BY Zenon DEF MutexTypeOK
    <2>2. \A s \in Threads \ {t} : place'[s] = place[s]
      BY Zenon DEF MutexTypeOK
    <2>3. MutexTypeOK'
      BY Zenon DEF MutexTypeOK, Places
    <2>4. CountsRegistered'
      BY Zenon, <2>1, <2>2, CountsKept DEF Registered
    <2>5. OwnerConsistent' /\ NoLostWakeup' /\ OvertakenOnce' /\ OvertakeFresh'
      BY <2>1, <2>2
      DEF OwnerConsistent, NoLostWakeup, OvertakenOnce, OvertakeFresh, Registered
    <2>6. QED
      BY Zenon, <2>3, <2>4, <2>5
  <1>6. ASSUME NEW t \in Threads, LockReturns(t) PROVE MutexInv'
    <2> USE <1>6 DEF LockReturns, Move
    <2>1. place[t] = "leave" /\ place'[t] = "cs"
      BY Zenon DEF MutexTypeOK
    <2>2. \A s \in Threads \ {t} : place'[s] = place[s]
      BY Zenon DEF MutexTypeOK
    <2>3. CountsRegistered' /\ queueCount' \in [Prios -> Nat]
      <3>1. Queue(prio[t])' = Queue(prio[t]) \ {t} /\ t \in Queue(prio[t])
        BY Zenon, <2>1, <2>2 DEF Queue, Registered
      <3>2. \A q \in Prios \ {prio[t]} : Queue(q)' = Queue(q)
        BY Zenon, <2>1, <2>2 DEF Queue, Registered
      <3>3. Cardinality(Queue(prio[t])') = Cardinality(Queue(prio[t])) - 1
        BY Zenon, <3>1, QueueFinite, FS_RemoveElement
      <3>4. IsFiniteSet(Queue(prio[t]) \ {t}) /\ Cardinality(Queue(prio[t])') \in Nat
        BY Zenon, <3>1, QueueFinite, FS_RemoveElement, FS_CardinalityType
      <3>5. prio[t] \in Prios /\ queueCount[prio[t]] = Cardinality(Queue(prio[t]))
        BY Zenon DEF MutexTypeOK, CountsRegistered, Queue
      <3>6. queueCount'[prio[t]] = Cardinality(Queue(prio[t])')
        BY Zenon, <3>3, <3>5 DEF MutexTypeOK
      <3>7. \A q \in Prios \ {prio[t]} : queueCount'[q] = queueCount[q]
        BY Zenon DEF MutexTypeOK
      <3>8. CountsRegistered'
        BY Zenon, <3>2, <3>6, <3>7 DEF CountsRegistered, Queue
      <3>9. QED
        BY <3>4, <3>5, <3>6, <3>7, <3>8 DEF MutexTypeOK
    <2>4. MutexTypeOK'
      BY <2>3 DEF MutexTypeOK, Places
    <2>5. OwnerConsistent'
      BY Zenon, <2>1, <2>2 DEF OwnerConsistent
    <2>6. NoLostWakeup'
      BY Zenon, <2>1, <2>2 DEF NoLostWakeup, Registered
    <2>7. \A s \in Threads : place[s] = "leave" => s = t
      BY Zenon, <2>1 DEF OwnerConsistent
    <2>8. OvertakenOnce'
      BY <2>1, <2>2 DEF OvertakenOnce, OvertakeFresh, Registered, MutexTypeOK
    <2>9. OvertakeFresh'
      BY Zenon, <2>1, <2>2, <2>7 DEF OvertakeFresh, Registered
    <2>10. QED
      BY Zenon, <2>3, <2>4, <2>5, <2>6, <2>8, <2>9
  <1>7. ASSUME NEW t \in Threads, NEW p \in Prios, TryLock(t, p) PROVE MutexInv'
    <2> USE <1>7 DEF TryLock, Move
    <2>1. place[t] = "idle" /\ place'[t] = "cs"
      BY Zenon DEF MutexTypeOK
    <2>2. \A s \in Threads \ {t} : place'[s] = place[s] /\ prio'[s] = prio[s]
      BY Zenon DEF MutexTypeOK
    <2>3. MutexTypeOK'
      BY Zenon DEF MutexTypeOK, Places
    <2>4. CountsRegistered'
      <3>1. \A q \in Prios : Queue(q)' = Queue(q)
        BY Zenon, <2>1, <2>2 DEF Queue, Registered
      <3>2. QED
        BY Zenon, <3>1 DEF CountsRegistered, Queue
    <2>5. OwnerConsistent'
      BY Zenon, <2>1, <2>2 DEF OwnerConsistent
    <2>6. NoLostWakeup'
      BY Zenon, <2>1, <2>2 DEF NoLostWakeup, Registered
    <2>7. OvertakenOnce' /\ OvertakeFresh'
      BY Zenon, <2>1, <2>2 DEF OvertakenOnce, OvertakeFresh, Registered
    <2>8. QED
      BY Zenon, <2>3, <2>4, <2>5, <2>6, <2>7
  <1>8. ASSUME NEW t \in Threads, Unlock(t) PROVE MutexInv'
    <2> USE <1>8 DEF Unlock, Move
    <2>1. place[t] = "cs" /\ place'[t] = "notify"
      BY Zenon DEF MutexTypeOK
    <2>2. \A s \in Threads \ {t} : place'[s] = place[s]
      BY Zenon DEF MutexTypeOK
    <2>3. MutexTypeOK'
      BY Zenon DEF MutexTypeOK, Places
    <2>4. CountsRegistered'
      BY Zenon, <2>1, <2>2, CountsKept DEF Registered
    <2>5. OwnerConsistent'
      BY Zenon, <2>1, <2>2 DEF OwnerConsistent, MutexTypeOK
    <2>6. NoLostWakeup' /\ OvertakenOnce' /\ OvertakeFresh'
      BY Zenon, <2>1, <2>2 DEF NoLostWakeup, OvertakenOnce, OvertakeFresh, Registered
    <2>7. QED
      BY Zenon, <2>3, <2>4, <2>5, <2>6
  <1>9. ASSUME NEW t \in Threads, NotifyAll(t) PROVE MutexInv'
    <2> USE <1>9 DEF NotifyAll
    <2>1. MutexTypeOK'
      BY Zenon DEF MutexTypeOK, Places
    <2>2. CountsRegistered'
      BY Zenon, CountsKept DEF Registered
    <2>3. \A s \in Threads : place'[s] # "waiting"
      BY Zenon DEF MutexTypeOK
    <2>4. OwnerConsistent' /\ NoLostWakeup'
      BY Zenon, <2>3 DEF OwnerConsistent, NoLostWakeup
    <2>5. OvertakenOnce' /\ OvertakeFresh'
      BY Zenon DEF OvertakenOnce, OvertakeFresh, Registered
    <2>6. QED
      BY Zenon, <2>1, <2>2, <2>4, <2>5
  <1>10. CASE UNCHANGED mutexVars
    <2>1. CountsRegistered'
      BY Zenon, <1>10, CountsKept DEF mutexVars
    <2>2. QED
      BY Zenon, <1>10, <2>1
      DEF mutexVars, MutexTypeOK, OwnerConsistent, NoLostWakeup, OvertakenOnce, OvertakeFresh
  <1>11. QED
    BY Zenon, <1>1, <1>2, <1>3, <1>4, <1>5, <1>6, <1>7, <1>8, <1>9, <1>10
    DEF MutexNext, ThreadStep

-----------------------------------------------------------------------------

\* The inductive invariant holds in every reachable state.
THEOREM MutexInvariance == MutexSpec => []MutexInv
  BY InitMutexInv, NextMutexInv, PTL DEF MutexSpec

\* The state of the mutex is well typed; in particular queueCount_ never goes
\* below zero.
THEOREM MutexTypeCorrect == MutexSpec => []MutexTypeOK
  <1>1. MutexInv => MutexTypeOK
    BY Zenon DEF MutexInv
  <1>2. QED
    BY <1>1, MutexInvariance, PTL

\* lock(), try_lock() and unlock() exclude each other for any number of threads.
THEOREM Exclusion == MutexSpec => []MutualExclusion
  <1>1. MutexInv => MutualExclusion
    BY Zenon DEF MutexInv, OwnerConsistent, MutualExclusion
  <1>2. QED
    BY <1>1, MutexInvariance, PTL

\* A caller asleep on queueCV_ always has somebody who will wake it.
THEOREM WakeupsKept == MutexSpec => []NoLostWakeup
  <1>1. MutexInv => NoLostWakeup
    BY Zenon DEF MutexInv
  <1>2. QED
    BY <1>1, MutexInvariance, PTL

\* At most one lower-priority caller gets in ahead of a registered one.
THEOREM BoundedOvertaking == MutexSpec => []OvertakenOnce
  <1>1. MutexInv => OvertakenOnce
    BY Zenon DEF MutexInv
  <1>2. QED
    BY <1>1, MutexInvariance, PTL

\* queueCount_ counts the registered callers exactly.
THEOREM CountsExact == MutexSpec => []CountsRegistered
  <1>1. MutexInv => CountsRegistered
    BY Zenon DEF MutexInv
  <1>2. QED
    BY <1>1, MutexInvariance, PTL

\* priority_mutex implements Mutex: entering and leaving the section are the
\* abstract Acquire and Release, every other step stutters.
THEOREM MutexRefinement == MutexSpec => ImplementsMutex
  <1> DEFINE Inside == {t \in Threads : place[t] = "cs"}
  <1>1. MutexInit => AbstractMutex!Init
    BY Zenon DEF MutexInit, AbstractMutex!Init
  <1>2. ASSUME MutexInv, [MutexNext]_mutexVars PROVE [AbstractMutex!Next]_Inside
    <2> USE <1>2, ThreadsAssumption DEF MutexInv
    <2>1. ASSUME NEW t \in Threads, LockReturns(t) \/ \E p \in Prios : TryLock(t, p)
          PROVE  AbstractMutex!Next
      <3>1. place[t] # "cs" /\ place' = [place EXCEPT ![t] = "cs"]
        BY Zenon, <2>1 DEF LockReturns, TryLock, Move
      <3>2. \A s \in Threads : place[s] # "cs"
        BY Zenon, <2>1 DEF LockReturns, TryLock, Move, OwnerConsistent
      <3>3. Inside = {} /\ Inside' = {t}
        BY Zenon, <3>1, <3>2 DEF MutexTypeOK
      <3>4. QED
        BY Zenon, <3>3 DEF AbstractMutex!Next, AbstractMutex!Acquire
    <2>2. ASSUME NEW t \in Threads, Unlock(t) PROVE AbstractMutex!Next
      <3>1. Inside = {t} /\ Inside' = {}
        BY Zenon, <2>2 DEF Unlock, Move, OwnerConsistent, MutexTypeOK
      <3>2. QED
        BY Zenon, <3>1 DEF AbstractMutex!Next, AbstractMutex!Release
    <2>3. ASSUME NEW t \in Threads,
                 \/ \E p \in Prios : LockRegister(t, p)
                 \/ TakeDataMutex(t) \/ CheckPasses(t) \/ CheckWaits(t)
                 \/ SpuriousWakeup(t) \/ NotifyAll(t)
          PROVE  Inside' = Inside
      <3>1. \A s \in Threads : place'[s] = "cs" <=> place[s] = "cs"
        BY Zenon, <2>3 DEF LockRegister, TakeDataMutex, CheckPasses, CheckWaits,
                    SpuriousWakeup, NotifyAll, Move, MutexTypeOK
      <3>2. QED
        BY Zenon, <3>1
    <2>4. CASE UNCHANGED mutexVars
      BY Zenon, <2>4 DEF mutexVars
    <2>5. QED
      BY Zenon, <1>2, <2>1, <2>2, <2>3, <2>4 DEF MutexNext, ThreadStep
  <1>3. QED
    BY <1>1, <1>2, MutexInvariance, PTL DEF MutexSpec, ImplementsMutex, AbstractMutex!Spec

-----------------------------------------------------------------------------
(* The trainers. *)

\* An episode has a buffer, or is active, only while its handle exists.
Idle ==
  \A g \in Games : pc[g] \in {"idle", "begin", "exit"} => g \notin active /\ bufferOf[g] = 0

\* The frames of a buffer do not break off within an episode.
Cut(b) == Len(frames[b]) = 0 \/ frames[b][Len(frames[b])].last

\* A buffer breaks off within an episode only while that episode owns it.
CutWhereFree ==
  /\ \A b \in Buffers : isDone[b] \/ b > size => Cut(b)
  /\ \A g \in active : bufferOf[g] # 0 /\ fresh[g] => Cut(bufferOf[g])

\* An episode past the entry of an on-policy forward() has a buffer.
BufferKnown ==
  forceOnPolicy =>
    \A g \in active : pc[g] \in {"check", "blocked", "query", "act"} => bufferOf[g] # 0

\* An answer of the previous model can only become the first frame of its buffer.
OldAnswerFirst ==
  forceOnPolicy /\ main # "cleanup" =>
    \A g \in active : pc[g] = "act" /\ answer[g] # "current" => Len(frames[bufferOf[g]]) = 0

\* The inductive invariant.  Idle gives a new episode no buffer of an earlier one;
\* CutWhereFree says why a buffer may be inherited, OldAnswerFirst why an answer
\* may outlive an update.
IInv ==
  /\ TypeOK
  /\ Idle
  /\ OwnsBuffer
  /\ ReadyFull
  /\ CutWhereFree
  /\ EpisodesSeparated
  /\ BufferKnown
  /\ OldAnswerFirst
  /\ OnPolicyFrames
  /\ WaitersNotified

-----------------------------------------------------------------------------
(* Buffers. *)

\* A nonempty set of natural numbers has a least element.
LEMMA Least ==
  ASSUME NEW S, S \subseteq Nat, S # {}
  PROVE  \E x \in S : \A y \in S : x <= y
  <1> DEFINE R == OpToRel(<, Nat)
  <1>1. IsWellFoundedOn(R, Nat)
    BY Zenon, NatLessThanWellFounded
  <1>2. \A x, y \in Nat : x < y => <<x, y>> \in R
    BY Zenon DEF OpToRel
  <1> HIDE DEF R
  <1>3. PICK x \in S : \A y \in S : ~(<<y, x>> \in R)
    BY Zenon, <1>1, WFMin
  <1>4. \A y \in S : x <= y
    <2> TAKE y \in S
    <2>1. x \in Nat /\ y \in Nat /\ ~(y < x)
      BY Zenon, <1>2, <1>3
    <2>2. QED
      BY <2>1
  <1>5. QED
    BY Zenon, <1>4

\* The buffer that an active episode gets is its own, or one that is between two
\* episodes, or a new one; in no case is it the buffer of another active episode.
LEMMA BufferForMeaning ==
  ASSUME TypeOK, OwnsBuffer, NEW g \in active, BufferFor(g) \in Buffers
  PROVE  /\ ~LostBuffer(g)
         /\ bufferOf[g] # 0 => BufferFor(g) = bufferOf[g]
         /\ bufferOf[g] = 0 => isDone[BufferFor(g)] \/ BufferFor(g) > size
         /\ BufferFor(g) <= size + 1
         /\ \A h \in active \ {g} : bufferOf[h] # BufferFor(g)
  <1> USE SyncTrainerAssumption
  <1>1. CASE bufferOf[g] # 0
    BY <1>1 DEF BufferFor, TypeOK, OwnsBuffer, LostBuffer, Buffers
  <1>2. CASE bufferOf[g] = 0 /\ Free = {}
    BY <1>2 DEF BufferFor, TypeOK, OwnsBuffer, LostBuffer, Buffers
  <1>3. CASE bufferOf[g] = 0 /\ Free # {}
    <2> DEFINE Older(b, c) == \/ lastUpdate[b] < lastUpdate[c]
                              \/ lastUpdate[b] = lastUpdate[c] /\ b <= c
               Times == {lastUpdate[b] : b \in Free}
    <2>1. Free \subseteq Buffers /\ Free \subseteq Nat
      BY SMTT(30) DEF Free, TypeOK, Buffers
    <2>2. Times \subseteq Nat /\ Times # {}
      <3>1. \A c \in Free : lastUpdate[c] \in Nat
        BY Zenon, <2>1 DEF TypeOK
      <3>2. QED
        BY Zenon, <1>3, <3>1
    <2>3. PICK t \in Times : \A u \in Times : t <= u
      BY Zenon, <2>2, Least
    <2> DEFINE Oldest == {b \in Free : lastUpdate[b] = t}
    <2>4. Oldest \subseteq Nat /\ Oldest # {}
      BY Zenon, <2>1, <2>3
    <2>5. PICK b \in Oldest : \A c \in Oldest : b <= c
      BY Zenon, <2>4, Least
    <2>6. \A c \in Free : Older(b, c)
      <3> TAKE c \in Free
      <3>1. lastUpdate[c] \in Times /\ lastUpdate[c] \in Nat /\ t \in Nat
        BY Zenon, <2>1, <2>2, <2>3 DEF TypeOK
      <3>2. QED
        BY <3>1, <2>3, <2>5
    <2>7. BufferFor(g) = CHOOSE x \in Free : \A c \in Free : Older(x, c)
      BY Zenon, <1>3 DEF BufferFor
    <2>8. BufferFor(g) \in Free
      BY Zenon, <2>5, <2>6, <2>7
    <2> HIDE DEF Times, Oldest, Older
    <2>9. BufferFor(g) \in 1 .. size /\ isDone[BufferFor(g)]
      BY Zenon, <2>8 DEF Free
    <2>10. \A h \in active : bufferOf[h] # BufferFor(g)
      BY <2>9 DEF TypeOK, OwnsBuffer, Buffers
    <2>11. QED
      BY <1>3, <2>9, <2>10 DEF TypeOK, LostBuffer, Buffers
  <1>4. QED
    BY Zenon, <1>1, <1>2, <1>3

-----------------------------------------------------------------------------
(* The invariant is inductive. *)

\* The initial state satisfies the invariant.
LEMMA InitIInv == Init => IInv
  <1> USE SyncTrainerAssumption
  <1> SUFFICES ASSUME Init PROVE IInv
    BY Zenon
  <1>1. TypeOK
    <2>1. overlapping \in BOOLEAN
      BY Zenon DEF Init
    <2>2. fresh \in [Games -> BOOLEAN] /\ isDone \in [Buffers -> BOOLEAN]
      BY Zenon DEF Init
    <2>3. frames \in [Buffers -> Seq(Frame)] /\ lastUpdate \in [Buffers -> Nat]
      BY DEF Init
    <2>4. pc \in [Games -> PC] /\ main \in MainPC
      BY Zenon DEF Init, PC, MainPC
    <2>5. QED
      BY Zenon, <2>1, <2>2, <2>3, <2>4 DEF Init, TypeOK
  <1>2. \A b \in Buffers : Len(frames[b]) = 0
    BY Zenon DEF Init
  <1>3. CutWhereFree /\ EpisodesSeparated /\ OnPolicyFrames
    BY <1>1, <1>2 DEF Init, CutWhereFree, Cut, EpisodesSeparated, OnPolicyFrames
  <1>4. Idle /\ OwnsBuffer /\ ReadyFull /\ BufferKnown /\ OldAnswerFirst /\ WaitersNotified
    BY Zenon DEF Init, Idle, OwnsBuffer, ReadyFull, BufferKnown, OldAnswerFirst, WaitersNotified
  <1>5. QED
    BY Zenon, <1>1, <1>3, <1>4 DEF IInv

\* The steps that move a thread and touch neither episodes nor buffers.
LEMMA MoveStep ==
  ASSUME IInv, NEW g \in Games,
         Loop(g) \/ Play(g) \/ ForwardCheck(g) \/ Answer(g) \/ StepInactive(g)
  PROVE  IInv'
  <1> USE SyncTrainerAssumption DEF Loop, Play, ForwardCheck, Answer, StepInactive, Goto
  <1>1. UNCHANGED <<fresh, episodes, buffers, trainer, options>>
    BY Zenon
  <1>2. TypeOK'
    <2>1. (answer \in [Games -> {"none", "current", "old"}])'
      BY Zenon DEF IInv, TypeOK
    <2>2. PICK to \in PC : pc' = [pc EXCEPT ![g] = to]
      BY Zenon DEF PC
    <2>3. (pc \in [Games -> PC])'
      BY Zenon, <2>2 DEF IInv, TypeOK
    <2>4. QED
      BY Zenon, <1>1, <2>1, <2>3 DEF IInv, TypeOK, episodes, buffers, trainer, options
  <1>3. (Idle /\ BufferKnown /\ OldAnswerFirst /\ WaitersNotified)'
    BY <1>1 DEF IInv, TypeOK, Idle, BufferKnown, OldAnswerFirst, WaitersNotified, episodes, buffers,
      trainer, options
  <1>4. (OwnsBuffer /\ ReadyFull /\ CutWhereFree /\ EpisodesSeparated /\ OnPolicyFrames)'
    BY Zenon, <1>1 DEF IInv, OwnsBuffer, ReadyFull, CutWhereFree, Cut, EpisodesSeparated,
      OnPolicyFrames, episodes, buffers, trainer, options
  <1>5. QED
    BY Zenon, <1>2, <1>3, <1>4 DEF IInv

\* The steps of the training thread that only select, notify or go on.
LEMMA TrainerMoveStep ==
  ASSUME IInv,
         UpdateSelect \/ DoUpdateThrows \/ UpdateNotify \/ Finish \/ ResetNotify \/ Join
  PROVE  IInv'
  <1> USE SyncTrainerAssumption
      DEF UpdateSelect, DoUpdateThrows, UpdateNotify, Finish, ResetNotify, Join, WakeForward, players
  <1>1. UNCHANGED <<fresh, answer, episodes, buffers, options>> /\ (main' = "cleanup" => main = "cleanup")
    BY Zenon
  <1>2. main # "cleanup"
    BY Zenon
  <1>3. TypeOK'
    <2>1. (pc \in [Games -> PC] /\ main \in MainPC)'
      BY Zenon DEF IInv, TypeOK, PC, MainPC
    <2>2. (updateCount \in Nat /\ selected \subseteq Buffers)'
      BY DEF IInv, TypeOK
    <2>3. (updating \in BOOLEAN /\ finish \in BOOLEAN)'
      BY Zenon DEF IInv, TypeOK
    <2>4. QED
      BY Zenon, <1>1, <2>1, <2>2, <2>3 DEF IInv, TypeOK, episodes, buffers, options
  <1>4. (Idle /\ BufferKnown /\ OldAnswerFirst /\ WaitersNotified)'
    BY SMTT(30), <1>1 DEF IInv, TypeOK, Idle, BufferKnown, OldAnswerFirst, WaitersNotified, episodes, buffers,
      options
  <1>5. (OwnsBuffer /\ ReadyFull /\ CutWhereFree /\ EpisodesSeparated /\ OnPolicyFrames)'
    BY Zenon, <1>1, <1>2 DEF IInv, OwnsBuffer, ReadyFull, CutWhereFree, Cut, EpisodesSeparated,
      OnPolicyFrames, episodes, buffers, options
  <1>6. QED
    BY Zenon, <1>3, <1>4, <1>5 DEF IInv

\* A new episode has neither frame nor buffer.
LEMMA StartStep ==
  ASSUME IInv, NEW g \in Games, StartEpisode(g)
  PROVE  IInv'
  <1> USE SyncTrainerAssumption DEF IInv, StartEpisode, Goto, buffers, trainer, options
  <1>1. TypeOK'
    BY Zenon DEF TypeOK, PC
  <1>2. bufferOf[g] = 0
    BY Zenon DEF Idle
  <1>3. (Idle /\ OwnsBuffer /\ ReadyFull /\ BufferKnown)'
    BY <1>2 DEF TypeOK, Idle, OwnsBuffer, ReadyFull, BufferKnown
  <1>4. (CutWhereFree /\ EpisodesSeparated /\ OnPolicyFrames)'
    BY Zenon, <1>2 DEF TypeOK, CutWhereFree, Cut, EpisodesSeparated, OnPolicyFrames
  <1>5. (OldAnswerFirst /\ WaitersNotified)'
    BY <1>2 DEF TypeOK, OldAnswerFirst, WaitersNotified
  <1>6. QED
    BY Zenon, <1>1, <1>3, <1>4, <1>5

\* forward() reserves a buffer for an episode; the other episodes keep theirs.
LEMMA EnterStep ==
  ASSUME IInv, NEW g \in Games, ForwardEnter(g)
  PROVE  IInv'
  <1> USE SyncTrainerAssumption
  <1>1. CASE g \notin active
    <2>1. UNCHANGED <<bufferOf, size, owner, isDone>> /\ Goto(g, "drop")
      BY Zenon, <1>1 DEF ForwardEnter
    <2>2. UNCHANGED <<fresh, answer, active, frames, lastUpdate, ready, trainer, options>>
      BY Zenon DEF ForwardEnter
    <2>3. TypeOK'
      BY Zenon, <2>1, <2>2 DEF IInv, TypeOK, Goto, trainer, options, PC
    <2>4. QED
      BY Zenon, <1>1, <2>1, <2>2, <2>3
      DEF IInv, TypeOK, Goto, trainer, options, Idle, OwnsBuffer, ReadyFull, CutWhereFree, Cut,
        EpisodesSeparated, BufferKnown, OldAnswerFirst, OnPolicyFrames, WaitersNotified
  <1>2. CASE g \in active
    <2> DEFINE b == BufferFor(g)
    <2>1. /\ b \in Buffers
          /\ bufferOf' = [bufferOf EXCEPT ![g] = b]
          /\ owner' = [owner EXCEPT ![b] = g]
          /\ size' = IF b > size THEN b ELSE size
          /\ isDone' = [isDone EXCEPT ![b] = IF bufferOf[g] = 0 THEN FALSE ELSE @]
          /\ pc' = [pc EXCEPT ![g] = "check"]
          /\ pc[g] = "enter"
          /\ UNCHANGED <<fresh, answer, active, frames, lastUpdate, ready, trainer, options>>
      BY Zenon, <1>2 DEF ForwardEnter, Take, Taken, Goto
    <2>2. /\ bufferOf[g] # 0 => b = bufferOf[g]
          /\ bufferOf[g] = 0 => isDone[b] \/ b > size
          /\ b <= size + 1
          /\ \A h \in active \ {g} : bufferOf[h] # b
      BY Zenon, <1>2, <2>1, BufferForMeaning DEF IInv
    <2> HIDE DEF b
    <2>3. bufferOf[g] # 0 => ~isDone[b] /\ b <= size
      BY <1>2, <2>2 DEF IInv, OwnsBuffer, TypeOK, Buffers
    <2>4. TypeOK'
      BY Zenon, <2>1 DEF IInv, TypeOK, PC, Buffers, trainer, options
    <2>5. (Idle /\ BufferKnown)'
      BY <1>2, <2>1 DEF IInv, TypeOK, Idle, BufferKnown, Buffers, options
    <2>6. OwnsBuffer'
      BY SMTT(30), <1>2, <2>1, <2>2, <2>3 DEF IInv, TypeOK, OwnsBuffer, Buffers
    <2>7. ReadyFull'
      BY <2>1 DEF IInv, TypeOK, ReadyFull, Buffers
    <2>8. CutWhereFree'
      <3>1. ASSUME NEW c \in Buffers, (isDone[c] \/ c > size)' PROVE Cut(c)'
        BY <2>1, <3>1 DEF IInv, TypeOK, CutWhereFree, Cut, Buffers
      <3>2. ASSUME NEW h \in active', (bufferOf[h] # 0 /\ fresh[h])' PROVE Cut(bufferOf[h])'
        BY Zenon, <2>1, <2>2, <3>2 DEF IInv, TypeOK, CutWhereFree, Cut, Buffers
      <3>3. QED
        BY Zenon, <3>1, <3>2 DEF CutWhereFree
    <2>9. (EpisodesSeparated /\ OnPolicyFrames)'
      BY Zenon, <2>1 DEF IInv, EpisodesSeparated, OnPolicyFrames, trainer, options
    <2>10. (OldAnswerFirst /\ WaitersNotified)'
      BY Zenon, <2>1 DEF IInv, TypeOK, OldAnswerFirst, WaitersNotified, trainer, options
    <2>11. QED
      BY Zenon, <2>4, <2>5, <2>6, <2>7, <2>8, <2>9, <2>10 DEF IInv
  <1>3. QED
    BY Zenon, <1>1, <1>2

\* step() appends the frame of the last answer to the buffer of the episode.
LEMMA FrameStep ==
  ASSUME IInv, NEW g \in Games, NEW done \in BOOLEAN, Step(g, done)
  PROVE  IInv'
  <1> USE SyncTrainerAssumption
  <1> DEFINE b == BufferFor(g)
             f == [first |-> fresh[g], last |-> done, current |-> answer[g] = "current"]
  <1>1. /\ g \in active
        /\ b \in Buffers
        /\ bufferOf' = [bufferOf EXCEPT ![g] = b]
        /\ owner' = [owner EXCEPT ![b] = g]
        /\ size' = IF b > size THEN b ELSE size
        /\ frames' = [frames EXCEPT ![b] = Append(@, f)]
        /\ isDone' = [isDone EXCEPT ![b] = done]
        /\ ready' = IF Len(frames[b]) + 1 >= ReturnsLength THEN ready \cup {b} ELSE ready
        /\ active' = IF done THEN active \ {g} ELSE active
        /\ fresh' = [fresh EXCEPT ![g] = FALSE]
        /\ answer' = [answer EXCEPT ![g] = "none"]
        /\ pc[g] = "act"
        /\ pc' = [pc EXCEPT ![g] = IF done THEN "drop" ELSE "play"]
        /\ UNCHANGED <<lastUpdate, trainer, options>>
    BY Zenon DEF Step, Take, StepFree, Goto
  <1>2. /\ bufferOf[g] # 0 => b = bufferOf[g]
        /\ bufferOf[g] = 0 => isDone[b] \/ b > size
        /\ b <= size + 1
        /\ \A h \in active \ {g} : bufferOf[h] # b
    BY Zenon, <1>1, BufferForMeaning DEF IInv
  <1>3. f \in Frame /\ f.first = fresh[g] /\ f.last = done
    BY Zenon DEF Frame, IInv, TypeOK
  <1>4. f.current = (answer[g] = "current")
    BY Zenon
  <1> HIDE DEF b, f
  <1>5. frames[b] \in Seq(Frame) /\ Len(frames[b]) \in Nat
    BY <1>1 DEF IInv, TypeOK
  <1>6. /\ frames'[b] \in Seq(Frame)
        /\ Len(frames'[b]) = Len(frames[b]) + 1
        /\ \A i \in 1 .. Len(frames[b]) : frames'[b][i] = frames[b][i]
        /\ frames'[b][Len(frames[b]) + 1] = f
        /\ \A c \in Buffers \ {b} : frames'[c] = frames[c]
    BY <1>1, <1>3, <1>5 DEF IInv, TypeOK
  <1>7. TypeOK'
    <2>1. (frames \in [Buffers -> Seq(Frame)])'
      BY <1>1, <1>3, <1>5 DEF IInv, TypeOK
    <2>2. (fresh \in [Games -> BOOLEAN] /\ isDone \in [Buffers -> BOOLEAN])'
      BY Zenon, <1>1 DEF IInv, TypeOK
    <2>3. QED
      BY Zenon, <1>1, <2>1, <2>2 DEF IInv, TypeOK, PC, Buffers, trainer, options
  <1>8. (Idle /\ BufferKnown)'
    BY Zenon, <1>1 DEF IInv, TypeOK, Idle, BufferKnown, Buffers, options
  <1>9. OwnsBuffer'
    BY SMTT(30), <1>1, <1>2 DEF IInv, TypeOK, OwnsBuffer, Buffers
  <1>10. ReadyFull'
    <2> SUFFICES ASSUME NEW c \in ready' PROVE (c <= size /\ Len(frames[c]) >= ReturnsLength)'
      BY Zenon DEF ReadyFull
    <2>1. CASE c = b
      BY <1>1, <1>5, <1>6, <2>1 DEF IInv, TypeOK, ReadyFull, Buffers
    <2>2. CASE c # b
      BY <1>1, <1>6, <2>2 DEF IInv, TypeOK, ReadyFull, Buffers
    <2>3. QED
      BY Zenon, <2>1, <2>2
  <1>11. CutWhereFree'
    <2>1. ASSUME NEW c \in Buffers, (isDone[c] \/ c > size)' PROVE Cut(c)'
      <3>1. CASE c = b
        BY SMTT(30), <1>1, <1>3, <1>5, <1>6, <2>1, <3>1 DEF IInv, TypeOK, Cut, Buffers
      <3>2. CASE c # b
        BY SMTT(30), <1>1, <1>6, <2>1, <3>2 DEF IInv, TypeOK, CutWhereFree, Cut, Buffers
      <3>3. QED
        BY Zenon, <3>1, <3>2
    <2>2. ASSUME NEW h \in active', (bufferOf[h] # 0 /\ fresh[h])' PROVE Cut(bufferOf[h])'
      <3>1. h \in active \ {g} /\ bufferOf'[h] = bufferOf[h] /\ fresh[h]
        BY Zenon, <1>1, <2>2 DEF IInv, TypeOK
      <3>2. bufferOf[h] \in Buffers \ {b} /\ Cut(bufferOf[h])
        BY Zenon, <1>2, <2>2, <3>1 DEF IInv, TypeOK, CutWhereFree
      <3>3. QED
        BY Zenon, <1>6, <3>1, <3>2 DEF Cut
    <2>3. QED
      BY Zenon, <2>1, <2>2 DEF CutWhereFree
  <1>12. EpisodesSeparated'
    <2>1. fresh[g] => Cut(b)
      BY Zenon, <1>1, <1>2 DEF IInv, TypeOK, CutWhereFree
    <2> SUFFICES ASSUME NEW c \in Buffers, NEW i \in 1 .. Len(frames'[c]) - 1,
                        frames'[c][i + 1].first
                 PROVE  frames'[c][i].last
      BY Zenon DEF EpisodesSeparated
    <2>2. CASE c # b
      BY Zenon, <1>6, <2>2 DEF IInv, EpisodesSeparated
    <2>3. CASE c = b /\ i < Len(frames[b])
      <3>1. i \in 1 .. Len(frames[b]) - 1 /\ i \in 1 .. Len(frames[b]) /\ i + 1 \in 1 .. Len(frames[b])
        BY <1>5, <1>6, <2>3
      <3>2. frames'[b][i] = frames[b][i] /\ frames'[b][i + 1] = frames[b][i + 1]
        BY Zenon, <1>6, <3>1
      <3>3. QED
        BY Zenon, <1>1, <2>3, <3>1, <3>2 DEF IInv, EpisodesSeparated
    <2>4. CASE c = b /\ i = Len(frames[b])
      BY <1>3, <1>5, <1>6, <2>1, <2>4 DEF Cut
    <2>5. QED
      BY <1>5, <1>6, <2>2, <2>3, <2>4
  <1>13. OnPolicyFrames'
    <2> SUFFICES ASSUME (forceOnPolicy /\ main # "cleanup")', NEW c \in Buffers,
                        NEW i \in 2 .. Len(frames'[c])
                 PROVE  frames'[c][i].current
      BY Zenon DEF OnPolicyFrames
    <2>1. forceOnPolicy /\ main # "cleanup"
      BY Zenon, <1>1 DEF trainer, options
    <2>2. CASE c # b
      BY Zenon, <1>6, <2>1, <2>2 DEF IInv, OnPolicyFrames
    <2>3. CASE c = b /\ i <= Len(frames[b])
      BY <1>1, <1>5, <1>6, <2>1, <2>3 DEF IInv, OnPolicyFrames
    <2>4. CASE c = b /\ i = Len(frames[b]) + 1
      <3>1. bufferOf[g] # 0
        BY Zenon, <1>1, <2>1 DEF IInv, BufferKnown
      <3>2. answer[g] = "current"
        BY <1>1, <1>2, <1>5, <2>1, <2>4, <3>1 DEF IInv, OldAnswerFirst
      <3>3. QED
        BY Zenon, <1>4, <1>6, <2>4, <3>2
    <2>5. QED
      BY <1>5, <1>6, <2>2, <2>3, <2>4
  <1>14. (OldAnswerFirst /\ WaitersNotified)'
    <2>1. OldAnswerFirst'
      <3> SUFFICES ASSUME (forceOnPolicy /\ main # "cleanup")', NEW h \in active',
                          (pc[h] = "act" /\ answer[h] # "current")'
                   PROVE  Len(frames'[bufferOf'[h]]) = 0
        BY Zenon DEF OldAnswerFirst
      <3>1. h # g /\ h \in active /\ pc[h] = "act" /\ answer[h] # "current"
        BY Zenon, <1>1 DEF IInv, TypeOK
      <3>2. bufferOf[h] \in Buffers \ {b} /\ bufferOf'[h] = bufferOf[h]
        BY Zenon, <1>1, <1>2, <3>1 DEF IInv, TypeOK, BufferKnown, trainer, options
      <3>3. QED
        BY Zenon, <1>1, <1>6, <3>1, <3>2 DEF IInv, OldAnswerFirst, trainer, options
    <2>2. WaitersNotified'
      <3> SUFFICES ASSUME NEW h \in Games, pc'[h] = "blocked"
                   PROVE  \/ h \in active' /\ bufferOf'[h] \in ready'
                          \/ main' \in {"notify", "resetNotify"}
        BY Zenon DEF WaitersNotified
      <3>1. h # g /\ pc[h] = "blocked"
        BY Zenon, <1>1 DEF IInv, TypeOK
      <3>2. QED
        BY Zenon, <1>1, <3>1 DEF IInv, TypeOK, WaitersNotified, trainer
    <2>3. QED
      BY Zenon, <2>1, <2>2
  <1>15. QED
    BY Zenon, <1>7, <1>8, <1>9, <1>10, <1>11, <1>12, <1>13, <1>14 DEF IInv

\* The handle of an episode goes away: an active episode takes a buffer, its own or a
\* free one, and clears it.
LEMMA ForceStopStep ==
  ASSUME IInv, NEW g \in Games, ForceStopEpisode(g)
  PROVE  IInv'
  <1> USE SyncTrainerAssumption
  <1> DEFINE b == BufferFor(g)
  <1>1. /\ pc[g] = "drop"
        /\ bufferOf' = [bufferOf EXCEPT ![g] = 0]
        /\ owner' = [c \in Buffers |-> IF owner[c] = g THEN NoOwner ELSE owner[c]]
        /\ fresh' = [fresh EXCEPT ![g] = FALSE]
        /\ answer' = [answer EXCEPT ![g] = "none"]
        /\ pc' = [pc EXCEPT ![g] = "idle"]
        /\ UNCHANGED <<trainer, options>>
    BY Zenon DEF ForceStopEpisode, Goto
  <1>2. g \notin active => UNCHANGED <<active, size, frames, isDone, lastUpdate, ready>>
    BY Zenon DEF ForceStopEpisode
  <1>3. g \in active =>
          /\ b \in Buffers
          /\ size' = IF b > size THEN b ELSE size
          /\ active' = active \ {g}
          /\ frames' = [frames EXCEPT ![b] = << >>]
          /\ isDone' = [isDone EXCEPT ![b] = TRUE]
          /\ lastUpdate' = [lastUpdate EXCEPT ![b] = updateCount]
          /\ ready' = ready \ {b}
    BY Zenon DEF ForceStopEpisode, ForceStopErase
  <1>4. g \in active =>
          /\ b <= size + 1
          /\ \A h \in active \ {g} : bufferOf[h] # b
    BY Zenon, <1>3, BufferForMeaning DEF IInv
  <1> HIDE DEF b
  <1>5. active' = active \ {g}
    BY Zenon, <1>2, <1>3
  <1>6. \A c \in Buffers : \/ frames'[c] = frames[c] /\ isDone'[c] = isDone[c]
                           \/ g \in active /\ c = b /\ c \notin ready' /\ Len(frames'[c]) = 0
    BY SMTT(30), <1>2, <1>3 DEF IInv, TypeOK
  <1>7. \A h \in active' : /\ h \in active /\ h # g /\ bufferOf'[h] = bufferOf[h]
                           /\ fresh'[h] = fresh[h] /\ answer'[h] = answer[h] /\ pc'[h] = pc[h]
                           /\ bufferOf[h] # 0 =>
                                /\ bufferOf[h] \in Buffers
                                /\ frames'[bufferOf[h]] = frames[bufferOf[h]]
                                /\ isDone'[bufferOf[h]] = isDone[bufferOf[h]]
                                /\ owner'[bufferOf[h]] = owner[bufferOf[h]]
                                /\ bufferOf[h] \in ready => bufferOf[h] \in ready'
    <2> SUFFICES ASSUME NEW h \in active'
                 PROVE  /\ h \in active /\ h # g /\ bufferOf'[h] = bufferOf[h]
                        /\ fresh'[h] = fresh[h] /\ answer'[h] = answer[h] /\ pc'[h] = pc[h]
                        /\ bufferOf[h] # 0 =>
                                /\ bufferOf[h] \in Buffers
                                /\ frames'[bufferOf[h]] = frames[bufferOf[h]]
                                /\ isDone'[bufferOf[h]] = isDone[bufferOf[h]]
                                /\ owner'[bufferOf[h]] = owner[bufferOf[h]]
                                /\ bufferOf[h] \in ready => bufferOf[h] \in ready'
      BY Zenon
    <2>1. /\ h \in active /\ h # g /\ bufferOf'[h] = bufferOf[h]
          /\ fresh'[h] = fresh[h] /\ answer'[h] = answer[h] /\ pc'[h] = pc[h]
      BY Zenon, <1>1, <1>5 DEF IInv, TypeOK
    <2>2. bufferOf[h] # 0 => /\ bufferOf[h] \in Buffers /\ owner[bufferOf[h]] = h
                             /\ g \in active => bufferOf[h] # b
      BY Zenon, <1>4, <2>1 DEF IInv, TypeOK, OwnsBuffer
    <2>3. QED
      BY Zenon, <1>1, <1>2, <1>3, <2>1, <2>2 DEF IInv, TypeOK
  <1>8. size' >= size /\ size' \in Buffers \cup {0}
    BY SMTT(30), <1>2, <1>3 DEF IInv, TypeOK, Buffers
  <1>9. TypeOK'
    <2>1. (/\ frames \in [Buffers -> Seq(Frame)] /\ isDone \in [Buffers -> BOOLEAN]
           /\ lastUpdate \in [Buffers -> Nat] /\ ready \subseteq Buffers)'
      <3>1. CASE g \notin active
        BY Zenon, <1>2, <3>1 DEF IInv, TypeOK
      <3>2. CASE g \in active
        <4>1. frames' = [frames EXCEPT ![b] = << >>] /\ << >> \in Seq(Frame)
          BY <1>3, <3>2
        <4>2. lastUpdate' = [lastUpdate EXCEPT ![b] = updateCount] /\ ready' \subseteq ready
          BY Zenon, <1>3, <3>2
        <4>3. (frames \in [Buffers -> Seq(Frame)])'
          BY Zenon, <4>1 DEF IInv, TypeOK
        <4>4. (isDone \in [Buffers -> BOOLEAN])'
          BY Zenon, <1>3, <3>2 DEF IInv, TypeOK
        <4>5. (lastUpdate \in [Buffers -> Nat] /\ ready \subseteq Buffers)'
          BY Zenon, <4>2 DEF IInv, TypeOK
        <4>6. QED
          BY Zenon, <4>3, <4>4, <4>5
      <3>3. QED
        BY Zenon, <3>1, <3>2
    <2>2. QED
      BY Zenon, <1>1, <1>5, <1>8, <2>1 DEF IInv, TypeOK, PC, trainer, options
  <1>10. (Idle /\ BufferKnown /\ OwnsBuffer)'
    <2>1. Idle'
      BY Zenon, <1>1, <1>5 DEF IInv, TypeOK, Idle
    <2>2. BufferKnown'
      BY Zenon, <1>1, <1>7 DEF IInv, BufferKnown, options
    <2>3. OwnsBuffer'
      <3> SUFFICES ASSUME NEW h \in active', bufferOf'[h] # 0
                   PROVE  /\ owner'[bufferOf'[h]] = h
                          /\ bufferOf'[h] \in 1 .. size'
                          /\ ~isDone'[bufferOf'[h]]
        BY Zenon DEF OwnsBuffer
      <3>1. h \in active /\ bufferOf'[h] = bufferOf[h]
        BY Zenon, <1>7
      <3>2. owner[bufferOf[h]] = h /\ bufferOf[h] \in 1 .. size /\ ~isDone[bufferOf[h]]
        BY Zenon, <3>1 DEF IInv, OwnsBuffer
      <3>3. bufferOf[h] \in 1 .. size'
        BY <1>8, <3>2 DEF IInv, TypeOK, Buffers
      <3>4. QED
        BY Zenon, <1>7, <3>1, <3>2, <3>3
    <2>4. QED
      BY Zenon, <2>1, <2>2, <2>3
  <1>11. ReadyFull'
    <2> SUFFICES ASSUME NEW c \in ready' PROVE (c <= size /\ Len(frames[c]) >= ReturnsLength)'
      BY Zenon DEF ReadyFull
    <2>1. c \in ready
      BY Zenon, <1>2, <1>3
    <2>2. c \in Buffers /\ c <= size /\ Len(frames[c]) >= ReturnsLength
      BY Zenon, <2>1 DEF IInv, TypeOK, ReadyFull
    <2>3. frames'[c] = frames[c]
      BY Zenon, <1>6, <2>2
    <2>4. QED
      BY <1>8, <2>2, <2>3 DEF IInv, TypeOK, Buffers
  <1>12. CutWhereFree'
    <2>1. ASSUME NEW c \in Buffers, (isDone[c] \/ c > size)' PROVE Cut(c)'
      <3>1. CASE Len(frames'[c]) = 0
        BY Zenon, <3>1 DEF Cut
      <3>2. CASE frames'[c] = frames[c] /\ isDone'[c] = isDone[c]
        <4>1. isDone[c] \/ c > size
          BY SMTT(30), <1>8, <2>1, <3>2 DEF IInv, TypeOK, Buffers
        <4>2. Cut(c)
          BY Zenon, <4>1 DEF IInv, CutWhereFree
        <4>3. QED
          BY Zenon, <3>2, <4>2 DEF Cut
      <3>3. QED
        BY Zenon, <1>6, <3>1, <3>2
    <2>2. ASSUME NEW h \in active', (bufferOf[h] # 0 /\ fresh[h])' PROVE Cut(bufferOf[h])'
      BY SMTT(30), <1>7, <2>2 DEF IInv, CutWhereFree, Cut
    <2>3. QED
      BY Zenon, <2>1, <2>2 DEF CutWhereFree
  <1>13. EpisodesSeparated'
    <2> SUFFICES ASSUME NEW c \in Buffers, NEW i \in 1 .. Len(frames'[c]) - 1,
                        frames'[c][i + 1].first
                 PROVE  frames'[c][i].last
      BY Zenon DEF EpisodesSeparated
    <2>1. CASE Len(frames'[c]) = 0
      BY <2>1
    <2>2. CASE frames'[c] = frames[c]
      BY Zenon, <2>2 DEF IInv, EpisodesSeparated
    <2>3. QED
      BY Zenon, <1>6, <2>1, <2>2
  <1>14. OnPolicyFrames'
    <2> SUFFICES ASSUME (forceOnPolicy /\ main # "cleanup")', NEW c \in Buffers,
                        NEW i \in 2 .. Len(frames'[c])
                 PROVE  frames'[c][i].current
      BY Zenon DEF OnPolicyFrames
    <2>1. CASE Len(frames'[c]) = 0
      BY <2>1
    <2>2. CASE frames'[c] = frames[c]
      BY Zenon, <1>1, <2>2 DEF IInv, OnPolicyFrames, trainer, options
    <2>3. QED
      BY Zenon, <1>6, <2>1, <2>2
  <1>15. OldAnswerFirst'
    <2> SUFFICES ASSUME (forceOnPolicy /\ main # "cleanup")', NEW h \in active',
                        (pc[h] = "act" /\ answer[h] # "current")'
                 PROVE  Len(frames'[bufferOf'[h]]) = 0
      BY Zenon DEF OldAnswerFirst
    <2>1. bufferOf[h] # 0
      BY Zenon, <1>1, <1>7 DEF IInv, BufferKnown, options
    <2>2. frames'[bufferOf'[h]] = frames[bufferOf[h]]
      BY <1>7, <2>1
    <2>3. h \in active /\ pc[h] = "act" /\ answer[h] # "current"
      BY Zenon, <1>7
    <2>4. QED
      BY Zenon, <1>1, <2>2, <2>3 DEF IInv, OldAnswerFirst, trainer, options
  <1>16. WaitersNotified'
    <2> SUFFICES ASSUME NEW h \in Games, pc'[h] = "blocked"
                 PROVE  \/ h \in active' /\ bufferOf'[h] \in ready'
                        \/ main' \in {"notify", "resetNotify"}
      BY Zenon DEF WaitersNotified
    <2>1. h # g /\ pc[h] = "blocked"
      BY Zenon, <1>1 DEF IInv, TypeOK
    <2>2. CASE h \in active /\ bufferOf[h] \in ready
      <3>1. bufferOf[h] # 0
        BY <2>2 DEF IInv, TypeOK, Buffers
      <3>2. QED
        BY Zenon, <1>5, <1>7, <2>1, <2>2, <3>1
    <2>3. CASE main \in {"notify", "resetNotify"}
      BY Zenon, <1>1, <2>3 DEF trainer
    <2>4. QED
      BY Zenon, <2>1, <2>2, <2>3 DEF IInv, WaitersNotified
  <1>17. QED
    BY Zenon, <1>9, <1>10, <1>11, <1>12, <1>13, <1>14, <1>15, <1>16 DEF IInv

\* The model changes: frames and answers become outdated, and nothing else.
LEMMA DoUpdateStep ==
  ASSUME IInv, DoUpdate
  PROVE  IInv'
  <1> USE SyncTrainerAssumption
  <1>1. /\ main' = "cleanup"
        /\ UNCHANGED <<pc, fresh, episodes, size, isDone, owner, lastUpdate, ready,
                       updateCount, updating, selected, finish, options>>
    BY Zenon DEF DoUpdate
  <1>2. \A b \in Buffers :
          /\ frames'[b] \in Seq(Frame)
          /\ Len(frames'[b]) = Len(frames[b])
          /\ \A i \in 1 .. Len(frames[b]) : /\ frames'[b][i].first = frames[b][i].first
                                            /\ frames'[b][i].last = frames[b][i].last
    <2> TAKE b \in Buffers
    <2>1. CASE forceOnPolicy
      <3>1. frames[b] \in Seq(Frame) /\ frames'[b] = OutdatedFrames(frames[b])
        BY Zenon, <2>1 DEF DoUpdate, IInv, TypeOK
      <3>2. \A i \in 1 .. Len(frames[b]) : frames[b][i] \in Frame
        BY <3>1
      <3>3. \A i \in 1 .. Len(frames[b]) :
              /\ [frames[b][i] EXCEPT !.current = FALSE] \in Frame
              /\ [frames[b][i] EXCEPT !.current = FALSE].first = frames[b][i].first
              /\ [frames[b][i] EXCEPT !.current = FALSE].last = frames[b][i].last
        BY Zenon, <3>2 DEF Frame
      <3>4. OutdatedFrames(frames[b]) \in [1 .. Len(frames[b]) -> Frame]
        BY Zenon, <3>3 DEF OutdatedFrames
      <3>5. OutdatedFrames(frames[b]) \in Seq(Frame) /\ Len(OutdatedFrames(frames[b])) = Len(frames[b])
        BY <3>1, <3>4
      <3>6. QED
        BY Zenon, <3>1, <3>3, <3>5 DEF OutdatedFrames
    <2>2. CASE ~forceOnPolicy
      BY Zenon, <2>2 DEF DoUpdate, IInv, TypeOK
    <2>3. QED
      BY Zenon, <2>1, <2>2
  <1>3. TypeOK'
    <2>1. (frames \in [Buffers -> Seq(Frame)])'
      <3>1. frames' = [b \in Buffers |-> frames'[b]]
        BY Zenon DEF DoUpdate, IInv, TypeOK
      <3>2. QED
        BY Zenon, <1>2, <3>1
    <2>2. (answer \in [Games -> {"none", "current", "old"}])'
      BY Zenon DEF DoUpdate, Outdated, IInv, TypeOK
    <2>3. QED
      BY Zenon, <1>1, <2>1, <2>2 DEF IInv, TypeOK, MainPC, episodes, options
  <1>4. (Idle /\ BufferKnown /\ OwnsBuffer /\ OldAnswerFirst /\ OnPolicyFrames)'
    BY Zenon, <1>1 DEF IInv, Idle, BufferKnown, OwnsBuffer, OldAnswerFirst, OnPolicyFrames, episodes, options
  <1>5. ReadyFull'
    BY Zenon, <1>1, <1>2 DEF IInv, TypeOK, ReadyFull
  <1>6. CutWhereFree'
    <2>1. ASSUME NEW b \in Buffers, Cut(b) PROVE Cut(b)'
      <3>1. frames[b] \in Seq(Frame) /\ Len(frames[b]) \in Nat
        BY DEF IInv, TypeOK
      <3>2. QED
        BY <1>2, <2>1, <3>1 DEF Cut
    <2>2. \A g \in active : bufferOf[g] # 0 => bufferOf[g] \in Buffers
      BY Zenon DEF IInv, TypeOK
    <2>3. QED
      BY Zenon, <1>1, <2>1, <2>2 DEF IInv, CutWhereFree, episodes
  <1>7. EpisodesSeparated'
    <2> SUFFICES ASSUME NEW b \in Buffers, NEW i \in 1 .. Len(frames'[b]) - 1,
                        frames'[b][i + 1].first
                 PROVE  frames'[b][i].last
      BY Zenon DEF EpisodesSeparated
    <2>1. Len(frames[b]) \in Nat /\ Len(frames'[b]) = Len(frames[b])
      BY SMTT(30), <1>2 DEF IInv, TypeOK
    <2>2. i \in 1 .. Len(frames[b]) - 1 /\ i \in 1 .. Len(frames[b]) /\ i + 1 \in 1 .. Len(frames[b])
      BY SMTT(30), <2>1
    <2>3. QED
      BY Zenon, <1>2, <2>2 DEF IInv, EpisodesSeparated
  <1>8. WaitersNotified'
    <2>1. main \notin {"notify", "resetNotify"}
      BY Zenon DEF DoUpdate
    <2>2. QED
      BY Zenon, <1>1, <2>1 DEF IInv, WaitersNotified, episodes
  <1>9. QED
    BY Zenon, <1>3, <1>4, <1>5, <1>6, <1>7, <1>8 DEF IInv

\* The frames that stay in a buffer after an update are its last ones.
LEMMA KeptMeaning ==
  ASSUME TypeOK, NEW b \in Buffers
  PROVE  /\ Kept(b) \in Seq(Frame)
         /\ Len(Kept(b)) \in Nat
         /\ Len(Kept(b)) # 0 => Len(Kept(b)) + ToDelete = Len(frames[b])
         /\ \A i \in 1 .. Len(Kept(b)) : Kept(b)[i] = frames[b][i + ToDelete]
         /\ ToDelete \in Nat
  <1> USE SyncTrainerAssumption
  <1>1. ToDelete \in Nat
    BY DEF ToDelete
  <1>2. frames[b] \in Seq(Frame) /\ Len(frames[b]) \in Nat
    BY DEF TypeOK
  <1>3. QED
    BY <1>1, <1>2 DEF Kept

\* The frames that were used are discarded.
LEMMA CleanupStep ==
  ASSUME IInv, Cleanup
  PROVE  IInv'
  <1> USE SyncTrainerAssumption
  <1>1. /\ main = "cleanup" /\ main' = "notify"
        /\ updating' = FALSE /\ selected' = {}
        /\ lastUpdate' = [b \in Buffers |-> IF b \in selected THEN updateCount ELSE lastUpdate[b]]
        /\ UNCHANGED <<players, episodes, size, isDone, owner, updateCount, finish, options>>
    BY Zenon DEF Cleanup
  <1>2. \A b \in Buffers : frames'[b] \in {<< >>, Kept(b), frames[b]}
    BY Zenon DEF Cleanup, ClearedOnPolicy
  <1>3. forceOnPolicy => \A b \in Buffers : frames'[b] = << >>
    BY Zenon DEF Cleanup, ClearedOnPolicy
  <1>4. ~forceOnPolicy => \A b \in Buffers : frames'[b] = IF b \in selected THEN Kept(b) ELSE frames[b]
    BY Zenon DEF Cleanup
  <1>5. ready' = IF forceOnPolicy THEN {} ELSE StillReady
    BY Zenon DEF Cleanup
  <1>6. TypeOK'
    <2>1. (frames \in [Buffers -> Seq(Frame)])'
      <3>1. \A b \in Buffers : frames'[b] \in Seq(Frame)
        <4> TAKE b \in Buffers
        <4>1. << >> \in Seq(Frame) /\ frames[b] \in Seq(Frame)
          BY DEF IInv, TypeOK
        <4>2. Kept(b) \in Seq(Frame)
          BY Zenon, KeptMeaning DEF IInv
        <4>3. QED
          BY Zenon, <1>2, <4>1, <4>2
      <3>2. frames' = [b \in Buffers |-> frames'[b]]
        BY Zenon DEF Cleanup
      <3>3. QED
        BY Zenon, <3>1, <3>2
    <2>2. (ready \subseteq Buffers /\ lastUpdate \in [Buffers -> Nat])'
      BY Zenon, <1>1, <1>5 DEF IInv, TypeOK, StillReady
    <2>3. QED
      BY Zenon, <1>1, <2>1, <2>2 DEF IInv, TypeOK, MainPC, players, episodes, options
  <1>7. (Idle /\ BufferKnown /\ OwnsBuffer /\ WaitersNotified)'
    BY Zenon, <1>1 DEF IInv, Idle, BufferKnown, OwnsBuffer, WaitersNotified, players, episodes, options
  <1>8. ReadyFull'
    BY Zenon, <1>1, <1>4, <1>5 DEF IInv, TypeOK, ReadyFull, StillReady
  <1>9. CutWhereFree'
    <2>1. ASSUME NEW b \in Buffers, Cut(b) PROVE Cut(b)'
      <3>1. CASE frames'[b] = << >> \/ frames'[b] = frames[b]
        BY <2>1, <3>1 DEF Cut
      <3>2. CASE frames'[b] = Kept(b)
        <4>1. Len(frames[b]) \in Nat
          BY DEF IInv, TypeOK
        <4>2. CASE Len(Kept(b)) = 0
          BY Zenon, <3>2, <4>2 DEF Cut
        <4>3. CASE Len(Kept(b)) # 0
          <5>1. Kept(b)[Len(Kept(b))] = frames[b][Len(frames[b])] /\ Len(frames[b]) # 0
            BY <4>1, <4>3, KeptMeaning DEF IInv
          <5>2. QED
            BY Zenon, <2>1, <3>2, <5>1 DEF Cut
        <4>4. QED
          BY Zenon, <4>2, <4>3
      <3>3. QED
        BY Zenon, <1>2, <3>1, <3>2
    <2>2. \A g \in active : bufferOf[g] # 0 => bufferOf[g] \in Buffers
      BY Zenon DEF IInv, TypeOK
    <2>3. QED
      BY Zenon, <1>1, <2>1, <2>2 DEF IInv, CutWhereFree, players, episodes
  <1>10. EpisodesSeparated'
    <2> SUFFICES ASSUME NEW b \in Buffers, NEW i \in 1 .. Len(frames'[b]) - 1,
                        frames'[b][i + 1].first
                 PROVE  frames'[b][i].last
      BY Zenon DEF EpisodesSeparated
    <2>1. CASE frames'[b] = << >> \/ frames'[b] = frames[b]
      BY SMTT(30), <2>1 DEF IInv, EpisodesSeparated
    <2>2. CASE frames'[b] = Kept(b)
      <3> DEFINE j == i + ToDelete
      <3>1. i \in 1 .. Len(Kept(b)) /\ i + 1 \in 1 .. Len(Kept(b)) /\ Len(Kept(b)) # 0
        BY SMTT(30), <2>2, KeptMeaning DEF IInv
      <3>2. Kept(b)[i] = frames[b][j] /\ Kept(b)[i + 1] = frames[b][i + 1 + ToDelete]
        BY Zenon, <3>1, KeptMeaning DEF IInv
      <3>3. /\ ToDelete \in Nat /\ Len(Kept(b)) \in Nat /\ i \in 1 .. Len(Kept(b)) - 1
            /\ Len(Kept(b)) + ToDelete = Len(frames[b])
        BY Zenon, <2>2, <3>1, KeptMeaning DEF IInv
      <3>4. i + 1 + ToDelete = j + 1 /\ j \in 1 .. Len(frames[b]) - 1
        BY <3>3
      <3> HIDE DEF j
      <3>5. QED
        BY Zenon, <2>2, <3>2, <3>4 DEF IInv, EpisodesSeparated
    <2>3. QED
      BY Zenon, <1>2, <2>1, <2>2
  <1>11. (OnPolicyFrames /\ OldAnswerFirst)'
    <2>1. CASE forceOnPolicy
      <3>1. \A b \in Buffers : Len(frames'[b]) = 0
        BY SMTT(30), <1>3, <2>1
      <3>2. \A g \in active' : pc'[g] = "act" => bufferOf'[g] \in Buffers
        BY Zenon, <1>1, <2>1 DEF IInv, TypeOK, BufferKnown, players, episodes
      <3>3. QED
        BY <3>1, <3>2 DEF OnPolicyFrames, OldAnswerFirst
    <2>2. CASE ~forceOnPolicy
      BY Zenon, <1>1, <2>2 DEF OnPolicyFrames, OldAnswerFirst, options
    <2>3. QED
      BY Zenon, <2>1, <2>2
  <1>12. QED
    BY Zenon, <1>6, <1>7, <1>8, <1>9, <1>10, <1>11 DEF IInv

\* reset() ends all episodes and clears all buffers.
LEMMA ResetStep ==
  ASSUME IInv, Reset
  PROVE  IInv'
  <1> USE SyncTrainerAssumption
  <1>1. /\ frames' = [b \in Buffers |-> << >>]
        /\ ready' = {} /\ active' = {} /\ main' = "resetNotify"
        /\ UNCHANGED <<players, bufferOf, size, lastUpdate, updateCount, updating, selected,
                       finish, options>>
    BY Zenon DEF Reset
  <1>2. TypeOK'
    <2>1. (frames \in [Buffers -> Seq(Frame)])'
      BY <1>1
    <2>2. (isDone \in [Buffers -> BOOLEAN] /\ owner \in [Buffers -> Games \cup {NoOwner}])'
      BY DEF Reset
    <2>3. QED
      BY Zenon, <1>1, <2>1, <2>2 DEF IInv, TypeOK, MainPC, players, options
  <1>3. \A b \in Buffers : Len(frames'[b]) = 0
    BY Zenon, <1>1
  <1>4. (CutWhereFree /\ EpisodesSeparated /\ OnPolicyFrames)'
    <2>1. CutWhereFree'
      BY Zenon, <1>1, <1>3 DEF CutWhereFree, Cut
    <2>2. \A b \in Buffers : 1 .. Len(frames'[b]) - 1 = {} /\ 2 .. Len(frames'[b]) = {}
      BY <1>3
    <2>3. EpisodesSeparated' /\ OnPolicyFrames'
      BY Zenon, <2>2 DEF EpisodesSeparated, OnPolicyFrames
    <2>4. QED
      BY Zenon, <2>1, <2>3
  <1>5. (OwnsBuffer /\ ReadyFull /\ BufferKnown /\ OldAnswerFirst /\ WaitersNotified)'
    BY Zenon, <1>1 DEF OwnsBuffer, ReadyFull, BufferKnown, OldAnswerFirst, WaitersNotified
  <1>6. Idle'
    BY Zenon, <1>1 DEF IInv, Idle, players
  <1>7. QED
    BY Zenon, <1>2, <1>4, <1>5, <1>6 DEF IInv

-----------------------------------------------------------------------------

\* The inductive invariant holds in every reachable state, whatever order the game threads'
\* forward() and step(), forced stops, update() and reset() come in.
THEOREM Invariance == Spec => []IInv
  <1>1. IInv /\ UNCHANGED vars => IInv'
    <2> SUFFICES ASSUME IInv, UNCHANGED vars PROVE IInv'
      BY Zenon
    <2> USE DEF vars, options, players, episodes, buffers, trainer
    <2>1. TypeOK'
      BY Zenon DEF IInv, TypeOK
    <2>2. (Idle /\ OwnsBuffer /\ ReadyFull /\ CutWhereFree)'
      BY Zenon DEF IInv, Idle, OwnsBuffer, ReadyFull, CutWhereFree, Cut
    <2>3. (EpisodesSeparated /\ BufferKnown /\ OldAnswerFirst)'
      BY Zenon DEF IInv, EpisodesSeparated, BufferKnown, OldAnswerFirst
    <2>4. (OnPolicyFrames /\ WaitersNotified)'
      BY Zenon DEF IInv, OnPolicyFrames, WaitersNotified
    <2>5. QED
      BY Zenon, <2>1, <2>2, <2>3, <2>4 DEF IInv
  <1>2. IInv /\ Next => IInv'
    <2> SUFFICES ASSUME IInv, Next PROVE IInv'
      BY Zenon
    <2>1. ASSUME NEW g \in Games, Player(g) PROVE IInv'
      BY Zenon, <2>1, MoveStep, StartStep, EnterStep, FrameStep, ForceStopStep DEF Player
    <2>2. ASSUME Trainer PROVE IInv'
      <3>1. CASE DoUpdate
        BY Zenon, <3>1, DoUpdateStep
      <3>2. CASE Cleanup
        BY Zenon, <3>2, CleanupStep
      <3>3. CASE Reset
        BY Zenon, <3>3, ResetStep
      <3>4. CASE UpdateSelect \/ DoUpdateThrows \/ UpdateNotify \/ Finish \/ ResetNotify \/ Join
        BY Zenon, <3>4, TrainerMoveStep
      <3>5. QED
        BY Zenon, <2>2, <3>1, <3>2, <3>3, <3>4 DEF Trainer
    <2>3. QED
      BY Zenon, <2>1, <2>2 DEF Next
  <1>3. QED
    BY <1>1, <1>2, InitIInv, PTL DEF Spec

\* No internal check of SyncTrainer fails: an episode never finds its buffer owned by
\* another one, and a buffer that is ready holds returnsLength_ frames.
THEOREM InternalChecks == Spec => []NoInternalError
  <1>1. IInv => NoInternalError
    BY Zenon DEF IInv, NoInternalError
  <1>2. QED
    BY <1>1, Invariance, PTL

\* Where the frames of two episodes meet in a buffer, the earlier one was finished.
THEOREM EpisodeBoundaries == Spec => []EpisodesSeparated
  <1>1. IInv => EpisodesSeparated
    BY Zenon DEF IInv
  <1>2. QED
    BY <1>1, Invariance, PTL

\* On-policy updates see frames of the current model, but for the first of a buffer.
THEOREM OnPolicy == Spec => []OnPolicyFrames
  <1>1. IInv => OnPolicyFrames
    BY Zenon DEF IInv
  <1>2. QED
    BY <1>1, Invariance, PTL

\* A thread blocked in forward() waits for a buffer that is ready, or for a notification
\* that is under way.
THEOREM NoStrandedWaiter == Spec => []WaitersNotified
  <1>1. IInv => WaitersNotified
    BY Zenon DEF IInv
  <1>2. QED
    BY <1>1, Invariance, PTL

=============================================================================

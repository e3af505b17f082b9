---------------------------- MODULE PriorityMutex ---------------------------
(***************************************************************************)
(* priority_mutex of cpid/prioritymutex.h: a mutex whose waiters are       *)
(* served by priority.  A caller of lock(prio) registers itself in         *)
(* queueCount_ (under queueMutex_), takes dataMutex_ and then waits on     *)
(* queueCV_ until no caller of a higher priority is registered.  One step  *)
(* of a thread is one section under queueMutex_ or one operation on        *)
(* dataMutex_ or queueCV_; the place of a thread says how far it has come  *)
(* in lock() and unlock():                                                 *)
(*                                                                         *)
(*   idle     outside the mutex                                            *)
(*   queued   registered, about to take dataMutex_                         *)
(*   check    holds dataMutex_, about to evaluate canGo(prio)              *)
(*   waiting  blocked in queueCV_.wait, dataMutex_ released                *)
(*   woken    notified, about to take dataMutex_ again                     *)
(*   leave    canGo(prio) was true, about to leave the queue               *)
(*   cs       lock() or try_lock() has returned to the caller              *)
(*   notify   unlock() has released dataMutex_, about to notify_all        *)
(***************************************************************************)
EXTENDS Integers, FiniteSets

CONSTANTS
  Threads,    \* the threads sharing the mutex
  MaxPrio,    \* maxPrio_: priorities are 0..MaxPrio
  NoThread    \* dataMutex_ is free

ASSUME ThreadsAssumption == IsFiniteSet(Threads) /\ NoThread \notin Threads
ASSUME MaxPrioAssumption == MaxPrio \in Nat

VARIABLES
  place,       \* where each thread is
  prio,        \* the priority each thread gave in its last call
  queueCount,  \* queueCount_: registered callers per priority
  dataMutex,   \* the owner of dataMutex_
  overtaken    \* history: per registered thread, the lower-priority callers
               \* that lock() let in since it registered

mutexVars == <<place, prio, queueCount, dataMutex, overtaken>>

Prios == 0 .. MaxPrio

Places == {"idle", "queued", "check", "waiting", "woken", "leave", "cs", "notify"}

\* Threads counted in queueCount_.
Registered == {"queued", "check", "waiting", "woken", "leave"}

MutexInit ==
  /\ place = [t \in Threads |-> "idle"]
  /\ prio = [t \in Threads |-> 0]
  /\ queueCount = [p \in Prios |-> 0]
  /\ dataMutex = NoThread
  /\ overtaken = [t \in Threads |-> 0]

Move(t, from, to) ==
  /\ place[t] = from
  /\ place' = [place EXCEPT ![t] = to]

-----------------------------------------------------------------------------

LockRegister(t, p) ==
  /\ Move(t, "idle", "queued")
  /\ prio' = [prio EXCEPT ![t] = p]
  /\ queueCount' = [queueCount EXCEPT ![p] = @ + 1]
  /\ overtaken' = [overtaken EXCEPT ![t] = 0]
  /\ UNCHANGED dataMutex

\* Mutant: a second permanent_lock that does not wait for the first.
TakeDataMutexUnchecked(t) ==
  /\ Move(t, "queued", "check") \/ Move(t, "woken", "check")
  /\ dataMutex' = t
  /\ UNCHANGED <<prio, queueCount, overtaken>>

\* permanent_lock's constructor, or the re-acquisition at the end of a wait.
TakeDataMutex(t) ==
  /\ dataMutex = NoThread
  /\ Move(t, "queued", "check") \/ Move(t, "woken", "check")
  /\ dataMutex' = t
  /\ UNCHANGED <<prio, queueCount, overtaken>>

CanGo(p) == \A q \in Prios : q > p => queueCount[q] = 0

\* Mutant: lock() without the wait for higher priorities.
CheckPassesAlways(t) ==
  /\ Move(t, "check", "leave")
  /\ UNCHANGED <<prio, queueCount, dataMutex, overtaken>>

CheckPasses(t) ==
  /\ CanGo(prio[t])
  /\ Move(t, "check", "leave")
  /\ UNCHANGED <<prio, queueCount, dataMutex, overtaken>>

\* queueCV_.wait releases dataMutex_ and blocks in one step.
CheckWaits(t) ==
  /\ ~CanGo(prio[t])
  /\ Move(t, "check", "waiting")
  /\ dataMutex' = NoThread
  /\ UNCHANGED <<prio, queueCount, overtaken>>

SpuriousWakeup(t) ==
  /\ Move(t, "waiting", "woken")
  /\ UNCHANGED <<prio, queueCount, dataMutex, overtaken>>

LockReturns(t) ==
  /\ Move(t, "leave", "cs")
  /\ queueCount' = [queueCount EXCEPT ![prio[t]] = @ - 1]
  /\ overtaken' = [h \in Threads |->
                     IF place[h] \in Registered /\ prio[h] > prio[t]
                       THEN overtaken[h] + 1
                       ELSE overtaken[h]]
  /\ UNCHANGED <<prio, dataMutex>>

\* try_lock ignores the queue; a call that finds dataMutex_ taken has no effect.
TryLock(t, p) ==
  /\ dataMutex = NoThread
  /\ Move(t, "idle", "cs")
  /\ dataMutex' = t
  /\ prio' = [prio EXCEPT ![t] = p]
  /\ UNCHANGED <<queueCount, overtaken>>

Unlock(t) ==
  /\ Move(t, "cs", "notify")
  /\ dataMutex' = NoThread
  /\ UNCHANGED <<prio, queueCount, overtaken>>

\* Mutant: unlock() with notify_one.
NotifyOne(t) ==
  /\ place[t] = "notify"
  /\ \/ /\ \A s \in Threads : place[s] # "waiting"
        /\ place' = [place EXCEPT ![t] = "idle"]
     \/ \E s \in Threads : /\ place[s] = "waiting"
                           /\ place' = [place EXCEPT ![t] = "idle", ![s] = "woken"]
  /\ UNCHANGED <<prio, queueCount, dataMutex, overtaken>>

\* Mutant: unlock() without the notification.
NotifyNobody(t) ==
  /\ Move(t, "notify", "idle")
  /\ UNCHANGED <<prio, queueCount, dataMutex, overtaken>>

NotifyAll(t) ==
  /\ place[t] = "notify"
  /\ place' = [s \in Threads |-> IF s = t THEN "idle"
                                 ELSE IF place[s] = "waiting" THEN "woken"
                                 ELSE place[s]]
  /\ UNCHANGED <<prio, queueCount, dataMutex, overtaken>>

-----------------------------------------------------------------------------

ThreadStep(t) ==
  \/ TakeDataMutex(t)
  \/ CheckPasses(t)
  \/ CheckWaits(t)
  \/ LockReturns(t)
  \/ Unlock(t)
  \/ NotifyAll(t)

MutexNext ==
  \E t \in Threads :
    \/ \E p \in Prios : LockRegister(t, p) \/ TryLock(t, p)
    \/ SpuriousWakeup(t)
    \/ ThreadStep(t)

MutexSpec == MutexInit /\ [][MutexNext]_mutexVars

\* A thread inside lock() or unlock(), or holding the lock, keeps running, and
\* spurious wakeups do not go on forever.  Nobody has to call lock().  Nothing is
\* assumed of who gets dataMutex_: std::mutex promises no order.
MutexFairSpec ==
  /\ MutexSpec
  /\ \A t \in Threads : WF_mutexVars(ThreadStep(t))
  /\ <>[][\A t \in Threads : ~SpuriousWakeup(t)]_mutexVars

-----------------------------------------------------------------------------

\* The types; no queue count drops below zero (prioritymutex.h:66, 73).
MutexTypeOK ==
  /\ place \in [Threads -> Places]
  /\ prio \in [Threads -> Prios]
  /\ queueCount \in [Prios -> Nat]
  /\ dataMutex \in Threads \cup {NoThread}
  /\ overtaken \in [Threads -> Nat]

\* dataMutex_ is owned by exactly the thread that is past its acquisition.
OwnerConsistent ==
  \A t \in Threads : dataMutex = t <=> place[t] \in {"check", "leave", "cs"}

\* lock(), try_lock() and unlock() together never let two threads in.
MutualExclusion ==
  \A s, t \in Threads : place[s] = "cs" /\ place[t] = "cs" => s = t

\* queueCount_ is exact: a registration is undone once per lock(), however
\* often the caller was woken and went back to sleep.
CountsRegistered ==
  \A p \in Prios :
    queueCount[p] = Cardinality({t \in Threads : place[t] \in Registered /\ prio[t] = p})

\* No wakeup is lost: whenever a caller sleeps on queueCV_, somebody will still
\* pass through unlock()'s notify_all, namely a thread already let in or on its
\* way out, or a registered caller of a higher priority.
NoLostWakeup ==
  \A t \in Threads : place[t] = "waiting" =>
    \E s \in Threads : \/ place[s] \in {"leave", "cs", "notify"}
                       \/ place[s] \in Registered /\ prio[s] > prio[t]

\* The class comment's guarantee that the highest priority goes first, as the
\* code keeps it: a registered caller is overtaken by at most one caller of a
\* lower priority, the one whose canGo() came before the registration.
OvertakenOnce ==
  \A t \in Threads : place[t] \in Registered => overtaken[t] <= 1

\* Whenever a caller is inside lock(), somebody gets the mutex later on: the
\* callers of lock() never all sleep on queueCV_ at once.
Progress ==
  (\E t \in Threads : place[t] \in Registered) ~> (\E t \in Threads : place[t] = "cs")

\* The mutex implements the plain one its users assume.
AbstractMutex == INSTANCE Mutex WITH inside <- {t \in Threads : place[t] = "cs"}
ImplementsMutex == AbstractMutex!Spec
=============================================================================

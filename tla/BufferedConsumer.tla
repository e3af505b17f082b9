-------------------------- MODULE BufferedConsumer --------------------------
(***************************************************************************)
(* BufferedConsumer of common/parallel.h: a bounded work queue.  Callers   *)
(* add items with enqueue() or enqueueOrReplaceOldest() and can wait()     *)
(* until all work is done; consumer threads take items and run fn_ on      *)
(* them; the destructor stops the threads.  Without threads enqueue() runs *)
(* fn_ itself.                                                             *)
(*                                                                         *)
(* One step is one section under mutex_ (the evaluation of a condition     *)
(* variable's predicate included) or one notification outside of it.       *)
(* Items are numbered in the order in which they enter the queue.          *)
(***************************************************************************)
EXTENDS Integers, Sequences, FiniteSets

CONSTANTS
  Consumers,     \* threads that may be consumers
  Pools,         \* the sets of threads that the constructor may be asked for
  Callers,       \* threads that call enqueue() and wait()
  MaxQueueSize,  \* maxQueueSize_
  MaxItems,      \* bound: items given to the queue in a behaviour
  FnThrows       \* whether fn_ may throw

\* The constructor refuses an empty queue with threads.
ASSUME ConsumerAssumption ==
  /\ IsFiniteSet(Consumers)
  /\ Pools \subseteq SUBSET Consumers
  /\ MaxQueueSize \in Nat /\ MaxItems \in Nat
  /\ Pools \subseteq {{}} \/ MaxQueueSize > 0
  /\ FnThrows \in BOOLEAN

VARIABLES
  threads,    \* threads_, fixed by the constructor
  queue,      \* queue_
  stop,       \* stop_
  consuming,  \* consuming_
  cpc,        \* consumer: "check" the predicate, "blocked" in itemReady_.wait,
              \* "consume" (in fn_), "exit" (ended, or not in threads_)
  hand,       \* the item a consumer is working on, 0 for none
  ppc,        \* caller: "idle", "enqueue", "full" (blocked in enqueue),
              \* "notify" (about to notify), "wait", "waiting" (blocked in wait)
  owner,      \* destructor: "alive", "ready" and "done" (about to notify
              \* itemReady_, itemDone_), "join", "dead"
  items,      \* number of items that entered the queue
  finished,   \* items fn_ was called on and returned or threw
  dropped,    \* items enqueueOrReplaceOldest() removed
  awaited     \* history: the number of items when a caller called wait()

vars == <<threads, queue, stop, consuming, cpc, hand, ppc, owner, items, finished,
          dropped, awaited>>

Items == 1 .. MaxItems

Init ==
  /\ threads \in Pools
  /\ queue = << >>
  /\ stop = FALSE
  /\ consuming = 0
  /\ cpc = [c \in Consumers |-> IF c \in threads THEN "check" ELSE "exit"]
  /\ hand = [c \in Consumers |-> 0]
  /\ ppc = [p \in Callers |-> "idle"]
  /\ owner = "alive"
  /\ items = 0
  /\ finished = {}
  /\ dropped = {}
  /\ awaited = [p \in Callers |-> 0]

-----------------------------------------------------------------------------
(* Notifications.                                                           *)

BlockedConsumers == {c \in Consumers : cpc[c] = "blocked"}

\* itemReady_.notify_one(): one blocked consumer, if there is one, wakes.
NotifyReadyOne ==
  \/ \E c \in BlockedConsumers : cpc' = [cpc EXCEPT ![c] = "check"]
  \/ BlockedConsumers = {} /\ UNCHANGED cpc

\* Mutant: nobody is notified.
NotifyDoneNobody(pcs) == pcs

\* itemDone_.notify_all(): all callers blocked in enqueue() and wait() wake.
NotifyDoneAll(pcs) ==
  [p \in Callers |-> CASE pcs[p] = "full"    -> "enqueue"
                       [] pcs[p] = "waiting" -> "wait"
                       [] OTHER              -> pcs[p]]

-----------------------------------------------------------------------------
(* Callers.                                                                 *)

\* Bound: items already queued or in the hands of a caller of enqueue().
MoreItems ==
  items + Cardinality({p \in Callers : ppc[p] \in {"enqueue", "full"}}) < MaxItems

Call(p, place) ==
  /\ owner = "alive"
  /\ ppc[p] = "idle"
  /\ place = "enqueue" => MoreItems
  /\ ppc' = [ppc EXCEPT ![p] = place]
  /\ awaited' = [awaited EXCEPT ![p] = items]
  /\ UNCHANGED <<threads, queue, stop, consuming, cpc, hand, owner, items, finished,
                 dropped>>

HasRoom == Len(queue) < MaxQueueSize

\* enqueue() with threads: the wait on itemDone_, then the push.
Enqueue(p) ==
  /\ threads # {}
  /\ ppc[p] = "enqueue"
  /\ \/ /\ stop                             \* throws
        /\ ppc' = [ppc EXCEPT ![p] = "idle"]
        /\ UNCHANGED <<queue, items>>
     \/ /\ ~stop /\ ~HasRoom
        /\ ppc' = [ppc EXCEPT ![p] = "full"]
        /\ UNCHANGED <<queue, items>>
     \/ /\ ~stop /\ HasRoom
        /\ items' = items + 1
        /\ queue' = Append(queue, items + 1)
        /\ ppc' = [ppc EXCEPT ![p] = "notify"]
  /\ UNCHANGED <<threads, stop, consuming, cpc, hand, owner, finished, dropped,
                 awaited>>

\* Mutant: the newest element is replaced.
EnqueueOrReplaceNewest(p) ==
  /\ owner = "alive"
  /\ threads # {}
  /\ ppc[p] = "idle"
  /\ ~stop
  /\ MoreItems
  /\ items' = items + 1
  /\ queue' = Append(IF HasRoom THEN queue ELSE SubSeq(queue, 1, Len(queue) - 1), items + 1)
  /\ dropped' = IF HasRoom THEN dropped ELSE dropped \cup {queue[Len(queue)]}
  /\ ppc' = [ppc EXCEPT ![p] = "notify"]
  /\ UNCHANGED <<threads, stop, consuming, cpc, hand, owner, finished, awaited>>

\* enqueueOrReplaceOldest(); when stop_ is set it throws and nothing changes.
EnqueueOrReplaceOldest(p) ==
  /\ owner = "alive"
  /\ threads # {}
  /\ ppc[p] = "idle"
  /\ ~stop
  /\ MoreItems
  /\ items' = items + 1
  /\ queue' = Append(IF HasRoom THEN queue ELSE Tail(queue), items + 1)
  /\ dropped' = IF HasRoom THEN dropped ELSE dropped \cup {Head(queue)}
  /\ ppc' = [ppc EXCEPT ![p] = "notify"]
  /\ UNCHANGED <<threads, stop, consuming, cpc, hand, owner, finished, awaited>>

\* Mutant: the notification is forgotten.
NotifyReadyForgotten(p) ==
  /\ ppc[p] = "notify"
  /\ ppc' = [ppc EXCEPT ![p] = "idle"]
  /\ UNCHANGED <<threads, queue, stop, consuming, cpc, hand, owner, items, finished, dropped,
                 awaited>>

\* itemReady_.notify_one() after mutex_ is released.
NotifyReady(p) ==
  /\ ppc[p] = "notify"
  /\ ppc' = [ppc EXCEPT ![p] = "idle"]
  /\ NotifyReadyOne
  /\ UNCHANGED <<threads, queue, stop, consuming, hand, owner, items, finished, dropped,
                 awaited>>

\* enqueue() without threads: fn_ runs under mutex_.  When it throws,
\* consuming_-- and the notification are skipped.
EnqueueDirect(p) ==
  /\ threads = {}
  /\ ppc[p] = "enqueue"
  /\ \/ /\ stop                             \* throws
        /\ ppc' = [ppc EXCEPT ![p] = "idle"]
        /\ UNCHANGED <<items, finished, consuming>>
     \/ /\ ~stop
        /\ items' = items + 1
        /\ finished' = finished \cup {items + 1}
        /\ \/ ppc' = [ppc EXCEPT ![p] = "notifyDone"] /\ UNCHANGED consuming
           \/ /\ FnThrows
              /\ ppc' = [ppc EXCEPT ![p] = "idle"]
              /\ consuming' = consuming + 1
  /\ UNCHANGED <<threads, queue, stop, cpc, hand, owner, dropped, awaited>>

NotifyDone(p) ==
  /\ ppc[p] = "notifyDone"
  /\ ppc' = NotifyDoneAll([ppc EXCEPT ![p] = "idle"])
  /\ UNCHANGED <<threads, queue, stop, consuming, cpc, hand, owner, items, finished,
                 dropped, awaited>>

\* Mutant: wait() does not look at the items being consumed.
WaitDoneEmpty == stop \/ queue = << >>

\* The predicate of wait().
WaitDone == stop \/ (queue = << >> /\ consuming = 0)

Wait(p) ==
  /\ ppc[p] = "wait"
  /\ ppc' = [ppc EXCEPT ![p] = IF WaitDone THEN "idle" ELSE "waiting"]
  /\ UNCHANGED <<threads, queue, stop, consuming, cpc, hand, owner, items, finished,
                 dropped, awaited>>

-----------------------------------------------------------------------------
(* Consumer threads: run().                                                 *)

\* Mutant: the item is copied and popped only after fn_ has returned.
TakeKeepsItem(c) ==
  /\ cpc[c] = "check"
  /\ \/ /\ stop
        /\ cpc' = [cpc EXCEPT ![c] = "exit"]
        /\ UNCHANGED <<queue, hand, consuming>>
     \/ /\ ~stop /\ queue = << >>
        /\ cpc' = [cpc EXCEPT ![c] = "blocked"]
        /\ UNCHANGED <<queue, hand, consuming>>
     \/ /\ ~stop /\ queue # << >>
        /\ hand' = [hand EXCEPT ![c] = Head(queue)]
        /\ consuming' = consuming + 1
        /\ cpc' = [cpc EXCEPT ![c] = "consume"]
        /\ UNCHANGED queue
  /\ UNCHANGED <<threads, stop, ppc, owner, items, finished, dropped, awaited>>

\* The predicate of itemReady_.wait and the section up to lock.unlock().
Take(c) ==
  /\ cpc[c] = "check"
  /\ \/ /\ stop
        /\ cpc' = [cpc EXCEPT ![c] = "exit"]
        /\ UNCHANGED <<queue, hand, consuming>>
     \/ /\ ~stop /\ queue = << >>
        /\ cpc' = [cpc EXCEPT ![c] = "blocked"]
        /\ UNCHANGED <<queue, hand, consuming>>
     \/ /\ ~stop /\ queue # << >>
        /\ hand' = [hand EXCEPT ![c] = Head(queue)]
        /\ queue' = Tail(queue)
        /\ consuming' = consuming + 1
        /\ cpc' = [cpc EXCEPT ![c] = "consume"]
  /\ UNCHANGED <<threads, stop, ppc, owner, items, finished, dropped, awaited>>

\* fn_ has returned: consuming_-- and notify_all under mutex_.
Consumed(c) ==
  /\ cpc[c] = "consume"
  /\ finished' = finished \cup {hand[c]}
  /\ hand' = [hand EXCEPT ![c] = 0]
  /\ consuming' = consuming - 1
  /\ cpc' = [cpc EXCEPT ![c] = "check"]
  /\ ppc' = NotifyDoneAll(ppc)
  /\ UNCHANGED <<threads, queue, stop, owner, items, dropped, awaited>>

-----------------------------------------------------------------------------
(* The destructor.                                                          *)

Stop ==
  /\ owner = "alive"
  /\ stop' = TRUE
  /\ owner' = "ready"
  /\ UNCHANGED <<threads, queue, consuming, cpc, hand, ppc, items, finished,
                 dropped, awaited>>

\* Mutant: the destructor wakes a single consumer.
StopNotifyReadyOne ==
  /\ owner = "ready"
  /\ NotifyReadyOne
  /\ owner' = "done"
  /\ UNCHANGED <<threads, queue, stop, consuming, hand, ppc, items, finished,
                 dropped, awaited>>

StopNotifyReady ==
  /\ owner = "ready"
  /\ cpc' = [c \in Consumers |-> IF cpc[c] = "blocked" THEN "check" ELSE cpc[c]]
  /\ owner' = "done"
  /\ UNCHANGED <<threads, queue, stop, consuming, hand, ppc, items, finished,
                 dropped, awaited>>

StopNotifyDone ==
  /\ owner = "done"
  /\ ppc' = NotifyDoneAll(ppc)
  /\ owner' = "join"
  /\ UNCHANGED <<threads, queue, stop, consuming, cpc, hand, items, finished,
                 dropped, awaited>>

Join ==
  /\ owner = "join"
  /\ \A c \in Consumers : cpc[c] = "exit"
  /\ owner' = "dead"
  /\ UNCHANGED <<threads, queue, stop, consuming, cpc, hand, ppc, items, finished, dropped,
                 awaited>>

-----------------------------------------------------------------------------

\* A condition variable may wake a thread for no reason.
Spurious ==
  /\ \/ /\ UNCHANGED ppc
        /\ \E c \in BlockedConsumers : cpc' = [cpc EXCEPT ![c] = "check"]
     \/ /\ UNCHANGED cpc
        /\ \E p \in Callers : /\ ppc[p] \in {"full", "waiting"}
                              /\ ppc' = [ppc EXCEPT ![p] =
                                   IF @ = "full" THEN "enqueue" ELSE "wait"]
  /\ UNCHANGED <<threads, queue, stop, consuming, hand, owner, items, finished,
                 dropped, awaited>>

\* The steps of a call that has started.
CallerStep(p) ==
  Enqueue(p) \/ NotifyReady(p) \/ EnqueueDirect(p) \/ NotifyDone(p) \/ Wait(p)

ConsumerStep(c) == Take(c) \/ Consumed(c)

Destroy == StopNotifyReady \/ StopNotifyDone \/ Join

\* The calls in flight have returned and no more can be made.
Done ==
  /\ owner = "dead"
  /\ \A p \in Callers : ppc[p] = "idle"
  /\ UNCHANGED vars

Next ==
  \/ \E p \in Callers : \/ Call(p, "enqueue") \/ Call(p, "wait")
                        \/ EnqueueOrReplaceOldest(p)
                        \/ CallerStep(p)
  \/ \E c \in Consumers : ConsumerStep(c)
  \/ Stop \/ Destroy
  \/ Spurious
  \/ Done

Spec == Init /\ [][Next]_vars

\* Threads keep running; fn_ returns.
FairSpec ==
  /\ Spec
  /\ \A p \in Callers : WF_vars(CallerStep(p))
  /\ \A c \in Consumers : WF_vars(ConsumerStep(c))
  /\ WF_vars(Destroy)

-----------------------------------------------------------------------------

Places == {"idle", "enqueue", "full", "notify", "notifyDone", "wait", "waiting"}

\* The types of the variables.
TypeOK ==
  /\ threads \in Pools
  /\ queue \in Seq(Items)
  /\ stop \in BOOLEAN
  /\ consuming \in 0 .. MaxItems
  /\ cpc \in [Consumers -> {"check", "blocked", "consume", "exit"}]
  /\ hand \in [Consumers -> Items \cup {0}]
  /\ ppc \in [Callers -> Places]
  /\ owner \in {"alive", "ready", "done", "join", "dead"}
  /\ items \in 0 .. MaxItems
  /\ finished \subseteq Items
  /\ dropped \subseteq Items
  /\ awaited \in [Callers -> 0 .. MaxItems]

Queued == {queue[i] : i \in DOMAIN queue}
InHand == {hand[c] : c \in Consumers} \ {0}

\* Every item that entered the queue is in exactly one place: queued, in the hands
\* of exactly one consumer, finished, or replaced by a newer one
\* (parallel.h:163-238).  consuming_ counts the items in hand.
ExactlyOnce ==
  /\ Queued \cup InHand \cup finished \cup dropped = 1 .. items
  /\ Len(queue) + consuming + Cardinality(finished) + Cardinality(dropped) = items
  /\ threads # {} => consuming = Cardinality({c \in Consumers : hand[c] # 0})

\* The queue never grows beyond maxQueueSize_, and items leave it oldest first, to a
\* consumer as well as through enqueueOrReplaceOldest() (parallel.h:168, 200-204,
\* 222-223).
BoundedFifo ==
  /\ Len(queue) <= MaxQueueSize
  /\ \A i, j \in DOMAIN queue : i < j => queue[i] < queue[j]
  /\ \A i \in Queued : \A j \in InHand \cup finished \cup dropped : j < i

\* wait() returns only when all items that were queued before the call have been
\* consumed or replaced, unless the consumers are stopped (parallel.h:155-160).
WaitMeansDone ==
  [][\A p \in Callers :
       ppc[p] = "wait" /\ ppc'[p] = "idle" /\ ~stop
         => 1 .. awaited[p] \subseteq finished \cup dropped]_vars

\* Every item is consumed, replaced, or discarded by the destructor.
EveryItemHandled ==
  \A i \in Items : (i <= items) ~> (i \in finished \cup dropped \/ stop)

\* Every call of enqueue() and wait() returns: no notification on itemDone_ is
\* missed (parallel.h:147-148, 158-159, 167-168, 236).
EveryCallReturns == \A p \in Callers : (ppc[p] # "idle") ~> (ppc[p] = "idle")

\* The destructor joins all consumers (parallel.h:142-152).
DestructorReturns == (owner = "ready") ~> (owner = "dead")

=============================================================================

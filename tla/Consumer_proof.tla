--------------------------- MODULE Consumer_proof ---------------------------
(***************************************************************************)
(* The theorems of BufferedConsumer and of the ZeroMQBufferedConsumer that *)
(* is built on two of them.  The safety properties of BufferedConsumer     *)
(* hold for any number of threads, callers and items and for every         *)
(* maxQueueSize_, as long as fn_ does not throw: without threads, a call   *)
(* of fn_ that throws leaves consuming_ raised.  Those of                  *)
(* ZmqBufferedConsumer hold for any number of items and requests and for   *)
(* every maxConcurrentRequests_.                                           *)
(***************************************************************************)
EXTENDS BufferedConsumer, ZmqBufferedConsumer, FiniteSetTheorems, TLAPS

(* BufferedConsumer. *)

\* The types, without the bound on the number of items.
TypeInv ==
  /\ threads \in Pools
  /\ queue \in Seq(Nat)
  /\ stop \in BOOLEAN
  /\ consuming \in Nat
  /\ cpc \in [Consumers -> {"check", "blocked", "consume", "exit"}]
  /\ hand \in [Consumers -> Nat]
  /\ ppc \in [Callers -> Places]
  /\ items \in Nat
  /\ IsFiniteSet(finished) /\ IsFiniteSet(dropped)
  /\ awaited \in [Callers -> Nat]
  /\ \A p \in Callers : awaited[p] <= items

Busy == {c \in Consumers : hand[c] # 0}

\* The queue holds the newest items, in the order of their numbers, and the other
\* places hold all the older ones.
QueueIsNewest ==
  /\ Len(queue) <= items /\ Len(queue) <= MaxQueueSize
  /\ \A i \in 1 .. Len(queue) : queue[i] = items - Len(queue) + i
  /\ InHand \cup finished \cup dropped = 1 .. (items - Len(queue))

\* No item is in hand twice, or in hand and finished.
HandsSeparate ==
  /\ \A c \in Consumers : hand[c] \notin finished \/ hand[c] = 0
  /\ \A c, d \in Consumers : hand[c] = hand[d] => c = d \/ hand[c] = 0

\* The items in hand are those of the threads in fn_; without threads nothing is queued.
WorkersBusy ==
  /\ \A c \in Consumers : cpc[c] = "consume" <=> hand[c] # 0
  /\ threads = {} => queue = << >> /\ \A c \in Consumers : cpc[c] = "exit"

\* The counters.
Counted ==
  /\ Len(queue) + consuming + Cardinality(finished) + Cardinality(dropped) = items
  /\ threads # {} => consuming = Cardinality(Busy)

\* The inductive invariant.  QueueIsNewest is what makes a taken or replaced item one
\* that is nowhere else, which the counts of Counted need.
IInv == TypeInv /\ QueueIsNewest /\ HandsSeparate /\ WorkersBusy /\ Counted

-----------------------------------------------------------------------------

\* The initial state satisfies the invariant.
LEMMA InitIInv == Init => IInv
  <1> SUFFICES ASSUME Init PROVE IInv
    BY Zenon
  <1> USE ConsumerAssumption DEF Init
  <1>1. Busy = {} /\ InHand = {}
    BY Zenon DEF Busy, InHand
  <1>2. Cardinality({}) = 0 /\ IsFiniteSet({})
    BY Zenon, FS_EmptySet
  <1>3. TypeInv
    <2>1. cpc \in [Consumers -> {"check", "blocked", "consume", "exit"}]
      BY Zenon
    <2>2. ppc \in [Callers -> Places] /\ hand \in [Consumers -> Nat] /\ queue \in Seq(Nat)
      BY DEF Places
    <2>3. awaited \in [Callers -> Nat] /\ \A p \in Callers : awaited[p] <= items
      OBVIOUS
    <2>4. threads \in Pools /\ stop \in BOOLEAN /\ consuming \in Nat /\ items \in Nat
      BY Zenon
    <2>5. IsFiniteSet(finished) /\ IsFiniteSet(dropped)
      BY Zenon, <1>2
    <2>6. QED
      BY Zenon, <2>1, <2>2, <2>3, <2>4, <2>5 DEF TypeInv
  <1>4. QueueIsNewest /\ HandsSeparate /\ WorkersBusy
    BY <1>1 DEF QueueIsNewest, HandsSeparate, WorkersBusy
  <1>5. Counted
    BY <1>1, <1>2 DEF Counted
  <1>6. QED
    BY Zenon, <1>3, <1>4, <1>5 DEF IInv

\* The steps that only move threads and callers keep the invariant.
LEMMA MoveStep ==
  ASSUME IInv,
         UNCHANGED <<threads, queue, consuming, hand, items, finished, dropped>>,
         stop' \in BOOLEAN,
         ppc' \in [Callers -> Places],
         awaited' \in [Callers -> Nat], \A p \in Callers : awaited'[p] <= items,
         cpc' \in [Consumers -> {"check", "blocked", "consume", "exit"}],
         \A c \in Consumers : /\ cpc'[c] = "consume" <=> cpc[c] = "consume"
                              /\ cpc[c] = "exit" => cpc'[c] = "exit"
  PROVE  IInv'
  BY DEF IInv, TypeInv, QueueIsNewest, HandsSeparate, WorkersBusy, Counted, Busy, InHand

\* A consumer that wakes only looks at its predicate again.
LEMMA WakeConsumer ==
  ASSUME cpc \in [Consumers -> {"check", "blocked", "consume", "exit"}],
         (\E c \in BlockedConsumers : cpc' = [cpc EXCEPT ![c] = "check"]) \/ cpc' = cpc
  PROVE  /\ cpc' \in [Consumers -> {"check", "blocked", "consume", "exit"}]
         /\ \A c \in Consumers : /\ cpc'[c] = "consume" <=> cpc[c] = "consume"
                                 /\ cpc[c] = "exit" => cpc'[c] = "exit"
  <1>1. CASE cpc' = cpc
    BY Zenon, <1>1
  <1>2. ASSUME NEW d \in Consumers, cpc[d] = "blocked", cpc' = [cpc EXCEPT ![d] = "check"]
        PROVE  /\ cpc' \in [Consumers -> {"check", "blocked", "consume", "exit"}]
               /\ \A c \in Consumers : /\ cpc'[c] = "consume" <=> cpc[c] = "consume"
                                       /\ cpc[c] = "exit" => cpc'[c] = "exit"
    <2>1. cpc' \in [Consumers -> {"check", "blocked", "consume", "exit"}]
      BY Zenon, <1>2
    <2>2. \A c \in Consumers : cpc'[c] = IF c = d THEN "check" ELSE cpc[c]
      BY Zenon, <1>2
    <2>3. QED
      BY Zenon, <1>2, <2>1, <2>2
  <1>3. QED
    BY Zenon, <1>1, <1>2 DEF BlockedConsumers

\* A notification of itemDone_ only moves callers.
LEMMA NotifyDoneType ==
  ASSUME NEW pcs \in [Callers -> Places] PROVE NotifyDoneAll(pcs) \in [Callers -> Places]
  BY Zenon DEF NotifyDoneAll, Places

-----------------------------------------------------------------------------
(* Items. *)

\* An item is queued behind the others.
LEMMA PushStep ==
  ASSUME IInv, threads # {}, HasRoom, NEW p \in Callers,
         items' = items + 1,
         queue' = Append(queue, items + 1),
         ppc' = [ppc EXCEPT ![p] = "notify"],
         UNCHANGED <<threads, stop, consuming, cpc, hand, finished, dropped, awaited>>
  PROVE  IInv'
  <1> USE ConsumerAssumption
  <1>1. queue \in Seq(Nat) /\ items \in Nat /\ Len(queue) \in Nat
    BY DEF IInv, TypeInv
  <1>2. /\ queue' \in Seq(Nat) /\ Len(queue') = Len(queue) + 1
        /\ \A i \in 1 .. Len(queue) : queue'[i] = queue[i]
        /\ queue'[Len(queue) + 1] = items + 1
    BY <1>1
  <1>3. TypeInv'
    BY <1>2 DEF IInv, TypeInv, Places
  <1>4. QueueIsNewest'
    <2>1. Len(queue') <= items' /\ Len(queue') <= MaxQueueSize
      BY <1>1, <1>2 DEF IInv, QueueIsNewest, HasRoom
    <2>2. \A i \in 1 .. Len(queue') : queue'[i] = items' - Len(queue') + i
      <3> TAKE i \in 1 .. Len(queue')
      <3>1. CASE i \in 1 .. Len(queue)
        <4>1. queue'[i] = items - Len(queue) + i
          BY Zenon, <1>2, <3>1 DEF IInv, QueueIsNewest
        <4>2. QED
          BY <1>1, <1>2, <4>1
      <3>2. CASE i = Len(queue) + 1
        BY <1>1, <1>2, <3>2
      <3>3. QED
        BY <1>1, <1>2, <3>1, <3>2
    <2>3. InHand' = InHand /\ items' - Len(queue') = items - Len(queue)
      BY <1>1, <1>2 DEF InHand
    <2>4. QED
      BY Zenon, <2>1, <2>2, <2>3 DEF IInv, QueueIsNewest
  <1>5. (HandsSeparate /\ WorkersBusy)'
    BY Zenon DEF IInv, HandsSeparate, WorkersBusy
  <1>6. Counted'
    <2>1. Cardinality(finished) \in Nat /\ Cardinality(dropped) \in Nat
      BY Zenon, FS_CardinalityType DEF IInv, TypeInv
    <2>2. QED
      BY SMTT(30), <1>1, <1>2, <2>1 DEF IInv, TypeInv, Counted, Busy
  <1>7. QED
    BY Zenon, <1>3, <1>4, <1>5, <1>6 DEF IInv

\* The oldest item of the queue is the number after all the items that have left it.
LEMMA HeadMeaning ==
  ASSUME IInv, queue # << >>
  PROVE  /\ Head(queue) = items - Len(queue) + 1
         /\ Head(queue) \in Nat \ {0}
         /\ Head(queue) \notin InHand \cup finished \cup dropped
         /\ Len(queue) \in Nat \ {0}
         /\ Tail(queue) \in Seq(Nat)
         /\ Len(Tail(queue)) = Len(queue) - 1
         /\ \A i \in 1 .. Len(Tail(queue)) : Tail(queue)[i] = items - Len(Tail(queue)) + i
         /\ 1 .. (items - Len(Tail(queue))) = (1 .. (items - Len(queue))) \cup {Head(queue)}
  <1>1. queue \in Seq(Nat) /\ items \in Nat /\ Len(queue) \in Nat \ {0} /\ Len(queue) <= items
    BY DEF IInv, TypeInv, QueueIsNewest
  <1>2. Tail(queue) \in Seq(Nat) /\ Len(Tail(queue)) = Len(queue) - 1
    BY <1>1
  <1>3. Head(queue) = items - Len(queue) + 1
    <2>1. Head(queue) = queue[1] /\ 1 \in 1 .. Len(queue)
      BY <1>1
    <2>2. QED
      BY Zenon, <1>1, <2>1 DEF IInv, QueueIsNewest
  <1>4. ASSUME NEW i \in 1 .. Len(Tail(queue))
        PROVE  Tail(queue)[i] = items - Len(Tail(queue)) + i
    <2>1. Tail(queue)[i] = queue[i + 1] /\ i + 1 \in 1 .. Len(queue)
      BY <1>1, <1>2
    <2>2. queue[i + 1] = items - Len(queue) + (i + 1)
      BY Zenon, <2>1 DEF IInv, QueueIsNewest
    <2>3. QED
      BY <1>1, <1>2, <2>1, <2>2
  <1>5. Head(queue) \notin InHand \cup finished \cup dropped
    <2>1. Head(queue) \notin 1 .. (items - Len(queue))
      BY <1>1, <1>3
    <2>2. QED
      BY Zenon, <2>1 DEF IInv, QueueIsNewest
  <1>6. 1 .. (items - Len(Tail(queue))) = (1 .. (items - Len(queue))) \cup {Head(queue)}
    BY <1>1, <1>2, <1>3
  <1>7. QED
    BY <1>1, <1>2, <1>3, <1>4, <1>5, <1>6

\* enqueueOrReplaceOldest() on a full queue.
LEMMA ReplaceStep ==
  ASSUME IInv, threads # {}, ~HasRoom, NEW p \in Callers,
         items' = items + 1,
         queue' = Append(Tail(queue), items + 1),
         dropped' = dropped \cup {Head(queue)},
         ppc' = [ppc EXCEPT ![p] = "notify"],
         UNCHANGED <<threads, stop, consuming, cpc, hand, finished, awaited>>
  PROVE  IInv'
  <1> USE ConsumerAssumption
  <1> DEFINE t == Tail(queue)
  <1>1. queue # << >>
    <2>1. MaxQueueSize > 0
      BY Zenon DEF IInv, TypeInv
    <2>2. QED
      BY Zenon, <2>1 DEF IInv, TypeInv, HasRoom
  <1>2. /\ Head(queue) = items - Len(queue) + 1
        /\ Head(queue) \notin InHand \cup finished \cup dropped
        /\ Len(queue) \in Nat \ {0}
        /\ t \in Seq(Nat)
        /\ Len(t) = Len(queue) - 1
        /\ \A i \in 1 .. Len(t) : t[i] = items - Len(t) + i
        /\ 1 .. (items - Len(t)) = (1 .. (items - Len(queue))) \cup {Head(queue)}
    BY Zenon, <1>1, HeadMeaning
  <1> HIDE DEF t
  <1>3. items \in Nat /\ Len(queue) <= items /\ Len(queue) <= MaxQueueSize
    BY Zenon DEF IInv, TypeInv, QueueIsNewest
  <1>4. /\ queue' \in Seq(Nat) /\ Len(queue') = Len(queue)
        /\ \A i \in 1 .. Len(t) : queue'[i] = t[i]
        /\ queue'[Len(t) + 1] = items + 1
    BY <1>2, <1>3 DEF t
  <1>5. IsFiniteSet(dropped') /\ Cardinality(dropped') = Cardinality(dropped) + 1
    BY Zenon, <1>2, FS_AddElement DEF IInv, TypeInv
  <1>6. TypeInv'
    <2>1. (ppc \in [Callers -> Places])'
      BY Zenon DEF IInv, TypeInv, Places
    <2>2. items' \in Nat /\ \A q \in Callers : awaited'[q] <= items'
      BY <1>3 DEF IInv, TypeInv
    <2>3. QED
      BY Zenon, <1>4, <1>5, <2>1, <2>2 DEF IInv, TypeInv
  <1>7. QueueIsNewest'
    <2>1. \A i \in 1 .. Len(queue') : queue'[i] = items' - Len(queue') + i
      <3> TAKE i \in 1 .. Len(queue')
      <3>1. CASE i \in 1 .. Len(t)
        <4>1. queue'[i] = items - Len(t) + i
          BY Zenon, <1>2, <1>4, <3>1
        <4>2. QED
          BY SMTT(30), <1>2, <1>3, <1>4, <4>1
      <3>2. CASE i = Len(t) + 1
        BY <1>2, <1>3, <1>4, <3>2
      <3>3. QED
        BY SMTT(30), <1>2, <1>4, <3>1, <3>2
    <2>2. InHand' = InHand /\ items' - Len(queue') = items - Len(t)
      BY <1>2, <1>3, <1>4 DEF InHand
    <2>3. (InHand \cup finished \cup dropped)' = 1 .. (items' - Len(queue'))
      BY Zenon, <1>2, <2>2 DEF IInv, QueueIsNewest
    <2>4. Len(queue') <= items' /\ Len(queue') <= MaxQueueSize
      BY <1>2, <1>3, <1>4
    <2>5. QED
      BY Zenon, <2>1, <2>3, <2>4 DEF QueueIsNewest
  <1>8. (HandsSeparate /\ WorkersBusy)'
    BY Zenon DEF IInv, HandsSeparate, WorkersBusy
  <1>9. Counted'
    <2>1. Cardinality(finished) \in Nat /\ Cardinality(dropped) \in Nat
      BY Zenon, FS_CardinalityType DEF IInv, TypeInv
    <2>2. /\ Len(queue) + consuming + Cardinality(finished) + Cardinality(dropped) = items
          /\ consuming \in Nat
      BY Zenon DEF IInv, TypeInv, Counted
    <2>3. Len(queue') + consuming + Cardinality(finished) + Cardinality(dropped') = items'
      BY <1>2, <1>4, <1>5, <2>1, <2>2
    <2>4. Busy' = Busy
      BY Zenon DEF Busy
    <2>5. QED
      BY Zenon, <2>3, <2>4 DEF IInv, Counted
  <1>10. QED
    BY Zenon, <1>6, <1>7, <1>8, <1>9 DEF IInv

\* A consumer takes the oldest item.
LEMMA TakeStep ==
  ASSUME IInv, NEW c \in Consumers, cpc[c] = "check", queue # << >>,
         hand' = [hand EXCEPT ![c] = Head(queue)],
         queue' = Tail(queue),
         consuming' = consuming + 1,
         cpc' = [cpc EXCEPT ![c] = "consume"],
         UNCHANGED <<threads, stop, ppc, items, finished, dropped, awaited>>
  PROVE  IInv'
  <1> USE ConsumerAssumption
  <1> DEFINE h == Head(queue)
  <1>1. /\ h \in Nat \ {0}
        /\ h \notin InHand \cup finished \cup dropped
        /\ Len(queue) \in Nat \ {0}
        /\ queue' \in Seq(Nat)
        /\ Len(queue') = Len(queue) - 1
        /\ \A i \in 1 .. Len(queue') : queue'[i] = items - Len(queue') + i
        /\ 1 .. (items - Len(queue')) = (1 .. (items - Len(queue))) \cup {h}
    BY Zenon, HeadMeaning
  <1>2. hand' = [hand EXCEPT ![c] = h]
    BY Zenon
  <1> HIDE DEF h
  <1>3. hand[c] = 0 /\ threads # {}
    BY Zenon DEF IInv, WorkersBusy
  <1>4. InHand' = InHand \cup {h} /\ Busy' = Busy \cup {c} /\ c \notin Busy
    BY <1>1, <1>2, <1>3 DEF IInv, TypeInv, InHand, Busy
  <1>5. TypeInv'
    BY <1>1, <1>2 DEF IInv, TypeInv
  <1>6. QueueIsNewest'
    <2>1. items \in Nat /\ Len(queue) <= items /\ Len(queue) <= MaxQueueSize
      BY Zenon DEF IInv, TypeInv, QueueIsNewest
    <2>2. (InHand \cup finished \cup dropped)' = 1 .. (items' - Len(queue'))
      BY Zenon, <1>1, <1>4 DEF IInv, QueueIsNewest
    <2>3. QED
      BY <1>1, <2>1, <2>2 DEF QueueIsNewest
  <1>7. HandsSeparate'
    <2>1. \A d \in Consumers : hand[d] # h
      BY Zenon, <1>1 DEF InHand
    <2>2. QED
      BY <1>1, <1>2, <2>1 DEF IInv, TypeInv, HandsSeparate
  <1>8. WorkersBusy'
    BY ZenonT(30), <1>1, <1>2, <1>3 DEF IInv, TypeInv, WorkersBusy
  <1>9. Counted'
    <2>1. IsFiniteSet(Busy)
      BY Zenon, FS_Subset DEF Busy
    <2>2. Cardinality(Busy') = Cardinality(Busy) + 1
      BY Zenon, <1>4, <2>1, FS_AddElement
    <2>3. Cardinality(finished) \in Nat /\ Cardinality(dropped) \in Nat /\ Cardinality(Busy) \in Nat
      BY Zenon, <2>1, FS_CardinalityType DEF IInv, TypeInv
    <2>4. /\ Len(queue) + consuming + Cardinality(finished) + Cardinality(dropped) = items
          /\ consuming \in Nat /\ consuming = Cardinality(Busy)
      BY Zenon, <1>3 DEF IInv, TypeInv, Counted
    <2>5. Len(queue') + consuming' + Cardinality(finished) + Cardinality(dropped) = items
      BY <1>1, <2>3, <2>4
    <2>6. consuming' = Cardinality(Busy')
      BY Zenon, <2>2, <2>4
    <2>7. QED
      BY Zenon, <2>5, <2>6 DEF Counted
  <1>10. QED
    BY Zenon, <1>5, <1>6, <1>7, <1>8, <1>9 DEF IInv

\* fn_ has returned to a consumer.
LEMMA ConsumedStep ==
  ASSUME IInv, NEW c \in Consumers, Consumed(c)
  PROVE  IInv'
  <1> USE ConsumerAssumption
  <1> DEFINE h == hand[c]
  <1>1. /\ cpc[c] = "consume"
        /\ finished' = finished \cup {h}
        /\ hand' = [hand EXCEPT ![c] = 0]
        /\ consuming' = consuming - 1
        /\ cpc' = [cpc EXCEPT ![c] = "check"]
        /\ ppc' = NotifyDoneAll(ppc)
        /\ UNCHANGED <<threads, queue, stop, items, dropped, awaited>>
    BY Zenon DEF Consumed
  <1>2. h # 0 /\ threads # {} /\ h \notin finished
    BY Zenon, <1>1 DEF IInv, WorkersBusy, HandsSeparate
  <1>3. c \in Busy /\ Busy' = Busy \ {c}
    BY Zenon, <1>1, <1>2 DEF IInv, TypeInv, Busy
  <1>4. InHand' \cup {h} = InHand
    BY Zenon, <1>1, <1>2 DEF IInv, TypeInv, InHand
  <1>5. IsFiniteSet(finished') /\ Cardinality(finished') = Cardinality(finished) + 1
    BY Zenon, <1>1, <1>2, FS_AddElement DEF IInv, TypeInv
  <1>6. IsFiniteSet(Busy) /\ Cardinality(Busy') = Cardinality(Busy) - 1
    <2>1. IsFiniteSet(Busy)
      BY Zenon, FS_Subset DEF Busy
    <2>2. QED
      BY Zenon, <1>3, <2>1, FS_RemoveElement
  <1>7. /\ Len(queue) \in Nat /\ items \in Nat /\ consuming \in Nat
        /\ Cardinality(finished) \in Nat /\ Cardinality(dropped) \in Nat
        /\ Len(queue) + consuming + Cardinality(finished) + Cardinality(dropped) = items
        /\ consuming = Cardinality(Busy)
    BY <1>2, FS_CardinalityType DEF IInv, TypeInv, Counted
  <1>8. consuming' \in Nat
    <2>1. Busy # {}
      BY Zenon, <1>3
    <2>2. Cardinality(Busy) # 0
      BY Zenon, <1>6, <2>1, FS_EmptySet
    <2>3. QED
      BY SMTT(30), <1>1, <1>7, <2>2
  <1> HIDE DEF h
  <1>9. TypeInv'
    <2>1. (ppc \in [Callers -> Places])'
      BY Zenon, <1>1, NotifyDoneType DEF IInv, TypeInv
    <2>2. /\ (hand \in [Consumers -> Nat])'
          /\ (cpc \in [Consumers -> {"check", "blocked", "consume", "exit"}])'
      BY Zenon, <1>1 DEF IInv, TypeInv
    <2>3. QED
      BY Zenon, <1>1, <1>5, <1>8, <2>1, <2>2 DEF IInv, TypeInv
  <1>10. QueueIsNewest'
    <2>1. (InHand \cup finished \cup dropped)' = InHand \cup finished \cup dropped
      BY Zenon, <1>1, <1>4
    <2>2. QED
      BY Zenon, <1>1, <2>1 DEF IInv, QueueIsNewest
  <1>11. (HandsSeparate /\ WorkersBusy)'
    BY Zenon, <1>1, <1>2 DEF IInv, TypeInv, HandsSeparate, WorkersBusy, h
  <1>12. Counted'
    <2>1. Len(queue) + consuming' + Cardinality(finished') + Cardinality(dropped) = items
      BY <1>1, <1>5, <1>7
    <2>2. consuming' = Cardinality(Busy')
      BY Zenon, <1>1, <1>6, <1>7
    <2>3. QED
      BY Zenon, <1>1, <2>1, <2>2 DEF Counted
  <1>13. QED
    BY Zenon, <1>9, <1>10, <1>11, <1>12 DEF IInv

\* enqueue() without threads: the caller runs fn_ itself.
LEMMA DirectStep ==
  ASSUME ~FnThrows, IInv, NEW p \in Callers, EnqueueDirect(p)
  PROVE  IInv'
  <1> USE ConsumerAssumption
  <1>1. CASE stop
    <2>1. /\ ppc' = [ppc EXCEPT ![p] = "idle"]
          /\ UNCHANGED <<threads, queue, stop, consuming, cpc, hand, items, finished, dropped, awaited>>
      BY Zenon, <1>1 DEF EnqueueDirect
    <2>2. QED
      BY Zenon, <2>1, MoveStep DEF IInv, TypeInv, Places
  <1>2. CASE ~stop
    <2>1. /\ threads = {}
          /\ items' = items + 1
          /\ finished' = finished \cup {items + 1}
          /\ ppc' = [ppc EXCEPT ![p] = "notifyDone"]
          /\ UNCHANGED <<threads, queue, stop, consuming, cpc, hand, dropped, awaited>>
      BY Zenon, <1>2 DEF EnqueueDirect
    <2>2. queue = << >> /\ \A c \in Consumers : hand[c] = 0
      BY Zenon, <2>1 DEF IInv, WorkersBusy
    <2>3. /\ items \in Nat /\ consuming \in Nat /\ Len(queue) = 0
          /\ InHand = {} /\ InHand' = {}
      BY Zenon, <2>1, <2>2 DEF IInv, TypeInv, InHand
    <2>4. finished \cup dropped = 1 .. items
      BY <2>3 DEF IInv, QueueIsNewest
    <2>5. items + 1 \notin finished
      BY <2>3, <2>4
    <2>6. IsFiniteSet(finished') /\ Cardinality(finished') = Cardinality(finished) + 1
      BY Zenon, <2>1, <2>5, FS_AddElement DEF IInv, TypeInv
    <2>7. TypeInv'
      <3>1. (ppc \in [Callers -> Places])'
        BY Zenon, <2>1 DEF IInv, TypeInv, Places
      <3>2. items' \in Nat /\ \A q \in Callers : awaited'[q] <= items'
        BY <2>1, <2>3 DEF IInv, TypeInv
      <3>3. QED
        BY Zenon, <2>1, <2>6, <3>1, <3>2 DEF IInv, TypeInv
    <2>8. QueueIsNewest'
      <3>1. (finished \cup dropped)' = 1 .. items'
        BY <2>1, <2>3, <2>4
      <3>2. /\ Len(queue') <= items' /\ Len(queue') <= MaxQueueSize
            /\ items' - Len(queue') = items'
            /\ 1 .. Len(queue') = {}
        BY <2>1, <2>3
      <3>3. QED
        BY Zenon, <2>3, <3>1, <3>2 DEF QueueIsNewest
    <2>9. (HandsSeparate /\ WorkersBusy)'
      BY Zenon, <2>1, <2>2 DEF IInv, HandsSeparate, WorkersBusy
    <2>10. Counted'
      <3>1. Cardinality(finished) \in Nat /\ Cardinality(dropped) \in Nat
        BY Zenon, FS_CardinalityType DEF IInv, TypeInv
      <3>2. Len(queue) + consuming + Cardinality(finished) + Cardinality(dropped) = items
        BY Zenon DEF IInv, Counted
      <3>3. Len(queue') + consuming' + Cardinality(finished') + Cardinality(dropped') = items'
        BY SMTT(30), <2>1, <2>3, <2>6, <3>1, <3>2
      <3>4. QED
        BY Zenon, <2>1, <3>3 DEF Counted
    <2>11. QED
      BY Zenon, <2>7, <2>8, <2>9, <2>10 DEF IInv
  <1>3. QED
    BY Zenon, <1>1, <1>2

-----------------------------------------------------------------------------

\* The steps of callers keep the invariant.
LEMMA CallerKeeps ==
  ASSUME ~FnThrows, IInv, NEW p \in Callers,
         \/ Call(p, "enqueue") \/ Call(p, "wait") \/ EnqueueOrReplaceOldest(p) \/ CallerStep(p)
  PROVE  IInv'
  <1>1. ASSUME NEW place \in {"enqueue", "wait"}, Call(p, place) PROVE IInv'
    <2>1. (ppc \in [Callers -> Places] /\ awaited \in [Callers -> Nat])'
      BY Zenon, <1>1 DEF Call, IInv, TypeInv, Places
    <2>2. \A q \in Callers : awaited'[q] <= items
      BY <1>1 DEF Call, IInv, TypeInv
    <2>3. QED
      BY Zenon, <1>1, <2>1, <2>2, MoveStep DEF Call, IInv, TypeInv
  <1>2. CASE EnqueueOrReplaceOldest(p)
    <2>1. CASE HasRoom
      BY Zenon, <1>2, <2>1, PushStep DEF EnqueueOrReplaceOldest
    <2>2. CASE ~HasRoom
      BY Zenon, <1>2, <2>2, ReplaceStep DEF EnqueueOrReplaceOldest
    <2>3. QED
      BY Zenon, <2>1, <2>2
  <1>3. CASE Enqueue(p)
    <2>1. CASE ~stop /\ HasRoom
      BY Zenon, <1>3, <2>1, PushStep DEF Enqueue
    <2>2. CASE stop \/ ~HasRoom
      <3>1. (ppc \in [Callers -> Places])' /\ UNCHANGED <<queue, items>>
        BY Zenon, <1>3, <2>2 DEF Enqueue, IInv, TypeInv, Places
      <3>2. QED
        BY Zenon, <1>3, <3>1, MoveStep DEF Enqueue, IInv, TypeInv
    <2>3. QED
      BY Zenon, <2>1, <2>2
  <1>4. CASE NotifyReady(p)
    <2>1. ppc' \in [Callers -> Places]
      BY Zenon, <1>4 DEF NotifyReady, IInv, TypeInv, Places
    <2>2. /\ cpc' \in [Consumers -> {"check", "blocked", "consume", "exit"}]
          /\ \A c \in Consumers : /\ cpc'[c] = "consume" <=> cpc[c] = "consume"
                                  /\ cpc[c] = "exit" => cpc'[c] = "exit"
      BY Zenon, <1>4, WakeConsumer DEF NotifyReady, NotifyReadyOne, IInv, TypeInv
    <2>3. /\ UNCHANGED <<threads, queue, consuming, hand, items, finished, dropped>>
          /\ stop' \in BOOLEAN /\ awaited' \in [Callers -> Nat]
          /\ \A q \in Callers : awaited'[q] <= items
      BY Zenon, <1>4 DEF NotifyReady, IInv, TypeInv
    <2>4. QED
      BY Zenon, <2>1, <2>2, <2>3, MoveStep
  <1>5. CASE EnqueueDirect(p)
    BY Zenon, <1>5, DirectStep
  <1>6. CASE NotifyDone(p)
    <2>1. [ppc EXCEPT ![p] = "idle"] \in [Callers -> Places]
      BY Zenon DEF IInv, TypeInv, Places
    <2>2. (ppc \in [Callers -> Places])'
      BY Zenon, <1>6, <2>1, NotifyDoneType DEF NotifyDone
    <2>3. QED
      BY Zenon, <1>6, <2>2, MoveStep DEF NotifyDone, IInv, TypeInv
  <1>7. CASE Wait(p)
    <2>1. (ppc \in [Callers -> Places])'
      BY Zenon, <1>7 DEF Wait, IInv, TypeInv, Places
    <2>2. QED
      BY Zenon, <1>7, <2>1, MoveStep DEF Wait, IInv, TypeInv
  <1>8. QED
    BY Zenon, <1>1, <1>2, <1>3, <1>4, <1>5, <1>6, <1>7 DEF CallerStep

\* The steps of consumers, of the destructor and of spurious wake-ups keep the invariant.
LEMMA OthersKeep ==
  ASSUME IInv,
         (\E c \in Consumers : ConsumerStep(c)) \/ Stop \/ Destroy \/ Spurious
  PROVE  IInv'
  <1> USE DEF IInv, TypeInv
  <1>1. ASSUME NEW c \in Consumers, Take(c) PROVE IInv'
    <2>1. CASE ~stop /\ queue # << >>
      BY Zenon, <1>1, <2>1, TakeStep DEF Take
    <2>2. CASE stop \/ queue = << >>
      BY Zenon, <1>1, <2>2, MoveStep DEF Take
    <2>3. QED
      BY Zenon, <2>1, <2>2
  <1>2. ASSUME NEW c \in Consumers, Consumed(c) PROVE IInv'
    BY Zenon, <1>2, ConsumedStep
  <1>3. CASE Stop
    BY Zenon, <1>3, MoveStep DEF Stop
  <1>4. CASE Destroy
    <2>1. CASE StopNotifyReady
      BY Zenon, <2>1, MoveStep DEF StopNotifyReady
    <2>2. CASE StopNotifyDone
      BY Zenon, <2>2, MoveStep, NotifyDoneType DEF StopNotifyDone
    <2>3. CASE Join
      BY Zenon, <2>3, MoveStep DEF Join
    <2>4. QED
      BY Zenon, <1>4, <2>1, <2>2, <2>3 DEF Destroy
  <1>5. CASE Spurious
    <2>1. ppc' \in [Callers -> Places]
      BY Zenon, <1>5 DEF Spurious, Places
    <2>2. /\ cpc' \in [Consumers -> {"check", "blocked", "consume", "exit"}]
          /\ \A c \in Consumers : /\ cpc'[c] = "consume" <=> cpc[c] = "consume"
                                  /\ cpc[c] = "exit" => cpc'[c] = "exit"
      BY Zenon, <1>5, WakeConsumer DEF Spurious
    <2>3. /\ UNCHANGED <<threads, queue, consuming, hand, items, finished, dropped>>
          /\ stop' \in BOOLEAN /\ awaited' \in [Callers -> Nat]
          /\ \A q \in Callers : awaited'[q] <= items
      BY Zenon, <1>5 DEF Spurious
    <2>4. QED
      BY Zenon, <2>1, <2>2, <2>3, MoveStep
  <1>6. QED
    BY Zenon, <1>1, <1>2, <1>3, <1>4, <1>5 DEF ConsumerStep

-----------------------------------------------------------------------------

\* The inductive invariant holds in every reachable state of the queue, its callers, its
\* consumer threads and its destructor, if fn_ does not throw (parallel.h:181-183 shows
\* why: consuming_ would stay raised).
THEOREM Invariance == ASSUME ~FnThrows PROVE Spec => []IInv
  <1>1. IInv /\ UNCHANGED vars => IInv'
    BY Zenon, MoveStep DEF vars, IInv, TypeInv
  <1>2. IInv /\ [Next]_vars => IInv'
    BY Zenon, <1>1, CallerKeeps, OthersKeep DEF Next, Done
  <1>3. QED
    BY <1>2, InitIInv, PTL DEF Spec

\* Every item given to enqueue() or enqueueOrReplaceOldest() is in one place (queued, with
\* a consumer, consumed, or replaced), and consuming_ counts the items with consumers.
THEOREM EveryItemOnce == ASSUME ~FnThrows PROVE Spec => []ExactlyOnce
  <1>1. IInv => ExactlyOnce
    <2> SUFFICES ASSUME IInv PROVE ExactlyOnce
      BY Zenon
    <2>1. /\ items \in Nat /\ Len(queue) \in Nat /\ Len(queue) <= items
          /\ DOMAIN queue = 1 .. Len(queue)
      BY DEF IInv, TypeInv, QueueIsNewest
    <2>2. Queued = (items - Len(queue) + 1) .. items
      <3>1. ASSUME NEW x \in Queued PROVE x \in (items - Len(queue) + 1) .. items
        BY <2>1 DEF Queued, IInv, QueueIsNewest
      <3>2. ASSUME NEW x \in (items - Len(queue) + 1) .. items PROVE x \in Queued
        <4>1. x - (items - Len(queue)) \in 1 .. Len(queue)
          BY <2>1
        <4>2. queue[x - (items - Len(queue))] = items - Len(queue) + (x - (items - Len(queue)))
          BY Zenon, <4>1 DEF IInv, QueueIsNewest
        <4>3. queue[x - (items - Len(queue))] = x
          BY <2>1, <4>2
        <4>4. QED
          BY Zenon, <2>1, <4>1, <4>3 DEF Queued
      <3>3. QED
        BY Zenon, <3>1, <3>2
    <2>3. Queued \cup InHand \cup finished \cup dropped = 1 .. items
      <3>1. ((items - Len(queue) + 1) .. items) \cup (1 .. (items - Len(queue))) = 1 .. items
        BY <2>1
      <3>2. QED
        BY Zenon, <2>2, <3>1 DEF IInv, QueueIsNewest
    <2>4. QED
      BY Zenon, <2>3 DEF IInv, Counted, Busy, ExactlyOnce
  <1>2. QED
    BY <1>1, Invariance, PTL

\* The queue keeps within maxQueueSize_, and items leave it oldest first, to a consumer as
\* well as through enqueueOrReplaceOldest().
THEOREM QueueOrder == ASSUME ~FnThrows PROVE Spec => []BoundedFifo
  <1>1. IInv => BoundedFifo
    <2> SUFFICES ASSUME IInv PROVE BoundedFifo
      BY Zenon
    <2>1. /\ items \in Nat /\ Len(queue) \in Nat /\ Len(queue) <= items
          /\ DOMAIN queue = 1 .. Len(queue)
      BY DEF IInv, TypeInv, QueueIsNewest
    <2>2. \A i, j \in DOMAIN queue : i < j => queue[i] < queue[j]
      BY <2>1 DEF IInv, QueueIsNewest
    <2>3. \A i \in Queued : i > items - Len(queue) /\ i \in Int
      BY <2>1 DEF Queued, IInv, QueueIsNewest
    <2>4. \A j \in InHand \cup finished \cup dropped : j <= items - Len(queue) /\ j \in Int
      BY <2>1 DEF IInv, QueueIsNewest
    <2>5. \A i \in Queued : \A j \in InHand \cup finished \cup dropped : j < i
      BY <2>1, <2>3, <2>4
    <2>6. QED
      BY Zenon, <2>2, <2>5 DEF IInv, QueueIsNewest, BoundedFifo
  <1>2. QED
    BY <1>1, Invariance, PTL

\* wait() returns, unless the consumers are stopped, when all items queued before the
\* call have been consumed or replaced.
THEOREM WaitSound == ASSUME ~FnThrows PROVE Spec => WaitMeansDone
  <1>1. IInv /\ [Next]_vars =>
          [\A p \in Callers : ppc[p] = "wait" /\ ppc'[p] = "idle" /\ ~stop
                                => 1 .. awaited[p] \subseteq finished \cup dropped]_vars
    <2> SUFFICES ASSUME IInv, Next, NEW p \in Callers,
                        ppc[p] = "wait", ppc'[p] = "idle", ~stop
                 PROVE  1 .. awaited[p] \subseteq finished \cup dropped
      BY Zenon
    <2>1. Wait(p)
      BY ZenonT(30) DEF Next, Call, CallerStep, Enqueue, EnqueueOrReplaceOldest, NotifyReady, EnqueueDirect,
        NotifyDone, NotifyDoneAll, Wait, ConsumerStep, Take, Consumed, Stop, Destroy,
        StopNotifyReady, StopNotifyDone, Join, Spurious, Done, vars, IInv, TypeInv
    <2>2. queue = << >> /\ consuming = 0
      BY Zenon, <2>1 DEF Wait, WaitDone, IInv, TypeInv
    <2>3. \A c \in Consumers : hand[c] = 0
      <3>1. CASE threads = {}
        BY Zenon, <3>1 DEF IInv, WorkersBusy
      <3>2. CASE threads # {}
        <4>1. IsFiniteSet(Busy) /\ Cardinality(Busy) = 0
          BY Zenon, <2>2, <3>2, FS_Subset, ConsumerAssumption DEF IInv, Counted, Busy
        <4>2. QED
          BY <4>1, FS_EmptySet DEF Busy
      <3>3. QED
        BY Zenon, <3>1, <3>2
    <2>4. finished \cup dropped = 1 .. items
      BY <2>2, <2>3 DEF IInv, TypeInv, QueueIsNewest, InHand
    <2>5. QED
      BY <2>4 DEF IInv, TypeInv
  <1>2. QED
    BY <1>1, Invariance, PTL DEF Spec, WaitMeansDone

-----------------------------------------------------------------------------
(* ZeroMQBufferedConsumer. *)

SenderPlaces == DOMAIN pending

\* A request that was not made carries nothing, and a future holds a reply of a server.
Genuine ==
  \A r \in Request : /\ future[r] = "unused" => content[r] = 0
                     /\ future[r] \in Reply => future[r] \in handled[r]

\* The item of the call under way was not sent yet.
NotSentYet ==
  \A r \in Request : content[r] <= given /\ (sender # "idle" => content[r] < given)

\* pending_ holds requests that were made, each for another item.
OnePerItem ==
  /\ \A k \in SenderPlaces : content[pending[k]] > 0 /\ future[pending[k]] # "unused"
  /\ \A j, k \in SenderPlaces : content[pending[j]] = content[pending[k]] => j = k

\* A request leaves pending_ when it is answered or failed.
LeftDecided ==
  \A r \in Request :
    content[r] > 0 /\ (\A k \in SenderPlaces : pending[k] # r)
      => future[r] \in {"confirm", "deny", Failed}

\* An item whose confirmation was read is not sent again.
ReadLast ==
  \A r \in Request :
    content[r] > 0 /\ future[r] = "confirm" /\ (\A k \in SenderPlaces : pending[k] # r)
      => \A k \in SenderPlaces : content[pending[k]] # content[r]

\* At most one request of an item is undecided or confirmed.
OneUndecided ==
  \A r, q \in Request :
    /\ future[r] \in {NoReply, "confirm"} /\ content[r] > 0
    /\ q # r /\ content[q] = content[r]
    => future[q] \in {"deny", Failed}

\* The sender finds pending_ no more than full; it adds one more only after stop.
Room ==
  /\ Len(pending) <= MaxConcurrent + 1
  /\ ~(stopping /\ sender = "idle") => Len(pending) <= MaxConcurrent

\* An item is about to be sent, is pending, or was confirmed by a server.
Kept ==
  \A i \in 1 .. given :
    \/ i = given /\ sender # "idle"
    \/ \E k \in SenderPlaces : content[pending[k]] = i
    \/ \E r \in Request : content[r] = i /\ "confirm" \in handled[r]

\* The inductive invariant.
SenderInv ==
  /\ SenderTypeOK /\ Genuine /\ NotSentYet /\ OnePerItem /\ LeftDecided /\ ReadLast
  /\ OneUndecided /\ Room /\ Kept

-----------------------------------------------------------------------------

\* The states of a future are different.
LEMMA Different ==
  /\ NoReply \notin {Failed, "unused", "confirm", "deny"}
  /\ Failed \notin {"unused", "confirm", "deny"}
  BY Zenon, ZmqConsumerAssumption DEF Reply

\* What the types say of single requests and places.
LEMMA Types ==
  ASSUME SenderTypeOK
  PROVE  /\ \A r \in Request : content[r] \in Nat /\ content[r] <= MaxSends
         /\ \A r \in Request : future[r] \in Reply \cup {"unused", NoReply, Failed}
         /\ Len(pending) \in Nat /\ SenderPlaces = 1 .. Len(pending)
         /\ \A k \in SenderPlaces : pending[k] \in Request
         /\ given \in Nat /\ given <= MaxSends /\ pos \in Nat
         /\ MaxConcurrent \in Nat /\ MaxSends \in Nat
  BY ZmqConsumerAssumption DEF SenderTypeOK, SenderPlaces

LEMMA SenderInitial == SenderInit => SenderInv
  <1> SUFFICES ASSUME SenderInit PROVE SenderInv
    BY Zenon
  <1> USE ZmqConsumerAssumption DEF SenderInit, Transport!Init, SenderPlaces
  <1>1. SenderTypeOK
    <2>1. future \in [Request -> Reply \cup {"unused", NoReply, Failed}]
      BY Zenon
    <2>2. handled \in [Request -> SUBSET Reply]
      BY Zenon
    <2>3. content \in [Request -> 0 .. MaxSends] /\ given \in 0 .. MaxSends
      OBVIOUS
    <2>4. pending \in Seq(Request) /\ pos \in 1 .. Len(pending) + 1
      OBVIOUS
    <2>5. QED
      BY Zenon, <2>1, <2>2, <2>3, <2>4 DEF SenderTypeOK
  <1>2. pending = << >> /\ SenderPlaces = {}
    OBVIOUS
  <1>3. Genuine /\ NotSentYet /\ OneUndecided
    BY DEF Genuine, NotSentYet, OneUndecided, Reply
  <1>4. OnePerItem /\ LeftDecided /\ ReadLast /\ Room /\ Kept
    BY <1>2 DEF OnePerItem, LeftDecided, ReadLast, Room, Kept
  <1>5. QED
    BY Zenon, <1>1, <1>3, <1>4 DEF SenderInv

\* A step that changes neither the requests nor pending_.
LEMMA SenderStep ==
  ASSUME SenderInv, SenderEnqueue \/ (Loop /\ sender' = "scan") \/ ScanDone \/ SenderStop
  PROVE  SenderInv'
  <1>1. UNCHANGED <<future, handled, content, pending, SenderPlaces>>
    BY Zenon DEF SenderEnqueue, Loop, ScanDone, SenderStop, transport, SenderPlaces
  <1>2. SenderTypeOK
    BY Zenon DEF SenderInv
  <1>3. \/ given' = given + 1 /\ given < MaxSends /\ sender = "idle" /\ ~stopping
        \/ given' = given /\ (sender # "idle" \/ sender' = sender)
    BY Zenon DEF SenderEnqueue, Loop, ScanDone, SenderStop
  <1>4. /\ sender' \in {"idle", "loop", "scan"} /\ stopping' \in BOOLEAN
        /\ pos' \in 1 .. Len(pending) + 1
        /\ (sender' = "idle") => (sender = "idle")
        /\ ~(stopping' /\ sender' = "idle") => ~(stopping /\ sender = "idle")
    <2>1. pos \in 1 .. Len(pending) + 1 /\ 1 \in 1 .. Len(pending) + 1
      BY <1>2, Types DEF SenderTypeOK
    <2>2. pos' = pos \/ pos' = 1
      BY Zenon DEF SenderEnqueue, Loop, ScanDone, SenderStop
    <2>3. QED
      BY Zenon, <1>2, <2>1, <2>2 DEF SenderEnqueue, Loop, ScanDone, SenderStop, SenderTypeOK
  <1>5. sender # "idle" \/ given' = given + 1 \/ sender' = "idle"
    BY Zenon, <1>3
  <1>6. SenderTypeOK'
    <2>1. given' \in 0 .. MaxSends
      BY <1>2, <1>3, Types
    <2>2. QED
      BY Zenon, <1>1, <1>2, <1>4, <2>1 DEF SenderTypeOK
  <1>7. (Genuine /\ OnePerItem /\ LeftDecided /\ ReadLast /\ OneUndecided)'
    BY <1>1 DEF SenderInv, Genuine, OnePerItem, LeftDecided, ReadLast, OneUndecided
  <1>8. NotSentYet'
    BY <1>1, <1>2, <1>3, <1>5, Types DEF SenderInv, NotSentYet
  <1>9. Room'
    BY Zenon, <1>1, <1>4 DEF SenderInv, Room
  <1>10. Kept'
    <2>1. CASE given' = given + 1 /\ sender = "idle"
      <3>1. sender' = "loop"
        BY <2>1, <1>2, Types DEF SenderEnqueue, Loop, ScanDone, SenderStop
      <3>2. \A i \in 1 .. given' : i = given' \/ i \in 1 .. given
        BY <2>1, <1>2, Types
      <3>3. QED
        BY Zenon, <2>1, <3>1, <3>2, <1>1 DEF SenderInv, Kept
    <2>2. CASE given' = given
      BY Zenon, <2>2, <1>1, <1>4 DEF SenderInv, Kept
    <2>3. QED
      BY Zenon, <2>1, <2>2, <1>3
  <1>11. QED
    BY Zenon, <1>6, <1>7, <1>8, <1>9, <1>10 DEF SenderInv

\* A step of the client or of a server changes only futures that are not ready.
LEMMA DeliverStep ==
  ASSUME SenderInv, Deliver
  PROVE  SenderInv'
  <1> USE Different
  <1>1. UNCHANGED <<content, pending, stopping, given, sender, pos, SenderPlaces>>
    BY Zenon DEF Deliver, SenderPlaces
  <1>2. PICK r \in Request : \/ Transport!Fulfil(r) \/ Transport!Fail({r})
                             \/ \E v \in Reply : Transport!Handle(r, v)
    BY Zenon DEF Deliver
  <1>3. SenderTypeOK /\ Genuine
    BY Zenon DEF SenderInv
  <1>4. /\ future' \in [Request -> Reply \cup {"unused", NoReply, Failed}]
        /\ handled' \in [Request -> SUBSET Reply]
        /\ \A q \in Request : handled[q] \subseteq handled'[q]
        /\ \A q \in Request : \/ future'[q] = future[q]
                              \/ future[q] = NoReply /\ future'[q] = Failed
                              \/ future[q] = NoReply /\ future'[q] \in handled'[q]
    <2>1. CASE Transport!Fulfil(r)
      BY Zenon, <2>1, <1>3 DEF Transport!Fulfil, SenderTypeOK
    <2>2. CASE Transport!Fail({r})
      BY Zenon, <2>2, <1>3 DEF Transport!Fail, SenderTypeOK
    <2>3. ASSUME NEW v \in Reply, Transport!Handle(r, v)
          PROVE  handled' = [handled EXCEPT ![r] = @ \cup {v}] /\ UNCHANGED future
      BY Zenon, <2>3 DEF Transport!Handle
    <2>4. ASSUME NEW v \in Reply, Transport!Handle(r, v)
          PROVE  /\ handled' \in [Request -> SUBSET Reply]
                 /\ \A q \in Request : handled[q] \subseteq handled'[q]
      <3>1. \A q \in Request :
              handled'[q] = IF q = r THEN handled[r] \cup {v} ELSE handled[q]
        BY Zenon, <2>3, <2>4, <1>3 DEF SenderTypeOK
      <3>2. \A q \in Request : handled[q] \in SUBSET Reply
        BY Zenon, <1>3 DEF SenderTypeOK
      <3>3. \A q \in Request : handled'[q] \in SUBSET Reply /\ handled[q] \subseteq handled'[q]
        BY Zenon, <3>1, <3>2
      <3>4. handled' = [q \in Request |-> handled'[q]]
        BY Zenon, <2>3, <2>4, <1>3 DEF SenderTypeOK
      <3>5. QED
        BY Zenon, <3>3, <3>4
    <2>5. CASE \E v \in Reply : Transport!Handle(r, v)
      BY Zenon, <2>3, <2>4, <2>5, <1>3 DEF SenderTypeOK
    <2>6. QED
      BY Zenon, <1>2, <2>1, <2>2, <2>5
  <1>5. /\ \A q \in Request : handled[q] \subseteq handled'[q] /\ handled'[q] \subseteq Reply
        /\ \A q \in Request : future[q] # NoReply => future'[q] = future[q]
        /\ \A q \in Request : future[q] = NoReply => future'[q] \in Reply \cup {NoReply, Failed}
        /\ \A q \in Request : future'[q] = "unused" => future[q] = "unused"
        /\ \A q \in Request : future'[q] \in {NoReply, "confirm"} => future[q] \in {NoReply, "confirm"}
    BY Zenon, <1>4 DEF Reply
  <1>6. SenderTypeOK'
    BY Zenon, <1>1, <1>3, <1>4 DEF SenderTypeOK
  <1>7. Genuine'
    BY Zenon, <1>1, <1>3, <1>4, <1>5 DEF Genuine, Reply
  <1>8. NotSentYet' /\ Room'
    BY Zenon, <1>1 DEF SenderInv, NotSentYet, Room
  <1>9. OnePerItem'
    BY <1>1, <1>3, <1>5, Types DEF SenderInv, OnePerItem
  <1>10. LeftDecided' /\ ReadLast'
    BY <1>1, <1>5 DEF SenderInv, LeftDecided, ReadLast, Reply
  <1>11. OneUndecided'
    BY Zenon, <1>1, <1>5 DEF SenderInv, OneUndecided, Reply
  <1>12. Kept'
    BY Zenon, <1>1, <1>5 DEF SenderInv, Kept
  <1>13. QED
    BY Zenon, <1>6, <1>7, <1>8, <1>9, <1>10, <1>11, <1>12 DEF SenderInv

\* What client_.request() changes: a request that was not used carries the item.
LEMMA SubmitMeaning ==
  ASSUME SenderTypeOK, Genuine, NEW r \in Request, NEW i \in 0 .. MaxSends, Submit(r, i)
  PROVE  /\ future[r] = "unused" /\ content[r] = 0 /\ UNCHANGED handled
         /\ future' \in [Request -> Reply \cup {"unused", NoReply, Failed}]
         /\ content' \in [Request -> 0 .. MaxSends]
         /\ \A q \in Request : future'[q] = IF q = r THEN NoReply ELSE future[q]
         /\ \A q \in Request : content'[q] = IF q = r THEN i ELSE content[q]
  BY Zenon DEF Submit, Transport!Submit, SenderTypeOK, Genuine

\* The item of the call is sent: its request goes to the end of pending_.
LEMMA SendStep ==
  ASSUME SenderInv, Loop, sender' # "scan"
  PROVE  SenderInv'
  <1> USE Different
  <1>1. PICK r \in Request : Submit(r, given) /\ pending' = Append(pending, r)
    BY Zenon DEF Loop
  <1>2. SenderTypeOK /\ Genuine
    BY Zenon DEF SenderInv
  <1>3. /\ sender = "loop" /\ sender' = "idle" /\ UNCHANGED <<stopping, given, pos>>
        /\ Len(pending) < MaxConcurrent \/ stopping
    BY <1>2, Types DEF Loop, Full
  <1>4. /\ future[r] = "unused" /\ content[r] = 0 /\ UNCHANGED handled
        /\ future' \in [Request -> Reply \cup {"unused", NoReply, Failed}]
        /\ content' \in [Request -> 0 .. MaxSends]
        /\ \A q \in Request : future'[q] = IF q = r THEN NoReply ELSE future[q]
        /\ \A q \in Request : content'[q] = IF q = r THEN given ELSE content[q]
    <2>1. given \in 0 .. MaxSends
      BY Zenon, <1>2 DEF SenderTypeOK
    <2>2. QED
      BY Zenon, <1>1, <1>2, <2>1, SubmitMeaning
  <1>5. /\ Len(pending') = Len(pending) + 1 /\ pending' \in Seq(Request)
        /\ \A k \in SenderPlaces : pending'[k] = pending[k]
        /\ pending'[Len(pending) + 1] = r
        /\ SenderPlaces' = SenderPlaces \cup {Len(pending) + 1} /\ Len(pending) + 1 \notin SenderPlaces
    BY <1>1, <1>2 DEF SenderTypeOK, SenderPlaces
  <1>6. \A k \in SenderPlaces : pending[k] \in Request /\ pending[k] # r
    BY Zenon, <1>2, <1>4, Types DEF SenderInv, OnePerItem
  <1>7. given > 0 /\ \A q \in Request : content[q] < given /\ content[q] \in Nat
    BY Zenon, <1>2, <1>3, <1>4, Types DEF SenderInv, NotSentYet
  <1>8. SenderTypeOK'
    BY <1>2, <1>3, <1>4, <1>5 DEF SenderTypeOK
  <1>9. Genuine' /\ NotSentYet'
    BY <1>2, <1>3, <1>4, <1>7 DEF SenderInv, Genuine, NotSentYet, Reply
  <1>10. /\ \A k \in SenderPlaces : /\ content'[pending'[k]] = content[pending[k]]
                              /\ future'[pending'[k]] = future[pending[k]]
         /\ content'[pending'[Len(pending) + 1]] = given
         /\ future'[pending'[Len(pending) + 1]] = NoReply
    BY Zenon, <1>4, <1>5, <1>6
  <1>11. OnePerItem'
    BY <1>5, <1>6, <1>7, <1>10 DEF SenderInv, OnePerItem
  <1>12. LeftDecided'
    BY Zenon, <1>4, <1>5 DEF SenderInv, LeftDecided
  <1>13. ReadLast'
    <2> SUFFICES ASSUME NEW q \in Request, content'[q] > 0, future'[q] = "confirm",
                        \A k \in SenderPlaces' : pending'[k] # q, NEW k \in SenderPlaces'
                 PROVE  content'[pending'[k]] # content'[q]
      BY Zenon DEF ReadLast
    <2>1. q # r /\ content'[q] = content[q] /\ future'[q] = future[q]
      BY Zenon, <1>4
    <2>2. \A j \in SenderPlaces : content[pending[j]] # content[q]
      BY <2>1, <1>5 DEF SenderInv, ReadLast
    <2>3. content[q] # given
      BY <1>7
    <2>4. QED
      BY Zenon, <2>1, <2>2, <2>3, <1>5, <1>10
  <1>14. OneUndecided'
    BY <1>4, <1>7 DEF SenderInv, OneUndecided
  <1>15. Room'
    BY <1>2, <1>3, <1>5, Types DEF SenderInv, Room
  <1>16. Kept'
    <2> SUFFICES ASSUME NEW i \in 1 .. given
                 PROVE  \/ \E k \in SenderPlaces' : content'[pending'[k]] = i
                        \/ \E q \in Request : content'[q] = i /\ "confirm" \in handled'[q]
      BY Zenon, <1>3 DEF Kept
    <2>1. CASE i = given
      BY Zenon, <2>1, <1>5, <1>10
    <2>2. CASE \E k \in SenderPlaces : content[pending[k]] = i
      BY Zenon, <2>2, <1>5, <1>10
    <2>3. CASE \E q \in Request : content[q] = i /\ "confirm" \in handled[q]
      BY <2>3, <1>4
    <2>4. QED
      BY Zenon, <2>1, <2>2, <2>3 DEF SenderInv, Kept
  <1>17. QED
    BY Zenon, <1>8, <1>9, <1>11, <1>12, <1>13, <1>14, <1>15, <1>16 DEF SenderInv

\* A confirmed request leaves pending_.
LEMMA ForgetStep ==
  ASSUME SenderInv, Scan, Confirmed
  PROVE  SenderInv'
  <1> USE Different
  <1>1. SenderTypeOK
    BY Zenon DEF SenderInv
  <1>2. /\ pending' = Erased /\ pos \in SenderPlaces
        /\ future[pending[pos]] = "confirm"
        /\ UNCHANGED <<future, handled, content, stopping, given, sender, pos>>
        /\ sender = "scan"
    BY <1>1, Types DEF Scan, Confirmed, Current, transport, Reply, SenderTypeOK
  <1>3. /\ Len(pending') = Len(pending) - 1 /\ pending' \in Seq(Request)
        /\ \A k \in SenderPlaces' : pending'[k] = IF k < pos THEN pending[k] ELSE pending[k + 1]
        /\ SenderPlaces' = 1 .. Len(pending) - 1 /\ SenderPlaces = 1 .. Len(pending)
    <2>1. pending \in Seq(Request) /\ Len(pending) \in Nat /\ pos \in 1 .. Len(pending)
      BY Zenon, <1>1, <1>2, Types DEF SenderTypeOK
    <2> DEFINE front == SubSeq(pending, 1, pos - 1)
               back == SubSeq(pending, pos + 1, Len(pending))
    <2>2. /\ front \in Seq(Request) /\ Len(front) = pos - 1
          /\ \A k \in 1 .. pos - 1 : front[k] = pending[k]
      BY <2>1
    <2>3. /\ back \in Seq(Request) /\ Len(back) = Len(pending) - pos
          /\ \A k \in 1 .. Len(pending) - pos : back[k] = pending[k + pos]
      BY <2>1
    <2>4. pending' = front \o back
      BY Zenon, <1>2 DEF Erased
    <2> HIDE DEF front, back
    <2>5. /\ pending' \in Seq(Request) /\ Len(pending') = Len(pending) - 1
          /\ \A k \in 1 .. Len(pending) - 1 :
               pending'[k] = IF k <= pos - 1 THEN front[k] ELSE back[k - (pos - 1)]
      <3>1. front \in Seq(Request) /\ back \in Seq(Request)
        BY Zenon, <2>2, <2>3
      <3>2. /\ pending' \in Seq(Request) /\ Len(pending') = Len(front) + Len(back)
            /\ \A k \in 1 .. Len(front) + Len(back) :
                 pending'[k] = IF k <= Len(front) THEN front[k] ELSE back[k - Len(front)]
        BY <3>1, <2>4
      <3>3. QED
        BY <3>2, <2>1, <2>2, <2>3
    <2>6. SenderPlaces' = 1 .. Len(pending) - 1
      BY <2>1, <2>5 DEF SenderPlaces
    <2>7. ASSUME NEW k \in 1 .. Len(pending) - 1
          PROVE  pending'[k] = IF k < pos THEN pending[k] ELSE pending[k + 1]
      <3>1. CASE k < pos
        BY <3>1, <2>1, <2>2, <2>5
      <3>2. CASE k >= pos
        <4>1. k - (pos - 1) \in 1 .. Len(pending) - pos
          BY <3>2, <2>1
        <4>2. pending'[k] = back[k - (pos - 1)]
          BY <3>2, <2>1, <2>5
        <4>3. back[k - (pos - 1)] = pending[(k - (pos - 1)) + pos]
          BY Zenon, <4>1, <2>3
        <4>4. (k - (pos - 1)) + pos = k + 1
          BY <2>1
        <4>5. QED
          BY <4>2, <4>3, <4>4, <3>2, <2>1
      <3>3. QED
        BY <3>1, <3>2, <2>1
    <2>8. SenderPlaces = 1 .. Len(pending)
      BY Zenon, <1>1, Types
    <2>9. QED
      BY Zenon, <2>5, <2>6, <2>7, <2>8
  <1>4. \A k \in SenderPlaces' : \E j \in SenderPlaces : j # pos /\ pending'[k] = pending[j]
    BY <1>2, <1>3
  <1>5. \A j \in SenderPlaces : j # pos => \E k \in SenderPlaces' : pending'[k] = pending[j]
    <2> SUFFICES ASSUME NEW j \in SenderPlaces, j # pos
                 PROVE  \E k \in SenderPlaces' : pending'[k] = pending[j]
      BY Zenon
    <2>1. CASE j < pos
      BY <2>1, <1>2, <1>3
    <2>2. CASE j > pos
      <3>1. j - 1 \in SenderPlaces' /\ pending'[j - 1] = pending[j]
        BY <2>2, <1>2, <1>3
      <3>2. QED
        BY Zenon, <3>1
    <2>3. j \in Nat /\ pos \in Nat
      BY <1>2, <1>3
    <2>4. QED
      BY <2>1, <2>2, <2>3
  <1>6. SenderTypeOK'
    <2>1. pos' \in 1 .. Len(pending') + 1
      BY <1>1, <1>2, <1>3, Types
    <2>2. QED
      BY Zenon, <1>1, <1>2, <1>3, <2>1 DEF SenderTypeOK
  <1>7. Genuine' /\ NotSentYet' /\ OneUndecided'
    BY Zenon, <1>2 DEF SenderInv, Genuine, NotSentYet, OneUndecided
  <1>8. OnePerItem'
    <2>1. \A k \in SenderPlaces' : content[pending'[k]] > 0 /\ future[pending'[k]] # "unused"
      BY <1>4 DEF SenderInv, OnePerItem
    <2>2. ASSUME NEW j \in SenderPlaces', NEW k \in SenderPlaces', content[pending'[j]] = content[pending'[k]]
          PROVE  j = k
      <3> DEFINE at(i) == IF i < pos THEN i ELSE i + 1
      <3>1. at(j) \in SenderPlaces /\ at(k) \in SenderPlaces
        BY <1>2, <1>3
      <3>2. pending'[j] = pending[at(j)] /\ pending'[k] = pending[at(k)]
        BY Zenon, <1>3
      <3>3. at(j) = at(k)
        BY Zenon, <2>2, <3>1, <3>2 DEF SenderInv, OnePerItem
      <3>4. QED
        BY <3>3, <1>2, <1>3
    <2>3. QED
      BY Zenon, <1>2, <2>1, <2>2 DEF OnePerItem
  <1>9. LeftDecided'
    BY <1>2, <1>5 DEF SenderInv, LeftDecided
  <1>10. ReadLast'
    <2> SUFFICES ASSUME NEW r \in Request, content[r] > 0, future[r] = "confirm",
                        \A k \in SenderPlaces' : pending'[k] # r, NEW k \in SenderPlaces'
                 PROVE  content[pending'[k]] # content[r]
      BY Zenon, <1>2 DEF ReadLast
    <2>1. PICK j \in SenderPlaces : j # pos /\ pending'[k] = pending[j]
      BY Zenon, <1>4
    <2>2. CASE r = pending[pos]
      BY Zenon, <2>1, <2>2, <1>2 DEF SenderInv, OnePerItem
    <2>3. CASE r # pending[pos]
      BY <2>1, <2>3, <1>5 DEF SenderInv, ReadLast
    <2>4. QED
      BY Zenon, <2>2, <2>3
  <1>11. Room'
    BY <1>1, <1>2, <1>3, Types DEF SenderInv, Room
  <1>12. Kept'
    <2>1. "confirm" \in handled[pending[pos]] /\ pending[pos] \in Request
      BY Zenon, <1>1, <1>2, Types DEF SenderInv, Genuine, Reply
    <2>2. QED
      BY <2>1, <1>2, <1>5 DEF SenderInv, Kept
  <1>13. QED
    BY Zenon, <1>6, <1>7, <1>8, <1>9, <1>10, <1>11, <1>12 DEF SenderInv

\* A request that was denied or failed is made again, in the same place of pending_.
LEMMA RepeatStep ==
  ASSUME SenderInv, Scan, future[Current] # NoReply, ~Confirmed
  PROVE  SenderInv'
  <1> USE Different
  <1> DEFINE old == pending[pos]
  <1>1. SenderTypeOK /\ Genuine
    BY Zenon DEF SenderInv
  <1>2. /\ pos \in SenderPlaces /\ old \in Request /\ sender = "scan"
        /\ UNCHANGED <<stopping, given, sender>> /\ pos' = pos + 1
    BY <1>1, Types DEF Scan, Confirmed, Current, SenderTypeOK
  <1>3. PICK r \in Request : /\ Submit(r, content[old])
                             /\ pending' = [pending EXCEPT ![pos] = r]
    BY Zenon DEF Scan, Confirmed, Current
  <1>4. content[old] \in 1 .. MaxSends /\ future[old] \in {"deny", Failed}
    BY <1>1, <1>2, Types DEF SenderInv, OnePerItem, Confirmed, Current, Reply
  <1>5. /\ future[r] = "unused" /\ content[r] = 0 /\ UNCHANGED handled
        /\ future' \in [Request -> Reply \cup {"unused", NoReply, Failed}]
        /\ content' \in [Request -> 0 .. MaxSends]
        /\ \A q \in Request : future'[q] = IF q = r THEN NoReply ELSE future[q]
        /\ \A q \in Request : content'[q] = IF q = r THEN content[old] ELSE content[q]
    <2>1. content[old] \in 0 .. MaxSends
      BY <1>4
    <2>2. QED
      BY Zenon, <1>1, <1>3, <2>1, SubmitMeaning
  <1>6. /\ Len(pending') = Len(pending) /\ pending' \in Seq(Request)
        /\ \A k \in SenderPlaces : pending'[k] = IF k = pos THEN r ELSE pending[k]
        /\ SenderPlaces' = SenderPlaces
    BY <1>1, <1>2, <1>3 DEF SenderTypeOK, SenderPlaces
  <1>7. \A k \in SenderPlaces : pending[k] \in Request /\ pending[k] # r
    BY Zenon, <1>1, <1>5, Types DEF SenderInv, OnePerItem
  <1>8. \A k \in SenderPlaces : content'[pending'[k]] = content[pending[k]]
    BY Zenon, <1>2, <1>5, <1>6, <1>7
  <1>9. \A q \in Request : q # r /\ content[q] = content[old] => future[q] \in {"deny", Failed}
    <2> SUFFICES ASSUME NEW q \in Request, q # r, content[q] = content[old]
                 PROVE  future[q] \in {"deny", Failed}
      BY Zenon
    <2>1. CASE \E k \in SenderPlaces : pending[k] = q
      BY Zenon, <2>1, <1>2, <1>4 DEF SenderInv, OnePerItem
    <2>2. CASE \A k \in SenderPlaces : pending[k] # q
      BY <2>2, <1>2, <1>4 DEF SenderInv, LeftDecided, ReadLast
    <2>3. QED
      BY Zenon, <2>1, <2>2
  <1>10. SenderTypeOK'
    <2>1. pos' \in 1 .. Len(pending') + 1
      BY <1>1, <1>2, <1>6, Types
    <2>2. QED
      BY Zenon, <1>1, <1>2, <1>5, <1>6, <2>1 DEF SenderTypeOK
  <1>11. Genuine' /\ NotSentYet'
    BY Zenon, <1>2, <1>5 DEF SenderInv, Genuine, NotSentYet, Reply
  <1>12. OnePerItem'
    <2>1. \A k \in SenderPlaces : future'[pending'[k]] # "unused"
      BY Zenon, <1>5, <1>6, <1>7 DEF SenderInv, OnePerItem
    <2>2. \A k \in SenderPlaces : content'[pending'[k]] > 0
      BY Zenon, <1>8 DEF SenderInv, OnePerItem
    <2>3. ASSUME NEW j \in SenderPlaces, NEW k \in SenderPlaces,
                 content'[pending'[j]] = content'[pending'[k]]
          PROVE  j = k
      <3>1. content[pending[j]] = content[pending[k]]
        BY Zenon, <2>3, <1>8
      <3>2. QED
        BY Zenon, <3>1 DEF SenderInv, OnePerItem
    <2>4. QED
      BY Zenon, <1>6, <2>1, <2>2, <2>3 DEF OnePerItem
  <1>13. LeftDecided'
    <2> SUFFICES ASSUME NEW q \in Request, content'[q] > 0,
                        \A k \in SenderPlaces : pending'[k] # q
                 PROVE  future'[q] \in {"confirm", "deny", Failed}
      BY Zenon, <1>6 DEF LeftDecided
    <2>1. q # r /\ content'[q] = content[q] /\ future'[q] = future[q]
      BY Zenon, <1>2, <1>5, <1>6
    <2>2. CASE q = old
      BY Zenon, <2>1, <2>2, <1>4
    <2>3. CASE q # old
      BY Zenon, <2>1, <2>3, <1>6 DEF SenderInv, LeftDecided
    <2>4. QED
      BY Zenon, <2>2, <2>3
  <1>14. ReadLast'
    <2> SUFFICES ASSUME NEW q \in Request, content'[q] > 0, future'[q] = "confirm",
                        \A k \in SenderPlaces : pending'[k] # q, NEW k \in SenderPlaces
                 PROVE  content[pending[k]] # content'[q]
      BY <1>6, <1>8 DEF ReadLast
    <2>1. q # r /\ q # old /\ content'[q] = content[q] /\ future'[q] = future[q]
      BY Zenon, <1>2, <1>4, <1>5, <1>6
    <2>2. \A j \in SenderPlaces : pending[j] # q
      BY Zenon, <2>1, <1>6
    <2>3. QED
      BY Zenon, <2>1, <2>2 DEF SenderInv, ReadLast
  <1>15. OneUndecided'
    <2> SUFFICES ASSUME NEW p \in Request, NEW q \in Request, p # q,
                        future'[p] \in {NoReply, "confirm"}, content'[p] > 0,
                        content'[q] = content'[p]
                 PROVE  future'[q] \in {"deny", Failed}
      BY Zenon DEF OneUndecided
    <2>1. CASE p = r
      BY Zenon, <2>1, <1>5, <1>9
    <2>2. CASE q = r
      BY Zenon, <2>2, <1>4, <1>5, <1>9
    <2>3. CASE p # r /\ q # r
      BY Zenon, <2>3, <1>5 DEF SenderInv, OneUndecided
    <2>4. QED
      BY Zenon, <2>1, <2>2, <2>3
  <1>16. Room'
    BY Zenon, <1>2, <1>6 DEF SenderInv, Room
  <1>17. Kept'
    <2> SUFFICES ASSUME NEW i \in 1 .. given
                 PROVE  \/ i = given /\ sender # "idle"
                        \/ \E k \in SenderPlaces : content[pending[k]] = i
                        \/ \E q \in Request : content'[q] = i /\ "confirm" \in handled[q]
      BY SMTT(30), <1>2, <1>5, <1>6, <1>8 DEF Kept
    <2>1. \A q \in Request : content[q] = i => content'[q] = i
      BY <1>5
    <2>2. QED
      BY Zenon, <2>1 DEF SenderInv, Kept
  <1>18. QED
    BY Zenon, <1>10, <1>11, <1>12, <1>13, <1>14, <1>15, <1>16, <1>17 DEF SenderInv

\* The future of the current request is not ready.
LEMMA PassStep ==
  ASSUME SenderInv, Scan, future[Current] = NoReply, ~Confirmed
  PROVE  SenderInv'
  <1>1. /\ UNCHANGED <<future, handled, content, pending, stopping, given, sender>>
        /\ pos' = pos + 1 /\ pos <= Len(pending)
    BY Zenon DEF Scan, transport
  <1>2. SenderTypeOK'
    BY SMTT(30), <1>1 DEF SenderInv, SenderTypeOK
  <1>3. QED
    BY Zenon, <1>1, <1>2 DEF SenderInv, Genuine, NotSentYet, OnePerItem, LeftDecided, ReadLast,
      OneUndecided, Room, Kept, SenderPlaces

\* The inductive invariant holds in every reachable state, whatever the servers reply and
\* whichever requests fail.
THEOREM SenderInvariance == SenderSpec => []SenderInv
  <1>1. SenderInv /\ UNCHANGED senderVars => SenderInv'
    BY DEF senderVars, SenderInv, SenderTypeOK, Genuine, NotSentYet, OnePerItem, LeftDecided, ReadLast,
      OneUndecided, Room, Kept, SenderPlaces
  <1>2. SenderInv /\ SenderNext => SenderInv'
    BY Zenon, <1>1, SenderStep, SendStep, ForgetStep, RepeatStep, PassStep, DeliverStep
      DEF SenderNext, OutOfRequests, Terminated
  <1>3. QED
    BY <1>1, <1>2, SenderInitial, PTL DEF SenderSpec

\* ZeroMQBufferedConsumer loses no item and has at most one request pending for it.
THEOREM NothingLost == SenderSpec => []NoItemLost
  <1>1. SenderInv => NoItemLost
    <2> SUFFICES ASSUME SenderInv, NEW i \in 1 .. given
                 PROVE  LET mine == {k \in DOMAIN pending : content[pending[k]] = i} IN
                        /\ Cardinality(mine) <= 1
                        /\ \/ i = given /\ sender # "idle"
                           \/ mine # {}
                           \/ \E r \in Request : content[r] = i /\ "confirm" \in handled[r]
      BY Zenon DEF NoItemLost
    <2> DEFINE mine == {k \in DOMAIN pending : content[pending[k]] = i}
    <2>1. CASE mine = {}
      BY <2>1, FS_EmptySet DEF SenderInv, Kept, SenderPlaces
    <2>2. CASE mine # {}
      <3>1. PICK k : mine = {k}
        BY Zenon, <2>2 DEF SenderInv, OnePerItem, SenderPlaces
      <3>2. Cardinality(mine) = 1
        BY Zenon, <3>1, FS_Singleton
      <3>3. QED
        BY <2>2, <3>2
    <2>3. QED
      BY Zenon, <2>1, <2>2
  <1>2. QED
    BY <1>1, SenderInvariance, PTL

\* pending_ keeps its bound, and no item has two requests that a server may still accept
\* or has accepted.
THEOREM NoNeedlessRequest == SenderSpec => []RequestsBounded
  <1>1. SenderInv => RequestsBounded
    BY ZmqConsumerAssumption DEF SenderInv, SenderTypeOK, Room, OneUndecided, RequestsBounded
  <1>2. QED
    BY <1>1, SenderInvariance, PTL
=============================================================================

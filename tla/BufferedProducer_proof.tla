----------------------- MODULE BufferedProducer_proof -----------------------
(***************************************************************************)
(* The safety properties of BufferedProducer hold for any number of        *)
(* producers, getters and items and for every maxQueueSize_, and those of  *)
(* ZmqBufferedProducer, which owns one, for every number of messages too:  *)
(* the part QInv of the invariant, and the steps that keep it, serve both. *)
(***************************************************************************)
EXTENDS ZmqBufferedProducer, FiniteSetTheorems, TLAPS

ProducerPlaces == {"check", "blocked", "fn", "result", "exit"}
GetterPlaces == {"idle", "check", "blocked"}
OwnerPlaces == {"constructing", "alive", "join", "dead"}

Working == {c \in Producers : pc[c] \in {"fn", "result"}}
Holding == {c \in Producers : result[c] # 0}
Unfinished == {c \in Producers : pc[c] # "exit"}

Sequences == queue \in Seq(SourceItems) /\ delivered \in Seq(SourceItems)

Typed ==
  /\ stop \in BOOLEAN /\ ended \in BOOLEAN
  /\ pc \in [Producers -> ProducerPlaces]
  /\ result \in [Producers -> 0 .. Source]
  /\ gpc \in [Getters -> GetterPlaces]
  /\ owner \in OwnerPlaces
  /\ produced \in 0 .. Source

\* working_ counts the calls of fn under way, which hold places in the queue.
WorkingCounted ==
  working = Cardinality(Working) /\ Len(queue) + working <= MaxQueueSize

\* Once it is set, running_ is at least the number of unfinished producers, and before
\* it lacks the number of producers.
RunningCounted ==
  /\ running \in Int /\ running <= Cardinality(Producers)
  /\ running + (IF owner = "constructing" THEN Cardinality(Producers) ELSE 0)
       >= Cardinality(Unfinished)

\* A producer holds an item only between fn and its queueing.
HandsAtResult == \A c \in Producers : result[c] # 0 => pc[c] = "result"

\* A producer ends only when fn has nothing left, or when it is stopped.
Exhausted ==
  \A c \in Producers :
    (pc[c] = "result" /\ result[c] = 0) \/ (pc[c] = "exit" /\ ~stop) => produced = Source

\* get() is not called before the constructor is done.
NotBefore == owner = "constructing" => \A g \in Getters : gpc[g] = "idle"

\* When get() has returned nothing all producers are gone.
Ended == ended => queue = << >> /\ produced = Source /\ Unfinished = {}

\* The inductive invariant, in two parts: QInv holds whatever fn does, EndInv because fn
\* returns nothing only when it has handed out everything.  Exhausted and RunningCounted
\* say why running_ = 0 is the end of the items, HandsAtResult why no finished producer
\* keeps one.
QInv ==
  /\ Sequences /\ Typed /\ WorkingCounted /\ RunningCounted
  /\ HandsAtResult /\ NotBefore /\ ExactlyOnce

EndInv == Exhausted /\ Ended

IInv == QInv /\ EndInv

-----------------------------------------------------------------------------

\* Sets of producers are finite, and their cardinalities behave.
LEMMA Sizes ==
  /\ Cardinality(Producers) \in Nat
  /\ \A S \in SUBSET Producers :
       /\ IsFiniteSet(S) /\ Cardinality(S) \in Nat /\ Cardinality(S) <= Cardinality(Producers)
       /\ Cardinality(S) = 0 => S = {}
       /\ \A c \in Producers :
            /\ c \in S => Cardinality(S \ {c}) = Cardinality(S) - 1
            /\ c \notin S => Cardinality(S \cup {c}) = Cardinality(S) + 1
  <1>1. IsFiniteSet(Producers) /\ Cardinality(Producers) \in Nat
    BY Zenon, ProducerAssumption, FS_CardinalityType
  <1>2. ASSUME NEW S \in SUBSET Producers
        PROVE  /\ IsFiniteSet(S) /\ Cardinality(S) \in Nat
               /\ Cardinality(S) <= Cardinality(Producers)
               /\ Cardinality(S) = 0 => S = {}
               /\ \A c \in Producers :
                    /\ c \in S => Cardinality(S \ {c}) = Cardinality(S) - 1
                    /\ c \notin S => Cardinality(S \cup {c}) = Cardinality(S) + 1
    <2>1. IsFiniteSet(S) /\ Cardinality(S) <= Cardinality(Producers)
      BY Zenon, <1>1, FS_Subset
    <2>2. Cardinality(S) \in Nat /\ (Cardinality(S) = 0 => S = {})
      BY Zenon, <2>1, FS_CardinalityType, FS_EmptySet
    <2>3. ASSUME NEW c \in Producers
          PROVE  /\ c \in S => Cardinality(S \ {c}) = Cardinality(S) - 1
                 /\ c \notin S => Cardinality(S \cup {c}) = Cardinality(S) + 1
      BY Zenon, <2>1, <2>2, FS_AddElement, FS_RemoveElement
    <2>4. QED
      BY Zenon, <2>1, <2>2, <2>3
  <1>3. QED
    BY Zenon, <1>1, <1>2

LEMMA InitIInv == Init => IInv
  <1> SUFFICES ASSUME Init PROVE IInv
    BY Zenon
  <1>1. Sequences
    BY DEF Init, Sequences
  <1>2. Typed
    <2>1. stop \in BOOLEAN /\ ended \in BOOLEAN
      BY Zenon DEF Init
    <2>2. 0 \in 0 .. Source
      BY ProducerAssumption
    <2>3. /\ pc \in [Producers -> ProducerPlaces] /\ result \in [Producers -> 0 .. Source]
          /\ gpc \in [Getters -> GetterPlaces]
      BY Zenon, <2>2 DEF Init, ProducerPlaces, GetterPlaces
    <2>4. QED
      BY Zenon, <2>1, <2>2, <2>3 DEF Typed, Init, OwnerPlaces
  <1>3. HandsAtResult /\ Exhausted /\ NotBefore /\ Ended
    BY Zenon DEF Init, HandsAtResult, Exhausted, NotBefore, Ended
  <1>4. Working = {} /\ Holding = {} /\ Unfinished = Producers
    BY Zenon DEF Init, Working, Holding, Unfinished
  <1>5. Cardinality({}) = 0 /\ Cardinality(Producers) \in Nat
    BY Zenon, FS_EmptySet, Sizes
  <1>6. Len(queue) = 0 /\ Len(delivered) = 0 /\ DOMAIN queue = {} /\ DOMAIN delivered = {}
    BY DEF Init
  <1>7. produced = 0 /\ working = 0 /\ running = 0 /\ owner = "constructing"
    BY Zenon DEF Init
  <1>8. WorkingCounted
    BY <1>4, <1>5, <1>6, <1>7, ProducerAssumption DEF WorkingCounted
  <1>9. RunningCounted
    BY <1>4, <1>5, <1>7 DEF RunningCounted
  <1>10. Queued \cup InHand \cup Delivered = 1 .. produced
    <2>1. Queued = {} /\ InHand = {} /\ Delivered = {}
      BY Zenon, <1>6 DEF Init, Queued, InHand, Delivered
    <2>2. 1 .. 0 = {}
      OBVIOUS
    <2>3. QED
      BY Zenon, <1>7, <2>1, <2>2
  <1>11. Len(queue) + Cardinality(Holding) + Len(delivered) = produced
    BY <1>4, <1>5, <1>6, <1>7
  <1>12. QED
    BY Zenon, <1>1, <1>2, <1>3, <1>8, <1>9, <1>10, <1>11 DEF IInv, QInv, EndInv, ExactlyOnce,
      Holding

\* Steps that only wake or block threads, call get(), or move the destructor on.
LEMMA MoveStep ==
  ASSUME QInv,
         UNCHANGED <<queue, working, running, result, produced, delivered, ended>>,
         stop' \in BOOLEAN, stop => stop',
         owner' \in OwnerPlaces, owner' = "constructing" <=> owner = "constructing",
         gpc' \in [Getters -> GetterPlaces],
         owner = "constructing" => \A g \in Getters : gpc'[g] = "idle",
         pc' \in [Producers -> ProducerPlaces],
         \A c \in Producers : \/ pc'[c] = pc[c]
                              \/ pc[c] \in {"check", "blocked"} /\ pc'[c] \in {"check", "blocked"}
  PROVE  QInv' /\ (EndInv => EndInv')
  <1>1. Working' = Working /\ Unfinished' = Unfinished
    BY Zenon DEF Working, Unfinished
  <1>2. Sequences' /\ ExactlyOnce'
    BY Zenon DEF QInv, Sequences, ExactlyOnce, Queued, InHand, Delivered
  <1>3. WorkingCounted' /\ RunningCounted'
    BY Zenon, <1>1 DEF QInv, WorkingCounted, RunningCounted
  <1>4. Typed'
    BY Zenon DEF QInv, Typed
  <1>5. HandsAtResult' /\ (Exhausted => Exhausted')
    BY Zenon DEF QInv, HandsAtResult, Exhausted
  <1>6. NotBefore' /\ (Ended => Ended')
    BY Zenon, <1>1 DEF QInv, NotBefore, Ended
  <1>7. QED
    BY Zenon, <1>2, <1>3, <1>4, <1>5, <1>6 DEF QInv, EndInv

\* notify_all only lets threads look at their predicates again.
LEMMA AwakeMeaning ==
  ASSUME Typed
  PROVE  /\ Awake(pc) \in [Producers -> ProducerPlaces]
         /\ Awake(gpc) \in [Getters -> GetterPlaces]
         /\ \A c \in Producers : \/ Awake(pc)[c] = pc[c]
                                 \/ pc[c] = "blocked" /\ Awake(pc)[c] = "check"
  <1>1. DOMAIN pc = Producers /\ DOMAIN gpc = Getters
    BY Zenon DEF Typed
  <1>2. \A c \in Producers : pc[c] \in ProducerPlaces
    BY Zenon DEF Typed
  <1>3. \A g \in Getters : gpc[g] \in GetterPlaces
    BY Zenon DEF Typed
  <1>4. /\ Awake(pc) = [c \in Producers |-> IF pc[c] = "blocked" THEN "check" ELSE pc[c]]
        /\ Awake(gpc) = [g \in Getters |-> IF gpc[g] = "blocked" THEN "check" ELSE gpc[g]]
    BY Zenon, <1>1 DEF Awake
  <1>5. QED
    BY Zenon, <1>2, <1>3, <1>4 DEF ProducerPlaces, GetterPlaces

\* A producer begins a call of fn when there is room, blocks when there is none, and exits
\* when it is stopped.
LEMMA BeginStep ==
  ASSUME QInv, NEW c \in Producers, Begin(c)
  PROVE  QInv' /\ (EndInv => EndInv')
  <1>1. CASE ~stop /\ ~Room
    <2>1. /\ UNCHANGED <<queue, working, running, result, produced, delivered, ended, stop, owner, gpc>>
          /\ pc' = [pc EXCEPT ![c] = "blocked"] /\ pc[c] = "check"
      BY Zenon, <1>1 DEF Begin
    <2>2. /\ pc' \in [Producers -> ProducerPlaces]
          /\ \A d \in Producers : \/ pc'[d] = pc[d]
                                  \/ pc[d] \in {"check", "blocked"} /\ pc'[d] \in {"check", "blocked"}
      BY Zenon, <2>1 DEF QInv, Typed, ProducerPlaces
    <2>3. QED
      BY Zenon, <2>1, <2>2, MoveStep DEF QInv, Typed, NotBefore
  <1>2. CASE stop \/ Room
    <2>1. /\ UNCHANGED <<queue, stop, running, result, gpc, owner, produced, delivered, ended>>
          /\ pc[c] = "check" /\ pc' \in [Producers -> ProducerPlaces]
          /\ \A d \in Producers \ {c} : pc'[d] = pc[d]
      BY Zenon, <1>2 DEF Begin, QInv, Typed, ProducerPlaces
    <2>2. \/ stop /\ pc'[c] = "exit" /\ working' = working
          \/ ~stop /\ Room /\ pc'[c] = "fn" /\ working' = working + 1
      BY Zenon, <1>2 DEF Begin, QInv, Typed, ProducerPlaces
    <2>3. Sequences' /\ ExactlyOnce'
      BY Zenon, <2>1 DEF QInv, Sequences, ExactlyOnce, Queued, InHand, Delivered
    <2>4. Typed' /\ NotBefore'
      BY Zenon, <2>1 DEF QInv, Typed, NotBefore
    <2>5. WorkingCounted'
      <3>1. CASE pc'[c] = "exit"
        <4>1. Working' = Working
          BY Zenon, <2>1, <3>1 DEF Working
        <4>2. QED
          BY Zenon, <2>1, <2>2, <3>1, <4>1 DEF QInv, WorkingCounted
      <3>2. CASE pc'[c] = "fn"
        <4>1. Working' = Working \cup {c} /\ c \notin Working /\ Working \in SUBSET Producers
          BY Zenon, <2>1, <3>2 DEF Working
        <4>2. Cardinality(Working') = Cardinality(Working) + 1
          BY Zenon, <4>1, Sizes
        <4>3. Len(queue) \in Nat /\ Cardinality(Working) \in Nat
          BY <4>1, Sizes DEF QInv, Sequences
        <4>4. QED
          BY <2>1, <2>2, <3>2, <4>2, <4>3, ProducerAssumption DEF QInv, WorkingCounted, Room
      <3>3. QED
        BY Zenon, <2>2, <3>1, <3>2
    <2>6. RunningCounted'
      <3>1. Unfinished' \subseteq Unfinished /\ Unfinished \in SUBSET Producers
        BY Zenon, <2>1 DEF Unfinished
      <3>2. Cardinality(Unfinished') <= Cardinality(Unfinished)
        BY Zenon, <3>1, Sizes, FS_Subset
      <3>3. Cardinality(Unfinished) \in Nat /\ Cardinality(Unfinished') \in Nat
        BY Zenon, <3>1, Sizes
      <3>4. QED
        BY <2>1, <3>2, <3>3, Sizes DEF QInv, RunningCounted
    <2>7. HandsAtResult' /\ (Exhausted => Exhausted')
      BY Zenon, <2>1, <2>2 DEF QInv, HandsAtResult, Exhausted
    <2>8. Ended => Ended'
      BY Zenon, <2>1 DEF QInv, Ended, Unfinished
    <2>9. QED
      BY Zenon, <2>3, <2>4, <2>5, <2>6, <2>7, <2>8 DEF QInv, EndInv
  <1>3. QED
    BY Zenon, <1>1, <1>2

\* fn gives a producer the next item, or nothing.
LEMMA ResultStep ==
  ASSUME QInv, NEW c \in Producers, pc[c] = "fn",
         pc' = [pc EXCEPT ![c] = "result"],
         UNCHANGED <<queue, stop, working, running, gpc, owner, delivered, ended>>,
         \/ /\ result' = [result EXCEPT ![c] = produced + 1]
            /\ produced' = produced + 1 /\ produced < Source
         \/ result' = [result EXCEPT ![c] = 0] /\ produced' = produced
  PROVE  QInv'
  <1>1. /\ UNCHANGED <<queue, stop, working, running, gpc, owner, delivered, ended>>
        /\ pc[c] = "fn" /\ pc' = [pc EXCEPT ![c] = "result"]
    BY Zenon
  <1>2. /\ pc' \in [Producers -> ProducerPlaces] /\ pc'[c] = "result"
        /\ \A d \in Producers \ {c} : pc'[d] = pc[d]
    BY Zenon, <1>1 DEF QInv, Typed, ProducerPlaces
  <1>3. result[c] = 0 /\ Source \in Nat /\ produced \in Nat /\ produced <= Source
    BY <1>1, ProducerAssumption DEF QInv, HandsAtResult, Typed
  <1>4. /\ result' \in [Producers -> 0 .. Source]
        /\ \A d \in Producers \ {c} : result'[d] = result[d]
        /\ \/ result'[c] = produced + 1 /\ produced' = produced + 1 /\ produced < Source
           \/ result'[c] = 0 /\ produced' = produced
    BY <1>3 DEF QInv, Typed
  <1>5. Working' = Working /\ Unfinished' = Unfinished
    BY Zenon, <1>1, <1>2 DEF Working, Unfinished
  <1>6. Sequences' /\ WorkingCounted' /\ RunningCounted'
    BY Zenon, <1>1, <1>5 DEF QInv, Sequences, WorkingCounted, RunningCounted
  <1>7. Typed' /\ NotBefore'
    BY <1>1, <1>2, <1>3, <1>4 DEF QInv, Typed, NotBefore
  <1>8. HandsAtResult'
    BY Zenon, <1>1, <1>2, <1>3, <1>4 DEF QInv, HandsAtResult
  <1>9. ExactlyOnce'
    <2>1. Queued' = Queued /\ Delivered' = Delivered
      BY <1>1 DEF Queued, Delivered
    <2>2. CASE produced' = produced + 1 /\ result'[c] = produced + 1
      <3>1. InHand' = InHand \cup {produced + 1}
        BY <1>3, <1>4, <2>2 DEF InHand
      <3>2. 1 .. produced' = (1 .. produced) \cup {produced + 1}
        BY <1>3, <2>2
      <3>3. Holding' = Holding \cup {c} /\ c \notin Holding /\ Holding \in SUBSET Producers
        BY <1>3, <1>4, <2>2 DEF Holding
      <3>4. Cardinality(Holding') = Cardinality(Holding) + 1 /\ Cardinality(Holding) \in Nat
        BY Zenon, <3>3, Sizes
      <3>5. Queued' \cup InHand' \cup Delivered' = 1 .. produced'
        BY Zenon, <2>1, <3>1, <3>2 DEF QInv, ExactlyOnce
      <3>6. Len(queue) + Cardinality(Holding) + Len(delivered) = produced
        BY Zenon DEF QInv, ExactlyOnce, Holding
      <3>7. Len(queue) \in Nat /\ Len(delivered) \in Nat
        BY DEF QInv, Sequences
      <3>8. Len(queue') + Cardinality(Holding') + Len(delivered') = produced'
        BY <1>1, <2>2, <3>4, <3>6, <3>7
      <3>9. QED
        BY Zenon, <3>5, <3>8 DEF ExactlyOnce, Holding
    <2>3. CASE produced' = produced /\ result'[c] = 0
      <3>1. result' = result
        BY <1>3, <1>4, <2>3 DEF QInv, Typed
      <3>2. InHand' = InHand /\ queue' = queue /\ delivered' = delivered /\ produced' = produced
        BY SMTT(30), <1>1, <2>3, <3>1 DEF InHand
      <3>3. QED
        BY Zenon, <2>1, <3>1, <3>2 DEF QInv, ExactlyOnce
    <2>4. QED
      BY Zenon, <1>4, <2>2, <2>3
  <1>10. QED
    BY Zenon, <1>6, <1>7, <1>8, <1>9 DEF QInv

\* fn of the module BufferedProducer returns nothing only when no item is left.
LEMMA FnStep ==
  ASSUME QInv, NEW c \in Producers, Fn(c)
  PROVE  QInv' /\ (EndInv => EndInv')
  <1>1. /\ UNCHANGED <<queue, stop, working, running, gpc, owner, delivered, ended>>
        /\ pc[c] = "fn" /\ pc' = [pc EXCEPT ![c] = "result"]
    BY Zenon DEF Fn
  <1>2. \/ /\ result' = [result EXCEPT ![c] = produced + 1]
           /\ produced' = produced + 1 /\ produced < Source
        \/ result' = [result EXCEPT ![c] = 0] /\ produced' = produced /\ produced = Source
    BY Zenon DEF Fn
  <1>3. QInv'
    BY Zenon, <1>1, <1>2, ResultStep
  <1>4. /\ pc'[c] = "result" /\ \A d \in Producers \ {c} : pc'[d] = pc[d] /\ result'[d] = result[d]
        /\ produced \in Nat /\ Source \in Nat
    BY <1>1, <1>2, ProducerAssumption DEF QInv, Typed
  <1>5. result'[c] = 0 => produced' = Source
    BY <1>2, <1>4 DEF QInv, Typed
  <1>6. Exhausted => Exhausted'
    BY <1>1, <1>2, <1>4, <1>5 DEF Exhausted
  <1>7. Ended => Ended'
    BY Zenon, <1>1, <1>4 DEF Ended, Unfinished
  <1>8. QED
    BY Zenon, <1>3, <1>6, <1>7 DEF EndInv

\* A producer whose fn had nothing more counts itself off.
LEMMA FinishStep ==
  ASSUME QInv, NEW c \in Producers, Finish(c)
  PROVE  QInv' /\ (EndInv => EndInv')
  <1>1. /\ UNCHANGED <<queue, stop, result, owner, produced, delivered, ended>>
        /\ pc[c] = "result" /\ result[c] = 0
        /\ working' = working - 1 /\ running' = running - 1
        /\ pc' = [Awake(pc) EXCEPT ![c] = "exit"] /\ gpc' = Awake(gpc)
    BY Zenon DEF Finish
  <1>2. /\ pc' \in [Producers -> ProducerPlaces] /\ pc'[c] = "exit"
        /\ \A d \in Producers \ {c} : pc'[d] = pc[d] \/ (pc[d] = "blocked" /\ pc'[d] = "check")
        /\ gpc' \in [Getters -> GetterPlaces]
    BY Zenon, <1>1, AwakeMeaning DEF QInv, ProducerPlaces
  <1>3. /\ Working' = Working \ {c} /\ c \in Working /\ Working \in SUBSET Producers
        /\ Unfinished' = Unfinished \ {c} /\ c \in Unfinished /\ Unfinished \in SUBSET Producers
    BY Zenon, <1>1, <1>2 DEF Working, Unfinished
  <1>4. /\ Cardinality(Working') = Cardinality(Working) - 1 /\ Cardinality(Working) \in Nat
        /\ Cardinality(Unfinished') = Cardinality(Unfinished) - 1
        /\ Cardinality(Unfinished) \in Nat /\ Cardinality(Producers) \in Nat
    BY Zenon, <1>3, Sizes
  <1>5. Sequences' /\ ExactlyOnce'
    BY Zenon, <1>1 DEF QInv, Sequences, ExactlyOnce, Queued, InHand, Delivered
  <1>6. Len(queue) \in Nat
    BY DEF QInv, Sequences
  <1>7. WorkingCounted'
    BY <1>1, <1>4, <1>6, ProducerAssumption DEF QInv, WorkingCounted
  <1>8. RunningCounted'
    BY <1>1, <1>4 DEF QInv, RunningCounted
  <1>9. Typed'
    BY Zenon, <1>1, <1>2 DEF QInv, Typed
  <1>10. NotBefore'
    BY Zenon, <1>1 DEF QInv, NotBefore, Typed, Awake
  <1>11. HandsAtResult' /\ (Exhausted => Exhausted')
    BY Zenon, <1>1, <1>2 DEF QInv, HandsAtResult, Exhausted
  <1>12. Ended => Ended'
    BY Zenon, <1>1, <1>3 DEF QInv, Ended
  <1>13. QED
    BY Zenon, <1>5, <1>7, <1>8, <1>9, <1>10, <1>11, <1>12 DEF QInv, EndInv

\* A producer queues its item.
LEMMA PushStep ==
  ASSUME QInv, NEW c \in Producers, Push(c)
  PROVE  QInv' /\ (EndInv => EndInv')
  <1>1. /\ UNCHANGED <<stop, running, owner, produced, delivered, ended>>
        /\ pc[c] = "result" /\ result[c] # 0
        /\ working' = working - 1
        /\ queue' = Append(queue, result[c])
        /\ result' = [result EXCEPT ![c] = 0]
        /\ pc' = [Awake(pc) EXCEPT ![c] = "check"] /\ gpc' = Awake(gpc)
    BY Zenon DEF Push
  <1>2. /\ pc' \in [Producers -> ProducerPlaces] /\ pc'[c] = "check"
        /\ \A d \in Producers \ {c} : pc'[d] = pc[d] \/ (pc[d] = "blocked" /\ pc'[d] = "check")
        /\ gpc' \in [Getters -> GetterPlaces]
    BY Zenon, <1>1, AwakeMeaning DEF QInv, ProducerPlaces
  <1>3. /\ Working' = Working \ {c} /\ c \in Working /\ Working \in SUBSET Producers
        /\ Unfinished' = Unfinished
    BY Zenon, <1>1, <1>2 DEF Working, Unfinished
  <1>4. /\ result' \in [Producers -> 0 .. Source] /\ result'[c] = 0 /\ result[c] \in SourceItems
        /\ \A d \in Producers \ {c} : result'[d] = result[d]
    BY <1>1, ProducerAssumption DEF QInv, Typed, SourceItems
  <1>5. /\ Holding' = Holding \ {c} /\ c \in Holding /\ Holding \in SUBSET Producers
    BY Zenon, <1>1, <1>4 DEF Holding
  <1>6. /\ Cardinality(Working') = Cardinality(Working) - 1 /\ Cardinality(Working) \in Nat
        /\ Cardinality(Holding') = Cardinality(Holding) - 1 /\ Cardinality(Holding) \in Nat
    BY Zenon, <1>3, <1>5, Sizes
  <1>7. /\ queue' \in Seq(SourceItems) /\ Len(queue') = Len(queue) + 1 /\ Len(queue) \in Nat
        /\ DOMAIN queue = 1 .. Len(queue) /\ DOMAIN queue' = 1 .. Len(queue')
        /\ \A i \in 1 .. Len(queue) : queue'[i] = queue[i]
        /\ queue'[Len(queue) + 1] = result[c]
    BY <1>1, <1>4 DEF QInv, Sequences
  <1>8. Sequences'
    BY Zenon, <1>1, <1>7 DEF QInv, Sequences
  <1>9. WorkingCounted'
    BY <1>1, <1>6, <1>7, ProducerAssumption DEF QInv, WorkingCounted
  <1>10. RunningCounted'
    BY Zenon, <1>1, <1>3 DEF QInv, RunningCounted
  <1>11. Typed'
    BY Zenon, <1>1, <1>2, <1>4 DEF QInv, Typed
  <1>12. NotBefore'
    BY Zenon, <1>1 DEF QInv, NotBefore, Typed, Awake
  <1>13. HandsAtResult' /\ (Exhausted => Exhausted')
    BY <1>1, <1>2, <1>4 DEF QInv, HandsAtResult, Exhausted
  <1>14. Ended => Ended'
    BY Zenon, <1>1 DEF Ended, Unfinished
  <1>15. ExactlyOnce'
    <2>1. Queued' = Queued \cup {result[c]}
      <3>1. ASSUME NEW i \in DOMAIN queue' PROVE queue'[i] \in Queued \cup {result[c]}
        BY <1>7, <3>1 DEF Queued
      <3>2. ASSUME NEW i \in DOMAIN queue PROVE queue[i] \in Queued'
        <4>1. i \in DOMAIN queue' /\ queue'[i] = queue[i]
          BY <1>7, <3>2
        <4>2. QED
          BY Zenon, <4>1 DEF Queued
      <3>3. result[c] \in Queued'
        <4>1. Len(queue) + 1 \in DOMAIN queue'
          BY <1>7
        <4>2. QED
          BY Zenon, <1>7, <4>1 DEF Queued
      <3>4. QED
        BY Zenon, <3>1, <3>2, <3>3 DEF Queued
    <2>2. InHand \cup {result[c]} = InHand' \cup {result[c]}
      BY Zenon, <1>1, <1>4 DEF InHand
    <2>3. result[c] \in InHand
      BY Zenon, <1>1 DEF InHand
    <2>4. Delivered' = Delivered
      BY Zenon, <1>1 DEF Delivered
    <2>5. Queued' \cup InHand' \cup Delivered' = Queued \cup InHand \cup Delivered
      BY Zenon, <2>1, <2>2, <2>3, <2>4
    <2>6. Len(queue) + Cardinality(Holding) + Len(delivered) = produced
      BY Zenon DEF QInv, ExactlyOnce, Holding
    <2>7. Len(delivered) \in Nat
      BY DEF QInv, Sequences
    <2>8. Len(queue') + Cardinality(Holding') + Len(delivered') = produced'
      BY <1>1, <1>6, <1>7, <2>6, <2>7
    <2>9. Queued' \cup InHand' \cup Delivered' = 1 .. produced'
      BY Zenon, <1>1, <2>5 DEF QInv, ExactlyOnce
    <2>10. QED
      BY Zenon, <2>8, <2>9 DEF ExactlyOnce, Holding
  <1>16. QED
    BY Zenon, <1>8, <1>9, <1>10, <1>11, <1>12, <1>13, <1>14, <1>15 DEF QInv, EndInv

\* get() takes the oldest item.
LEMMA GetItemStep ==
  ASSUME QInv, NEW g \in Getters, GetItem(g)
  PROVE  QInv' /\ (EndInv => EndInv')
  <1>1. /\ UNCHANGED <<stop, working, running, result, owner, produced, ended>>
        /\ gpc[g] = "check" /\ queue # << >>
        /\ delivered' = Append(delivered, Head(queue)) /\ queue' = Tail(queue)
        /\ gpc' = [Awake(gpc) EXCEPT ![g] = "idle"] /\ pc' = Awake(pc)
    BY Zenon DEF GetItem
  <1>2. /\ pc' \in [Producers -> ProducerPlaces]
        /\ \A d \in Producers : pc'[d] = pc[d] \/ (pc[d] = "blocked" /\ pc'[d] = "check")
        /\ gpc' \in [Getters -> GetterPlaces]
    BY Zenon, <1>1, AwakeMeaning DEF QInv, GetterPlaces
  <1>3. Working' = Working /\ Unfinished' = Unfinished
    BY Zenon, <1>2 DEF Working, Unfinished
  <1>4. /\ queue' \in Seq(SourceItems) /\ Len(queue') = Len(queue) - 1
        /\ Len(queue) \in Nat /\ Len(queue) >= 1
        /\ DOMAIN queue = 1 .. Len(queue) /\ DOMAIN queue' = 1 .. Len(queue')
        /\ \A i \in 1 .. Len(queue') : queue'[i] = queue[i + 1]
        /\ Head(queue) = queue[1] /\ queue[1] \in SourceItems
    BY <1>1 DEF QInv, Sequences
  <1>5. /\ delivered' \in Seq(SourceItems) /\ Len(delivered') = Len(delivered) + 1
        /\ Len(delivered) \in Nat
        /\ DOMAIN delivered = 1 .. Len(delivered) /\ DOMAIN delivered' = 1 .. Len(delivered')
        /\ \A i \in 1 .. Len(delivered) : delivered'[i] = delivered[i]
        /\ delivered'[Len(delivered) + 1] = queue[1]
    BY <1>1, <1>4 DEF QInv, Sequences
  <1>6. Sequences'
    BY Zenon, <1>4, <1>5 DEF Sequences
  <1>7. WorkingCounted' /\ RunningCounted'
    <2>1. Cardinality(Working) \in Nat
      BY Zenon, Sizes DEF Working
    <2>2. QED
      BY <1>1, <1>3, <1>4, <2>1, ProducerAssumption DEF QInv, WorkingCounted, RunningCounted
  <1>8. Typed'
    BY Zenon, <1>1, <1>2 DEF QInv, Typed
  <1>9. NotBefore'
    BY Zenon, <1>1 DEF QInv, NotBefore
  <1>10. HandsAtResult' /\ (Exhausted => Exhausted')
    BY Zenon, <1>1, <1>2 DEF QInv, HandsAtResult, Exhausted
  <1>11. Ended => Ended'
    BY Zenon, <1>1 DEF QInv, Ended
  <1>12. ExactlyOnce'
    <2>1. Queued = Queued' \cup {queue[1]}
      <3>1. ASSUME NEW i \in DOMAIN queue PROVE queue[i] \in Queued' \cup {queue[1]}
        <4>1. CASE i = 1
          BY Zenon, <4>1
        <4>2. CASE i # 1
          <5>1. i - 1 \in DOMAIN queue' /\ queue'[i - 1] = queue[i]
            BY <1>4, <3>1, <4>2
          <5>2. QED
            BY Zenon, <5>1 DEF Queued
        <4>3. QED
          BY Zenon, <4>1, <4>2
      <3>2. ASSUME NEW i \in DOMAIN queue' PROVE queue'[i] \in Queued
        <4>1. i + 1 \in DOMAIN queue /\ queue'[i] = queue[i + 1]
          BY <1>4, <3>2
        <4>2. QED
          BY Zenon, <4>1 DEF Queued
      <3>3. queue[1] \in Queued
        BY <1>4 DEF Queued
      <3>4. QED
        BY Zenon, <3>1, <3>2, <3>3 DEF Queued
    <2>2. Delivered' = Delivered \cup {queue[1]}
      <3>1. ASSUME NEW i \in DOMAIN delivered' PROVE delivered'[i] \in Delivered \cup {queue[1]}
        BY <1>5, <3>1 DEF Delivered
      <3>2. ASSUME NEW i \in DOMAIN delivered PROVE delivered[i] \in Delivered'
        <4>1. i \in DOMAIN delivered' /\ delivered'[i] = delivered[i]
          BY <1>5, <3>2
        <4>2. QED
          BY Zenon, <4>1 DEF Delivered
      <3>3. queue[1] \in Delivered'
        <4>1. Len(delivered) + 1 \in DOMAIN delivered'
          BY <1>5
        <4>2. QED
          BY Zenon, <1>5, <4>1 DEF Delivered
      <3>4. QED
        BY Zenon, <3>1, <3>2, <3>3 DEF Delivered
    <2>3. InHand' = InHand /\ Holding' = Holding
      BY Zenon, <1>1 DEF InHand, Holding
    <2>4. Queued' \cup InHand' \cup Delivered' = Queued \cup InHand \cup Delivered
      BY Zenon, <2>1, <2>2, <2>3
    <2>5. Len(queue) + Cardinality(Holding) + Len(delivered) = produced
      BY Zenon DEF QInv, ExactlyOnce, Holding
    <2>6. Cardinality(Holding) \in Nat
      BY Zenon, Sizes DEF Holding
    <2>7. Len(queue') + Cardinality(Holding') + Len(delivered') = produced'
      BY <1>1, <1>4, <1>5, <2>3, <2>5, <2>6
    <2>8. Queued' \cup InHand' \cup Delivered' = 1 .. produced'
      BY Zenon, <1>1, <2>4 DEF QInv, ExactlyOnce
    <2>9. QED
      BY Zenon, <2>7, <2>8 DEF ExactlyOnce, Holding
  <1>13. QED
    BY Zenon, <1>6, <1>7, <1>8, <1>9, <1>10, <1>11, <1>12 DEF QInv, EndInv

\* running_ = 0 while the object lives means that all producers ended because fn had
\* nothing more.
LEMMA NothingLeftMeaning ==
  ASSUME QInv, Exhausted, NothingLeft, owner # "constructing", ~stop
  PROVE  produced = Source /\ Unfinished = {}
  <1>1. Unfinished \in SUBSET Producers /\ Cardinality(Unfinished) \in Nat
    BY Zenon, Sizes DEF Unfinished
  <1>2. Cardinality(Unfinished) = 0
    BY <1>1 DEF QInv, RunningCounted, NothingLeft
  <1>3. Unfinished = {}
    BY Zenon, <1>1, <1>2, Sizes
  <1>4. PICK c \in Producers : TRUE
    BY Zenon, ProducerAssumption
  <1>5. pc[c] = "exit"
    BY Zenon, <1>3, <1>4 DEF Unfinished
  <1>6. QED
    BY Zenon, <1>3, <1>5 DEF Exhausted

\* get() finds no item: it throws, returns nothing, or blocks.
LEMMA GetNothingStep ==
  ASSUME QInv, NEW g \in Getters, GetNothing(g)
  PROVE  QInv' /\ (EndInv => EndInv')
  <1>1. /\ UNCHANGED <<queue, stop, working, running, pc, result, owner, produced, delivered>>
        /\ gpc[g] = "check" /\ ended' = (ended \/ (~stop /\ NothingLeft))
    BY Zenon DEF GetNothing
  <1>2. owner # "constructing"
    BY Zenon, <1>1 DEF QInv, NotBefore
  <1>3. gpc' \in [Getters -> GetterPlaces]
    BY Zenon DEF GetNothing, QInv, Typed, GetterPlaces
  <1>4. Working' = Working /\ Unfinished' = Unfinished
    BY Zenon, <1>1 DEF Working, Unfinished
  <1>5. Sequences' /\ ExactlyOnce'
    BY Zenon, <1>1 DEF QInv, Sequences, ExactlyOnce, Queued, InHand, Delivered
  <1>6. WorkingCounted' /\ RunningCounted'
    BY Zenon, <1>1, <1>4 DEF QInv, WorkingCounted, RunningCounted
  <1>7. Typed'
    BY Zenon, <1>1, <1>3 DEF QInv, Typed
  <1>8. HandsAtResult' /\ (Exhausted => Exhausted')
    BY Zenon, <1>1 DEF QInv, HandsAtResult, Exhausted
  <1>9. NotBefore'
    BY Zenon, <1>1, <1>2 DEF NotBefore
  <1>10. Exhausted /\ Ended => Ended'
    <2> SUFFICES ASSUME Exhausted, Ended, ended' PROVE Ended'
      BY Zenon DEF Ended
    <2>1. CASE ended
      BY Zenon, <1>1, <1>4, <2>1 DEF Ended
    <2>2. CASE ~stop /\ NothingLeft
      BY Zenon, <1>1, <1>2, <1>4, <2>2, NothingLeftMeaning DEF Ended, NothingLeft
    <2>3. QED
      BY Zenon, <1>1, <2>1, <2>2
  <1>11. QED
    BY Zenon, <1>5, <1>6, <1>7, <1>8, <1>9, <1>10 DEF QInv, EndInv

\* The constructor sets running_, whatever the producers have made of it.
LEMMA ConstructStep ==
  ASSUME QInv, Construct
  PROVE  QInv' /\ (EndInv => EndInv')
  <1>1. /\ UNCHANGED <<queue, stop, working, pc, result, gpc, produced, delivered, ended>>
        /\ running' = Cardinality(Producers) /\ owner' = "alive"
    BY Zenon DEF Construct
  <1>2. Working' = Working /\ Unfinished' = Unfinished
    BY Zenon, <1>1 DEF Working, Unfinished
  <1>3. Sequences' /\ ExactlyOnce'
    BY Zenon, <1>1 DEF QInv, Sequences, ExactlyOnce, Queued, InHand, Delivered
  <1>4. WorkingCounted'
    BY Zenon, <1>1, <1>2 DEF QInv, WorkingCounted
  <1>5. RunningCounted'
    <2>1. Cardinality(Unfinished) <= Cardinality(Producers) /\ Cardinality(Producers) \in Nat
      BY Zenon, Sizes DEF Unfinished
    <2>2. QED
      BY <1>1, <1>2, <2>1 DEF RunningCounted
  <1>6. Typed'
    BY Zenon, <1>1 DEF QInv, Typed, OwnerPlaces
  <1>7. HandsAtResult' /\ NotBefore' /\ (Exhausted => Exhausted')
    BY Zenon, <1>1 DEF QInv, HandsAtResult, Exhausted, NotBefore
  <1>8. Ended => Ended'
    BY Zenon, <1>1, <1>2 DEF QInv, Ended
  <1>9. QED
    BY Zenon, <1>3, <1>4, <1>5, <1>6, <1>7, <1>8 DEF QInv, EndInv

\* Calls of get(), the destructor and spurious wake-ups only move threads.
LEMMA OthersKeep ==
  ASSUME QInv, (\E g \in Getters : CallGet(g)) \/ Stop \/ Join \/ Spurious \/ UNCHANGED vars
  PROVE  QInv' /\ (EndInv => EndInv')
  <1> DEFINE Same == UNCHANGED <<queue, working, running, result, produced, delivered, ended>>
             Woken == /\ pc' \in [Producers -> ProducerPlaces]
                      /\ \A c \in Producers :
                           \/ pc'[c] = pc[c]
                           \/ pc[c] \in {"check", "blocked"} /\ pc'[c] \in {"check", "blocked"}
             Getting == /\ gpc' \in [Getters -> GetterPlaces]
                        /\ owner = "constructing" => \A g \in Getters : gpc'[g] = "idle"
             Owner == /\ stop' \in BOOLEAN /\ (stop => stop') /\ owner' \in OwnerPlaces
                      /\ owner' = "constructing" <=> owner = "constructing"
  <1>1. ASSUME NEW g \in Getters, CallGet(g) PROVE Same /\ Woken /\ Getting /\ Owner
    <2>1. Same /\ pc' = pc /\ stop' = stop /\ owner' = owner /\ owner = "alive"
      BY Zenon, <1>1 DEF CallGet
    <2>2. gpc' \in [Getters -> GetterPlaces]
      BY Zenon, <1>1 DEF CallGet, QInv, Typed, GetterPlaces
    <2>3. QED
      BY Zenon, <2>1, <2>2 DEF QInv, Typed
  <1>2. CASE Stop
    <2>1. Same /\ pc' = Awake(pc) /\ gpc' = Awake(gpc)
      BY Zenon, <1>2 DEF Stop
    <2>2. stop' = TRUE /\ owner' = "join" /\ owner = "alive"
      BY Zenon, <1>2 DEF Stop
    <2>3. Woken /\ Getting
      BY Zenon, <2>1, <2>2, AwakeMeaning DEF QInv
    <2>4. Owner
      BY Zenon, <2>2 DEF OwnerPlaces
    <2>5. Same /\ Woken /\ Getting /\ Owner
      BY Zenon, <2>1, <2>3, <2>4
    <2>6. QED
      BY Zenon, <2>5, MoveStep
  <1>3. CASE Join
    <2>1. Same /\ pc' = pc /\ gpc' = gpc /\ stop' = stop /\ owner' = "dead" /\ owner = "join"
      BY Zenon, <1>3 DEF Join
    <2>2. Same /\ Woken /\ Getting /\ Owner
      BY Zenon, <2>1 DEF QInv, Typed, OwnerPlaces
    <2>3. QED
      BY Zenon, <2>2, MoveStep
  <1>4. CASE Spurious
    <2>1. Same /\ stop' = stop /\ owner' = owner
      BY Zenon, <1>4 DEF Spurious
    <2>2. Owner
      BY Zenon, <2>1 DEF QInv, Typed
    <2>3. Woken
      <3>1. ASSUME NEW c \in Producers, pc[c] = "blocked", pc' = [pc EXCEPT ![c] = "check"]
            PROVE  Woken
        BY Zenon, <3>1 DEF QInv, Typed, ProducerPlaces
      <3>2. CASE pc' = pc
        BY Zenon, <3>2 DEF QInv, Typed
      <3>3. QED
        BY Zenon, <1>4, <3>1, <3>2 DEF Spurious
    <2>4. Getting
      <3>1. ASSUME NEW g \in Getters, gpc[g] = "blocked", gpc' = [gpc EXCEPT ![g] = "check"]
            PROVE  Getting
        BY Zenon, <3>1 DEF QInv, Typed, NotBefore, GetterPlaces
      <3>2. CASE gpc' = gpc
        BY Zenon, <3>2 DEF QInv, Typed, NotBefore
      <3>3. QED
        BY Zenon, <1>4, <3>1, <3>2 DEF Spurious
    <2>5. QED
      BY Zenon, <2>1, <2>2, <2>3, <2>4, MoveStep
  <1>5. CASE UNCHANGED vars
    <2>1. Same /\ pc' = pc /\ gpc' = gpc /\ stop' = stop /\ owner' = owner
      BY Zenon, <1>5 DEF vars
    <2>2. Same /\ Woken /\ Getting /\ Owner
      BY Zenon, <2>1 DEF QInv, Typed, NotBefore
    <2>3. QED
      BY Zenon, <2>2, MoveStep
  <1>6. ASSUME NEW g \in Getters, CallGet(g) PROVE QInv' /\ (EndInv => EndInv')
    BY Zenon, <1>1, <1>6, MoveStep
  <1>7. QED
    BY Zenon, <1>2, <1>3, <1>4, <1>5, <1>6

\* The types follow from the invariant.
LEMMA QInvTypes == QInv => TypeOK
  <1> SUFFICES ASSUME QInv PROVE TypeOK
    BY Zenon
  <1>1. running \in -Cardinality(Producers) .. Cardinality(Producers)
    <2>1. Cardinality(Unfinished) \in Nat /\ Cardinality(Producers) \in Nat
      BY Zenon, Sizes DEF Unfinished
    <2>2. QED
      BY <2>1 DEF QInv, RunningCounted
  <1>2. /\ working = Cardinality({c \in Producers : pc[c] \in {"fn", "result"}})
        /\ Len(queue) + working <= MaxQueueSize
    BY Zenon DEF QInv, WorkingCounted, Working
  <1>3. QED
    BY Zenon, <1>1, <1>2 DEF QInv, Sequences, Typed, TypeOK, ProducerPlaces, GetterPlaces,
      OwnerPlaces

-----------------------------------------------------------------------------

\* The inductive invariant holds in every reachable state of the queue, the producers, the
\* callers of get(), the constructor and the destructor.
THEOREM Invariance == Spec => []IInv
  <1>1. IInv /\ [Next]_vars => IInv'
    <2> SUFFICES ASSUME IInv, [Next]_vars PROVE IInv'
      BY Zenon
    <2>1. ASSUME NEW c \in Producers, ProducerStep(c) PROVE IInv'
      BY Zenon, <2>1, BeginStep, FnStep, FinishStep, PushStep DEF ProducerStep, IInv
    <2>2. ASSUME NEW g \in Getters, GetStep(g) PROVE IInv'
      BY Zenon, <2>2, GetItemStep, GetNothingStep DEF GetStep, IInv
    <2>3. QED
      BY Zenon, <2>1, <2>2, ConstructStep, OthersKeep DEF Next, Done, IInv
  <1>2. QED
    BY <1>1, InitIInv, PTL DEF Spec

\* The types, and the bound the producers share: the items queued and the calls of fn under
\* way never exceed maxQueueSize_, so a producer that has begun always finds room.
THEOREM TypeCorrect == Spec => []TypeOK
  <1>1. IInv => TypeOK
    BY Zenon, QInvTypes DEF IInv
  <1>2. QED
    BY <1>1, Invariance, PTL

\* Each item fn handed out is with a producer, in the queue, or was delivered by get(), and
\* is nowhere twice.
THEOREM EveryItemOnce == Spec => []ExactlyOnce
  <1>1. IInv => ExactlyOnce
    BY Zenon DEF IInv, QInv
  <1>2. QED
    BY <1>1, Invariance, PTL

\* get() returns nothing only when all items fn had to give were delivered.
THEOREM EndSound == Spec => []EndIsFinal
  <1>1. IInv => EndIsFinal
    <2> SUFFICES ASSUME IInv, ended PROVE Len(delivered) = Source /\ queue = << >>
      BY Zenon DEF EndIsFinal
    <2>1. queue = << >> /\ produced = Source /\ Unfinished = {}
      BY Zenon DEF IInv, EndInv, Ended
    <2>2. Holding = {}
      BY Zenon, <2>1 DEF IInv, QInv, HandsAtResult, Holding, Unfinished
    <2>3. Len(queue) = 0 /\ Cardinality(Holding) = 0
      BY Zenon, <2>1, <2>2, FS_EmptySet
    <2>4. Len(queue) + Cardinality(Holding) + Len(delivered) = produced
      BY Zenon DEF IInv, QInv, ExactlyOnce, Holding
    <2>5. Len(delivered) \in Nat
      BY DEF IInv, QInv, Sequences
    <2>6. QED
      BY <2>1, <2>3, <2>4, <2>5
  <1>2. QED
    BY <1>1, Invariance, PTL

-----------------------------------------------------------------------------
(* ZmqBufferedProducer. *)

ThreadPlaces == {"check", "block", "blocked"}
ServerPlaces == {"alive", "notify", "stopped", "destroyed"}

ZTyped ==
  /\ accepted \in 0 .. Source /\ zstop \in BOOLEAN
  /\ place \in [Producers -> ThreadPlaces]
  /\ handler \in {"idle", "notify"} /\ zowner \in ServerPlaces

\* The queue of the server holds the newest of the confirmed messages, in order.
InOrder ==
  /\ inQueue \in Seq(SourceItems)
  /\ Len(inQueue) = accepted - produced /\ Len(inQueue) <= MaxQueueSize
  /\ \A i \in 1 .. Len(inQueue) : inQueue[i] = produced + i

\* The inductive invariant.  InOrder says that a message that produce() takes is the next
\* one, which is what fn of BufferedProducer is taken to hand out.
ZIInv == QInv /\ ZTyped /\ InOrder

-----------------------------------------------------------------------------

LEMMA ZInitIInv == ZInit => ZIInv
  <1> SUFFICES ASSUME ZInit PROVE ZIInv
    BY Zenon
  <1>1. QInv
    BY Zenon, InitIInv DEF ZInit, IInv
  <1>2. zstop \in BOOLEAN /\ place \in [Producers -> ThreadPlaces]
    BY Zenon DEF ZInit, ThreadPlaces
  <1>3. accepted \in 0 .. Source
    BY ProducerAssumption DEF ZInit
  <1>4. ZTyped
    BY Zenon, <1>2, <1>3 DEF ZInit, ZTyped, ServerPlaces
  <1>5. inQueue = << >> /\ accepted = 0 /\ produced = 0
    BY Zenon DEF ZInit, Init
  <1>6. inQueue \in Seq(SourceItems) /\ Len(inQueue) = 0
    BY <1>5
  <1>7. InOrder
    BY <1>5, <1>6, ProducerAssumption DEF InOrder
  <1>8. QED
    BY Zenon, <1>1, <1>4, <1>7 DEF ZIInv

\* Steps of the BufferedProducer outside of fn leave the messages of the server alone.
LEMMA BaseStep ==
  ASSUME ZIInv, QInv', produced' = produced, UNCHANGED zvars
  PROVE  ZIInv'
  <1>1. UNCHANGED <<inQueue, accepted, zstop, place, handler, zowner>>
    BY Zenon DEF zvars
  <1>2. ZTyped'
    BY Zenon, <1>1 DEF ZIInv, ZTyped
  <1>3. InOrder'
    BY Zenon, <1>1 DEF ZIInv, InOrder
  <1>4. QED
    BY Zenon, <1>2, <1>3 DEF ZIInv

\* Steps that only move the threads in produce(), the worker or the destructor.
LEMMA ServerStep ==
  ASSUME ZIInv, UNCHANGED <<vars, inQueue, accepted>>,
         zstop' \in BOOLEAN, place' \in [Producers -> ThreadPlaces],
         handler' \in {"idle", "notify"}, zowner' \in ServerPlaces
  PROVE  ZIInv'
  <1>1. QInv'
    BY Zenon, OthersKeep DEF ZIInv
  <1>2. ZTyped'
    BY Zenon DEF ZIInv, ZTyped
  <1>3. produced' = produced
    BY Zenon DEF vars
  <1>4. InOrder'
    BY Zenon, <1>3 DEF ZIInv, InOrder
  <1>5. QED
    BY Zenon, <1>1, <1>2, <1>4 DEF ZIInv

\* handleRequest() confirms a message and queues it behind the others.
LEMMA HandleRequestStep ==
  ASSUME ZIInv, HandleRequest
  PROVE  ZIInv'
  <1>1. /\ UNCHANGED <<vars, zstop, place, zowner>>
        /\ accepted' = accepted + 1 /\ inQueue' = Append(inQueue, accepted + 1)
        /\ accepted < Source /\ handler' = "notify" /\ Len(inQueue) < MaxQueueSize
    BY Zenon DEF HandleRequest, Accepts
  <1>2. QInv'
    BY Zenon, <1>1, OthersKeep DEF ZIInv
  <1>3. produced' = produced
    BY Zenon, <1>1 DEF vars
  <1>4. /\ accepted \in Nat /\ Source \in Nat /\ accepted <= Source /\ produced \in Nat
        /\ produced <= Source
    BY ProducerAssumption DEF ZIInv, ZTyped, QInv, Typed
  <1>5. accepted' \in 0 .. Source /\ accepted + 1 \in SourceItems
    BY <1>1, <1>4 DEF SourceItems
  <1>6. ZTyped'
    BY Zenon, <1>1, <1>5 DEF ZIInv, ZTyped
  <1>7. /\ inQueue' \in Seq(SourceItems) /\ Len(inQueue') = Len(inQueue) + 1
        /\ Len(inQueue) \in Nat
        /\ \A i \in 1 .. Len(inQueue) : inQueue'[i] = inQueue[i]
        /\ inQueue'[Len(inQueue) + 1] = accepted + 1
    BY <1>1, <1>5 DEF ZIInv, InOrder
  <1>8. Len(inQueue') = accepted' - produced' /\ Len(inQueue') <= MaxQueueSize
    BY <1>1, <1>3, <1>4, <1>7, ProducerAssumption DEF ZIInv, InOrder
  <1>9. \A i \in 1 .. Len(inQueue') : inQueue'[i] = produced' + i
    <2>1. ASSUME NEW i \in 1 .. Len(inQueue') PROVE inQueue'[i] = produced' + i
      <3>1. CASE i = Len(inQueue) + 1
        BY <1>1, <1>3, <1>4, <1>7, <1>8, <3>1
      <3>2. CASE i \in 1 .. Len(inQueue)
        BY Zenon, <1>3, <1>7, <3>2 DEF ZIInv, InOrder
      <3>3. QED
        BY <1>7, <2>1, <3>1, <3>2
    <2>2. QED
      BY Zenon, <2>1
  <1>10. QED
    BY Zenon, <1>2, <1>6, <1>7, <1>8, <1>9 DEF ZIInv, InOrder

\* produce() takes the next message, returns nothing after stop(), or goes to block.
LEMMA ProduceStep ==
  ASSUME ZIInv, NEW c \in Producers, Produce(c)
  PROVE  ZIInv'
  <1>1. pc[c] = "fn" /\ UNCHANGED <<accepted, zstop, handler, zowner>>
    BY Zenon DEF Produce
  <1>2. CASE zstop /\ Return(c, 0) /\ UNCHANGED <<produced, inQueue, place>>
    <2>1. QInv'
      BY Zenon, <1>1, <1>2, ResultStep DEF ZIInv, Return
    <2>2. UNCHANGED zvars
      BY Zenon, <1>1, <1>2 DEF zvars
    <2>3. QED
      BY Zenon, <1>2, <2>1, <2>2, BaseStep
  <1>3. CASE /\ inQueue # << >> /\ Return(c, Head(inQueue)) /\ inQueue' = Tail(inQueue)
             /\ produced' = produced + 1 /\ UNCHANGED place
    <2>1. /\ accepted \in Nat /\ Source \in Nat /\ accepted <= Source /\ produced \in Nat
      BY ProducerAssumption DEF ZIInv, ZTyped, QInv, Typed
    <2>2. /\ Len(inQueue) \in Nat /\ Len(inQueue) >= 1 /\ Head(inQueue) = inQueue[1]
          /\ inQueue' \in Seq(SourceItems) /\ Len(inQueue') = Len(inQueue) - 1
          /\ \A i \in 1 .. Len(inQueue') : inQueue'[i] = inQueue[i + 1]
      BY <1>3 DEF ZIInv, InOrder
    <2>3. Head(inQueue) = produced + 1 /\ produced < Source
      BY <2>1, <2>2 DEF ZIInv, InOrder
    <2>4. QInv'
      <3>1. result' = [result EXCEPT ![c] = produced + 1] /\ produced' = produced + 1
        BY Zenon, <1>3, <2>3 DEF Return
      <3>2. QED
        BY Zenon, <1>1, <1>3, <2>3, <3>1, ResultStep DEF ZIInv, Return
    <2>5. ZTyped'
      BY Zenon, <1>1, <1>3 DEF ZIInv, ZTyped
    <2>6. Len(inQueue') = accepted' - produced' /\ Len(inQueue') <= MaxQueueSize
      BY <1>1, <1>3, <2>1, <2>2, ProducerAssumption DEF ZIInv, InOrder
    <2>7. ASSUME NEW i \in 1 .. Len(inQueue') PROVE inQueue'[i] = produced' + i
      <3>1. i + 1 \in 1 .. Len(inQueue) /\ inQueue'[i] = inQueue[i + 1]
        BY <2>2, <2>7
      <3>2. inQueue[i + 1] = produced + (i + 1)
        BY Zenon, <3>1 DEF ZIInv, InOrder
      <3>3. QED
        BY <1>3, <2>1, <2>7, <3>1, <3>2
    <2>8. QED
      BY Zenon, <2>2, <2>4, <2>5, <2>6, <2>7 DEF ZIInv, InOrder
  <1>4. CASE place' = [place EXCEPT ![c] = "block"] /\ UNCHANGED <<vars, inQueue>>
    <2>1. place' \in [Producers -> ThreadPlaces]
      BY Zenon, <1>4 DEF ZIInv, ZTyped, ThreadPlaces
    <2>2. QED
      BY Zenon, <1>1, <1>4, <2>1, ServerStep DEF ZIInv, ZTyped
  <1>5. QED
    BY Zenon, <1>2, <1>3, <1>4 DEF Produce

\* Waking threads and the steps of stop() and of the destructor.
LEMMA ServerMoves ==
  ASSUME ZIInv,
         \/ \E c \in Producers : Block(c)
         \/ HandlerNotify \/ ZStop \/ ZStopNotify \/ DestroyServer \/ ZSpurious
  PROVE  ZIInv'
  <1>1. UNCHANGED <<vars, inQueue, accepted>>
    BY Zenon DEF Block, HandlerNotify, ZStop, ZStopNotify, DestroyServer, ZSpurious
  <1>2. zstop' \in BOOLEAN
    <2>1. zstop' = zstop \/ zstop' = TRUE
      BY Zenon DEF Block, HandlerNotify, ZStop, ZStopNotify, DestroyServer, ZSpurious
    <2>2. QED
      BY Zenon, <2>1 DEF ZIInv, ZTyped
  <1>3. handler' \in {"idle", "notify"} /\ zowner' \in ServerPlaces
    <2>1. handler' = handler \/ handler' = "idle"
      BY Zenon DEF Block, HandlerNotify, ZStop, ZStopNotify, DestroyServer, ZSpurious
    <2>2. zowner' = zowner \/ zowner' \in {"notify", "stopped", "destroyed"}
      BY Zenon DEF Block, HandlerNotify, ZStop, ZStopNotify, DestroyServer, ZSpurious
    <2>3. QED
      BY Zenon, <2>1, <2>2 DEF ZIInv, ZTyped, ServerPlaces
  <1>4. place' \in [Producers -> ThreadPlaces]
    <2>1. \/ place' = place
          \/ \E c \in Producers : \/ place' = [place EXCEPT ![c] = "blocked"]
                                  \/ place' = [place EXCEPT ![c] = "check"]
          \/ place' = [c \in Producers |-> IF place[c] = "blocked" THEN "check" ELSE place[c]]
      BY Zenon DEF Block, HandlerNotify, NotifyOne, ZStop, ZStopNotify, DestroyServer, ZSpurious
    <2>2. place \in [Producers -> ThreadPlaces]
      BY Zenon DEF ZIInv, ZTyped
    <2>3. QED
      BY Zenon, <2>1, <2>2 DEF ThreadPlaces
  <1>5. QED
    BY Zenon, <1>1, <1>2, <1>3, <1>4, ServerStep

-----------------------------------------------------------------------------

\* The inductive invariant holds in every reachable state of the server's worker, the
\* threads in produce(), the BufferedProducer underneath, stop() and the destructor.
THEOREM ZInvariance == ZSpec => []ZIInv
  <1>1. ASSUME ZIInv, [ZNext]_allvars PROVE ZIInv'
    <2>1. QInv
      BY Zenon, <1>1 DEF ZIInv
    <2>2. CASE (Construct \/ Spurious \/ Done \/ Stop \/ Join) /\ UNCHANGED zvars
      <3>1. QInv'
        BY Zenon, <2>1, <2>2, ConstructStep, OthersKeep DEF Done
      <3>2. produced' = produced
        BY Zenon, <2>2 DEF Construct, Spurious, Done, Stop, Join, vars
      <3>3. QED
        BY Zenon, <1>1, <2>2, <3>1, <3>2, BaseStep
    <2>3. ASSUME NEW c \in Producers, Begin(c) \/ Finish(c) \/ Push(c), UNCHANGED zvars
          PROVE  ZIInv'
      <3>1. QInv'
        BY Zenon, <2>1, <2>3, BeginStep, FinishStep, PushStep
      <3>2. produced' = produced
        BY Zenon, <2>3 DEF Begin, Finish, Push
      <3>3. QED
        BY Zenon, <1>1, <2>3, <3>1, <3>2, BaseStep
    <2>4. ASSUME NEW g \in Getters, CallGet(g) \/ GetStep(g), UNCHANGED zvars
          PROVE  ZIInv'
      <3>1. QInv'
        BY Zenon, <2>1, <2>4, OthersKeep, GetItemStep, GetNothingStep DEF GetStep
      <3>2. produced' = produced
        BY Zenon, <2>4 DEF CallGet, GetStep, GetItem, GetNothing
      <3>3. QED
        BY Zenon, <1>1, <2>4, <3>1, <3>2, BaseStep
    <2>5. ASSUME NEW c \in Producers, ZProducerStep(c) PROVE ZIInv'
      BY Zenon, <1>1, <2>3, <2>5, ProduceStep, ServerMoves DEF ZProducerStep
    <2>6. CASE UNCHANGED allvars
      <3>1. UNCHANGED vars /\ UNCHANGED zvars /\ produced' = produced
        BY Zenon, <2>6 DEF allvars, vars
      <3>2. QInv'
        BY Zenon, <2>1, <3>1, OthersKeep
      <3>3. QED
        BY Zenon, <1>1, <3>1, <3>2, BaseStep
    <2>7. CASE ZDestroy
      BY Zenon, <2>2, <2>7 DEF ZDestroy
    <2>8. CASE HandleRequest
      BY Zenon, <1>1, <2>8, HandleRequestStep
    <2>9. CASE HandlerNotify \/ ZStop \/ ZStopNotify \/ DestroyServer \/ ZSpurious
      BY Zenon, <1>1, <2>9, ServerMoves
    <2>10. QED
      BY Zenon, <1>1, <2>2, <2>4, <2>5, <2>6, <2>7, <2>8, <2>9 DEF ZNext
  <1>2. QED
    BY <1>1, ZInitIInv, PTL DEF ZSpec

\* The types, and the bounds of handleRequest() and of the BufferedProducer: together they
\* hold at most twice the queue size of messages that no get() has returned.
THEOREM ZTypeCorrect == ZSpec => []ZTypeOK
  <1>1. ZIInv => ZTypeOK
    <2> SUFFICES ASSUME ZIInv PROVE ZTypeOK
      BY Zenon
    <2>1. TypeOK
      BY Zenon, QInvTypes DEF ZIInv
    <2>2. Holding \subseteq Working /\ Working \in SUBSET Producers
      BY Zenon DEF ZIInv, QInv, HandsAtResult, Holding, Working
    <2>3. /\ Cardinality(Holding) <= Cardinality(Working)
          /\ Cardinality(Holding) \in Nat /\ Cardinality(Working) \in Nat
      BY Zenon, <2>2, Sizes, FS_Subset
    <2>4. Len(queue) + Cardinality(Holding) + Len(delivered) = produced
      BY Zenon DEF ZIInv, QInv, ExactlyOnce, Holding
    <2>5. Len(queue) + Cardinality(Working) <= MaxQueueSize
      BY Zenon DEF ZIInv, QInv, WorkingCounted
    <2>6. Len(queue) \in Nat /\ Len(delivered) \in Nat /\ Len(inQueue) \in Nat
      BY DEF ZIInv, QInv, Sequences, InOrder
    <2>7. Len(inQueue) = accepted - produced /\ Len(inQueue) <= MaxQueueSize
      BY Zenon DEF ZIInv, InOrder
    <2>8. accepted \in Nat /\ produced \in Nat
      BY ProducerAssumption DEF ZIInv, ZTyped, QInv, Typed
    <2>9. accepted - Len(delivered) <= 2 * MaxQueueSize
      BY SMTT(30), <2>3, <2>4, <2>5, <2>6, <2>7, <2>8, ProducerAssumption
    <2>10. QED
      BY Zenon, <2>1, <2>9 DEF ZIInv, ZTyped, InOrder, ZTypeOK, ThreadPlaces, ServerPlaces
  <1>2. QED
    BY <1>1, ZInvariance, PTL

\* Every message that was confirmed to the sender is in one of the two queues, with a
\* thread, or was delivered, and nowhere twice, in the order of arrival.
THEOREM NothingConfirmedLost == ZSpec => []ConfirmedKept
  <1>1. ZIInv => ConfirmedKept
    <2> SUFFICES ASSUME ZIInv PROVE ConfirmedKept
      BY Zenon
    <2>1. ExactlyOnce
      BY Zenon DEF ZIInv, QInv
    <2>2. inQueue = [i \in 1 .. Len(inQueue) |-> produced + i]
      BY DEF ZIInv, InOrder
    <2>3. Len(inQueue) = accepted - produced
      BY Zenon DEF ZIInv, InOrder
    <2>4. QED
      BY Zenon, <2>1, <2>2, <2>3 DEF ConfirmedKept
  <1>2. QED
    BY <1>1, ZInvariance, PTL

=============================================================================

-------------------------- MODULE BufferedProducer --------------------------
(***************************************************************************)
(* BufferedProducer of common/parallel.h: producer threads call fn until   *)
(* it returns nothing and put its results in a bounded queue, from which   *)
(* get() takes them.  get() returns nothing once every producer is         *)
(* finished and the queue is empty; it throws when the object is being     *)
(* destroyed.                                                              *)
(*                                                                         *)
(* One step is one section under mutex_ (the evaluation of queueCV_'s      *)
(* predicate included), or one call of fn.  fn hands out the items         *)
(* 1 .. Source, each once, and nothing after that; it is thread-safe.      *)
(***************************************************************************)
EXTENDS Integers, Sequences, FiniteSets

CONSTANTS
  Producers,     \* threads_
  Getters,       \* threads that call get()
  MaxQueueSize,  \* maxQueueSize_
  Source         \* how many items fn hands out

\* The constructor throws on other values.
ASSUME ProducerAssumption ==
  /\ IsFiniteSet(Producers) /\ Producers # {}
  /\ MaxQueueSize \in Nat \ {0}
  /\ Source \in Nat

VARIABLES
  queue,      \* queue_
  stop,       \* stop_
  working,    \* working_
  running,    \* running_
  pc,         \* producer: "check" the predicate, "blocked" in queueCV_.wait, "fn",
              \* "result" (fn has returned), "exit"
  result,     \* the item fn returned to a producer, 0 for nothing
  gpc,        \* getter: "idle", "check", "blocked"
  owner,      \* "constructing", "alive", "join", "dead"
  produced,   \* number of items fn has handed out
  delivered,  \* the items get() has returned, in order
  ended       \* whether a get() has returned nothing

vars == <<queue, stop, working, running, pc, result, gpc, owner, produced,
          delivered, ended>>

\* running_ is uninitialized until the constructor's last line; no get() can read
\* it before, and what a producer makes of it is overwritten, so any value will do.
Init ==
  /\ queue = << >>
  /\ stop = FALSE
  /\ working = 0
  /\ running = 0
  /\ pc = [c \in Producers |-> "check"]
  /\ result = [c \in Producers |-> 0]
  /\ gpc = [g \in Getters |-> "idle"]
  /\ owner = "constructing"
  /\ produced = 0
  /\ delivered = << >>
  /\ ended = FALSE

-----------------------------------------------------------------------------

Awake(pcs) == [t \in DOMAIN pcs |-> IF pcs[t] = "blocked" THEN "check" ELSE pcs[t]]

\* The last line of the constructor, after it has started all threads.
Construct ==
  /\ owner = "constructing"
  /\ running' = Cardinality(Producers)
  /\ owner' = "alive"
  /\ UNCHANGED <<queue, stop, working, pc, result, gpc, produced, delivered, ended>>

\* The predicate of a producer, without stop_.
Room == Len(queue) + working < MaxQueueSize

\* run(): the wait on queueCV_, up to lock.unlock().
Begin(c) ==
  /\ pc[c] = "check"
  /\ \/ /\ stop
        /\ pc' = [pc EXCEPT ![c] = "exit"]
        /\ UNCHANGED working
     \/ /\ ~stop /\ ~Room
        /\ pc' = [pc EXCEPT ![c] = "blocked"]
        /\ UNCHANGED working
     \/ /\ ~stop /\ Room
        /\ working' = working + 1
        /\ pc' = [pc EXCEPT ![c] = "fn"]
  /\ UNCHANGED <<queue, stop, running, result, gpc, owner, produced, delivered, ended>>

\* fn(), not under mutex_.
Fn(c) ==
  /\ pc[c] = "fn"
  /\ \/ /\ produced < Source
        /\ produced' = produced + 1
        /\ result' = [result EXCEPT ![c] = produced + 1]
     \/ /\ produced = Source
        /\ result' = [result EXCEPT ![c] = 0]
        /\ UNCHANGED produced
  /\ pc' = [pc EXCEPT ![c] = "result"]
  /\ UNCHANGED <<queue, stop, working, running, gpc, owner, delivered, ended>>

\* Mutant: a finished producer does not notify.
FinishQuietly(c) ==
  /\ pc[c] = "result" /\ result[c] = 0
  /\ working' = working - 1
  /\ running' = running - 1
  /\ pc' = [pc EXCEPT ![c] = "exit"]
  /\ UNCHANGED <<queue, stop, result, gpc, owner, produced, delivered, ended>>

\* run(), fn had nothing more.
Finish(c) ==
  /\ pc[c] = "result" /\ result[c] = 0
  /\ working' = working - 1
  /\ running' = running - 1
  /\ pc' = [Awake(pc) EXCEPT ![c] = "exit"]
  /\ gpc' = Awake(gpc)
  /\ UNCHANGED <<queue, stop, result, owner, produced, delivered, ended>>

\* Mutant: the item takes the place of the ones in the queue.
PushOverwrites(c) ==
  /\ pc[c] = "result" /\ result[c] # 0
  /\ working' = working - 1
  /\ queue' = <<result[c]>>
  /\ result' = [result EXCEPT ![c] = 0]
  /\ pc' = [Awake(pc) EXCEPT ![c] = "check"]
  /\ gpc' = Awake(gpc)
  /\ UNCHANGED <<stop, running, owner, produced, delivered, ended>>

\* run(), fn returned an item.  It is queued even when stop_ is set by now.
Push(c) ==
  /\ pc[c] = "result" /\ result[c] # 0
  /\ working' = working - 1
  /\ queue' = Append(queue, result[c])
  /\ result' = [result EXCEPT ![c] = 0]
  /\ pc' = [Awake(pc) EXCEPT ![c] = "check"]
  /\ gpc' = Awake(gpc)
  /\ UNCHANGED <<stop, running, owner, produced, delivered, ended>>

-----------------------------------------------------------------------------

CallGet(g) ==
  /\ owner = "alive"
  /\ gpc[g] = "idle"
  /\ gpc' = [gpc EXCEPT ![g] = "check"]
  /\ UNCHANGED <<queue, stop, working, running, pc, result, owner, produced,
                 delivered, ended>>

\* Mutant: get() gives up when one producer is finished.
NothingLeftEarly == running < Cardinality(Producers) /\ queue = << >>

\* get() returns nothing.
NothingLeft == running = 0 /\ queue = << >>

\* get(): takes the oldest item; notify_all also wakes other getters.
GetItem(g) ==
  /\ gpc[g] = "check"
  /\ ~stop /\ queue # << >>
  /\ delivered' = Append(delivered, Head(queue))
  /\ queue' = Tail(queue)
  /\ gpc' = [Awake(gpc) EXCEPT ![g] = "idle"]
  /\ pc' = Awake(pc)
  /\ UNCHANGED <<stop, working, running, result, owner, produced, ended>>

\* get() when there is nothing to take: it throws, returns nothing, or blocks.
GetNothing(g) ==
  /\ gpc[g] = "check"
  /\ stop \/ queue = << >>
  /\ gpc' = [gpc EXCEPT ![g] = IF stop \/ NothingLeft THEN "idle" ELSE "blocked"]
  /\ ended' = (ended \/ (~stop /\ NothingLeft))
  /\ UNCHANGED <<queue, stop, working, running, pc, result, owner, produced, delivered>>

-----------------------------------------------------------------------------

\* The destructor: stop_ is set and queueCV_ notified under mutex_.
Stop ==
  /\ owner = "alive"
  /\ stop' = TRUE
  /\ owner' = "join"
  /\ pc' = Awake(pc)
  /\ gpc' = Awake(gpc)
  /\ UNCHANGED <<queue, working, running, result, produced, delivered, ended>>

Join ==
  /\ owner = "join"
  /\ \A c \in Producers : pc[c] = "exit"
  /\ owner' = "dead"
  /\ UNCHANGED <<queue, stop, working, running, pc, result, gpc, produced,
                 delivered, ended>>

\* A condition variable may wake a thread for no reason.
Spurious ==
  /\ \/ /\ \E c \in Producers : pc[c] = "blocked" /\ pc' = [pc EXCEPT ![c] = "check"]
        /\ UNCHANGED gpc
     \/ /\ \E g \in Getters : gpc[g] = "blocked" /\ gpc' = [gpc EXCEPT ![g] = "check"]
        /\ UNCHANGED pc
  /\ UNCHANGED <<queue, stop, working, running, result, owner, produced, delivered,
                 ended>>

\* The calls in flight have returned and no more can be made.
Done ==
  /\ owner = "dead"
  /\ \A g \in Getters : gpc[g] = "idle"
  /\ UNCHANGED vars

ProducerStep(c) == Begin(c) \/ Fn(c) \/ Finish(c) \/ Push(c)

GetStep(g) == GetItem(g) \/ GetNothing(g)

Next ==
  \/ Construct
  \/ \E c \in Producers : ProducerStep(c)
  \/ \E g \in Getters : CallGet(g) \/ GetStep(g)
  \/ Stop \/ Join
  \/ Spurious
  \/ Done

Spec == Init /\ [][Next]_vars

\* Threads keep running and fn returns.
FairSpec ==
  /\ Spec
  /\ WF_vars(Construct) /\ WF_vars(Join)
  /\ \A c \in Producers : WF_vars(ProducerStep(c))
  /\ \A g \in Getters : WF_vars(GetStep(g))

-----------------------------------------------------------------------------

SourceItems == 1 .. Source
Queued == {queue[i] : i \in DOMAIN queue}
InHand == {result[c] : c \in Producers} \ {0}
Delivered == {delivered[i] : i \in DOMAIN delivered}

\* The types, and the bound the producers share: the items queued and the calls of
\* fn under way never exceed maxQueueSize_ (parallel.h:293-295).
TypeOK ==
  /\ queue \in Seq(SourceItems) /\ delivered \in Seq(SourceItems)
  /\ stop \in BOOLEAN /\ ended \in BOOLEAN
  /\ running \in -Cardinality(Producers) .. Cardinality(Producers)
  /\ pc \in [Producers -> {"check", "blocked", "fn", "result", "exit"}]
  /\ result \in [Producers -> 0 .. Source]
  /\ gpc \in [Getters -> {"idle", "check", "blocked"}]
  /\ owner \in {"constructing", "alive", "join", "dead"}
  /\ produced \in 0 .. Source
  /\ working = Cardinality({c \in Producers : pc[c] \in {"fn", "result"}})
  /\ Len(queue) + working <= MaxQueueSize

\* Each item fn handed out is with a producer, in the queue, or was delivered by
\* get(), and is nowhere twice (parallel.h:272-318).
ExactlyOnce ==
  /\ Queued \cup InHand \cup Delivered = 1 .. produced
  /\ Len(queue) + Cardinality({c \in Producers : result[c] # 0}) + Len(delivered) = produced

\* get() returns nothing only when all items fn had to give were delivered
\* (parallel.h:280-282): no producer still holds one.
EndIsFinal == ended => Len(delivered) = Source /\ queue = << >>

\* Every get() returns (parallel.h:275-276): a producer that queues an item or is
\* finished wakes it.  It takes Source >= MaxQueueSize: with fewer items a producer
\* may be finished, and have decremented running_, before the constructor sets it.
GetReturns == \A g \in Getters : (gpc[g] # "idle") ~> (gpc[g] = "idle")

=============================================================================

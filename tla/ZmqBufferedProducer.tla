------------------------- MODULE ZmqBufferedProducer -------------------------
(***************************************************************************)
(* ZeroMQBufferedProducer of cpid/zmqbufferedproducer.h: the receiving end *)
(* of a distributed producer-consumer pair.  The worker of its             *)
(* ReqRepServer puts incoming messages into queue_ or denies them; the     *)
(* threads of a BufferedProducer, whose fn is produce(), take and          *)
(* deserialize them for get().                                             *)
(*                                                                         *)
(* It extends BufferedProducer, of which it replaces fn and the destructor *)
(* by its own.  stop_ is not protected by mutex_, so the evaluation of     *)
(* cv_'s predicate and the blocking that follows are two steps.  Items are *)
(* the accepted messages, numbered in the order in which they arrive.      *)
(***************************************************************************)
EXTENDS BufferedProducer

VARIABLES
  inQueue,    \* ZeroMQBufferedProducer::queue_
  accepted,   \* number of messages confirmed; Source bounds it
  zstop,      \* ZeroMQBufferedProducer::stop_
  place,      \* where a thread is in produce(): "check", "block" (the predicate was
              \* false, mutex_ is still held) or "blocked"
  handler,    \* the server's worker: "idle" or "notify"
  zowner      \* "alive", "notify" (in stop()), "stopped", "destroyed" (the server)

zvars == <<inQueue, accepted, zstop, place, handler, zowner>>
allvars == <<vars, zvars>>

ZInit ==
  /\ Init
  /\ inQueue = << >>
  /\ accepted = 0
  /\ zstop = FALSE
  /\ place = [c \in Producers |-> "check"]
  /\ handler = "idle"
  /\ zowner = "alive"

\* mutex_ of ZeroMQBufferedProducer is not held between two steps.
MutexFree == \A c \in Producers : place[c] # "block"

-----------------------------------------------------------------------------

\* Mutant: the queue may grow by one element too many.
AcceptsOneMore == Len(inQueue) <= MaxQueueSize

Accepts == Len(inQueue) < MaxQueueSize

\* handleRequest(): the message is queued and confirmed.  When the queue is full it
\* is denied, which changes nothing here.
HandleRequest ==
  /\ owner # "constructing" /\ zowner # "destroyed"
  /\ handler = "idle"
  /\ MutexFree
  /\ Accepts
  /\ accepted < Source
  /\ accepted' = accepted + 1
  /\ inQueue' = Append(inQueue, accepted + 1)
  /\ handler' = "notify"
  /\ UNCHANGED <<vars, zstop, place, zowner>>

\* A thread blocked in produce(), if there is one, wakes.
NotifyOne ==
  LET blocked == {c \in Producers : place[c] = "blocked"} IN
  \/ \E c \in blocked : place' = [place EXCEPT ![c] = "check"]
  \/ blocked = {} /\ UNCHANGED place

\* Mutant: handleRequest() does not notify.
HandlerForgets ==
  /\ handler = "notify"
  /\ handler' = "idle"
  /\ UNCHANGED <<vars, inQueue, accepted, zstop, place, zowner>>

\* cv_.notify_one() at the end of handleRequest().
HandlerNotify ==
  /\ handler = "notify"
  /\ handler' = "idle"
  /\ NotifyOne
  /\ UNCHANGED <<vars, inQueue, accepted, zstop, zowner>>

-----------------------------------------------------------------------------

\* Mutant: the message stays in the queue.
ProduceKeepsItem(c) ==
  /\ pc[c] = "fn" /\ place[c] = "check"
  /\ MutexFree
  /\ ~zstop /\ inQueue # << >>
  /\ result' = [result EXCEPT ![c] = Head(inQueue)]
  /\ pc' = [pc EXCEPT ![c] = "result"]
  /\ produced' = produced + 1
  /\ UNCHANGED <<queue, stop, working, running, gpc, owner, delivered, ended, zvars>>

\* produce() returns r, 0 for nothing, to run() of BufferedProducer.
Return(c, r) ==
  /\ result' = [result EXCEPT ![c] = r]
  /\ pc' = [pc EXCEPT ![c] = "result"]
  /\ UNCHANGED <<queue, stop, working, running, gpc, owner, delivered, ended>>

\* produce(): the predicate of cv_.wait and what follows when it is true.
Produce(c) ==
  /\ pc[c] = "fn" /\ place[c] = "check"
  /\ MutexFree
  /\ \/ /\ zstop
        /\ Return(c, 0)
        /\ UNCHANGED <<produced, inQueue, place>>
     \/ /\ ~zstop /\ inQueue # << >>
        /\ Return(c, Head(inQueue))
        /\ inQueue' = Tail(inQueue)
        /\ produced' = produced + 1
        /\ UNCHANGED place
     \/ /\ ~zstop /\ inQueue = << >>
        /\ place' = [place EXCEPT ![c] = "block"]
        /\ UNCHANGED <<vars, inQueue>>
  /\ UNCHANGED <<accepted, zstop, handler, zowner>>

Block(c) ==
  /\ place[c] = "block"
  /\ place' = [place EXCEPT ![c] = "blocked"]
  /\ UNCHANGED <<vars, inQueue, accepted, zstop, handler, zowner>>

-----------------------------------------------------------------------------

\* stop(), called by a user or the destructor: stop_.store(true) ...
ZStop ==
  /\ owner = "alive" /\ zowner = "alive"
  /\ zstop' = TRUE
  /\ zowner' = "notify"
  /\ UNCHANGED <<vars, inQueue, accepted, place, handler>>

\* ... and cv_.notify_all().
ZStopNotify ==
  /\ zowner = "notify"
  /\ place' = [c \in Producers |-> IF place[c] = "blocked" THEN "check" ELSE place[c]]
  /\ zowner' = "stopped"
  /\ UNCHANGED <<vars, inQueue, accepted, zstop, handler>>

\* The destructor of rrs_, which joins the worker.
DestroyServer ==
  /\ zowner = "stopped" /\ handler = "idle"
  /\ zowner' = "destroyed"
  /\ UNCHANGED <<vars, inQueue, accepted, zstop, place, handler>>

ZSpurious ==
  /\ \E c \in Producers : place[c] = "blocked" /\ place' = [place EXCEPT ![c] = "check"]
  /\ UNCHANGED <<vars, inQueue, accepted, zstop, handler, zowner>>

-----------------------------------------------------------------------------

\* The steps of the BufferedProducer's threads outside of fn, and of its destructor,
\* which runs after the one of the server.
ZProducerStep(c) ==
  \/ (Begin(c) \/ Finish(c) \/ Push(c)) /\ UNCHANGED zvars
  \/ Produce(c) \/ Block(c)

ZDestroy == zowner = "destroyed" /\ (Stop \/ Join) /\ UNCHANGED zvars

ZNext ==
  \/ (Construct \/ Spurious \/ Done) /\ UNCHANGED zvars
  \/ \E c \in Producers : ZProducerStep(c)
  \/ \E g \in Getters : (CallGet(g) \/ GetStep(g)) /\ UNCHANGED zvars
  \/ HandleRequest \/ HandlerNotify
  \/ ZStop \/ ZStopNotify \/ DestroyServer \/ ZDestroy
  \/ ZSpurious

ZSpec == ZInit /\ [][ZNext]_allvars

\* Threads keep running; getters keep calling get(); a destructor that has been
\* entered goes on.
ZFairSpec ==
  /\ ZSpec
  /\ WF_allvars(Construct /\ UNCHANGED zvars)
  /\ \A c \in Producers : WF_allvars(ZProducerStep(c))
  /\ \A g \in Getters : /\ WF_allvars(GetStep(g) /\ UNCHANGED zvars)
                        /\ WF_allvars(CallGet(g) /\ UNCHANGED zvars)
  /\ WF_allvars(HandlerNotify) /\ WF_allvars(ZStopNotify)
  /\ WF_allvars(ZDestroy)

-----------------------------------------------------------------------------

\* The types, and the bounds: queue_ of the BufferedProducer underneath keeps its
\* bound when fn is the wait for a request (zmqbufferedproducer.h:138-155), and, as
\* zmqprodcons_t.cpp:144-145 expects, the two queues together accept twice the queue
\* size, and no more, without a get().
ZTypeOK ==
  /\ TypeOK
  /\ inQueue \in Seq(SourceItems) /\ accepted \in 0 .. Source
  /\ zstop \in BOOLEAN
  /\ place \in [Producers -> {"check", "block", "blocked"}]
  /\ handler \in {"idle", "notify"}
  /\ zowner \in {"alive", "notify", "stopped", "destroyed"}
  /\ accepted - Len(delivered) <= 2 * MaxQueueSize

\* Every message that was confirmed to the sender is in one of the two queues, with a
\* thread, or was delivered, and nowhere twice; messages leave queue_ in the order
\* of their arrival (zmqbufferedproducer.h:118-147).
ConfirmedKept ==
  /\ ExactlyOnce
  /\ inQueue = [i \in 1 .. accepted - produced |-> produced + i]

\* Every confirmed message is delivered if get() is called often enough, unless
\* stop() is called.
ConfirmedDelivered ==
  \A i \in SourceItems : (accepted >= i) ~> (zstop \/ i \in Delivered)

=============================================================================

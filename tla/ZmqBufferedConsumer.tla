------------------------- MODULE ZmqBufferedConsumer -------------------------
(***************************************************************************)
(* ZeroMQBufferedConsumer of cpid/zmqbufferedconsumer.h: the sending end   *)
(* of a distributed producer-consumer pair.  Items are serialized by the   *)
(* threads of a BufferedConsumer (bcser_) and handed to a second one       *)
(* without threads (bcsend_), whose function runs under its mutex: one     *)
(* item at a time.  Each item is sent as a request; its future is kept in  *)
(* pending_ and looked at only when pending_ is full.  A request that was  *)
(* denied or failed is submitted anew.                                     *)
(*                                                                         *)
(* The ReqRepClient and the servers are the abstract ones of AtLeastOnce,  *)
(* which ReqRep implements.                                                *)
(***************************************************************************)
EXTENDS Integers, Sequences, FiniteSets

CONSTANTS
  Request,        \* bound: the calls of client_.request()
  NoReply, Failed,
  MaxConcurrent,  \* maxConcurrentRequests_
  MaxSends        \* bound: the items given to bcsend_

Reply == {"confirm", "deny"}

ASSUME ZmqConsumerAssumption ==
  /\ MaxConcurrent \in Nat \ {0} /\ MaxSends \in Nat
  /\ NoReply # Failed
  /\ {NoReply, Failed} \cap (Reply \cup {"unused"}) = {}

VARIABLES
  future, handled,  \* of AtLeastOnce
  content,          \* the item a request carries, 0 for none
  pending,          \* pending_: the requests whose futures are kept
  stopping,         \* stop_
  given,            \* number of items given to bcsend_
  sender,           \* "idle", "loop" (at the head of the while loop) or "scan"
  pos               \* iterator into pending_

senderVars == <<future, handled, content, pending, stopping, given, sender, pos>>
transport == <<future, handled>>

Transport == INSTANCE AtLeastOnce

SenderInit ==
  /\ Transport!Init
  /\ content = [r \in Request |-> 0]
  /\ pending = << >>
  /\ stopping = FALSE
  /\ given = 0
  /\ sender = "idle"
  /\ pos = 1

-----------------------------------------------------------------------------

\* bcsend_->enqueue() from a thread of bcser_ (or from enqueue() without threads).
\* It waits for the mutex, that is, until the sender is idle.
SenderEnqueue ==
  /\ sender = "idle" /\ ~stopping
  /\ given < MaxSends
  /\ given' = given + 1
  /\ sender' = "loop"
  /\ UNCHANGED <<transport, content, pending, stopping, pos>>

\* client_.request() with the item i.
Submit(r, i) ==
  /\ Transport!Submit(r)
  /\ content' = [content EXCEPT ![r] = i]

Full == Len(pending) >= MaxConcurrent

\* Mutant: the loop does not look at stop_.
LoopUnlessFull ==
  /\ sender = "loop"
  /\ \/ /\ Full
        /\ sender' = "scan" /\ pos' = 1
        /\ UNCHANGED <<transport, content, pending>>
     \/ /\ ~Full
        /\ \E r \in Request : Submit(r, given) /\ pending' = Append(pending, r)
        /\ sender' = "idle"
        /\ UNCHANGED pos
  /\ UNCHANGED <<stopping, given>>

\* The head of the while loop: scan pending_, or leave the loop and send.
Loop ==
  /\ sender = "loop"
  /\ \/ /\ Full /\ ~stopping
        /\ sender' = "scan" /\ pos' = 1
        /\ UNCHANGED <<transport, content, pending>>
     \/ /\ ~Full \/ stopping
        /\ \E r \in Request : Submit(r, given) /\ pending' = Append(pending, r)
        /\ sender' = "idle"
        /\ UNCHANGED pos
  /\ UNCHANGED <<stopping, given>>

Current == pending[pos]

\* pending_.erase(it): the iterator then is at the next element.
Erased == SubSeq(pending, 1, pos - 1) \o SubSeq(pending, pos + 1, Len(pending))

\* Mutant: any reply counts as a confirmation.
ConfirmedUnchecked == future[Current] \in Reply

Confirmed == future[Current] = "confirm"

\* Mutant: a request that is not answered yet is repeated.
ScanImpatient ==
  /\ sender = "scan" /\ pos <= Len(pending)
  /\ \/ /\ Confirmed
        /\ pending' = Erased
        /\ UNCHANGED <<transport, content, pos>>
     \/ /\ ~Confirmed
        /\ \E r \in Request : /\ Submit(r, content[Current])
                              /\ pending' = [pending EXCEPT ![pos] = r]
        /\ pos' = pos + 1
  /\ UNCHANGED <<stopping, given, sender>>

\* The body of the for loop, for one element of pending_.
Scan ==
  /\ sender = "scan" /\ pos <= Len(pending)
  /\ \/ /\ future[Current] = NoReply
        /\ pos' = pos + 1
        /\ UNCHANGED <<transport, content, pending>>
     \/ /\ Confirmed
        /\ pending' = Erased
        /\ UNCHANGED <<transport, content, pos>>
     \/ /\ future[Current] # NoReply /\ ~Confirmed
        /\ \E r \in Request : /\ Submit(r, content[Current])
                              /\ pending' = [pending EXCEPT ![pos] = r]
        /\ pos' = pos + 1
  /\ UNCHANGED <<stopping, given, sender>>

ScanDone ==
  /\ sender = "scan" /\ pos > Len(pending)
  /\ sender' = "loop"
  /\ UNCHANGED <<transport, content, pending, stopping, given, pos>>

\* The destructor lets the sender finish; then pending_ is dropped with the object.
SenderStop ==
  /\ ~stopping
  /\ stopping' = TRUE
  /\ UNCHANGED <<transport, content, pending, given, sender, pos>>

\* The client and the servers.
Deliver ==
  /\ \E r \in Request : \/ Transport!Fulfil(r) \/ Transport!Fail({r})
                        \/ \E v \in Reply : Transport!Handle(r, v)
  /\ UNCHANGED <<content, pending, stopping, given, sender, pos>>

\* Bound: no more requests can be made.
OutOfRequests == (\A r \in Request : future[r] # "unused") /\ UNCHANGED senderVars

Terminated == (stopping \/ given = MaxSends) /\ sender = "idle" /\ UNCHANGED senderVars

SenderNext ==
  \/ SenderEnqueue \/ Loop \/ Scan \/ ScanDone \/ SenderStop \/ Deliver
  \/ OutOfRequests \/ Terminated

SenderSpec == SenderInit /\ [][SenderNext]_senderVars

\* The sender's thread keeps running.
SenderFairSpec == SenderSpec /\ WF_senderVars(Loop \/ Scan \/ ScanDone)

-----------------------------------------------------------------------------

\* The types; the iterator never leaves pending_ by more than its end.
SenderTypeOK ==
  /\ future \in [Request -> Reply \cup {"unused", NoReply, Failed}]
  /\ handled \in [Request -> SUBSET Reply]
  /\ content \in [Request -> 0 .. MaxSends]
  /\ pending \in Seq(Request)
  /\ stopping \in BOOLEAN
  /\ given \in 0 .. MaxSends
  /\ sender \in {"idle", "loop", "scan"}
  /\ pos \in 1 .. Len(pending) + 1

\* An item is forgotten only when a server confirmed it (zmqbufferedconsumer.h:93-133):
\* each item given to bcsend_ is about to be sent, has exactly one pending request, or
\* was accepted by a server in response to one of its requests.
NoItemLost ==
  \A i \in 1 .. given :
    LET mine == {k \in DOMAIN pending : content[pending[k]] = i} IN
    /\ Cardinality(mine) <= 1
    /\ \/ i = given /\ sender # "idle"
       \/ mine # {}
       \/ \E r \in Request : content[r] = i /\ "confirm" \in handled[r]

\* At most maxConcurrentRequests_ futures are kept, one more when the sender is let go
\* by the destructor (zmqbufferedconsumer.h:87, 133), and at most one request of an item
\* is undecided or unread at a time: none is sent again before the sender has seen a
\* denial or a failure (zmqbufferedconsumer.h:100-128).
RequestsBounded ==
  /\ Len(pending) <= MaxConcurrent + (IF stopping THEN 1 ELSE 0)
  /\ \A r \in Request :
       future[r] \in {NoReply, "confirm"} /\ content[r] > 0 =>
         \A q \in Request \ {r} :
           content[q] = content[r] => future[q] \in {"deny", Failed, "unused"}

\* The destructor does not wait for the servers: a sender stuck behind unanswered
\* requests leaves its loop (zmqbufferedconsumer.h:87, 150-154).
StopReleasesSender ==
  stopping ~> (sender = "idle" \/ \A r \in Request : future[r] # "unused")

=============================================================================

------------------------------- MODULE ReqRep -------------------------------
(***************************************************************************)
(* ReqRepClient and ReqRepServer of cpid/reqrepserver.cpp over ZeroMQ.     *)
(* Users submit requests with request() and get a future; the client's     *)
(* thread (run()) sends them to the servers at its endpoints, a bounded    *)
(* number at a time, resends those not answered in time, up to             *)
(* maxRetries_ times, and follows changes of the endpoints.                *)
(*                                                                         *)
(* ZeroMQ may lose and reorder messages: a server can crash, a connection  *)
(* break, and disconnect() drops what was not sent yet.  Time is           *)
(* abstracted: any outstanding request may be found to be too old when     *)
(* requeueExpiredRequests looks.  The random id of a transmission is the   *)
(* pair of the request and its number of retries.                          *)
(***************************************************************************)
EXTENDS Integers, Sequences, FiniteSets, Functions

CONSTANTS
  Request,        \* bound: the requests users submit, each once
  Reply,          \* what the servers' callback can reply
  NoReply, Failed,
  Endpoint,       \* addresses of servers
  MaxConcurrent,  \* maxConcurrentRequests_
  MaxRetries,     \* maxRetries_
  EndpointLists   \* what users pass to the constructor and updateEndpoints()

ASSUME ReqRepAssumption ==
  /\ MaxConcurrent \in Nat \ {0}
  /\ MaxRetries \in Nat
  /\ EndpointLists \subseteq SUBSET Endpoint
  /\ NoReply # Failed
  /\ {NoReply, Failed} \cap (Reply \cup {"unused"}) = {}
  /\ "unused" \notin Reply

VARIABLES
  queue,             \* queue_: requests not sent yet
  future,            \* the promise of each request, as in AtLeastOnce
  endpointsWanted,   \* endpoints_
  endpointsChanged,  \* endpointsChanged_
  stop,              \* stop_
  pc,                \* where run() is
  endpoints,         \* run()'s copy of the endpoints, to which it is connected
  requests,          \* run()'s outstanding requests
  resendQueue,       \* run()'s requests to be sent again
  retries,           \* QueueItem.retries
  net,               \* requests on their way or being handled
  replies,           \* replies on their way
  handled            \* history: the replies given to each request

vars == <<queue, future, endpointsWanted, endpointsChanged, stop, pc, endpoints,
          requests, resendQueue, retries, net, replies, handled>>

user == <<queue, endpointsWanted, endpointsChanged, stop>>
local == <<endpoints, requests, resendQueue, retries>>
world == <<net, replies, handled>>

Transmission == [req : Request, try : 0 .. MaxRetries]

Init ==
  /\ queue = << >>
  /\ future = [r \in Request |-> "unused"]
  /\ endpointsWanted \in EndpointLists
  /\ endpointsChanged = TRUE
  /\ stop = FALSE
  /\ pc = "start"
  /\ endpoints = {}
  /\ requests = {}
  /\ resendQueue = {}
  /\ retries = [r \in Request |-> 0]
  /\ net = {}
  /\ replies = {}
  /\ handled = [r \in Request |-> {}]

-----------------------------------------------------------------------------
(* Users.                                                                   *)

\* request(), under queueM_, which run() holds while it sends from queue_.
Submit(r) ==
  /\ ~stop
  /\ pc # "send"
  /\ future[r] = "unused"
  /\ future' = [future EXCEPT ![r] = NoReply]
  /\ queue' = Append(queue, r)
  /\ UNCHANGED <<endpointsWanted, endpointsChanged, stop, pc, local, world>>

\* updateEndpoints() with a list that differs from the current one.
UpdateEndpoints(eps) ==
  /\ ~stop
  /\ eps # endpointsWanted
  /\ endpointsWanted' = eps
  /\ endpointsChanged' = TRUE
  /\ UNCHANGED <<queue, future, stop, pc, local, world>>

\* The destructor; it then joins the thread.
Stop ==
  /\ ~stop
  /\ stop' = TRUE
  /\ UNCHANGED <<queue, future, endpointsWanted, endpointsChanged, pc, local, world>>

-----------------------------------------------------------------------------
(* run().                                                                   *)

Start ==
  /\ pc = "start"
  /\ endpoints' = endpointsWanted
  /\ endpointsChanged' = FALSE
  /\ pc' = "top"
  /\ UNCHANGED <<queue, future, endpointsWanted, stop, requests, resendQueue, retries,
                 world>>

\* The head of the main loop.
Top ==
  /\ pc = "top" /\ ~stop
  /\ pc' = IF endpointsChanged THEN "drain" ELSE "poll"
  /\ UNCHANGED <<user, future, local, world>>

\* Mutant: replies are not looked up among the outstanding requests.
OutstandingUnchecked(m) == TRUE

\* requests.find(id): the transmission a reply belongs to is still waited for.
Outstanding(m) == m.req \in requests /\ m.try = retries[m.req]

\* pollHandleReply: nothing to receive, or one reply.  A reply to a transmission
\* that is not outstanding any more is ignored.
Poll(from, to) ==
  /\ pc = from
  /\ pc' = to
  /\ \/ UNCHANGED <<future, requests, replies>>
     \/ \E m \in replies :
          /\ replies' = replies \ {m}
          /\ \/ /\ Outstanding(m)
                /\ future' = [future EXCEPT ![m.req] = m.val]
                /\ requests' = requests \ {m.req}
             \/ /\ ~Outstanding(m)
                /\ UNCHANGED <<future, requests>>
  /\ UNCHANGED <<user, endpoints, resendQueue, retries, net, handled>>

\* Mutant: a request out of retries is dropped without an exception.
GivenUpSilently(old) == [r \in Request |-> future[r]]

\* The futures when the expired requests without retries left are given up.
GivenUp(old) ==
  [r \in Request |-> IF r \in old /\ retries[r] = MaxRetries THEN Failed ELSE future[r]]

\* Mutant: expired requests are not erased.
ExpireKeeps(from, to) ==
  /\ pc = from
  /\ pc' = to
  /\ \E old \in SUBSET requests :
       LET again == {r \in old : retries[r] < MaxRetries} IN
       /\ retries' = [r \in Request |-> IF r \in again THEN retries[r] + 1 ELSE retries[r]]
       /\ resendQueue' = resendQueue \cup again
       /\ future' = GivenUp(old)
  /\ UNCHANGED <<user, endpoints, requests, world>>

\* requeueExpiredRequests, for the requests found to be too old.
Expire(from, to) ==
  /\ pc = from
  /\ pc' = to
  /\ \E old \in SUBSET requests :
       LET again == {r \in old : retries[r] < MaxRetries} IN
       /\ retries' = [r \in Request |-> IF r \in again THEN retries[r] + 1 ELSE retries[r]]
       /\ resendQueue' = resendQueue \cup again
       /\ future' = GivenUp(old)
       /\ requests' = requests \ old
  /\ UNCHANGED <<user, endpoints, world>>

\* The wait for outstanding requests is over: the sockets are changed.
Switch ==
  /\ pc = "drain"
  /\ stop \/ requests = {}
  /\ endpoints' = endpointsWanted
  /\ endpointsChanged' = FALSE
  /\ pc' = "poll"
  /\ UNCHANGED <<queue, future, endpointsWanted, stop, requests, resendQueue, retries,
                 world>>

\* The conditions under which sendRequests goes on.
CanSend == endpoints # {} /\ Cardinality(requests) < MaxConcurrent

\* One message of sendRequests.  A send that fails is repeated.
Transmit(r) ==
  /\ CanSend
  /\ net' = net \cup {[req |-> r, try |-> retries[r]]}
  /\ requests' = requests \cup {r}
  /\ UNCHANGED <<endpointsWanted, endpointsChanged, stop, future, endpoints, retries,
                 replies, handled>>

\* sendRequests(resendQueue).  Expired requests are found in the arbitrary order of
\* an unordered_map, so any may be at the front.
Resend(r) ==
  /\ pc = "resend"
  /\ r \in resendQueue
  /\ Transmit(r)
  /\ resendQueue' = resendQueue \ {r}
  /\ UNCHANGED <<queue, pc>>

\* ASSERT(resendQueue.empty()): the exception is not caught in this thread.
CheckResent ==
  /\ pc = "resend"
  /\ resendQueue = {} \/ ~CanSend
  /\ pc' = IF resendQueue = {} THEN "send" ELSE "aborted"
  /\ UNCHANGED <<user, future, local, world>>

\* sendRequests(queue_) under queueM_.
Send ==
  /\ pc = "send"
  /\ queue # << >>
  /\ Transmit(Head(queue))
  /\ queue' = Tail(queue)
  /\ UNCHANGED <<pc, resendQueue>>

Sent ==
  /\ pc = "send"
  /\ queue = << >> \/ ~CanSend
  /\ pc' = "top"
  /\ UNCHANGED <<user, future, local, world>>

\* run() returns and the client is destroyed, and with it the promises that are
\* left: their futures get a broken_promise exception.
Exit ==
  /\ pc = "top" /\ stop
  /\ pc' = "exited"
  /\ future' = [r \in Request |-> IF future[r] = NoReply THEN Failed ELSE future[r]]
  /\ queue' = << >>
  /\ requests' = {}
  /\ resendQueue' = {}
  /\ UNCHANGED <<endpointsWanted, endpointsChanged, stop, endpoints, retries, world>>

-----------------------------------------------------------------------------
(* Servers and network.                                                     *)

\* runWorker(): a worker receives a transmission, and its callback replies.
Serve(m, v) ==
  /\ m \in net
  /\ net' = net \ {m}
  /\ replies' = replies \cup {[req |-> m.req, try |-> m.try, val |-> v]}
  /\ handled' = [handled EXCEPT ![m.req] = @ \cup {v}]
  /\ UNCHANGED <<user, future, pc, local>>

\* ZeroMQ, or a server that crashes or is shut down, loses a message.
Lose ==
  /\ \/ \E m \in net : net' = net \ {m} /\ UNCHANGED replies
     \/ \E m \in replies : replies' = replies \ {m} /\ UNCHANGED net
  /\ UNCHANGED <<user, future, pc, local, handled>>

-----------------------------------------------------------------------------

Run ==
  \/ Start \/ Top
  \/ requests # {} /\ ~stop /\ Poll("drain", "drainExpire")
  \/ Expire("drainExpire", "drain") \/ Switch
  \/ Poll("poll", "expire") \/ Expire("expire", "resend")
  \/ \E r \in Request : Resend(r)
  \/ CheckResent \/ Send \/ Sent \/ Exit

Terminated == pc \in {"exited", "aborted"} /\ UNCHANGED vars

Next ==
  \/ \E r \in Request : Submit(r)
  \/ \E eps \in EndpointLists : UpdateEndpoints(eps)
  \/ Stop
  \/ Run
  \/ \E m \in net, v \in Reply : Serve(m, v)
  \/ Lose
  \/ Terminated

Spec == Init /\ [][Next]_vars

\* A round of requeueExpiredRequests that finds r too old.
ExpireOf(r) ==
  /\ Expire("drainExpire", "drain") \/ Expire("expire", "resend")
  /\ r \in requests /\ r \notin requests'

\* The client's thread keeps running: poll() returns at the latest when the oldest
\* outstanding request is due, and a request that stays outstanding is found expired
\* then.
FairSpec ==
  /\ Spec
  /\ WF_vars(Run)
  /\ \A r \in Request : SF_vars(ExpireOf(r))

-----------------------------------------------------------------------------

Queued == Range(queue)

\* The types, and the bound on outstanding requests.
TypeOK ==
  /\ queue \in Seq(Request)
  /\ future \in [Request -> Reply \cup {"unused", NoReply, Failed}]
  /\ endpointsWanted \in EndpointLists /\ endpoints \in SUBSET Endpoint
  /\ endpointsChanged \in BOOLEAN /\ stop \in BOOLEAN
  /\ pc \in {"start", "top", "drain", "drainExpire", "poll", "expire", "resend",
             "send", "exited", "aborted"}
  /\ requests \subseteq Request /\ resendQueue \subseteq Request
  /\ retries \in [Request -> 0 .. MaxRetries]
  /\ net \subseteq Transmission
  /\ replies \subseteq [req : Request, try : 0 .. MaxRetries, val : Reply]
  /\ handled \in [Request -> SUBSET Reply]

\* No request is lost or tracked twice (reqrepserver.cpp:394-396, 417-424, 456-460,
\* 486-499): a request whose future is not ready is in exactly one of queue_,
\* resendQueue and requests, once, and one whose future is ready is in none, whatever
\* is lost on the way and however the endpoints change.
NoRequestLost ==
  /\ IsInjective(queue)
  /\ Queued \cap resendQueue = {} /\ Queued \cap requests = {}
  /\ requests \cap resendQueue = {}
  /\ {r \in Request : future[r] = NoReply} = Queued \cup resendQueue \cup requests

\* At most maxConcurrentRequests_ requests wait for a reply or for being sent again
\* (reqrepserver.cpp:436), so that what expires can be resent at once.
BoundedConcurrency == Cardinality(requests \cup resendQueue) <= MaxConcurrent

\* reqrepserver.cpp:519, ASSERT(resendQueue.empty()): all expired requests are
\* resent before new ones are looked at.
AllResent == pc # "aborted"

\* A future is given, at most once, the reply of a handling of its own request: late
\* and repeated replies are ignored (reqrepserver.cpp:388-401).
Abstract == INSTANCE AtLeastOnce
ImplementsAtLeastOnce == Abstract!Spec

\* Every future becomes ready even if all messages are lost, provided that there are
\* endpoints to send to (reqrepserver.h:82-86).
EveryFutureReady == \A r \in Request : (future[r] = NoReply) ~> (future[r] # NoReply)

=============================================================================

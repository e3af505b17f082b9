----------------------------- MODULE ReqRep_proof -----------------------------
(***************************************************************************)
(* Proofs about ReqRep for any requests, endpoints, number of concurrent   *)
(* requests and number of retries.                                         *)
(***************************************************************************)
EXTENDS ReqRep, FiniteSetTheorems, TLAPS

\* The elements of a queue after push() and pop(), and that they stay distinct.
LEMMA Push ==
  ASSUME NEW S, NEW q \in Seq(S), NEW e \in S
  PROVE  /\ Append(q, e) \in Seq(S)
         /\ Range(Append(q, e)) = Range(q) \cup {e}
         /\ IsInjective(q) /\ e \notin Range(q) => IsInjective(Append(q, e))
<1>1. Append(q, e) \in Seq(S) /\ Len(Append(q, e)) = Len(q) + 1
  OBVIOUS
<1>2. \A i \in 1 .. Len(q) + 1 : Append(q, e)[i] = IF i = Len(q) + 1 THEN e ELSE q[i]
  OBVIOUS
<1>3. DOMAIN q = 1 .. Len(q) /\ DOMAIN Append(q, e) = 1 .. Len(q) + 1 /\ Len(q) \in Nat
  BY <1>1
<1> QED
  BY <1>1, <1>2, <1>3 DEF Range, IsInjective

LEMMA Pop ==
  ASSUME NEW S, NEW q \in Seq(S), q # << >>
  PROVE  /\ Tail(q) \in Seq(S) /\ Head(q) \in S
         /\ Head(q) \in Range(q)
         /\ IsInjective(q) => Range(Tail(q)) = Range(q) \ {Head(q)}
         /\ IsInjective(q) => IsInjective(Tail(q))
<1>1. Tail(q) \in Seq(S) /\ Len(Tail(q)) = Len(q) - 1 /\ Len(q) \in Nat /\ Len(q) > 0
  OBVIOUS
<1>2. Head(q) = q[1] /\ \A i \in 1 .. Len(q) - 1 : Tail(q)[i] = q[i + 1]
  OBVIOUS
<1>3. DOMAIN q = 1 .. Len(q) /\ DOMAIN Tail(q) = 1 .. Len(q) - 1
  BY <1>1
<1>4. q[1] \in S /\ q[1] \in Range(q)
  BY <1>1, <1>3 DEF Range
<1>5. ASSUME IsInjective(q) PROVE Range(Tail(q)) = Range(q) \ {Head(q)}
  <2>1. ASSUME NEW x \in Range(Tail(q)) PROVE x \in Range(q) /\ x # Head(q)
    <3>1. PICK i \in 1 .. Len(q) - 1 : x = Tail(q)[i]
      BY Zenon, <1>3 DEF Range
    <3> QED
      BY <3>1, <1>1, <1>2, <1>3, <1>5 DEF Range, IsInjective
  <2>2. ASSUME NEW x \in Range(q), x # Head(q) PROVE x \in Range(Tail(q))
    <3>1. PICK i \in 1 .. Len(q) : x = q[i]
      BY Zenon, <1>3 DEF Range
    <3>2. i # 1 /\ i - 1 \in 1 .. Len(q) - 1 /\ Tail(q)[i - 1] = x
      BY <3>1, <2>2, <1>1, <1>2
    <3> QED
      BY Zenon, <3>2, <1>3 DEF Range
  <2> QED
    BY Zenon, <2>1, <2>2
<1>6. IsInjective(q) => IsInjective(Tail(q))
  BY <1>1, <1>2, <1>3 DEF IsInjective
<1> QED
  BY Zenon, <1>1, <1>2, <1>4, <1>5, <1>6

-----------------------------------------------------------------------------

\* The requests run() keeps track of: few enough, and no transmission is before its
\* request.
Tracked == requests \cup resendQueue

Bounded == IsFiniteSet(Tracked) /\ Cardinality(Tracked) <= MaxConcurrent

\* Nothing waits to be resent when new requests are sent.
ResentFirst == pc \in {"start", "top", "send"} => resendQueue = {}

\* Messages are about submitted requests, and replies were given by a server.
Genuine ==
  /\ \A m \in net : future[m.req] # "unused"
  /\ \A m \in replies : future[m.req] # "unused" /\ m.val \in handled[m.req]

Connected == pc # "start" => endpoints \in EndpointLists

NeverAborts == {} \notin EndpointLists => AllResent

IInv ==
  /\ TypeOK /\ NoRequestLost
  /\ Bounded /\ ResentFirst /\ Genuine /\ Connected /\ NeverAborts

\* A smaller set of tracked requests is still bounded.
LEMMA Fewer ==
  ASSUME NEW S, NEW T, NEW n \in Nat, IsFiniteSet(S), Cardinality(S) <= n, T \subseteq S
  PROVE  IsFiniteSet(T) /\ Cardinality(T) <= n
BY FS_Subset, FS_CardinalityType

\* The invariant holds initially.
LEMMA InitIInv == Init => IInv
<1> SUFFICES ASSUME Init PROVE IInv
  BY Zenon
<1> USE ReqRepAssumption
<1>1. TypeOK
  <2>1. queue \in Seq(Request) /\ endpoints \in SUBSET Endpoint /\ net \subseteq Transmission
    BY DEF Init
  <2>2. /\ future \in [Request -> Reply \cup {"unused", NoReply, Failed}]
        /\ retries \in [Request -> 0 .. MaxRetries]
        /\ handled \in [Request -> SUBSET Reply]
    BY DEF Init
  <2>3. /\ requests \subseteq Request /\ resendQueue \subseteq Request
        /\ replies \subseteq [req : Request, try : 0 .. MaxRetries, val : Reply]
        /\ endpointsWanted \in EndpointLists
        /\ endpointsChanged \in BOOLEAN /\ stop \in BOOLEAN /\ pc = "start"
    BY Zenon DEF Init
  <2> QED
    BY Zenon, <2>1, <2>2, <2>3 DEF TypeOK
<1>2. Range(queue) = {} /\ IsInjective(queue)
  BY DEF Init, Range, IsInjective
<1>3. NoRequestLost
  BY Zenon, <1>2 DEF Init, NoRequestLost, Queued
<1>4. Tracked = {}
  BY Zenon DEF Init, Tracked
<1>5. Bounded
  BY <1>4, FS_EmptySet DEF Bounded
<1> QED
  BY Zenon, <1>1, <1>3, <1>5
  DEF Init, IInv, ResentFirst, Genuine, Connected, NeverAborts, AllResent

\* The users' steps, and the steps of run() that only move on, keep the invariant.
LEMMA SimpleSteps ==
  ASSUME IInv
  PROVE  /\ (\E r \in Request : Submit(r)) => IInv'
         /\ (\E eps \in EndpointLists : UpdateEndpoints(eps)) => IInv'
         /\ Stop => IInv'
         /\ Start => IInv'
         /\ Top => IInv'
         /\ Switch => IInv'
         /\ CheckResent => IInv'
         /\ Sent => IInv'
         /\ UNCHANGED vars => IInv'
<1> USE ReqRepAssumption
<1>0. TypeOK /\ NoRequestLost /\ Bounded /\ ResentFirst /\ Genuine /\ Connected /\ NeverAborts
  BY Zenon DEF IInv
<1>1. ASSUME NEW r \in Request, Submit(r) PROVE IInv'
  <2>1. /\ future' = [future EXCEPT ![r] = NoReply] /\ future[r] = "unused"
        /\ queue' = Append(queue, r)
        /\ UNCHANGED <<endpointsWanted, endpointsChanged, stop, pc, endpoints, requests,
                       resendQueue, retries, net, replies, handled>>
    BY Zenon, <1>1 DEF Submit, local, world
  <2>2. r \notin Range(queue) /\ r \notin requests /\ r \notin resendQueue
    BY Zenon, <1>0, <2>1 DEF NoRequestLost, Queued
  <2>3. /\ queue' \in Seq(Request) /\ Range(queue') = Range(queue) \cup {r}
        /\ IsInjective(queue')
    BY <1>0, <2>1, <2>2, Push DEF TypeOK, NoRequestLost
  <2>4. \A x \in Request : future'[x] = IF x = r THEN NoReply ELSE future[x]
    BY Zenon, <2>1, <1>0 DEF TypeOK
  <2>5. TypeOK'
    BY Zenon, <1>0, <2>1, <2>3 DEF TypeOK
  <2>6. NoRequestLost'
    BY <1>0, <2>1, <2>2, <2>3, <2>4 DEF NoRequestLost, Queued
  <2>7. (Bounded /\ ResentFirst /\ Connected /\ NeverAborts)'
    BY Zenon, <1>0, <2>1 DEF Bounded, Tracked, ResentFirst, Connected, NeverAborts, AllResent
  <2>8. Genuine'
    BY Zenon, <1>0, <2>1, <2>4 DEF Genuine, TypeOK, Transmission
  <2> QED
    BY Zenon, <2>5, <2>6, <2>7, <2>8 DEF IInv
<1>2. ASSUME NEW eps \in EndpointLists, UpdateEndpoints(eps) PROVE IInv'
  BY Zenon, <1>0, <1>2 DEF UpdateEndpoints, local, world, IInv, TypeOK, NoRequestLost, Queued,
    Bounded, Tracked, ResentFirst, Genuine, Connected, NeverAborts, AllResent
<1>3. ASSUME Stop PROVE IInv'
  BY Zenon, <1>0, <1>3 DEF Stop, local, world, IInv, TypeOK, NoRequestLost, Queued,
    Bounded, Tracked, ResentFirst, Genuine, Connected, NeverAborts, AllResent
<1>4. ASSUME Start PROVE IInv'
  BY Zenon, <1>0, <1>4 DEF Start, local, world, IInv, TypeOK, NoRequestLost, Queued,
    Bounded, Tracked, ResentFirst, Genuine, Connected, NeverAborts, AllResent
<1>5. ASSUME Top PROVE IInv'
  BY Zenon, <1>0, <1>5 DEF Top, user, local, world, IInv, TypeOK, NoRequestLost, Queued,
    Bounded, Tracked, ResentFirst, Genuine, Connected, NeverAborts, AllResent
<1>6. ASSUME Switch PROVE IInv'
  BY Zenon, <1>0, <1>6 DEF Switch, world, IInv, TypeOK, NoRequestLost, Queued,
    Bounded, Tracked, ResentFirst, Genuine, Connected, NeverAborts, AllResent
<1>7. ASSUME CheckResent PROVE IInv'
  <2>1. /\ pc = "resend" /\ (resendQueue = {} \/ ~CanSend)
        /\ pc' = IF resendQueue = {} THEN "send" ELSE "aborted"
        /\ UNCHANGED <<queue, endpointsWanted, endpointsChanged, stop, future, endpoints,
                       requests, resendQueue, retries, net, replies, handled>>
    BY Zenon, <1>7 DEF CheckResent, user, local, world
  <2>2. ASSUME {} \notin EndpointLists PROVE resendQueue = {}
    <3>1. SUFFICES ASSUME NEW r \in resendQueue PROVE FALSE
      BY Zenon
    <3>2. endpoints # {} /\ ~(Cardinality(requests) < MaxConcurrent)
      BY Zenon, <2>1, <2>2, <3>1, <1>0 DEF Connected, CanSend
    <3>3. r \notin requests /\ requests \cup {r} \subseteq Tracked
      BY Zenon, <1>0 DEF NoRequestLost, Tracked
    <3>4. IsFiniteSet(requests) /\ Cardinality(requests) \in Nat
      BY <1>0, FS_Subset, FS_CardinalityType DEF Bounded, Tracked
    <3>5. Cardinality(requests \cup {r}) = Cardinality(requests) + 1
      BY Zenon, <3>3, <3>4, FS_AddElement
    <3>6. Cardinality(requests \cup {r}) <= MaxConcurrent
      BY Zenon, <3>3, <1>0, Fewer DEF Bounded
    <3> QED
      BY <3>2, <3>4, <3>5, <3>6
  <2> QED
    BY Zenon, <1>0, <2>1, <2>2 DEF IInv, TypeOK, NoRequestLost, Queued, Bounded, Tracked,
      ResentFirst, Genuine, Connected, NeverAborts, AllResent
<1>8. ASSUME Sent PROVE IInv'
  BY Zenon, <1>0, <1>8 DEF Sent, user, local, world, IInv, TypeOK, NoRequestLost, Queued,
    Bounded, Tracked, ResentFirst, Genuine, Connected, NeverAborts, AllResent
<1>9. ASSUME UNCHANGED vars PROVE IInv'
  BY Zenon, <1>0, <1>9 DEF vars, IInv, TypeOK, NoRequestLost, Queued,
    Bounded, Tracked, ResentFirst, Genuine, Connected, NeverAborts, AllResent
<1> QED
  BY Zenon, <1>1, <1>2, <1>3, <1>4, <1>5, <1>6, <1>7, <1>8, <1>9

\* pollHandleReply and requeueExpiredRequests keep the invariant, wherever run() calls
\* them.
LEMMA ReplySteps ==
  ASSUME IInv, NEW from, NEW to,
         to \in {"drain", "drainExpire", "expire", "resend"}
  PROVE  /\ from # "start" /\ Poll(from, to) => IInv'
         /\ from # "start" /\ Expire(from, to) => IInv'
<1> USE ReqRepAssumption
<1>0. TypeOK /\ NoRequestLost /\ Bounded /\ ResentFirst /\ Genuine /\ Connected /\ NeverAborts
  BY Zenon DEF IInv
<1>1. ASSUME from # "start", Poll(from, to) PROVE IInv'
  <2>1. /\ pc = from /\ pc' = to
        /\ UNCHANGED <<queue, endpointsWanted, endpointsChanged, stop, endpoints,
                       resendQueue, retries, net, handled>>
    BY Zenon, <1>1 DEF Poll, user
  <2>2. \/ UNCHANGED <<future, requests, replies>>
        \/ /\ replies' \subseteq replies
           /\ \/ UNCHANGED <<future, requests>>
              \/ \E m \in replies : /\ m.req \in requests
                                    /\ future' = [future EXCEPT ![m.req] = m.val]
                                    /\ requests' = requests \ {m.req}
    BY Zenon, <1>1 DEF Poll, Outstanding
  <2>3. CASE replies' \subseteq replies /\ UNCHANGED <<future, requests>>
    BY Zenon, <1>0, <1>1, <2>1, <2>3 DEF IInv, TypeOK, NoRequestLost, Queued, Bounded, Tracked,
      ResentFirst, Genuine, Connected, NeverAborts, AllResent
  <2>4. ASSUME NEW m \in replies, m.req \in requests,
               replies' \subseteq replies,
               future' = [future EXCEPT ![m.req] = m.val],
               requests' = requests \ {m.req}
        PROVE  IInv'
    <3>1. m.req \in Request /\ m.val \in Reply /\ m.val # NoReply /\ m.val # "unused"
      BY Zenon, <1>0, <2>4 DEF TypeOK
    <3>2. \A x \in Request : future'[x] = IF x = m.req THEN m.val ELSE future[x]
      BY Zenon, <1>0, <2>4, <3>1 DEF TypeOK
    <3>3. TypeOK'
      BY Zenon, <1>0, <2>1, <2>4, <3>1 DEF TypeOK
    <3>4. NoRequestLost'
      BY <1>0, <2>1, <2>4, <3>1, <3>2 DEF NoRequestLost, Queued
    <3>5. Bounded'
      <4>1. Tracked' \subseteq Tracked
        BY Zenon, <2>1, <2>4 DEF Tracked
      <4> QED
        BY Zenon, <4>1, <1>0, Fewer DEF Bounded
    <3>6. Genuine'
      BY <1>0, <2>1, <2>4, <3>1, <3>2 DEF Genuine, TypeOK, Transmission
    <3> QED
      BY Zenon, <1>0, <1>1, <2>1, <3>3, <3>4, <3>5, <3>6
      DEF IInv, ResentFirst, Connected, NeverAborts, AllResent
  <2> QED
    BY Zenon, <2>2, <2>3, <2>4
<1>2. ASSUME from # "start", Expire(from, to) PROVE IInv'
  <2>1. /\ pc = from /\ pc' = to
        /\ UNCHANGED <<queue, endpointsWanted, endpointsChanged, stop, endpoints, net,
                       replies, handled>>
    BY Zenon, <1>2 DEF Expire, user, world
  <2> DEFINE again(old) == {r \in old : retries[r] < MaxRetries}
  <2>2. PICK old \in SUBSET requests :
          /\ retries' = [r \in Request |-> IF r \in again(old) THEN retries[r] + 1
                                                              ELSE retries[r]]
          /\ resendQueue' = resendQueue \cup again(old)
          /\ future' = [r \in Request |-> IF r \in old /\ retries[r] = MaxRetries
                                            THEN Failed ELSE future[r]]
          /\ requests' = requests \ old
    BY Zenon, <1>2 DEF Expire, GivenUp
  <2>3. \A r \in Request : retries[r] \in 0 .. MaxRetries
    BY Zenon, <1>0 DEF TypeOK
  <2>4. \A r \in old : r \in again(old) <=> retries[r] # MaxRetries
    BY <2>2, <2>3, <1>0 DEF TypeOK
  <2>5. \A x \in Request : future'[x] = IF x \in old /\ x \notin again(old) THEN Failed
                                                                      ELSE future[x]
    BY Zenon, <2>2, <2>4
  <2>6. TypeOK'
    <3>1. retries' \in [Request -> 0 .. MaxRetries]
      BY <2>2, <2>3
    <3>2. future' \in [Request -> Reply \cup {"unused", NoReply, Failed}]
      BY Zenon, <2>2, <1>0 DEF TypeOK
    <3>3. requests' \subseteq Request /\ resendQueue' \subseteq Request
      BY Zenon, <2>2, <1>0 DEF TypeOK
    <3> QED
      BY Zenon, <1>0, <2>1, <3>1, <3>2, <3>3 DEF TypeOK
  <2>7. again(old) \subseteq old
    BY Zenon
  <2>8. /\ resendQueue' = resendQueue \cup again(old) /\ requests' = requests \ old
        /\ old \subseteq requests
    BY Zenon, <2>2
  <2> HIDE DEF again
  <2>9. NoRequestLost'
    <3>1. (Queued \cap resendQueue = {} /\ Queued \cap requests = {}
           /\ requests \cap resendQueue = {} /\ IsInjective(queue))'
      BY Zenon, <1>0, <2>1, <2>7, <2>8 DEF NoRequestLost, Queued
    <3>2. ASSUME NEW x \in Request
          PROVE  future'[x] = NoReply <=> x \in (Queued \cup resendQueue \cup requests)'
      BY Zenon, <1>0, <2>1, <2>5, <2>7, <2>8 DEF NoRequestLost, Queued
    <3>3. (Queued \cup resendQueue \cup requests)' \subseteq Request
      BY Zenon, <1>0, <2>1, <2>7, <2>8 DEF NoRequestLost, Queued
    <3> QED
      BY Zenon, <3>1, <3>2, <3>3 DEF NoRequestLost, Queued
  <2>10. Bounded'
    <3>1. Tracked' \subseteq Tracked
      BY Zenon, <2>7, <2>8 DEF Tracked
    <3> QED
      BY Zenon, <3>1, <1>0, Fewer DEF Bounded
  <2>11. Genuine'
    BY Zenon, <1>0, <2>1, <2>5 DEF Genuine, TypeOK, Transmission
  <2> QED
    BY Zenon, <1>0, <1>2, <2>1, <2>6, <2>9, <2>10, <2>11
    DEF IInv, ResentFirst, Connected, NeverAborts, AllResent
<1> QED
  BY Zenon, <1>1, <1>2

\* Sending, resending and the end of run() keep the invariant.
LEMMA SendSteps ==
  ASSUME IInv
  PROVE  /\ (\E r \in Request : Resend(r)) => IInv'
         /\ Send => IInv'
         /\ Exit => IInv'
<1> USE ReqRepAssumption
<1>0. TypeOK /\ NoRequestLost /\ Bounded /\ ResentFirst /\ Genuine /\ Connected /\ NeverAborts
  BY Zenon DEF IInv
<1>1. ASSUME NEW r \in Request, future[r] = NoReply,
             net' = net \cup {[req |-> r, try |-> retries[r]]},
             UNCHANGED <<future, retries, replies, handled>>
      PROVE  net' \subseteq Transmission /\ Genuine'
  <2>1. [req |-> r, try |-> retries[r]] \in Transmission
    BY Zenon, <1>0 DEF TypeOK, Transmission
  <2> QED
    BY <1>0, <1>1, <2>1 DEF TypeOK, Genuine
<1>2. ASSUME NEW r \in Request, Resend(r) PROVE IInv'
  <2>1. /\ pc = "resend" /\ r \in resendQueue
        /\ net' = net \cup {[req |-> r, try |-> retries[r]]}
        /\ requests' = requests \cup {r} /\ resendQueue' = resendQueue \ {r}
        /\ UNCHANGED <<queue, pc, endpointsWanted, endpointsChanged, stop, future,
                       endpoints, retries, replies, handled>>
    BY Zenon, <1>2 DEF Resend, Transmit
  <2>2. future[r] = NoReply
    BY Zenon, <1>0, <2>1 DEF NoRequestLost
  <2>3. net' \subseteq Transmission /\ Genuine'
    BY Zenon, <1>1, <2>1, <2>2
  <2>4. NoRequestLost'
    BY Zenon, <1>0, <2>1 DEF NoRequestLost, Queued
  <2>5. Tracked' = Tracked
    BY Zenon, <2>1 DEF Tracked
  <2> QED
    BY Zenon, <1>0, <2>1, <2>3, <2>4, <2>5
    DEF IInv, TypeOK, Bounded, ResentFirst, Connected, NeverAborts, AllResent
<1>3. ASSUME Send PROVE IInv'
  <2> DEFINE r == Head(queue)
  <2>1. /\ pc = "send" /\ queue # << >> /\ Cardinality(requests) < MaxConcurrent
        /\ net' = net \cup {[req |-> r, try |-> retries[r]]}
        /\ requests' = requests \cup {r} /\ queue' = Tail(queue)
        /\ UNCHANGED <<resendQueue, pc, endpointsWanted, endpointsChanged, stop, future,
                       endpoints, retries, replies, handled>>
    BY Zenon, <1>3 DEF Send, Transmit, CanSend
  <2>2. /\ r \in Request /\ r \in Range(queue) /\ queue' \in Seq(Request)
        /\ Range(queue') = Range(queue) \ {r} /\ IsInjective(queue')
    BY Zenon, <1>0, <2>1, Pop DEF TypeOK, NoRequestLost
  <2> HIDE DEF r
  <2>3. future[r] = NoReply
    BY Zenon, <1>0, <2>2 DEF NoRequestLost, Queued
  <2>4. net' \subseteq Transmission /\ Genuine'
    BY Zenon, <1>1, <2>1, <2>2, <2>3
  <2>5. NoRequestLost'
    BY Zenon, <1>0, <2>1, <2>2 DEF NoRequestLost, Queued
  <2>6. Bounded'
    <3>1. resendQueue = {} /\ Tracked = requests /\ Tracked' = requests \cup {r}
      BY Zenon, <1>0, <2>1 DEF ResentFirst, Tracked
    <3>2. IsFiniteSet(requests) /\ Cardinality(requests) \in Nat
      BY Zenon, <3>1, <1>0, FS_CardinalityType DEF Bounded
    <3>3. r \notin requests
      BY Zenon, <1>0, <2>2 DEF NoRequestLost, Queued
    <3>4. IsFiniteSet(requests \cup {r})
      BY Zenon, <3>2, FS_AddElement
    <3>5. Cardinality(requests \cup {r}) = Cardinality(requests) + 1
      BY Zenon, <3>2, <3>3, FS_AddElement
    <3>6. Cardinality(requests) + 1 <= MaxConcurrent
      BY <3>2, <2>1
    <3> QED
      BY Zenon, <3>1, <3>4, <3>5, <3>6 DEF Bounded
  <2> QED
    BY Zenon, <1>0, <2>1, <2>2, <2>4, <2>5, <2>6
    DEF IInv, TypeOK, ResentFirst, Connected, NeverAborts, AllResent
<1>4. ASSUME Exit PROVE IInv'
  <2>1. /\ pc = "top" /\ pc' = "exited"
        /\ future' = [r \in Request |-> IF future[r] = NoReply THEN Failed ELSE future[r]]
        /\ queue' = << >> /\ requests' = {} /\ resendQueue' = {}
        /\ UNCHANGED <<endpointsWanted, endpointsChanged, stop, endpoints, retries, net,
                       replies, handled>>
    BY Zenon, <1>4 DEF Exit, world
  <2>2. Range(queue') = {} /\ IsInjective(queue') /\ queue' \in Seq(Request)
    BY <2>1 DEF Range, IsInjective
  <2>3. \A x \in Request : future'[x] = IF future[x] = NoReply THEN Failed ELSE future[x]
    BY Zenon, <2>1
  <2>4. future' \in [Request -> Reply \cup {"unused", NoReply, Failed}]
    BY Zenon, <2>1, <1>0 DEF TypeOK
  <2>5. TypeOK'
    BY Zenon, <1>0, <2>1, <2>2, <2>4 DEF TypeOK
  <2>6. NoRequestLost'
    BY Zenon, <2>1, <2>2, <2>3 DEF NoRequestLost, Queued
  <2>7. Bounded'
    BY <2>1, FS_EmptySet DEF Bounded, Tracked
  <2>8. Genuine'
    BY Zenon, <1>0, <2>1, <2>3 DEF Genuine, TypeOK, Transmission
  <2> QED
    BY Zenon, <1>0, <2>1, <2>5, <2>6, <2>7, <2>8
    DEF IInv, ResentFirst, Connected, NeverAborts, AllResent
<1> QED
  BY Zenon, <1>2, <1>3, <1>4

\* Servers and the network keep the invariant.
LEMMA WorldSteps ==
  ASSUME IInv
  PROVE  /\ (\E m \in net, v \in Reply : Serve(m, v)) => IInv'
         /\ Lose => IInv'
<1> USE ReqRepAssumption
<1>0. TypeOK /\ NoRequestLost /\ Bounded /\ ResentFirst /\ Genuine /\ Connected /\ NeverAborts
  BY Zenon DEF IInv
<1>1. ASSUME NEW m \in net, NEW v \in Reply, Serve(m, v) PROVE IInv'
  <2>1. /\ net' = net \ {m}
        /\ replies' = replies \cup {[req |-> m.req, try |-> m.try, val |-> v]}
        /\ handled' = [handled EXCEPT ![m.req] = @ \cup {v}]
        /\ UNCHANGED <<queue, endpointsWanted, endpointsChanged, stop, future, pc,
                       endpoints, requests, resendQueue, retries>>
    BY Zenon, <1>1 DEF Serve, user, local
  <2>2. m.req \in Request /\ m.try \in 0 .. MaxRetries
    BY Zenon, <1>0 DEF TypeOK, Transmission
  <2>3. \A x \in Request : handled'[x] = IF x = m.req THEN handled[x] \cup {v} ELSE handled[x]
    BY Zenon, <1>0, <2>1, <2>2 DEF TypeOK
  <2>4. TypeOK'
    BY <1>0, <2>1, <2>2 DEF TypeOK
  <2>5. Genuine'
    BY <1>0, <2>1, <2>2, <2>3 DEF TypeOK, Genuine
  <2> QED
    BY Zenon, <1>0, <2>1, <2>4, <2>5 DEF IInv, NoRequestLost, Queued, Bounded, Tracked,
      ResentFirst, Connected, NeverAborts, AllResent
<1>2. ASSUME Lose PROVE IInv'
  <2>1. /\ net' \subseteq net /\ replies' \subseteq replies
        /\ UNCHANGED <<queue, endpointsWanted, endpointsChanged, stop, future, pc,
                       endpoints, requests, resendQueue, retries, handled>>
    BY Zenon, <1>2 DEF Lose, user, local
  <2> QED
    BY Zenon, <1>0, <2>1 DEF IInv, TypeOK, Genuine, NoRequestLost, Queued, Bounded, Tracked,
      ResentFirst, Connected, NeverAborts, AllResent
<1> QED
  BY Zenon, <1>1, <1>2

\* Every step keeps the invariant.
LEMMA NextIInv == IInv /\ [Next]_vars => IInv'
<1> SUFFICES ASSUME IInv, [Next]_vars PROVE IInv'
  BY Zenon
<1>1. CASE Run
  <2>1. ASSUME Poll("drain", "drainExpire") \/ Poll("poll", "expire") PROVE IInv'
    BY Zenon, <2>1, ReplySteps
  <2>2. ASSUME Expire("drainExpire", "drain") \/ Expire("expire", "resend") PROVE IInv'
    BY Zenon, <2>2, ReplySteps
  <2> QED
    BY Zenon, <1>1, <2>1, <2>2, SimpleSteps, SendSteps DEF Run
<1>2. CASE Terminated \/ UNCHANGED vars
  BY Zenon, <1>2, SimpleSteps DEF Terminated
<1> QED
  BY Zenon, <1>1, <1>2, SimpleSteps, WorldSteps DEF Next

\* The inductive invariant is an invariant.
THEOREM Invariance == Spec => []IInv
<1>1. Init => IInv
  BY Zenon, InitIInv
<1>2. IInv /\ [Next]_vars => IInv'
  BY Zenon, NextIInv
<1> QED
  BY <1>1, <1>2, PTL DEF Spec

\* Type correctness.
THEOREM TypeCorrect == Spec => []TypeOK
<1>1. IInv => TypeOK
  BY Zenon DEF IInv
<1> QED
  BY <1>1, Invariance, PTL

\* No request is lost or tracked twice, for any number of requests, retries and
\* endpoints and any loss of messages.
THEOREM NothingLost == Spec => []NoRequestLost
<1>1. IInv => NoRequestLost
  BY Zenon DEF IInv
<1> QED
  BY <1>1, Invariance, PTL

\* The limit on concurrent requests is kept, the ones to be resent included.
THEOREM ConcurrencyLimit == Spec => []BoundedConcurrency
<1>1. IInv => BoundedConcurrency
  BY Zenon DEF IInv, Bounded, BoundedConcurrency, Tracked
<1> QED
  BY <1>1, Invariance, PTL

\* The assertion in run() holds as long as no empty list of endpoints is set.
THEOREM AssertionHolds ==
  ASSUME {} \notin EndpointLists
  PROVE  Spec => []AllResent
<1>1. IInv => AllResent
  BY Zenon DEF IInv, NeverAborts
<1> QED
  BY <1>1, Invariance, PTL

\* Client, servers and network implement requests handled at least once, with futures
\* set at most once and to a reply to their own request.
THEOREM Refinement == Spec => ImplementsAtLeastOnce
<1> USE ReqRepAssumption
<1>1. Init => Abstract!Init
  BY Zenon DEF Init, Abstract!Init
<1>2. ASSUME IInv, [Next]_vars PROVE [Abstract!Next]_(Abstract!vars)
  <2>0. TypeOK /\ NoRequestLost /\ Genuine
    BY Zenon, <1>2 DEF IInv
  <2>1. ASSUME NEW r \in Request, Submit(r) PROVE Abstract!Next
    BY Zenon, <2>1 DEF Submit, world, Abstract!Next, Abstract!Submit
  <2>2. ASSUME NEW from, NEW to, Poll(from, to)
        PROVE  Abstract!Next \/ UNCHANGED Abstract!vars
    <3>1. UNCHANGED handled
      BY Zenon, <2>2 DEF Poll
    <3>2. ASSUME NEW m \in replies, Outstanding(m),
                 future' = [future EXCEPT ![m.req] = m.val]
          PROVE  Abstract!Next
      <4>1. m.req \in Request /\ future[m.req] = NoReply /\ m.val \in handled[m.req]
        BY Zenon, <2>0, <3>2 DEF TypeOK, NoRequestLost, Genuine, Outstanding
      <4> QED
        BY Zenon, <3>1, <3>2, <4>1 DEF Abstract!Next, Abstract!Fulfil
    <3> QED
      BY Zenon, <2>2, <3>1, <3>2 DEF Poll, Abstract!vars
  <2>3. ASSUME NEW from, NEW to, Expire(from, to) PROVE Abstract!Next
    <3>1. PICK old \in SUBSET requests : future' = GivenUp(old)
      BY Zenon, <2>3 DEF Expire
    <3> DEFINE R == {r \in old : retries[r] = MaxRetries}
    <3>2. R \in SUBSET Request /\ \A r \in R : future[r] = NoReply
      BY Zenon, <2>0, <3>1 DEF TypeOK, NoRequestLost
    <3>3. future' = [r \in Request |-> IF r \in R THEN Failed ELSE future[r]]
      BY Zenon, <3>1 DEF GivenUp
    <3>4. UNCHANGED handled
      BY Zenon, <2>3 DEF Expire, world
    <3> HIDE DEF R
    <3> QED
      BY Zenon, <3>2, <3>3, <3>4 DEF Abstract!Next, Abstract!Fail
  <2>4. ASSUME Exit PROVE Abstract!Next
    <3> DEFINE R == {r \in Request : future[r] = NoReply}
    <3>1. /\ R \in SUBSET Request /\ \A r \in R : future[r] = NoReply
          /\ future' = [r \in Request |-> IF r \in R THEN Failed ELSE future[r]]
          /\ UNCHANGED handled
      BY Zenon, <2>4 DEF Exit, world
    <3> HIDE DEF R
    <3> QED
      BY Zenon, <3>1 DEF Abstract!Next, Abstract!Fail
  <2>5. ASSUME NEW m \in net, NEW v \in Reply, Serve(m, v) PROVE Abstract!Next
    <3>1. m.req \in Request /\ future[m.req] # "unused"
      BY Zenon, <2>0 DEF TypeOK, Transmission, Genuine
    <3> QED
      BY Zenon, <2>5, <3>1 DEF Serve, Abstract!Next, Abstract!Handle
  <2>6. ASSUME \/ \E eps \in EndpointLists : UpdateEndpoints(eps)
               \/ Stop \/ Start \/ Top \/ Switch \/ CheckResent \/ Sent \/ Lose
               \/ Send \/ \E r \in Request : Resend(r)
               \/ Terminated \/ UNCHANGED vars
        PROVE  UNCHANGED Abstract!vars
    BY Zenon, <2>6 DEF UpdateEndpoints, Stop, Start, Top, Switch, CheckResent, Sent, Lose, Send,
      Resend, Transmit, Terminated, vars, world, Abstract!vars
  <2> QED
    BY Zenon, <1>2, <2>1, <2>2, <2>3, <2>4, <2>5, <2>6 DEF Next, Run
<1> QED
  BY <1>1, <1>2, Invariance, PTL DEF Spec, ImplementsAtLeastOnce, Abstract!Spec

===============================================================================

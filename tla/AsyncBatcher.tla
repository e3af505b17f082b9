---------------------------- MODULE AsyncBatcher ----------------------------
(***************************************************************************)
(* AsyncBatcher of cpid/batcher.cpp, with the batches of its subclass      *)
(* SubBatchAsyncBatcher.  Threads call batchedForward; a thread of the     *)
(* batcher takes at most batchSize_ queries at a time, runs the model on   *)
(* them as one batch and answers each caller through its promise.  The     *)
(* owner may stop the batcher and start it again, and the trainer may lock *)
(* the model.                                                              *)
(*                                                                         *)
(* A query is a sequence of rows.  A batch is the rows of its queries one  *)
(* after the other, with the number of rows of each; the model answers row *)
(* by row.  accessMutex_ is a priority_mutex (module PriorityMutex): the   *)
(* priorities callers choose decide who is first, and are left out.        *)
(***************************************************************************)
EXTENDS Integers, Sequences

CONSTANTS
  Callers,    \* threads that call batchedForward
  Rows,       \* how many rows a caller's query has
  MaxBatch    \* batchSize_

\* startBatching throws on other values.
ASSUME BatcherAssumption == MaxBatch \in Nat \ {0} /\ Rows \in [Callers -> Nat]

VARIABLES
  call,        \* caller: "idle", "push", "notify", "wait"
  promise,     \* what the promise of its call holds: NoAnswer, Failed, or a Value
  queries,     \* queries_
  replies,     \* replies_: whose promise each one is
  started,     \* consumeThreadStarted_
  shouldStop,  \* shouldStop_
  cpc,         \* consumeThread: "none" (no thread), "check" the predicate, "blocking",
               \* "blocked", "batch", "forward", "reply", "exit"
  myQueries,   \* its queries and replies
  myReplies,
  values,      \* what it answers them with: replies_values or the exception
  batching,    \* "running", "notify", "join", "stopped": where stopBatching is
  locked       \* whether the trainer holds lockModel()

taken == <<myQueries, myReplies, values>>
vars ==
  <<call, promise, queries, replies, started, shouldStop, cpc, taken, batching, locked>>

NoAnswer == [kind |-> "none", rows |-> << >>]
Failed == [kind |-> "exception", rows |-> << >>]
Value(rows) == [kind |-> "value", rows |-> rows]

\* A query, and the answer of the model to a row.
Query(c) == [i \in 1 .. Rows[c] |-> <<c, i>>]
Model(row) == <<"out", row>>
Result(c) == Value([i \in 1 .. Rows[c] |-> Model(<<c, i>>)])

\* A type invariant.
TypeOK ==
  /\ call \in [Callers -> {"idle", "push", "notify", "wait"}]
  /\ promise \in [Callers -> {NoAnswer, Failed} \union {Result(c) : c \in Callers}]
  /\ started \in BOOLEAN /\ shouldStop \in BOOLEAN /\ locked \in BOOLEAN
  /\ cpc \in {"none", "check", "blocking", "blocked", "batch", "forward", "reply", "exit"}
  /\ queries \in Seq(Seq(Callers \X Nat)) /\ myQueries \in Seq(Seq(Callers \X Nat))
  /\ replies \in Seq(Callers) /\ myReplies \in Seq(Callers)
  /\ batching \in {"running", "notify", "join", "stopped"}

\* The constructor has started the thread.
Init ==
  /\ call = [c \in Callers |-> "idle"]
  /\ promise = [c \in Callers |-> NoAnswer]
  /\ queries = << >> /\ replies = << >>
  /\ started = TRUE /\ shouldStop = FALSE
  /\ cpc = "check"
  /\ myQueries = << >> /\ myReplies = << >>
  /\ values = << >>
  /\ batching = "running"
  /\ locked = FALSE

-----------------------------------------------------------------------------
(* Batches. *)

\* The rows of all queries, one query after the other.
MakeBatch(qs) ==
  LET batch[i \in 0 .. Len(qs)] == IF i = 0 THEN << >> ELSE batch[i - 1] \o qs[i]
  IN  batch[Len(qs)]
BatchSizes(qs) == [i \in DOMAIN qs |-> Len(qs[i])]

\* Mutant: every query is taken to have one row.
EndsSingle(sizes) == [i \in 0 .. Len(sizes) |-> i]

\* Where the rows of each query end in the batch; those of the first one begin after 0.
Ends(sizes) ==
  LET end[i \in 0 .. Len(sizes)] == IF i = 0 THEN 0 ELSE end[i - 1] + sizes[i]
  IN  end

\* split_with_sizes
UnBatch(out, sizes) ==
  [i \in DOMAIN sizes |-> Value(SubSeq(out, Ends(sizes)[i - 1] + 1, Ends(sizes)[i]))]

-----------------------------------------------------------------------------
(* batchedForward. *)

Call(c) ==
  /\ call[c] = "idle"
  /\ started  \* it throws otherwise
  /\ call' = [call EXCEPT ![c] = "push"]
  /\ UNCHANGED <<promise, queries, replies, started, shouldStop, cpc, taken, batching, locked>>

\* The section under accessMutex_, which consumeThread holds until it has blocked.
Push(c) ==
  /\ call[c] = "push"
  /\ cpc # "blocking"
  /\ replies' = Append(replies, c)
  /\ queries' = Append(queries, Query(c))
  /\ call' = [call EXCEPT ![c] = "notify"]
  /\ UNCHANGED <<promise, started, shouldStop, cpc, taken, batching, locked>>

Woken == IF cpc = "blocked" THEN "check" ELSE cpc

\* Mutant: only a full batch is worth waking the thread for.
NotifyFull(c) ==
  /\ call[c] = "notify"
  /\ cpc' = IF Len(queries) >= MaxBatch THEN Woken ELSE cpc
  /\ call' = [call EXCEPT ![c] = "wait"]
  /\ UNCHANGED <<promise, queries, replies, started, shouldStop, taken, batching, locked>>

\* batchReadyCV_.notify_all()
Notify(c) ==
  /\ call[c] = "notify"
  /\ cpc' = Woken
  /\ call' = [call EXCEPT ![c] = "wait"]
  /\ UNCHANGED <<promise, queries, replies, started, shouldStop, taken, batching, locked>>

\* The future is ready.
Return(c) ==
  /\ call[c] = "wait"
  /\ promise[c] # NoAnswer
  /\ promise' = [promise EXCEPT ![c] = NoAnswer]
  /\ call' = [call EXCEPT ![c] = "idle"]
  /\ UNCHANGED <<queries, replies, started, shouldStop, cpc, taken, batching, locked>>

-----------------------------------------------------------------------------
(* consumeThread. *)

TodoSize == IF Len(queries) < MaxBatch THEN Len(queries) ELSE MaxBatch

\* What stays of replies_.
RestReplies == SubSeq(replies, TodoSize + 1, Len(replies))

\* The predicate of batchReadyCV_, and what follows it under accessMutex_.
Consume ==
  /\ cpc = "check"
  /\ \/ /\ shouldStop
        /\ cpc' = "exit"
        /\ UNCHANGED <<queries, replies, myQueries, myReplies>>
     \/ /\ ~shouldStop /\ queries = << >>
        /\ cpc' = "blocking"
        /\ UNCHANGED <<queries, replies, myQueries, myReplies>>
     \/ /\ ~shouldStop /\ queries # << >>
        /\ myQueries' = SubSeq(queries, 1, TodoSize)
        /\ myReplies' = SubSeq(replies, 1, TodoSize)
        /\ queries' = SubSeq(queries, TodoSize + 1, Len(queries))
        /\ replies' = RestReplies
        /\ cpc' = "batch"
  /\ UNCHANGED <<call, promise, started, shouldStop, values, batching, locked>>

\* batchReadyCV_.wait blocks and releases accessMutex_.
Block ==
  /\ cpc = "blocking"
  /\ cpc' = "blocked"
  /\ UNCHANGED <<call, promise, queries, replies, started, shouldStop, taken, batching, locked>>

\* The catch: an exception is for every query of the batch.
AllFailed == [i \in DOMAIN myQueries |-> Failed]

\* makeBatch, which may throw, and the shared lock of the model.
Batch ==
  /\ cpc = "batch"
  /\ \/ ~locked /\ cpc' = "forward" /\ UNCHANGED values
     \/ cpc' = "reply" /\ values' = AllFailed
  /\ UNCHANGED <<call, promise, queries, replies, started, shouldStop, myQueries, myReplies,
                 batching, locked>>

\* The model, which may throw; the lock is released; unBatch.
Forward ==
  /\ cpc = "forward"
  /\ LET in  == MakeBatch(myQueries)
         out == [i \in DOMAIN in |-> Model(in[i])]
     IN  \/ values' = UnBatch(out, BatchSizes(myQueries))
         \/ values' = AllFailed
  /\ cpc' = "reply"
  /\ UNCHANGED <<call, promise, queries, replies, started, shouldStop, myQueries, myReplies,
                 batching, locked>>

\* set_value, or set_exception, of the next promise; then the loop goes on.
Reply ==
  /\ cpc = "reply"
  /\ LET n == Len(myQueries) - Len(myReplies) + 1  \* the next promise
     IN  promise' = [promise EXCEPT ![Head(myReplies)] = values[n]]
  /\ myReplies' = Tail(myReplies)
  /\ IF Len(myReplies) = 1
       THEN cpc' = "check" /\ myQueries' = << >> /\ values' = << >>
       ELSE UNCHANGED <<cpc, myQueries, values>>
  /\ UNCHANGED <<call, queries, replies, started, shouldStop, batching, locked>>

-----------------------------------------------------------------------------
(* The owner and the trainer. *)

\* stopBatching: the flag is stored without accessMutex_,
StopStore ==
  /\ batching = "running"
  /\ shouldStop' = TRUE
  /\ batching' = "notify"
  /\ UNCHANGED <<call, promise, queries, replies, started, cpc, taken, locked>>

\* Mutant: nobody is notified.
StopSilent ==
  /\ batching = "notify"
  /\ batching' = "join"
  /\ UNCHANGED <<call, promise, queries, replies, started, shouldStop, cpc, taken, locked>>

\* batchReadyCV_ is notified,
StopNotify ==
  /\ batching = "notify"
  /\ cpc' = Woken
  /\ batching' = "join"
  /\ UNCHANGED <<call, promise, queries, replies, started, shouldStop, taken, locked>>

\* and the thread is joined; what it has not taken stays in the queue.
StopJoin ==
  /\ batching = "join"
  /\ cpc = "exit"
  /\ cpc' = "none"
  /\ started' = FALSE
  /\ batching' = "stopped"
  /\ UNCHANGED <<call, promise, queries, replies, shouldStop, taken, locked>>

\* startBatching
StartBatching ==
  /\ batching = "stopped"
  /\ started' = TRUE
  /\ shouldStop' = FALSE
  /\ cpc' = "check"
  /\ batching' = "running"
  /\ UNCHANGED <<call, promise, queries, replies, taken, locked>>

\* lockModel waits for the shared lock to be released.
LockModel ==
  /\ ~locked
  /\ cpc # "forward"
  /\ locked' = TRUE
  /\ UNCHANGED <<call, promise, queries, replies, started, shouldStop, cpc, taken, batching>>

UnlockModel ==
  /\ locked
  /\ locked' = FALSE
  /\ UNCHANGED <<call, promise, queries, replies, started, shouldStop, cpc, taken, batching>>

-----------------------------------------------------------------------------

Caller(c) == Call(c) \/ Push(c) \/ Notify(c) \/ Return(c)
Consumer == Consume \/ Block \/ Batch \/ Forward \/ Reply
Stop == StopNotify \/ StopJoin

Next ==
  \/ \E c \in Callers : Caller(c)
  \/ Consumer
  \/ StopStore \/ Stop \/ StartBatching
  \/ LockModel \/ UnlockModel

\* The threads run; a caller gets accessMutex_, and the thread the model, in the end
\* (a priority_mutex passes a waiting thread over boundedly often).  Nobody has to call
\* batchedForward, to stop or to start the batcher, or to lock the model.
Fairness ==
  /\ \A c \in Callers : WF_vars(Notify(c) \/ Return(c)) /\ SF_vars(Push(c))
  /\ WF_vars(Consume \/ Block \/ Forward \/ Reply) /\ SF_vars(Batch)
  /\ WF_vars(Stop)
  /\ WF_vars(UnlockModel)

Spec == Init /\ [][Next]_vars
FairSpec == Spec /\ Fairness

-----------------------------------------------------------------------------
(* Properties. *)

\* A caller gets the rows of the model for its own query, or an exception: the queries and
\* the promises stay paired whatever is taken and left (batcher.cpp:120-130), and the rows
\* of a batch go back to the queries they came from (batcher.cpp:227-244, 408-418).
OwnAnswer == \A c \in Callers : promise[c] \in {NoAnswer, Failed, Result(c)}

\* The calls whose promises consumeThread has still to set, in the order it does.
InLine == myReplies \o replies

Among(c, line) == \E i \in 1 .. Len(line) : line[i] = c
Once(line) == \A i, j \in 1 .. Len(line) : line[i] = line[j] => i = j
Waiting(c) == call[c] \in {"notify", "wait"} /\ promise[c] = NoAnswer

\* The promises in line are those of the calls that wait for an answer, each one once: none
\* is dropped when a batch is cut off the queue (batcher.cpp:120-130), none is kept after
\* it was set, whatever throws, is stopped or is started again.
CallsKept == Once(InLine) /\ \A c \in Callers : Waiting(c) <=> Among(c, InLine)

\* set_value and set_exception throw for a promise that is set, and nothing catches what
\* the handler of consumeThread throws (batcher.cpp:151-160): a promise is set while its
\* call waits, and once.
SetOnce == [][Reply => Waiting(Head(myReplies))]_vars

\* Calls are answered in the order in which they took accessMutex_.
InOrder ==
  [][\/ InLine' = InLine
     \/ \E c \in Callers : InLine' = Append(InLine, c)
     \/ InLine # << >> /\ InLine' = Tail(InLine)]_vars

\* A wake-up is not lost: the thread sleeps on a queue that is not empty only while the
\* caller that filled it has still to notify it (batcher.cpp:84-85, 105-106).
QueueSeen == cpc = "blocked" /\ queries # << >> => \E c \in Callers : call[c] = "notify"

\* There is one thread or none, as consumeThreadStarted_ and stopBatching's progress say, and
\* it ends only after stopBatching has asked for it (batcher.cpp:41-61, 108-110).
ThreadExact ==
  /\ started <=> cpc # "none"
  /\ batching = "stopped" <=> cpc = "none"
  /\ shouldStop <=> batching # "running"
  /\ cpc = "exit" => shouldStop

\* batchedForward returns, unless the batcher is stopped while the call waits: the thread
\* takes what there is and never waits for a full batch (batcher.cpp:105-106), and a
\* stopped thread returns without answering (batcher.cpp:108-110).
CallReturns ==
  \A c \in Callers :
    call[c] \in {"push", "notify", "wait"} ~> (call[c] = "idle" \/ batching # "running")

\* stopBatching returns, unless it notifies while the thread is between its predicate and
\* its block: the flag is stored without accessMutex_ (batcher.cpp:56-57).
StopReturns == batching = "notify" /\ cpc # "blocking" ~> batching = "stopped"

-----------------------------------------------------------------------------
(* The inductive invariant of the proofs. *)

\* The promise of every query.
Paired(qs, rs) == Len(qs) = Len(rs) /\ \A i \in 1 .. Len(rs) : qs[i] = Query(rs[i])

\* What is left of a batch to answer.
Answered ==
  LET done == Len(myQueries) - Len(myReplies)
  IN  /\ done \in Nat
      /\ \A j \in 1 .. Len(myReplies) : values[done + j] \in {Failed, Result(myReplies[j])}

QueryInv ==
  /\ Paired(queries, replies)
  /\ cpc \in {"batch", "forward"} => Paired(myQueries, myReplies)
  /\ cpc = "reply" => Answered
  /\ myReplies # << >> <=> cpc \in {"batch", "forward", "reply"}

PromiseInv ==
  /\ OwnAnswer
  /\ \A c \in Callers : call[c] \in {"idle", "push"} => promise[c] = NoAnswer
  /\ CallsKept

WakeInv == QueueSeen /\ (cpc = "blocking" => queries = << >>)

IInv == TypeOK /\ ThreadExact /\ QueryInv /\ PromiseInv /\ WakeInv
=============================================================================

------------------------- MODULE MCBufferedConsumer -------------------------
(* Instances of BufferedConsumer for TLC.                                   *)
EXTENDS BufferedConsumer

\* All the threads, or the mode without threads.
ThreadsOrNone == {Consumers, {}}

=============================================================================

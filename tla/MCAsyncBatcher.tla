--------------------------- MODULE MCAsyncBatcher ---------------------------
EXTENDS AsyncBatcher, TLC

CONSTANTS c1, c2, c3

\* Queries of one row and of two.
MCRows == (c1 :> 1) @@ (c2 :> 2) @@ (c3 :> 1)
=============================================================================

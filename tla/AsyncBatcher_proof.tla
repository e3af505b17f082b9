------------------------- MODULE AsyncBatcher_proof -------------------------
(***************************************************************************)
(* The safety properties of AsyncBatcher hold for any callers, any number  *)
(* of rows in their queries and every batch size.                          *)
(*                                                                         *)
(* What the recursive functions of makeBatch and split_with_sizes compute  *)
(* is proved by the least counterexample: a set of naturals that is not    *)
(* empty has a least element, so a set that holds 0 and, with i - 1, i     *)
(* holds all of 0 .. n.  It gives a function that satisfies the recursion  *)
(* (SumExists, BatchExists), so the function that CHOOSE picks satisfies   *)
(* it too (EndsMeaning, BatchFunction), and then the place of every row in *)
(* the batch (BatchMeaning) and in what unBatch cuts out of the output     *)
(* (UnBatchMeaning).                                                       *)
(***************************************************************************)
EXTENDS AsyncBatcher, SequenceTheorems, WellFoundedInduction, TLAPS

(* Batches. *)

\* A set of naturals that is not empty has a least element.
LEMMA Least ==
  ASSUME NEW S, S \subseteq Nat, S # {}
  PROVE  \E x \in S : \A y \in S : x <= y
  <1> DEFINE R == OpToRel(<, Nat)
  <1>1. IsWellFoundedOn(R, Nat)
    BY Zenon, NatLessThanWellFounded
  <1>2. \A x, y \in Nat : x < y => <<x, y>> \in R
    BY Zenon DEF OpToRel
  <1> HIDE DEF R
  <1>3. PICK x \in S : \A y \in S : ~(<<y, x>> \in R)
    BY Zenon, <1>1, WFMin
  <1>4. \A y \in S : x <= y
    <2> TAKE y \in S
    <2>1. x \in Nat /\ y \in Nat /\ ~(y < x)
      BY Zenon, <1>2, <1>3
    <2>2. QED
      BY <2>1
  <1>5. QED
    BY Zenon, <1>4

\* Induction up to n, for a set instead of a predicate.
LEMMA Induction ==
  ASSUME NEW n \in Nat, NEW S, 0 \in S, \A i \in 1 .. n : i - 1 \in S => i \in S
  PROVE  0 .. n \subseteq S
  <1> SUFFICES ASSUME (0 .. n) \ S # {} PROVE FALSE
    BY Zenon
  <1>1. (0 .. n) \ S \subseteq Nat
    BY SMT
  <1>2. PICK x \in (0 .. n) \ S : \A y \in (0 .. n) \ S : x <= y
    BY Zenon, <1>1, Least
  <1>3. x \in 1 .. n /\ x - 1 \in 0 .. n /\ ~(x <= x - 1)
    BY <1>2
  <1>4. QED
    BY Zenon, <1>2, <1>3

\* There is a function that adds up the sizes,
LEMMA SumExists ==
  ASSUME NEW s \in Seq(Nat)
  PROVE  \E f \in [0 .. Len(s) -> Nat] :
           /\ f[0] = 0
           /\ \A i \in 1 .. Len(s) : f[i] = f[i - 1] + s[i]
  <1> DEFINE S == {n \in 0 .. Len(s) :
                     \E f \in [0 .. n -> Nat] :
                       f[0] = 0 /\ \A i \in 1 .. n : f[i] = f[i - 1] + s[i]}
  <1>1. 0 \in S
    <2>1. [i \in 0 .. 0 |-> 0] \in [0 .. 0 -> Nat] /\ 0 \in 0 .. Len(s)
      OBVIOUS
    <2>2. [i \in 0 .. 0 |-> 0][0] = 0 /\ 1 .. 0 = {}
      OBVIOUS
    <2>3. QED
      BY Zenon, <2>1, <2>2
  <1>2. ASSUME NEW n \in 1 .. Len(s), n - 1 \in S PROVE n \in S
    <2>1. PICK f \in [0 .. n - 1 -> Nat] :
             f[0] = 0 /\ \A i \in 1 .. n - 1 : f[i] = f[i - 1] + s[i]
      BY Zenon, <1>2
    <2>2. s[n] \in Nat /\ n \in 0 .. Len(s)
      OBVIOUS
    <2> DEFINE g == [i \in 0 .. n |-> IF i = n THEN f[n - 1] + s[n] ELSE f[i]]
    <2>3. g \in [0 .. n -> Nat]
      BY <2>1, <2>2
    <2>4. g[0] = 0 /\ \A i \in 1 .. n : g[i] = g[i - 1] + s[i]
      <3>1. g[n] = f[n - 1] + s[n] /\ \A i \in 0 .. n - 1 : g[i] = f[i]
        BY <2>2
      <3> HIDE DEF g
      <3>2. \A i \in 1 .. n :
              i = n \/ (i \in 1 .. n - 1 /\ i \in 0 .. n - 1 /\ i - 1 \in 0 .. n - 1)
        OBVIOUS
      <3>3. 0 \in 0 .. n - 1 /\ n - 1 \in 0 .. n - 1
        OBVIOUS
      <3>4. QED
        BY Zenon, <2>1, <3>1, <3>2, <3>3
    <2> HIDE DEF g
    <2>5. QED
      BY Zenon, <2>2, <2>3, <2>4
  <1> HIDE DEF S
  <1>3. Len(s) \in 0 .. Len(s)
    OBVIOUS
  <1>4. Len(s) \in S
    BY Zenon, <1>1, <1>2, <1>3, Induction, LenProperties
  <1>5. QED
    BY Zenon, <1>4 DEF S

\* so Ends is one: where a query ends is where the one before it ends, and its size.
LEMMA EndsMeaning ==
  ASSUME NEW s \in Seq(Nat)
  PROVE  /\ Ends(s) \in [0 .. Len(s) -> Nat]
         /\ Ends(s)[0] = 0
         /\ \A i \in 1 .. Len(s) : Ends(s)[i] = Ends(s)[i - 1] + s[i]
  <1> DEFINE Is(f) == f = [i \in 0 .. Len(s) |-> IF i = 0 THEN 0 ELSE f[i - 1] + s[i]]
  <1>1. PICK f \in [0 .. Len(s) -> Nat] :
           f[0] = 0 /\ \A i \in 1 .. Len(s) : f[i] = f[i - 1] + s[i]
    BY Zenon, SumExists
  <1>2. Is(f)
    BY <1>1
  <1>3. Ends(s) = CHOOSE g : Is(g)
    BY Zenon DEF Ends
  <1>4. Is(Ends(s))
    BY Zenon, <1>2, <1>3
  <1>5. PICK e : e = Ends(s)
    BY Zenon
  <1>6. e = [i \in 0 .. Len(s) |-> IF i = 0 THEN 0 ELSE e[i - 1] + s[i]]
    BY Zenon, <1>4, <1>5
  <1>7. Len(s) \in Nat /\ (\A i \in 1 .. Len(s) : s[i] \in Nat)
    OBVIOUS
  <1>8. e[0] = 0 /\ \A i \in 1 .. Len(s) : e[i] = e[i - 1] + s[i]
    <2>1. 0 \in 0 .. Len(s) /\ \A i \in 1 .. Len(s) : i \in 0 .. Len(s) /\ i # 0
      BY <1>7
    <2>2. QED
      BY Zenon, <1>6, <2>1
  <1> DEFINE S == {i \in 0 .. Len(s) : e[i] \in Nat}
  <1>9. 0 .. Len(s) \subseteq S
    <2>1. 0 \in S
      BY <1>7, <1>8
    <2>2. ASSUME NEW i \in 1 .. Len(s), i - 1 \in S PROVE i \in S
      <3>1. PICK a \in Nat : a = e[i - 1]
        BY Zenon, <2>2
      <3>2. PICK b \in Nat : b = s[i]
        BY Zenon, <1>7
      <3>3. i \in 0 .. Len(s) /\ a + b \in Nat
        BY <1>7
      <3>4. QED
        BY Zenon, <1>8, <3>1, <3>2, <3>3
    <2> HIDE DEF S
    <2>3. QED
      BY Zenon, <1>7, <2>1, <2>2, Induction
  <1>10. e \in [0 .. Len(s) -> Nat]
    BY Zenon, <1>6, <1>9
  <1>11. QED
    BY Zenon, <1>5, <1>8, <1>10

\* There is a function that concatenates the queries,
LEMMA BatchExists ==
  ASSUME NEW V, NEW qs \in Seq(Seq(V))
  PROVE  \E f \in [0 .. Len(qs) -> Seq(V)] :
           /\ f[0] = << >>
           /\ \A i \in 1 .. Len(qs) : f[i] = f[i - 1] \o qs[i]
  <1> DEFINE S == {n \in 0 .. Len(qs) :
                     \E f \in [0 .. n -> Seq(V)] :
                       f[0] = << >> /\ \A i \in 1 .. n : f[i] = f[i - 1] \o qs[i]}
  <1>1. Len(qs) \in Nat /\ \A i \in 1 .. Len(qs) : qs[i] \in Seq(V)
    OBVIOUS
  <1>2. 0 \in S
    <2>1. [i \in 0 .. 0 |-> << >>] \in [0 .. 0 -> Seq(V)] /\ 0 \in 0 .. Len(qs)
      BY <1>1
    <2>2. [i \in 0 .. 0 |-> << >>][0] = << >> /\ 1 .. 0 = {}
      OBVIOUS
    <2>3. QED
      BY Zenon, <2>1, <2>2
  <1>3. ASSUME NEW n \in 1 .. Len(qs), n - 1 \in S PROVE n \in S
    <2>1. n \in 0 .. Len(qs) /\ qs[n] \in Seq(V)
      BY <1>1
    <2>2. PICK f \in [0 .. n - 1 -> Seq(V)] :
             f[0] = << >> /\ \A i \in 1 .. n - 1 : f[i] = f[i - 1] \o qs[i]
      BY Zenon, <1>3
    <2> DEFINE g == [i \in 0 .. n |-> IF i = n THEN f[n - 1] \o qs[n] ELSE f[i]]
    <2>3. 0 \in 0 .. n - 1 /\ n - 1 \in 0 .. n - 1 /\ f[n - 1] \in Seq(V)
      OBVIOUS
    <2>4. f[n - 1] \o qs[n] \in Seq(V)
      BY Zenon, <2>1, <2>3, ConcatProperties
    <2>5. \A i \in 0 .. n : i = n \/ i \in 0 .. n - 1
      OBVIOUS
    <2>6. g \in [0 .. n -> Seq(V)]
      BY Zenon, <2>2, <2>4, <2>5
    <2>7. g[n] = f[n - 1] \o qs[n] /\ \A i \in 0 .. n - 1 : g[i] = f[i]
      <3>1. n \in 0 .. n /\ \A i \in 0 .. n - 1 : i \in 0 .. n /\ i # n
        OBVIOUS
      <3>2. QED
        BY Zenon, <3>1
    <2> HIDE DEF g
    <2>8. \A i \in 1 .. n : i = n \/ (i \in 1 .. n - 1 /\ i \in 0 .. n - 1 /\ i - 1 \in 0 .. n - 1)
      OBVIOUS
    <2>9. g[0] = << >> /\ \A i \in 1 .. n : g[i] = g[i - 1] \o qs[i]
      BY Zenon, <2>2, <2>3, <2>7, <2>8
    <2>10. QED
      BY Zenon, <2>1, <2>6, <2>9
  <1> HIDE DEF S
  <1>4. Len(qs) \in S
    <2>1. Len(qs) \in 0 .. Len(qs)
      BY <1>1
    <2>2. QED
      BY Zenon, <1>1, <1>2, <1>3, <2>1, Induction
  <1>5. QED
    BY Zenon, <1>4 DEF S

\* so MakeBatch is its last value.
LEMMA BatchFunction ==
  ASSUME NEW V, NEW qs \in Seq(Seq(V))
  PROVE  \E f \in [0 .. Len(qs) -> Seq(V)] :
           /\ f[0] = << >>
           /\ \A i \in 1 .. Len(qs) : f[i] = f[i - 1] \o qs[i]
           /\ MakeBatch(qs) = f[Len(qs)]
  <1> DEFINE Is(f) == f = [i \in 0 .. Len(qs) |-> IF i = 0 THEN << >> ELSE f[i - 1] \o qs[i]]
  <1>1. PICK f \in [0 .. Len(qs) -> Seq(V)] :
           f[0] = << >> /\ \A i \in 1 .. Len(qs) : f[i] = f[i - 1] \o qs[i]
    BY Zenon, BatchExists
  <1>2. Len(qs) \in Nat /\ \A i \in 0 .. Len(qs) : i = 0 \/ (i # 0 /\ i \in 1 .. Len(qs))
    OBVIOUS
  <1>3. Is(f)
    <2>1. \A i \in 0 .. Len(qs) : f[i] = IF i = 0 THEN << >> ELSE f[i - 1] \o qs[i]
      BY Zenon, <1>1, <1>2
    <2>2. f = [i \in 0 .. Len(qs) |-> f[i]]
      BY Zenon
    <2>3. QED
      BY Zenon, <2>1, <2>2
  <1>4. PICK g : g = CHOOSE h : Is(h)
    BY Zenon
  <1>5. g = [i \in 0 .. Len(qs) |-> IF i = 0 THEN << >> ELSE g[i - 1] \o qs[i]]
    BY Zenon, <1>3, <1>4
  <1>6. MakeBatch(qs) = g[Len(qs)]
    BY Zenon, <1>4 DEF MakeBatch
  <1> DEFINE S == {i \in 0 .. Len(qs) : g[i] = f[i]}
  <1>7. 0 \in S
    <2>1. 0 \in 0 .. Len(qs)
      BY <1>2
    <2>2. QED
      BY Zenon, <1>1, <1>5, <2>1
  <1>8. ASSUME NEW i \in 1 .. Len(qs), i - 1 \in S PROVE i \in S
    <2>1. i \in 0 .. Len(qs) /\ i # 0
      BY <1>2
    <2>2. g[i] = g[i - 1] \o qs[i] /\ g[i - 1] = f[i - 1]
      BY Zenon, <1>5, <1>8, <2>1
    <2>3. QED
      BY Zenon, <1>1, <2>1, <2>2
  <1>9. Len(qs) \in S
    <2> HIDE DEF S
    <2>1. Len(qs) \in 0 .. Len(qs)
      BY <1>2
    <2>2. QED
      BY Zenon, <1>2, <1>7, <1>8, <2>1, Induction
  <1>10. QED
    BY Zenon, <1>1, <1>6, <1>9

\* A part of an interval, and what it becomes when the interval is extended.
LEMMA Within ==
  ASSUME NEW a \in Nat, NEW l \in Nat, NEW m \in Nat, NEW n \in Nat, a + l \in 0 .. m
  PROVE  /\ a + l \in 0 .. m + n
         /\ \A k \in 1 .. l : a + k \in 1 .. m
  OBVIOUS

\* The elements of a concatenation.
LEMMA Concatenation ==
  ASSUME NEW V, NEW s \in Seq(V), NEW t \in Seq(V)
  PROVE  /\ Len(s \o t) = Len(s) + Len(t)
         /\ \A j \in 1 .. Len(s) : (s \o t)[j] = s[j]
         /\ \A k \in 1 .. Len(t) : (s \o t)[Len(s) + k] = t[k]
  <1>1. Len(s) \in Nat /\ Len(t) \in Nat
    OBVIOUS
  <1>2. \A j \in 1 .. Len(s) : j \in 1 .. Len(s) + Len(t) /\ j <= Len(s)
    BY <1>1
  <1>3. \A k \in 1 .. Len(t) :
          /\ Len(s) + k \in 1 .. Len(s) + Len(t)
          /\ ~(Len(s) + k <= Len(s)) /\ (Len(s) + k) - Len(s) = k
    BY <1>1
  <1>4. PICK c : c = s \o t
    BY Zenon
  <1>5. /\ Len(c) = Len(s) + Len(t)
        /\ \A i \in 1 .. Len(s) + Len(t) : c[i] = IF i <= Len(s) THEN s[i] ELSE t[i - Len(s)]
    BY Zenon, <1>4, ConcatProperties
  <1>6. \A j \in 1 .. Len(s) : c[j] = s[j]
    BY Zenon, <1>2, <1>5
  <1>7. \A k \in 1 .. Len(t) : c[Len(s) + k] = t[k]
    BY Zenon, <1>3, <1>5
  <1>8. QED
    BY Zenon, <1>4, <1>5, <1>6, <1>7

\* The rows of query i follow those of the queries before it.
LEMMA BatchMeaning ==
  ASSUME NEW V, NEW qs \in Seq(Seq(V))
  PROVE  /\ BatchSizes(qs) \in Seq(Nat) /\ Len(BatchSizes(qs)) = Len(qs)
         /\ MakeBatch(qs) \in Seq(V)
         /\ \A i \in 1 .. Len(qs) :
              /\ Ends(BatchSizes(qs))[i] \in 0 .. Len(MakeBatch(qs))
              /\ \A k \in 1 .. Len(qs[i]) :
                   MakeBatch(qs)[Ends(BatchSizes(qs))[i - 1] + k] = qs[i][k]
  <1>1. Len(qs) \in Nat /\ \A i \in 1 .. Len(qs) : qs[i] \in Seq(V) /\ Len(qs[i]) \in Nat
    OBVIOUS
  <1>2. /\ BatchSizes(qs) \in Seq(Nat) /\ Len(BatchSizes(qs)) = Len(qs)
        /\ \A i \in 1 .. Len(qs) : BatchSizes(qs)[i] = Len(qs[i])
    <2>1. DOMAIN qs = 1 .. Len(qs)
      BY Zenon, LenProperties
    <2>2. PICK sizes : sizes = BatchSizes(qs)
      BY Zenon
    <2>3. sizes = [i \in 1 .. Len(qs) |-> Len(qs[i])]
      BY Zenon, <2>1, <2>2 DEF BatchSizes
    <2>4. sizes \in Seq(Nat) /\ Len(sizes) = Len(qs)
      BY <1>1, <2>3
    <2>5. QED
      BY Zenon, <2>2, <2>3, <2>4
  <1>3. PICK e : e = Ends(BatchSizes(qs))
    BY Zenon
  <1>4. /\ e \in [0 .. Len(qs) -> Nat] /\ e[0] = 0
        /\ \A i \in 1 .. Len(qs) : e[i] = e[i - 1] + Len(qs[i])
    BY Zenon, <1>2, <1>3, EndsMeaning
  <1>5. PICK f \in [0 .. Len(qs) -> Seq(V)] :
           /\ f[0] = << >>
           /\ \A i \in 1 .. Len(qs) : f[i] = f[i - 1] \o qs[i]
           /\ MakeBatch(qs) = f[Len(qs)]
    BY Zenon, BatchFunction
  <1> DEFINE Laid(n) ==
               /\ Len(f[n]) = e[n]
               /\ \A i \in 1 .. n :
                    /\ e[i] \in 0 .. e[n]
                    /\ \A k \in 1 .. Len(qs[i]) : f[n][e[i - 1] + k] = qs[i][k]
             S == {n \in 0 .. Len(qs) : Laid(n)}
  <1>6. ASSUME NEW n \in 1 .. Len(qs), n - 1 \in S PROVE n \in S
    <2>1. n \in 0 .. Len(qs) /\ n - 1 \in 0 .. Len(qs)
      BY <1>1
    <2>2. /\ e[n] \in Nat /\ e[n - 1] \in Nat /\ Len(qs[n]) \in Nat
          /\ e[n] = e[n - 1] + Len(qs[n]) /\ qs[n] \in Seq(V)
      BY Zenon, <1>1, <1>4, <2>1
    <2>3. PICK s \in Seq(V) : s = f[n - 1]
      BY Zenon, <1>5, <2>1
    <2>4. Laid(n - 1) /\ f[n] = s \o qs[n] /\ Len(s) = e[n - 1]
      BY Zenon, <1>5, <1>6, <2>3
    <2>5. /\ Len(f[n]) = e[n]
          /\ \A i \in 1 .. e[n - 1] : f[n][i] = f[n - 1][i]
          /\ \A k \in 1 .. Len(qs[n]) : f[n][e[n - 1] + k] = qs[n][k]
      <3>1. /\ Len(s \o qs[n]) = Len(s) + Len(qs[n])
            /\ \A i \in 1 .. Len(s) : (s \o qs[n])[i] = s[i]
            /\ \A k \in 1 .. Len(qs[n]) : (s \o qs[n])[Len(s) + k] = qs[n][k]
        BY <2>2, Concatenation, SMTT(20)
      <3>2. QED
        BY Zenon, <2>2, <2>3, <2>4, <3>1
    <2>6. ASSUME NEW i \in 1 .. n
          PROVE  /\ e[i] \in 0 .. e[n]
                 /\ \A k \in 1 .. Len(qs[i]) : f[n][e[i - 1] + k] = qs[i][k]
      <3>1. CASE i = n
        <4>1. e[n] \in 0 .. e[n]
          BY <2>2
        <4>2. QED
          BY Zenon, <2>5, <3>1, <4>1
      <3>2. CASE i # n
        <4>1. i \in 1 .. n - 1 /\ i \in 1 .. Len(qs) /\ i - 1 \in 0 .. Len(qs)
          BY <3>2
        <4>2. /\ e[i] \in 0 .. e[n - 1] /\ e[i - 1] \in Nat /\ Len(qs[i]) \in Nat
              /\ e[i] = e[i - 1] + Len(qs[i])
          BY Zenon, <1>1, <1>4, <2>4, <4>1
        <4>3. e[i - 1] + Len(qs[i]) \in 0 .. e[n - 1]
          BY Zenon, <4>2
        <4>4. e[i - 1] + Len(qs[i]) \in 0 .. e[n - 1] + Len(qs[n])
          BY Zenon, <2>2, <4>2, <4>3, Within
        <4>5. e[i] \in 0 .. e[n]
          BY Zenon, <2>2, <4>2, <4>4
        <4>6. \A k \in 1 .. Len(qs[i]) : e[i - 1] + k \in 1 .. e[n - 1]
          BY Zenon, <2>2, <4>2, <4>3, Within
        <4>7. QED
          BY Zenon, <2>4, <2>5, <4>1, <4>5, <4>6
      <3>3. QED
        BY Zenon, <3>1, <3>2
    <2>7. QED
      BY Zenon, <2>1, <2>5, <2>6
  <1>7. 0 \in S
    BY <1>1, <1>4, <1>5
  <1>8. Len(qs) \in S
    <2> HIDE DEF S
    <2>1. Len(qs) \in 0 .. Len(qs)
      BY <1>1
    <2>2. QED
      BY Zenon, <1>1, <1>6, <1>7, <2>1, Induction
  <1>9. Laid(Len(qs)) /\ MakeBatch(qs) \in Seq(V)
    BY Zenon, <1>5, <1>8
  <1>10. QED
    BY Zenon, <1>2, <1>3, <1>5, <1>9

\* A part of a sequence, as a function.
LEMMA Slice ==
  ASSUME NEW M, NEW out \in Seq(M), NEW a \in Nat, NEW l \in Nat, a + l \in 0 .. Len(out)
  PROVE  SubSeq(out, a + 1, a + l) = [k \in 1 .. l |-> out[a + k]]
  <1>1. Len(out) \in Nat /\ \A i \in a + 1 .. a + l : out[i] \in M
    OBVIOUS
  <1>2. \A k \in 1 .. l : out[a + k] \in M
    BY <1>1
  <1> DEFINE t == [k \in 1 .. l |-> out[a + k]]
  <1>3. t \in Seq(M) /\ Len(t) = l /\ \A k \in 1 .. l : t[k] = out[a + k]
    BY <1>2
  <1>4. PICK s : s = SubSeq(out, a + 1, a + l)
    BY Zenon
  <1>5. s \in Seq(M) /\ Len(s) = l /\ \A k \in 1 .. l : s[k] = out[a + k]
    <2>1. a + 1 \in Int /\ a + l \in Int
      OBVIOUS
    <2>2. /\ s \in Seq(M)
          /\ Len(s) = IF a + 1 <= a + l THEN (a + l) - (a + 1) + 1 ELSE 0
          /\ \A i \in 1 .. (a + l) - (a + 1) + 1 : s[i] = out[(a + 1) + i - 1]
      BY <1>1, <1>4, <2>1, SubSeqProperties
    <2>3. (a + l) - (a + 1) + 1 = l /\ (~(a + 1 <= a + l) => l = 0)
      OBVIOUS
    <2>4. \A k \in 1 .. l : (a + 1) + k - 1 = a + k
      OBVIOUS
    <2>5. QED
      BY Zenon, <2>2, <2>3, <2>4
  <1> HIDE DEF t
  <1>6. s = t
    BY Zenon, <1>3, <1>5, SeqEqual
  <1>7. QED
    BY Zenon, <1>4, <1>6 DEF t

\* unBatch gives every query the answers to its own rows.
LEMMA UnBatchMeaning ==
  ASSUME NEW qs \in Seq(Seq(Callers \X Nat)), NEW rs \in Seq(Callers),
         Paired(qs, rs)
  PROVE  \A i \in 1 .. Len(rs) :
           UnBatch([k \in DOMAIN MakeBatch(qs) |-> Model(MakeBatch(qs)[k])], BatchSizes(qs))[i]
             = Result(rs[i])
  <1>0. PICK rows : rows = MakeBatch(qs)
    BY Zenon
  <1> DEFINE V == Callers \X Nat
             M == {Model(v) : v \in V}
             out == [k \in DOMAIN rows |-> Model(rows[k])]
  <1>1. PICK sizes : sizes = BatchSizes(qs)
    BY Zenon
  <1>2. PICK e : e = Ends(sizes)
    BY Zenon
  <1>3. /\ sizes \in Seq(Nat) /\ Len(sizes) = Len(qs) /\ rows \in Seq(V)
        /\ \A i \in 1 .. Len(qs) :
             /\ e[i] \in 0 .. Len(rows)
             /\ \A k \in 1 .. Len(qs[i]) : rows[e[i - 1] + k] = qs[i][k]
    <2>1. qs \in Seq(Seq(V))
      BY Zenon
    <2> HIDE DEF V
    <2>2. /\ BatchSizes(qs) \in Seq(Nat) /\ Len(BatchSizes(qs)) = Len(qs)
          /\ MakeBatch(qs) \in Seq(V)
          /\ \A i \in 1 .. Len(qs) :
               /\ Ends(BatchSizes(qs))[i] \in 0 .. Len(MakeBatch(qs))
               /\ \A k \in 1 .. Len(qs[i]) :
                    MakeBatch(qs)[Ends(BatchSizes(qs))[i - 1] + k] = qs[i][k]
      BY Zenon, <2>1, BatchMeaning
    <2>3. QED
      BY Zenon, <1>0, <1>1, <1>2, <2>2
  <1>4. DOMAIN rows = 1 .. Len(rows) /\ Len(rows) \in Nat /\ DOMAIN sizes = 1 .. Len(sizes)
    BY <1>3, LenProperties
  <1>5. out \in Seq(M) /\ Len(out) = Len(rows)
    <2>1. \A k \in 1 .. Len(rows) : rows[k] \in V
      BY Zenon, <1>3, LenProperties
    <2>2. out = [k \in 1 .. Len(rows) |-> Model(rows[k])]
      BY Zenon, <1>4
    <2>3. \A k \in 1 .. Len(rows) : Model(rows[k]) \in M
      BY Zenon, <2>1
    <2> HIDE DEF M, V
    <2>4. QED
      BY <1>4, <2>2, <2>3
  <1>6. ASSUME NEW i \in 1 .. Len(rs)
        PROVE  UnBatch(out, sizes)[i] = Result(rs[i])
    <2>1. Len(qs) = Len(rs) /\ qs[i] = Query(rs[i]) /\ i \in 1 .. Len(qs) /\ rs[i] \in Callers
      BY Zenon, LenProperties DEF Paired
    <2>2. PICK l \in Nat : l = Rows[rs[i]]
      BY Zenon, <2>1, BatcherAssumption
    <2>3. Len(qs[i]) = l /\ \A k \in 1 .. l : qs[i][k] = <<rs[i], k>>
      <3>1. qs[i] = [k \in 1 .. l |-> <<rs[i], k>>]
        BY Zenon, <2>1, <2>2 DEF Query
      <3>2. QED
        BY <3>1
    <2>4. /\ e \in [0 .. Len(qs) -> Nat]
          /\ e[i] = e[i - 1] + sizes[i] /\ sizes[i] = l
      <3>1. sizes[i] = Len(qs[i])
        <4>1. DOMAIN qs = 1 .. Len(qs)
          BY Zenon, LenProperties
        <4>2. QED
          BY Zenon, <1>1, <2>1, <4>1 DEF BatchSizes
      <3>2. QED
        BY Zenon, <1>2, <1>3, <2>1, <2>3, <3>1, EndsMeaning
    <2>5. i - 1 \in 0 .. Len(qs)
      BY <2>1
    <2>6. PICK a \in Nat : a = e[i - 1]
      BY Zenon, <2>4, <2>5
    <2>7. e[i] = a + l /\ a + l \in 0 .. Len(rows)
      BY Zenon, <1>3, <2>1, <2>4, <2>6
    <2>8. UnBatch(out, sizes)[i] = Value(SubSeq(out, a + 1, a + l))
      BY Zenon, <1>2, <1>3, <1>4, <2>1, <2>6, <2>7 DEF UnBatch
    <2>9. SubSeq(out, a + 1, a + l) = [k \in 1 .. l |-> out[a + k]]
      <3> HIDE DEF out, M
      <3>1. a + l \in 0 .. Len(out)
        BY Zenon, <1>5, <2>7
      <3>2. QED
        BY <1>5, <3>1, Slice, SMTT(20)
    <2>10. ASSUME NEW k \in 1 .. l PROVE out[a + k] = Model(<<rs[i], k>>)
      <3>1. a + k \in 1 .. Len(rows)
        BY Zenon, <1>4, <2>7, Within
      <3>2. out[a + k] = Model(rows[a + k])
        BY Zenon, <1>4, <3>1
      <3>3. rows[a + k] = <<rs[i], k>>
        BY Zenon, <1>3, <2>1, <2>3, <2>6
      <3>4. QED
        BY Zenon, <3>2, <3>3
    <2>11. SubSeq(out, a + 1, a + l) = [k \in 1 .. l |-> Model(<<rs[i], k>>)]
      <3> HIDE DEF out
      <3>1. [k \in 1 .. l |-> out[a + k]] = [k \in 1 .. l |-> Model(<<rs[i], k>>)]
        BY Zenon, <2>10
      <3>2. QED
        BY Zenon, <2>9, <3>1
    <2>12. QED
      BY Zenon, <2>2, <2>8, <2>11 DEF Result
  <1>7. QED
    BY Zenon, <1>0, <1>1, <1>6

(* Queues. *)

\* t is s with c at its end.
Extended(t, s, c) ==
  \E n \in Nat : /\ n = Len(s) /\ Len(t) = n + 1 /\ t[n + 1] = c
                 /\ \A i \in 1 .. n : t[i] = s[i]

\* Append(s, c) is.
LEMMA AppendElements ==
  ASSUME NEW T, NEW s \in Seq(T), NEW c \in T
  PROVE  Extended(Append(s, c), s, c)
  <1>1. PICK n \in Nat : n = Len(s)
    BY Zenon, LenProperties
  <1>2. PICK t : t = Append(s, c)
    BY Zenon
  <1>3. Len(t) = n + 1 /\ t[n + 1] = c /\ \A i \in 1 .. n : t[i] = s[i]
    BY <1>1, <1>2
  <1>4. QED
    BY Zenon, <1>1, <1>2, <1>3 DEF Extended

\* A queue that grows at its end.
LEMMA AppendLine ==
  ASSUME NEW T, NEW s \in Seq(T), NEW c \in T
  PROVE  /\ \A d : Among(d, Append(s, c)) <=> Among(d, s) \/ d = c
         /\ Once(s) /\ ~Among(c, s) => Once(Append(s, c))
  <1>1. PICK t : t = Append(s, c)
    BY Zenon
  <1>2. PICK n \in Nat :
           /\ n = Len(s) /\ Len(t) = n + 1 /\ t[n + 1] = c
           /\ \A i \in 1 .. n : t[i] = s[i]
    <2>1. Extended(Append(s, c), s, c)
      BY Zenon, AppendElements
    <2>2. Extended(t, s, c)
      BY Zenon, <1>1, <2>1
    <2>3. QED
      BY Zenon, <2>2 DEF Extended
  <1>3. \A i \in 1 .. n + 1 : i \in 1 .. n \/ i = n + 1
    OBVIOUS
  <1>4. n + 1 \in 1 .. n + 1 /\ \A i \in 1 .. n : i \in 1 .. n + 1
    OBVIOUS
  <1>5. \A d : Among(d, t) <=> Among(d, s) \/ d = c
    BY Zenon, <1>2, <1>3, <1>4 DEF Among
  <1>6. ASSUME Once(s), ~Among(c, s) PROVE Once(t)
    BY Zenon, <1>2, <1>3, <1>6 DEF Once, Among
  <1>7. QED
    BY Zenon, <1>1, <1>5, <1>6

\* A queue that loses its first element.
LEMMA TailLine ==
  ASSUME NEW T, NEW s \in Seq(T), s # << >>, Once(s)
  PROVE  /\ Among(Head(s), s)
         /\ \A d : Among(d, Tail(s)) <=> Among(d, s) /\ d # Head(s)
         /\ Once(Tail(s))
  <1>1. PICK t : t = Tail(s)
    BY Zenon
  <1>2. PICK n \in Nat : Len(s) = n + 1
    <2>1. Len(s) \in Nat /\ Len(s) # 0
      OBVIOUS
    <2>2. Len(s) - 1 \in Nat /\ Len(s) = (Len(s) - 1) + 1
      BY <2>1
    <2>3. QED
      BY Zenon, <2>2
  <1>3. Len(t) = n /\ \A i \in 1 .. n : t[i] = s[i + 1]
    <2>1. Len(t) = Len(s) - 1 /\ \A i \in 1 .. Len(t) : t[i] = s[i + 1]
      BY Zenon, <1>1, HeadTailProperties
    <2>2. Len(t) = n
      BY <1>2, <2>1
    <2>3. QED
      BY Zenon, <2>1, <2>2
  <1>4. Head(s) = s[1]
    OBVIOUS
  <1>5. 1 \in 1 .. n + 1 /\ \A i \in 1 .. n : i + 1 \in 1 .. n + 1 /\ i + 1 # 1
    OBVIOUS
  <1>6. \A j \in 1 .. n + 1 : j = 1 \/ \E i \in 1 .. n : j = i + 1
    <2> TAKE j \in 1 .. n + 1
    <2>1. j = 1 \/ (j - 1 \in 1 .. n /\ j = (j - 1) + 1)
      OBVIOUS
    <2>2. QED
      BY Zenon, <2>1
  <1>7. \A i, j \in 1 .. n : i + 1 = j + 1 => i = j
    OBVIOUS
  <1>8. Among(Head(s), s)
    BY Zenon, <1>2, <1>4, <1>5 DEF Among
  <1>9. ASSUME NEW d PROVE Among(d, t) <=> Among(d, s) /\ d # Head(s)
    <2>1. ASSUME Among(d, t) PROVE Among(d, s) /\ d # Head(s)
      <3>1. PICK i \in 1 .. n : t[i] = d
        BY Zenon, <1>3, <2>1 DEF Among
      <3>2. PICK j \in 1 .. n + 1 : j = i + 1 /\ j # 1
        BY Zenon, <1>5
      <3>3. s[j] = d
        BY Zenon, <1>3, <3>1, <3>2
      <3>4. d # s[1]
        BY Zenon, <1>2, <1>5, <3>2, <3>3 DEF Once
      <3>5. QED
        BY Zenon, <1>2, <1>4, <3>3, <3>4 DEF Among
    <2>2. ASSUME Among(d, s), d # Head(s) PROVE Among(d, t)
      <3>1. PICK j \in 1 .. n + 1 : s[j] = d
        BY Zenon, <1>2, <2>2 DEF Among
      <3>2. PICK i \in 1 .. n : j = i + 1
        BY Zenon, <1>4, <1>6, <2>2, <3>1
      <3>3. QED
        BY Zenon, <1>3, <3>1, <3>2 DEF Among
    <2>3. QED
      BY Zenon, <2>1, <2>2
  <1>10. Once(t)
    <2>1. ASSUME NEW i \in 1 .. n, NEW j \in 1 .. n, t[i] = t[j] PROVE i = j
      <3>1. s[i + 1] = s[j + 1] /\ i + 1 \in 1 .. n + 1 /\ j + 1 \in 1 .. n + 1
        BY Zenon, <1>3, <1>5, <2>1
      <3>2. i + 1 = j + 1
        BY Zenon, <1>2, <3>1 DEF Once
      <3>3. QED
        BY Zenon, <1>7, <3>2
    <2>2. QED
      BY Zenon, <1>3, <2>1 DEF Once
  <1>11. QED
    BY Zenon, <1>1, <1>8, <1>9, <1>10

\* A queue of two parts, when the second one grows,
LEMMA PartGrows ==
  ASSUME NEW T, NEW s \in Seq(T), NEW t \in Seq(T), NEW c \in T
  PROVE  s \o Append(t, c) = Append(s \o t, c)
  <1>1. s \o t \in Seq(T)
    BY Zenon, ConcatProperties
  <1>2. <<c>> \in Seq(T)
    OBVIOUS
  <1>3. Append(t, c) = t \o <<c>> /\ Append(s \o t, c) = (s \o t) \o <<c>>
    BY Zenon, <1>1, AppendIsConcat
  <1>4. (s \o t) \o <<c>> = s \o (t \o <<c>>)
    BY <1>2, ConcatAssociative
  <1>5. QED
    BY Zenon, <1>3, <1>4

\* and when the first one shrinks.
LEMMA PartShrinks ==
  ASSUME NEW T, NEW s \in Seq(T), NEW t \in Seq(T), s # << >>
  PROVE  Head(s \o t) = Head(s) /\ Tail(s) \o t = Tail(s \o t) /\ s \o t # << >>
  BY SMTT(20)

\* The two parts of s, cut after n elements, are sequences over T.
Cut(s, n, T) ==
  /\ SubSeq(s, 1, n) \in Seq(T) /\ Len(SubSeq(s, 1, n)) = n
  /\ \A i \in 1 .. n : SubSeq(s, 1, n)[i] = s[i]
  /\ SubSeq(s, n + 1, Len(s)) \in Seq(T) /\ Len(SubSeq(s, n + 1, Len(s))) = Len(s) - n
  /\ \A i \in 1 .. Len(s) - n : SubSeq(s, n + 1, Len(s))[i] = s[n + i]
  /\ SubSeq(s, 1, n) \o SubSeq(s, n + 1, Len(s)) = s

\* A queue can be cut anywhere.
LEMMA CutParts ==
  ASSUME NEW T, NEW s \in Seq(T), NEW n \in 0 .. Len(s)
  PROVE  Cut(s, n, T)
  <1>1. Len(s) \in Nat /\ n \in Nat /\ n <= Len(s)
    OBVIOUS
  <1>2. /\ SubSeq(s, 1, n) \in Seq(T) /\ Len(SubSeq(s, 1, n)) = n
        /\ \A i \in 1 .. n : SubSeq(s, 1, n)[i] = s[i]
    BY <1>1
  <1>3. /\ SubSeq(s, n + 1, Len(s)) \in Seq(T) /\ Len(SubSeq(s, n + 1, Len(s))) = Len(s) - n
        /\ \A i \in 1 .. Len(s) - n : SubSeq(s, n + 1, Len(s))[i] = s[n + i]
    BY <1>1
  <1>4. SubSeq(s, 1, n) \o SubSeq(s, n + 1, Len(s)) = s
    <2>1. 1 \in 1 .. Len(s) + 1 /\ n \in 1 - 1 .. Len(s) /\ Len(s) \in n .. Len(s)
      BY <1>1
    <2>2. SubSeq(s, 1, n) \o SubSeq(s, n + 1, Len(s)) = SubSeq(s, 1, Len(s))
      BY Zenon, <2>1, ConcatAdjacentSubSeq
    <2>3. SubSeq(s, 1, Len(s)) = s
      BY Zenon, SubSeqFull
    <2>4. QED
      BY Zenon, <2>2, <2>3
  <1>5. QED
    BY Zenon, <1>2, <1>3, <1>4 DEF Cut

(* The inductive invariant. *)

\* The kinds of an answer are told apart, and a query is a sequence of rows.
LEMMA Answers ==
  /\ NoAnswer # Failed
  /\ \A c \in Callers : NoAnswer # Result(c)
  /\ \A c \in Callers : Query(c) \in Seq(Callers \X Nat)
  <1>1. NoAnswer # Failed /\ \A c \in Callers : NoAnswer # Result(c)
    BY DEF NoAnswer, Failed, Result, Value
  <1>2. ASSUME NEW c \in Callers PROVE Query(c) \in Seq(Callers \X Nat)
    <2>1. PICK n \in Nat : n = Rows[c]
      BY Zenon, BatcherAssumption
    <2>2. Query(c) = [i \in 1 .. n |-> <<c, i>>]
      BY Zenon, <2>1 DEF Query
    <2>3. QED
      BY <2>2
  <1>3. QED
    BY Zenon, <1>1, <1>2

\* Queries and promises stay paired when a call is queued,
LEMMA PairedAppend ==
  ASSUME NEW qs \in Seq(Seq(Callers \X Nat)), NEW rs \in Seq(Callers), Paired(qs, rs),
         NEW c \in Callers
  PROVE  Paired(Append(qs, Query(c)), Append(rs, c))
  <1>1. PICK q \in Seq(Callers \X Nat) : q = Query(c)
    BY Zenon, Answers
  <1>2. PICK V : V = Seq(Callers \X Nat)
    BY Zenon
  <1>3. qs \in Seq(V) /\ q \in V
    BY Zenon, <1>1, <1>2
  <1>4. PICK t, u : t = Append(qs, q) /\ u = Append(rs, c)
    BY Zenon
  <1>5. PICK n \in Nat :
           /\ n = Len(qs) /\ Len(t) = n + 1 /\ t[n + 1] = q
           /\ \A i \in 1 .. n : t[i] = qs[i]
    <2>1. Extended(Append(qs, q), qs, q)
      BY Zenon, <1>3, AppendElements
    <2>2. Extended(t, qs, q)
      BY Zenon, <1>4, <2>1
    <2>3. QED
      BY Zenon, <2>2 DEF Extended
  <1>6. PICK m \in Nat :
           /\ m = Len(rs) /\ Len(u) = m + 1 /\ u[m + 1] = c
           /\ \A i \in 1 .. m : u[i] = rs[i]
    <2>1. Extended(Append(rs, c), rs, c)
      BY Zenon, AppendElements
    <2>2. Extended(u, rs, c)
      BY Zenon, <1>4, <2>1
    <2>3. QED
      BY Zenon, <2>2 DEF Extended
  <1>7. \A i \in 1 .. n + 1 : i \in 1 .. n \/ i = n + 1
    OBVIOUS
  <1>8. Paired(t, u)
    BY Zenon, <1>1, <1>5, <1>6, <1>7 DEF Paired
  <1>9. QED
    BY Zenon, <1>1, <1>4, <1>8

\* and when a batch is cut off the queue.
LEMMA PairedCut ==
  ASSUME NEW qs \in Seq(Seq(Callers \X Nat)), NEW rs \in Seq(Callers), Paired(qs, rs),
         NEW n \in 0 .. Len(qs)
  PROVE  /\ Paired(SubSeq(qs, 1, n), SubSeq(rs, 1, n))
         /\ Paired(SubSeq(qs, n + 1, Len(qs)), SubSeq(rs, n + 1, Len(rs)))
  <1>1. PICK l \in Nat : l = Len(qs) /\ l = Len(rs)
    BY Zenon, LenProperties DEF Paired
  <1>2. \A i \in 1 .. l : qs[i] = Query(rs[i])
    BY Zenon, <1>1 DEF Paired
  <1>3. /\ Len(SubSeq(qs, 1, n)) = n
        /\ \A i \in 1 .. n : SubSeq(qs, 1, n)[i] = qs[i]
        /\ Len(SubSeq(qs, n + 1, l)) = l - n
        /\ \A i \in 1 .. l - n : SubSeq(qs, n + 1, l)[i] = qs[n + i]
    <2>1. Cut(qs, n, Seq(Callers \X Nat))
      BY Zenon, CutParts
    <2>2. QED
      BY Zenon, <1>1, <2>1 DEF Cut
  <1>4. /\ Len(SubSeq(rs, 1, n)) = n
        /\ \A i \in 1 .. n : SubSeq(rs, 1, n)[i] = rs[i]
        /\ Len(SubSeq(rs, n + 1, l)) = l - n
        /\ \A i \in 1 .. l - n : SubSeq(rs, n + 1, l)[i] = rs[n + i]
    <2>1. n \in 0 .. Len(rs)
      BY Zenon, <1>1
    <2>2. Cut(rs, n, Callers)
      BY Zenon, <2>1, CutParts
    <2>3. QED
      BY Zenon, <1>1, <2>2 DEF Cut
  <1>5. \A i \in 1 .. n : i \in 1 .. l
    BY <1>1
  <1>6. \A i \in 1 .. l - n : n + i \in 1 .. l
    BY <1>1
  <1>7. Paired(SubSeq(qs, 1, n), SubSeq(rs, 1, n))
    BY Zenon, <1>2, <1>3, <1>4, <1>5 DEF Paired
  <1>8. Paired(SubSeq(qs, n + 1, l), SubSeq(rs, n + 1, l))
    BY Zenon, <1>2, <1>3, <1>4, <1>6 DEF Paired
  <1>9. QED
    BY Zenon, <1>1, <1>7, <1>8

\* The line is a sequence of callers.
LEMMA InLineType ==
  ASSUME TypeOK
  PROVE  InLine \in Seq(Callers)
  BY Zenon, ConcatProperties DEF TypeOK, InLine

\* The invariant holds when the constructor has started the thread (batcher.cpp:17-35).
THEOREM InitIInv == Init => IInv
  <1> SUFFICES ASSUME Init PROVE IInv
    BY Zenon
  <1> USE DEF Init
  <1>1. TypeOK
    <2>1. promise \in [Callers -> {NoAnswer, Failed} \union {Result(c) : c \in Callers}]
      BY Zenon
    <2>2. << >> \in Seq(Callers) /\ << >> \in Seq(Seq(Callers \X Nat))
      OBVIOUS
    <2>3. call \in [Callers -> {"idle", "push", "notify", "wait"}]
      BY Zenon
    <2>4. QED
      BY Zenon, <2>1, <2>2, <2>3 DEF TypeOK
  <1>2. QueryInv
    <2>1. Paired(queries, replies)
      BY DEF Paired
    <2>2. cpc = "check" /\ "check" \notin {"batch", "forward", "reply"}
      BY Zenon
    <2>3. QED
      BY Zenon, <2>1, <2>2 DEF QueryInv
  <1>3. PromiseInv
    <2>1. Len(InLine) = 0 /\ 1 .. 0 = {}
      BY DEF InLine
    <2>2. \A c \in Callers : call[c] \notin {"notify", "wait"}
      BY Zenon
    <2>3. CallsKept
      BY Zenon, <2>1, <2>2 DEF CallsKept, Once, Among, Waiting
    <2>4. QED
      BY Zenon, <2>3 DEF PromiseInv, OwnAnswer
  <1>4. WakeInv
    BY Zenon DEF WakeInv, QueueSeen
  <1>5. ThreadExact
    BY Zenon DEF ThreadExact
  <1>6. QED
    BY Zenon, <1>1, <1>2, <1>3, <1>4, <1>5 DEF IInv

\* What keeps the parts of the invariant: steps that change no query, reply or value,
LEMMA QueryFrame ==
  ASSUME QueryInv, UNCHANGED <<queries, replies, taken>>,
         \/ cpc' = cpc
         \/ cpc \notin {"batch", "forward", "reply"} /\ cpc' \notin {"batch", "forward", "reply"}
  PROVE  QueryInv'
  <1>1. UNCHANGED <<queries, replies, myQueries, myReplies, values>>
    BY Zenon DEF taken
  <1>2. Answered' <=> Answered
    BY Zenon, <1>1 DEF Answered
  <1>3. QED
    BY Zenon, <1>1, <1>2 DEF QueryInv, Paired

\* Steps that change no call, no promise and not the line,
LEMMA PromiseFrame ==
  ASSUME PromiseInv, UNCHANGED <<call, promise>>, InLine' = InLine
  PROVE  PromiseInv'
  <1>1. \A c \in Callers :
          (Waiting(c)' <=> Waiting(c)) /\ (Among(c, InLine') <=> Among(c, InLine))
    BY Zenon DEF Waiting
  <1>2. CallsKept'
    BY Zenon, <1>1 DEF PromiseInv, CallsKept
  <1>3. QED
    BY Zenon, <1>2 DEF PromiseInv, OwnAnswer

\* and steps after which the thread does not sleep, or that change nothing it sleeps on.
LEMMA WakeFrame ==
  ASSUME WakeInv, UNCHANGED queries,
         cpc' \notin {"blocked", "blocking"} \/ UNCHANGED <<call, cpc>>
  PROVE  WakeInv'
  BY Zenon DEF WakeInv, QueueSeen

\* Woken only takes the thread out of its sleep.
LEMMA WokenMeaning ==
  ASSUME TypeOK
  PROVE  /\ Woken \in {"none", "check", "blocking", "blocked", "batch", "forward", "reply", "exit"}
         /\ Woken # "blocked"
         /\ \/ Woken = cpc
            \/ /\ Woken \notin {"blocked", "blocking"}
               /\ cpc \notin {"batch", "forward", "reply"}
               /\ Woken \notin {"batch", "forward", "reply"}
  BY Zenon DEF TypeOK, Woken

\* A call that begins has no promise yet.
LEMMA CallStep ==
  ASSUME IInv, NEW c \in Callers, Call(c), ThreadExact'
  PROVE  IInv'
  <1> USE DEF Call
  <1>1. TypeOK'
    BY Zenon DEF IInv, TypeOK, taken
  <1>2. QueryInv'
    BY Zenon, QueryFrame DEF IInv
  <1>3. \A d \in Callers :
          /\ call'[d] \in {"notify", "wait"} <=> call[d] \in {"notify", "wait"}
          /\ call'[d] \in {"idle", "push"} <=> call[d] \in {"idle", "push"}
          /\ call'[d] = "notify" <=> call[d] = "notify"
    BY Zenon DEF IInv, TypeOK
  <1>4. PromiseInv'
    <2>1. InLine' = InLine
      BY Zenon DEF InLine, taken
    <2>2. \A d \in Callers : Waiting(d)' <=> Waiting(d)
      BY Zenon, <1>3 DEF Waiting
    <2>3. CallsKept'
      BY Zenon, <2>1, <2>2 DEF IInv, PromiseInv, CallsKept, Once, Among
    <2>4. QED
      BY Zenon, <1>3, <2>3 DEF IInv, PromiseInv, OwnAnswer
  <1>5. WakeInv'
    BY Zenon, <1>3 DEF IInv, WakeInv, QueueSeen
  <1>6. QED
    BY Zenon, <1>1, <1>2, <1>4, <1>5 DEF IInv

\* A call joins the line at its end,
LEMMA PushLine ==
  ASSUME IInv, NEW c \in Callers, Push(c)
  PROVE  InLine' = Append(InLine, c)
  <1>1. myReplies \in Seq(Callers) /\ replies \in Seq(Callers)
    BY Zenon DEF IInv, TypeOK
  <1>2. myReplies \o Append(replies, c) = Append(myReplies \o replies, c)
    BY <1>1, PartGrows
  <1>3. QED
    BY Zenon, <1>2 DEF Push, InLine, taken

\* and its promise, which is not set, is in it once.
LEMMA PushStep ==
  ASSUME IInv, NEW c \in Callers, Push(c), ThreadExact'
  PROVE  IInv'
  <1> USE DEF Push
  <1>1. TypeOK'
    <2>1. replies' \in Seq(Callers)
      BY Zenon, AppendProperties DEF IInv, TypeOK
    <2>2. queries' \in Seq(Seq(Callers \X Nat))
      BY Zenon, Answers, AppendProperties DEF IInv, TypeOK
    <2>3. QED
      BY Zenon, <2>1, <2>2 DEF IInv, TypeOK, taken
  <1>2. QueryInv'
    <2>1. Paired(queries', replies')
      BY Zenon, PairedAppend DEF IInv, TypeOK, QueryInv
    <2>2. UNCHANGED <<myQueries, myReplies, values, cpc>>
      BY Zenon DEF taken
    <2>3. Answered' <=> Answered
      BY Zenon, <2>2 DEF Answered
    <2>4. QED
      BY Zenon, <2>1, <2>2, <2>3 DEF IInv, QueryInv, Paired
  <1>3. /\ call[c] = "push" /\ call' = [call EXCEPT ![c] = "notify"]
        /\ promise' = promise /\ promise[c] = NoAnswer
    BY Zenon DEF IInv, PromiseInv
  <1>4. PromiseInv'
    <2>1. InLine' = Append(InLine, c)
      BY Zenon, PushLine
    <2>2. ~Among(c, InLine)
      BY Zenon, <1>3 DEF IInv, PromiseInv, CallsKept, Waiting
    <2>3. Once(InLine') /\ \A d : Among(d, InLine') <=> Among(d, InLine) \/ d = c
      BY Zenon, <2>1, <2>2, InLineType, AppendLine DEF IInv, PromiseInv, CallsKept
    <2>4. \A d \in Callers : Waiting(d)' <=> Waiting(d) \/ d = c
      BY Zenon, <1>3 DEF IInv, TypeOK, Waiting
    <2>5. CallsKept'
      BY Zenon, <2>3, <2>4 DEF IInv, PromiseInv, CallsKept
    <2>6. \A d \in Callers : call'[d] \in {"idle", "push"} => call[d] \in {"idle", "push"}
      BY Zenon, <1>3 DEF IInv, TypeOK
    <2>7. QED
      BY Zenon, <1>3, <2>5, <2>6 DEF IInv, PromiseInv, OwnAnswer
  <1>5. WakeInv'
    <2>1. call'[c] = "notify"
      BY Zenon DEF IInv, TypeOK
    <2>2. QED
      BY Zenon, <2>1 DEF WakeInv, QueueSeen
  <1>6. QED
    BY Zenon, <1>1, <1>2, <1>4, <1>5 DEF IInv

\* A notified thread does not sleep.
LEMMA NotifyStep ==
  ASSUME IInv, NEW c \in Callers, Notify(c), ThreadExact'
  PROVE  IInv'
  <1> USE DEF Notify
  <1>1. /\ cpc' \in {"none", "check", "blocking", "blocked", "batch", "forward", "reply", "exit"}
        /\ cpc' # "blocked"
        /\ \/ cpc' = cpc
           \/ /\ cpc' \notin {"blocked", "blocking"}
              /\ cpc \notin {"batch", "forward", "reply"}
              /\ cpc' \notin {"batch", "forward", "reply"}
    BY Zenon, WokenMeaning DEF IInv
  <1>2. TypeOK'
    BY Zenon, <1>1 DEF IInv, TypeOK, taken
  <1>3. QueryInv'
    BY Zenon, <1>1, QueryFrame DEF IInv
  <1>4. PromiseInv'
    <2>1. InLine' = InLine
      BY Zenon DEF InLine, taken
    <2>2. \A d \in Callers :
            /\ call'[d] \in {"notify", "wait"} <=> call[d] \in {"notify", "wait"}
            /\ call'[d] \in {"idle", "push"} <=> call[d] \in {"idle", "push"}
      BY Zenon DEF IInv, TypeOK
    <2>3. \A d \in Callers : Waiting(d)' <=> Waiting(d)
      BY Zenon, <2>2 DEF Waiting
    <2>4. CallsKept'
      BY Zenon, <2>1, <2>3 DEF IInv, PromiseInv, CallsKept, Once, Among
    <2>5. QED
      BY Zenon, <2>2, <2>4 DEF IInv, PromiseInv, OwnAnswer
  <1>5. WakeInv'
    BY Zenon, <1>1 DEF IInv, WakeInv, QueueSeen
  <1>6. QED
    BY Zenon, <1>2, <1>3, <1>4, <1>5 DEF IInv

\* A call that returns has left the line.
LEMMA ReturnStep ==
  ASSUME IInv, NEW c \in Callers, Return(c), ThreadExact'
  PROVE  IInv'
  <1> USE DEF Return
  <1>1. TypeOK'
    BY Zenon DEF IInv, TypeOK, taken
  <1>2. QueryInv'
    BY Zenon, QueryFrame DEF IInv
  <1>3. /\ call'[c] = "idle" /\ promise'[c] = NoAnswer
        /\ \A d \in Callers \ {c} : call'[d] = call[d] /\ promise'[d] = promise[d]
    BY Zenon DEF IInv, TypeOK
  <1>4. PromiseInv'
    <2>1. InLine' = InLine
      BY Zenon DEF InLine, taken
    <2>2. \A d \in Callers : Waiting(d)' <=> Waiting(d)
      BY Zenon, <1>3 DEF Waiting
    <2>3. CallsKept'
      BY Zenon, <2>1, <2>2 DEF IInv, PromiseInv, CallsKept, Once, Among
    <2>4. QED
      BY Zenon, <1>3, <2>3 DEF IInv, PromiseInv, OwnAnswer
  <1>5. WakeInv'
    BY Zenon, <1>3 DEF IInv, WakeInv, QueueSeen
  <1>6. QED
    BY Zenon, <1>1, <1>2, <1>4, <1>5 DEF IInv

\* The thread: taking a batch does not change the line.
LEMMA BatchTaken ==
  ASSUME IInv, cpc = "check", queries # << >>,
         myReplies' = SubSeq(replies, 1, TodoSize), replies' = RestReplies
  PROVE  /\ TodoSize \in 0 .. Len(queries)
         /\ myReplies' \in Seq(Callers) /\ replies' \in Seq(Callers)
         /\ myReplies' # << >> /\ InLine' = InLine
  <1>1. /\ queries \in Seq(Seq(Callers \X Nat)) /\ replies \in Seq(Callers)
        /\ Paired(queries, replies) /\ myReplies = << >>
    BY Zenon DEF IInv, TypeOK, QueryInv
  <1>2. PICK l \in Nat \ {0} : l = Len(queries) /\ l = Len(replies)
    BY Zenon, <1>1, EmptySeq DEF Paired
  <1>3. PICK n : n = TodoSize
    BY Zenon
  <1>4. n \in 0 .. l /\ n # 0
    <2>1. PICK m \in Nat \ {0} : m = MaxBatch
      BY Zenon, BatcherAssumption
    <2>2. n = IF l < m THEN l ELSE m
      BY Zenon, <1>2, <1>3, <2>1 DEF TodoSize
    <2>3. QED
      BY <2>2
  <1>5. n \in 0 .. Len(replies)
    BY Zenon, <1>2, <1>4
  <1>6. /\ myReplies' \in Seq(Callers) /\ replies' \in Seq(Callers)
        /\ Len(myReplies') = n /\ myReplies' \o replies' = replies
    <2>1. Cut(replies, n, Callers)
      BY Zenon, <1>1, <1>5, CutParts
    <2>2. QED
      BY Zenon, <1>3, <2>1 DEF Cut, RestReplies
  <1>7. myReplies' # << >>
    <2>1. Len(<< >>) = 0
      OBVIOUS
    <2>2. QED
      BY Zenon, <1>4, <1>6, <2>1
  <1>8. InLine' = InLine
    <2>1. << >> \o replies = replies
      BY Zenon, <1>1, ConcatEmptySeq
    <2>2. QED
      BY Zenon, <1>1, <1>6, <2>1 DEF InLine
  <1>9. QED
    BY Zenon, <1>2, <1>3, <1>4, <1>6, <1>7, <1>8

\* A batch is the first part of both queues; a thread that finds none is about to sleep.
LEMMA ConsumeStep ==
  ASSUME IInv, Consume, ThreadExact'
  PROVE  IInv'
  <1>1. /\ cpc = "check"
        /\ UNCHANGED <<call, promise, started, shouldStop, values, batching, locked>>
    BY Zenon DEF Consume
  <1>2. CASE UNCHANGED <<queries, replies, myQueries, myReplies>> /\ cpc' \in {"exit", "blocking"}
             /\ (cpc' = "blocking" => queries = << >>)
    <2>1. TypeOK'
      BY Zenon, <1>1, <1>2 DEF IInv, TypeOK
    <2>2. QueryInv'
      <3>1. cpc' \notin {"batch", "forward", "reply"} /\ cpc \notin {"batch", "forward", "reply"}
        BY Zenon, <1>1, <1>2
      <3>2. QED
        BY Zenon, <1>1, <1>2, <3>1, QueryFrame DEF IInv, taken
    <2>3. PromiseInv'
      BY Zenon, <1>1, <1>2, PromiseFrame DEF IInv, InLine
    <2>4. WakeInv'
      BY Zenon, <1>1, <1>2 DEF WakeInv, QueueSeen
    <2>5. QED
      BY Zenon, <2>1, <2>2, <2>3, <2>4 DEF IInv
  <1>3. CASE /\ queries # << >>
             /\ myQueries' = SubSeq(queries, 1, TodoSize)
             /\ myReplies' = SubSeq(replies, 1, TodoSize)
             /\ queries' = SubSeq(queries, TodoSize + 1, Len(queries))
             /\ replies' = RestReplies
             /\ cpc' = "batch"
    <2>1. queries \in Seq(Seq(Callers \X Nat)) /\ replies \in Seq(Callers)
      BY Zenon DEF IInv, TypeOK
    <2>2. Paired(queries, replies)
      BY Zenon DEF IInv, QueryInv
    <2>3. PICK n \in 0 .. Len(queries) : n = TodoSize
      BY Zenon, <1>1, <1>3, BatchTaken
    <2>4. /\ myReplies' \in Seq(Callers) /\ replies' \in Seq(Callers)
          /\ myReplies' # << >> /\ InLine' = InLine
      BY Zenon, <1>1, <1>3, BatchTaken
    <2>5. myQueries' \in Seq(Seq(Callers \X Nat)) /\ queries' \in Seq(Seq(Callers \X Nat))
      <3>1. Cut(queries, n, Seq(Callers \X Nat))
        BY Zenon, <2>1, <2>3, CutParts
      <3>2. QED
        BY Zenon, <1>3, <2>3, <3>1 DEF Cut
    <2>6. TypeOK'
      BY Zenon, <1>1, <1>3, <2>4, <2>5 DEF IInv, TypeOK
    <2>7. QueryInv'
      <3>1. Paired(myQueries', myReplies') /\ Paired(queries', replies')
        BY Zenon, <1>3, <2>1, <2>2, <2>3, PairedCut DEF RestReplies
      <3>2. QED
        BY Zenon, <1>3, <2>4, <3>1 DEF QueryInv, Paired
    <2>8. PromiseInv'
      BY Zenon, <1>1, <2>4, PromiseFrame DEF IInv
    <2>9. WakeInv'
      BY Zenon, <1>3 DEF WakeInv, QueueSeen
    <2>10. QED
      BY Zenon, <2>6, <2>7, <2>8, <2>9 DEF IInv
  <1>4. QED
    BY Zenon, <1>2, <1>3 DEF Consume

\* The thread holds accessMutex_ until it sleeps, so the queue is still empty.
LEMMA BlockStep ==
  ASSUME IInv, Block, ThreadExact'
  PROVE  IInv'
  <1> USE DEF Block
  <1>1. TypeOK'
    BY Zenon DEF IInv, TypeOK, taken
  <1>2. QueryInv'
    BY Zenon, QueryFrame DEF IInv
  <1>3. PromiseInv'
    BY Zenon, PromiseFrame DEF IInv, InLine, taken
  <1>4. WakeInv'
    BY Zenon DEF IInv, WakeInv, QueueSeen
  <1>5. QED
    BY Zenon, <1>1, <1>2, <1>3, <1>4 DEF IInv

\* A batch of which nothing has been answered.
LEMMA Unanswered ==
  ASSUME TypeOK, Paired(myQueries, myReplies), NEW vs,
         \A i \in 1 .. Len(myReplies) : vs[i] \in {Failed, Result(myReplies[i])}
  PROVE  /\ Len(myQueries) - Len(myReplies) \in Nat
         /\ \A j \in 1 .. Len(myReplies) :
              vs[Len(myQueries) - Len(myReplies) + j] \in {Failed, Result(myReplies[j])}
  <1>1. PICK n \in Nat : n = Len(myQueries) /\ n = Len(myReplies)
    BY Zenon, LenProperties DEF TypeOK, Paired
  <1>2. n - n \in Nat /\ \A j \in 1 .. n : n - n + j = j
    OBVIOUS
  <1>3. QED
    BY Zenon, <1>1, <1>2

\* An exception goes to every query of the batch.
LEMMA AllFailedMeaning ==
  ASSUME TypeOK, Paired(myQueries, myReplies)
  PROVE  \A i \in 1 .. Len(myReplies) : AllFailed[i] \in {Failed, Result(myReplies[i])}
  <1>1. DOMAIN myQueries = 1 .. Len(myReplies)
    BY Zenon, LenProperties DEF TypeOK, Paired
  <1>2. QED
    BY Zenon, <1>1 DEF AllFailed

\* makeBatch leaves the pairing alone, or fails the batch.
LEMMA BatchStep ==
  ASSUME IInv, Batch, ThreadExact'
  PROVE  IInv'
  <1> USE DEF Batch
  <1>1. Paired(myQueries, myReplies) /\ myReplies # << >> /\ cpc' \in {"forward", "reply"}
    BY Zenon DEF IInv, QueryInv
  <1>2. TypeOK'
    BY Zenon, <1>1 DEF IInv, TypeOK
  <1>3. QueryInv'
    <2>1. Paired(queries', replies') /\ Paired(myQueries', myReplies') /\ myReplies' # << >>
      BY Zenon, <1>1 DEF IInv, QueryInv
    <2>2. cpc' = "reply" => Answered'
      BY Zenon, <1>1, Unanswered, AllFailedMeaning DEF IInv, Answered
    <2>3. QED
      BY Zenon, <1>1, <2>1, <2>2 DEF QueryInv, Paired
  <1>4. PromiseInv'
    BY Zenon, PromiseFrame DEF IInv, InLine
  <1>5. WakeInv'
    BY Zenon, <1>1 DEF WakeInv, QueueSeen
  <1>6. QED
    BY Zenon, <1>2, <1>3, <1>4, <1>5 DEF IInv

\* unBatch answers every query with the rows of the model for it.
LEMMA ForwardStep ==
  ASSUME IInv, Forward, ThreadExact'
  PROVE  IInv'
  <1>1. /\ cpc = "forward" /\ cpc' = "reply"
        /\ UNCHANGED <<call, promise, queries, replies, started, shouldStop, myQueries,
                       myReplies, batching, locked>>
    BY Zenon DEF Forward
  <1>2. Paired(myQueries, myReplies) /\ myReplies # << >>
    BY Zenon, <1>1 DEF IInv, QueryInv
  <1>3. TypeOK'
    BY Zenon, <1>1 DEF IInv, TypeOK
  <1>4. QueryInv'
    <2>1. \A i \in 1 .. Len(myReplies) : values'[i] \in {Failed, Result(myReplies[i])}
      <3>1. PICK rows : rows = MakeBatch(myQueries)
        BY Zenon
      <3>2. CASE values' = AllFailed
        BY Zenon, <1>2, <3>2, AllFailedMeaning DEF IInv
      <3>3. CASE values' = UnBatch([k \in DOMAIN rows |-> Model(rows[k])], BatchSizes(myQueries))
        <4>1. \A i \in 1 .. Len(myReplies) :
                UnBatch([k \in DOMAIN rows |-> Model(rows[k])], BatchSizes(myQueries))[i]
                  = Result(myReplies[i])
          <5>1. myQueries \in Seq(Seq(Callers \X Nat)) /\ myReplies \in Seq(Callers)
            BY Zenon DEF IInv, TypeOK
          <5>2. \A i \in 1 .. Len(myReplies) :
                  UnBatch([k \in DOMAIN MakeBatch(myQueries) |-> Model(MakeBatch(myQueries)[k])],
                          BatchSizes(myQueries))[i]
                    = Result(myReplies[i])
            BY Zenon, <1>2, <5>1, UnBatchMeaning
          <5>3. QED
            BY Zenon, <3>1, <5>2
        <4>2. QED
          BY Zenon, <3>3, <4>1
      <3>4. QED
        BY Zenon, <3>1, <3>2, <3>3 DEF Forward
    <2>2. Answered'
      BY Zenon, <1>1, <1>2, <2>1, Unanswered DEF IInv, Answered
    <2>3. Paired(queries', replies') /\ myReplies' # << >>
      BY Zenon, <1>1, <1>2 DEF IInv, QueryInv
    <2>4. QED
      BY Zenon, <1>1, <2>2, <2>3 DEF QueryInv, Paired
  <1>5. PromiseInv'
    BY Zenon, <1>1, PromiseFrame DEF IInv, InLine
  <1>6. WakeInv'
    BY Zenon, <1>1 DEF WakeInv, QueueSeen
  <1>7. QED
    BY Zenon, <1>3, <1>4, <1>5, <1>6 DEF IInv

\* The next promise is the first one in line; its call waits, and it is answered for its own
\* query or with an exception.
LEMMA NextPromise ==
  ASSUME IInv, Reply
  PROVE  /\ Head(myReplies) \in Callers /\ Waiting(Head(myReplies))
         /\ InLine # << >> /\ Head(InLine) = Head(myReplies) /\ InLine' = Tail(InLine)
         /\ values[Len(myQueries) - Len(myReplies) + 1] \in {Failed, Result(Head(myReplies))}
  <1>1. cpc = "reply" /\ myReplies' = Tail(myReplies) /\ replies' = replies
    BY Zenon DEF Reply
  <1>2. /\ myReplies \in Seq(Callers) /\ replies \in Seq(Callers) /\ myReplies # << >>
        /\ Answered
    BY Zenon, <1>1 DEF IInv, TypeOK, QueryInv
  <1>3. Head(myReplies) \in Callers
    BY Zenon, <1>2, HeadTailProperties
  <1>4. /\ Head(myReplies \o replies) = Head(myReplies) /\ myReplies \o replies # << >>
        /\ Tail(myReplies) \o replies = Tail(myReplies \o replies)
    BY Zenon, <1>2, PartShrinks
  <1>5. InLine # << >> /\ Head(InLine) = Head(myReplies) /\ InLine' = Tail(InLine)
    BY Zenon, <1>1, <1>4 DEF InLine
  <1>6. Waiting(Head(myReplies))
    <2>1. InLine \in Seq(Callers) /\ Once(InLine)
      BY Zenon, InLineType DEF IInv, PromiseInv, CallsKept
    <2>2. Among(Head(InLine), InLine)
      BY Zenon, <1>5, <2>1, TailLine
    <2>3. QED
      BY Zenon, <1>3, <1>5, <2>2 DEF IInv, PromiseInv, CallsKept
  <1>7. values[Len(myQueries) - Len(myReplies) + 1] \in {Failed, Result(Head(myReplies))}
    <2>1. 1 \in 1 .. Len(myReplies) /\ Head(myReplies) = myReplies[1]
      BY <1>2
    <2>2. QED
      BY Zenon, <1>2, <2>1 DEF Answered
  <1>8. QED
    BY Zenon, <1>3, <1>5, <1>6, <1>7

\* The answer is for the first promise in line, which leaves it.
LEMMA ReplyStep ==
  ASSUME IInv, Reply, ThreadExact'
  PROVE  IInv'
  <1>1. /\ cpc = "reply" /\ myReplies' = Tail(myReplies)
        /\ \/ /\ Len(myReplies) = 1
              /\ cpc' = "check" /\ myQueries' = << >> /\ values' = << >>
           \/ Len(myReplies) # 1 /\ UNCHANGED <<cpc, myQueries, values>>
        /\ UNCHANGED <<call, queries, replies, started, shouldStop, batching, locked>>
    BY Zenon DEF Reply
  <1>2. PICK c \in Callers : c = Head(myReplies)
    BY Zenon, NextPromise
  <1>3. PICK v \in {Failed, Result(c)} : promise' = [promise EXCEPT ![c] = v]
    BY Zenon, <1>2, NextPromise DEF Reply
  <1>4. /\ myReplies \in Seq(Callers) /\ myReplies # << >> /\ Answered
        /\ myQueries \in Seq(Seq(Callers \X Nat))
        /\ promise \in [Callers -> {NoAnswer, Failed} \union {Result(d) : d \in Callers}]
    BY Zenon, <1>1 DEF IInv, TypeOK, QueryInv
  <1>5. PICK m \in Nat : /\ Len(myReplies) = m + 1 /\ Len(myReplies') = m
                         /\ \A j \in 1 .. m : myReplies'[j] = myReplies[j + 1]
    <2>1. Len(myReplies) \in Nat /\ Len(myReplies) # 0
      BY <1>4
    <2>2. PICK m \in Nat : Len(myReplies) = m + 1 /\ Len(myReplies) - 1 = m
      <3>1. Len(myReplies) - 1 \in Nat /\ Len(myReplies) = (Len(myReplies) - 1) + 1
        BY <2>1
      <3>2. QED
        BY Zenon, <3>1
    <2>3. /\ Len(Tail(myReplies)) = Len(myReplies) - 1
          /\ \A i \in 1 .. Len(Tail(myReplies)) : Tail(myReplies)[i] = myReplies[i + 1]
      BY Zenon, <1>4, HeadTailProperties
    <2>4. QED
      BY Zenon, <1>1, <2>2, <2>3
  <1>6. TypeOK'
    <2>1. myReplies' \in Seq(Callers)
      BY Zenon, <1>1, <1>4, HeadTailProperties
    <2>2. << >> \in Seq(Seq(Callers \X Nat))
      BY Zenon, EmptySeq
    <2>3. promise' \in [Callers -> {NoAnswer, Failed} \union {Result(d) : d \in Callers}]
      BY Zenon, <1>3, <1>4
    <2>4. QED
      BY Zenon, <1>1, <2>1, <2>2, <2>3 DEF IInv, TypeOK
  <1>7. QueryInv'
    <2>1. Paired(queries', replies')
      BY Zenon, <1>1 DEF IInv, QueryInv
    <2>2. CASE Len(myReplies) = 1
      <3>1. m = 0
        <4>1. m + 1 = 1
          BY Zenon, <1>5, <2>2
        <4>2. QED
          BY <4>1
      <3>2. myReplies' = << >>
        <4>1. Len(myReplies') = 0 /\ myReplies' \in Seq(Callers)
          BY Zenon, <1>1, <1>4, <1>5, <3>1, HeadTailProperties
        <4>2. QED
          BY <4>1
      <3>3. QED
        BY Zenon, <1>1, <2>1, <2>2, <3>2 DEF QueryInv, Paired
    <2>3. CASE Len(myReplies) # 1
      <3>1. myReplies' # << >>
        <4>1. m # 0
          BY <1>5, <2>3
        <4>2. Len(<< >>) = 0
          OBVIOUS
        <4>3. QED
          BY Zenon, <1>5, <4>1, <4>2
      <3>2. Answered'
        <4>1. PICK l \in Nat : l = Len(myQueries)
          BY Zenon, <1>4, LenProperties
        <4>2. /\ l - (m + 1) \in Nat
              /\ \A j \in 1 .. m + 1 : values[l - (m + 1) + j] \in {Failed, Result(myReplies[j])}
          BY Zenon, <1>4, <1>5, <4>1 DEF Answered
        <4>3. l - m \in Nat
          BY <4>2
        <4>4. \A j \in 1 .. m : j + 1 \in 1 .. m + 1 /\ l - m + j = l - (m + 1) + (j + 1)
          BY <4>1
        <4>5. \A j \in 1 .. m : values[l - m + j] \in {Failed, Result(myReplies'[j])}
          BY Zenon, <1>5, <4>2, <4>4
        <4>6. UNCHANGED <<myQueries, values>>
          BY Zenon, <1>1, <2>3
        <4>7. QED
          BY Zenon, <1>5, <4>1, <4>3, <4>5, <4>6 DEF Answered
      <3>3. QED
        BY Zenon, <1>1, <2>1, <2>3, <3>1, <3>2 DEF QueryInv, Paired
    <2>4. QED
      BY Zenon, <2>2, <2>3
  <1>8. PromiseInv'
    <2>1. /\ InLine # << >> /\ c = Head(InLine) /\ InLine' = Tail(InLine) /\ Waiting(c)
          /\ InLine \in Seq(Callers) /\ Once(InLine)
      BY Zenon, <1>2, NextPromise, InLineType DEF IInv, PromiseInv, CallsKept
    <2>2. Once(InLine') /\ \A d : Among(d, InLine') <=> Among(d, InLine) /\ d # c
      BY Zenon, <2>1, TailLine
    <2>3. promise'[c] = v /\ \A d \in Callers \ {c} : promise'[d] = promise[d]
      BY Zenon, <1>3, <1>4
    <2>4. v # NoAnswer
      BY Zenon, Answers
    <2>5. \A d \in Callers : Waiting(d)' <=> Waiting(d) /\ d # c
      BY Zenon, <1>1, <2>3, <2>4 DEF Waiting
    <2>6. CallsKept'
      BY Zenon, <2>2, <2>5 DEF IInv, PromiseInv, CallsKept
    <2>7. call[c] \notin {"idle", "push"}
      BY Zenon, <2>1 DEF Waiting
    <2>8. QED
      BY Zenon, <1>1, <2>3, <2>6, <2>7 DEF IInv, PromiseInv, OwnAnswer
  <1>9. WakeInv'
    BY Zenon, <1>1 DEF WakeInv, QueueSeen
  <1>10. QED
    BY Zenon, <1>6, <1>7, <1>8, <1>9 DEF IInv

\* The owner and the trainer change no query and no promise, and wake the thread at most.
LEMMA OwnerStep ==
  ASSUME IInv, StopStore \/ Stop \/ StartBatching \/ LockModel \/ UnlockModel,
         ThreadExact'
  PROVE  IInv'
  <1>1. UNCHANGED <<call, promise, queries, replies, taken>>
    BY Zenon DEF StopStore, Stop, StopNotify, StopJoin, StartBatching, LockModel, UnlockModel
  <1>2. /\ cpc' \in {"none", "check", "blocking", "blocked", "batch", "forward", "reply", "exit"}
        /\ \/ cpc' = cpc
           \/ /\ cpc' \notin {"blocked", "blocking"}
              /\ cpc \notin {"batch", "forward", "reply"}
              /\ cpc' \notin {"batch", "forward", "reply"}
    <2>1. CASE StopStore \/ LockModel \/ UnlockModel
      BY Zenon, <2>1 DEF IInv, TypeOK, StopStore, LockModel, UnlockModel
    <2>2. CASE StopNotify
      BY Zenon, <2>2, WokenMeaning DEF IInv, StopNotify
    <2>3. CASE StopJoin
      BY Zenon, <2>3 DEF StopJoin
    <2>4. CASE StartBatching
      BY Zenon, <2>4 DEF IInv, ThreadExact, StartBatching
    <2>5. QED
      BY Zenon, <2>1, <2>2, <2>3, <2>4 DEF Stop
  <1>3. TypeOK'
    BY Zenon, <1>1, <1>2
       DEF IInv, TypeOK, taken, StopStore, Stop, StopNotify, StopJoin,
           StartBatching, LockModel, UnlockModel
  <1>4. QueryInv'
    BY Zenon, <1>1, <1>2, QueryFrame DEF IInv
  <1>5. PromiseInv'
    BY Zenon, <1>1, PromiseFrame DEF IInv, InLine, taken
  <1>6. WakeInv'
    BY Zenon, <1>1, <1>2, WakeFrame DEF IInv
  <1>7. QED
    BY Zenon, <1>3, <1>4, <1>5, <1>6 DEF IInv

\* The thread is started and joined by turns.
LEMMA ThreadKept ==
  ASSUME TypeOK, ThreadExact, Next
  PROVE  ThreadExact'
  <1>1. CASE (\E c \in Callers : Call(c) \/ Push(c) \/ Return(c)) \/ LockModel \/ UnlockModel
    <2>1. UNCHANGED <<started, cpc, batching, shouldStop>>
      BY Zenon, <1>1 DEF Call, Push, Return, LockModel, UnlockModel
    <2>2. QED
      BY Zenon, <2>1 DEF ThreadExact
  <1>2. CASE \E c \in Callers : Notify(c)
    <2>1. UNCHANGED <<started, batching, shouldStop>> /\ cpc' = Woken
      BY Zenon, <1>2 DEF Notify
    <2>2. QED
      BY Zenon, <2>1 DEF ThreadExact, Woken
  <1>3. CASE Consumer
    <2>1. /\ UNCHANGED <<started, batching, shouldStop>> /\ cpc # "none" /\ cpc' # "none"
          /\ cpc' = "exit" => shouldStop
      <3>1. CASE Consume
        BY Zenon, <3>1 DEF Consume
      <3>2. CASE Block \/ Batch \/ Forward
        BY Zenon, <3>2 DEF Block, Batch, Forward
      <3>3. CASE Reply
        BY Zenon, <3>3 DEF Reply
      <3>4. QED
        BY Zenon, <1>3, <3>1, <3>2, <3>3 DEF Consumer
    <2>2. QED
      BY Zenon, <2>1 DEF ThreadExact
  <1>4. CASE StopStore
    BY Zenon, <1>4 DEF ThreadExact, StopStore
  <1>5. CASE StopNotify
    BY Zenon, <1>5 DEF ThreadExact, StopNotify, Woken
  <1>6. CASE StopJoin
    BY Zenon, <1>6 DEF ThreadExact, StopJoin
  <1>7. CASE StartBatching
    BY Zenon, <1>7 DEF ThreadExact, StartBatching
  <1>8. QED
    BY Zenon, <1>1, <1>2, <1>3, <1>4, <1>5, <1>6, <1>7 DEF Next, Caller, Stop

\* The invariant of the batcher is inductive: every step of callers, thread and owner keeps
\* it (batcher.cpp:41-160, 184-195).
THEOREM Invariance == Spec => []IInv
  <1>1. IInv /\ [Next]_vars => IInv'
    <2> SUFFICES ASSUME IInv, [Next]_vars PROVE IInv'
      BY Zenon
    <2>1. ASSUME Next PROVE IInv'
      <3>1. ThreadExact'
        BY Zenon, <2>1, ThreadKept DEF IInv
      <3>2. ASSUME NEW c \in Callers, Caller(c) PROVE IInv'
        BY Zenon, <3>1, <3>2, CallStep, PushStep, NotifyStep, ReturnStep DEF Caller
      <3>3. ASSUME Consumer PROVE IInv'
        BY Zenon, <3>1, <3>3, ConsumeStep, BlockStep, BatchStep, ForwardStep, ReplyStep DEF Consumer
      <3>4. ASSUME StopStore \/ Stop \/ StartBatching \/ LockModel \/ UnlockModel
            PROVE  IInv'
        BY Zenon, <3>1, <3>4, OwnerStep
      <3>5. QED
        BY Zenon, <2>1, <3>2, <3>3, <3>4 DEF Next
    <2>2. ASSUME UNCHANGED vars PROVE IInv'
      <3>1. /\ UNCHANGED <<call, promise, queries, replies, taken>> /\ cpc' = cpc
            /\ UNCHANGED <<started, shouldStop, batching, locked>>
            /\ UNCHANGED <<myQueries, myReplies>>
        BY Zenon, <2>2 DEF vars, taken
      <3>2. TypeOK' /\ ThreadExact'
        BY Zenon, <3>1 DEF IInv, TypeOK, ThreadExact
      <3>3. QueryInv'
        BY Zenon, <3>1, QueryFrame DEF IInv
      <3>4. PromiseInv'
        BY Zenon, <3>1, PromiseFrame DEF IInv, InLine
      <3>5. WakeInv'
        BY Zenon, <3>1, WakeFrame DEF IInv
      <3>6. QED
        BY Zenon, <3>2, <3>3, <3>4, <3>5 DEF IInv
    <2>3. QED
      BY Zenon, <2>1, <2>2
  <1>2. QED
    BY InitIInv, <1>1, PTL DEF Spec

\* The variables of the batcher keep their types.
THEOREM TypeCorrect == Spec => []TypeOK
  BY Invariance, PTL DEF IInv

\* A caller of batchedForward gets the rows of the model for its own query or an exception,
\* whatever is batched with it (batcher.cpp:120-160, 227-344).
THEOREM AnswersOwn == Spec => []OwnAnswer
  BY Invariance, PTL DEF IInv, PromiseInv

\* The promises in the queue and in the batch are those of the calls that wait, each one
\* once, through batches, exceptions, stops and restarts (batcher.cpp:63-160).
THEOREM CallsKeptHolds == Spec => []CallsKept
  BY Invariance, PTL DEF IInv, PromiseInv

\* The thread does not sleep on a query whose caller has notified it: the predicate is
\* tested and the wait begun under accessMutex_ (batcher.cpp:84-85, 105-106).
THEOREM WakeupsSeen == Spec => []QueueSeen
  BY Invariance, PTL DEF IInv, WakeInv

\* consumeThreadStarted_ tells whether there is a thread, and the thread ends only when
\* stopBatching has stored shouldStop_ (batcher.cpp:41-61, 108-110).
THEOREM OneConsumer == Spec => []ThreadExact
  BY Invariance, PTL DEF IInv

\* consumeThread sets a promise that is not set and whose call waits for it, so set_value
\* and set_exception do not throw (batcher.cpp:151-160).
THEOREM PromisesSetOnce == Spec => SetOnce
  <1>1. IInv /\ [Next]_vars => [Reply => Waiting(Head(myReplies))]_vars
    BY Zenon, NextPromise
  <1>2. QED
    BY Invariance, <1>1, PTL DEF Spec, SetOnce

\* Calls are answered in the order in which they took accessMutex_: the line is a queue,
\* over the cut between the batch and the rest (batcher.cpp:71-84, 120-133, 151-154).
THEOREM FirstComeFirstServed == Spec => InOrder
  <1>1. ASSUME IInv, Next
        PROVE  \/ InLine' = InLine
               \/ \E c \in Callers : InLine' = Append(InLine, c)
               \/ InLine # << >> /\ InLine' = Tail(InLine)
    <2>1. ASSUME NEW c \in Callers, Push(c) PROVE InLine' = Append(InLine, c)
      BY Zenon, <1>1, <2>1, PushLine
    <2>2. ASSUME Consume PROVE InLine' = InLine
      <3>1. CASE UNCHANGED <<replies, myReplies>>
        BY Zenon, <3>1 DEF InLine
      <3>2. CASE /\ cpc = "check" /\ queries # << >>
                 /\ myReplies' = SubSeq(replies, 1, TodoSize) /\ replies' = RestReplies
        BY Zenon, <1>1, <3>2, BatchTaken
      <3>3. QED
        BY Zenon, <2>2, <3>1, <3>2 DEF Consume
    <2>3. CASE Reply
      BY Zenon, <1>1, <2>3, NextPromise
    <2>4. CASE UNCHANGED <<myReplies, replies>>
      BY Zenon, <2>4 DEF InLine
    <2>5. \/ \E c \in Callers : Push(c)
          \/ Consume \/ Reply \/ UNCHANGED <<myReplies, replies>>
      <3>1. ASSUME NEW c \in Callers, Call(c) \/ Notify(c) \/ Return(c)
            PROVE  UNCHANGED <<myReplies, replies>>
        BY Zenon, <3>1 DEF Call, Notify, Return, taken
      <3>2. ASSUME Block \/ Batch \/ Forward PROVE UNCHANGED <<myReplies, replies>>
        BY Zenon, <3>2 DEF Block, Batch, Forward, taken
      <3>3. ASSUME StopStore \/ Stop \/ StartBatching \/ LockModel \/ UnlockModel
            PROVE  UNCHANGED <<myReplies, replies>>
        BY Zenon, <3>3
           DEF StopStore, Stop, StopNotify, StopJoin, StartBatching, LockModel, UnlockModel, taken
      <3>4. QED
        BY Zenon, <1>1, <3>1, <3>2, <3>3 DEF Next, Caller, Consumer
    <2>6. QED
      BY Zenon, <2>1, <2>2, <2>3, <2>4, <2>5
  <1>2. QED
    BY Invariance, <1>1, PTL DEF Spec, InOrder

=============================================================================

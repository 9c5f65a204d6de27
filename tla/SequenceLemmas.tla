--------------------------- MODULE SequenceLemmas ---------------------------
(***************************************************************************)
(* What the proofs of several components need to know of natural numbers,  *)
(* of functions that are defined by recursion, and of sequences that are   *)
(* put together one after the other, the rows of a QKV matrix among them.  *)
(* The library's induction theorems take an operator as a parameter; here  *)
(* a set stands for the property, so that first-order provers can use it.  *)
(***************************************************************************)
EXTENDS QkvLayout, WellFoundedInduction, TLAPS

(* The natural numbers less than one another, as a relation.               *)
Below == OpToRel(<, Nat)

(* Every set of natural numbers has a least element.                       *)
LEMMA LeastNatural ==
  ASSUME NEW T, T \subseteq Nat, T # {}
  PROVE  \E x \in T : \A y \in T : x <= y
<1>1. IsWellFoundedOn(Below, Nat)
  BY NatLessThanWellFounded DEF Below
<1>2. \A x, y \in Nat : x < y => <<x, y>> \in Below
  BY DEF Below, OpToRel
<1>3. PICK x \in T : \A y \in T : ~(<<y, x>> \in Below)
  BY WFMin, <1>1, Zenon
<1>4. ASSUME NEW y \in T PROVE x <= y
  <2>1. x \in Nat /\ y \in Nat /\ ~(<<y, x>> \in Below)
    BY <1>3
  <2>2. ~(y < x)
    BY <1>2, <2>1, Zenon
  <2>3. QED
    BY <2>1, <2>2
<1>5. QED
  BY <1>4

(* Induction: a set that holds 0 and every successor holds them all.       *)
LEMMA Induction ==
  ASSUME NEW S, 0 \in S, \A n \in Nat : n \in S => n + 1 \in S
  PROVE  Nat \subseteq S
<1> SUFFICES ASSUME Nat \ S # {} PROVE FALSE
  OBVIOUS
<1>1. PICK x \in Nat \ S : \A y \in Nat \ S : x <= y
  BY LeastNatural
<1>2. x # 0 /\ x - 1 \in Nat
  BY <1>1
<1>3. x - 1 \in S
  BY <1>1, <1>2
<1>4. QED
  BY <1>1, <1>2, <1>3

(* A value a, and a step from each value of A to the next, K times.        *)
Recursion(A, a, K, step) == a \in A /\ K \in Nat /\ step \in [(1..K) \X A -> A]

Unrolls(f, A, a, K, step) ==
  f \in [0..K -> A] /\ f[0] = a /\ \A n \in 1..K : f[n] = step[<<n, f[n - 1]>>]

(* There is a function of what is computed one element at a time.          *)
LEMMA RecursionExists ==
  ASSUME NEW A, NEW a, NEW K, NEW step, Recursion(A, a, K, step)
  PROVE  \E f : Unrolls(f, A, a, K, step)
<1> USE DEF Recursion, Unrolls
<1> DEFINE Is(f, m) == f \in [0..m -> A] /\ f[0] = a /\ \A n \in 1..m : f[n] = step[<<n, f[n - 1]>>]
           S == {m \in Nat : m <= K => \E f : Is(f, m)}
<1>1. 0 \in S
  <2>1. Is([i \in 0..0 |-> a], 0)
    OBVIOUS
  <2>2. QED
    BY <2>1
<1>2. ASSUME NEW m \in Nat, m \in S PROVE m + 1 \in S
  <2> SUFFICES ASSUME m + 1 <= K PROVE \E f : Is(f, m + 1)
    OBVIOUS
  <2>1. PICK f : Is(f, m)
    BY <1>2
  <2> DEFINE b == step[<<m + 1, f[m]>>]
             g == [i \in 0..m + 1 |-> IF i = m + 1 THEN b ELSE f[i]]
  <2>2. b \in A
    BY <2>1
  <2>3. \A i \in 0..m : g[i] = f[i]
    OBVIOUS
  <2>4. g \in [0..m + 1 -> A] /\ g[m + 1] = b
    BY <2>1, <2>2
  <2>5. ASSUME NEW n \in 1..m + 1 PROVE g[n] = step[<<n, g[n - 1]>>]
    <3>1. CASE n = m + 1
      <4>1. n - 1 = m /\ m \in 0..m
        BY <3>1
      <4>2. g[n - 1] = f[m]
        BY <2>3, <4>1, Zenon
      <4>3. g[n] = step[<<n, f[m]>>]
        BY <2>4, <3>1, Zenon
      <4>4. QED
        BY <4>2, <4>3, Zenon
    <3>2. CASE n # m + 1
      BY <2>1, <2>3, <3>2
    <3>3. QED
      BY <3>1, <3>2
  <2>6. Is(g, m + 1)
    <3> HIDE DEF g
    <3>1. QED
      BY <2>1, <2>3, <2>4, <2>5
  <2>7. QED
    BY <2>6
<1>3. Nat \subseteq S
  <2> HIDE DEF S
  <2>1. QED
    BY <1>1, <1>2, Induction
<1>4. K \in S
  BY <1>3
<1>5. QED
  BY <1>4

(* Functions of one domain that agree are the same.                        *)
LEMMA SameFunction ==
  ASSUME NEW D, NEW f, f = [x \in D |-> f[x]], NEW g, g = [x \in D |-> g[x]], \A x \in D : f[x] = g[x]
  PROVE  f = g
  OBVIOUS

-----------------------------------------------------------------------------
(* FlattenSeq of the community modules: the recursive function it is       *)
(* defined by, over n sequences.                                           *)
Flattens(f, seqs, n) ==
  f = [i \in 1..n |-> IF i = 1 THEN seqs[i] ELSE f[i - 1] \o seqs[i]]

(* What Flattens says of one index.                                        *)
LEMMA FlattensAt ==
  ASSUME NEW seqs, NEW n, NEW f, Flattens(f, seqs, n)
  PROVE  \A i \in 1..n : f[i] = IF i = 1 THEN seqs[i] ELSE f[i - 1] \o seqs[i]
BY Zenon DEF Flattens

(* FlattenSeq puts sequences together one at a time.                       *)
LEMMA FlattensExists ==
  ASSUME NEW S, NEW n \in Nat, NEW seqs, \A i \in 1..n : seqs[i] \in Seq(S)
  PROVE  \E f : Flattens(f, seqs, n) /\ \A i \in 1..n : f[i] \in Seq(S)
<1> DEFINE step == [p \in (1..n) \X Seq(S) |-> p[2] \o seqs[p[1]]]
<1>1. step \in [(1..n) \X Seq(S) -> Seq(S)]
  OBVIOUS
<1>2. \A i \in 1..n, x \in Seq(S) : step[<<i, x>>] = x \o seqs[i]
  OBVIOUS
<1>3. <<>> \in Seq(S)
  OBVIOUS
<1> HIDE DEF step
<1>4. PICK g : Unrolls(g, Seq(S), <<>>, n, step)
  <2>1. Recursion(Seq(S), <<>>, n, step)
    BY <1>1, <1>3 DEF Recursion
  <2>2. QED
    BY <2>1, RecursionExists
<1>44. g \in [0..n -> Seq(S)] /\ g[0] = <<>> /\ \A i \in 1..n : g[i] = step[<<i, g[i - 1]>>]
  BY <1>4 DEF Unrolls
<1>5. \A i \in 1..n : i - 1 \in 0..n /\ g[i - 1] \in Seq(S) /\ g[i] \in Seq(S)
  BY <1>44
<1>6. \A i \in 1..n : g[i] = g[i - 1] \o seqs[i]
  BY <1>2, <1>44, <1>5
<1> DEFINE f == [i \in 1..n |-> g[i]]
<1>7. \A i \in 1..n : f[i] = g[i]
  OBVIOUS
<1>8. \A i \in 1..n : f[i] = IF i = 1 THEN seqs[i] ELSE f[i - 1] \o seqs[i]
  <2> TAKE i \in 1..n
  <2>1. CASE i = 1
    <3>1. <<>> \o seqs[1] = seqs[1]
      BY <2>1
    <3>2. QED
      BY <1>44, <1>6, <1>7, <2>1, <3>1, 1 - 1 = 0, Zenon
  <2>2. CASE i # 1
    <3>1. i - 1 \in 1..n
      BY <2>2
    <3>2. QED
      BY <1>6, <1>7, <2>2, <3>1
  <2>3. QED
    BY <2>1, <2>2
<1>9. f = [i \in 1..n |-> f[i]]
  OBVIOUS
<1> HIDE DEF f
<1> DEFINE h == [i \in 1..n |-> IF i = 1 THEN seqs[i] ELSE f[i - 1] \o seqs[i]]
<1>10. h = [i \in 1..n |-> h[i]] /\ \A i \in 1..n : f[i] = h[i]
  BY <1>8
<1>11. f = h
  <2> HIDE DEF h
  <2>1. QED
    BY <1>9, <1>10, SameFunction
<1>12. Flattens(f, seqs, n)
  BY <1>11, Zenon DEF Flattens
<1>13. QED
  BY <1>5, <1>7, <1>12

(* FlattenSeq is the last of those.                                        *)
LEMMA FlattenSeqIs ==
  ASSUME NEW S, NEW n \in Nat, n # 0, NEW seqs, Len(seqs) = n, \A i \in 1..n : seqs[i] \in Seq(S)
  PROVE  \E f : Flattens(f, seqs, n) /\ FlattenSeq(seqs) = f[n]
<1> DEFINE f == CHOOSE f : Flattens(f, seqs, n)
<1>1. Flattens(f, seqs, n)
  BY FlattensExists
<1>2. FlattenSeq(seqs) = f[n]
  BY DEF FlattenSeq, Flattens
<1>3. QED
  BY <1>1, <1>2

(* There is one such function.                                             *)
LEMMA FlattensUnique ==
  ASSUME NEW s, NEW t, NEW n \in Nat, NEW m \in Nat, n <= m, \A i \in 1..n : s[i] = t[i],
         NEW f, Flattens(f, s, n), NEW g, Flattens(g, t, m)
  PROVE  \A i \in 1..n : f[i] = g[i]
<1> DEFINE S == {k \in Nat : k \in 1..n => f[k] = g[k]}
<1>1. 0 \in S
  OBVIOUS
<1>2. ASSUME NEW k \in Nat, k \in S
      PROVE  k + 1 \in S
  <2> SUFFICES ASSUME k + 1 \in 1..n PROVE f[k + 1] = g[k + 1]
    OBVIOUS
  <2>0. k + 1 \in 1..n /\ k + 1 \in 1..m /\ (k + 1) - 1 = k
    OBVIOUS
  <2>1. f[k + 1] = IF k + 1 = 1 THEN s[k + 1] ELSE f[(k + 1) - 1] \o s[k + 1]
    <3>1. \A i \in 1..n : f[i] = IF i = 1 THEN s[i] ELSE f[i - 1] \o s[i]
      BY FlattensAt
    <3>2. QED
      BY <2>0, <3>1, Zenon
  <2>2. g[k + 1] = IF k + 1 = 1 THEN t[k + 1] ELSE g[(k + 1) - 1] \o t[k + 1]
    <3>1. \A i \in 1..m : g[i] = IF i = 1 THEN t[i] ELSE g[i - 1] \o t[i]
      BY FlattensAt
    <3>2. QED
      BY <2>0, <3>1, Zenon
  <2>3. k + 1 # 1 => f[k] = g[k]
    BY <1>2
  <2>4. s[k + 1] = t[k + 1]
    OBVIOUS
  <2>5. QED
    BY <2>0, <2>1, <2>2, <2>3, <2>4, Zenon
<1> HIDE DEF S
<1>3. Nat \subseteq S
  BY <1>1, <1>2, Induction
<1>4. QED
  BY <1>3 DEF S

(* Nothing put together is the empty sequence.                             *)
LEMMA FlattenEmpty ==
  ASSUME NEW s PROVE FlattenSeq([i \in 1..0 |-> s[i]]) = <<>>
  BY DEF FlattenSeq

(* One sequence more is one more at the end.                               *)
LEMMA FlattenNext ==
  ASSUME NEW s, NEW n \in Nat, NEW S, \A i \in 1..n + 1 : s[i] \in Seq(S)
  PROVE  FlattenSeq([i \in 1..n + 1 |-> s[i]]) = FlattenSeq([i \in 1..n |-> s[i]]) \o s[n + 1]
<1> DEFINE front == [i \in 1..n |-> s[i]]
           whole == [i \in 1..n + 1 |-> s[i]]
<1>0. /\ Len(front) = n /\ Len(whole) = n + 1
      /\ \A i \in 1..n : front[i] = s[i] /\ whole[i] = s[i] /\ front[i] \in Seq(S)
      /\ \A i \in 1..n + 1 : whole[i] = s[i] /\ whole[i] \in Seq(S)
  OBVIOUS
<1>e. n = 0 => front = [i \in 1..0 |-> s[i]]
  OBVIOUS
<1> HIDE DEF front, whole
<1>a. n + 1 \in Nat /\ n + 1 # 0 /\ n + 1 \in 1..n + 1 /\ (n + 1) - 1 = n /\ n <= n + 1
  OBVIOUS
<1>1. PICK g : Flattens(g, whole, n + 1) /\ FlattenSeq(whole) = g[n + 1]
  BY <1>0, <1>a, FlattenSeqIs
<1>2. g[n + 1] = IF n + 1 = 1 THEN whole[n + 1] ELSE g[(n + 1) - 1] \o whole[n + 1]
  <2>1. \A i \in 1..n + 1 : g[i] = IF i = 1 THEN whole[i] ELSE g[i - 1] \o whole[i]
    BY <1>1, FlattensAt
  <2>2. QED
    BY <1>a, <2>1, Zenon
<1>3. CASE n = 0
  <2>1. FlattenSeq(front) = <<>>
    BY <1>3, <1>e, FlattenEmpty, Zenon
  <2>2. <<>> \o s[n + 1] = s[n + 1]
    OBVIOUS
  <2>3. FlattenSeq(whole) = s[n + 1]
    BY <1>1, <1>2, <1>3, <1>0, <1>a
  <2>4. FlattenSeq(whole) = FlattenSeq(front) \o s[n + 1]
    BY <2>1, <2>2, <2>3
  <2>5. QED
    BY <2>4 DEF front, whole
<1>4. CASE n # 0
  <2>1. PICK f : Flattens(f, front, n) /\ FlattenSeq(front) = f[n]
    BY <1>0, <1>4, FlattenSeqIs, SMTT(30)
  <2>2. \A i \in 1..n : front[i] = whole[i]
    BY <1>0
  <2>3. \A i \in 1..n : f[i] = g[i]
    BY <1>1, <1>a, <2>1, <2>2, FlattensUnique
  <2>4. n \in 1..n /\ n + 1 # 1
    BY <1>4
  <2>5. FlattenSeq(whole) = FlattenSeq(front) \o s[n + 1]
    BY <1>0, <1>1, <1>2, <1>a, <2>1, <2>3, <2>4, Zenon
  <2>6. QED
    BY <2>5 DEF front, whole
<1>5. QED
  BY <1>3, <1>4

(* The first n elements and the c after them.                              *)
LEMMA PrefixConcat ==
  ASSUME NEW e, NEW n \in Nat, NEW c \in Nat
  PROVE  [i \in 1..n |-> e[i]] \o [i \in 1..c |-> e[n + i]] = [i \in 1..n + c |-> e[i]]
OBVIOUS

-----------------------------------------------------------------------------
(* Division with remainder.                                                *)

(* A natural number is its quotient times the divisor, and the rest.       *)
LEMMA Division ==
  ASSUME NEW d \in Nat \ {0}, NEW k \in Nat, NEW r \in 0..d - 1
  PROVE  (k * d + r) \div d = k /\ (k * d + r) % d = r
OBVIOUS

(* The quotient and the rest of one of k times d numbers.                  *)
LEMMA DivisionRange ==
  ASSUME NEW d \in Nat \ {0}, NEW k \in Nat, NEW i \in 0..k * d - 1
  PROVE  i \div d \in 0..k - 1 /\ i % d \in 0..d - 1
OBVIOUS
-----------------------------------------------------------------------------
(* Sequences one after the other, and where each of their elements comes.  *)

(* Element k of group g is one of the n * c places.                        *)
LEMMA Place ==
  ASSUME NEW n \in Nat, NEW c \in Nat, NEW g \in 1..n, NEW k \in 1..c
  PROVE  (g - 1) * c + k \in 1..n * c
<1>1. (g - 1) * c \in Nat /\ n * c \in Nat
  OBVIOUS
<1>2. (g - 1) * c + c = g * c
  OBVIOUS
<1>3. g * c <= n * c
  OBVIOUS
<1>4. QED
  BY <1>1, <1>2, <1>3

(* Every place of n groups of c is one of them. *)
LEMMA PlaceOf ==
  ASSUME NEW n \in Nat, NEW c \in Nat \ {0}, NEW i \in 1..n * c
  PROVE  \E g \in 1..n, k \in 1..c : i = (g - 1) * c + k
<1>1. i - 1 \in 0..n * c - 1
  OBVIOUS
<1>2. (i - 1) \div c \in 0..n - 1 /\ (i - 1) % c \in 0..c - 1
  BY <1>1, DivisionRange
<1> DEFINE g == ((i - 1) \div c) + 1
           k == ((i - 1) % c) + 1
<1>3. g \in 1..n /\ k \in 1..c
  BY <1>2
<1>4. i - 1 = ((i - 1) \div c) * c + ((i - 1) % c)
  BY <1>1
<1>5. i = (g - 1) * c + k
  BY <1>2, <1>4
<1>6. QED
  BY <1>3, <1>5

(* What FlattenSeq has put together after each of n sequences. *)
Gathers(f, S, s, n) ==
  /\ f \in [0..n -> Seq(S)] /\ f[0] = <<>> /\ f[n] = FlattenSeq(s)
  /\ \A i \in 1..n : f[i] = f[i - 1] \o s[i]

SeqsOf(s, S, n) == s = [i \in 1..n |-> s[i]] /\ \A i \in 1..n : s[i] \in Seq(S)

(* FlattenSeq goes from each sequence to the next.                         *)
LEMMA FlattenGathers ==
  ASSUME NEW S, NEW n \in Nat, NEW s, SeqsOf(s, S, n)
  PROVE  \E f : Gathers(f, S, s, n)
<1> DEFINE f == [m \in 0..n |-> FlattenSeq([i \in 1..m |-> s[i]])]
<1>0. s = [i \in 1..n |-> s[i]] /\ \A i \in 1..n : s[i] \in Seq(S)
  BY DEF SeqsOf
<1>1. f[0] = <<>>
  <2>1. 0 \in 0..n
    OBVIOUS
  <2>2. f[0] = FlattenSeq([i \in 1..0 |-> s[i]])
    BY <2>1, Zenon
  <2>3. QED
    BY <2>2, FlattenEmpty, Zenon
<1>2. f[n] = FlattenSeq(s)
  <2>1. n \in 0..n
    OBVIOUS
  <2>2. QED
    BY <1>0, <2>1, Zenon
<1>3. ASSUME NEW i \in 1..n PROVE f[i] = f[i - 1] \o s[i]
  <2>1. i - 1 \in Nat /\ i - 1 \in 0..n /\ (i - 1) + 1 = i /\ i \in 0..n
    OBVIOUS
  <2>2. \A j \in 1..(i - 1) + 1 : s[j] \in Seq(S)
    BY <1>0, <2>1
  <2>3. FlattenSeq([j \in 1..(i - 1) + 1 |-> s[j]]) = FlattenSeq([j \in 1..i - 1 |-> s[j]]) \o s[(i - 1) + 1]
    <3> DEFINE m == i - 1
    <3>1. m \in Nat /\ \A j \in 1..m + 1 : s[j] \in Seq(S)
      BY <2>1, <2>2
    <3> HIDE DEF m
    <3>2. FlattenSeq([j \in 1..m + 1 |-> s[j]]) = FlattenSeq([j \in 1..m |-> s[j]]) \o s[m + 1]
      BY <3>1, FlattenNext
    <3>3. QED
      BY <3>2 DEF m
  <2>4. f[i] = FlattenSeq([j \in 1..i |-> s[j]]) /\ f[i - 1] = FlattenSeq([j \in 1..i - 1 |-> s[j]])
    BY <2>1, Zenon
  <2>5. QED
    BY <2>1, <2>3, <2>4, Zenon
<1>4. f = [m \in 0..n |-> f[m]]
  OBVIOUS
<1> HIDE DEF f
<1> DEFINE T == {m \in Nat : m <= n => f[m] \in Seq(S)}
<1>5. 0 \in T
  <2>1. f[0] \in Seq(S)
    BY <1>1
  <2>2. QED
    BY <2>1
<1>6. ASSUME NEW m \in Nat, m \in T PROVE m + 1 \in T
  <2> SUFFICES ASSUME m + 1 <= n PROVE f[m + 1] \in Seq(S)
    OBVIOUS
  <2>1. m + 1 \in 1..n /\ (m + 1) - 1 = m
    OBVIOUS
  <2>2. f[m + 1] = f[m] \o s[m + 1]
    BY <1>3, <2>1
  <2>3. QED
    BY <1>0, <1>6, <2>1, <2>2
<1>7. Nat \subseteq T
  <2> HIDE DEF T
  <2>1. QED
    BY <1>5, <1>6, Induction
<1>8. \A m \in 0..n : f[m] \in Seq(S)
  BY <1>7
<1>9. f \in [0..n -> Seq(S)]
  BY <1>4, <1>8
<1>10. QED
  BY <1>1, <1>2, <1>3, <1>9 DEF Gathers

(* t is a and then b. *)
Joins(t, S, a, b) ==
  /\ t \in Seq(S) /\ Len(t) = Len(a) + Len(b)
  /\ \A i \in 1..Len(a) : t[i] = a[i]
  /\ \A i \in 1..Len(b) : t[Len(a) + i] = b[i]

(* A concatenation, element by element.                                    *)
LEMMA ConcatIs ==
  ASSUME NEW S, NEW a \in Seq(S), NEW b \in Seq(S)
  PROVE  Joins(a \o b, S, a, b)
BY DEF Joins

(* It has the elements of both.                                            *)
LEMMA ConcatRange ==
  ASSUME NEW S, NEW a \in Seq(S), NEW b \in Seq(S)
  PROVE  Range(a \o b) = Range(a) \cup Range(b)
<1>1. /\ Len(a) \in Nat /\ Len(b) \in Nat /\ DOMAIN a = 1..Len(a) /\ DOMAIN b = 1..Len(b)
      /\ DOMAIN (a \o b) = 1..Len(a) + Len(b)
      /\ \A i \in 1..Len(a) : (a \o b)[i] = a[i]
      /\ \A i \in 1..Len(b) : (a \o b)[Len(a) + i] = b[i]
  OBVIOUS
<1> DEFINE c == a \o b
<1> HIDE DEF c
<1>2. \A i \in 1..Len(a) + Len(b) : i \in 1..Len(a) \/ (i - Len(a) \in 1..Len(b) /\ i = Len(a) + (i - Len(a)))
  BY <1>1
<1>3. \A i \in 1..Len(b) : Len(a) + i \in 1..Len(a) + Len(b)
  BY <1>1
<1>4. \A i \in 1..Len(a) : i \in 1..Len(a) + Len(b)
  BY <1>1
<1>5. Range(c) \subseteq Range(a) \cup Range(b)
  BY <1>1, <1>2 DEF Range, c
<1>6. Range(a) \subseteq Range(c)
  BY <1>1, <1>4 DEF Range, c
<1>7. Range(b) \subseteq Range(c)
  BY <1>1, <1>3 DEF Range, c
<1>8. QED
  BY <1>5, <1>6, <1>7 DEF c

(* FlattenSeq has the elements of every sequence, and no others.           *)
LEMMA FlattenRange ==
  ASSUME NEW S, NEW n \in Nat, NEW s, SeqsOf(s, S, n)
  PROVE  FlattenSeq(s) \in Seq(S) /\ Range(FlattenSeq(s)) = UNION {Range(s[i]) : i \in 1..n}
<1>1. PICK f : Gathers(f, S, s, n)
  BY FlattenGathers
<1> DEFINE T == {m \in Nat : m <= n => Range(f[m]) = UNION {Range(s[i]) : i \in 1..m}}
<1>2. 0 \in T
  BY <1>1 DEF Gathers, Range
<1>3. ASSUME NEW m \in Nat, m \in T PROVE m + 1 \in T
  <2> SUFFICES ASSUME m + 1 <= n PROVE Range(f[m + 1]) = UNION {Range(s[i]) : i \in 1..m + 1}
    OBVIOUS
  <2>1. m + 1 \in 1..n /\ (m + 1) - 1 = m /\ m \in 0..n
    OBVIOUS
  <2>2. f[m + 1] = f[m] \o s[m + 1] /\ s[m + 1] \in Seq(S) /\ f[m] \in Seq(S)
    BY <1>1, <2>1 DEF Gathers, SeqsOf
  <2>3. Range(f[m]) = UNION {Range(s[i]) : i \in 1..m}
    BY <1>3, <2>1
  <2>4. Range(f[m + 1]) = Range(f[m]) \cup Range(s[m + 1])
    BY <2>2, ConcatRange
  <2>5. 1..m + 1 = 1..m \cup {m + 1}
    OBVIOUS
  <2>6. UNION {Range(s[i]) : i \in 1..m \cup {m + 1}} = (UNION {Range(s[i]) : i \in 1..m}) \cup Range(s[m + 1])
    OBVIOUS
  <2>7. QED
    BY <2>3, <2>4, <2>5, <2>6, Zenon
<1>4. Nat \subseteq T
  <2> HIDE DEF T
  <2>1. QED
    BY <1>2, <1>3, Induction
<1>5. FlattenSeq(s) = f[n] /\ f[n] \in Seq(S)
  BY <1>1 DEF Gathers
<1>6. QED
  BY <1>4, <1>5

(* n sequences of c elements each, one after the other. *)
SeqsOfLen(s, S, n, c) == SeqsOf(s, S, n) /\ \A i \in 1..n : Len(s[i]) = c

LaidOut(t, s, S, n, c) ==
  /\ t \in Seq(S) /\ Len(t) = n * c
  /\ \A g \in 1..n, k \in 1..c : t[(g - 1) * c + k] = s[g][k]

(* Where FlattenSeq puts element k of sequence g, all as long as c.        *)
LEMMA FlattenUniform ==
  ASSUME NEW S, NEW n \in Nat, NEW c \in Nat, NEW s, SeqsOfLen(s, S, n, c)
  PROVE  LaidOut(FlattenSeq(s), s, S, n, c)
<1>0. SeqsOf(s, S, n) /\ \A i \in 1..n : Len(s[i]) = c
  BY DEF SeqsOfLen
<1>1. PICK f : Gathers(f, S, s, n)
  BY <1>0, FlattenGathers
<1> DEFINE Good(m) == /\ Len(f[m]) = m * c
                      /\ \A g \in 1..m, k \in 1..c : f[m][(g - 1) * c + k] = s[g][k]
           T == {m \in Nat : m <= n => Good(m)}
<1>2. 0 \in T
  <2>1. f[0] = <<>> /\ Len(<<>>) = 0 /\ 0 * c = 0
    BY <1>1 DEF Gathers
  <2>2. QED
    BY <2>1
<1>3. ASSUME NEW m \in Nat, m \in T PROVE m + 1 \in T
  <2> SUFFICES ASSUME m + 1 <= n PROVE Good(m + 1)
    OBVIOUS
  <2>1. m + 1 \in 1..n /\ (m + 1) - 1 = m /\ m \in 0..n
    OBVIOUS
  <2> DEFINE old == f[m]
             new == f[m + 1]
             x == s[m + 1]
  <2>2. new = old \o x /\ x \in Seq(S) /\ old \in Seq(S) /\ Len(x) = c
    BY <1>0, <1>1, <2>1 DEF Gathers, SeqsOf
  <2>3. Len(old) = m * c /\ \A g \in 1..m, k \in 1..c : old[(g - 1) * c + k] = s[g][k]
    BY <1>3, <2>1
  <2> HIDE DEF old, new, x
  <2>4. m * c \in Nat /\ (m + 1) * c = m * c + c
    OBVIOUS
  <2>5. new \in Seq(S) /\ Len(new) = m * c + c
    <3>1. old \o x \in Seq(S) /\ Len(old \o x) = Len(old) + Len(x)
      BY <2>2, ConcatIs DEF Joins
    <3>2. QED
      BY <2>2, <2>3, <3>1
  <2>6. ASSUME NEW g \in 1..m + 1, NEW k \in 1..c
        PROVE  new[(g - 1) * c + k] = s[g][k]
    <3>1. CASE g = m + 1
      <4>1. (g - 1) * c + k = m * c + k
        BY <3>1
      <4>2. new[m * c + k] = x[k]
        <5>1. Joins(old \o x, S, old, x)
          BY <2>2, ConcatIs
        <5>2. QED
          BY <2>2, <2>3, <5>1 DEF Joins
      <4>3. QED
        BY <3>1, <4>1, <4>2 DEF x
    <3>2. CASE g # m + 1
      <4>1. g \in 1..m
        BY <3>2
      <4>2. (g - 1) * c + k \in 1..m * c
        BY <4>1, Place
      <4>3. new[(g - 1) * c + k] = old[(g - 1) * c + k]
        BY <2>2, <2>3, <2>4, <2>5, <4>2
      <4>4. QED
        BY <2>3, <4>1, <4>3
    <3>3. QED
      BY <3>1, <3>2
  <2>7. QED
    BY <2>4, <2>5, <2>6 DEF new
<1>4. Nat \subseteq T
  <2> HIDE DEF T
  <2>1. QED
    BY <1>2, <1>3, Induction
<1>5. FlattenSeq(s) = f[n] /\ f[n] \in Seq(S)
  BY <1>1 DEF Gathers
<1>6. Good(n)
  BY <1>4
<1>7. QED
  BY <1>5, <1>6, Zenon DEF LaidOut
-----------------------------------------------------------------------------
(* The rows of a QKV matrix, grouped and at run time.                      *)

(* Rows count from 0; row r of group g in the order of the runtime.  *)
RuntimeRow(layout, r) ==
  LET group == r \div PerGroup(layout)
      within == r % PerGroup(layout)
      queries == layout.heads * layout.dim
  IN CASE within < queries -> group * queries + within
       [] within \in queries..(queries + layout.dim - 1) ->
            layout.groups * queries + group * layout.dim + (within - queries)
       [] OTHER -> layout.groups * (queries + layout.dim) + group * layout.dim
                     + (within - queries - layout.dim)

Layouts == [groups : Nat \ {0}, heads : Nat \ {0}, dim : Nat \ {0}]

(* count rows of every group of P, from first on. *)
Section(P, G, first, count) ==
  FlattenSeq([g \in 1..G |-> [i \in 1..count |-> (g - 1) * P + first + i - 1]])

IsSection(t, P, G, first, count) ==
  /\ t \in Seq(Nat) /\ Len(t) = G * count
  /\ \A g \in 1..G, k \in 1..count : t[(g - 1) * count + k] = (g - 1) * P + first + k - 1

(* Where a section has row k of group g.                                   *)
LEMMA SectionIs ==
  ASSUME NEW P \in Nat, NEW G \in Nat, NEW first \in Nat, NEW count \in Nat
  PROVE  IsSection(Section(P, G, first, count), P, G, first, count)
<1> DEFINE s == [g \in 1..G |-> [i \in 1..count |-> (g - 1) * P + first + i - 1]]
<1>1. ASSUME NEW g \in 1..G
      PROVE  s[g] \in Seq(Nat) /\ Len(s[g]) = count /\ \A k \in 1..count : s[g][k] = (g - 1) * P + first + k - 1
  <2>1. g - 1 \in Nat
    OBVIOUS
  <2>2. (g - 1) * P \in Nat
    BY <2>1
  <2>3. \A i \in 1..count : (g - 1) * P + first + i - 1 \in Nat
    BY <2>2
  <2>4. s[g] = [i \in 1..count |-> (g - 1) * P + first + i - 1]
    OBVIOUS
  <2> HIDE DEF s
  <2>5. QED
    BY <2>3, <2>4
<1>2. s = [g \in 1..G |-> s[g]]
  OBVIOUS
<1>3. Section(P, G, first, count) = FlattenSeq(s)
  BY DEF Section
<1> HIDE DEF s
<1>4. SeqsOf(s, Nat, G)
  BY <1>1, <1>2 DEF SeqsOf
<1>5. SeqsOfLen(s, Nat, G, count)
  BY <1>1, <1>4 DEF SeqsOfLen
<1>6. LaidOut(FlattenSeq(s), s, Nat, G, count)
  BY <1>5, FlattenUniform
<1>7. QED
  BY <1>1, <1>3, <1>6, Zenon DEF IsSection, LaidOut

(* The sizes of a layout are natural numbers, and add up.                  *)
LEMMA LayoutSizes ==
  ASSUME NEW layout \in Layouts, NEW W, W = layout.heads * layout.dim
  PROVE  /\ W \in Nat \ {0} /\ layout.dim \in Nat \ {0} /\ layout.groups \in Nat \ {0}
         /\ PerGroup(layout) = W + 2 * layout.dim
         /\ QkvRows(layout) = layout.groups * W + layout.groups * layout.dim + layout.groups * layout.dim
         /\ GroupedToQkv(layout) =
              Section(PerGroup(layout), layout.groups, 0, W)
                \o Section(PerGroup(layout), layout.groups, W, layout.dim)
                \o Section(PerGroup(layout), layout.groups, W + layout.dim, layout.dim)
<1>1. layout.groups \in Nat \ {0} /\ layout.heads \in Nat \ {0} /\ layout.dim \in Nat \ {0}
  BY DEF Layouts
<1>2. W \in Nat \ {0}
  BY <1>1
<1>3. (layout.heads + 2) * layout.dim = layout.heads * layout.dim + 2 * layout.dim
  BY <1>1
<1>4. PerGroup(layout) = W + 2 * layout.dim
  BY <1>1, <1>3 DEF PerGroup
<1>5. layout.groups * (W + 2 * layout.dim) =
        layout.groups * W + layout.groups * layout.dim + layout.groups * layout.dim
  BY <1>1, <1>2
<1>6. QkvRows(layout) = layout.groups * W + layout.groups * layout.dim + layout.groups * layout.dim
  BY <1>4, <1>5 DEF QkvRows
<1>7. QED
  BY <1>1, <1>2, <1>4, <1>6 DEF GroupedToQkv, Section

(* The three sections one after the other. *)
LEMMA ThreeConcat ==
  ASSUME NEW a \in Seq(Nat), NEW b \in Seq(Nat), NEW c \in Seq(Nat)
  PROVE  LET all == a \o b \o c
         IN /\ all \in Seq(Nat) /\ Len(all) = Len(a) + Len(b) + Len(c)
            /\ \A i \in 1..Len(a) : all[i] = a[i]
            /\ \A i \in 1..Len(b) : all[Len(a) + i] = b[i]
            /\ \A i \in 1..Len(c) : all[Len(a) + Len(b) + i] = c[i]
<1> DEFINE ab == a \o b
<1>1. ab \in Seq(Nat) /\ Len(ab) = Len(a) + Len(b) /\ Len(a) \in Nat /\ Len(b) \in Nat /\ Len(c) \in Nat
  OBVIOUS
<1>2. /\ \A i \in 1..Len(a) : ab[i] = a[i]
      /\ \A i \in 1..Len(b) : ab[Len(a) + i] = b[i]
  BY ConcatIs DEF Joins
<1> HIDE DEF ab
<1>3. /\ ab \o c \in Seq(Nat) /\ Len(ab \o c) = Len(ab) + Len(c)
      /\ \A i \in 1..Len(ab) : (ab \o c)[i] = ab[i]
      /\ \A i \in 1..Len(c) : (ab \o c)[Len(ab) + i] = c[i]
  <2>1. Joins(ab \o c, Nat, ab, c)
    BY <1>1, ConcatIs
  <2>2. QED
    BY <2>1, Zenon DEF Joins
<1>4. \A i \in 1..Len(a) : i \in 1..Len(ab)
  BY <1>1
<1>5. \A i \in 1..Len(b) : Len(a) + i \in 1..Len(ab)
  BY <1>1
<1>6. QED
  BY <1>1, <1>2, <1>3, <1>4, <1>5 DEF ab

(* GroupedToQkv, section by section.                                       *)
LEMMA ForwardIs ==
  ASSUME NEW layout \in Layouts, NEW W, W = layout.heads * layout.dim, NEW D, D = layout.dim,
         NEW G, G = layout.groups, NEW P, P = PerGroup(layout)
  PROVE  /\ GroupedToQkv(layout) \in Seq(Nat) /\ Len(GroupedToQkv(layout)) = QkvRows(layout)
         /\ \A g \in 1..G, k \in 1..W : GroupedToQkv(layout)[(g - 1) * W + k] = (g - 1) * P + k - 1
         /\ \A g \in 1..G, k \in 1..D : GroupedToQkv(layout)[G * W + ((g - 1) * D + k)] = (g - 1) * P + W + k - 1
         /\ \A g \in 1..G, k \in 1..D :
              GroupedToQkv(layout)[G * W + G * D + ((g - 1) * D + k)] = (g - 1) * P + (W + D) + k - 1
<1>1. /\ W \in Nat \ {0} /\ D \in Nat \ {0} /\ G \in Nat \ {0} /\ P = W + 2 * D
      /\ QkvRows(layout) = G * W + G * D + G * D
  BY LayoutSizes
<1>2. GroupedToQkv(layout) = Section(P, G, 0, W) \o Section(P, G, W, D) \o Section(P, G, W + D, D)
  BY LayoutSizes
<1> DEFINE a == Section(P, G, 0, W)
           b == Section(P, G, W, D)
           c == Section(P, G, W + D, D)
<1>3. P \in Nat /\ W \in Nat /\ D \in Nat /\ G \in Nat /\ W + D \in Nat /\ 0 \in Nat /\ G * W \in Nat /\ G * D \in Nat
  BY <1>1
<1>4. a \in Seq(Nat) /\ Len(a) = G * W /\ \A g \in 1..G, k \in 1..W : a[(g - 1) * W + k] = (g - 1) * P + 0 + k - 1
  <2>1. IsSection(a, P, G, 0, W)
    BY <1>3, SectionIs
  <2>2. QED
    BY <2>1, Zenon DEF IsSection
<1>5. b \in Seq(Nat) /\ Len(b) = G * D /\ \A g \in 1..G, k \in 1..D : b[(g - 1) * D + k] = (g - 1) * P + W + k - 1
  <2>1. IsSection(b, P, G, W, D)
    BY <1>3, SectionIs
  <2>2. QED
    BY <2>1, Zenon DEF IsSection
<1>6. c \in Seq(Nat) /\ Len(c) = G * D /\ \A g \in 1..G, k \in 1..D : c[(g - 1) * D + k] = (g - 1) * P + (W + D) + k - 1
  <2>1. IsSection(c, P, G, W + D, D)
    BY <1>3, SectionIs
  <2>2. QED
    BY <2>1, Zenon DEF IsSection
<1>7. GroupedToQkv(layout) = a \o b \o c
  BY <1>2
<1> HIDE DEF a, b, c
<1> DEFINE all == a \o b \o c
<1>8. /\ all \in Seq(Nat) /\ Len(all) = G * W + G * D + G * D
      /\ \A i \in 1..G * W : all[i] = a[i]
      /\ \A i \in 1..G * D : all[G * W + i] = b[i]
      /\ \A i \in 1..G * D : all[G * W + G * D + i] = c[i]
  <2>1. /\ all \in Seq(Nat) /\ Len(all) = Len(a) + Len(b) + Len(c)
        /\ \A i \in 1..Len(a) : all[i] = a[i]
        /\ \A i \in 1..Len(b) : all[Len(a) + i] = b[i]
        /\ \A i \in 1..Len(c) : all[Len(a) + Len(b) + i] = c[i]
    BY <1>4, <1>5, <1>6, ThreeConcat
  <2> HIDE DEF all
  <2>2. Len(a) = G * W /\ Len(b) = G * D /\ Len(c) = G * D
    BY <1>4, <1>5, <1>6
  <2>3. QED
    BY <2>1, <2>2, ZenonT(60)
<1>9. all = GroupedToQkv(layout)
  BY <1>7
<1> HIDE DEF all
<1>10. ASSUME NEW g \in 1..G, NEW k \in 1..W
       PROVE  all[(g - 1) * W + k] = (g - 1) * P + k - 1
  <2>1. (g - 1) * W + k \in 1..G * W
    BY <1>1, Place
  <2>2. all[(g - 1) * W + k] = (g - 1) * P + 0 + k - 1
    BY <1>4, <1>8, <2>1
  <2>3. (g - 1) * P \in Nat
    BY <1>1, <1>3
  <2>4. QED
    BY <2>2, <2>3
<1>11. ASSUME NEW g \in 1..G, NEW k \in 1..D
       PROVE  /\ all[G * W + ((g - 1) * D + k)] = (g - 1) * P + W + k - 1
              /\ all[G * W + G * D + ((g - 1) * D + k)] = (g - 1) * P + (W + D) + k - 1
  <2>1. (g - 1) * D + k \in 1..G * D
    BY <1>1, Place
  <2>2. QED
    <3>1. all[G * W + ((g - 1) * D + k)] = b[(g - 1) * D + k]
      BY <1>8, <2>1, Zenon
    <3>2. all[G * W + G * D + ((g - 1) * D + k)] = c[(g - 1) * D + k]
      BY <1>8, <2>1, Zenon
    <3>3. b[(g - 1) * D + k] = (g - 1) * P + W + k - 1
      BY <1>5, Zenon
    <3>4. c[(g - 1) * D + k] = (g - 1) * P + (W + D) + k - 1
      BY <1>6, Zenon
    <3>5. QED
      BY <3>1, <3>2, <3>3, <3>4, Zenon
<1>12. QED
  <2>1. /\ GroupedToQkv(layout) \in Seq(Nat)
        /\ Len(GroupedToQkv(layout)) = G * W + G * D + G * D
    BY <1>8, <1>9
  <2>2. G * W + G * D + G * D = QkvRows(layout)
    BY <1>1, <1>3
  <2>3. QED
    BY <1>9, <1>10, <1>11, <2>1, <2>2, ZenonT(60)

(* A row and its place in its group. *)
LEMMA RuntimeRowIs ==
  ASSUME NEW layout \in Layouts, NEW W, W = layout.heads * layout.dim, NEW D, D = layout.dim,
         NEW G, G = layout.groups, NEW P, P = PerGroup(layout), NEW g \in 1..G
  PROVE  /\ \A k \in 1..W : RuntimeRow(layout, (g - 1) * P + k - 1) = (g - 1) * W + k - 1
         /\ \A k \in 1..D : RuntimeRow(layout, (g - 1) * P + W + k - 1) = G * W + ((g - 1) * D + k) - 1
         /\ \A k \in 1..D : RuntimeRow(layout, (g - 1) * P + (W + D) + k - 1) = G * W + G * D + ((g - 1) * D + k) - 1
<1>1. /\ W \in Nat \ {0} /\ D \in Nat \ {0} /\ G \in Nat \ {0} /\ P = W + 2 * D /\ P \in Nat \ {0}
  BY LayoutSizes
<1>2. g - 1 \in Nat /\ (g - 1) * P \in Nat /\ (g - 1) * W \in Nat /\ (g - 1) * D \in Nat /\ G * W \in Nat /\ G * D \in Nat
  BY <1>1
<1>3. G * (W + D) = G * W + G * D
  BY <1>1
<1>4. ASSUME NEW r \in 0..P - 1
      PROVE  /\ ((g - 1) * P + r) \div P = g - 1 /\ ((g - 1) * P + r) % P = r
             /\ RuntimeRow(layout, (g - 1) * P + r) =
                  CASE r < W -> (g - 1) * W + r
                    [] r \in W..(W + D - 1) -> G * W + (g - 1) * D + (r - W)
                    [] OTHER -> G * (W + D) + (g - 1) * D + (r - W - D)
  <2>1. ((g - 1) * P + r) \div P = g - 1 /\ ((g - 1) * P + r) % P = r
    BY <1>1, <1>2, Division
  <2>2. QED
    BY <2>1, Zenon DEF RuntimeRow
<1>5. ASSUME NEW k \in 1..W
      PROVE  RuntimeRow(layout, (g - 1) * P + k - 1) = (g - 1) * W + k - 1
  <2>1. k - 1 \in 0..P - 1 /\ k - 1 < W
    BY <1>1
  <2>2. (g - 1) * P + (k - 1) = (g - 1) * P + k - 1 /\ (g - 1) * W + (k - 1) = (g - 1) * W + k - 1
    BY <1>2
  <2> DEFINE r == k - 1
  <2>3. r \in 0..P - 1 /\ r < W
    BY <2>1
  <2>4. (g - 1) * P + r = (g - 1) * P + k - 1 /\ (g - 1) * W + r = (g - 1) * W + k - 1
    BY <2>2
  <2> HIDE DEF r
  <2>5. RuntimeRow(layout, (g - 1) * P + r) =
           CASE r < W -> (g - 1) * W + r
             [] r \in W..(W + D - 1) -> G * W + (g - 1) * D + (r - W)
             [] OTHER -> G * (W + D) + (g - 1) * D + (r - W - D)
    BY <1>4, <2>3
  <2>6. ~(r \in W..(W + D - 1))
    BY <1>1, <2>3
  <2>7. RuntimeRow(layout, (g - 1) * P + r) = (g - 1) * W + r
    BY <2>3, <2>5, <2>6, Zenon
  <2>8. QED
    BY <2>4, <2>7, Zenon
<1>6. ASSUME NEW k \in 1..D
      PROVE  RuntimeRow(layout, (g - 1) * P + W + k - 1) = G * W + ((g - 1) * D + k) - 1
  <2> DEFINE r == W + k - 1
  <2>1. r \in 0..P - 1 /\ ~(r < W) /\ r \in W..(W + D - 1) /\ r - W = k - 1
    BY <1>1
  <2>2. (g - 1) * P + r = (g - 1) * P + W + k - 1
    BY <1>1, <1>2
  <2> HIDE DEF r
  <2>3. RuntimeRow(layout, (g - 1) * P + r) = G * W + (g - 1) * D + (r - W)
    BY <1>4, <2>1
  <2>4. G * W + (g - 1) * D + (k - 1) = G * W + ((g - 1) * D + k) - 1
    BY <1>2
  <2>5. QED
    BY <2>1, <2>2, <2>3, <2>4
<1>7. ASSUME NEW k \in 1..D
      PROVE  RuntimeRow(layout, (g - 1) * P + (W + D) + k - 1) = G * W + G * D + ((g - 1) * D + k) - 1
  <2> DEFINE r == (W + D) + k - 1
  <2>1. r \in 0..P - 1 /\ ~(r < W) /\ r \notin W..(W + D - 1) /\ r - W - D = k - 1
    BY <1>1
  <2>2. (g - 1) * P + r = (g - 1) * P + (W + D) + k - 1
    BY <1>1, <1>2
  <2> HIDE DEF r
  <2>3. RuntimeRow(layout, (g - 1) * P + r) = G * (W + D) + (g - 1) * D + (r - W - D)
    BY <1>4, <2>1
  <2>4. (G * W + G * D) + (g - 1) * D + (k - 1) = G * W + G * D + ((g - 1) * D + k) - 1
    BY <1>2
  <2>5. QED
    BY <1>3, <2>1, <2>2, <2>3, <2>4
<1>8. QED
  BY <1>5, <1>6, <1>7

(* Where a row of the runtime order comes from. *)
LEMMA RuntimeRowOfForward ==
  ASSUME NEW layout \in Layouts, NEW r \in 1..QkvRows(layout)
  PROVE  RuntimeRow(layout, GroupedToQkv(layout)[r]) = r - 1
<1> DEFINE W == layout.heads * layout.dim
           D == layout.dim
           G == layout.groups
           P == PerGroup(layout)
           forward == GroupedToQkv(layout)
<1>1. /\ W \in Nat \ {0} /\ D \in Nat \ {0} /\ G \in Nat \ {0} /\ P = W + 2 * D
      /\ QkvRows(layout) = G * W + G * D + G * D
  BY LayoutSizes
<1>2. /\ \A g \in 1..G, k \in 1..W : forward[(g - 1) * W + k] = (g - 1) * P + k - 1
      /\ \A g \in 1..G, k \in 1..D : forward[G * W + ((g - 1) * D + k)] = (g - 1) * P + W + k - 1
      /\ \A g \in 1..G, k \in 1..D : forward[G * W + G * D + ((g - 1) * D + k)] = (g - 1) * P + (W + D) + k - 1
  BY ForwardIs
<1>3. ASSUME NEW g \in 1..G
      PROVE  /\ \A k \in 1..W : RuntimeRow(layout, (g - 1) * P + k - 1) = (g - 1) * W + k - 1
             /\ \A k \in 1..D : RuntimeRow(layout, (g - 1) * P + W + k - 1) = G * W + ((g - 1) * D + k) - 1
             /\ \A k \in 1..D : RuntimeRow(layout, (g - 1) * P + (W + D) + k - 1) = G * W + G * D + ((g - 1) * D + k) - 1
  BY RuntimeRowIs
<1>4. G * W \in Nat /\ G * D \in Nat
  BY <1>1
<1>5. r \in Nat
  BY <1>1, <1>4
<1>6. r \in 1..G * W \/ r - G * W \in 1..G * D \/ r - G * W - G * D \in 1..G * D
  BY <1>1, <1>4
<1> HIDE DEF W, D, G, P, forward
<1>7. CASE r \in 1..G * W
  <2>1. PICK g \in 1..G, k \in 1..W : r = (g - 1) * W + k
    BY <1>1, <1>7, PlaceOf
  <2>2. RuntimeRow(layout, forward[r]) = (g - 1) * W + k - 1
    BY <1>2, <1>3, <2>1, Zenon
  <2>3. (g - 1) * W + k - 1 = r - 1
    <3>1. g - 1 \in Nat /\ r \in Nat
      BY <1>1, <1>5
    <3>2. (g - 1) * W \in Nat
      BY <1>1, <3>1
    <3>3. QED
      BY <1>4, <2>1, <3>1, <3>2
  <2>4. QED
    BY ONLY <2>2, <2>3 DEF forward
<1>8. CASE r - G * W \in 1..G * D
  <2>1. PICK g \in 1..G, k \in 1..D : r - G * W = (g - 1) * D + k
    BY <1>1, <1>8, PlaceOf
  <2>2. r = G * W + ((g - 1) * D + k)
    BY <1>1, <1>4, <2>1
  <2>3. RuntimeRow(layout, forward[r]) = G * W + ((g - 1) * D + k) - 1
    BY <1>2, <1>3, <2>2, Zenon
  <2>4. G * W + ((g - 1) * D + k) - 1 = r - 1
    <3>1. g - 1 \in Nat /\ r \in Nat
      BY <1>1, <1>5
    <3>2. (g - 1) * D \in Nat
      BY <1>1, <3>1
    <3>3. QED
      BY <1>4, <2>2, <3>1, <3>2
  <2>5. QED
    BY ONLY <2>3, <2>4 DEF forward
<1>9. CASE r - G * W - G * D \in 1..G * D
  <2>1. PICK g \in 1..G, k \in 1..D : r - G * W - G * D = (g - 1) * D + k
    BY <1>1, <1>9, PlaceOf
  <2>2. r = G * W + G * D + ((g - 1) * D + k)
    BY <1>1, <1>4, <2>1
  <2>3. RuntimeRow(layout, forward[r]) = G * W + G * D + ((g - 1) * D + k) - 1
    BY <1>2, <1>3, <2>2, Zenon
  <2>4. G * W + G * D + ((g - 1) * D + k) - 1 = r - 1
    <3>1. g - 1 \in Nat /\ r \in Nat
      BY <1>1, <1>5
    <3>2. (g - 1) * D \in Nat
      BY <1>1, <3>1
    <3>3. QED
      BY <1>4, <2>2, <3>1, <3>2
  <2>5. QED
    BY ONLY <2>3, <2>4 DEF forward
<1>10. QED
  BY <1>6, <1>7, <1>8, <1>9

(* GroupedToQkv undoes RuntimeRow.                                         *)
LEMMA ForwardOfRuntimeRow ==
  ASSUME NEW layout \in Layouts, NEW i \in 1..QkvRows(layout)
  PROVE  /\ RuntimeRow(layout, i - 1) + 1 \in 1..QkvRows(layout)
         /\ GroupedToQkv(layout)[RuntimeRow(layout, i - 1) + 1] = i - 1
<1> DEFINE W == layout.heads * layout.dim
           D == layout.dim
           G == layout.groups
           P == PerGroup(layout)
           forward == GroupedToQkv(layout)
           place == RuntimeRow(layout, i - 1) + 1
<1>1. /\ W \in Nat \ {0} /\ D \in Nat \ {0} /\ G \in Nat \ {0} /\ P = W + 2 * D
      /\ QkvRows(layout) = G * W + G * D + G * D
  BY LayoutSizes
<1>2. /\ \A g \in 1..G, k \in 1..W : forward[(g - 1) * W + k] = (g - 1) * P + k - 1
      /\ \A g \in 1..G, k \in 1..D : forward[G * W + ((g - 1) * D + k)] = (g - 1) * P + W + k - 1
      /\ \A g \in 1..G, k \in 1..D : forward[G * W + G * D + ((g - 1) * D + k)] = (g - 1) * P + (W + D) + k - 1
  BY ForwardIs
<1>3. ASSUME NEW g \in 1..G
      PROVE  /\ \A k \in 1..W : RuntimeRow(layout, (g - 1) * P + k - 1) = (g - 1) * W + k - 1
             /\ \A k \in 1..D : RuntimeRow(layout, (g - 1) * P + W + k - 1) = G * W + ((g - 1) * D + k) - 1
             /\ \A k \in 1..D : RuntimeRow(layout, (g - 1) * P + (W + D) + k - 1) = G * W + G * D + ((g - 1) * D + k) - 1
  BY RuntimeRowIs
<1>4. G * W \in Nat /\ G * D \in Nat /\ P \in Nat \ {0} /\ QkvRows(layout) = G * P
  BY <1>1 DEF QkvRows
<1> HIDE DEF W, D, G, P, forward
<1>5. PICK g \in 1..G, k \in 1..P : i = (g - 1) * P + k
  <2>1. i \in 1..G * P
    BY <1>4
  <2>2. QED
    BY <1>1, <1>4, <2>1, PlaceOf
<1>6. k \in 1..W \/ k - W \in 1..D \/ k - W - D \in 1..D
  BY <1>1
<1>7. (g - 1) * P \in Nat /\ g - 1 \in Nat
  BY <1>4, <1>1
<1>8. CASE k \in 1..W
  <2>1. i - 1 = (g - 1) * P + k - 1
    BY <1>5, <1>7, <1>8
  <2>2. RuntimeRow(layout, i - 1) = (g - 1) * W + k - 1
    BY <1>3, <1>8, <2>1, Zenon
  <2>3. (g - 1) * W + k \in 1..G * W
    BY <1>1, <1>8, Place
  <2>4. place = (g - 1) * W + k
    BY <2>2, <2>3, <1>4, <1>1, <1>7, <1>8
  <2>5. forward[place] = i - 1
    BY <1>2, <1>8, <2>1, <2>4, Zenon
  <2>6. QED
    BY <1>1, <1>4, <2>3, <2>4, <2>5 DEF forward
<1>9. CASE k - W \in 1..D
  <2> DEFINE m == k - W
  <2>1. i - 1 = (g - 1) * P + W + m - 1 /\ m \in 1..D
    BY <1>1, <1>5, <1>7, <1>9
  <2> HIDE DEF m
  <2>2. RuntimeRow(layout, i - 1) = G * W + ((g - 1) * D + m) - 1
    BY <1>3, <2>1, Zenon
  <2>3. (g - 1) * D + m \in 1..G * D
    BY <1>1, <2>1, Place
  <2>4. place = G * W + ((g - 1) * D + m)
    BY <2>2, <2>3, <1>4
  <2>5. forward[place] = i - 1
    BY <1>2, <2>1, <2>4, Zenon
  <2>6. QED
    BY <1>1, <1>4, <2>3, <2>4, <2>5 DEF forward
<1>10. CASE k - W - D \in 1..D
  <2> DEFINE m == k - W - D
  <2>1. i - 1 = (g - 1) * P + (W + D) + m - 1 /\ m \in 1..D
    BY <1>1, <1>5, <1>7, <1>10
  <2> HIDE DEF m
  <2>2. RuntimeRow(layout, i - 1) = G * W + G * D + ((g - 1) * D + m) - 1
    BY <1>3, <2>1, Zenon
  <2>3. (g - 1) * D + m \in 1..G * D
    BY <1>1, <2>1, Place
  <2>4. place = G * W + G * D + ((g - 1) * D + m)
    BY <2>2, <2>3, <1>4
  <2>5. forward[place] = i - 1
    BY <1>2, <2>1, <2>4, Zenon
  <2>6. QED
    BY <1>1, <1>4, <2>3, <2>4, <2>5 DEF forward
<1>11. QED
  BY <1>6, <1>8, <1>9, <1>10

(* The two orders are inverse to one another, row by row. *)
LEMMA QkvRoundTrip ==
  ASSUME NEW layout \in Layouts
  PROVE  /\ QkvToGrouped(layout) \in Seq(Nat) /\ Len(QkvToGrouped(layout)) = QkvRows(layout)
         /\ \A i \in 1..QkvRows(layout) :
              /\ QkvToGrouped(layout)[i] = RuntimeRow(layout, i - 1)
              /\ QkvToGrouped(layout)[i] + 1 \in 1..QkvRows(layout)
              /\ GroupedToQkv(layout)[QkvToGrouped(layout)[i] + 1] = i - 1
<1> DEFINE N == QkvRows(layout)
           forward == GroupedToQkv(layout)
           at(i) == RuntimeRow(layout, i - 1)
           back == QkvToGrouped(layout)
<1>1. N \in Nat
  <2>1. layout.heads * layout.dim \in Nat /\ layout.dim \in Nat /\ layout.groups \in Nat
        /\ PerGroup(layout) = layout.heads * layout.dim + 2 * layout.dim
    BY LayoutSizes
  <2>2. QED
    BY <2>1 DEF QkvRows
<1>2. \A i \in 1..N : at(i) + 1 \in 1..N /\ forward[at(i) + 1] = i - 1
  BY ForwardOfRuntimeRow
<1>3. \A r \in 1..N : RuntimeRow(layout, forward[r]) = r - 1
  BY RuntimeRowOfForward
<1>4. back = [i \in 1..N |-> (CHOOSE r \in 1..N : forward[r] = i - 1) - 1]
  BY DEF QkvToGrouped
<1>5. ASSUME NEW i \in 1..N
      PROVE  back[i] = at(i) /\ at(i) \in Nat /\ at(i) + 1 \in 1..N /\ forward[at(i) + 1] = i - 1
  <2> DEFINE r == CHOOSE r \in 1..N : forward[r] = i - 1
  <2>1. r \in 1..N /\ forward[r] = i - 1
    BY <1>2
  <2>2. back[i] = r - 1
    BY <1>4
  <2> HIDE DEF r
  <2>3. at(i) = r - 1
    BY <1>3, <2>1
  <2>4. QED
    BY <1>1, <1>2, <2>1, <2>2, <2>3
<1> HIDE DEF N, forward
<1>6. back \in Seq(Nat) /\ Len(back) = N
  <2>1. back = [i \in 1..N |-> at(i)]
    <3>1. back = [i \in 1..N |-> back[i]]
      BY <1>4
    <3>2. QED
      BY <1>5, <3>1
  <2>2. QED
    BY <1>1, <1>5, <2>1
<1>7. QED
  BY <1>5, <1>6 DEF N, forward

-----------------------------------------------------------------------------
(* Sequences that are read in pieces.                                      *)

(* Elements a + 1 to b of a sequence.                                      *)
Piece(order, a, b) == [i \in 1..b - a |-> order[a + i]]

(* SubSeq is that piece.                                                   *)
LEMMA SubSeqIs ==
  ASSUME NEW S, NEW order \in Seq(S), NEW a \in 0..Len(order), NEW b \in a..Len(order)
  PROVE  SubSeq(order, a + 1, b) = Piece(order, a, b)
<1> DEFINE t == SubSeq(order, a + 1, b)
<1>1. t \in Seq(S) /\ Len(t) = b - a
  OBVIOUS
<1>2. \A i \in 1..b - a : t[i] = order[a + i]
  OBVIOUS
<1>3. t = [i \in 1..Len(t) |-> t[i]]
  BY <1>1
<1> HIDE DEF t
<1>4. QED
  BY <1>1, <1>2, <1>3 DEF Piece

(* The first N elements of order are elements of S.                        *)
Lists(order, S, N) == \A i \in 1..N : order[i] \in S

(* A piece is a sequence, as long as its places.                           *)
LEMMA PieceSeq ==
  ASSUME NEW S, NEW N \in Nat, NEW order, Lists(order, S, N), NEW a \in 0..N, NEW b \in a..N
  PROVE  Piece(order, a, b) \in Seq(S) /\ Len(Piece(order, a, b)) = b - a
<1> USE DEF Lists
<1>1. \A i \in 1..b - a : a + i \in 1..N
  OBVIOUS
<1>2. b - a \in Nat
  OBVIOUS
<1>3. QED
  BY <1>1, <1>2 DEF Piece

(* Two pieces, the second from where the first ends, are one.              *)
LEMMA PieceJoins ==
  ASSUME NEW order, NEW a \in Nat, NEW b \in Nat, NEW c \in Nat, a <= b, b <= c
  PROVE  Piece(order, a, b) \o Piece(order, b, c) = Piece(order, a, c)
<1> DEFINE e == [i \in Nat |-> order[a + i]]
           n == b - a
           m == c - b
<1>1. n \in Nat /\ m \in Nat /\ n + m = c - a
  OBVIOUS
<1>2. Piece(order, a, b) = [i \in 1..n |-> e[i]]
  BY <1>1 DEF Piece
<1>3. Piece(order, b, c) = [i \in 1..m |-> e[n + i]]
  <2>1. \A i \in 1..m : n + i \in Nat /\ a + (n + i) = b + i
    BY <1>1
  <2>2. \A i \in 1..m : e[n + i] = order[b + i]
    BY <2>1
  <2>3. QED
    BY <2>2 DEF Piece
<1>4. Piece(order, a, c) = [i \in 1..n + m |-> e[i]]
  BY <1>1 DEF Piece
<1>5. QED
  BY <1>1, <1>2, <1>3, <1>4, PrefixConcat

(* cut divides the places 0..N into n tiles, one after the other.          *)
Tiles(cut, n, N) ==
  /\ cut \in [0..n -> 0..N]
  /\ \A k \in 1..n : cut[k - 1] <= cut[k]

(* The pieces that a division cuts, in their order.                        *)
TilesOf(s, order, cut, n) ==
  s = [k \in 1..n |-> Piece(order, cut[k - 1], cut[k])]

(* The tiles of a sequence, put together, are the piece that they cover,   *)
(* for any number of them.                                                 *)
LEMMA FlattenTiles ==
  ASSUME NEW S, NEW N \in Nat, NEW order, Lists(order, S, N),
         NEW n \in Nat, NEW cut, Tiles(cut, n, N), NEW s, TilesOf(s, order, cut, n)
  PROVE  FlattenSeq(s) = Piece(order, cut[0], cut[n])
<1>0. /\ \A k \in 0..n : cut[k] \in 0..N
      /\ \A k \in 1..n : cut[k - 1] \in 0..N /\ cut[k] \in cut[k - 1]..N
  BY DEF Tiles
<1>1. \A k \in 1..n : s[k] = Piece(order, cut[k - 1], cut[k])
  BY DEF TilesOf
<1>2. SeqsOf(s, S, n)
  <2>1. \A k \in 1..n : s[k] \in Seq(S)
    BY <1>0, <1>1, PieceSeq
  <2>2. s = [k \in 1..n |-> s[k]]
    BY <1>1 DEF TilesOf
  <2>3. QED
    BY <2>1, <2>2 DEF SeqsOf
<1>3. PICK f : Gathers(f, S, s, n)
  BY <1>2, FlattenGathers
<1>4. f[0] = <<>> /\ f[n] = FlattenSeq(s) /\ \A i \in 1..n : f[i] = f[i - 1] \o s[i]
  BY <1>3 DEF Gathers
<1> DEFINE T == {m \in Nat : m <= n => cut[0] <= cut[m] /\ f[m] = Piece(order, cut[0], cut[m])}
<1>5. 0 \in T
  <2>1. cut[0] \in 0..N
    BY <1>0
  <2>2. Piece(order, cut[0], cut[0]) = <<>>
    BY <2>1 DEF Piece
  <2>3. QED
    BY <1>4, <2>1, <2>2
<1>6. ASSUME NEW m \in Nat, m \in T
      PROVE  m + 1 \in T
  <2> SUFFICES ASSUME m + 1 <= n
               PROVE  cut[0] <= cut[m + 1] /\ f[m + 1] = Piece(order, cut[0], cut[m + 1])
    OBVIOUS
  <2>1. m + 1 \in 1..n /\ (m + 1) - 1 = m /\ m <= n /\ m \in 0..n /\ 0 \in 0..n
    OBVIOUS
  <2>2. cut[0] \in 0..N /\ cut[m] \in 0..N /\ cut[m + 1] \in cut[m]..N
    BY <1>0, <2>1
  <2>3. cut[0] <= cut[m] /\ f[m] = Piece(order, cut[0], cut[m])
    BY <1>6, <2>1
  <2>4. f[m + 1] = Piece(order, cut[0], cut[m]) \o Piece(order, cut[m], cut[m + 1])
    BY <1>1, <1>4, <2>1, <2>3
  <2>5. Piece(order, cut[0], cut[m]) \o Piece(order, cut[m], cut[m + 1]) = Piece(order, cut[0], cut[m + 1])
    <3> DEFINE a == cut[0]  b == cut[m]  c == cut[m + 1]
    <3>1. a \in Nat /\ b \in Nat /\ c \in Nat /\ a <= b /\ b <= c
      BY <2>2, <2>3
    <3> HIDE DEF a, b, c
    <3>2. Piece(order, a, b) \o Piece(order, b, c) = Piece(order, a, c)
      BY <3>1, PieceJoins
    <3>3. QED
      BY <3>2 DEF a, b, c
  <2>6. QED
    BY <2>2, <2>3, <2>4, <2>5
<1> HIDE DEF T
<1>7. Nat \subseteq T
  BY <1>5, <1>6, Induction
<1>8. n \in T
  BY <1>7
<1>9. QED
  BY <1>4, <1>8 DEF T

(* So many chunks cover d, and none of them starts at or past its end.     *)
LEMMA CeilingDivision ==
  ASSUME NEW chunk \in Nat \ {0}, NEW d \in Nat, NEW n, n = (d + chunk - 1) \div chunk
  PROVE  n \in Nat /\ n * chunk >= d /\ \A k \in 1..n : (k - 1) * chunk < d
<1>1. n \in Nat
  OBVIOUS
<1>2. d + chunk - 1 = n * chunk + ((d + chunk - 1) % chunk) /\ (d + chunk - 1) % chunk \in 0..chunk - 1
  OBVIOUS
<1>3. n * chunk \in Nat
  BY <1>1
<1>4. n * chunk >= d
  BY <1>2, <1>3
<1>5. n * chunk < d + chunk
  BY <1>2, <1>3
<1>6. ASSUME NEW k \in 1..n
      PROVE  (k - 1) * chunk < d
  <2>1. (k - 1) * chunk \in Nat
    OBVIOUS
  <2>2. (k - 1) * chunk + chunk = k * chunk /\ k * chunk <= n * chunk
    BY <1>1
  <2>3. QED
    BY <1>3, <1>5, <2>1, <2>2
<1>7. QED
  BY <1>1, <1>4, <1>6

(* A row of the runtime order is a row of the base.                        *)
LEMMA ForwardInRange ==
  ASSUME NEW layout \in Layouts, NEW r \in 1..QkvRows(layout)
  PROVE  GroupedToQkv(layout)[r] + 1 \in 1..QkvRows(layout)
<1> DEFINE W == layout.heads * layout.dim
           D == layout.dim
           G == layout.groups
           P == PerGroup(layout)
           forward == GroupedToQkv(layout)
           N == QkvRows(layout)
<1>1. /\ W \in Nat \ {0} /\ D \in Nat \ {0} /\ G \in Nat \ {0} /\ P = W + 2 * D
      /\ N = G * W + G * D + G * D /\ N = G * P
  BY LayoutSizes DEF QkvRows
<1>2. /\ \A g \in 1..G, k \in 1..W : forward[(g - 1) * W + k] = (g - 1) * P + k - 1
      /\ \A g \in 1..G, k \in 1..D : forward[G * W + ((g - 1) * D + k)] = (g - 1) * P + W + k - 1
      /\ \A g \in 1..G, k \in 1..D : forward[G * W + G * D + ((g - 1) * D + k)] = (g - 1) * P + (W + D) + k - 1
  BY ForwardIs
<1>3. ASSUME NEW g \in 1..G, NEW k \in 1..P
      PROVE  (g - 1) * P + k \in 1..N /\ (g - 1) * P \in Nat
  <2> HIDE DEF W, D, G, P, N
  <2>1. P \in Nat /\ G \in Nat
    BY <1>1
  <2>2. (g - 1) * P + k \in 1..G * P
    BY <2>1, Place
  <2>3. (g - 1) * P \in Nat
    BY <2>1
  <2>4. QED
    BY <1>1, <2>2, <2>3
<1>4. G * W \in Nat /\ G * D \in Nat
  BY <1>1
<1>5. r \in 1..G * W \/ r - G * W \in 1..G * D \/ r - G * W - G * D \in 1..G * D
  BY <1>1, <1>4
<1> HIDE DEF W, D, G, P, forward, N
<1>6. CASE r \in 1..G * W
  <2>1. PICK g \in 1..G, k \in 1..W : r = (g - 1) * W + k
    BY <1>1, <1>6, PlaceOf
  <2>2. forward[r] = (g - 1) * P + k - 1
    BY <1>2, <2>1, Zenon
  <2>3. k \in 1..P
    BY <1>1
  <2>4. forward[r] + 1 \in 1..N
    BY <1>3, <2>2, <2>3
  <2>5. QED
    BY <2>4 DEF forward, N
<1>7. CASE r - G * W \in 1..G * D
  <2>1. PICK g \in 1..G, k \in 1..D : r - G * W = (g - 1) * D + k
    BY <1>1, <1>7, PlaceOf
  <2>2. r = G * W + ((g - 1) * D + k)
    BY <1>1, <1>4, <2>1
  <2>3. forward[r] = (g - 1) * P + W + k - 1
    BY <1>2, <2>2, Zenon
  <2>4. W + k \in 1..P
    BY <1>1
  <2>5. (g - 1) * P + (W + k) \in 1..N /\ (g - 1) * P \in Nat
    BY <1>3, <2>4
  <2>6. forward[r] + 1 \in 1..N
    BY <1>1, <2>3, <2>5
  <2>7. QED
    BY <2>6 DEF forward, N
<1>8. CASE r - G * W - G * D \in 1..G * D
  <2>1. PICK g \in 1..G, k \in 1..D : r - G * W - G * D = (g - 1) * D + k
    BY <1>1, <1>8, PlaceOf
  <2>2. r = G * W + G * D + ((g - 1) * D + k)
    BY <1>1, <1>4, <2>1
  <2>3. forward[r] = (g - 1) * P + (W + D) + k - 1
    BY <1>2, <2>2, Zenon
  <2>4. W + D + k \in 1..P
    BY <1>1
  <2>5. (g - 1) * P + (W + D + k) \in 1..N /\ (g - 1) * P \in Nat
    BY <1>3, <2>4
  <2>6. forward[r] + 1 \in 1..N
    BY <1>1, <2>3, <2>5
  <2>7. QED
    BY <2>6 DEF forward, N
<1>9. QED
  BY <1>5, <1>6, <1>7, <1>8
=============================================================================

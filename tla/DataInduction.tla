--------------------------- MODULE DataInduction ----------------------------
(***************************************************************************)
(* Induction and recursion over data, with predicates and steps given as   *)
(* sets and functions so that the facts can be cited, and what Retained    *)
(* returns for every sequence.                                             *)
(***************************************************************************)
EXTENDS Retention, WellFoundedInduction, SequenceTheorems, TLAPS

\* A set of naturals that is not empty has a least element.
LEMMA LeastElement ==
  ASSUME NEW T, T \subseteq Nat, T # {}
  PROVE  \E x \in T : \A y \in T : x <= y
<1> DEFINE R == {p \in Nat \X Nat : p[1] < p[2]}
<1>1. IsWellFoundedOn(R, Nat)
  BY NatLessThanWellFounded DEF OpToRel
<1> HIDE DEF R
<1>2. PICK x \in T : \A y \in T : <<y, x>> \notin R
  BY <1>1, WFMin, Zenon
<1>3. ASSUME NEW y \in T  PROVE x <= y
  <2>1. <<y, x>> \in Nat \X Nat
    BY SMT
  <2>2. ~(y < x)
    BY <1>2, <2>1 DEF R
  <2> QED BY <2>2
<1> QED BY <1>3

\* Induction over the naturals, for a predicate given as a set.
LEMMA SetInduction ==
  ASSUME NEW T, 0 \in T, \A n \in Nat : n \in T => n + 1 \in T
  PROVE  Nat \subseteq T
<1>1. SUFFICES ASSUME Nat \ T # {}  PROVE FALSE
  OBVIOUS
<1>2. PICK x \in Nat \ T : \A y \in Nat \ T : x <= y
  BY <1>1, LeastElement
<1>3. x # 0 /\ x - 1 \in Nat
  BY <1>2
<1>4. x - 1 \in T
  BY <1>2, <1>3
<1> QED BY <1>2, <1>3, <1>4

\* A function defined by recursion on 0..n exists: it begins with base and makes one
\* step for each i.
LEMMA Recursion ==
  ASSUME NEW S, NEW base \in S, NEW n \in Nat, NEW step \in [1..n -> [S -> S]]
  PROVE  \E f \in [0..n -> S] : f[0] = base /\ \A i \in 1..n : f[i] = step[i][f[i - 1]]
<1> DEFINE Upto(k, f) == f[0] = base /\ \A i \in 1..k : f[i] = step[i][f[i - 1]]
           T == {k \in Nat : k <= n => \E f \in [0..k -> S] : Upto(k, f)}
<1>1. 0 \in T
  <2>1. [i \in 0..0 |-> base] \in [0..0 -> S] /\ Upto(0, [i \in 0..0 |-> base])
    OBVIOUS
  <2> QED BY <2>1
<1>2. ASSUME NEW k \in Nat, k \in T  PROVE k + 1 \in T
  <2>0. k + 1 \in Nat
    BY SMT
  <2>1. SUFFICES ASSUME k + 1 <= n  PROVE \E f \in [0..(k + 1) -> S] : Upto(k + 1, f)
    BY <2>0, Zenon
  <2>2. PICK g \in [0..k -> S] : Upto(k, g)
    BY <1>2, <2>1
  <2> DEFINE f == [i \in 0..(k + 1) |-> IF i <= k THEN g[i] ELSE step[k + 1][g[k]]]
  <2>3. step[k + 1][g[k]] \in S
    BY <2>1, <2>2
  <2>4. f \in [0..(k + 1) -> S]
    BY <2>2, <2>3
  <2>5. f[0] = base
    BY <2>2
  <2>6. ASSUME NEW i \in 1..(k + 1)  PROVE f[i] = step[i][f[i - 1]]
    <3>1. CASE i <= k
      BY <2>2, <3>1
    <3>2. CASE i = k + 1
      BY <2>2, <3>2
    <3> QED BY <3>1, <3>2
  <2> QED BY <2>4, <2>5, <2>6
<1> HIDE DEF T
<1>3. n \in T
  BY <1>1, <1>2, SetInduction
<1> QED BY <1>3 DEF T

-----------------------------------------------------------------------------
(* Retained.                                                               *)

\* r lists the elements of seq at the positions in keep up to i, in their order: pos
\* gives the position of each.
Places(pos, r, seq, keep, i) ==
  /\ pos \in [1..Len(r) -> keep \cap (1..i)]
  /\ \A j, k \in 1..Len(r) : j < k => pos[j] < pos[k]
  /\ \A j \in 1..Len(r) : r[j] = seq[pos[j]]
  /\ \A p \in keep \cap (1..i) : \E j \in 1..Len(r) : pos[j] = p

Lists(r, seq, keep, i) == \E pos : Places(pos, r, seq, keep, i)

\* What is retained is computed by the recursion its definition writes down.
LEMMA RetainedDef ==
  ASSUME NEW S, NEW seq \in Seq(S), NEW keep
  PROVE  \E f : /\ f[0] = <<>>
                /\ \A i \in 1..Len(seq) :
                     f[i] = IF i \in keep THEN Append(f[i - 1], seq[i]) ELSE f[i - 1]
                /\ Retained(seq, keep) = f[Len(seq)]
<1> DEFINE n == Len(seq)
           Body(f) == [i \in 0..n |-> IF i = 0 THEN <<>>
                       ELSE IF i \in keep THEN Append(f[i - 1], seq[i]) ELSE f[i - 1]]
           upto == CHOOSE f : f = Body(f)
           Grown(i, r) == IF i \in keep THEN Append(r, seq[i]) ELSE r
           step == [i \in 1..n |-> [r \in Seq(S) |-> Grown(i, r)]]
<1>1. n \in Nat /\ \A i \in 1..n : seq[i] \in S
  OBVIOUS
<1>2. Retained(seq, keep) = upto[n]
  BY Zenon DEF Retained
<1>3. <<>> \in Seq(S)
  OBVIOUS
<1> HIDE DEF n
<1>4. \A i \in 1..n : \A r \in Seq(S) : Grown(i, r) \in Seq(S)
  BY <1>1
<1> HIDE DEF Grown
<1>5. step \in [1..n -> [Seq(S) -> Seq(S)]]
  BY <1>4
<1>6. \A i \in 1..n : \A r \in Seq(S) : step[i][r] = Grown(i, r)
  OBVIOUS
<1> HIDE DEF step
<1>7. PICK g \in [0..n -> Seq(S)] : g[0] = <<>> /\ \A i \in 1..n : g[i] = step[i][g[i - 1]]
  <2> DEFINE Q == Seq(S) base == <<>>
  <2>1. n \in Nat /\ base \in Q /\ step \in [1..n -> [Q -> Q]]
    BY <1>1, <1>3, <1>5
  <2> HIDE DEF Q, base
  <2>2. \E g \in [0..n -> Q] : g[0] = base /\ \A i \in 1..n : g[i] = step[i][g[i - 1]]
    BY <2>1, Recursion
  <2> QED BY <2>2 DEF Q, base
<1>8. \A i \in 1..n : i - 1 \in 0..n
  BY <1>1
<1>9. \A i \in 1..n : g[i] = Grown(i, g[i - 1])
  BY <1>6, <1>7, <1>8
<1>10. g = Body(g)
  <2>1. \A i \in 0..n : Body(g)[i] = g[i]
    <3>1. Body(g)[0] = g[0]
      BY <1>1, <1>7
    <3>2. ASSUME NEW i \in 1..n  PROVE Body(g)[i] = g[i]
      <4>1. i \in 0..n /\ i # 0
        BY <1>1
      <4>2. g[i] = Grown(i, g[i - 1])
        BY <1>9
      <4> QED BY <4>1, <4>2 DEF Grown
    <3>3. \A i \in 0..n : i = 0 \/ i \in 1..n
      BY <1>1
    <3> QED BY <3>1, <3>2, <3>3
  <2>2. DOMAIN Body(g) = 0..n /\ Body(g) = [i \in 0..n |-> Body(g)[i]]
    OBVIOUS
  <2> HIDE DEF Body
  <2> QED BY <1>7, <2>1, <2>2
<1>11. upto = Body(upto)
  <2> HIDE DEF Body
  <2> QED BY <1>10, Zenon
<1> HIDE DEF upto
<1>12. upto[0] = <<>>
  BY <1>1, <1>11
<1>13. ASSUME NEW i \in 1..n
       PROVE  upto[i] = IF i \in keep THEN Append(upto[i - 1], seq[i]) ELSE upto[i - 1]
  <2>1. i \in 0..n /\ i # 0
    BY <1>1
  <2>2. upto[i] = Body(upto)[i]
    BY <1>11, Zenon
  <2> QED BY <2>1, <2>2
<1> QED BY <1>2, <1>12, <1>13, Zenon DEF n

\* What is retained has the retained elements in their order, and no more.
LEMMA RetainedFacts ==
  ASSUME NEW S, NEW seq \in Seq(S), NEW keep
  PROVE  /\ Retained(seq, keep) \in Seq(S)
         /\ Len(Retained(seq, keep)) <= Len(seq)
         /\ Lists(Retained(seq, keep), seq, keep, Len(seq))
<1> DEFINE n == Len(seq)
<1>1. n \in Nat /\ \A i \in 1..n : seq[i] \in S
  OBVIOUS
<1>2. PICK upto : /\ upto[0] = <<>>
                  /\ \A i \in 1..n :
                       upto[i] = IF i \in keep THEN Append(upto[i - 1], seq[i]) ELSE upto[i - 1]
                  /\ Retained(seq, keep) = upto[n]
  BY RetainedDef
<1> DEFINE T == {i \in Nat : i <= n => /\ upto[i] \in Seq(S) /\ Len(upto[i]) <= i
                                       /\ Lists(upto[i], seq, keep, i)}
<1> HIDE DEF n
<1>3. 0 \in T
  <2>1. Lists(<<>>, seq, keep, 0)
    <3>1. Places(<<>>, <<>>, seq, keep, 0)
      BY DEF Places
    <3> QED BY <3>1, Zenon DEF Lists
  <2>2. upto[0] \in Seq(S) /\ Len(upto[0]) <= 0
    BY <1>2
  <2>3. Lists(upto[0], seq, keep, 0)
    BY <1>2, <2>1, Zenon
  <2> QED BY <2>2, <2>3
<1>4. ASSUME NEW i \in Nat, i \in T  PROVE i + 1 \in T
  <2>1. SUFFICES ASSUME i + 1 <= n
                 PROVE  /\ upto[i + 1] \in Seq(S) /\ Len(upto[i + 1]) <= i + 1
                        /\ Lists(upto[i + 1], seq, keep, i + 1)
    OBVIOUS
  <2>2. upto[i] \in Seq(S) /\ Len(upto[i]) <= i /\ Lists(upto[i], seq, keep, i)
    BY <1>1, <1>4, <2>1
  <2>a. i + 1 \in 1..n /\ (i + 1) - 1 = i /\ seq[i + 1] \in S
    BY <1>1, <2>1
  <2>3. PICK pos : Places(pos, upto[i], seq, keep, i)
    BY <2>2, Zenon DEF Lists
  <2>4. CASE i + 1 \notin keep
    <3>1. upto[i + 1] = upto[i]
      BY <1>2, <2>a, <2>4
    <3>2. keep \cap (1..(i + 1)) = keep \cap (1..i)
      BY <2>4
    <3>3. Lists(upto[i], seq, keep, i + 1)
      <4>1. Places(pos, upto[i], seq, keep, i + 1)
        BY <2>3, <3>2, Zenon DEF Places
      <4> QED BY <4>1, Zenon DEF Lists
    <3>4. upto[i] \in Seq(S) /\ Len(upto[i]) <= i + 1
      BY <2>2
    <3> QED BY <3>1, <3>3, <3>4, Zenon
  <2>5. CASE i + 1 \in keep
    <3> DEFINE r == upto[i] m == Len(r)
    <3>1. upto[i + 1] = Append(r, seq[i + 1])
      BY <1>2, <2>a, <2>5
    <3>2. /\ m \in Nat /\ upto[i + 1] \in Seq(S) /\ Len(upto[i + 1]) = m + 1
          /\ \A j \in 1..m : upto[i + 1][j] = r[j]
          /\ upto[i + 1][m + 1] = seq[i + 1]
      BY <2>2, <2>a, <3>1, AppendProperties
    <3> DEFINE next == [j \in 1..(m + 1) |-> IF j <= m THEN pos[j] ELSE i + 1]
    <3> HIDE DEF r, m
    <3>3. /\ pos \in [1..m -> keep \cap (1..i)]
          /\ \A j, k \in 1..m : j < k => pos[j] < pos[k]
          /\ \A j \in 1..m : r[j] = seq[pos[j]]
          /\ \A p \in keep \cap (1..i) : \E j \in 1..m : pos[j] = p
      BY <2>3, Zenon DEF r, m, Places
    <3>4. next \in [1..(m + 1) -> keep \cap (1..(i + 1))]
      BY <2>5, <3>2, <3>3
    <3>5. \A j, k \in 1..(m + 1) : j < k => next[j] < next[k]
      <4>1. SUFFICES ASSUME NEW j \in 1..(m + 1), NEW k \in 1..(m + 1), j < k
                     PROVE  next[j] < next[k]
        OBVIOUS
      <4>2. j \in 1..m /\ pos[j] \in 1..i
        BY <3>2, <3>3, <4>1
      <4>3. CASE k <= m
        BY <3>2, <3>3, <4>1, <4>2, <4>3
      <4>4. CASE k = m + 1
        BY <3>2, <4>2, <4>4
      <4> QED BY <3>2, <4>3, <4>4
    <3>6. \A j \in 1..(m + 1) : upto[i + 1][j] = seq[next[j]]
      BY <3>2, <3>3
    <3>7. \A p \in keep \cap (1..(i + 1)) : \E j \in 1..(m + 1) : next[j] = p
      <4>1. ASSUME NEW p \in keep \cap (1..i)  PROVE \E j \in 1..(m + 1) : next[j] = p
        <5>1. PICK j \in 1..m : pos[j] = p
          BY <3>3
        <5> QED BY <3>2, <5>1
      <4>2. next[m + 1] = i + 1 /\ m + 1 \in 1..(m + 1)
        BY <3>2
      <4> QED BY <4>1, <4>2
    <3>8. Len(upto[i + 1]) <= i + 1
      BY <2>2, <3>2 DEF r, m
    <3> HIDE DEF next
    <3>9. Places(next, upto[i + 1], seq, keep, i + 1)
      BY <3>2, <3>4, <3>5, <3>6, <3>7, Zenon DEF Places
    <3> QED BY <3>2, <3>8, <3>9, Zenon DEF Lists
  <2> QED BY <2>4, <2>5
<1> HIDE DEF T
<1>5. n \in T
  BY <1>1, <1>3, <1>4, SetInduction
<1> QED BY <1>1, <1>2, <1>5 DEF T, n

\* The elements of r are those of seq at the positions in keep.
Elements(r, seq, keep) ==
  \A x : (\E i \in DOMAIN r : r[i] = x) <=> (\E i \in keep : seq[i] = x)

LEMMA RetainedElements ==
  ASSUME NEW S, NEW seq \in Seq(S), NEW keep, keep \subseteq DOMAIN seq
  PROVE  /\ Retained(seq, keep) \in Seq(S)
         /\ Elements(Retained(seq, keep), seq, keep)
<1> DEFINE r == Retained(seq, keep)
<1>1. r \in Seq(S) /\ Lists(r, seq, keep, Len(seq))
  BY RetainedFacts
<1> HIDE DEF r
<1>2. PICK pos : Places(pos, r, seq, keep, Len(seq))
  BY <1>1, Zenon DEF Lists
<1>3. keep \cap (1..Len(seq)) = keep /\ DOMAIN r = 1..Len(r)
  BY <1>1
<1>4. /\ pos \in [1..Len(r) -> keep]
      /\ \A j \in 1..Len(r) : r[j] = seq[pos[j]]
      /\ \A p \in keep : \E j \in 1..Len(r) : pos[j] = p
  BY <1>2, <1>3, Zenon DEF Places
<1>5. Elements(r, seq, keep)
  BY <1>3, <1>4, SMTT(30) DEF Elements
<1> QED BY <1>1, <1>5 DEF r
=============================================================================

---------------------------- MODULE ProofLemmas ----------------------------
(***************************************************************************)
(* Facts about finite sets, natural numbers, recursive functions and       *)
(* sequences that the proofs of several components need.  A property of    *)
(* numbers is a set here, the numbers that have it, so that a proof by     *)
(* induction can name it.                                                  *)
(***************************************************************************)
EXTENDS Integers, Selection, Functions, FiniteSetTheorems, TLAPS

(* A finite set of integers that is not empty has a largest element.  By   *)
(* well-foundedness of strict inclusion, a set without one that is minimal *)
(* would lose the property with any of its elements.                       *)
LEMMA MaxExists ==
    ASSUME NEW S \in SUBSET Int, IsFiniteSet(S), S # {}
    PROVE  \E x \in S : \A y \in S : x >= y
PROOF
<1> DEFINE HasMax(A) == \E x \in A : \A y \in A : x >= y
           Bad == {A \in FiniteSubsetsOf(S) : A # {} /\ ~HasMax(A)}
<1>1. SUFFICES ASSUME Bad # {} PROVE FALSE
  <2>1. S \in FiniteSubsetsOf(S)
    BY DEF FiniteSubsetsOf
  <2> QED
    BY <2>1
<1>2. PICK A \in Bad : \A B \in Bad : <<B, A>> \notin StrictSubsetOrdering(S)
  <2>1. Bad \subseteq FiniteSubsetsOf(S)
    OBVIOUS
  <2> QED
    BY <1>1, <2>1, FS_StrictSubsetOrderingWellFounded, WFMin
<1>3. A \in SUBSET S /\ IsFiniteSet(A) /\ A # {} /\ ~HasMax(A)
  BY DEF FiniteSubsetsOf
<1>4. PICK x \in A : TRUE
  BY <1>3
<1> DEFINE B == A \ {x}
<1>5. B \in SUBSET S /\ IsFiniteSet(B) /\ B # A
  BY <1>3, <1>4, FS_RemoveElement
<1>6. <<B, A>> \in StrictSubsetOrdering(S)
  BY <1>3, <1>5 DEF StrictSubsetOrdering
<1>7. B = {} \/ HasMax(B)
  BY <1>2, <1>5, <1>6 DEF FiniteSubsetsOf
<1>8. CASE B = {}
  BY <1>3, <1>4, <1>8
<1>9. CASE HasMax(B)
  <2>1. PICK m \in B : \A y \in B : m >= y
    BY <1>9
  <2>2. x \in Int /\ m \in Int /\ A \subseteq Int
    BY <1>3, <1>4, <2>1
  <2>3. CASE x >= m
    <3>1. \A y \in A : x >= y
      BY <2>1, <2>2, <2>3
    <3> QED
      BY <1>3, <1>4, <3>1
  <2>4. CASE ~(x >= m)
    <3>1. \A y \in A : m >= y
      BY <2>1, <2>2, <2>4
    <3> QED
      BY <1>3, <2>1, <3>1
  <2> QED
    BY <2>3, <2>4
<1> QED
  BY <1>7, <1>8, <1>9

(* Induction up to N: of the prefixes of 0..N that lie in P the longest is *)
(* all of it.                                                              *)
LEMMA InductionUpTo ==
    ASSUME NEW N \in Nat, NEW P,
           0 \in P, \A n \in 1..N : n - 1 \in P => n \in P
    PROVE  \A n \in 0..N : n \in P
PROOF
<1> DEFINE G == {m \in 0..N : \A k \in 0..m : k \in P}
<1>1. G \in SUBSET Int /\ 0 \in G
  OBVIOUS
<1>2. IsFiniteSet(G)
  <2>1. IsFiniteSet(0..N) /\ G \in SUBSET (0..N)
    BY FS_Interval
  <2> HIDE DEF G
  <2> QED
    BY <2>1, FS_Subset
<1>3. PICK x \in G : \A y \in G : x >= y
  BY <1>1, <1>2, MaxExists
<1>4. ASSUME x # N PROVE FALSE
  <2>1. x + 1 \in 1..N /\ x \in P /\ (x + 1) - 1 = x
    BY <1>3, <1>4
  <2>2. x + 1 \in P
    BY <2>1
  <2>3. x + 1 \in G
    BY <1>3, <2>1, <2>2
  <2> QED
    BY <1>3, <2>3
<1> QED
  BY <1>3, <1>4

(* A recursive function over 0..N exists, whatever the step: there is one  *)
(* over each 0..n, and the next one extends it.                            *)
Steps(N, S) == [S \X (1..N) -> S]
Unfolds(f, N, S, first, h) ==
    /\ f \in [0..N -> S] /\ f[0] = first
    /\ \A n \in 1..N : f[n] = h[<<f[n - 1], n>>]
(* There is a function with a given first value and a given step.          *)
LEMMA RecursionExists ==
    ASSUME NEW N \in Nat, NEW S, NEW first \in S, NEW h \in Steps(N, S)
    PROVE  \E f : Unfolds(f, N, S, first, h)
PROOF
<1> DEFINE Fits(f, m) ==
               /\ f \in [0..m -> S] /\ f[0] = first
               /\ \A n \in 1..m : f[n] = h[<<f[n - 1], n>>]
           P == {m \in 0..N : \E f : Fits(f, m)}
<1> USE DEF Steps
<1>1. 0 \in P
  <2>1. Fits([n \in 0..0 |-> first], 0)
    OBVIOUS
  <2> HIDE DEF Fits
  <2> QED
    BY <2>1
<1>2. ASSUME NEW m \in 1..N, m - 1 \in P PROVE m \in P
  <2>1. PICK f : Fits(f, m - 1)
    BY <1>2
  <2> DEFINE g == [n \in 0..m |-> IF n = m THEN h[<<f[m - 1], m>>] ELSE f[n]]
  <2>2. h[<<f[m - 1], m>>] \in S
    BY <2>1
  <2>3. g \in [0..m -> S]
    BY <2>1, <2>2
  <2>4. g[0] = first
    BY <2>1
  <2>5. ASSUME NEW n \in 1..m PROVE g[n] = h[<<g[n - 1], n>>]
    <3>1. g[n - 1] = f[n - 1] /\ n \in 0..m
      OBVIOUS
    <3>2. CASE n = m
      BY <2>1, <3>1, <3>2
    <3>3. CASE n # m
      BY <2>1, <3>1, <3>3
    <3> QED
      BY <3>2, <3>3
  <2>6. Fits(g, m)
    BY <2>3, <2>4, <2>5
  <2> HIDE DEF Fits, g
  <2> QED
    BY <2>6
<1>3. \A n \in 0..N : n \in P
  <2> HIDE DEF P
  <2> QED
    BY <1>1, <1>2, InductionUpTo
<1>4. PICK f : Fits(f, N)
  BY <1>3
<1> QED
  BY <1>4 DEF Unfolds

-----------------------------------------------------------------------------
(* What a sequence has in it, when it grows at its end.                   *)
LEMMA AppendRange ==
    ASSUME NEW S, NEW s \in Seq(S), NEW x \in S
    PROVE  /\ Append(s, x) \in Seq(S)
           /\ Range(Append(s, x)) = Range(s) \cup {x}
           /\ IsInjective(s) /\ x \notin Range(s) => IsInjective(Append(s, x))
PROOF
<1>1. Append(s, x) \in Seq(S)
  OBVIOUS
<1>2. /\ DOMAIN s = 1..Len(s) /\ DOMAIN Append(s, x) = 1..(Len(s) + 1) /\ Len(s) \in Nat
      /\ \A i \in 1..Len(s) : Append(s, x)[i] = s[i]
      /\ Append(s, x)[Len(s) + 1] = x
  OBVIOUS
<1>3. 1..(Len(s) + 1) = 1..Len(s) \cup {Len(s) + 1}
  BY <1>2
<1>4. Range(Append(s, x)) = Range(s) \cup {x}
  BY <1>2, <1>3 DEF Range
<1>5. IsInjective(s) /\ x \notin Range(s) => IsInjective(Append(s, x))
  BY <1>2, <1>3 DEF Range, IsInjective
<1> QED
  BY <1>1, <1>4, <1>5

(* What a sequence has in it, when another is put after it.                *)
LEMMA ConcatRange ==
    ASSUME NEW S, NEW s \in Seq(S), NEW u \in Seq(S)
    PROVE  /\ s \o u \in Seq(S)
           /\ Len(s \o u) = Len(s) + Len(u)
           /\ \A i \in 1..Len(s) : (s \o u)[i] = s[i]
           /\ \A i \in 1..Len(s \o u) : i > Len(s) => (s \o u)[i] \in Range(u)
           /\ Range(s \o u) = Range(s) \cup Range(u)
           /\ IsInjective(s) /\ IsInjective(u) /\ Range(s) \cap Range(u) = {}
                => IsInjective(s \o u)
PROOF
<1>1. /\ s \o u \in Seq(S) /\ Len(s \o u) = Len(s) + Len(u)
      /\ Len(s) \in Nat /\ Len(u) \in Nat
      /\ DOMAIN s = 1..Len(s) /\ DOMAIN u = 1..Len(u)
      /\ DOMAIN (s \o u) = 1..(Len(s) + Len(u))
  OBVIOUS
<1>2. \A i \in 1..Len(s) : (s \o u)[i] = s[i]
  OBVIOUS
<1>3. \A i \in 1..Len(s) + Len(u) : i > Len(s) => (s \o u)[i] = u[i - Len(s)]
  OBVIOUS
<1> DEFINE c == s \o u
<1>4. \A i \in 1..Len(c) : i > Len(s) => c[i] \in Range(u)
  BY <1>1, <1>3 DEF Range
<1>5. ASSUME NEW j \in 1..Len(u) PROVE Len(s) + j \in DOMAIN c /\ c[Len(s) + j] = u[j]
  <2>1. Len(s) + j \in 1..Len(s) + Len(u) /\ Len(s) + j > Len(s) /\ (Len(s) + j) - Len(s) = j
    BY <1>1
  <2> QED
    BY <1>1, <1>3, <2>1
<1>6. Range(c) = Range(s) \cup Range(u)
  <2> HIDE DEF c
  <2>1. Range(s) \subseteq Range(c)
    BY <1>1, <1>2 DEF Range, c
  <2>2. Range(u) \subseteq Range(c)
    BY <1>1, <1>5 DEF Range
  <2>3. Range(c) \subseteq Range(s) \cup Range(u)
    BY <1>1, <1>2, <1>4 DEF Range, c
  <2> QED
    BY <2>1, <2>2, <2>3
<1>7. ASSUME IsInjective(s), IsInjective(u), Range(s) \cap Range(u) = {}
      PROVE  IsInjective(c)
  <2> SUFFICES ASSUME NEW i \in 1..Len(s) + Len(u), NEW j \in 1..Len(s) + Len(u),
                      c[i] = c[j]
               PROVE  i = j
    BY <1>1 DEF IsInjective
  <2>1. CASE i <= Len(s) /\ j <= Len(s)
    BY <1>1, <1>2, <1>7, <2>1 DEF IsInjective
  <2>2. CASE i > Len(s) /\ j > Len(s)
    <3>1. u[i - Len(s)] = u[j - Len(s)] /\ i - Len(s) \in 1..Len(u) /\ j - Len(s) \in 1..Len(u)
      BY <1>1, <1>3, <2>2
    <3>2. i - Len(s) = j - Len(s)
      BY <1>1, <1>7, <3>1 DEF IsInjective
    <3> QED
      BY <1>1, <3>2
  <2>3. \A k \in 1..Len(s) + Len(u) : IF k <= Len(s) THEN c[k] \in Range(s) ELSE c[k] \in Range(u)
    <3> TAKE k \in 1..Len(s) + Len(u)
    <3>1. CASE k <= Len(s)
      BY <1>1, <1>2, <3>1 DEF Range
    <3>2. CASE k > Len(s)
      BY <1>1, <1>4, <3>2
    <3> QED
      BY <1>1, <3>1, <3>2
  <2> QED
    BY <1>1, <1>7, <2>1, <2>2, <2>3
<1> QED
  BY <1>1, <1>2, <1>4, <1>6, <1>7

(* A sequence whose elements lie in a set is one over that set.            *)
LEMMA SeqOver ==
    ASSUME NEW S, NEW s \in Seq(S), NEW T, Range(s) \subseteq T
    PROVE  s \in Seq(T)
PROOF
<1>1. /\ Len(s) \in Nat /\ DOMAIN s = 1..Len(s) /\ s = [i \in 1..Len(s) |-> s[i]]
      /\ \A i \in 1..Len(s) : s[i] \in T
  BY DEF Range
<1> QED
  BY <1>1

(* Taken keeps what it selects, nothing else, and repeats nothing.         *)
LEMMA TakenKeeps ==
    ASSUME NEW S, NEW q \in Seq(S), NEW ts
    PROVE  /\ Taken(q, ts) \in Seq(S)
           /\ Range(Taken(q, ts)) = Range(q) \cap ts
           /\ IsInjective(q) => IsInjective(Taken(q, ts))
PROOF
<1>1. PICK N : N \in Nat /\ N = Len(q) /\ DOMAIN q = 1..N
  OBVIOUS
<1>2. N \in Nat
  BY <1>1
<1>3. \A n \in 1..N : q[n] \in S
  BY <1>1
<1> DEFINE Longer(x, n) == IF q[n] \in ts THEN Append(x, q[n]) ELSE x
           none == <<>>
           Step(k) == [n \in 0..N |-> IF n = 0 THEN none ELSE Longer(k[n - 1], n)]
           kept == CHOOSE k : k = Step(k)
           Upto(n) == {q[i] : i \in 1..n} \cap ts
           Good(s, n) == /\ s \in Seq(S) /\ Range(s) = Upto(n)
                         /\ IsInjective(q) => IsInjective(s)
           P == {n \in 0..N : Good(kept[n], n)}
<1>4. Taken(q, ts) = kept[N]
  BY <1>1 DEF Taken
<1>5. /\ none \in Seq(S) /\ Range(none) = {} /\ IsInjective(none)
      /\ \A x \in Seq(S), n \in 1..N : Longer(x, n) \in Seq(S)
  BY <1>2, <1>3 DEF Range, IsInjective
<1> HIDE DEF Longer, none
<1>6. \E k : k = Step(k)
  <2> DEFINE h == [x \in Seq(S) \X (1..N) |-> Longer(x[1], x[2])]
  <2>1. h \in Steps(N, Seq(S))
    BY <1>5 DEF Steps
  <2>2. \A x \in Seq(S), n \in 1..N : h[<<x, n>>] = Longer(x, n)
    OBVIOUS
  <2> HIDE DEF h
  <2>3. PICK f : Unfolds(f, N, Seq(S), none, h)
    BY <1>2, <1>5, <2>1, RecursionExists
  <2>4. /\ f \in [0..N -> Seq(S)] /\ f[0] = none
        /\ \A n \in 1..N : f[n] = h[<<f[n - 1], n>>]
    BY <2>3 DEF Unfolds
  <2>5. \A n \in 1..N : f[n - 1] \in Seq(S)
    BY <1>2, <2>4
  <2>6. \A n \in 1..N : f[n] = Longer(f[n - 1], n)
    BY <2>2, <2>4, <2>5
  <2>7. f = Step(f)
    BY <1>2, <2>4, <2>6
  <2> QED
    BY <2>7
<1>7. kept = Step(kept)
  <2> HIDE DEF Step
  <2> QED
    BY <1>6
<1> HIDE DEF kept
<1>8. kept[0] = none /\ \A n \in 1..N : kept[n] = Longer(kept[n - 1], n)
  BY <1>2, <1>7
<1>9. 0 \in P
  BY <1>2, <1>5, <1>8
<1>10. ASSUME NEW n \in 1..N, n - 1 \in P PROVE n \in P
  <2>1. Good(kept[n - 1], n - 1) /\ n \in 0..N
    BY <1>2, <1>10
  <2>2. Upto(n) = Upto(n - 1) \cup ({q[n]} \cap ts)
    BY <1>2
  <2>3. q[n] \in S /\ kept[n] = Longer(kept[n - 1], n)
    BY <1>3, <1>8
  <2>4. IsInjective(q) => q[n] \notin Upto(n - 1)
    BY <1>1 DEF IsInjective
  <2> HIDE DEF Upto
  <2>5. ASSUME q[n] \in ts PROVE Good(kept[n], n)
    <3>1. kept[n] = Append(kept[n - 1], q[n])
      BY <2>3, <2>5 DEF Longer
    <3>2. /\ kept[n] \in Seq(S) /\ Range(kept[n]) = Range(kept[n - 1]) \cup {q[n]}
          /\ IsInjective(kept[n - 1]) /\ q[n] \notin Range(kept[n - 1])
                => IsInjective(kept[n])
      BY <2>1, <2>3, <3>1, AppendRange
    <3> QED
      BY <2>1, <2>2, <2>4, <2>5, <3>2
  <2>6. ASSUME q[n] \notin ts PROVE Good(kept[n], n)
    BY <2>1, <2>2, <2>3, <2>6 DEF Longer
  <2> QED
    BY <2>1, <2>5, <2>6
<1>11. \A n \in 0..N : n \in P
  <2> HIDE DEF P
  <2> QED
    BY <1>2, <1>9, <1>10, InductionUpTo
<1>12. Good(kept[N], N)
  <2> HIDE DEF Good
  <2> QED
    BY <1>2, <1>11
<1>13. Upto(N) = Range(q) \cap ts
  BY <1>1 DEF Range
<1> QED
  BY <1>4, <1>12, <1>13
=============================================================================

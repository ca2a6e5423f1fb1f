---------------------------- MODULE FoldTheorems ----------------------------
(***************************************************************************)
(* What FoldLeft computes, for one operator Op, whose first argument is the *)
(* same all through the fold: a module that folds with an operator of its   *)
(* own instantiates this one with it and cites FoldEmpty and FoldAppend.    *)
(*                                                                         *)
(* FoldLeft is a function on the subsets of the domain, given by CHOOSE; it *)
(* has to be shown that there is one (IterExists), and that the choice does *)
(* not matter (IterAgree), both by induction on natural numbers, which here *)
(* is the existence of a least counterexample (Least).                      *)
(***************************************************************************)
EXTENDS Integers, SequencesExt, WellFoundedInduction, TLAPS

CONSTANT Op(_, _, _)

LEMMA Least ==
  ASSUME NEW T \in SUBSET Nat, T # {}
  PROVE  \E n \in T : \A m \in T : n <= m
<1>1. IsWellFoundedOn(OpToRel(<, Nat), Nat)
  BY NatLessThanWellFounded
<1>2. PICK n \in T : \A m \in T : ~ (<<m, n>> \in OpToRel(<, Nat))
  BY <1>1, WFMin
<1>3. \A m \in T : ~(m < n)
  BY <1>2 DEF OpToRel
<1> QED
  BY <1>3

\* Induction, over a set.
LEMMA InductionOver ==
  ASSUME NEW T, 0 \in T, \A n \in Nat : n \in T => n + 1 \in T
  PROVE  Nat \subseteq T
<1> SUFFICES ASSUME Nat \ T # {} PROVE FALSE
  OBVIOUS
<1>1. PICK n \in Nat \ T : \A m \in Nat \ T : n <= m
  BY Least
<1>2. n # 0 /\ n - 1 \in Nat
  BY <1>1
<1>3. n - 1 \in T
  BY <1>1, <1>2
<1> QED
  BY <1>1, <1>2, <1>3

\* A sequence that is not empty, as the one before its last element and that.
LEMMA SplitLast ==
  ASSUME NEW S, NEW s \in Seq(S), NEW n \in Nat, Len(s) = n + 1
  PROVE  /\ SubSeq(s, 1, n) \in Seq(S) /\ Len(SubSeq(s, 1, n)) = n /\ s[n + 1] \in S
         /\ \A i \in 1 .. n : SubSeq(s, 1, n)[i] = s[i]
         /\ s = Append(SubSeq(s, 1, n), s[n + 1])
OBVIOUS

\* A set with the empty sequence, and with each sequence of S one longer than
\* one of its own, has every sequence of S.
LEMMA SequencesOver ==
  ASSUME NEW S, NEW P, <<>> \in P,
         \A s \in Seq(S), e \in S : s \in P => Append(s, e) \in P
  PROVE  Seq(S) \subseteq P
<1> DEFINE T == {n \in Nat : \A s \in Seq(S) : Len(s) = n => s \in P}
<1>1. 0 \in T
  <2>1. \A s \in Seq(S) : Len(s) = 0 => s = <<>>
    OBVIOUS
  <2> QED
    BY <2>1
<1>2. ASSUME NEW n \in Nat, n \in T
      PROVE  n + 1 \in T
  <2>1. ASSUME NEW s \in Seq(S), Len(s) = n + 1
        PROVE  s \in P
    <3> DEFINE r == SubSeq(s, 1, n)
               e == s[n + 1]
    <3>1. r \in Seq(S) /\ Len(r) = n /\ e \in S /\ s = Append(r, e)
      BY <2>1, SplitLast
    <3> QED
      BY <1>2, <3>1
  <2> QED
    BY <2>1
<1> HIDE DEF T
<1>3. Nat \subseteq T
  BY <1>1, <1>2, InductionOver
<1>4. \A s \in Seq(S) : Len(s) \in T
  BY <1>3
<1> QED
  BY <1>4 DEF T

-----------------------------------------------------------------------------

\* f is a function that the fold of s from base may be read from, up to n.
IterTo(c, f, n, s, base) ==
  f = [t \in SUBSET (1 .. n) |->
         IF t = {} THEN base ELSE Op(c, f[t \ {Max(t)}], s[Max(t)])]

Folded(c, base, s) == FoldLeft(LAMBDA a, e : Op(c, a, e), base, s)

LEMMA FoldIsIter ==
  ASSUME NEW S, NEW s \in Seq(S), NEW c, NEW base
  PROVE  Folded(c, base, s) = (CHOOSE f : IterTo(c, f, Len(s), s, base))[1 .. Len(s)]
<1>1. DOMAIN s = 1 .. Len(s)
  OBVIOUS
<1> QED
  BY <1>1 DEF Folded, FoldLeft, MapThenFoldSet, IterTo

LEMMA MaxOfSegment ==
  ASSUME NEW n \in Nat, NEW t \in SUBSET (1 .. n + 1), n + 1 \in t
  PROVE  Max(t) = n + 1
<1>1. n + 1 \in t /\ \A y \in t : n + 1 >= y
  OBVIOUS
<1>2. \A x \in t : (\A y \in t : x >= y) => x = n + 1
  OBVIOUS
<1>3. Max(t) \in t /\ \A y \in t : Max(t) >= y
  BY <1>1 DEF Max
<1> QED
  BY <1>2, <1>3

LEMMA IterExists ==
  ASSUME NEW s, NEW c, NEW base
  PROVE  \A n \in Nat : \E f : IterTo(c, f, n, s, base)
<1> DEFINE T == {n \in Nat : \E f : IterTo(c, f, n, s, base)}
<1>1. 0 \in T
  <2> DEFINE f == [t \in SUBSET (1 .. 0) |-> base]
  <2>1. \A t \in SUBSET (1 .. 0) : t = {}
    OBVIOUS
  <2>2. IterTo(c, f, 0, s, base)
    BY <2>1 DEF IterTo
  <2> QED
    BY <2>2
<1>2. ASSUME NEW n \in Nat, n \in T
      PROVE  n + 1 \in T
  <2>1. PICK f : IterTo(c, f, n, s, base)
    BY <1>2
  <2> DEFINE g == [t \in SUBSET (1 .. n + 1) |->
                     IF n + 1 \in t THEN Op(c, f[t \ {n + 1}], s[n + 1]) ELSE f[t]]
  <2>2. ASSUME NEW t \in SUBSET (1 .. n + 1)
        PROVE  g[t] = IF t = {} THEN base ELSE Op(c, g[t \ {Max(t)}], s[Max(t)])
    <3>1. CASE n + 1 \in t
      <4>1. Max(t) = n + 1
        BY <3>1, MaxOfSegment
      <4>2. t \ {n + 1} \in SUBSET (1 .. n + 1) /\ n + 1 \notin t \ {n + 1}
        OBVIOUS
      <4>3. g[t \ {n + 1}] = f[t \ {n + 1}]
        BY <4>2
      <4> QED
        BY <3>1, <4>1, <4>3
    <3>2. CASE n + 1 \notin t
      <4>1. t \in SUBSET (1 .. n) /\ g[t] = f[t]
        BY <3>2
      <4>2. f[t] = IF t = {} THEN base ELSE Op(c, f[t \ {Max(t)}], s[Max(t)])
        BY <2>1, <4>1 DEF IterTo
      <4>3. t \ {Max(t)} \in SUBSET (1 .. n + 1) /\ n + 1 \notin t \ {Max(t)}
        BY <3>2
      <4>4. g[t \ {Max(t)}] = f[t \ {Max(t)}]
        BY <4>3
      <4> QED
        BY <4>1, <4>2, <4>4
    <3> QED
      BY <3>1, <3>2
  <2>3. g = [t \in SUBSET (1 .. n + 1) |-> g[t]]
    OBVIOUS
  <2> HIDE DEF g
  <2>4. IterTo(c, g, n + 1, s, base)
    BY <2>2, <2>3 DEF IterTo
  <2> QED
    BY <2>4
<1> HIDE DEF T
<1>3. Nat \subseteq T
  BY <1>1, <1>2, InductionOver
<1> QED
  BY <1>3 DEF T

\* One step of such a function.
LEMMA IterStep ==
  ASSUME NEW f, NEW n \in Nat, NEW s, NEW c, NEW base, IterTo(c, f, n, s, base)
  PROVE  /\ f[1 .. 0] = base
         /\ \A m \in Nat : m + 1 <= n => f[1 .. m + 1] = Op(c, f[1 .. m], s[m + 1])
<1>1. \A t \in SUBSET (1 .. n) :
        f[t] = IF t = {} THEN base ELSE Op(c, f[t \ {Max(t)}], s[Max(t)])
  BY DEF IterTo
<1>2. f[1 .. 0] = base
  <2>1. 1 .. 0 = {} /\ 1 .. 0 \in SUBSET (1 .. n)
    OBVIOUS
  <2> QED
    BY <1>1, <2>1
<1>3. ASSUME NEW m \in Nat, m + 1 <= n
      PROVE  f[1 .. m + 1] = Op(c, f[1 .. m], s[m + 1])
  <2>1. 1 .. m + 1 \in SUBSET (1 .. n) /\ 1 .. m + 1 # {} /\ m + 1 \in 1 .. m + 1
    BY <1>3
  <2>2. Max(1 .. m + 1) = m + 1
    BY <2>1, MaxOfSegment
  <2>3. (1 .. m + 1) \ {m + 1} = 1 .. m
    OBVIOUS
  <2> QED
    BY <1>1, <2>1, <2>2, <2>3
<1> QED
  BY <1>2, <1>3

\* Two of them agree as far as their sequences do.
LEMMA IterAgree ==
  ASSUME NEW f, NEW g, NEW n \in Nat, NEW k \in Nat, NEW s, NEW r, NEW c, NEW base, NEW last \in Nat,
         IterTo(c, f, n, s, base), IterTo(c, g, k, r, base), last <= n, last <= k,
         \A i \in 1 .. last : s[i] = r[i]
  PROVE  f[1 .. last] = g[1 .. last]
<1> DEFINE T == {m \in Nat : m <= last => f[1 .. m] = g[1 .. m]}
<1>1. 0 \in T
  BY IterStep
<1>2. ASSUME NEW m \in Nat, m \in T
      PROVE  m + 1 \in T
  <2> SUFFICES ASSUME m + 1 <= last PROVE f[1 .. m + 1] = g[1 .. m + 1]
    OBVIOUS
  <2>1. f[1 .. m] = g[1 .. m] /\ s[m + 1] = r[m + 1] /\ m + 1 <= n /\ m + 1 <= k
    BY <1>2
  <2>2. f[1 .. m + 1] = Op(c, f[1 .. m], s[m + 1])
    BY <2>1, IterStep
  <2>3. g[1 .. m + 1] = Op(c, g[1 .. m], r[m + 1])
    BY <2>1, IterStep
  <2> QED
    BY <2>1, <2>2, <2>3
<1> HIDE DEF T
<1>3. Nat \subseteq T
  BY <1>1, <1>2, InductionOver
<1> QED
  BY <1>3 DEF T

-----------------------------------------------------------------------------

\* Folding nothing leaves the base.
LEMMA FoldEmpty == \A c, base : Folded(c, base, <<>>) = base
<1> SUFFICES ASSUME NEW c, NEW base PROVE Folded(c, base, <<>>) = base
  OBVIOUS
<1> DEFINE f == CHOOSE f : IterTo(c, f, 0, <<>>, base)
<1>1. IterTo(c, f, 0, <<>>, base)
  BY IterExists
<1>2. <<>> \in Seq({}) /\ Len(<<>>) = 0
  OBVIOUS
<1>3. Folded(c, base, <<>>) = f[1 .. 0]
  BY <1>2, FoldIsIter
<1> HIDE DEF f
<1> QED
  BY <1>1, <1>3, IterStep

\* Folding one more element applies Op once more.
LEMMA FoldAppend ==
  ASSUME NEW S, NEW s \in Seq(S), NEW e \in S, NEW c, NEW base
  PROVE  Folded(c, base, Append(s, e)) = Op(c, Folded(c, base, s), e)
<1> DEFINE n == Len(s)
           r == Append(s, e)
           f == CHOOSE f : IterTo(c, f, n, s, base)
           g == CHOOSE g : IterTo(c, g, n + 1, r, base)
<1>1. /\ n \in Nat /\ r \in Seq(S) /\ Len(r) = n + 1 /\ r[n + 1] = e
      /\ \A i \in 1 .. n : s[i] = r[i]
  OBVIOUS
<1>3. Folded(c, base, s) = f[1 .. n] /\ Folded(c, base, r) = g[1 .. n + 1]
  BY <1>1, FoldIsIter
<1> HIDE DEF n, r
<1>2. IterTo(c, f, n, s, base) /\ IterTo(c, g, n + 1, r, base)
  <2>1. \E h : IterTo(c, h, n, s, base)
    BY <1>1, IterExists
  <2>2. n + 1 \in Nat
    BY <1>1
  <2>3. \E h : IterTo(c, h, n + 1, r, base)
    BY <2>2, IterExists
  <2> QED
    BY <2>1, <2>3
<1> HIDE DEF f, g
<1>4. f[1 .. n] = g[1 .. n]
  BY <1>1, <1>2, IterAgree
<1>5. g[1 .. n + 1] = Op(c, g[1 .. n], e)
  BY <1>1, <1>2, IterStep
<1> QED
  BY <1>3, <1>4, <1>5 DEF r

=============================================================================

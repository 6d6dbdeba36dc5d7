------------------------------ MODULE LeftFold ------------------------------
(***************************************************************************)
(* FoldLeft by its two equations.  It is defined by a choice among         *)
(* functions on sets of positions; what is shown here once, for any step   *)
(* and any start, lets a module reason about a fold as the program reads:  *)
(* nothing yet, then one element after the other.                          *)
(*                                                                         *)
(* A module takes its instance with its own operator for Op.  The first    *)
(* argument of Op is whatever the fold depends on besides, a separator for *)
(* instance.                                                               *)
(*                                                                         *)
(* Induction over numbers and sequences is stated for sets: a set of       *)
(* numbers that holds 0 and is closed under successors is Nat.  It follows *)
(* from there being no endless descent among finite sets.                  *)
(***************************************************************************)
EXTENDS Naturals, Sequences, SequencesExt, WellFoundedInduction, FiniteSetTheorems,
        SequenceTheorems, TLAPS

CONSTANTS
    Op(_, _, _),    \* one step: the parameter, what was folded so far, the element
    Base            \* what the empty sequence folds to

\* The fold, with its parameter.
Folded(p, seq) == FoldLeft(LAMBDA acc, e : Op(p, acc, e), Base, seq)

\* Every set of numbers that is not empty has a least one.
LEMMA Least == \A T \in SUBSET Nat : T # {} => \E m \in T : \A n \in T : m <= n
<1> SUFFICES ASSUME NEW T \in SUBSET Nat, T # {}
             PROVE  \E m \in T : \A n \in T : m <= n
  OBVIOUS
<1> DEFINE below == {1 .. n : n \in T}
           R == StrictSubsetOrdering(Nat)
<1>1. IsWellFoundedOn(R, FiniteSubsetsOf(Nat))
  BY FS_StrictSubsetOrderingWellFounded
<1>2. below \subseteq FiniteSubsetsOf(Nat) /\ below # {}
  <2>1. \A n \in T : 1 .. n \in SUBSET Nat /\ IsFiniteSet(1 .. n)
    BY FS_Interval
  <2> QED
    BY <2>1 DEF FiniteSubsetsOf
<1>3. PICK s \in below : \A t \in below : ~ (<<t, s>> \in R)
  <2> HIDE DEF below, R
  <2> QED BY <1>1, <1>2, WFMin
<1>4. PICK m \in T : s = 1 .. m
  OBVIOUS
<1>5. ASSUME NEW n \in T, n < m PROVE FALSE
  <2>1. 1 .. n \subseteq 1 .. m /\ 1 .. n # 1 .. m
    BY <1>5
  <2>2. 1 .. n \in below /\ 1 .. m \in below
    OBVIOUS
  <2>3. 1 .. n \in SUBSET Nat /\ 1 .. m \in SUBSET Nat
    OBVIOUS
  <2>4. <<1 .. n, s>> \in R
    BY <1>4, <2>1, <2>3 DEF StrictSubsetOrdering
  <2> QED
    BY <1>3, <2>2, <2>4
<1> QED
  BY <1>5

\* Induction over the numbers, in terms of sets.
LEMMA Induct == \A T \in SUBSET Nat : 0 \in T /\ (\A n \in T : n + 1 \in T) => T = Nat
<1> SUFFICES ASSUME NEW T \in SUBSET Nat, 0 \in T, \A n \in T : n + 1 \in T, Nat \ T # {}
             PROVE  FALSE
  OBVIOUS
<1>1. PICK m \in Nat \ T : \A n \in Nat \ T : m <= n
  BY Least
<1> QED
  BY <1>1

\* Induction over sequences: the empty one, and one more element.
LEMMA InductSeq ==
  \A S : \A T \in SUBSET Seq(S) :
    <<>> \in T /\ (\A s \in T, e \in S : Append(s, e) \in T) => T = Seq(S)
<1> SUFFICES ASSUME NEW S, NEW T \in SUBSET Seq(S), <<>> \in T,
                    \A s \in T, e \in S : Append(s, e) \in T
             PROVE  T = Seq(S)
  OBVIOUS
<1> DEFINE N == {n \in Nat : \A s \in Seq(S) : Len(s) = n => s \in T}
<1>1. 0 \in N
  OBVIOUS
<1>2. ASSUME NEW n \in N PROVE n + 1 \in N
  <2> SUFFICES ASSUME NEW s \in Seq(S), Len(s) = n + 1 PROVE s \in T
    OBVIOUS
  <2> DEFINE f == SubSeq(s, 1, n)
  <2>1. f \in Seq(S) /\ Len(f) = n /\ s[n + 1] \in S
    OBVIOUS
  <2>2. Append(f, s[n + 1]) = s
    <3>1. Append(f, s[n + 1]) \in Seq(S) /\ Len(Append(f, s[n + 1])) = n + 1
      BY <2>1
    <3>2. \A i \in 1 .. n + 1 : Append(f, s[n + 1])[i] = s[i]
      OBVIOUS
    <3> HIDE DEF f
    <3> QED
      BY <3>1, <3>2, SeqEqual
  <2> QED
    BY <2>1, <2>2
<1>3. N = Nat
  <2> HIDE DEF N
  <2>1. N \in SUBSET Nat
    BY DEF N
  <2> QED
    BY <1>1, <1>2, <2>1, Induct
<1>4. \A s \in Seq(S) : Len(s) \in Nat
  OBVIOUS
<1> QED
  BY <1>3, <1>4

\* One unfolding of the function FoldLeft chooses, over the positions up to n.
Step(p, seq, g, n) ==
    [s \in SUBSET (1 .. n) |->
        IF s = {} THEN Base ELSE Op(p, g[s \ {Max(s)}], seq[Max(s)])]

\* The greatest position is the last one.
LEMMA MaxUpTo == \A n \in Nat : \A s \in SUBSET (1 .. n + 1) : n + 1 \in s => Max(s) = n + 1
<1> SUFFICES ASSUME NEW n \in Nat, NEW s \in SUBSET (1 .. n + 1), n + 1 \in s
             PROVE  Max(s) = n + 1
  OBVIOUS
<1>1. \A y \in s : y \in Nat /\ n + 1 >= y
  OBVIOUS
<1>2. \A x \in s : (\A y \in s : x >= y) => x = n + 1
  BY <1>1
<1> QED
  BY <1>1, <1>2 DEF Max

\* There is such a function, position by position.
LEMMA Exists == \A p, seq : \A n \in Nat : \E g : g = Step(p, seq, g, n)
<1> SUFFICES ASSUME NEW p, NEW seq PROVE \A n \in Nat : \E g : g = Step(p, seq, g, n)
  OBVIOUS
<1> DEFINE N == {n \in Nat : \E g : g = Step(p, seq, g, n)}
<1>1. 0 \in N
  <2> DEFINE g == [s \in SUBSET (1 .. 0) |-> Base]
  <2>1. g = Step(p, seq, g, 0)
    BY DEF Step
  <2> QED
    BY <2>1
<1>2. ASSUME NEW n \in N PROVE n + 1 \in N
  <2>1. PICK g : g = Step(p, seq, g, n)
    OBVIOUS
  <2> DEFINE h == [s \in SUBSET (1 .. n + 1) |->
                     IF n + 1 \in s THEN Op(p, g[s \ {n + 1}], seq[n + 1]) ELSE g[s]]
  <2>2. ASSUME NEW s \in SUBSET (1 .. n + 1)
        PROVE  h[s] = IF s = {} THEN Base ELSE Op(p, h[s \ {Max(s)}], seq[Max(s)])
    <3>1. CASE n + 1 \in s
      <4>1. Max(s) = n + 1
        BY <3>1, MaxUpTo
      <4>2. s \ {n + 1} \in SUBSET (1 .. n + 1) /\ n + 1 \notin s \ {n + 1}
        OBVIOUS
      <4>3. h[s \ {n + 1}] = g[s \ {n + 1}]
        BY <4>2
      <4> QED
        BY <3>1, <4>1, <4>3
    <3>2. CASE n + 1 \notin s
      <4>1. s \in SUBSET (1 .. n)
        BY <3>2
      <4>2. h[s] = g[s] /\ h[s \ {Max(s)}] = g[s \ {Max(s)}]
        BY <3>2
      <4>3. g[s] = IF s = {} THEN Base ELSE Op(p, g[s \ {Max(s)}], seq[Max(s)])
        BY <2>1, <4>1 DEF Step
      <4> QED
        BY <4>2, <4>3
    <3> QED
      BY <3>1, <3>2
  <2>3. h = Step(p, seq, h, n + 1)
    <3>1. h = [s \in SUBSET (1 .. n + 1) |-> h[s]]
      OBVIOUS
    <3> HIDE DEF h
    <3> QED
      BY <2>2, <3>1 DEF Step
  <2> QED
    BY <2>3
<1>3. N \in SUBSET Nat
  OBVIOUS
<1>4. N = Nat
  <2> HIDE DEF N
  <2> QED
    BY <1>1, <1>2, <1>3, Induct
<1> QED
  BY <1>4

\* The function FoldLeft chooses.
Iter(p, seq) == CHOOSE g : g = Step(p, seq, g, Len(seq))

\* FoldLeft applies it to all positions.
LEMMA FoldedByIter == \A S : \A p : \A seq \in Seq(S) : Folded(p, seq) = Iter(p, seq)[1 .. Len(seq)]
<1> SUFFICES ASSUME NEW S, NEW p, NEW seq \in Seq(S)
             PROVE  Folded(p, seq) = Iter(p, seq)[1 .. Len(seq)]
  OBVIOUS
<1>1. DOMAIN seq = 1 .. Len(seq)
  OBVIOUS
<1> QED
  BY <1>1 DEF Folded, Iter, Step, FoldLeft, MapThenFoldSet

\* Up to a position, what it has folded is one step from what it had folded before.
LEMMA IterAt ==
  \A S : \A p : \A seq \in Seq(S) : \A k \in 0 .. Len(seq) :
    Iter(p, seq)[1 .. k] = IF k = 0 THEN Base ELSE Op(p, Iter(p, seq)[1 .. k - 1], seq[k])
<1> SUFFICES ASSUME NEW S, NEW p, NEW seq \in Seq(S), NEW k \in 0 .. Len(seq)
             PROVE  Iter(p, seq)[1 .. k] = IF k = 0 THEN Base
                                           ELSE Op(p, Iter(p, seq)[1 .. k - 1], seq[k])
  OBVIOUS
<1> DEFINE g == Iter(p, seq)
<1>0. Len(seq) \in Nat /\ k \in Nat
  OBVIOUS
<1>1. g = Step(p, seq, g, Len(seq))
  BY Exists DEF Iter
<1>2. 1 .. k \in SUBSET (1 .. Len(seq))
  OBVIOUS
<1>3. g[1 .. k] = IF 1 .. k = {} THEN Base ELSE Op(p, g[(1 .. k) \ {Max(1 .. k)}], seq[Max(1 .. k)])
  <2> HIDE DEF g
  <2> QED
    BY <1>1, <1>2 DEF Step
<1>4. CASE k = 0
  BY <1>3, <1>4
<1>5. CASE k # 0
  <2>1. Max(1 .. k) = k
    BY <1>0, <1>5 DEF Max
  <2>2. (1 .. k) \ {k} = 1 .. k - 1 /\ k \in 1 .. k
    BY <1>0, <1>5
  <2> QED
    BY <1>3, <1>5, <2>1, <2>2
<1> QED
  BY <1>4, <1>5

\* Nothing folds to the start.
THEOREM FoldEmpty == \A p : Folded(p, <<>>) = Base
<1>1. ASSUME NEW S, NEW p, NEW seq \in Seq(S), Len(seq) = 0
      PROVE  Folded(p, seq) = Base
  <2>1. 0 \in 0 .. Len(seq)
    BY <1>1
  <2>2. Iter(p, seq)[1 .. 0] = Base
    BY <2>1, IterAt
  <2> QED
    BY <1>1, <2>2, FoldedByIter
<1>2. <<>> \in Seq({}) /\ Len(<<>>) = 0
  OBVIOUS
<1> QED
  BY <1>1, <1>2

\* One more element is one more step, and changes nothing of what was folded before: the
\* loop over a text in split, "if c", the quoted path and the length of a resource.
THEOREM FoldAppend ==
  \A S : \A p : \A seq \in Seq(S), e \in S :
    Folded(p, Append(seq, e)) = Op(p, Folded(p, seq), e)
<1> SUFFICES ASSUME NEW S, NEW p, NEW seq \in Seq(S), NEW e \in S
             PROVE  Folded(p, Append(seq, e)) = Op(p, Folded(p, seq), e)
  OBVIOUS
<1> DEFINE n == Len(seq)
           seq1 == Append(seq, e)
           g == Iter(p, seq)
           h == Iter(p, seq1)
<1>1. /\ n \in Nat /\ seq1 \in Seq(S) /\ Len(seq1) = n + 1 /\ seq1[n + 1] = e
      /\ \A k \in 1 .. n : seq1[k] = seq[k]
  OBVIOUS
<1> DEFINE N == {k \in Nat : k <= n => h[1 .. k] = g[1 .. k]}
<1>2. 0 \in N
  <2>1. 0 \in 0 .. Len(seq) /\ 0 \in 0 .. Len(seq1)
    BY <1>1
  <2>2. h[1 .. 0] = Base
    <3> HIDE DEF seq1
    <3> QED
      BY <1>1, <2>1, IterAt
  <2>3. g[1 .. 0] = Base
    BY <2>1, IterAt
  <2> QED
    BY <2>2, <2>3
<1>3. ASSUME NEW k \in N PROVE k + 1 \in N
  <2> SUFFICES ASSUME k + 1 <= n PROVE h[1 .. k + 1] = g[1 .. k + 1]
    BY <1>1
  <2>1. k + 1 \in 0 .. Len(seq) /\ k + 1 \in 0 .. Len(seq1) /\ (k + 1) - 1 = k /\ k + 1 # 0
    BY <1>1
  <2>2. h[1 .. k + 1] = Op(p, h[1 .. k], seq1[k + 1])
    <3> HIDE DEF seq1, n, N
    <3> QED
    BY <1>1, <2>1, IterAt
  <2>3. g[1 .. k + 1] = Op(p, g[1 .. k], seq[k + 1])
    <3> HIDE DEF seq1, n, N
    <3> QED
    BY <1>1, <2>1, IterAt
  <2>4. seq1[k + 1] = seq[k + 1] /\ h[1 .. k] = g[1 .. k]
    BY <1>1, <2>1
  <2> QED
    BY <2>2, <2>3, <2>4
<1>4. N = Nat
  <2>1. N \in SUBSET Nat
    OBVIOUS
  <2> HIDE DEF N
  <2> QED
    BY <1>2, <1>3, <2>1, Induct
<1>5. h[1 .. n] = g[1 .. n]
  BY <1>1, <1>4
<1>6. h[1 .. n + 1] = Op(p, h[1 .. n], e)
  <2>1. n + 1 \in 0 .. Len(seq1) /\ (n + 1) - 1 = n /\ n + 1 # 0
    BY <1>1
  <2> HIDE DEF n, seq1, N
  <2> QED
    BY <1>1, <2>1, IterAt
<1> QED
  <2> HIDE DEF g, h, N
  <2>1. Folded(p, seq) = g[1 .. n] /\ Folded(p, seq1) = h[1 .. n + 1]
    <3> HIDE DEF seq1
    <3> QED
    BY <1>1, FoldedByIter DEF g, h
  <2> QED
    BY <1>5, <1>6, <2>1
=============================================================================

----------------------------- MODULE WallProofs -----------------------------
(***************************************************************************)
(* What the wall judges and what the adapters address, for every resource  *)
(* of any length, any number of decode rounds and any bound on the length. *)
(*                                                                         *)
(* The text functions of the model are folds.  LeftFold gives each of them *)
(* two equations, for the empty text and for one more character, and from  *)
(* those induction over texts gives the lemmas: most of them say what a    *)
(* function does to a concatenation.                                       *)
(***************************************************************************)
EXTENDS MCWall, SequenceTheorems, TLAPS

-----------------------------------------------------------------------------
(***************************************************************************)
(* The folds of the model, each by its two equations.                      *)
(***************************************************************************)
\* The four folds of the model.
CutAt == INSTANCE LeftFold WITH Op <- Extend, Base <- << <<>> >>

Keep(none, names, part) == IF part = <<>> THEN names ELSE Append(names, part)
Kept == INSTANCE LeftFold WITH Op <- Keep, Base <- <<>>

Lead(none, path, name) == path \o <<Slash>> \o quote(name, {})
Led == INSTANCE LeftFold WITH Op <- Lead, Base <- <<>>

Count(none, n, token) == n + 1 + 2 * token.depth
Counted == INSTANCE LeftFold WITH Op <- Count, Base <- 0

\* What holds of the empty sequence and is kept by every append holds of every sequence.
LEMMA Induction ==
  ASSUME NEW S, NEW T \in SUBSET Seq(S), <<>> \in T,
         \A s \in T, e \in S : Append(s, e) \in T
  PROVE  T = Seq(S)
  BY CutAt!InductSeq

\* text.split reads one character after the other.
LEMMA SplitFolds ==
  /\ \A mark : SplitAt(<<>>, mark) = << <<>> >>
  /\ \A S : \A s \in Seq(S), e \in S : \A mark :
        SplitAt(Append(s, e), mark) = Extend(mark, SplitAt(s, mark), e)
<1>1. \A mark, s : SplitAt(s, mark) = CutAt!Folded(mark, s)
  BY DEF SplitAt, CutAt!Folded, FoldLeft, CutAt!FoldLeft, MapThenFoldSet,
         CutAt!MapThenFoldSet, Max, CutAt!Max
<1> QED
  BY <1>1, CutAt!FoldEmpty, CutAt!FoldAppend

\* "if c" keeps or drops one part after the other.
LEMMA NonEmptyFolds ==
  /\ NonEmpty(<<>>) = <<>>
  /\ \A S : \A s \in Seq(S), e \in S :
        NonEmpty(Append(s, e)) = IF e = <<>> THEN NonEmpty(s) ELSE Append(NonEmpty(s), e)
<1>1. \A s : NonEmpty(s) = Kept!Folded(0, s)
  BY DEF NonEmpty, Keep, Kept!Folded, FoldLeft, Kept!FoldLeft, MapThenFoldSet,
         Kept!MapThenFoldSet, Max, Kept!Max
<1> QED
  BY <1>1, Kept!FoldEmpty, Kept!FoldAppend DEF Keep

\* The URL is put together name by name.
LEMMA QuotedPathFolds ==
  /\ QuotedPath(<<>>) = <<>>
  /\ \A S : \A s \in Seq(S), e \in S :
        QuotedPath(Append(s, e)) = QuotedPath(s) \o <<Slash>> \o quote(e, {})
<1>1. \A s : QuotedPath(s) = Led!Folded(0, s)
  BY DEF QuotedPath, Lead, Led!Folded, FoldLeft, Led!FoldLeft, MapThenFoldSet,
         Led!MapThenFoldSet, Max, Led!Max
<1>2. QuotedPath(<<>>) = <<>>
  BY <1>1, Led!FoldEmpty
<1>3. ASSUME NEW S, NEW s \in Seq(S), NEW e \in S
      PROVE  QuotedPath(Append(s, e)) = QuotedPath(s) \o <<Slash>> \o quote(e, {})
  <2>1. Led!Folded(0, Append(s, e)) = Lead(0, Led!Folded(0, s), e)
    BY Led!FoldAppend
  <2> QED
    BY <1>1, <2>1 DEF Lead
<1> QED
  BY <1>2, <1>3

\* The length of a raw resource is counted token by token.
LEMMA RawLengthFolds ==
  /\ RawLength(<<>>) = 0
  /\ \A S : \A s \in Seq(S), e \in S :
        RawLength(Append(s, e)) = RawLength(s) + 1 + 2 * e.depth
<1>1. \A s : RawLength(s) = Counted!Folded(0, s)
  BY DEF RawLength, Count, Counted!Folded, FoldLeft, Counted!FoldLeft, MapThenFoldSet,
         Counted!MapThenFoldSet, Max, Counted!Max
<1> QED
  BY <1>1, Counted!FoldEmpty, Counted!FoldAppend DEF Count

-----------------------------------------------------------------------------
(***************************************************************************)
(* text.split, for every text and every mark.                              *)
(***************************************************************************)
\* A split has at least one part, and no part holds the mark.
LEMMA SplitType ==
  ASSUME NEW S, NEW s \in Seq(S), NEW mark
  PROVE  SplitAt(s, mark) \in Seq(Seq(S \ {mark})) /\ Len(SplitAt(s, mark)) # 0
<1> DEFINE T == {t \in Seq(S) : SplitAt(t, mark) \in Seq(Seq(S \ {mark}))
                                  /\ Len(SplitAt(t, mark)) # 0}
<1>1. <<>> \in T
  <2>1. <<>> \in Seq(S) /\ <<>> \in Seq(S \ {mark})
    OBVIOUS
  <2>2. << <<>> >> \in Seq(Seq(S \ {mark})) /\ Len(<< <<>> >>) # 0
    BY <2>1
  <2>3. SplitAt(<<>>, mark) = << <<>> >>
    BY SplitFolds
  <2>4. SplitAt(<<>>, mark) \in Seq(Seq(S \ {mark})) /\ Len(SplitAt(<<>>, mark)) # 0
    BY <2>2, <2>3, Zenon
  <2> QED
    BY <2>1, <2>4, Zenon
<1>2. ASSUME NEW t \in T, NEW e \in S PROVE Append(t, e) \in T
  <2> DEFINE parts == SplitAt(t, mark)
  <2>1. parts \in Seq(Seq(S \ {mark})) /\ Len(parts) # 0 /\ t \in Seq(S)
    OBVIOUS
  <2>2. SplitAt(Append(t, e), mark) = Extend(mark, parts, e)
    BY SplitFolds
  <2> HIDE DEF parts
  <2>3. Extend(mark, parts, e) \in Seq(Seq(S \ {mark})) /\ Len(Extend(mark, parts, e)) # 0
    <3>1. CASE e = mark
      BY <2>1, <3>1 DEF Extend
    <3>2. CASE e # mark
      <4>1. Len(parts) \in 1 .. Len(parts) /\ parts[Len(parts)] \in Seq(S \ {mark})
        BY <2>1
      <4>2. Append(parts[Len(parts)], e) \in Seq(S \ {mark})
        BY <3>2, <4>1
      <4> QED
        BY <2>1, <3>2, <4>1, <4>2 DEF Extend
    <3> QED
      BY <3>1, <3>2
  <2> QED
    BY <2>1, <2>2, <2>3
<1>3. T = Seq(S)
  <2> HIDE DEF T
  <2>1. T \in SUBSET Seq(S)
    BY DEF T
  <2> QED
    BY <1>1, <1>2, <2>1, Induction
<1> QED
  BY <1>3

\* The parts are texts over the same characters.
LEMMA SplitTexts ==
  ASSUME NEW S, NEW s \in Seq(S), NEW mark
  PROVE  SplitAt(s, mark) \in Seq(Seq(S))
<1>1. Seq(S \ {mark}) \subseteq Seq(S)
  OBVIOUS
<1>2. Seq(Seq(S \ {mark})) \subseteq Seq(Seq(S))
  BY <1>1, SeqMonotonic
<1> QED
  BY <1>2, SplitType

\* Appending behind a concatenation.
LEMMA CatAppend ==
  ASSUME NEW S, NEW s \in Seq(S), NEW t \in Seq(S), NEW e \in S
  PROVE  s \o Append(t, e) = Append(s \o t, e)
<1>1. /\ Append(t, e) = t \o <<e>> /\ Append(s \o t, e) = (s \o t) \o <<e>>
      /\ <<e>> \in Seq(S)
  BY AppendIsConcat
<1> QED
  BY <1>1, ConcatAssociative

\* One more character changes the last part alone: parts in front of it do not matter.
LEMMA ExtendCat ==
  ASSUME NEW S, NEW front \in Seq(Seq(S)), NEW parts \in Seq(Seq(S)), Len(parts) # 0,
         NEW e \in S, NEW mark
  PROVE  Extend(mark, front \o parts, e) = front \o Extend(mark, parts, e)
<1>1. CASE e = mark
  <2> DEFINE none == <<>>
  <2>1. none \in Seq(S)
    OBVIOUS
  <2> HIDE DEF none
  <2>2. front \o Append(parts, none) = Append(front \o parts, none)
    BY <2>1, CatAppend
  <2> QED
    BY <1>1, <2>2 DEF Extend, none
<1>2. CASE e # mark
  <2> DEFINE last == Append(parts[Len(parts)], e)
             whole == front \o parts
             left == [whole EXCEPT ![Len(whole)] = last]
             tail == [parts EXCEPT ![Len(parts)] = last]
             right == front \o tail
             n == Len(front)
             m == Len(parts)
  <2>1. m \in 1 .. m /\ last \in Seq(S) /\ n \in Nat /\ m \in Nat
    OBVIOUS
  <2>2. /\ whole \in Seq(Seq(S)) /\ Len(whole) = n + m
        /\ \A i \in 1 .. n : whole[i] = front[i]
        /\ \A i \in 1 .. m : whole[n + i] = parts[i]
    OBVIOUS
  <2> HIDE DEF last
  <2>3. /\ tail \in Seq(Seq(S)) /\ Len(tail) = m
        /\ \A i \in 1 .. m : tail[i] = IF i = m THEN last ELSE parts[i]
    BY <2>1
  <2> HIDE DEF tail
  <2>4. /\ right \in Seq(Seq(S)) /\ Len(right) = n + m
        /\ \A i \in 1 .. n : right[i] = front[i]
        /\ \A i \in 1 .. m : right[n + i] = tail[i]
    <3>1. /\ right \in Seq(Seq(S)) /\ Len(right) = n + Len(tail)
          /\ \A i \in 1 .. n : right[i] = front[i]
          /\ \A i \in 1 .. Len(tail) : right[n + i] = tail[i]
      <4>1. PICK q \in Seq(Seq(S)) : q = tail
        BY <2>3
      <4> QED
        BY <4>1
    <3> QED
      BY <2>3, <3>1
  <2> HIDE DEF whole, right
  <2>5. /\ left \in Seq(Seq(S)) /\ Len(left) = n + m
        /\ \A i \in 1 .. n + m : left[i] = IF i = n + m THEN last ELSE whole[i]
    <3>1. DOMAIN whole = 1 .. n + m
      BY <2>2
    <3>2. n + m \in DOMAIN whole
      BY <2>1, <3>1
    <3> QED
      BY <2>1, <2>2, <3>1, <3>2
  <2> HIDE DEF left, n, m
  <2>6. ASSUME NEW i \in 1 .. n + m PROVE left[i] = right[i]
    <3>1. CASE i <= n
      <4>1. i \in 1 .. n /\ i # n + m
        BY <2>1, <3>1
      <4> QED
        BY <2>2, <2>4, <2>5, <4>1
    <3>2. CASE n < i
      <4>1. PICK j \in 1 .. m : i = n + j
        <5>1. i - n \in 1 .. m /\ i = n + (i - n)
          BY <2>1, <3>2
        <5> QED
          BY <5>1
      <4>2. i = n + m <=> j = m
        BY <2>1, <4>1
      <4>3. right[i] = tail[j] /\ whole[i] = parts[j]
        BY <2>2, <2>4, <4>1
      <4> QED
        BY <2>3, <2>5, <4>2, <4>3
    <3> QED
      BY <2>1, <3>1, <3>2
  <2>7. left = right
    BY <2>4, <2>5, <2>6, SeqEqual
  <2>8. whole[n + m] = parts[m]
    BY <2>1, <2>2
  <2> QED
    BY <1>2, <2>2, <2>7, <2>8 DEF Extend, left, right, whole, tail, last, n, m
<1> QED
  BY <1>1, <1>2

\* A text is split at a mark by splitting what is on either side of it: no separator,
\* however many there are behind a scope, can take anything away from what is before it.
LEMMA SplitCat ==
  ASSUME NEW S, NEW mark \in S, NEW s \in Seq(S), NEW t \in Seq(S)
  PROVE  SplitAt(Append(s, mark) \o t, mark) = SplitAt(s, mark) \o SplitAt(t, mark)
<1> DEFINE front == SplitAt(s, mark)
           start == Append(s, mark)
           T == {u \in Seq(S) : SplitAt(start \o u, mark) = front \o SplitAt(u, mark)}
<1>1. front \in Seq(Seq(S)) /\ start \in Seq(S)
  BY SplitTexts
<1>2. <<>> \in T
  <2> DEFINE none == <<>>
  <2>1. SplitAt(start, mark) = Append(front, none)
    BY SplitFolds DEF Extend
  <2>2. SplitAt(none, mark) = <<none>>
    BY SplitFolds
  <2>3. none \in Seq(S) /\ start \o none = start /\ Append(front, none) = front \o <<none>>
    <3> HIDE DEF front, start
    <3> QED
      BY <1>1
  <2> HIDE DEF none, front, start
  <2>4. none \in T
    BY <2>1, <2>2, <2>3
  <2> QED
    BY <2>4 DEF none
<1>3. ASSUME NEW u \in T, NEW e \in S PROVE Append(u, e) \in T
  <2> DEFINE parts == SplitAt(u, mark)
  <2>1. u \in Seq(S) /\ Append(u, e) \in Seq(S) /\ SplitAt(start \o u, mark) = front \o parts
    OBVIOUS
  <2>2. parts \in Seq(Seq(S)) /\ Len(parts) # 0
    BY <2>1, SplitType, SplitTexts
  <2> HIDE DEF start, front
  <2>3. start \o Append(u, e) = Append(start \o u, e) /\ start \o u \in Seq(S)
    BY <1>1, <2>1, CatAppend
  <2>4. /\ SplitAt(Append(start \o u, e), mark) = Extend(mark, front \o parts, e)
        /\ SplitAt(Append(u, e), mark) = Extend(mark, parts, e)
    <3>1. PICK whole \in Seq(S) : whole = start \o u
      BY <2>3
    <3>2. SplitAt(Append(whole, e), mark) = Extend(mark, SplitAt(whole, mark), e)
      BY SplitFolds
    <3>3. SplitAt(Append(u, e), mark) = Extend(mark, parts, e)
      BY <2>1, SplitFolds
    <3> HIDE DEF parts, T
    <3> QED
      BY <2>1, <3>1, <3>2, <3>3
  <2> HIDE DEF parts
  <2>5. Extend(mark, front \o parts, e) = front \o Extend(mark, parts, e)
    BY <1>1, <2>2, ExtendCat
  <2> QED
    BY <2>1, <2>3, <2>4, <2>5
<1>4. T = Seq(S)
  <2> HIDE DEF T
  <2>1. T \in SUBSET Seq(S)
    BY DEF T
  <2> QED
    BY <1>2, <1>3, <2>1, Induction
<1> QED
  BY <1>4

\* A text without a mark is its only part.
LEMMA SplitUnmarked ==
  ASSUME NEW S, NEW mark, NEW s \in Seq(S \ {mark})
  PROVE  SplitAt(s, mark) = <<s>>
<1> DEFINE T == {t \in Seq(S \ {mark}) : SplitAt(t, mark) = <<t>>}
<1>1. <<>> \in T
  BY SplitFolds
<1>2. ASSUME NEW t \in T, NEW e \in S \ {mark} PROVE Append(t, e) \in T
  <2>1. SplitAt(Append(t, e), mark) = Extend(mark, <<t>>, e)
    BY SplitFolds
  <2>2. Extend(mark, <<t>>, e) = <<Append(t, e)>>
    BY DEF Extend
  <2> QED
    BY <2>1, <2>2
<1>3. T = Seq(S \ {mark})
  <2> HIDE DEF T
  <2>1. T \in SUBSET Seq(S \ {mark})
    BY DEF T
  <2> QED
    BY <1>1, <1>2, <2>1, Induction
<1> QED
  BY <1>3

-----------------------------------------------------------------------------
(***************************************************************************)
(* What "if c" keeps.                                                      *)
(***************************************************************************)
\* No empty part is kept.
LEMMA NonEmptyType ==
  ASSUME NEW P, NEW parts \in Seq(P)
  PROVE  NonEmpty(parts) \in Seq(P \ {<<>>})
<1> DEFINE T == {p \in Seq(P) : NonEmpty(p) \in Seq(P \ {<<>>})}
<1>1. <<>> \in T
  <2>1. <<>> \in Seq(P) /\ <<>> \in Seq(P \ {<<>>})
    OBVIOUS
  <2> QED
    BY <2>1, NonEmptyFolds, Zenon
<1>2. ASSUME NEW p \in T, NEW e \in P PROVE Append(p, e) \in T
  <2>1. NonEmpty(Append(p, e)) = IF e = <<>> THEN NonEmpty(p) ELSE Append(NonEmpty(p), e)
    BY NonEmptyFolds
  <2>2. CASE e = <<>>
    BY <2>1, <2>2
  <2>3. CASE e # <<>>
    BY <2>1, <2>3
  <2> QED
    BY <2>2, <2>3
<1>3. T = Seq(P)
  <2> HIDE DEF T
  <2>1. T \in SUBSET Seq(P)
    BY DEF T
  <2> QED
    BY <1>1, <1>2, <2>1, Induction
<1> QED
  BY <1>3

\* Where no part is empty all are kept.
LEMMA NonEmptyFull ==
  ASSUME NEW P, NEW parts \in Seq(P \ {<<>>})
  PROVE  NonEmpty(parts) = parts
<1> DEFINE T == {p \in Seq(P \ {<<>>}) : NonEmpty(p) = p}
<1>1. <<>> \in T
  BY NonEmptyFolds
<1>2. ASSUME NEW p \in T, NEW e \in P \ {<<>>} PROVE Append(p, e) \in T
  <2>1. NonEmpty(Append(p, e)) = Append(NonEmpty(p), e)
    BY NonEmptyFolds
  <2> QED
    BY <2>1
<1>3. T = Seq(P \ {<<>>})
  <2> HIDE DEF T
  <2>1. T \in SUBSET Seq(P \ {<<>>})
    BY DEF T
  <2> QED
    BY <1>1, <1>2, <2>1, Induction
<1> QED
  BY <1>3

\* What is kept of two lists is kept of each.
LEMMA NonEmptyCat ==
  ASSUME NEW P, NEW front \in Seq(P), NEW parts \in Seq(P)
  PROVE  NonEmpty(front \o parts) = NonEmpty(front) \o NonEmpty(parts)
<1> DEFINE names == NonEmpty(front)
           T == {p \in Seq(P) : NonEmpty(front \o p) = names \o NonEmpty(p)}
<1>1. names \in Seq(P \ {<<>>})
  BY NonEmptyType
<1>2. <<>> \in T
  <2> DEFINE none == <<>>
  <2>1. none \in Seq(P) /\ front \o none = front
    OBVIOUS
  <2>2. NonEmpty(none) = none
    BY NonEmptyFolds
  <2>3. names \o none = names
    <3> HIDE DEF names
    <3> QED
      BY <1>1
  <2> HIDE DEF none
  <2>4. none \in T
    BY <2>1, <2>2, <2>3
  <2> QED
    BY <2>4 DEF none
<1>3. ASSUME NEW p \in T, NEW e \in P PROVE Append(p, e) \in T
  <2> DEFINE rest == NonEmpty(p)
  <2>1. p \in Seq(P) /\ Append(p, e) \in Seq(P) /\ NonEmpty(front \o p) = names \o rest
    OBVIOUS
  <2>2. rest \in Seq(P \ {<<>>})
    BY <2>1, NonEmptyType
  <2>3. front \o Append(p, e) = Append(front \o p, e)
    BY <2>1, CatAppend
  <2>4. NonEmpty(Append(p, e)) = IF e = <<>> THEN rest ELSE Append(rest, e)
    BY <2>1, NonEmptyFolds
  <2> HIDE DEF names, rest
  <2>5. NonEmpty(Append(front \o p, e)) =
          IF e = <<>> THEN names \o rest ELSE Append(names \o rest, e)
    <3>0. front \o p \in Seq(P)
      BY <2>1
    <3>1. PICK whole \in Seq(P) : whole = front \o p
      BY <3>0
    <3>2. NonEmpty(Append(whole, e)) =
            IF e = <<>> THEN NonEmpty(whole) ELSE Append(NonEmpty(whole), e)
      BY NonEmptyFolds
    <3> HIDE DEF T
    <3> QED
      BY <2>1, <3>1, <3>2
  <2>6. e # <<>> => names \o Append(rest, e) = Append(names \o rest, e)
    <3> SUFFICES ASSUME e # <<>> PROVE names \o Append(rest, e) = Append(names \o rest, e)
      OBVIOUS
    <3>1. e \in P \ {<<>>}
      OBVIOUS
    <3> QED
      BY <1>1, <2>2, <3>1, CatAppend
  <2>7. CASE e = <<>>
    BY <2>1, <2>3, <2>4, <2>5, <2>7 DEF names
  <2>8. CASE e # <<>>
    BY <2>1, <2>3, <2>4, <2>5, <2>6, <2>8 DEF names
  <2> QED
    BY <2>7, <2>8
<1>4. T = Seq(P)
  <2> HIDE DEF T
  <2>1. T \in SUBSET Seq(P)
    BY DEF T
  <2> QED
    BY <1>2, <1>3, <2>1, Induction
<1> QED
  BY <1>4

\* A name: some tokens, none of them a slash.
Name(S) == Seq(S \ {Slash}) \ {<<>>}

\* The components of a URL are names.
LEMMA NamesType ==
  ASSUME NEW S, NEW text \in Seq(S)
  PROVE  Names(text) \in Seq(Name(S))
  BY SplitType, NonEmptyType DEF Names, Name

\* A name has itself as its only component.
LEMMA NamesOne ==
  ASSUME NEW S, NEW name \in Name(S)
  PROVE  Names(name) = <<name>>
<1>1. SplitAt(name, Slash) = <<name>>
  BY SplitUnmarked DEF Name
<1>2. <<name>> \in Seq(Name(S))
  OBVIOUS
<1>3. NonEmpty(<<name>>) = <<name>>
  BY <1>2, NonEmptyFull DEF Name
<1> QED
  BY <1>1, <1>3 DEF Names

\* The empty path has no component.
LEMMA NamesNone == Names(<<>>) = <<>>
<1> DEFINE none == <<>>
<1>1. NonEmpty(none) = none /\ none \in Seq({none})
  BY NonEmptyFolds
<1>2. NonEmpty(Append(none, none)) = none
  BY <1>1, NonEmptyFolds
<1>3. SplitAt(none, Slash) = Append(none, none)
  BY SplitFolds
<1> HIDE DEF none
<1>4. Names(none) = none
  BY <1>2, <1>3 DEF Names
<1> QED
  BY <1>4 DEF none

\* A slash separates the components before it from those behind it.
LEMMA NamesCat ==
  ASSUME NEW S, Slash \in S, NEW s \in Seq(S), NEW t \in Seq(S)
  PROVE  Names(Append(s, Slash) \o t) = Names(s) \o Names(t)
<1>1. SplitAt(Append(s, Slash) \o t, Slash) = SplitAt(s, Slash) \o SplitAt(t, Slash)
  BY SplitCat
<1>2. SplitAt(s, Slash) \in Seq(Seq(S \ {Slash})) /\ SplitAt(t, Slash) \in Seq(Seq(S \ {Slash}))
  BY SplitType
<1>3. PICK p, q : p = SplitAt(s, Slash) /\ q = SplitAt(t, Slash)
  OBVIOUS
<1>4. NonEmpty(p \o q) = NonEmpty(p) \o NonEmpty(q)
  BY <1>2, <1>3, NonEmptyCat
<1> QED
  BY <1>1, <1>3, <1>4 DEF Names

-----------------------------------------------------------------------------
(***************************************************************************)
(* From names to a URL and back.                                           *)
(***************************************************************************)
\* Every character a token may stand for.
Glyphs == STRING \cup {"/", "drives", "id", "root:"}
Symbols == [ch : Glyphs, depth : Nat]

\* quote() changes tokens one by one.
LEMMA QuoteType ==
  ASSUME NEW text \in Seq(Symbols), NEW safe
  PROVE  quote(text, safe) \in Seq(Symbols) /\ Len(quote(text, safe)) = Len(text)
<1>1. Len(text) \in Nat /\ DOMAIN text = 1 .. Len(text)
  OBVIOUS
<1>2. \A i \in 1 .. Len(text) : text[i] \in Symbols
  OBVIOUS
<1>3. \A i \in 1 .. Len(text) : quote(text, safe)[i] \in Symbols
  BY <1>1, <1>2 DEF quote, Symbols
<1> QED
  BY <1>1, <1>3 DEF quote

\* So does a round of decoding.
LEMMA DecodeType ==
  ASSUME NEW text \in Seq(Symbols)
  PROVE  decode_once(text) \in Seq(Symbols) /\ Len(decode_once(text)) = Len(text)
<1>1. Len(text) \in Nat /\ DOMAIN text = 1 .. Len(text)
  OBVIOUS
<1>2. \A i \in 1 .. Len(text) : text[i] \in Symbols
  OBVIOUS
<1>3. \A i \in 1 .. Len(text) : decode_once(text)[i] \in Symbols
  BY <1>1, <1>2 DEF decode_once, Symbols
<1> QED
  BY <1>1, <1>3 DEF decode_once

\* One round of decoding undoes quote(), an escape that was there before included.
LEMMA DecodeQuote ==
  ASSUME NEW text \in Seq(Symbols), NEW safe
  PROVE  decode_once(quote(text, safe)) = text
<1> DEFINE coded == quote(text, safe)
           back == decode_once(coded)
<1>1. /\ Len(text) \in Nat /\ DOMAIN text = 1 .. Len(text)
      /\ coded \in Seq(Symbols) /\ Len(coded) = Len(text)
      /\ back \in Seq(Symbols) /\ Len(back) = Len(text)
  BY QuoteType, DecodeType
<1>2. ASSUME NEW i \in 1 .. Len(text) PROVE back[i] = text[i]
  <2>1. text[i] \in [ch : Glyphs, depth : Nat]
    <3>1. text[i] \in Symbols
      OBVIOUS
    <3> QED
      BY <3>1 DEF Symbols
  <2>2. coded[i] = IF text[i].depth = 0 /\ text[i].ch \notin Unsafe \ safe
                   THEN text[i] ELSE [text[i] EXCEPT !.depth = text[i].depth + 1]
    BY <1>1 DEF quote
  <2>3. back[i] = [coded[i] EXCEPT !.depth = IF coded[i].depth = 0 THEN 0 ELSE coded[i].depth - 1]
    <3> HIDE DEF coded
    <3>1. i \in DOMAIN coded
      BY <1>1
    <3> QED
      BY <3>1 DEF decode_once
  <2> HIDE DEF coded, back
  <2> QED
    BY <2>1, <2>2, <2>3
<1> HIDE DEF back
<1>3. back = text
  BY <1>1, <1>2, SeqEqual
<1> QED
  BY <1>3 DEF back

\* A sequence that agrees with a, and then with b, is their concatenation.
LEMMA ConcatPointwise ==
  ASSUME NEW R, NEW a \in Seq(R), NEW b \in Seq(R), NEW r \in Seq(R),
         Len(r) = Len(a) + Len(b),
         \A i \in 1 .. Len(a) : r[i] = a[i],
         \A i \in 1 .. Len(b) : r[Len(a) + i] = b[i]
  PROVE  r = a \o b
<1> DEFINE n == Len(a)
           m == Len(b)
           right == a \o b
<1>1. /\ right \in Seq(R) /\ Len(right) = n + m /\ n \in Nat /\ m \in Nat
      /\ \A i \in 1 .. n : right[i] = a[i]
      /\ \A i \in 1 .. m : right[n + i] = b[i]
  OBVIOUS
<1> HIDE DEF right
<1>2. ASSUME NEW i \in 1 .. n + m PROVE r[i] = right[i]
  <2>1. CASE i \in 1 .. n
    BY <1>1, <2>1
  <2>2. CASE i \notin 1 .. n
    <3>1. i - n \in 1 .. m /\ i = n + (i - n)
      BY <1>1, <2>2
    <3>2. right[n + (i - n)] = b[i - n] /\ r[n + (i - n)] = b[i - n]
      BY <1>1, <3>1
    <3> QED
      BY <3>1, <3>2
  <2> QED
    BY <2>1, <2>2
<1>3. r = right
  BY <1>1, <1>2, SeqEqual
<1> QED
  BY <1>3 DEF right

\* A text is decoded piece by piece.
LEMMA DecodeCat ==
  ASSUME NEW s \in Seq(Symbols), NEW t \in Seq(Symbols)
  PROVE  decode_once(s \o t) = decode_once(s) \o decode_once(t)
<1> DEFINE n == Len(s)
           m == Len(t)
           a == decode_once(s)
           b == decode_once(t)
           whole == s \o t
           r == decode_once(whole)
<1>1. /\ n \in Nat /\ m \in Nat
      /\ whole \in Seq(Symbols) /\ Len(whole) = n + m
      /\ \A i \in 1 .. n : whole[i] = s[i]
      /\ \A i \in 1 .. m : whole[n + i] = t[i]
  OBVIOUS
<1> HIDE DEF whole
<1>2. /\ a \in Seq(Symbols) /\ Len(a) = n /\ b \in Seq(Symbols) /\ Len(b) = m
      /\ r \in Seq(Symbols) /\ Len(r) = n + m
  BY <1>1, DecodeType
<1>3. /\ DOMAIN s = 1 .. n /\ DOMAIN t = 1 .. m /\ DOMAIN whole = 1 .. n + m
      /\ \A i \in 1 .. n : i \in 1 .. n + m
      /\ \A i \in 1 .. m : n + i \in 1 .. n + m
  BY <1>1
<1> HIDE DEF n, m
<1>4. /\ \A i \in 1 .. n : r[i] = a[i]
      /\ \A i \in 1 .. m : r[n + i] = b[i]
  BY <1>1, <1>3 DEF decode_once
<1> HIDE DEF a, b, r
<1>5. r = a \o b
  BY <1>2, <1>4, ConcatPointwise
<1> QED
  BY <1>5 DEF r, a, b, whole

\* The separator of a URL is a token that decoding leaves alone.
LEMMA SlashToken == Slash \in Symbols /\ decode_once(<<Slash>>) = <<Slash>>
<1>1. Slash \in Symbols
  BY DEF Slash, Symbols, Glyphs, Separator
<1>2. decode_once(<<Slash>>) = <<[Slash EXCEPT !.depth = 0]>>
  BY DEF Slash, decode_once
<1>3. [Slash EXCEPT !.depth = 0] = Slash
  BY DEF Slash
<1> QED
  BY <1>1, <1>2, <1>3

\* The server finds the names the URL was built from: what quote() did to a name is
\* undone, and no name becomes two or disappears.
LEMMA PathFound ==
  ASSUME NEW names \in Seq(Name(Symbols))
  PROVE  QuotedPath(names) \in Seq(Symbols) /\ NodeAt(QuotedPath(names)) = names
<1> DEFINE T == {ns \in Seq(Name(Symbols)) : /\ QuotedPath(ns) \in Seq(Symbols)
                                            /\ NodeAt(QuotedPath(ns)) = ns}
<1>1. <<>> \in T
  <2>1. <<>> \in Seq(Name(Symbols)) /\ <<>> \in Seq(Symbols)
    OBVIOUS
  <2>2. QuotedPath(<<>>) = <<>> /\ Names(<<>>) = <<>>
    BY QuotedPathFolds, NamesNone
  <2>3. decode_once(<<>>) = <<>>
    BY DEF decode_once
  <2>4. NodeAt(<<>>) = <<>>
    BY <2>2, <2>3, Zenon DEF NodeAt
  <2> QED
    BY <2>1, <2>2, <2>4, Zenon
<1>2. ASSUME NEW ns \in T, NEW name \in Name(Symbols) PROVE Append(ns, name) \in T
  <2> DEFINE path == QuotedPath(ns)
             coded == quote(name, {})
             found == decode_once(path)
  <2>1. /\ ns \in Seq(Name(Symbols)) /\ Append(ns, name) \in Seq(Name(Symbols))
        /\ path \in Seq(Symbols) /\ Names(found) = ns
    BY DEF NodeAt
  <2>2. QuotedPath(Append(ns, name)) = (path \o <<Slash>>) \o coded
    BY <2>1, QuotedPathFolds
  <2>3. name \in Seq(Symbols)
    <3>1. Symbols \ {Slash} \subseteq Symbols
      OBVIOUS
    <3> QED
      BY <3>1, SeqMonotonic DEF Name
  <2>4. coded \in Seq(Symbols) /\ decode_once(coded) = name
    BY <2>3, QuoteType, DecodeQuote
  <2>5. found \in Seq(Symbols)
    BY <2>1, DecodeType
  <2> HIDE DEF path, coded, found
  <2>6. path \o <<Slash>> \in Seq(Symbols) /\ (path \o <<Slash>>) \o coded \in Seq(Symbols)
    BY <2>1, <2>4, SlashToken
  <2>7. decode_once(path \o <<Slash>>) = found \o <<Slash>>
    <3>0. <<Slash>> \in Seq(Symbols)
      BY SlashToken
    <3>1. PICK slash \in Seq(Symbols) : slash = <<Slash>>
      BY <3>0
    <3>2. decode_once(path \o slash) = decode_once(path) \o decode_once(slash)
      BY <2>1, DecodeCat
    <3> QED
      BY <3>1, <3>2, SlashToken DEF found
  <2>8. decode_once((path \o <<Slash>>) \o coded) = (found \o <<Slash>>) \o name
    <3>1. PICK front \in Seq(Symbols) : front = path \o <<Slash>>
      BY <2>6
    <3>2. decode_once(front \o coded) = decode_once(front) \o decode_once(coded)
      BY <2>4, DecodeCat
    <3> QED
      BY <2>4, <2>7, <3>1, <3>2
  <2>9. Names((found \o <<Slash>>) \o name) = Append(ns, name)
    <3>1. found \o <<Slash>> = Append(found, Slash)
      BY <2>5, SlashToken
    <3>2. Names(Append(found, Slash) \o name) = Names(found) \o Names(name)
      BY <2>3, <2>5, SlashToken, NamesCat
    <3>3. Names(name) = <<name>>
      BY NamesOne
    <3>4. ns \o <<name>> = Append(ns, name)
      BY <2>1
    <3> QED
      BY <2>1, <3>1, <3>2, <3>3, <3>4
  <2> QED
    BY <2>1, <2>2, <2>6, <2>8, <2>9 DEF NodeAt
<1>3. T = Seq(Name(Symbols))
  <2> HIDE DEF T
  <2>1. T \in SUBSET Seq(Name(Symbols))
    BY DEF T
  <2> QED
    BY <1>1, <1>2, <2>1, Induction
<1> QED
  BY <1>3

-----------------------------------------------------------------------------
(***************************************************************************)
(* Cutting off the front: lstrip("/") and the Graph prefix.                *)
(***************************************************************************)
\* A set of numbers has a least one.
LEMMA MinProperties ==
  ASSUME NEW T \in SUBSET Nat, T # {}
  PROVE  Min(T) \in T /\ \A n \in T : Min(T) <= n
<1>1. \E m \in T : \A n \in T : m <= n
  BY CutAt!Least
<1> QED
  BY <1>1 DEF Min

\* The elements of a suffix.
LEMMA SuffixType ==
  ASSUME NEW S, NEW text \in Seq(S), NEW i \in 1 .. Len(text) + 1
  PROVE  /\ SubSeq(text, i, Len(text)) \in Seq(S)
         /\ Len(SubSeq(text, i, Len(text))) = Len(text) - i + 1
         /\ \A j \in 1 .. Len(text) - i + 1 : SubSeq(text, i, Len(text))[j] = text[i + j - 1]
  OBVIOUS

\* Cutting off the front of a text leaves alone what follows the text.
LEMMA SuffixCat ==
  ASSUME NEW S, NEW text \in Seq(S), NEW more \in Seq(S), NEW i \in 1 .. Len(text) + 1
  PROVE  SubSeq(text \o more, i, Len(text \o more)) = SubSeq(text, i, Len(text)) \o more
<1> DEFINE n == Len(text)
           m == Len(more)
           whole == text \o more
           a == SubSeq(text, i, n)
           r == SubSeq(whole, i, Len(whole))
<1>1. /\ n \in Nat /\ m \in Nat /\ i \in Nat /\ i >= 1 /\ i <= n + 1
      /\ whole \in Seq(S) /\ Len(whole) = n + m
      /\ \A k \in 1 .. n : whole[k] = text[k]
      /\ \A k \in 1 .. m : whole[n + k] = more[k]
  OBVIOUS
<1>2. /\ a \in Seq(S) /\ Len(a) = n - i + 1
      /\ \A j \in 1 .. n - i + 1 : a[j] = text[i + j - 1]
  BY SuffixType
<1> HIDE DEF whole, a
<1>3. i \in 1 .. Len(whole) + 1
  BY <1>1
<1>4. /\ r \in Seq(S) /\ Len(r) = n + m - i + 1
      /\ \A j \in 1 .. n + m - i + 1 : r[j] = whole[i + j - 1]
  BY <1>1, <1>3, SuffixType
<1> HIDE DEF r, n, m
<1>5. ASSUME NEW j \in 1 .. Len(a) PROVE r[j] = a[j]
  <2>1. j \in 1 .. n - i + 1 /\ j \in 1 .. n + m - i + 1 /\ i + j - 1 \in 1 .. n
    BY <1>1, <1>2
  <2> QED
    BY <1>1, <1>2, <1>4, <2>1
<1>6. ASSUME NEW j \in 1 .. m PROVE r[Len(a) + j] = more[j]
  <2>1. Len(a) + j \in 1 .. n + m - i + 1 /\ i + (Len(a) + j) - 1 = n + j
    BY <1>1, <1>2
  <2>2. r[Len(a) + j] = whole[i + (Len(a) + j) - 1]
    BY <1>4, <2>1
  <2> QED
    BY <1>1, <2>1, <2>2
<1>7. Len(r) = Len(a) + Len(more)
  BY <1>1, <1>2, <1>4 DEF m
<1>8. r = a \o more
  BY <1>2, <1>4, <1>5, <1>6, <1>7, ConcatPointwise DEF m
<1> QED
  BY <1>8 DEF r, a, whole, n

\* The places that lstrip("/") stops at.
Solid(text) == {i \in DOMAIN text : text[i] # Separator}

\* lstrip gives a text.
LEMMA StripLeadingType ==
  ASSUME NEW S, NEW text \in Seq(S)
  PROVE  StripLeading(text) \in Seq(S)
<1>1. CASE Solid(text) = {}
  BY <1>1 DEF StripLeading, Solid
<1>2. CASE Solid(text) # {}
  <2>1. Solid(text) \in SUBSET Nat
    BY DEF Solid
  <2>2. Min(Solid(text)) \in 1 .. Len(text) + 1
    <3>1. Min(Solid(text)) \in Solid(text)
      BY <1>2, <2>1, MinProperties
    <3> QED
      BY <3>1 DEF Solid
  <2> QED
    BY <1>2, <2>2, SuffixType DEF StripLeading, Solid
<1> QED
  BY <1>1, <1>2

\* Where something else than slashes is in front, lstrip does not look behind it.
LEMMA StripLeadingCat ==
  ASSUME NEW S, NEW text \in Seq(S), NEW more \in Seq(S), Solid(text) # {}
  PROVE  StripLeading(text \o more) = StripLeading(text) \o more
<1> DEFINE whole == text \o more
           i == Min(Solid(text))
           k == Min(Solid(whole))
<1>1. /\ whole \in Seq(S) /\ Len(whole) = Len(text) + Len(more) /\ Len(text) \in Nat
      /\ Len(more) \in Nat
      /\ DOMAIN text = 1 .. Len(text) /\ DOMAIN whole = 1 .. Len(whole)
      /\ \A j \in 1 .. Len(text) : whole[j] = text[j]
  OBVIOUS
<1> HIDE DEF whole
<1>2. /\ Solid(text) \subseteq Solid(whole)
      /\ \A j \in Solid(whole) : j <= Len(text) => j \in Solid(text)
      /\ Solid(text) \in SUBSET Nat /\ Solid(whole) \in SUBSET Nat
  BY <1>1 DEF Solid
<1>3. i \in Solid(text) /\ \A j \in Solid(text) : i <= j
  BY <1>2, MinProperties
<1>4. k \in Solid(whole) /\ \A j \in Solid(whole) : k <= j
  BY <1>2, MinProperties
<1>5. i \in 1 .. Len(text)
  BY <1>3 DEF Solid
<1> HIDE DEF i, k
<1>6. i = k
  <2>1. k <= i
    BY <1>2, <1>3, <1>4
  <2>2. k \in Solid(text)
    BY <1>1, <1>2, <1>4, <1>5, <2>1
  <2> QED
    BY <1>2, <1>3, <2>1, <2>2
<1>7. StripLeading(text) = SubSeq(text, i, Len(text))
  BY DEF StripLeading, Solid, i
<1>8. StripLeading(whole) = SubSeq(whole, i, Len(whole))
  BY <1>2, <1>6 DEF StripLeading, Solid, k
<1>9. SubSeq(whole, i, Len(whole)) = SubSeq(text, i, Len(text)) \o more
  <2>1. i \in 1 .. Len(text) + 1
    BY <1>1, <1>5
  <2> QED
    BY <2>1, SuffixCat DEF whole
<1> QED
  BY <1>7, <1>8, <1>9 DEF whole

\* lstrip takes away slashes, and only from the front.
LEMMA StripLeadingSplits ==
  ASSUME NEW S, NEW text \in Seq(S)
  PROVE  \E slashes \in Seq({Separator}) : text = slashes \o StripLeading(text)
<1>1. CASE Solid(text) = {}
  <2>1. text \in Seq({Separator})
    BY <1>1 DEF Solid
  <2>2. StripLeading(text) = <<>>
    BY <1>1 DEF StripLeading, Solid
  <2>3. text = text \o <<>>
    OBVIOUS
  <2> QED
    BY <2>1, <2>2, <2>3
<1>2. CASE Solid(text) # {}
  <2> DEFINE i == Min(Solid(text))
             front == SubSeq(text, 1, i - 1)
  <2>1. Solid(text) \in SUBSET Nat
    BY DEF Solid
  <2>2. i \in Solid(text) /\ \A j \in Solid(text) : i <= j
    BY <1>2, <2>1, MinProperties
  <2>3. i \in 1 .. Len(text)
    BY <2>2 DEF Solid
  <2> HIDE DEF i
  <2>4. front \in Seq({Separator})
    <3>1. \A j \in 1 .. i - 1 : text[j] = Separator
      BY <2>2, <2>3 DEF Solid
    <3> QED
      BY <2>3, <3>1
  <2>5. text = front \o SubSeq(text, i, Len(text))
    <3>1. 1 \in 1 .. Len(text) + 1 /\ i - 1 \in (1 - 1) .. Len(text)
          /\ Len(text) \in (i - 1) .. Len(text) /\ (i - 1) + 1 = i
      BY <2>3
    <3>2. SubSeq(text, 1, i - 1) \o SubSeq(text, (i - 1) + 1, Len(text))
            = SubSeq(text, 1, Len(text))
      BY <3>1, ConcatAdjacentSubSeq
    <3>3. SubSeq(text, 1, Len(text)) = text
      OBVIOUS
    <3> QED
      BY <3>1, <3>2, <3>3
  <2>6. StripLeading(text) = SubSeq(text, i, Len(text))
    BY <1>2 DEF StripLeading, Solid, i
  <2> QED
    BY <2>4, <2>5, <2>6
<1> QED
  BY <1>1, <1>2

\* The first "/root:" ends inside the text.
LEMMA RootsType ==
  ASSUME NEW S, NEW text \in Seq(S)
  PROVE  /\ Roots(text) \in SUBSET Nat
         /\ Roots(text) # {} => /\ Min(Roots(text)) \in Roots(text)
                                /\ \A n \in Roots(text) : Min(Roots(text)) <= n
                                /\ Min(Roots(text)) + 2 \in 1 .. Len(text) + 1
<1>1. Roots(text) \in SUBSET Nat /\ Len(text) \in Nat
  BY DEF Roots
<1>2. ASSUME Roots(text) # {}
      PROVE  /\ Min(Roots(text)) \in Roots(text)
             /\ \A n \in Roots(text) : Min(Roots(text)) <= n
             /\ Min(Roots(text)) + 2 \in 1 .. Len(text) + 1
  <2>1. Min(Roots(text)) \in Roots(text) /\ \A n \in Roots(text) : Min(Roots(text)) <= n
    BY <1>1, <1>2, MinProperties
  <2>2. Min(Roots(text)) \in 1 .. Len(text) - 1
    BY <2>1 DEF Roots
  <2> QED
    BY <1>1, <2>1, <2>2
<1> QED
  BY <1>1, <1>2

\* Without its Graph prefix a text is a text.
LEMMA StripPrefixType ==
  ASSUME NEW S, NEW text \in Seq(S)
  PROVE  strip_graph_prefix(text) \in Seq(S)
<1>1. CASE GraphPrefixed(text)
  <2>1. Min(Roots(text)) + 2 \in 1 .. Len(text) + 1
    BY <1>1, RootsType DEF GraphPrefixed
  <2> QED
    BY <1>1, <2>1, SuffixType DEF strip_graph_prefix
<1>2. CASE ~ GraphPrefixed(text)
  BY <1>2 DEF strip_graph_prefix
<1> QED
  BY <1>1, <1>2

\* What follows a text with a "/root:" does not change which one is the first.
LEMMA RootsCat ==
  ASSUME NEW S, NEW text \in Seq(S), NEW more \in Seq(S), Roots(text) # {}
  PROVE  Roots(text \o more) # {} /\ Min(Roots(text \o more)) = Min(Roots(text))
<1> DEFINE whole == text \o more
           i == Min(Roots(text))
           k == Min(Roots(whole))
<1>1. /\ whole \in Seq(S) /\ Len(whole) = Len(text) + Len(more) /\ Len(text) \in Nat
      /\ Len(more) \in Nat
      /\ \A j \in 1 .. Len(text) : whole[j] = text[j]
  OBVIOUS
<1> HIDE DEF whole
<1>2. i \in Roots(text) /\ (\A n \in Roots(text) : i <= n) /\ i \in 1 .. Len(text) - 1
  BY RootsType DEF Roots
<1>3. Roots(text) \subseteq Roots(whole)
  <2> SUFFICES ASSUME NEW j \in Roots(text) PROVE j \in Roots(whole)
    OBVIOUS
  <2>1. j \in 1 .. Len(text) - 1 /\ text[j] = Separator /\ text[j + 1] = "root:"
    BY DEF Roots
  <2>2. j \in 1 .. Len(text) /\ j + 1 \in 1 .. Len(text) /\ j \in 1 .. Len(whole) - 1
    BY <1>1, <2>1
  <2> QED
    BY <1>1, <2>1, <2>2 DEF Roots
<1>4. k \in Roots(whole) /\ \A n \in Roots(whole) : k <= n
  BY <1>1, <1>2, <1>3, RootsType
<1> HIDE DEF i, k
<1>5. i = k
  <2>1. k <= i /\ k \in 1 .. Len(whole) - 1 /\ whole[k] = Separator /\ whole[k + 1] = "root:"
    BY <1>2, <1>3, <1>4 DEF Roots
  <2>2. k \in 1 .. Len(text) - 1 /\ k \in 1 .. Len(text) /\ k + 1 \in 1 .. Len(text)
    BY <1>1, <1>2, <2>1
  <2>3. k \in Roots(text)
    BY <1>1, <2>1, <2>2 DEF Roots
  <2> QED
    BY <1>2, <2>1, <2>2, <2>3
<1> QED
  BY <1>2, <1>3, <1>5 DEF i, k, whole

\* A prefix of a text is one of every longer text.
LEMMA PrefixCat ==
  ASSUME NEW S, NEW head \in Seq(S), NEW text \in Seq(S), NEW more \in Seq(S),
         IsPrefix(head, text)
  PROVE  IsPrefix(head, text \o more)
<1> DEFINE whole == text \o more
           n == Len(head)
<1>1. /\ n \in Nat /\ n <= Len(text) /\ Len(text) \in Nat /\ Len(more) \in Nat
      /\ SubSeq(head, 1, n) = SubSeq(text, 1, n)
      /\ Len(whole) = Len(text) + Len(more)
  BY DEF IsPrefix
<1>2. SubSeq(whole, 1, n) = SubSeq(text, 1, n)
  <2>1. CASE n = 0
    BY <1>1, <2>1, SubSeqEmpty
  <2>2. CASE n # 0
    BY <1>1, <2>2, SubSeqOfConcat1
  <2> QED
    BY <2>1, <2>2
<1> QED
  BY <1>1, <1>2 DEF IsPrefix

\* What follows a Graph prefix does not change what is cut off.
LEMMA StripPrefixCat ==
  ASSUME NEW S, NEW text \in Seq(S), NEW more \in Seq(S), GraphPrefixed(text),
         Drives \in Seq(S)
  PROVE  /\ GraphPrefixed(text \o more)
         /\ strip_graph_prefix(text \o more) = strip_graph_prefix(text) \o more
<1>1. Roots(text) # {} /\ IsPrefix(Drives, text)
  BY DEF GraphPrefixed
<1>2. Roots(text \o more) # {} /\ Min(Roots(text \o more)) = Min(Roots(text))
  BY <1>1, RootsCat
<1>3. GraphPrefixed(text \o more)
  BY <1>1, <1>2, PrefixCat DEF GraphPrefixed
<1>4. Min(Roots(text)) + 2 \in 1 .. Len(text) + 1
  BY <1>1, RootsType
<1> DEFINE i == Min(Roots(text)) + 2
<1> HIDE DEF i
<1>5. SubSeq(text \o more, i, Len(text \o more)) = SubSeq(text, i, Len(text)) \o more
  BY <1>4, SuffixCat DEF i
<1>6. strip_graph_prefix(text) = SubSeq(text, i, Len(text))
  BY DEF strip_graph_prefix, i
<1>7. strip_graph_prefix(text \o more) = SubSeq(text \o more, i, Len(text \o more))
  BY <1>2, <1>3 DEF strip_graph_prefix, i
<1> QED
  BY <1>3, <1>5, <1>6, <1>7

-----------------------------------------------------------------------------
(***************************************************************************)
(* Spellings and what they decode to.                                      *)
(***************************************************************************)
\* A raw resource decodes to as many characters as it has tokens.
LEMMA DecodesType ==
  ASSUME NEW raw \in Seq(Symbols)
  PROVE  Decodes(raw) \in Seq(Glyphs) /\ Len(Decodes(raw)) = Len(raw)
<1>1. Len(raw) \in Nat /\ DOMAIN raw = 1 .. Len(raw)
  OBVIOUS
<1>2. \A i \in 1 .. Len(raw) : raw[i].ch \in Glyphs
  <2>1. \A i \in 1 .. Len(raw) : raw[i] \in Symbols
    OBVIOUS
  <2> QED
    BY <2>1 DEF Symbols
<1> QED
  BY <1>1, <1>2 DEF Decodes

\* A plain spelling has no escapes.
LEMMA PlainType ==
  ASSUME NEW text \in Seq(Glyphs)
  PROVE  /\ Plain(text) \in Seq(Symbols) /\ Len(Plain(text)) = Len(text)
         /\ \A i \in 1 .. Len(text) : Plain(text)[i] = [ch |-> text[i], depth |-> 0]
<1>1. Len(text) \in Nat /\ DOMAIN text = 1 .. Len(text)
  OBVIOUS
<1>2. \A i \in 1 .. Len(text) : [ch |-> text[i], depth |-> 0] \in Symbols
  <2>1. \A i \in 1 .. Len(text) : text[i] \in Glyphs
    OBVIOUS
  <2> QED
    BY <2>1 DEF Symbols
<1> QED
  BY <1>1, <1>2 DEF Plain, Token

\* A plain spelling decodes to what is spelled.
LEMMA DecodesPlain ==
  ASSUME NEW text \in Seq(Glyphs)
  PROVE  Decodes(Plain(text)) = text
<1>1. /\ Plain(text) \in Seq(Symbols) /\ Len(Plain(text)) = Len(text)
      /\ Decodes(Plain(text)) \in Seq(Glyphs) /\ Len(Decodes(Plain(text))) = Len(text)
  BY PlainType, DecodesType
<1> DEFINE plain == Plain(text)
           back == Decodes(plain)
<1>2. /\ DOMAIN plain = 1 .. Len(text)
      /\ \A i \in 1 .. Len(text) : plain[i] = [ch |-> text[i], depth |-> 0]
  BY <1>1, PlainType
<1> HIDE DEF plain
<1>3. \A i \in 1 .. Len(text) : back[i] = plain[i].ch
  BY <1>2 DEF Decodes
<1> HIDE DEF back
<1>4. back = text
  BY <1>1, <1>2, <1>3, SeqEqual DEF back, plain
<1> QED
  BY <1>4 DEF back, plain

\* Two spellings in a row decode to what each decodes to.
LEMMA DecodesCat ==
  ASSUME NEW s \in Seq(Symbols), NEW t \in Seq(Symbols)
  PROVE  Decodes(s \o t) = Decodes(s) \o Decodes(t)
<1> DEFINE n == Len(s)
           m == Len(t)
           a == Decodes(s)
           b == Decodes(t)
           whole == s \o t
           r == Decodes(whole)
<1>1. /\ n \in Nat /\ m \in Nat
      /\ whole \in Seq(Symbols) /\ Len(whole) = n + m
      /\ \A i \in 1 .. n : whole[i] = s[i]
      /\ \A i \in 1 .. m : whole[n + i] = t[i]
  OBVIOUS
<1> HIDE DEF whole
<1>2. /\ a \in Seq(Glyphs) /\ Len(a) = n /\ b \in Seq(Glyphs) /\ Len(b) = m
      /\ r \in Seq(Glyphs) /\ Len(r) = n + m
  BY <1>1, DecodesType
<1>3. /\ DOMAIN s = 1 .. n /\ DOMAIN t = 1 .. m /\ DOMAIN whole = 1 .. n + m
      /\ \A i \in 1 .. n : i \in 1 .. n + m
      /\ \A i \in 1 .. m : n + i \in 1 .. n + m
  BY <1>1
<1> HIDE DEF n, m
<1>4. /\ \A i \in 1 .. n : r[i] = a[i]
      /\ \A i \in 1 .. m : r[n + i] = b[i]
  BY <1>1, <1>3 DEF Decodes
<1> HIDE DEF a, b, r
<1>5. r = a \o b
  BY <1>2, <1>4, ConcatPointwise
<1> QED
  BY <1>5 DEF r, a, b, whole

\* A token is at least one character long.
LEMMA RawLengthType ==
  ASSUME NEW raw \in Seq(Symbols)
  PROVE  RawLength(raw) \in Nat /\ RawLength(raw) >= Len(raw)
<1> DEFINE T == {s \in Seq(Symbols) : RawLength(s) \in Nat /\ RawLength(s) >= Len(s)}
<1>1. <<>> \in T
  BY RawLengthFolds
<1>2. ASSUME NEW s \in T, NEW e \in Symbols PROVE Append(s, e) \in T
  <2>1. RawLength(Append(s, e)) = RawLength(s) + 1 + 2 * e.depth
    BY RawLengthFolds
  <2>2. e.depth \in Nat
    BY DEF Symbols
  <2>3. Append(s, e) \in Seq(Symbols) /\ Len(Append(s, e)) = Len(s) + 1 /\ Len(s) \in Nat
    OBVIOUS
  <2> QED
    BY <2>1, <2>2, <2>3
<1>3. T = Seq(Symbols)
  <2> HIDE DEF T
  <2>1. T \in SUBSET Seq(Symbols)
    BY DEF T
  <2> QED
    BY <1>1, <1>2, <2>1, Induction
<1> QED
  BY <1>3

\* A plain spelling is as long as what it spells.
LEMMA RawLengthPlain ==
  ASSUME NEW raw \in Seq(Symbols), \A i \in 1 .. Len(raw) : raw[i].depth = 0
  PROVE  RawLength(raw) = Len(raw)
<1> DEFINE Flat == {e \in Symbols : e.depth = 0}
           T == {s \in Seq(Flat) : RawLength(s) = Len(s)}
<1>1. <<>> \in T
  BY RawLengthFolds
<1>2. ASSUME NEW s \in T, NEW e \in Flat PROVE Append(s, e) \in T
  <2>1. RawLength(Append(s, e)) = RawLength(s) + 1 + 2 * e.depth
    BY RawLengthFolds
  <2> QED
    BY <2>1
<1>3. T = Seq(Flat)
  <2> HIDE DEF T
  <2>1. T \in SUBSET Seq(Flat)
    BY DEF T
  <2> QED
    BY <1>1, <1>2, <2>1, Induction
<1>4. raw \in Seq(Flat)
  OBVIOUS
<1> QED
  BY <1>3, <1>4

\* The lengths of two spellings add up.
LEMMA RawLengthCat ==
  ASSUME NEW s \in Seq(Symbols), NEW t \in Seq(Symbols)
  PROVE  RawLength(s \o t) = RawLength(s) + RawLength(t)
<1> DEFINE T == {u \in Seq(Symbols) : RawLength(s \o u) = RawLength(s) + RawLength(u)}
<1>1. <<>> \in T
  <2> DEFINE none == <<>>
  <2>1. none \in Seq(Symbols) /\ s \o none = s /\ RawLength(none) = 0
    BY RawLengthFolds
  <2>2. RawLength(s) \in Nat
    BY RawLengthType
  <2> HIDE DEF none
  <2>3. RawLength(s \o none) = RawLength(s) + RawLength(none)
    BY <2>1, <2>2
  <2>4. none \in T
    BY <2>1, <2>3
  <2> QED
    BY <2>4 DEF none
<1>2. ASSUME NEW u \in T, NEW e \in Symbols PROVE Append(u, e) \in T
  <2>1. u \in Seq(Symbols) /\ Append(u, e) \in Seq(Symbols) /\ s \o u \in Seq(Symbols)
    OBVIOUS
  <2>2. s \o Append(u, e) = Append(s \o u, e)
    BY <2>1, CatAppend
  <2>3. RawLength(Append(u, e)) = RawLength(u) + 1 + 2 * e.depth
    BY <2>1, RawLengthFolds
  <2>4. RawLength(Append(s \o u, e)) = RawLength(s \o u) + 1 + 2 * e.depth
    <3>1. PICK whole \in Seq(Symbols) : whole = s \o u
      BY <2>1
    <3>2. RawLength(Append(whole, e)) = RawLength(whole) + 1 + 2 * e.depth
      BY RawLengthFolds
    <3> QED
      BY <3>1, <3>2
  <2>5. RawLength(u) \in Nat /\ RawLength(s) \in Nat /\ e.depth \in Nat
    BY <2>1, RawLengthType DEF Symbols
  <2>6. RawLength(s \o u) = RawLength(s) + RawLength(u)
    OBVIOUS
  <2>7. RawLength(s \o Append(u, e)) = RawLength(Append(s \o u, e))
    BY <2>2, Zenon
  <2>8. RawLength(s \o Append(u, e)) = RawLength(s) + RawLength(Append(u, e))
    <3> DEFINE all == RawLength(s \o Append(u, e))
               front == RawLength(s \o u)
               more == RawLength(Append(u, e))
    <3>1. all = front + 1 + 2 * e.depth
      BY <2>4, <2>7
    <3>2. more = RawLength(u) + 1 + 2 * e.depth /\ front = RawLength(s) + RawLength(u)
      BY <2>3, <2>6
    <3> HIDE DEF all, front, more
    <3>3. ASSUME NEW a \in Nat, NEW b \in Nat, NEW d \in Nat
          PROVE  (a + b) + 1 + 2 * d = a + (b + 1 + 2 * d)
      OBVIOUS
    <3>4. all = RawLength(s) + more
      BY <2>5, <3>1, <3>2, <3>3
    <3> QED
      BY <3>4 DEF all, more
  <2> QED
    BY <2>1, <2>8
<1>3. T = Seq(Symbols)
  <2> HIDE DEF T
  <2>1. T \in SUBSET Seq(Symbols)
    BY DEF T
  <2> QED
    BY <1>1, <1>2, <2>1, Induction
<1> QED
  BY <1>3

-----------------------------------------------------------------------------
(***************************************************************************)
(* The decode loop.                                                        *)
(***************************************************************************)
\* After k rounds every escape has lost up to k levels, and no character has changed.
LEMMA DecodedType ==
  ASSUME NEW raw \in Seq(Symbols), NEW k \in Nat
  PROVE  /\ Decoded(raw, k) \in Seq(Symbols) /\ Len(Decoded(raw, k)) = Len(raw)
         /\ \A i \in 1 .. Len(raw) :
              /\ Decoded(raw, k)[i].ch = raw[i].ch
              /\ Decoded(raw, k)[i].depth = IF raw[i].depth < k THEN 0 ELSE raw[i].depth - k
<1>1. Len(raw) \in Nat /\ DOMAIN raw = 1 .. Len(raw)
  OBVIOUS
<1>2. \A i \in 1 .. Len(raw) : raw[i] \in [ch : Glyphs, depth : Nat]
  <2>1. \A i \in 1 .. Len(raw) : raw[i] \in Symbols
    OBVIOUS
  <2> QED
    BY <2>1 DEF Symbols
<1>3. ASSUME NEW i \in 1 .. Len(raw)
      PROVE  /\ Decoded(raw, k)[i] \in [ch : Glyphs, depth : Nat]
             /\ Decoded(raw, k)[i].ch = raw[i].ch
             /\ Decoded(raw, k)[i].depth = IF raw[i].depth < k THEN 0 ELSE raw[i].depth - k
  <2>1. Decoded(raw, k)[i] =
          [raw[i] EXCEPT !.depth = IF raw[i].depth < k THEN 0 ELSE raw[i].depth - k]
    BY <1>1 DEF Decoded
  <2>2. raw[i] \in [ch : Glyphs, depth : Nat]
    BY <1>2
  <2> QED
    BY <2>1, <2>2
<1>4. Decoded(raw, k) \in Seq(Symbols) /\ Len(Decoded(raw, k)) = Len(raw)
  <2>1. DOMAIN Decoded(raw, k) = 1 .. Len(raw)
    BY <1>1 DEF Decoded
  <2>2. Decoded(raw, k) = [i \in 1 .. Len(raw) |-> Decoded(raw, k)[i]]
    BY <1>1 DEF Decoded
  <2>3. \A i \in 1 .. Len(raw) : Decoded(raw, k)[i] \in Symbols
    BY <1>3 DEF Symbols
  <2> DEFINE r == Decoded(raw, k)
  <2> HIDE DEF r
  <2>4. r \in Seq(Symbols) /\ Len(r) = Len(raw)
    BY <1>1, <2>1, <2>2, <2>3 DEF r
  <2> QED
    BY <2>4 DEF r
<1> QED
  BY <1>3, <1>4

\* The loop breaks in round k when no escape is deeper than k.
LEMMA SettledDepths ==
  ASSUME NEW raw \in Seq(Symbols), NEW k \in Nat
  PROVE  Settled(Decoded(raw, k)) <=> \A i \in 1 .. Len(raw) : raw[i].depth <= k
<1> DEFINE text == Decoded(raw, k)
           next == decode_once(text)
<1>1. \A i \in 1 .. Len(raw) : raw[i].depth \in Nat
  <2>1. \A i \in 1 .. Len(raw) : raw[i] \in Symbols
    OBVIOUS
  <2> QED
    BY <2>1 DEF Symbols
<1>2. /\ text \in Seq(Symbols) /\ Len(text) = Len(raw) /\ DOMAIN text = 1 .. Len(raw)
      /\ \A i \in 1 .. Len(raw) :
           text[i].depth = IF raw[i].depth < k THEN 0 ELSE raw[i].depth - k
  BY DecodedType
<1> HIDE DEF text
<1>3. next \in Seq(Symbols) /\ Len(next) = Len(raw)
  BY <1>2, DecodeType
<1>4. ASSUME NEW i \in 1 .. Len(raw)
      PROVE  next[i] = text[i] <=> raw[i].depth <= k
  <2>1. text[i] \in [ch : Glyphs, depth : Nat]
    <3>1. text[i] \in Symbols
      BY <1>2
    <3> QED
      BY <3>1 DEF Symbols
  <2>2. next[i] = [text[i] EXCEPT !.depth = IF text[i].depth = 0 THEN 0 ELSE text[i].depth - 1]
    BY <1>2 DEF decode_once
  <2>3. next[i] = text[i] <=> text[i].depth = 0
    <3>1. next[i].depth = IF text[i].depth = 0 THEN 0 ELSE text[i].depth - 1
      BY <2>1, <2>2
    <3>2. text[i].depth = 0 => next[i] = text[i]
      BY <2>1, <2>2
    <3>3. text[i].depth # 0 => next[i].depth # text[i].depth
      BY <2>1, <3>1
    <3> QED
      BY <3>2, <3>3
  <2>4. text[i].depth = 0 <=> raw[i].depth <= k
    BY <1>1, <1>2
  <2> QED
    BY <2>3, <2>4
<1> HIDE DEF next
<1>5. next = text <=> \A i \in 1 .. Len(raw) : next[i] = text[i]
  BY <1>2, <1>3, SeqEqual
<1>6. Settled(text) <=> next = text
  BY DEF Settled, next
<1> QED
  BY <1>4, <1>5, <1>6 DEF text

\* A settled text shows what the raw resource decodes to, no percent sign of an escape.
LEMMA SettledCharacters ==
  ASSUME NEW raw \in Seq(Symbols), NEW k \in Nat, Settled(Decoded(raw, k))
  PROVE  Characters(Decoded(raw, k)) = Decodes(raw)
<1> DEFINE text == Decoded(raw, k)
<1>1. \A i \in 1 .. Len(raw) : raw[i].depth \in Nat /\ raw[i].depth <= k
  <2>1. \A i \in 1 .. Len(raw) : raw[i] \in Symbols
    OBVIOUS
  <2>2. \A i \in 1 .. Len(raw) : raw[i].depth <= k
    BY SettledDepths
  <2> QED
    BY <2>1, <2>2 DEF Symbols
<1>2. /\ text \in Seq(Symbols) /\ DOMAIN text = DOMAIN raw /\ DOMAIN raw = 1 .. Len(raw)
      /\ \A i \in 1 .. Len(raw) :
           /\ text[i].ch = raw[i].ch
           /\ text[i].depth = IF raw[i].depth < k THEN 0 ELSE raw[i].depth - k
  BY DecodedType
<1> HIDE DEF text
<1>3. \A i \in DOMAIN raw : text[i].depth = 0 /\ text[i].ch = raw[i].ch
  BY <1>1, <1>2
<1> QED
  BY <1>2, <1>3 DEF Characters, Decodes, text

\* The rounds in which the loop may break are those that reach the deepest escape.
LEMMA RoundsDepths ==
  ASSUME NEW raw \in Seq(Symbols)
  PROVE  Rounds(raw) = {k \in 0 .. MAX_DECODE_PASSES - 1 :
                            \A i \in 1 .. Len(raw) : raw[i].depth <= k}
<1>1. \A k \in 0 .. MAX_DECODE_PASSES - 1 : k \in Nat
  BY WallAssumption
<1> QED
  BY <1>1, SettledDepths DEF Rounds

\* What is judged in the round in which the loop breaks is what the resource decodes to.
LEMMA FirstRound ==
  ASSUME NEW raw \in Seq(Symbols), Rounds(raw) # {}
  PROVE  Characters(Decoded(raw, Min(Rounds(raw)))) = Decodes(raw)
<1>1. Rounds(raw) \in SUBSET Nat
  BY WallAssumption DEF Rounds
<1>2. Min(Rounds(raw)) \in Rounds(raw)
  BY <1>1, MinProperties
<1>3. Min(Rounds(raw)) \in Nat /\ Settled(Decoded(raw, Min(Rounds(raw))))
  BY <1>1, <1>2 DEF Rounds
<1> QED
  BY <1>3, SettledCharacters

-----------------------------------------------------------------------------
(***************************************************************************)
(* The judgement.                                                          *)
(***************************************************************************)
\* The raw resource is short enough and settles in time.
Legible(raw) == RawLength(raw) <= MAX_RESOURCE_LENGTH /\ Rounds(raw) # {}

\* The text without its Graph prefix.
Stripped(text, b) == IF b = "onedrive" THEN strip_graph_prefix(text) ELSE text

\* The components that are judged.
Components(text, b) == SplitComponents(StripLeading(Stripped(text, b)))

\* The text passes every check of JudgeText.
Fit(text, b) ==
    /\ {NUL, CTL} \cap Range(text) = {}
    /\ Stripped(text, b) \notin {<<>>, <<Separator>>}
    /\ {<<>>, <<".">>, <<".", ".">>} \cap Range(Components(text, b)) = {}

\* A text is accepted exactly when it is fit, and then names its components.
LEMMA JudgeFits ==
  ASSUME NEW text, NEW b
  PROVE  /\ JudgeText(text, b).ok <=> Fit(text, b)
         /\ Fit(text, b) => JudgeText(text, b) = Node(Components(text, b))
<1>1. \A reason : Refusal(reason).ok = FALSE
  BY DEF Refusal
<1>2. Node(Components(text, b)).ok = TRUE
  BY DEF Node
<1>3. ASSUME Fit(text, b) PROVE JudgeText(text, b) = Node(Components(text, b))
  BY <1>3 DEF Fit, JudgeText, Components, Stripped
<1>4. ASSUME ~ Fit(text, b) PROVE \E reason : JudgeText(text, b) = Refusal(reason)
  BY <1>4 DEF Fit, JudgeText, Components, Stripped
<1> QED
  BY <1>1, <1>2, <1>3, <1>4

\* The normalizer in one sentence: it judges what a legible resource decodes to, however
\* that is spelled, and refuses the others.
LEMMA AcceptedFits ==
  ASSUME NEW raw \in Seq(Symbols), NEW b \in DECLARED_BACKENDS
  PROVE  /\ Accepted(raw, b) <=> Legible(raw) /\ Fit(Decodes(raw), b)
         /\ Legible(raw) => normalize_store_node(raw, b) = JudgeText(Decodes(raw), b)
         /\ Accepted(raw, b) => NodeOf(raw, b) = Components(Decodes(raw), b)
<1>1. ASSUME Legible(raw)
      PROVE  normalize_store_node(raw, b) = JudgeText(Decodes(raw), b)
  <2>1. RawLength(raw) \in Nat /\ MAX_RESOURCE_LENGTH \in Nat
    BY RawLengthType, WallAssumption
  <2>2. ~ (RawLength(raw) > MAX_RESOURCE_LENGTH) /\ Rounds(raw) # {}
    BY <1>1, <2>1 DEF Legible
  <2>3. normalize_store_node(raw, b) = JudgeText(Characters(Decoded(raw, Min(Rounds(raw)))), b)
    BY <2>2 DEF normalize_store_node
  <2> QED
    BY <2>2, <2>3, FirstRound
<1>2. ASSUME ~ Legible(raw) PROVE ~ Accepted(raw, b)
  <2>1. RawLength(raw) \in Nat /\ MAX_RESOURCE_LENGTH \in Nat
    BY RawLengthType, WallAssumption
  <2>2. RawLength(raw) > MAX_RESOURCE_LENGTH \/ Rounds(raw) = {}
    BY <1>2, <2>1 DEF Legible
  <2> QED
    BY <2>2 DEF normalize_store_node, Accepted, Refusal
<1>3. Accepted(raw, b) <=> Legible(raw) /\ Fit(Decodes(raw), b)
  BY <1>1, <1>2, JudgeFits DEF Accepted
<1>4. Node(Components(Decodes(raw), b)).node = Components(Decodes(raw), b)
  BY DEF Node
<1> QED
  BY <1>1, <1>3, <1>4, JudgeFits DEF NodeOf

\* What is cut off in front leaves a text.
LEMMA StrippedType ==
  ASSUME NEW S, NEW text \in Seq(S), NEW b
  PROVE  Stripped(text, b) \in Seq(S) /\ StripLeading(Stripped(text, b)) \in Seq(S)
<1>1. Stripped(text, b) \in Seq(S)
  BY StripPrefixType DEF Stripped
<1> QED
  BY <1>1, StripLeadingType

\* There is at least one component, and none holds a separator.
LEMMA ComponentsType ==
  ASSUME NEW S, NEW text \in Seq(S), NEW b
  PROVE  /\ Components(text, b) \in Seq(Seq(S \ {Separator}))
         /\ Len(Components(text, b)) # 0
  BY StrippedType, SplitType DEF Components, SplitComponents

\* A text is spelled with its own characters.
LEMMA Spelling ==
  ASSUME NEW S, NEW text \in Seq(S)
  PROVE  text \in Seq(Range(text))
  BY DEF Range

-----------------------------------------------------------------------------
(***************************************************************************)
(* Proper nodes, whatever the spelling.                                    *)
(***************************************************************************)
\* Both resources are sequences of tokens.
TypeOK == scope \in Seq(Symbols) /\ request \in Seq(Symbols)

\* Every resource a caller spells is a sequence of tokens, whatever tokens there are and
\* however long it grows.
THEOREM TypeInvariant == Spec => []TypeOK
<1>1. Tokens \subseteq Symbols
  BY DEF Tokens, Symbols, Glyphs
<1>2. Init => TypeOK
  BY DEF Init, TypeOK
<1>3. TypeOK /\ [Next]_vars => TypeOK'
  <2> SUFFICES ASSUME TypeOK, [Next]_vars PROVE TypeOK'
    OBVIOUS
  <2>1. ASSUME NEW token \in ScopeTokens, SpellScope(token) PROVE TypeOK'
    <3>1. token \in Symbols
      BY <1>1, SpellingAssumption
    <3> QED
      BY <2>1, <3>1 DEF SpellScope, TypeOK
  <2>2. ASSUME NEW token \in RequestTokens, SpellRequest(token) PROVE TypeOK'
    <3>1. token \in Symbols
      BY <1>1, SpellingAssumption
    <3> QED
      BY <2>2, <3>1 DEF SpellRequest, TypeOK
  <2>3. CASE Spelled \/ UNCHANGED vars
    BY <2>3 DEF Spelled, vars, TypeOK
  <2> QED
    BY <2>1, <2>2, <2>3 DEF Next
<1> QED
  BY <1>2, <1>3, PTL DEF Spec

\* Of every such resource: what the normalizer accepts is a proper node.
LEMMA WellFormed == TypeOK => NodesWellFormed
<1> SUFFICES ASSUME TypeOK, NEW b \in DECLARED_BACKENDS, Accepted(request, b)
             PROVE  /\ NodeOf(request, b) # <<>>
                    /\ \A component \in Range(NodeOf(request, b)) :
                         /\ component \notin {<<>>, <<".">>, <<".", ".">>}
                         /\ {Separator, NUL, CTL} \cap Range(component) = {}
  BY DEF NodesWellFormed
<1> DEFINE text == Decodes(request)
           node == Components(text, b)
           S == Range(text)
<1>1. request \in Seq(Symbols)
  BY DEF TypeOK
<1>2. Fit(text, b) /\ NodeOf(request, b) = node
  BY <1>1, AcceptedFits
<1>3. text \in Seq(S)
  BY <1>1, DecodesType, Spelling
<1> HIDE DEF text, S
<1>4. node \in Seq(Seq(S \ {Separator})) /\ Len(node) # 0
  BY <1>3, ComponentsType
<1> HIDE DEF node
<1>5. NUL \notin S /\ CTL \notin S
  BY <1>2 DEF Fit, S
<1>6. ASSUME NEW component \in Range(node)
      PROVE  /\ component \notin {<<>>, <<".">>, <<".", ".">>}
             /\ {Separator, NUL, CTL} \cap Range(component) = {}
  <2>1. component \in Seq(S \ {Separator})
    BY <1>4 DEF Range
  <2>2. Range(component) \subseteq S \ {Separator}
    BY <2>1 DEF Range
  <2>3. component \notin {<<>>, <<".">>, <<".", ".">>}
    BY <1>2 DEF Fit, node
  <2> QED
    BY <1>5, <2>2, <2>3
<1> QED
  BY <1>2, <1>4, <1>6

\* Whatever is spelled, an accepted node has components, none of them empty, dotted or with
\* a separator or a control character in it (policy.py, normalize_store_node).
THEOREM NodesAreWellFormed == Spec => []NodesWellFormed
  BY TypeInvariant, WellFormed, PTL

\* Of every pair of such resources: the spelling does not matter.
LEMMA Blind == TypeOK => EncodingBlind
<1> SUFFICES ASSUME TypeOK, NEW b \in DECLARED_BACKENDS
             PROVE  /\ Accepted(request, b) =>
                         normalize_store_node(request, b)
                           = normalize_store_node(Plain(Decodes(request)), b)
                    /\ Accepted(scope, b) /\ Accepted(request, b)
                         /\ Decodes(scope) = Decodes(request) =>
                         NodeOf(scope, b) = NodeOf(request, b)
  BY DEF EncodingBlind
<1>1. request \in Seq(Symbols) /\ scope \in Seq(Symbols)
  BY DEF TypeOK
<1>2. ASSUME Accepted(request, b)
      PROVE  normalize_store_node(request, b) = normalize_store_node(Plain(Decodes(request)), b)
  <2> DEFINE text == Decodes(request)
             plain == Plain(text)
  <2>1. text \in Seq(Glyphs) /\ Len(text) = Len(request) /\ Len(request) \in Nat
    BY <1>1, DecodesType
  <2> HIDE DEF text
  <2>2. /\ plain \in Seq(Symbols) /\ Len(plain) = Len(text)
        /\ \A i \in 1 .. Len(plain) : plain[i].depth = 0
        /\ Decodes(plain) = text
    <3>1. /\ plain \in Seq(Symbols) /\ Len(plain) = Len(text)
          /\ \A i \in 1 .. Len(text) : plain[i] = [ch |-> text[i], depth |-> 0]
      BY <2>1, PlainType
    <3>2. Decodes(plain) = text
      BY <2>1, DecodesPlain
    <3> HIDE DEF plain
    <3>3. ASSUME NEW i \in 1 .. Len(plain) PROVE plain[i].depth = 0
      <4>1. i \in 1 .. Len(text)
        BY <3>1
      <4>2. plain[i] = [ch |-> text[i], depth |-> 0]
        BY <3>1, <4>1
      <4> QED
        BY <4>2
    <3> QED
      BY <3>1, <3>2, <3>3
  <2> HIDE DEF plain
  <2>3. Legible(request)
    BY <1>1, <1>2, AcceptedFits
  <2>4. Legible(plain)
    <3>1. RawLength(plain) = Len(plain) /\ RawLength(request) \in Nat
          /\ RawLength(request) >= Len(request)
      BY <1>1, <2>2, RawLengthPlain, RawLengthType
    <3>2. 0 \in Rounds(plain)
      BY <2>2, RoundsDepths, WallAssumption
    <3> QED
      BY <2>1, <2>2, <2>3, <3>1, <3>2, WallAssumption DEF Legible
  <2>5. normalize_store_node(request, b) = JudgeText(text, b)
    BY <1>1, <2>3, AcceptedFits DEF text
  <2>6. normalize_store_node(plain, b) = JudgeText(text, b)
    BY <2>2, <2>4, AcceptedFits
  <2> QED
    BY <2>5, <2>6 DEF plain, text
<1>3. ASSUME Accepted(scope, b), Accepted(request, b), Decodes(scope) = Decodes(request)
      PROVE  NodeOf(scope, b) = NodeOf(request, b)
  BY <1>1, <1>3, AcceptedFits
<1> QED
  BY <1>2, <1>3

\* Whatever the depth of the escapes and the number of rounds, two accepted spellings of one
\* text name one node, and the plain spelling is accepted with them (the decode loop).
THEOREM EncodingIsBlind == Spec => []EncodingBlind
  BY TypeInvariant, Blind, PTL

-----------------------------------------------------------------------------
(***************************************************************************)
(* Below a scope, and behind a Graph prefix.                               *)
(***************************************************************************)
\* A suffix that completes no Graph prefix does not change what is cut off.
LEMMA StrippedCat ==
  ASSUME NEW text \in Seq(Glyphs), NEW more \in Seq(Glyphs), NEW b,
         b = "onedrive" /\ GraphPrefixed(text \o more) => GraphPrefixed(text)
  PROVE  Stripped(text \o more, b) = Stripped(text, b) \o more
<1>1. CASE b # "onedrive"
  BY <1>1 DEF Stripped
<1>2. CASE b = "onedrive" /\ ~ GraphPrefixed(text)
  BY <1>2 DEF Stripped, strip_graph_prefix
<1>3. CASE b = "onedrive" /\ GraphPrefixed(text)
  <2>1. Drives \in Seq(Glyphs)
    BY DEF Drives, Glyphs, Separator
  <2> QED
    BY <1>3, <2>1, StripPrefixCat DEF Stripped
<1> QED
  BY <1>1, <1>2, <1>3

\* A text of slashes alone is not fit.
LEMMA SomethingSolid ==
  ASSUME NEW text \in Seq(Glyphs), NEW b, Fit(text, b)
  PROVE  Solid(Stripped(text, b)) # {}
<1> SUFFICES ASSUME Solid(Stripped(text, b)) = {} PROVE FALSE
  OBVIOUS
<1>1. StripLeading(Stripped(text, b)) = <<>>
  BY DEF StripLeading, Solid
<1>2. Components(text, b) = << <<>> >>
  BY <1>1, SplitFolds DEF Components, SplitComponents
<1>3. <<>> \in Range(<< <<>> >>)
  BY DEF Range
<1> QED
  BY <1>2, <1>3 DEF Fit

\* The components below a scope are the components of the scope and some more.
LEMMA ComponentsCat ==
  ASSUME NEW text \in Seq(Glyphs), NEW more \in Seq(Glyphs), NEW b, Fit(text, b),
         b = "onedrive" /\ GraphPrefixed(text \o <<Separator>> \o more) => GraphPrefixed(text)
  PROVE  Components(text \o <<Separator>> \o more, b)
           = Components(text, b) \o SplitComponents(more)
<1> DEFINE tail == <<Separator>> \o more
           whole == text \o <<Separator>> \o more
           front == Stripped(text, b)
           path == StripLeading(front)
<1>1. Separator \in Glyphs /\ <<Separator>> \in Seq(Glyphs)
  BY DEF Glyphs, Separator
<1>2. tail \in Seq(Glyphs) /\ whole = text \o tail
  BY <1>1, ConcatAssociative
<1>3. front \in Seq(Glyphs) /\ path \in Seq(Glyphs)
  BY StrippedType
<1> HIDE DEF tail, whole, front, path
<1>4. Stripped(whole, b) = front \o tail
  <2>1. b = "onedrive" /\ GraphPrefixed(text \o tail) => GraphPrefixed(text)
    BY <1>2 DEF whole
  <2>2. Stripped(text \o tail, b) = Stripped(text, b) \o tail
    BY <1>2, <2>1, StrippedCat
  <2> QED
    BY <1>2, <2>2 DEF front
<1>5. StripLeading(front \o tail) = path \o tail
  BY <1>2, <1>3, SomethingSolid, StripLeadingCat DEF front, path
<1>6. path \o tail = Append(path, Separator) \o more
  <2>1. path \o (<<Separator>> \o more) = (path \o <<Separator>>) \o more
    BY <1>1, <1>3, ConcatAssociative
  <2>2. path \o <<Separator>> = Append(path, Separator)
    BY <1>1, <1>3, AppendIsConcat
  <2> QED
    BY <2>1, <2>2 DEF tail
<1>7. SplitAt(Append(path, Separator) \o more, Separator)
        = SplitAt(path, Separator) \o SplitAt(more, Separator)
  BY <1>1, <1>3, SplitCat
<1> QED
  BY <1>4, <1>5, <1>6, <1>7 DEF Components, SplitComponents, whole, path, front

\* Of every pair of such resources: what is spelled below a scope is judged below it.
LEMMA Closed == TypeOK => SubtreeClosed
<1> DEFINE below == scope \o <<Token(Separator, 0)>> \o request
<1> SUFFICES ASSUME TypeOK, NEW b \in DECLARED_BACKENDS, Accepted(scope, b), Accepted(below, b),
                    b = "onedrive" /\ GraphPrefixed(Decodes(below))
                      => GraphPrefixed(Decodes(scope))
             PROVE  covers(NodeOf(scope, b), NodeOf(below, b))
  BY DEF SubtreeClosed
<1> DEFINE slash == Token(Separator, 0)
           text == Decodes(scope)
           more == Decodes(request)
<1>1. scope \in Seq(Symbols) /\ request \in Seq(Symbols)
  BY DEF TypeOK
<1>2. slash \in Symbols /\ slash.ch = Separator
  BY DEF Token, Symbols, Glyphs, Separator
<1> HIDE DEF slash
<1>3. PICK mid \in Seq(Symbols) : mid = <<slash>>
  <2>1. <<slash>> \in Seq(Symbols)
    BY <1>2
  <2> QED
    BY <2>1
<1>4. Decodes(mid) = <<Separator>>
  BY <1>2, <1>3 DEF Decodes
<1>5. PICK front \in Seq(Symbols) : front = scope \o mid
  <2>1. scope \o mid \in Seq(Symbols)
    BY <1>1
  <2> QED
    BY <2>1
<1>6. below \in Seq(Symbols) /\ below = front \o request
  BY <1>1, <1>3, <1>5 DEF slash
<1>7. Decodes(below) = text \o <<Separator>> \o more
  <2>1. Decodes(front) = Decodes(scope) \o Decodes(mid)
    BY <1>1, <1>5, DecodesCat
  <2>2. Decodes(front \o request) = Decodes(front) \o Decodes(request)
    BY <1>1, DecodesCat
  <2> QED
    BY <1>4, <1>6, <2>1, <2>2
<1>8. text \in Seq(Glyphs) /\ more \in Seq(Glyphs)
  BY <1>1, DecodesType
<1>9. Fit(text, b) /\ NodeOf(scope, b) = Components(text, b)
  BY <1>1, AcceptedFits
<1>10. NodeOf(below, b) = Components(Decodes(below), b)
  BY <1>6, AcceptedFits
<1> HIDE DEF below, text, more
<1>11. NodeOf(below, b) = Components(text, b) \o SplitComponents(more)
  BY <1>7, <1>8, <1>9, <1>10, ComponentsCat DEF text
<1>12. Components(text, b) \in Seq(Seq(Glyphs)) /\ SplitComponents(more) \in Seq(Seq(Glyphs))
  BY <1>8, StrippedType, SplitTexts DEF Components, SplitComponents
<1>13. ASSUME NEW p \in Seq(Seq(Glyphs)), NEW q \in Seq(Seq(Glyphs)) PROVE IsPrefix(p, p \o q)
  <2>1. SubSeq(p, 1, Len(p)) = SubSeq(p \o q, 1, Len(p))
    <3>1. CASE Len(p) = 0
      BY <3>1, SubSeqEmpty
    <3>2. CASE Len(p) # 0
      BY <3>2, SubSeqOfConcat1
    <3> QED
      BY <3>1, <3>2
  <2> QED
    BY <2>1 DEF IsPrefix
<1> QED
  BY <1>9, <1>11, <1>12, <1>13 DEF covers

\* No suffix of any tokens leads out of the subtree that an accepted scope names, so that a
\* grant on a node covers what is addressed below it and never anything beside it.
THEOREM SubtreesAreClosed == Spec => []SubtreeClosed
  BY TypeInvariant, Closed, PTL

\* The Graph prefix of the run.
Prefix == <<"/", "drives", "/", "id", "/", "root:">>

\* It has the shape the code looks for, and nothing is left when it is cut off.
LEMMA PrefixShape ==
  /\ Prefix \in Seq(Glyphs) /\ Len(Prefix) = 6
  /\ GraphPrefixed(Prefix) /\ strip_graph_prefix(Prefix) = <<>>
  /\ {NUL, CTL} \cap Range(Prefix) = {}
<1>1. Prefix \in Seq(Glyphs) /\ Len(Prefix) = 6
  BY DEF Prefix, Glyphs
<1>2. IsPrefix(Drives, Prefix)
  <2>1. Len(Drives) = 3 /\ Drives \in Seq(Glyphs)
    BY DEF Drives, Separator, Glyphs
  <2>2. /\ Drives[1] = Prefix[1] /\ Drives[2] = Prefix[2] /\ Drives[3] = Prefix[3]
    BY DEF Drives, Prefix, Separator
  <2>3. SubSeq(Drives, 1, 3) = SubSeq(Prefix, 1, 3)
    BY DEF Drives, Prefix, Separator
  <2> QED
    BY <1>1, <2>1, <2>3 DEF IsPrefix
<1>3. Roots(Prefix) = {5}
  <2>1. ASSUME NEW i \in 1 .. 5
        PROVE  Prefix[i] = Separator /\ Prefix[i + 1] = "root:" <=> i = 5
    <3>1. i = 1 \/ i = 2 \/ i = 3 \/ i = 4 \/ i = 5
      OBVIOUS
    <3> QED
      BY <3>1 DEF Prefix, Separator
  <2>2. Len(Prefix) - 1 = 5
    BY <1>1
  <2> QED
    BY <2>1, <2>2 DEF Roots
<1>4. GraphPrefixed(Prefix)
  BY <1>2, <1>3 DEF GraphPrefixed
<1>5. Min(Roots(Prefix)) = 5
  BY <1>1, <1>3, RootsType
<1>6. strip_graph_prefix(Prefix) = <<>>
  <2>1. strip_graph_prefix(Prefix) = SubSeq(Prefix, 7, 6)
    BY <1>1, <1>4, <1>5 DEF strip_graph_prefix
  <2> QED
    BY <1>1, <2>1
<1>7. {NUL, CTL} \cap Range(Prefix) = {}
  BY DEF Range, Prefix, NUL, CTL
<1> QED
  BY <1>1, <1>4, <1>6, <1>7

\* Behind the prefix a text without one has the components it has alone.
LEMMA BehindPrefix ==
  ASSUME NEW text \in Seq(Glyphs), ~ GraphPrefixed(text)
  PROVE  /\ Components(Prefix \o text, "onedrive") = Components(text, "onedrive")
         /\ Fit(Prefix \o text, "onedrive") <=> Fit(text, "onedrive")
<1> DEFINE whole == Prefix \o text
<1>1. Prefix \in Seq(Glyphs) /\ Drives \in Seq(Glyphs)
  BY PrefixShape DEF Drives, Separator, Glyphs
<1>2. strip_graph_prefix(whole) = text
  <2>1. strip_graph_prefix(whole) = strip_graph_prefix(Prefix) \o text
    BY <1>1, PrefixShape, StripPrefixCat
  <2>2. <<>> \o text = text
    OBVIOUS
  <2> QED
    BY <2>1, <2>2, PrefixShape
<1>3. Range(whole) = Range(Prefix) \cup Range(text)
  BY <1>1, RangeConcatenation
<1> HIDE DEF whole
<1>4. Stripped(whole, "onedrive") = text /\ Stripped(text, "onedrive") = text
  BY <1>2 DEF Stripped, strip_graph_prefix
<1>5. {NUL, CTL} \cap Range(whole) = {NUL, CTL} \cap Range(text)
  BY <1>3, PrefixShape
<1> QED
  BY <1>4, <1>5 DEF Components, Fit, whole

\* The prefix adds no escape, and no more than its length.
LEMMA PrefixedLegible ==
  ASSUME NEW raw \in Seq(Symbols)
  PROVE  /\ Plain(Prefix) \o raw \in Seq(Symbols)
         /\ Decodes(Plain(Prefix) \o raw) = Prefix \o Decodes(raw)
         /\ Legible(Plain(Prefix) \o raw) => Legible(raw)
         /\ Legible(raw) /\ RawLength(Plain(Prefix) \o raw) <= MAX_RESOURCE_LENGTH
              => Legible(Plain(Prefix) \o raw)
<1> DEFINE plain == Plain(Prefix)
           whole == plain \o raw
<1>1. /\ plain \in Seq(Symbols) /\ Len(plain) = 6
      /\ \A i \in 1 .. 6 : plain[i] = [ch |-> Prefix[i], depth |-> 0]
  BY PrefixShape, PlainType
<1>2. Decodes(plain) = Prefix
  BY PrefixShape, DecodesPlain
<1> HIDE DEF plain
<1>3. \A i \in 1 .. 6 : plain[i].depth = 0
  <2> SUFFICES ASSUME NEW i \in 1 .. 6 PROVE plain[i].depth = 0
    OBVIOUS
  <2>1. plain[i] = [ch |-> Prefix[i], depth |-> 0]
    BY <1>1
  <2> QED
    BY <2>1
<1>4. /\ whole \in Seq(Symbols) /\ Len(whole) = 6 + Len(raw) /\ Len(raw) \in Nat
      /\ \A i \in 1 .. 6 : whole[i] = plain[i]
      /\ \A i \in 1 .. Len(raw) : whole[6 + i] = raw[i]
  <2>1. plain \in Seq(Symbols)
    BY <1>1
  <2>2. /\ whole \in Seq(Symbols) /\ Len(whole) = Len(plain) + Len(raw) /\ Len(raw) \in Nat
        /\ \A i \in 1 .. Len(plain) : whole[i] = plain[i]
        /\ \A i \in 1 .. Len(raw) : whole[Len(plain) + i] = raw[i]
    BY <2>1
  <2> HIDE DEF whole
  <2>3. Len(plain) = 6
    BY <1>1
  <2> QED
    BY <2>2, <2>3
<1>5. Decodes(whole) = Prefix \o Decodes(raw)
  BY <1>1, <1>2, DecodesCat
<1>6. RawLength(whole) = 6 + RawLength(raw)
  <2>1. RawLength(plain) = 6
    BY <1>1, <1>3, RawLengthPlain
  <2> QED
    BY <1>1, <2>1, RawLengthCat
<1> HIDE DEF whole
<1>7. Rounds(whole) = Rounds(raw)
  <2>1. ASSUME NEW k \in 0 .. MAX_DECODE_PASSES - 1
        PROVE  (\A i \in 1 .. Len(whole) : whole[i].depth <= k)
                 <=> (\A i \in 1 .. Len(raw) : raw[i].depth <= k)
    <3>1. k \in Nat
      BY WallAssumption
    <3>2. ASSUME \A i \in 1 .. Len(whole) : whole[i].depth <= k, NEW i \in 1 .. Len(raw)
          PROVE  raw[i].depth <= k
      <4>1. 6 + i \in 1 .. Len(whole) /\ whole[6 + i] = raw[i]
        BY <1>4
      <4>2. whole[6 + i].depth <= k
        BY <3>2, <4>1
      <4> QED
        BY <4>1, <4>2
    <3>3. ASSUME \A i \in 1 .. Len(raw) : raw[i].depth <= k, NEW i \in 1 .. Len(whole)
          PROVE  whole[i].depth <= k
      <4>1. CASE i \in 1 .. 6
        <5>1. whole[i].depth = 0
          BY <1>3, <1>4, <4>1
        <5> QED
          BY <3>1, <5>1
      <4>2. CASE i \notin 1 .. 6
        <5>1. i - 6 \in 1 .. Len(raw) /\ i = 6 + (i - 6)
          BY <1>4, <4>2
        <5>2. whole[6 + (i - 6)] = raw[i - 6]
          BY <1>4, <5>1
        <5>3. whole[i] = raw[i - 6]
          BY <5>1, <5>2
        <5> QED
          BY <3>3, <5>1, <5>3
      <4> QED
        BY <4>1, <4>2
    <3> QED
      BY <3>2, <3>3
  <2> QED
    BY <1>4, <2>1, RoundsDepths
<1>8. RawLength(raw) \in Nat
  BY RawLengthType
<1>9. /\ Legible(whole) => Legible(raw)
      /\ Legible(raw) /\ RawLength(whole) <= MAX_RESOURCE_LENGTH => Legible(whole)
  BY <1>6, <1>7, <1>8, WallAssumption DEF Legible
<1> QED
  BY <1>4, <1>5, <1>9 DEF whole, plain

\* Of every such resource: the prefix does not matter.
LEMMA PrefixBlind == TypeOK => GraphPrefixBlind
<1> DEFINE prefixed == Plain(Prefix) \o request
           text == Decodes(request)
<1> SUFFICES ASSUME TypeOK, ~ GraphPrefixed(text)
             PROVE  /\ Accepted(prefixed, "onedrive") =>
                         /\ Accepted(request, "onedrive")
                         /\ NodeOf(prefixed, "onedrive") = NodeOf(request, "onedrive")
                    /\ Accepted(request, "onedrive")
                         /\ RawLength(prefixed) <= MAX_RESOURCE_LENGTH =>
                         Accepted(prefixed, "onedrive")
  BY DEF GraphPrefixBlind, Prefix
<1>1. request \in Seq(Symbols) /\ "onedrive" \in DECLARED_BACKENDS
  BY DEF TypeOK, DECLARED_BACKENDS
<1>2. text \in Seq(Glyphs)
  BY <1>1, DecodesType
<1>3. /\ prefixed \in Seq(Symbols) /\ Decodes(prefixed) = Prefix \o text
      /\ Legible(prefixed) => Legible(request)
      /\ Legible(request) /\ RawLength(prefixed) <= MAX_RESOURCE_LENGTH => Legible(prefixed)
  BY <1>1, PrefixedLegible
<1> HIDE DEF prefixed
<1>4. /\ Accepted(prefixed, "onedrive") <=> Legible(prefixed) /\ Fit(Prefix \o text, "onedrive")
      /\ Accepted(prefixed, "onedrive") =>
           NodeOf(prefixed, "onedrive") = Components(Prefix \o text, "onedrive")
  BY <1>1, <1>3, AcceptedFits
<1>5. /\ Accepted(request, "onedrive") <=> Legible(request) /\ Fit(text, "onedrive")
      /\ Accepted(request, "onedrive") =>
           NodeOf(request, "onedrive") = Components(text, "onedrive")
  BY <1>1, AcceptedFits
<1> HIDE DEF text
<1>6. /\ Components(Prefix \o text, "onedrive") = Components(text, "onedrive")
      /\ Fit(Prefix \o text, "onedrive") <=> Fit(text, "onedrive")
  BY <1>2, BehindPrefix
<1> QED
  BY <1>3, <1>4, <1>5, <1>6

\* A Graph prefix never changes the node, whatever follows it, and is refused only for the
\* length it adds (policy.py, strip_graph_prefix).
THEOREM PrefixIsBlind == Spec => []GraphPrefixBlind
  BY TypeInvariant, PrefixBlind, PTL

-----------------------------------------------------------------------------
(***************************************************************************)
(* Addresses as they were spelled.                                         *)
(***************************************************************************)
\* A set of places in a text has a last one.
LEMMA MaxProperties ==
  ASSUME NEW n \in Nat, NEW T \in SUBSET (1 .. n), T # {}
  PROVE  Max(T) \in T /\ \A i \in T : i <= Max(T)
<1> DEFINE U == {n - i : i \in T}
<1>1. U \in SUBSET Nat /\ U # {}
  <2>1. \A i \in T : n - i \in Nat
    OBVIOUS
  <2> QED
    BY <2>1
<1>2. PICK m \in U : \A u \in U : m <= u
  BY <1>1, CutAt!Least
<1>3. PICK i \in T : m = n - i
  OBVIOUS
<1>4. \A j \in T : n - j \in U /\ j \in Nat
  OBVIOUS
<1>5. \A j \in T : j <= i
  BY <1>2, <1>3, <1>4
<1>6. \E x \in T : \A y \in T : x >= y
  BY <1>4, <1>5
<1>7. Max(T) \in T /\ \A y \in T : Max(T) >= y
  BY <1>6 DEF Max
<1> QED
  BY <1>4, <1>7

\* What is cut off in front of the text leaves its end.
Ends(tail, text) == tail # <<>> => text # <<>> /\ tail[Len(tail)] = text[Len(text)]

\* A suffix has the end of its text.
LEMMA SuffixEnds ==
  ASSUME NEW S, NEW text \in Seq(S), NEW i \in 1 .. Len(text) + 1
  PROVE  Ends(SubSeq(text, i, Len(text)), text)
<1> DEFINE tail == SubSeq(text, i, Len(text))
<1>1. /\ tail \in Seq(S) /\ Len(tail) = Len(text) - i + 1 /\ Len(text) \in Nat
      /\ \A j \in 1 .. Len(text) - i + 1 : tail[j] = text[i + j - 1]
  BY SuffixType
<1> HIDE DEF tail
<1>2. ASSUME tail # <<>> PROVE text # <<>> /\ tail[Len(tail)] = text[Len(text)]
  <2>1. Len(tail) # 0
    BY <1>1, <1>2
  <2>2. Len(tail) \in 1 .. Len(text) - i + 1 /\ i + Len(tail) - 1 = Len(text)
    BY <1>1, <2>1
  <2>3. tail[Len(tail)] = text[i + Len(tail) - 1]
    BY <1>1, <2>2
  <2> QED
    BY <1>1, <2>2, <2>3
<1> QED
  BY <1>2 DEF Ends, tail

\* The text that is split has the end of the whole text.
LEMMA StrippedEnds ==
  ASSUME NEW S, NEW text \in Seq(S), NEW b
  PROVE  Ends(StripLeading(Stripped(text, b)), text)
<1> DEFINE cut == Stripped(text, b)
           path == StripLeading(cut)
<1>1. cut \in Seq(S) /\ path \in Seq(S)
  BY StrippedType
<1>2. Ends(cut, text)
  <2>1. CASE b = "onedrive" /\ GraphPrefixed(text)
    <3>1. Min(Roots(text)) + 2 \in 1 .. Len(text) + 1
      BY <2>1, RootsType DEF GraphPrefixed
    <3> QED
      BY <2>1, <3>1, SuffixEnds DEF Stripped, strip_graph_prefix
  <2>2. CASE ~ (b = "onedrive" /\ GraphPrefixed(text))
    BY <2>2 DEF Stripped, strip_graph_prefix, Ends
  <2> QED
    BY <2>1, <2>2
<1> HIDE DEF cut
<1>3. Ends(path, cut)
  <2>1. CASE Solid(cut) = {}
    BY <2>1 DEF StripLeading, Solid, Ends
  <2>2. CASE Solid(cut) # {}
    <3>1. Solid(cut) \in SUBSET Nat /\ Solid(cut) \subseteq 1 .. Len(cut) /\ Len(cut) \in Nat
      BY <1>1 DEF Solid
    <3>2. Min(Solid(cut)) \in 1 .. Len(cut) + 1
      <4>1. Min(Solid(cut)) \in Solid(cut)
        BY <2>2, <3>1, MinProperties
      <4> QED
        BY <3>1, <4>1
    <3> QED
      BY <1>1, <2>2, <3>2, SuffixEnds DEF StripLeading, Solid
  <2> QED
    BY <2>1, <2>2
<1> HIDE DEF path
<1>4. Ends(path, text)
  BY <1>2, <1>3 DEF Ends
<1> QED
  BY <1>4 DEF path, cut

\* A fit text does not end with a separator: the last component would be empty.
LEMMA NoTrailingSeparator ==
  ASSUME NEW text \in Seq(Glyphs), NEW b, Fit(text, b)
  PROVE  text # <<>> /\ text[Len(text)] # Separator
<1> DEFINE path == StripLeading(Stripped(text, b))
<1>1. path \in Seq(Glyphs) /\ Ends(path, text)
  BY StrippedType, StrippedEnds
<1>2. SplitAt(path, Separator) = Components(text, b)
  BY DEF Components, SplitComponents
<1> HIDE DEF path
<1>3. <<>> \notin Range(SplitAt(path, Separator))
  BY <1>2 DEF Fit
<1>4. path # <<>>
  <2> SUFFICES ASSUME path = <<>> PROVE FALSE
    OBVIOUS
  <2>1. SplitAt(path, Separator) = << <<>> >>
    BY SplitFolds
  <2>2. <<>> \in Range(<< <<>> >>)
    BY DEF Range
  <2> QED
    BY <1>3, <2>1, <2>2
<1>5. path[Len(path)] # Separator
  <2> SUFFICES ASSUME path[Len(path)] = Separator PROVE FALSE
    OBVIOUS
  <2> DEFINE front == SubSeq(path, 1, Len(path) - 1)
             parts == SplitAt(front, Separator)
  <2>1. front \in Seq(Glyphs) /\ path = Append(front, Separator) /\ Separator \in Glyphs
    BY <1>1, <1>4 DEF Separator, Glyphs
  <2>2. parts \in Seq(Seq(Glyphs \ {Separator}))
    BY <2>1, SplitType
  <2> HIDE DEF front
  <2>3. SplitAt(path, Separator) = Append(parts, <<>>)
    <3>1. SplitAt(Append(front, Separator), Separator) = Extend(Separator, parts, Separator)
      BY <2>1, SplitFolds
    <3>2. Extend(Separator, parts, Separator) = Append(parts, <<>>)
      BY DEF Extend
    <3> QED
      BY <2>1, <3>1, <3>2, Zenon
  <2> HIDE DEF parts
  <2>4. <<>> \in Range(Append(parts, <<>>))
    <3>1. Append(parts, <<>>)[Len(parts) + 1] = <<>>
          /\ Len(parts) + 1 \in DOMAIN Append(parts, <<>>)
      BY <2>2
    <3> QED
      BY <3>1, Zenon DEF Range
  <2> QED
    BY <1>3, <2>3, <2>4
<1> QED
  BY <1>1, <1>4, <1>5 DEF Ends

\* rpartition cuts at the last slash, and the name is empty only behind a trailing one.
LEMMA PartitionedType ==
  ASSUME NEW raw \in Seq(Symbols), Slashes(raw) # {}
  PROVE  /\ rpartition(raw).parent \in Seq(Symbols)
         /\ rpartition(raw).name \in Seq(Symbols \ {Slash})
         /\ raw = Append(rpartition(raw).parent, Slash) \o rpartition(raw).name
         /\ rpartition(raw).name = <<>> => raw # <<>> /\ raw[Len(raw)] = Slash
<1> DEFINE n == Len(raw)
           i == Max(Slashes(raw))
           parent == SubSeq(raw, 1, i - 1)
           name == SubSeq(raw, i + 1, n)
<1>1. n \in Nat /\ DOMAIN raw = 1 .. n /\ Slashes(raw) \in SUBSET (1 .. n)
  BY DEF Slashes
<1>2. /\ i \in 1 .. n /\ raw[i] = Slash
      /\ \A j \in 1 .. n : raw[j] = Slash => j <= i
  BY <1>1, MaxProperties DEF Slashes
<1>3. rpartition(raw).parent = parent /\ rpartition(raw).name = name
  BY DEF rpartition
<1> HIDE DEF i
<1>4. /\ parent \in Seq(Symbols) /\ Len(parent) = i - 1
      /\ \A j \in 1 .. i - 1 : parent[j] = raw[j]
  BY <1>1, <1>2
<1>5. /\ name \in Seq(Symbols) /\ Len(name) = n - i
      /\ \A j \in 1 .. n - i : name[j] = raw[i + j]
  <2>1. i + 1 \in 1 .. n + 1 /\ n - (i + 1) + 1 = n - i
        /\ \A j \in 1 .. n - i : (i + 1) + j - 1 = i + j
    BY <1>1, <1>2
  <2>2. /\ name \in Seq(Symbols) /\ Len(name) = n - (i + 1) + 1
        /\ \A j \in 1 .. n - (i + 1) + 1 : name[j] = raw[(i + 1) + j - 1]
    BY <2>1, SuffixType
  <2> HIDE DEF name
  <2> QED
    BY <2>1, <2>2
<1> HIDE DEF parent, name
<1>6. name \in Seq(Symbols \ {Slash})
  <2>1. ASSUME NEW j \in 1 .. n - i PROVE name[j] \in Symbols \ {Slash}
    <3>1. i + j \in 1 .. n /\ ~ (i + j <= i)
      BY <1>1, <1>2
    <3>2. raw[i + j] # Slash /\ raw[i + j] \in Symbols
      BY <1>1, <1>2, <3>1
    <3> QED
      BY <1>5, <3>2
  <2> QED
    BY <1>1, <1>2, <1>5, <2>1
<1> DEFINE front == Append(parent, Slash)
<1>7. /\ front \in Seq(Symbols) /\ Len(front) = i
      /\ \A j \in 1 .. i : front[j] = raw[j]
  BY <1>1, <1>2, <1>4, SlashToken
<1> HIDE DEF front
<1>8. raw = front \o name
  <2>1. Len(raw) = Len(front) + Len(name)
    BY <1>1, <1>2, <1>5, <1>7
  <2>2. \A j \in 1 .. Len(front) : raw[j] = front[j]
    BY <1>7
  <2>3. \A j \in 1 .. Len(name) : raw[Len(front) + j] = name[j]
    BY <1>5, <1>7
  <2> QED
    BY <1>5, <1>7, <2>1, <2>2, <2>3, ConcatPointwise
<1>9. name = <<>> => raw # <<>> /\ raw[n] = Slash
  <2> SUFFICES ASSUME name = <<>> PROVE raw # <<>> /\ raw[n] = Slash
    OBVIOUS
  <2>1. Len(name) = 0
    OBVIOUS
  <2>2. n - i = 0
    BY <1>5, <2>1, Zenon
  <2>3. i = n
    <3>1. n \in Nat /\ i \in 1 .. n
      BY <1>1, <1>2
    <3> HIDE DEF n
    <3> QED
      BY <2>2, <3>1
  <2> QED
    BY <1>1, <1>2, <2>3
<1> QED
  BY <1>3, <1>4, <1>6, <1>8, <1>9 DEF front

\* What url_path builds leads to the names it was given.
LEMMA FindsNames ==
  ASSUME NEW raw \in Seq(Symbols)
  PROVE  NodeAt(url_path(raw)) = Names(raw)
  BY NamesType, PathFound DEF url_path

\* No accepted resource ends with a slash.
LEMMA AcceptedEnd ==
  ASSUME NEW raw \in Seq(Symbols), NEW b \in DECLARED_BACKENDS, Accepted(raw, b)
  PROVE  raw # <<>> /\ raw[Len(raw)] # Slash
<1>1. Fit(Decodes(raw), b)
  BY AcceptedFits
<1>2. Decodes(raw) \in Seq(Glyphs) /\ Len(Decodes(raw)) = Len(raw)
  BY DecodesType
<1>3. Decodes(raw) # <<>> /\ Decodes(raw)[Len(raw)] # Separator
  <2>1. PICK text \in Seq(Glyphs) : text = Decodes(raw)
    BY <1>2
  <2> QED
    BY <1>1, <1>2, <2>1, NoTrailingSeparator
<1>4. Len(raw) # 0
  BY <1>2, <1>3
<1>5. Len(raw) \in DOMAIN raw
  BY <1>4
<1>6. Decodes(raw)[Len(raw)] = raw[Len(raw)].ch
  BY <1>5 DEF Decodes
<1>7. Slash.ch = Separator
  BY DEF Slash
<1> QED
  BY <1>3, <1>4, <1>6, <1>7

\* What mkdir cuts apart is put together again, unless the name is empty.
LEMMA MkdirAsSpelled ==
  ASSUME NEW raw \in Seq(Symbols), raw # <<>>, raw[Len(raw)] # Slash
  PROVE  mkdir_node(raw) = Names(raw)
<1>1. CASE Slashes(raw) = {}
  <2>1. raw \in Name(Symbols)
    <3>1. \A i \in 1 .. Len(raw) : raw[i] \in Symbols \ {Slash}
      BY <1>1 DEF Slashes
    <3> QED
      BY <3>1 DEF Name
  <2>2. rpartition(raw).parent = <<>> /\ rpartition(raw).name = raw
    BY <1>1 DEF rpartition
  <2>3. NodeAt(url_path(<<>>)) = <<>>
    <3>1. <<>> \in Seq(Symbols)
      OBVIOUS
    <3> QED
      BY <3>1, FindsNames, NamesNone, Zenon
  <2>4. mkdir_node(raw) = Append(<<>>, raw)
    BY <2>2, <2>3, Zenon DEF mkdir_node
  <2> QED
    BY <2>1, <2>4, NamesOne
<1>2. CASE Slashes(raw) # {}
  <2> DEFINE parent == rpartition(raw).parent
             name == rpartition(raw).name
  <2>1. /\ parent \in Seq(Symbols) /\ name \in Name(Symbols) /\ name \in Seq(Symbols)
        /\ raw = Append(parent, Slash) \o name
    <3>1. Seq(Symbols \ {Slash}) \subseteq Seq(Symbols)
      OBVIOUS
    <3> QED
      BY <1>2, <3>1, PartitionedType DEF Name
  <2>2. mkdir_node(raw) = Append(NodeAt(url_path(parent)), name)
    BY DEF mkdir_node
  <2> HIDE DEF parent, name
  <2>3. NodeAt(url_path(parent)) = Names(parent)
    BY <2>1, FindsNames
  <2>4. Names(Append(parent, Slash) \o name) = Names(parent) \o Names(name)
    BY <2>1, SlashToken, NamesCat
  <2>5. Names(name) = <<name>> /\ Names(parent) \in Seq(Name(Symbols))
    BY <2>1, NamesOne, NamesType
  <2>6. Names(parent) \o <<name>> = Append(Names(parent), name)
    BY <2>1, <2>5, AppendIsConcat
  <2> QED
    BY <2>1, <2>2, <2>3, <2>4, <2>5, <2>6
<1> QED
  BY <1>1, <1>2

\* Of every accepted resource: every operation addresses the names it was spelled with.
LEMMA AsSpelled ==
  ASSUME NEW raw \in Seq(Symbols), NEW family \in Families, NEW op, Accepted(raw, family)
  PROVE  Addressed(family, op, raw) = Names(raw)
<1>1. CASE family = "onedrive" /\ op = "mkdir"
  BY <1>1, AcceptedEnd, MkdirAsSpelled DEF Addressed, Families
<1>2. CASE ~ (family = "onedrive" /\ op = "mkdir")
  BY <1>2, FindsNames DEF Addressed
<1> QED
  BY <1>1, <1>2

\* Whatever is spelled and whatever has to be quoted on the way, both adapters address the
\* names of the resource (webdav.py _dav_path, onedrive.py _enc and mkdir).
THEOREM AddressesAreAsSpelled == Spec => []AddressesAsSpelled
<1>1. TypeOK => AddressesAsSpelled
  BY AsSpelled DEF TypeOK, AddressesAsSpelled
<1> QED
  BY <1>1, TypeInvariant, PTL

-----------------------------------------------------------------------------
(***************************************************************************)
(* Addresses as they were judged.                                          *)
(***************************************************************************)
\* Slashes alone have no component.
LEMMA NamesOfSlashes ==
  ASSUME NEW slashes \in Seq({Slash})
  PROVE  Names(slashes) = <<>>
<1> DEFINE T == {s \in Seq({Slash}) : Names(s) = <<>>}
<1>1. <<>> \in T
  BY NamesNone
<1>2. ASSUME NEW s \in T, NEW e \in {Slash} PROVE Append(s, e) \in T
  <2> DEFINE parts == SplitAt(s, Slash)
             none == <<>>
  <2>1. s \in Seq({Slash}) /\ e = Slash /\ Append(s, e) \in Seq({Slash}) /\ NonEmpty(parts) = none
    BY DEF Names
  <2>2. SplitAt(Append(s, e), Slash) = Append(parts, none)
    BY <2>1, SplitFolds DEF Extend
  <2>3. parts \in Seq(Seq({Slash} \ {Slash})) /\ none \in Seq({Slash} \ {Slash})
    BY <2>1, SplitType
  <2> HIDE DEF parts, none
  <2>4. NonEmpty(Append(parts, none)) = none
    BY <2>1, <2>3, NonEmptyFolds DEF none
  <2>5. Names(Append(s, e)) = <<>>
    BY <2>2, <2>4 DEF Names, none
  <2> QED
    BY <2>1, <2>5
<1>3. T = Seq({Slash})
  <2> HIDE DEF T
  <2>1. T \in SUBSET Seq({Slash})
    BY DEF T
  <2> QED
    BY <1>1, <1>2, <2>1, Induction
<1> QED
  BY <1>3

\* Leading slashes add no component.
LEMMA NamesBehindSlashes ==
  ASSUME NEW slashes \in Seq({Slash}), NEW raw \in Seq(Symbols)
  PROVE  Names(slashes \o raw) = Names(raw)
<1>1. CASE slashes = <<>>
  <2>1. slashes \o raw = raw
    BY <1>1
  <2> QED
    BY <2>1
<1>2. CASE slashes # <<>>
  <2> DEFINE front == SubSeq(slashes, 1, Len(slashes) - 1)
  <2>1. front \in Seq({Slash}) /\ slashes = Append(front, Slash)
    BY <1>2
  <2> HIDE DEF front
  <2>2. front \in Seq(Symbols)
    <3>1. {Slash} \subseteq Symbols
      BY SlashToken
    <3> QED
      BY <2>1, <3>1, SeqMonotonic
  <2>3. Names(Append(front, Slash) \o raw) = Names(front) \o Names(raw)
    BY <2>2, SlashToken, NamesCat
  <2>4. Names(front) = <<>> /\ Names(raw) \in Seq(Name(Symbols))
    BY <2>1, NamesOfSlashes, NamesType
  <2>5. <<>> \o Names(raw) = Names(raw)
    BY <2>4
  <2> QED
    BY <2>1, <2>3, <2>4, <2>5
<1> QED
  BY <1>1, <1>2

\* Every part, spelled plainly.
Plains(parts) == [i \in DOMAIN parts |-> Plain(parts[i])]

\* A text is spelled plainly character by character.
LEMMA PlainAppend ==
  ASSUME NEW text \in Seq(Glyphs), NEW e \in Glyphs
  PROVE  Plain(Append(text, e)) = Append(Plain(text), Token(e, 0))
<1> DEFINE n == Len(text)
           longer == Append(text, e)
           token == Token(e, 0)
           plain == Plain(text)
           l == Plain(longer)
           r == Append(plain, token)
<1>1. /\ n \in Nat /\ longer \in Seq(Glyphs) /\ Len(longer) = n + 1
      /\ \A i \in 1 .. n : longer[i] = text[i]
      /\ longer[n + 1] = e
  OBVIOUS
<1>2. token \in Symbols /\ \A x : Token(x, 0) = [ch |-> x, depth |-> 0]
  BY DEF Token, Symbols
<1> HIDE DEF token, longer
<1>3. /\ plain \in Seq(Symbols) /\ Len(plain) = n
      /\ \A i \in 1 .. n : plain[i] = Token(text[i], 0)
  BY <1>2, PlainType
<1>4. /\ l \in Seq(Symbols) /\ Len(l) = n + 1
      /\ \A i \in 1 .. n + 1 : l[i] = Token(longer[i], 0)
  BY <1>1, <1>2, PlainType
<1> HIDE DEF plain, l
<1>5. /\ r \in Seq(Symbols) /\ Len(r) = n + 1
      /\ \A i \in 1 .. n : r[i] = plain[i]
      /\ r[n + 1] = token
  <2>1. plain \in Seq(Symbols)
    BY <1>3
  <2>2. /\ r \in Seq(Symbols) /\ Len(r) = Len(plain) + 1
        /\ \A i \in 1 .. Len(plain) : r[i] = plain[i]
        /\ r[Len(plain) + 1] = token
    BY <1>2, <2>1
  <2> HIDE DEF r
  <2> QED
    BY <1>3, <2>2
<1> HIDE DEF r
<1>6. ASSUME NEW i \in 1 .. n + 1 PROVE l[i] = r[i]
  <2>1. CASE i = n + 1
    BY <1>1, <1>4, <1>5, <2>1 DEF token
  <2>2. CASE i # n + 1
    <3>1. i \in 1 .. n
      BY <1>1, <2>2
    <3> QED
      BY <1>1, <1>3, <1>4, <1>5, <3>1
  <2> QED
    BY <2>1, <2>2
<1>7. l = r
  BY <1>4, <1>5, <1>6, SeqEqual
<1> QED
  BY <1>7 DEF l, r, longer, plain, token

\* The parts of a plain spelling.
LEMMA PlainsType ==
  ASSUME NEW parts \in Seq(Seq(Glyphs))
  PROVE  /\ Plains(parts) \in Seq(Seq(Symbols)) /\ Len(Plains(parts)) = Len(parts)
         /\ \A i \in 1 .. Len(parts) : Plains(parts)[i] = Plain(parts[i])
<1>1. Len(parts) \in Nat /\ DOMAIN parts = 1 .. Len(parts)
  OBVIOUS
<1>2. \A i \in 1 .. Len(parts) : Plain(parts[i]) \in Seq(Symbols)
  <2>1. \A i \in 1 .. Len(parts) : parts[i] \in Seq(Glyphs)
    OBVIOUS
  <2> QED
    BY <2>1, PlainType
<1> QED
  BY <1>1, <1>2 DEF Plains

\* The plain separator, and nothing else, is the slash of a URL.
LEMMA TokenSlash ==
  ASSUME NEW e
  PROVE  Token(e, 0) = Slash <=> e = Separator
<1>1. Token(e, 0).ch = e /\ Slash.ch = Separator
  BY DEF Token, Slash
<1>2. e = Separator => Token(e, 0) = Slash
  BY DEF Token, Slash
<1> QED
  BY <1>1, <1>2

\* Reading one more character, the wall and the adapters do the same.
LEMMA ExtendPlains ==
  ASSUME NEW parts \in Seq(Seq(Glyphs)), Len(parts) # 0, NEW e \in Glyphs
  PROVE  Extend(Slash, Plains(parts), Token(e, 0)) = Plains(Extend(Separator, parts, e))
<1> DEFINE n == Len(parts)
           plains == Plains(parts)
           token == Token(e, 0)
           next == Extend(Separator, parts, e)
           l == Extend(Slash, plains, token)
           r == Plains(next)
<1>1. /\ n \in Nat /\ n \in 1 .. n /\ DOMAIN parts = 1 .. n
      /\ \A i \in 1 .. n : parts[i] \in Seq(Glyphs)
  OBVIOUS
<1>2. /\ plains \in Seq(Seq(Symbols)) /\ Len(plains) = n /\ DOMAIN plains = 1 .. n
      /\ \A i \in 1 .. n : plains[i] = Plain(parts[i])
  BY PlainsType
<1>3. token \in Symbols
  BY DEF Token, Symbols
<1> HIDE DEF plains, token
<1>4. CASE e = Separator
  <2> DEFINE none == <<>>
  <2>1. Plain(none) = none
    BY DEF Plain
  <2>2. none \in Seq(Glyphs) /\ none \in Seq(Symbols)
    OBVIOUS
  <2>3. next = Append(parts, none)
    BY <1>4 DEF Extend
  <2>4. l = Append(plains, none)
    BY <1>4, TokenSlash DEF Extend, token
  <2> HIDE DEF none, l, next
  <2>5. /\ next \in Seq(Seq(Glyphs)) /\ Len(next) = n + 1
        /\ \A i \in 1 .. n : next[i] = parts[i]
        /\ next[n + 1] = none
    BY <2>2, <2>3
  <2>6. /\ l \in Seq(Seq(Symbols)) /\ Len(l) = Len(plains) + 1
        /\ \A i \in 1 .. Len(plains) : l[i] = plains[i]
        /\ l[Len(plains) + 1] = none
    <3>1. plains \in Seq(Seq(Symbols))
      BY <1>2
    <3> QED
      BY <2>2, <2>4, <3>1
  <2>7. /\ r \in Seq(Seq(Symbols)) /\ Len(r) = n + 1
        /\ \A i \in 1 .. n + 1 : r[i] = Plain(next[i])
    BY <2>5, PlainsType
  <2> HIDE DEF r
  <2>8. ASSUME NEW i \in 1 .. n + 1 PROVE l[i] = r[i]
    <3>1. CASE i = n + 1
      BY <1>1, <1>2, <2>1, <2>5, <2>6, <2>7, <3>1
    <3>2. CASE i # n + 1
      <4>1. i \in 1 .. n
        BY <1>1, <3>2
      <4> QED
        BY <1>2, <2>5, <2>6, <2>7, <4>1
    <3> QED
      BY <3>1, <3>2
  <2>9. l = r
    <3>1. Len(l) = Len(r) /\ Len(l) = n + 1
      BY <1>2, <2>6, <2>7
    <3> QED
      BY <2>6, <2>7, <2>8, <3>1, SeqEqual
  <2> QED
    BY <2>9 DEF l, r, next, plains, token
<1>5. CASE e # Separator
  <2> DEFINE last == Append(parts[n], e)
             plain == Append(plains[n], token)
  <2>1. next = [parts EXCEPT ![n] = last]
    BY <1>5 DEF Extend
  <2>2. l = [plains EXCEPT ![n] = plain]
    BY <1>2, <1>5, TokenSlash DEF Extend, token
  <2>3. last \in Seq(Glyphs) /\ Plain(last) = plain
    BY <1>1, <1>2, PlainAppend DEF token
  <2>4. plain \in Seq(Symbols)
    BY <2>3, PlainType
  <2> HIDE DEF last, plain, l, next
  <2>5. /\ next \in Seq(Seq(Glyphs)) /\ Len(next) = n
        /\ \A i \in 1 .. n : next[i] = IF i = n THEN last ELSE parts[i]
    BY <1>1, <2>1, <2>3
  <2>6. /\ l \in Seq(Seq(Symbols)) /\ Len(l) = n
        /\ \A i \in 1 .. n : l[i] = IF i = n THEN plain ELSE plains[i]
    BY <1>1, <1>2, <2>2, <2>4
  <2>7. /\ r \in Seq(Seq(Symbols)) /\ Len(r) = n
        /\ \A i \in 1 .. n : r[i] = Plain(next[i])
    BY <2>5, PlainsType
  <2> HIDE DEF r
  <2>8. ASSUME NEW i \in 1 .. n PROVE l[i] = r[i]
    BY <1>2, <2>3, <2>5, <2>6, <2>7
  <2>9. l = r
    BY <2>6, <2>7, <2>8, SeqEqual
  <2> QED
    BY <2>9 DEF l, r, next, plains, token
<1> QED
  BY <1>4, <1>5

\* The wall splits the text as the adapters split its plain spelling.
LEMMA SplitPlain ==
  ASSUME NEW text \in Seq(Glyphs)
  PROVE  SplitAt(Plain(text), Slash) = Plains(SplitAt(text, Separator))
<1> DEFINE T == {t \in Seq(Glyphs) :
                   SplitAt(Plain(t), Slash) = Plains(SplitAt(t, Separator))}
<1>1. <<>> \in T
  <2>1. Plain(<<>>) = <<>>
    BY DEF Plain
  <2>2. Plains(<< <<>> >>) = << <<>> >>
    BY <2>1 DEF Plains
  <2>3. SplitAt(<<>>, Slash) = << <<>> >> /\ SplitAt(<<>>, Separator) = << <<>> >>
    BY SplitFolds
  <2>4. <<>> \in Seq(Glyphs)
    OBVIOUS
  <2> QED
    BY <2>1, <2>2, <2>3, <2>4, Zenon
<1>2. ASSUME NEW t \in T, NEW e \in Glyphs PROVE Append(t, e) \in T
  <2> DEFINE parts == SplitAt(t, Separator)
             plain == Plain(t)
             token == Token(e, 0)
  <2>1. t \in Seq(Glyphs) /\ Append(t, e) \in Seq(Glyphs) /\ SplitAt(plain, Slash) = Plains(parts)
    OBVIOUS
  <2>2. parts \in Seq(Seq(Glyphs)) /\ Len(parts) # 0
    BY <2>1, SplitType, SplitTexts
  <2>3. plain \in Seq(Symbols) /\ token \in Symbols
    BY <2>1, PlainType DEF Token, Symbols
  <2>4. Plain(Append(t, e)) = Append(plain, token)
    BY <2>1, PlainAppend
  <2>5. SplitAt(Append(t, e), Separator) = Extend(Separator, parts, e)
    BY <2>1, SplitFolds
  <2> HIDE DEF plain, token, parts
  <2>6. SplitAt(Append(plain, token), Slash) = Extend(Slash, SplitAt(plain, Slash), token)
    BY <2>3, SplitFolds
  <2>7. Extend(Slash, Plains(parts), token) = Plains(Extend(Separator, parts, e))
    BY <2>2, ExtendPlains DEF token
  <2>8. SplitAt(Plain(Append(t, e)), Slash) = Plains(SplitAt(Append(t, e), Separator))
    BY <2>1, <2>4, <2>5, <2>6, <2>7, Zenon
  <2> QED
    BY <2>1, <2>8
<1>3. T = Seq(Glyphs)
  <2> HIDE DEF T
  <2>1. T \in SUBSET Seq(Glyphs)
    BY DEF T
  <2> QED
    BY <1>1, <1>2, <2>1, Induction
<1> QED
  BY <1>3

\* A resource without escapes is the plain spelling of its characters.
LEMMA PlainDecodes ==
  ASSUME NEW raw \in Seq(Symbols), IsPlain(raw)
  PROVE  raw = Plain(Decodes(raw))
<1> DEFINE text == Decodes(raw)
           plain == Plain(text)
<1>1. /\ text \in Seq(Glyphs) /\ Len(text) = Len(raw)
      /\ \A i \in 1 .. Len(raw) : text[i] = raw[i].ch
  BY DecodesType DEF Decodes
<1>2. /\ plain \in Seq(Symbols) /\ Len(plain) = Len(text)
      /\ \A i \in 1 .. Len(text) : plain[i] = [ch |-> text[i], depth |-> 0]
  BY DecodesType, PlainType
<1> HIDE DEF plain, text
<1>3. ASSUME NEW i \in 1 .. Len(raw) PROVE plain[i] = raw[i]
  <2>1. raw[i] \in [ch : Glyphs, depth : Nat]
    <3>1. raw[i] \in Symbols
      OBVIOUS
    <3> QED
      BY <3>1 DEF Symbols
  <2>2. raw[i].depth = 0
    BY DEF IsPlain
  <2>3. raw[i] = [ch |-> raw[i].ch, depth |-> 0]
    BY <2>1, <2>2
  <2>4. i \in 1 .. Len(text)
    BY <1>1
  <2> QED
    BY <1>1, <1>2, <2>3, <2>4
<1>4. plain = raw
  BY <1>1, <1>2, <1>3, SeqEqual
<1> QED
  BY <1>4 DEF plain, text

\* Two plain spellings in a row.
LEMMA PlainCat ==
  ASSUME NEW s \in Seq(Glyphs), NEW t \in Seq(Glyphs)
  PROVE  Plain(s \o t) = Plain(s) \o Plain(t)
<1> DEFINE whole == s \o t
           n == Len(s)
           m == Len(t)
           a == Plain(s)
           b == Plain(t)
           r == Plain(whole)
<1>1. /\ n \in Nat /\ m \in Nat /\ whole \in Seq(Glyphs) /\ Len(whole) = n + m
      /\ \A i \in 1 .. n : whole[i] = s[i]
      /\ \A i \in 1 .. m : whole[n + i] = t[i]
  OBVIOUS
<1> HIDE DEF whole
<1>2. \A x : Token(x, 0) = [ch |-> x, depth |-> 0]
  BY DEF Token
<1>3. /\ a \in Seq(Symbols) /\ Len(a) = n
      /\ \A i \in 1 .. n : a[i] = Token(s[i], 0)
  BY <1>2, PlainType
<1>4. /\ b \in Seq(Symbols) /\ Len(b) = m
      /\ \A i \in 1 .. m : b[i] = Token(t[i], 0)
  BY <1>2, PlainType
<1>5. /\ r \in Seq(Symbols) /\ Len(r) = n + m
      /\ \A i \in 1 .. n + m : r[i] = Token(whole[i], 0)
  BY <1>1, <1>2, PlainType
<1> HIDE DEF n, m, a, b, r
<1>6. /\ \A i \in 1 .. n : i \in 1 .. n + m
      /\ \A i \in 1 .. m : n + i \in 1 .. n + m
  BY <1>1
<1>7. /\ \A i \in 1 .. n : r[i] = a[i]
      /\ \A i \in 1 .. m : r[n + i] = b[i]
  BY <1>1, <1>3, <1>4, <1>5, <1>6
<1>8. r = a \o b
  BY <1>3, <1>4, <1>5, <1>7, ConcatPointwise
<1> QED
  BY <1>8 DEF r, a, b, whole

\* Plain separators are slashes.
LEMMA PlainSlashes ==
  ASSUME NEW slashes \in Seq({Separator})
  PROVE  Plain(slashes) \in Seq({Slash})
<1>1. slashes \in Seq(Glyphs)
  <2>1. {Separator} \subseteq Glyphs
    BY DEF Separator, Glyphs
  <2> QED
    BY <2>1, SeqMonotonic
<1>2. /\ Plain(slashes) \in Seq(Symbols) /\ Len(Plain(slashes)) = Len(slashes)
      /\ \A i \in 1 .. Len(slashes) : Plain(slashes)[i] = [ch |-> slashes[i], depth |-> 0]
  BY <1>1, PlainType
<1>3. \A i \in 1 .. Len(slashes) : [ch |-> slashes[i], depth |-> 0] = Slash
  BY DEF Slash
<1>4. PICK p \in Seq(Symbols) : p = Plain(slashes)
  BY <1>2
<1>5. p \in Seq({Slash})
  <2>1. \A i \in 1 .. Len(p) : p[i] = Slash
    BY <1>2, <1>3, <1>4
  <2> QED
    BY <2>1
<1> QED
  BY <1>4, <1>5

\* Where no component is empty the adapters drop none.
LEMMA FullPlains ==
  ASSUME NEW parts \in Seq(Seq(Glyphs)), <<>> \notin Range(parts)
  PROVE  NonEmpty(Plains(parts)) = Plains(parts)
<1> DEFINE plains == Plains(parts)
<1>1. /\ plains \in Seq(Seq(Symbols)) /\ Len(plains) = Len(parts)
      /\ \A i \in 1 .. Len(parts) : plains[i] = Plain(parts[i])
  BY PlainsType
<1> HIDE DEF plains
<1>2. ASSUME NEW i \in 1 .. Len(parts) PROVE plains[i] # <<>>
  <2>1. parts[i] \in Seq(Glyphs) /\ parts[i] \in Range(parts)
    BY DEF Range
  <2>2. Len(parts[i]) # 0
    BY <2>1
  <2>3. Len(Plain(parts[i])) = Len(parts[i])
    BY <2>1, PlainType
  <2>4. Len(plains[i]) # 0
    BY <1>1, <2>2, <2>3
  <2> QED
    BY <2>4
<1>3. plains \in Seq(Seq(Symbols) \ {<<>>})
  <2> DEFINE P == Seq(Symbols) \ {<<>>}
  <2>1. \A i \in 1 .. Len(plains) : plains[i] \in P
    BY <1>1, <1>2
  <2> HIDE DEF P
  <2>2. ASSUME NEW R, NEW p \in Seq(R), \A i \in 1 .. Len(p) : p[i] \in P
        PROVE  p \in Seq(P)
    BY <2>2
  <2>3. plains \in Seq(P)
    BY <1>1, <2>1, <2>2
  <2> QED
    BY <2>3 DEF P
<1>4. NonEmpty(plains) = plains
  BY <1>3, NonEmptyFull
<1> QED
  BY <1>4 DEF plains

\* The names of a plainly spelled resource are the components that were judged.
LEMMA NamesAreJudged ==
  ASSUME NEW raw \in Seq(Symbols), NEW family \in Families, Simple(raw, family)
  PROVE  Names(raw) = Judged(raw, family)
<1> DEFINE text == Decodes(raw)
           path == StripLeading(text)
           parts == SplitAt(path, Separator)
<1>1. text \in Seq(Glyphs) /\ path \in Seq(Glyphs)
  BY DecodesType, StripLeadingType
<1>2. Stripped(text, family) = text
  BY DEF Stripped, strip_graph_prefix, Simple
<1>3. Fit(text, family) /\ NodeOf(raw, family) = parts
  <2>1. Fit(text, family) /\ NodeOf(raw, family) = Components(text, family)
    BY AcceptedFits DEF Simple, Families
  <2> HIDE DEF text
  <2> QED
    BY <1>2, <2>1 DEF Components, SplitComponents
<1>4. raw = Plain(text)
  BY PlainDecodes DEF Simple
<1> HIDE DEF text
<1>5. PICK slashes \in Seq({Separator}) : text = slashes \o path
  BY <1>1, StripLeadingSplits
<1> HIDE DEF path
<1>6. Plain(slashes \o path) = Plain(slashes) \o Plain(path)
  <2>1. slashes \in Seq(Glyphs)
    <3>1. {Separator} \subseteq Glyphs
      BY DEF Separator, Glyphs
    <3> QED
      BY <3>1, SeqMonotonic
  <2> QED
    BY <1>1, <2>1, PlainCat
<1>7. Names(Plain(slashes) \o Plain(path)) = Names(Plain(path))
  BY <1>1, PlainSlashes, PlainType, NamesBehindSlashes
<1>8. Names(Plain(path)) = NonEmpty(Plains(parts))
  BY <1>1, SplitPlain DEF Names
<1>9. parts \in Seq(Seq(Glyphs)) /\ <<>> \notin Range(parts)
  <2>1. parts \in Seq(Seq(Glyphs))
    BY <1>1, SplitTexts
  <2>2. parts = Components(text, family)
    BY <1>2 DEF Components, SplitComponents, path
  <2> QED
    BY <1>3, <2>1, <2>2 DEF Fit
<1> HIDE DEF parts
<1>10. Names(raw) = Plains(parts)
  BY <1>4, <1>5, <1>6, <1>7, <1>8, <1>9, FullPlains
<1> QED
  BY <1>3, <1>10 DEF Judged, Plains

\* For every operation of both families, and for every plainly spelled resource the wall
\* accepts, the node it judged is the node that is operated on.
THEOREM OperationsMeetJudged == Spec => []OperatesOnJudged
<1>1. TypeOK => OperatesOnJudged
  <2> SUFFICES ASSUME TypeOK, NEW family \in Families, NEW op \in DECLARED_OPERATIONS,
                      Simple(request, family)
               PROVE  Addressed(family, op, request) = Judged(request, family)
    BY DEF OperatesOnJudged
  <2>1. request \in Seq(Symbols) /\ Accepted(request, family)
    BY DEF TypeOK, Simple
  <2>2. Addressed(family, op, request) = Names(request)
    BY <2>1, AsSpelled
  <2>3. Names(request) = Judged(request, family)
    BY <2>1, NamesAreJudged
  <2> QED
    BY <2>2, <2>3
<1> QED
  BY <1>1, TypeInvariant, PTL
=============================================================================

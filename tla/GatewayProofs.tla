---------------------------- MODULE GatewayProofs ----------------------------
(***************************************************************************)
(* The way in through the approval room, for every timeline, every length  *)
(* of an answer and any number of failures and restarts.                   *)
(***************************************************************************)
EXTENDS Gateway, SequenceTheorems, TLAPS

LEMMA MinTwo ==
  ASSUME NEW a \in Int, NEW b \in Int
  PROVE  Min({a, b}) = IF a <= b THEN a ELSE b
  BY DEF Min

\* What a sync answers with: the last n positions up to the end of the timeline.
Tailing(n, last) == [i \in 1 .. n |-> last - n + i]

LEMMA LatestIsTailing ==
  ASSUME NEW p \in Nat, NEW q \in Nat, p <= q
  PROVE  \E n \in 0 .. q - p : Latest(p, q) = Tailing(n, q)
<1>1. Min({q - p, TimelineLimit}) \in 0 .. q - p
  BY MinTwo, GatewayAssumption
<1> QED
  BY <1>1 DEF Latest, Tailing

\* The token lies after the gateway's start and not after the last answer's.
TokenInv ==
    /\ task = "none" => since = None
    /\ since # None => started <= since /\ next_batch # None /\ since <= next_batch

\* What is left of the answer being dispatched is its end, and each decision it
\* has passed is with the core, or was cut off.
BatchInv ==
    /\ task # "dispatching" => batch = <<>>
    /\ task = "dispatching" =>
        /\ since # None
        /\ Len(batch) <= next_batch - since
        /\ batch = Tailing(Len(batch), next_batch)
        /\ \A p \in since + 1 .. next_batch - Len(batch) :
              p \in Decisions => p \in handled \cup cut \cup interrupted

\* Between two syncs, the token lags behind the last answer's only where a
\* callback cut that answer short.
RetryInv ==
    task \in {"looping", "sleeping"} /\ since # None => since + 1 .. next_batch \subseteq interrupted

\* What lies after the token and has been handed on was of such an answer, or is
\* of the one being dispatched.
RepeatInv ==
    since # None /\ task \in {"looping", "sleeping", "dispatching"} =>
        \A p \in handled :
            \/ p <= since
            \/ p \in interrupted
            \/ task = "dispatching" /\ p <= next_batch - Len(batch)

Inv == TypeOK /\ TokenInv /\ BatchInv /\ RetryInv /\ RepeatInv

LEMMA InvInit == Init => Inv
<1> SUFFICES ASSUME Init PROVE Inv
  OBVIOUS
<1>1. Len(timeline) = 0 /\ DOMAIN timeline = {} /\ timeline \in Seq(Events) /\ batch \in Seq(DOMAIN timeline)
  BY DEF Init
<1>2. /\ running \in BOOLEAN /\ task = "none" /\ cut = {} /\ since = None /\ next_batch = None
      /\ started = 0 /\ interrupted = {} /\ handled = {} /\ batch = <<>>
  BY DEF Init
<1>3. TypeOK
  BY <1>1, <1>2 DEF TypeOK
<1> QED
  BY <1>2, <1>3 DEF Inv, TokenInv, BatchInv, RetryInv, RepeatInv

LEMMA Appended ==
  ASSUME NEW S, NEW s \in Seq(S), NEW e \in S
  PROVE  /\ Append(s, e) \in Seq(S) /\ Len(Append(s, e)) = Len(s) + 1
         /\ \A i \in 1 .. Len(s) : Append(s, e)[i] = s[i]
  OBVIOUS

LEMMA Wider ==
  ASSUME NEW S, NEW T, S \subseteq T, NEW s \in Seq(S)
  PROVE  s \in Seq(T)
  OBVIOUS

LEMMA TailingIsSeq ==
  ASSUME NEW n \in Nat, NEW last \in Nat, NEW len \in Nat, n <= last, last <= len
  PROVE  /\ Tailing(n, last) \in Seq(1 .. len)
         /\ Len(Tailing(n, last)) = n
         /\ Range(Tailing(n, last)) = last - n + 1 .. last
<1>1. Tailing(n, last) \in [1 .. n -> 1 .. len]
  BY DEF Tailing
<1>2. Tailing(n, last) \in Seq(1 .. len) /\ Len(Tailing(n, last)) = n
  BY <1>1
<1>3. \A p \in last - n + 1 .. last : p - last + n \in 1 .. n /\ last - n + (p - last + n) = p
  OBVIOUS
<1>4. \A i \in 1 .. n : last - n + i \in last - n + 1 .. last
  OBVIOUS
<1>5. Range(Tailing(n, last)) = last - n + 1 .. last
  BY <1>3, <1>4 DEF Tailing, Range
<1> QED
  BY <1>2, <1>5

\* Dispatching takes the first of what is left.
LEMMA TailingTail ==
  ASSUME NEW n \in Nat \ {0}, NEW last \in Nat, n <= last
  PROVE  /\ Head(Tailing(n, last)) = last - n + 1
         /\ Tail(Tailing(n, last)) = Tailing(n - 1, last)
<1>1. Tailing(n, last) \in Seq(1 .. last) /\ Len(Tailing(n, last)) = n
  BY TailingIsSeq
<1>2. Head(Tailing(n, last)) = Tailing(n, last)[1]
  BY <1>1
<1>3. Tail(Tailing(n, last)) = [i \in 1 .. n - 1 |-> Tailing(n, last)[i + 1]]
<2>1. Tailing(n, last) # <<>>
  BY <1>1
<2>2. /\ Tail(Tailing(n, last)) \in Seq(1 .. last)
      /\ Len(Tail(Tailing(n, last))) = n - 1
      /\ \A i \in 1 .. n - 1 : Tail(Tailing(n, last))[i] = Tailing(n, last)[i + 1]
  BY <1>1, <2>1, HeadTailProperties
<2> DEFINE t == Tail(Tailing(n, last))
<2>3. t \in [1 .. n - 1 -> 1 .. last]
  BY <2>2, LenProperties
<2>4. \A i \in 1 .. n - 1 : t[i] = Tailing(n, last)[i + 1]
  BY <2>2
<2> HIDE DEF t
<2>5. t = [i \in 1 .. n - 1 |-> Tailing(n, last)[i + 1]]
  BY <2>3, <2>4
<2> QED
  BY <2>5 DEF t
<1>4. \A i \in 1 .. n - 1 : Tailing(n, last)[i + 1] = last - (n - 1) + i
  BY DEF Tailing
<1>5. [i \in 1 .. n - 1 |-> Tailing(n, last)[i + 1]] = Tailing(n - 1, last)
  BY <1>4 DEF Tailing
<1>6. Tailing(n, last)[1] = last - n + 1
  BY DEF Tailing
<1> QED
  BY <1>2, <1>3, <1>5, <1>6

LEMMA PostStep ==
  ASSUME Inv, NEW event \in Events, Post(event)
  PROVE  Inv'
<1>a. TypeOK
  BY DEF Inv
<1>1. /\ timeline' \in Seq(Events) /\ Len(timeline') = Len(timeline) + 1
      /\ \A p \in 1 .. Len(timeline) : timeline'[p] = timeline[p]
      /\ DOMAIN timeline = 1 .. Len(timeline) /\ DOMAIN timeline' = 1 .. Len(timeline) + 1
      /\ Len(timeline) \in Nat
  BY <1>a, Appended DEF Post, TypeOK
<1>2. /\ Decisions \subseteq Decisions'
      /\ \A p \in 1 .. Len(timeline) : p \in Decisions' => p \in Decisions
  BY <1>1 DEF Decisions
<1>3. UNCHANGED <<batch, handled, cut, interrupted, since, next_batch, task, started, running>>
  BY DEF Post, sync, past
<1>4. batch' \in Seq(DOMAIN timeline')
  BY <1>a, <1>1, <1>3, Wider DEF TypeOK
<1>5. TypeOK'
  BY <1>a, <1>1, <1>2, <1>3, <1>4 DEF TypeOK
<1>6. TokenInv' /\ RetryInv' /\ RepeatInv'
  BY <1>3 DEF Inv, TokenInv, RetryInv, RepeatInv
<1>7. BatchInv'
<2>1. CASE task # "dispatching"
  BY <1>3, <2>1 DEF Inv, BatchInv
<2>2. CASE task = "dispatching"
  <3>1. next_batch <= Len(timeline) /\ Len(batch) \in Nat /\ since \in Nat /\ next_batch \in Nat
    BY <1>a, <1>1, <2>2 DEF TypeOK, Inv, BatchInv, TokenInv, None
  <3>2. ASSUME NEW p \in since + 1 .. next_batch - Len(batch), p \in Decisions'
        PROVE  p \in handled \cup cut \cup interrupted
    BY <1>1, <1>2, <2>2, <3>1, <3>2 DEF Inv, BatchInv
  <3> QED
    BY <1>3, <2>2, <3>2 DEF Inv, BatchInv
<2> QED
  BY <2>1, <2>2
<1> QED
  BY <1>5, <1>6, <1>7 DEF Inv

LEMMA DispatchStep ==
  ASSUME Inv, Dispatch
  PROVE  Inv'
<1>a. /\ TypeOK /\ batch # <<>> /\ task = "dispatching"
      /\ UNCHANGED <<timeline, running, since, next_batch, started, cut>>
  BY DEF Inv, Dispatch
<1>1. PICK n \in Nat \ {0} : n = Len(batch)
  BY <1>a DEF TypeOK
<1>2. /\ since \in Nat /\ next_batch \in Nat /\ n <= next_batch - since
      /\ batch = Tailing(n, next_batch) /\ next_batch <= Len(timeline)
      /\ Len(timeline) \in Nat /\ DOMAIN timeline = 1 .. Len(timeline)
  BY <1>a, <1>1 DEF TypeOK, Inv, BatchInv, TokenInv, None
<1>3. Head(batch) = next_batch - n + 1 /\ Tail(batch) = Tailing(n - 1, next_batch)
  BY <1>2, TailingTail
<1>4. handled' = handled \cup ({next_batch - n + 1} \cap Decisions)
  BY <1>3 DEF Dispatch, HandsOn
<1>5. Decisions' = Decisions /\ DOMAIN timeline' = DOMAIN timeline /\ Len(timeline') = Len(timeline)
  BY <1>a DEF Decisions
<1>6. handled' \subseteq Decisions'
  BY <1>a, <1>4, <1>5 DEF TypeOK
<1>7. CASE batch' = Tail(batch) /\ UNCHANGED <<task, interrupted>>
  <2>1. batch' \in Seq(DOMAIN timeline) /\ Len(batch') = n - 1
    BY <1>2, <1>3, <1>7, TailingIsSeq
  <2>2. TypeOK'
    BY <1>a, <1>5, <1>6, <1>7, <2>1 DEF TypeOK
  <2>3. TokenInv' /\ RetryInv'
    BY <1>a, <1>7 DEF Inv, TokenInv, RetryInv
  <2>4. ASSUME NEW p \in since + 1 .. next_batch - (n - 1), p \in Decisions
        PROVE  p \in handled' \cup cut \cup interrupted
    <3>1. CASE p = next_batch - n + 1
      BY <1>4, <2>4, <3>1
    <3>2. CASE p # next_batch - n + 1
      <4>1. p \in since + 1 .. next_batch - n
        BY <1>2, <2>4, <3>2
      <4>2. p \in handled \cup cut \cup interrupted
        BY <1>1, <1>a, <2>4, <4>1 DEF Inv, BatchInv
      <4> QED
        BY <1>4, <4>2
    <3> QED
      BY <3>1, <3>2
  <2>5. BatchInv'
    BY <1>a, <1>2, <1>3, <1>5, <1>7, <2>1, <2>4 DEF BatchInv, None
  <2>6. ASSUME NEW p \in handled'
        PROVE  p <= since \/ p \in interrupted \/ p <= next_batch - (n - 1)
    <3>1. CASE p \in handled
      <4>1. p <= since \/ p \in interrupted \/ p <= next_batch - n
        BY <1>1, <1>2, <1>a, <3>1 DEF Inv, RepeatInv, None
      <4>2. p \in Nat
        BY <1>a, <1>2, <3>1 DEF TypeOK, Decisions
      <4> QED
        BY <1>2, <4>1, <4>2
    <3>2. CASE p = next_batch - n + 1
      BY <1>2, <3>2
    <3> QED
      BY <1>4, <3>1, <3>2
  <2>7. RepeatInv'
    BY <1>a, <1>7, <2>1, <2>6 DEF RepeatInv
  <2> QED
    BY <2>2, <2>3, <2>5, <2>7 DEF Inv
<1>8. CASE /\ interrupted' = interrupted \cup (since + 1 .. next_batch)
           /\ batch' = <<>> /\ task' = "sleeping"
  <2>1. TypeOK'
    <3>1. interrupted' \subseteq DOMAIN timeline
      BY <1>a, <1>2, <1>8 DEF TypeOK
    <3>2. batch' \in Seq(DOMAIN timeline)
      BY <1>8
    <3> QED
      BY <1>a, <1>5, <1>6, <1>8, <3>1, <3>2 DEF TypeOK
  <2>2. TokenInv' /\ BatchInv' /\ RetryInv'
    BY <1>a, <1>8 DEF Inv, TokenInv, BatchInv, RetryInv
  <2>3. ASSUME NEW p \in handled' PROVE p <= since \/ p \in interrupted'
    <3>1. CASE p \in handled
      <4>1. p <= since \/ p \in interrupted \/ p <= next_batch - n
        BY <1>1, <1>2, <1>a, <3>1 DEF Inv, RepeatInv, None
      <4>2. p \in Nat
        BY <1>a, <1>2, <3>1 DEF TypeOK, Decisions
      <4> QED
        BY <1>2, <1>8, <4>1, <4>2
    <3>2. CASE p = next_batch - n + 1
      BY <1>2, <1>8, <3>2
    <3> QED
      BY <1>4, <3>1, <3>2
  <2>4. RepeatInv'
    BY <1>a, <1>8, <2>3 DEF RepeatInv
  <2> QED
    BY <2>1, <2>2, <2>4 DEF Inv
<1> QED
  BY <1>a, <1>7, <1>8 DEF Dispatch

LEMMA SyncNextStep ==
  ASSUME Inv, SyncNext
  PROVE  Inv'
<1>a. TypeOK /\ Len(timeline) \in Nat /\ DOMAIN timeline = 1 .. Len(timeline)
  BY DEF Inv, TypeOK
<1>1. since \in Nat /\ since <= Len(timeline) /\ since # None /\ task = "looping"
  BY <1>a DEF SyncNext, Answers, TypeOK, None
<1>2. PICK n \in 0 .. Len(timeline) - since :
         Latest(since, Len(timeline)) = Tailing(n, Len(timeline))
  BY <1>a, <1>1, LatestIsTailing
<1>3. /\ batch' = Tailing(n, Len(timeline)) /\ next_batch' = Len(timeline)
      /\ cut' = cut \cup ((since + 1 .. Len(timeline)) \ (Range(batch') \cup interrupted))
      /\ UNCHANGED <<timeline, running, since, started, interrupted, handled>>
      /\ task' = "dispatching"
  BY <1>2 DEF SyncNext, Answers
<1>4. /\ batch' \in Seq(DOMAIN timeline) /\ Len(batch') = n
      /\ Range(batch') = Len(timeline) - n + 1 .. Len(timeline)
  <2>1. n \in Nat /\ n <= Len(timeline)
    BY <1>a, <1>1, <1>2
  <2> QED
    BY <1>a, <1>3, <2>1, TailingIsSeq
<1>5. Decisions' = Decisions /\ DOMAIN timeline' = DOMAIN timeline /\ Len(timeline') = Len(timeline)
  BY <1>3 DEF Decisions
<1>6. TypeOK'
  <2>1. cut' \subseteq DOMAIN timeline
    BY <1>a, <1>1, <1>3 DEF TypeOK
  <2> QED
    BY <1>a, <1>5, <1>3, <1>4, <2>1 DEF TypeOK
<1>7. TokenInv' /\ RetryInv'
  BY <1>a, <1>1, <1>3 DEF Inv, TokenInv, RetryInv, None
<1>8. \A p \in since + 1 .. Len(timeline) - n : p \in cut' \cup interrupted
  BY <1>a, <1>1, <1>3, <1>4
<1>9. BatchInv'
  BY <1>a, <1>1, <1>2, <1>3, <1>4, <1>8 DEF BatchInv, None
<1>10. RepeatInv'
  BY <1>1, <1>3 DEF Inv, RepeatInv
<1> QED
  BY <1>6, <1>7, <1>9, <1>10 DEF Inv

LEMMA InvStep ==
  ASSUME Inv, [Next]_vars
  PROVE  Inv'
<1>a. TypeOK /\ Len(timeline) \in Nat /\ DOMAIN timeline = 1 .. Len(timeline)
  BY DEF Inv, TypeOK
<1>t. timeline' = timeline => Decisions' = Decisions
  BY DEF Decisions
<1>n. \A p \in handled : p \in Nat /\ p <= Len(timeline)
  BY <1>a DEF TypeOK, Decisions
<1>b. \A S : <<>> \in Seq(S)
  OBVIOUS
<1>1. ASSUME NEW event \in Events, Post(event) PROVE Inv'
  BY <1>1, PostStep
<1>2. CASE Dispatch
  BY <1>2, DispatchStep
<1>3. CASE Start
<2>1. TypeOK'
  BY <1>3, <1>a, <1>t DEF Start, TypeOK, sync
<2> QED
  BY <1>3, <2>1 DEF Start, Inv, TokenInv, BatchInv, RetryInv, RepeatInv, sync
<1>4. CASE SyncFirst
<2>1. TypeOK'
  BY <1>4, <1>a, <1>t DEF SyncFirst, TypeOK, past
<2>2. TokenInv' /\ RetryInv'
  BY <1>4, <1>a DEF SyncFirst, TokenInv, RetryInv, TypeOK, past, None
<2>3. RepeatInv'
  BY <1>4, <1>n DEF SyncFirst, RepeatInv, past
<2> QED
  BY <1>4, <2>1, <2>2, <2>3 DEF SyncFirst, Inv, BatchInv
<1>5. CASE SyncNext
  BY <1>5, SyncNextStep
<1>6. CASE SyncFails \/ Wakes \/ Leaves
<2>1. TypeOK'
  BY <1>6, <1>a, <1>t DEF SyncFails, Wakes, Leaves, TypeOK, sync, past
<2> QED
  BY <1>6, <2>1 DEF SyncFails, Wakes, Leaves, Inv, TokenInv, BatchInv, RetryInv, RepeatInv, sync, past
<1>7. CASE SyncEnds
<2>1. TypeOK'
  BY <1>7, <1>a, <1>t DEF SyncEnds, TypeOK, past
<2>2. /\ next_batch \in Nat /\ since \in Nat /\ since <= next_batch /\ started <= since /\ started \in Nat
      /\ Len(batch) = 0 /\ task = "dispatching"
  BY <1>7, <1>a DEF SyncEnds, Inv, BatchInv, TokenInv, TypeOK, None
<2>3. ASSUME NEW p \in handled PROVE p <= next_batch \/ p \in interrupted
  BY <1>n, <2>2, <2>3 DEF Inv, RepeatInv, None
<2>4. TokenInv' /\ BatchInv' /\ RetryInv'
  BY <1>7, <2>2 DEF SyncEnds, TokenInv, BatchInv, RetryInv, past, None
<2>5. RepeatInv'
  BY <1>7, <2>3 DEF SyncEnds, RepeatInv, past
<2> QED
  BY <2>1, <2>4, <2>5 DEF Inv
<1>8. CASE SyncRepeats
<2>1. TypeOK'
  BY <1>8, <1>a, <1>t DEF SyncRepeats, TypeOK, past
<2>2. next_batch \in Nat /\ since \in Nat /\ started \in Nat /\ started <= since /\ since <= next_batch
  BY <1>8, <1>a DEF SyncRepeats, Inv, TokenInv, TypeOK, None
<2>3. TokenInv' /\ RetryInv'
  BY <1>8, <2>2 DEF SyncRepeats, TokenInv, RetryInv, past, None
<2>4. RepeatInv'
  BY <1>8, <1>n DEF SyncRepeats, RepeatInv, past
<2> QED
  BY <1>8, <2>1, <2>3, <2>4 DEF SyncRepeats, Inv, BatchInv
<1>9. CASE Stop
<2>1. TypeOK'
  BY <1>9, <1>a, <1>t DEF Stop, TypeOK, sync, past
<2>2. TokenInv' /\ RetryInv' /\ RepeatInv'
  BY <1>9 DEF Stop, Inv, TokenInv, RetryInv, RepeatInv, sync, past
<2>3. BatchInv'
  BY <1>9, <1>t DEF Stop, Inv, BatchInv, sync, past
<2> QED
  BY <2>1, <2>2, <2>3 DEF Inv
<1>10. CASE Cancel
<2>1. TypeOK'
  BY <1>10, <1>a, <1>b, <1>t DEF Cancel, TypeOK, past
<2> QED
  BY <1>10, <2>1 DEF Cancel, Inv, TokenInv, BatchInv, RetryInv, RepeatInv, past
<1>11. CASE Restart
<2>1. TypeOK'
  <3>1. /\ running' = FALSE /\ task' = "none" /\ since' = None /\ batch' = <<>>
        /\ next_batch' = None /\ UNCHANGED <<timeline, started, cut, interrupted, handled>>
    BY <1>11 DEF Restart, past
  <3> QED
    BY <1>a, <1>b, <1>t, <3>1 DEF TypeOK
<2> QED
  BY <1>11, <2>1 DEF Restart, Inv, TokenInv, BatchInv, RetryInv, RepeatInv, past
<1>12. CASE UNCHANGED vars
  BY <1>12, <1>t DEF vars, sync, past, Inv, TypeOK, TokenInv, BatchInv, RetryInv, RepeatInv
<1> QED
  BY <1>1, <1>2, <1>3, <1>4, <1>5, <1>6, <1>7, <1>8, <1>9, <1>10, <1>11, <1>12
     DEF Next, SyncLater, LoopStep

LEMMA Invariant == Spec => []Inv
  BY InvInit, InvStep, PTL DEF Spec

\* Every variable keeps its type: no token or position runs past the timeline.
THEOREM TypeCorrect == Spec => []TypeOK
<1>1. Inv => TypeOK
  BY DEF Inv
<1> QED
  BY <1>1, Invariant, PTL

\* The positions still to be dispatched lie after the token.
LEMMA BatchAhead ==
  ASSUME Inv, NEW p \in Range(batch)
  PROVE  /\ task = "dispatching" /\ since \in Nat /\ next_batch \in Nat
         /\ p \in Nat /\ p > since /\ p > next_batch - Len(batch)
<1>1. task = "dispatching"
  BY DEF Inv, BatchInv, Range
<1>2. PICK n \in Nat : n = Len(batch)
  BY DEF Inv, TypeOK
<1>3. /\ since \in Nat /\ next_batch \in Nat /\ n <= next_batch - since
      /\ batch = Tailing(n, next_batch)
  BY <1>1, <1>2 DEF Inv, BatchInv, TokenInv, TypeOK, None
<1>4. Range(Tailing(n, next_batch)) = next_batch - n + 1 .. next_batch
  BY <1>3, TailingIsSeq
<1>5. p \in next_batch - n + 1 .. next_batch
  BY <1>3, <1>4
<1> QED
  BY <1>1, <1>2, <1>3, <1>5

\* No restart, however often and whenever it comes, brings before the callbacks
\* what was posted before this process had started its gateway.
THEOREM SkipsHistory == Spec => []HistorySkipped
<1>1. Inv => HistorySkipped
<2> SUFFICES ASSUME Inv, NEW p \in Range(batch) PROVE p > started
  BY DEF HistorySkipped
<2>1. since \in Nat /\ p \in Nat /\ p > since
  BY BatchAhead
<2>2. started \in Nat /\ started <= since
  BY <2>1 DEF Inv, TypeOK, TokenInv, None
<2> QED
  BY <2>1, <2>2
<1> QED
  BY <1>1, Invariant, PTL

\* Failed syncs, stops and restarts dispatch nothing twice: only the answer to
\* the retry after a callback that raised does.
THEOREM RepeatsAfterRaise == Spec => []RepeatedOnlyAfterRaise
<1>1. Inv => RepeatedOnlyAfterRaise
<2> SUFFICES ASSUME Inv, NEW p \in Range(batch), p \in handled PROVE p \in interrupted
  BY DEF RepeatedOnlyAfterRaise
<2>1. /\ task = "dispatching" /\ since \in Nat /\ next_batch \in Nat
      /\ p \in Nat /\ p > since /\ p > next_batch - Len(batch)
  BY BatchAhead
<2>2. Len(batch) \in Nat
  BY DEF Inv, TypeOK
<2> QED
  BY <2>1, <2>2 DEF Inv, RepeatInv, None
<1> QED
  BY <1>1, Invariant, PTL

\* The token moves on only at the end of an answer dispatched to its end, or past
\* one a callback cut short: what an answer held is overtaken in no other way.
THEOREM OvertakesNone == Spec => NoneOvertaken
<1>1. ASSUME Inv, [Next]_vars, since # None, since' # None,
             NEW p \in since + 1 .. since', p \in Decisions
      PROVE  p \in handled' \cup cut \cup interrupted
<2>1. since \in Nat
  BY <1>1 DEF Inv, TypeOK, None
<2>2. since' # since
  BY <1>1, <2>1
<2>3. SyncEnds \/ SyncRepeats
  BY <1>1, <2>2 DEF Next, SyncLater, LoopStep, Post, Start, SyncFirst, SyncNext, SyncFails, Wakes,
                    Dispatch, Leaves, Stop, Cancel, Restart, vars, sync
<2>4. CASE SyncEnds
  <3>1. /\ Len(batch) = 0 /\ since' = next_batch /\ next_batch \in Nat
        /\ handled' = handled /\ task = "dispatching"
    BY <1>1, <2>4 DEF SyncEnds, Inv, TypeOK, past, None
  <3> QED
    BY <1>1, <2>1, <3>1 DEF Inv, BatchInv
<2>5. CASE SyncRepeats
  BY <1>1, <2>5 DEF SyncRepeats, Inv, RetryInv
<2> QED
  BY <2>3, <2>4, <2>5
<1>2. Inv /\ [Next]_vars =>
        [since # None /\ since' # None =>
            \A p \in since + 1 .. since' :
                p \in Decisions => p \in handled' \cup cut \cup interrupted]_vars
  BY <1>1
<1> QED
  BY <1>2, Invariant, PTL DEF Spec, NoneOvertaken
=============================================================================

------------------------------- MODULE Gateway -------------------------------
(***************************************************************************)
(* The approval gateway's way in (MatrixGateway in                         *)
(* data_broker/gateways/matrix.py): the sync loop that carries the owner's *)
(* replies and reactions from the approval room to the core, over restarts *)
(* of the broker and failures of the homeserver.                           *)
(*                                                                         *)
(* matrix-nio and the homeserver are external: a sync answers with the     *)
(* events after its `since' token, at most TimelineLimit, the latest ones; *)
(* nio notes the answer's token, passes over an answer whose token is the  *)
(* one it noted last, and awaits the callback of each event in turn before *)
(* sync returns.  A homeserver's token counts more than the events of the  *)
(* room, so that two answers with the same events may differ in it.  The   *)
(* core's handle_reply and handle_reaction are external too.               *)
(***************************************************************************)
EXTENDS Integers, Sequences, FiniteSets, SequencesExt

CONSTANTS
    TimelineLimit,   \* the most events a homeserver puts into one answer
    MaxEvents        \* bound on the room's timeline

ASSUME GatewayAssumption ==
    /\ TimelineLimit \in Nat \ {0}
    /\ MaxEvents \in Nat

\* A decision is a reply or reaction the callbacks hand on; any other event is
\* from another room, has no text, or no key or target.
Events == {"decision", "other"}

VARIABLES
    timeline,   \* what has been posted
    running,    \* _running
    task,       \* the task of _sync_forever
    since,      \* its token: a position of the timeline, or None
    batch,      \* the positions of the events still to be dispatched
    next_batch, \* the token of the last answer that nio took
    started,    \* how long the timeline was when the gateway started
    cut,        \* the positions passed over that no answer held
    interrupted, \* the stretches whose answer a callback cut short by raising
    handled     \* the positions handed to the core

sync == <<since, batch, next_batch>>
past == <<started, cut, interrupted, handled>>
vars == <<timeline, running, task, sync, past>>

None == -1

Decisions == {p \in DOMAIN timeline : timeline[p] = "decision"}

Init ==
    /\ timeline = <<>>
    /\ running = FALSE
    /\ task = "none"
    /\ since = None
    /\ batch = <<>>
    /\ next_batch = None
    /\ started = 0
    /\ cut = {}
    /\ interrupted = {}
    /\ handled = {}

Post(event) ==
    /\ Len(timeline) < MaxEvents
    /\ timeline' = Append(timeline, event)
    /\ UNCHANGED <<running, task, sync, past>>

-----------------------------------------------------------------------------
\* start(), of a new process: the room is joined and the task made.  A start
\* that raises before that leaves no task; its announcement comes after, and the
\* loop runs whether that raises or not.
Start ==
    /\ task = "none"
    /\ running' = TRUE
    /\ task' = "looping"
    /\ started' = Len(timeline)
    /\ UNCHANGED <<timeline, sync, cut, interrupted, handled>>

\* Positions from p to q, the latest TimelineLimit of them.
Latest(p, q) ==
    [i \in 1 .. Min({q - p, TimelineLimit}) |-> q - Min({q - p, TimelineLimit}) + i]

\* Mutant: the first sync is like any other and brings the room's history.
SyncFirstReplays ==
    /\ task = "looping"
    /\ running
    /\ since = None
    /\ batch' = Latest(0, Len(timeline))
    /\ next_batch' = Len(timeline)
    /\ task' = "dispatching"
    /\ UNCHANGED <<timeline, running, since, past>>

\* The first sync's filter leaves no event in the answer.
SyncFirst ==
    /\ task = "looping"
    /\ running
    /\ since = None
    /\ since' = Len(timeline)
    /\ next_batch' = Len(timeline)
    /\ UNCHANGED <<timeline, running, task, batch, past>>

\* An answer with the events after the token; an earlier one may have held those
\* it leaves out, if a callback raised on it.
Answers ==
    /\ task = "looping"
    /\ running
    /\ since # None
    /\ since < Len(timeline)
    /\ batch' = Latest(since, Len(timeline))
    /\ next_batch' = Len(timeline)
    /\ task' = "dispatching"
    /\ cut' = cut \cup ((since + 1 .. Len(timeline)) \ (Range(batch') \cup interrupted))
    /\ UNCHANGED <<timeline, running, started, interrupted, handled>>

\* Mutant: the token is moved on when the answer comes, before its callbacks.
SyncNextAhead == Answers /\ since' = Len(timeline)

\* A later sync answers once there are events after its token.
SyncNext == Answers /\ UNCHANGED since

\* The answer to a retry has the token nio noted before a callback raised: nio
\* dispatches nothing, and the loop takes the token.
SyncRepeats ==
    /\ task = "looping"
    /\ running
    /\ since # None
    /\ since < next_batch
    /\ next_batch = Len(timeline)
    /\ since' = next_batch
    /\ UNCHANGED <<timeline, running, task, batch, next_batch, past>>

\* Mutant: an exception ends the loop.
SyncFailsForGood ==
    /\ task = "looping"
    /\ running
    /\ task' = "left"
    /\ UNCHANGED <<timeline, running, sync, past>>

\* A sync that raises, or answers an error without a next_batch.
SyncFails ==
    /\ task = "looping"
    /\ running
    /\ task' = "sleeping"
    /\ UNCHANGED <<timeline, running, sync, past>>

Wakes ==
    /\ task = "sleeping"
    /\ task' = "looping"
    /\ UNCHANGED <<timeline, running, sync, past>>

\* Mutant: the callbacks hand everything on.
HandsOnAnything(p) == handled' = handled \cup {p}

\* _on_message and _on_reaction.
HandsOn(p) == handled' = handled \cup ({p} \cap Decisions)

\* nio awaits the callback of the next event; it may raise, as often as it is
\* called, and sync with it: the rest of the answer is not dispatched.
Dispatch ==
    /\ task = "dispatching"
    /\ batch # <<>>
    /\ HandsOn(Head(batch))
    /\ \/ /\ batch' = Tail(batch)
          /\ UNCHANGED <<task, interrupted>>
       \/ /\ interrupted' = interrupted \cup (since + 1 .. next_batch)
          /\ batch' = <<>>
          /\ task' = "sleeping"
    /\ UNCHANGED <<timeline, running, since, next_batch, started, cut>>

\* Mutant: the token is not moved on.
SyncEndsStill ==
    /\ task = "dispatching"
    /\ batch = <<>>
    /\ task' = "looping"
    /\ UNCHANGED <<timeline, running, sync, past>>

\* sync returns and the loop takes its token.
SyncEnds ==
    /\ task = "dispatching"
    /\ batch = <<>>
    /\ since' = next_batch
    /\ task' = "looping"
    /\ UNCHANGED <<timeline, running, batch, next_batch, past>>

\* The loop finds _running cleared.
Leaves ==
    /\ task = "looping"
    /\ ~running
    /\ task' = "left"
    /\ UNCHANGED <<timeline, running, sync, past>>

\* stop() clears _running and announces that.
Stop ==
    /\ running
    /\ running' = FALSE
    /\ UNCHANGED <<timeline, task, sync, past>>

\* Unless the announcement raises, it then cancels the task where that awaits.
Cancel ==
    /\ ~running
    /\ task \in {"looping", "dispatching", "sleeping"}
    /\ task' = "cancelled"
    /\ batch' = <<>>
    /\ UNCHANGED <<timeline, running, since, next_batch, past>>

\* The process ends, stopped or not, and the next one has nothing of it.
Restart ==
    /\ task # "none"
    /\ running' = FALSE
    /\ task' = "none"
    /\ since' = None
    /\ batch' = <<>>
    /\ next_batch' = None
    /\ UNCHANGED <<timeline, past>>

-----------------------------------------------------------------------------
SyncLater == SyncNext \/ SyncRepeats

LoopStep == Wakes \/ Dispatch \/ SyncEnds \/ Leaves

Next ==
    \/ \E event \in Events : Post(event)
    \/ Start
    \/ SyncFirst
    \/ SyncLater
    \/ SyncFails
    \/ LoopStep
    \/ Stop
    \/ Cancel
    \/ Restart

Spec == Init /\ [][Next]_vars

\* The loop runs on and the retry delay ends; a homeserver that is asked again
\* and again answers in the end.
Fairness == WF_vars(LoopStep) /\ SF_vars(SyncFirst) /\ SF_vars(SyncLater)

FairSpec == Spec /\ Fairness

-----------------------------------------------------------------------------
(***************************************************************************)
(* Properties.                                                             *)
(***************************************************************************)
TypeOK ==
    /\ timeline \in Seq(Events)
    /\ running \in BOOLEAN
    /\ task \in {"none", "looping", "dispatching", "sleeping", "left", "cancelled"}
    /\ {since, next_batch} \subseteq 0 .. Len(timeline) \cup {None}
    /\ batch \in Seq(DOMAIN timeline)
    /\ started \in 0 .. Len(timeline)
    /\ cut \subseteq DOMAIN timeline
    /\ interrupted \subseteq DOMAIN timeline
    /\ handled \subseteq Decisions

\* The room's history is never replayed: what is dispatched was posted after this
\* process had started its gateway, though a restart loses the token.
HistorySkipped == \A p \in Range(batch) : p > started

\* Failed syncs, stops and announcements that raise lose no decision an answer
\* held.  When the token moves on, the core has been handed every decision up to
\* it but two kinds: those beyond the homeserver's limit, which no answer held, and
\* those of an answer that a callback cut short by raising, for the retry's answer
\* may leave them out, or nio pass over it.
NoneOvertaken ==
    [][since # None /\ since' # None =>
        \A p \in since + 1 .. since' :
            p \in Decisions => p \in handled' \cup cut \cup interrupted]_vars

\* A decision is dispatched a second time only where a callback cut its answer
\* short: a failed sync, a stop and a restart repeat none.
RepeatedOnlyAfterRaise == Range(batch) \cap handled \subseteq interrupted

\* Every decision posted after the first sync is answered for: it reaches the core,
\* or lies beyond the limit, or in an answer a callback cut short, or the gateway
\* is stopped.  Callbacks that raise for ever hold up nothing else.
DecisionsReachCore ==
    \A p \in 1 .. MaxEvents :
        p \in Decisions /\ since # None /\ p > since /\ running ~>
            p \in handled \cup cut \cup interrupted \/ ~running

=============================================================================

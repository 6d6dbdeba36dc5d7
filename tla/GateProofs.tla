----------------------------- MODULE GateProofs -----------------------------
(***************************************************************************)
(* The broker implements Gate: every step of Broker is, through the        *)
(* mapping of TheGate, a step of the gate.  And its answers are true.      *)
(***************************************************************************)
EXTENDS BrokerProofs

\* A call is answered only when it is done, and only revoke_access records a revocation.
AnswersOK ==
    \A c \in Calls :
        /\ pc[c] # "done" => answer[c].status = "none"
        /\ pc[c] = "recordRevoked" => OpOf(c) = "revoke_access"

\* A step that leaves every call but c as it is, and answers c only when done.
LEMMA AnswersKept ==
  ASSUME AnswersOK, NEW c \in Calls,
         \A d \in Calls \ {c} : pc'[d] = pc[d] /\ arg'[d] = arg[d] /\ answer'[d] = answer[d],
         pc'[c] # "done" => answer'[c].status = "none",
         pc'[c] = "recordRevoked" => arg'[c].tool = "revoke_access"
  PROVE  AnswersOK'
  BY DEF AnswersOK, OpOf

LEMMA AnswersStep == TypeOK /\ AnswersOK /\ [Next]_vars => AnswersOK'
<1> SUFFICES ASSUME TypeOK, AnswersOK, [Next]_vars PROVE AnswersOK'
  OBVIOUS
<1> USE DEF TypeOK, Starts, Goto, Awaits, Finish
<1>1. ASSUME NEW c \in Calls, NEW account \in Names, NEW resource \in Resources,
             NEW tool \in GateTools, AgentTool(c, tool, account, resource)
      PROVE  AnswersOK'
  BY <1>1, AnswersKept DEF AgentTool, AnswersOK
<1>2. ASSUME NEW c \in Calls, NEW account \in Names, NEW resource \in Resources,
             \/ TransferRead(c, account, resource)
             \/ \E intact \in BOOLEAN : TransferWrite(c, account, resource, intact)
      PROVE  AnswersOK'
  BY <1>2, AnswersKept DEF TransferRead, TransferWrite, AnswersOK
<1>3. ASSUME NEW c \in Calls, NEW account \in Names, NEW resource \in Resources,
             NEW ops \in OpSets, RequestAccess(c, account, resource, ops)
      PROVE  AnswersOK'
  BY <1>3, AnswersKept DEF RequestAccess, AnswersOK
<1>4. ASSUME NEW c \in Calls, NEW account \in Names, NEW number \in Numbers,
             RevokeAccess(c, account, number)
      PROVE  AnswersOK'
  BY <1>4, AnswersKept DEF RevokeAccess, AgentArgument, AnswersOK
<1>5. ASSUME NEW c \in Calls, Gate(c) PROVE AnswersOK'
  BY <1>5, AnswersKept DEF Gate, Justify, AnswersOK
<1>6. ASSUME NEW c \in Calls, RecordExecuted(c) \/ Submit(c) \/ RecordSubmitted(c)
      PROVE  AnswersOK'
  BY <1>6, AnswersKept DEF RecordExecuted, Submit, Accepts, RecordSubmitted, AnswersOK
<1>7. ASSUME NEW c \in Calls, RecordRevoked(c) \/ NotifyEnds(c) \/ BackendEnds(c)
      PROVE  AnswersOK'
  BY <1>7, AnswersKept DEF RecordRevoked, NotifyEnds, BackendEnds, BackendReturns, BackendFails, AnswersOK
<1>8. CASE CrashRestart
  BY <1>8 DEF CrashRestart, InFlight, AnswersOK, OpOf
<1>9. CASE UNCHANGED <<pc, arg, answer>>
  BY <1>9 DEF AnswersOK, OpOf
<1>10. ASSUME \/ \E c \in Calls : BackendActs(c)
              \/ \E n \in DOMAIN requests :
                    (\E lifetime \in Lifetimes : Approve(n, lifetime)) \/ Deny(n) \/ OwnerRevokes(n)
              \/ Sweep
              \/ \E b \in Baselines : BaselineMoves(b)
              \/ Tick
              \/ AllCallsMade
              \/ UNCHANGED vars
       PROVE  AnswersOK'
<2>1. UNCHANGED <<pc, arg, answer>>
  BY <1>10 DEF BackendActs, Approve, Deny, OwnerRevokes, Sweep, BaselineMoves, Tick,
               AllCallsMade, vars, handler
<2> QED
  BY <1>9, <2>1
<1> QED
  BY <1>1, <1>2, <1>3, <1>4, <1>5, <1>6, <1>7, <1>8, <1>10 DEF Next, HandlerStep

-----------------------------------------------------------------------------
(***************************************************************************)
(* How a step of one call shows at the gate.                               *)
(***************************************************************************)

\* Only call c moves.
OnlyMoves(c) ==
    \A d \in Calls \ {c} :
        pc'[d] = pc[d] /\ arg'[d] = arg[d] /\ task'[d] = task[d] /\ answer'[d] = answer[d]

\* The gate neither logs, operates, confirms nor declines.
LEMMA Forgets ==
  ASSUME Vouched' \subseteq Vouched,
         UNCHANGED <<Logged, Operated, Confirmed, Declined>>
  PROVE  TheGate!Next
  BY DEF TheGate!Next, TheGate!Forget, Permitted

\* A record that is no execution leaves the log as the gate sees it.
LEMMA LoggedKept ==
  ASSUME TypeOK,
         audit' = audit \/ \E a \in AuditRecord : ~Executed(a) /\ audit' = Append(audit, a)
  PROVE  Logged' = Logged
<1>1. audit \in Seq(AuditRecord)
  BY DEF TypeOK
<1>2. /\ \A i \in DOMAIN audit : i \in DOMAIN audit' /\ audit'[i] = audit[i]
      /\ \A i \in DOMAIN audit' : Executed(audit'[i]) => i \in DOMAIN audit /\ audit'[i] = audit[i]
  BY <1>1
<1> QED
  BY <1>2 DEF Logged, Executed

\* A call moves without reaching its record or an answer the gate gives.
LEMMA MovesQuietly ==
  ASSUME Logged' = Logged, NEW c \in Calls, OnlyMoves(c), task'[c] = task[c],
         pc'[c] = "record" => pc[c] = "record",
         answer[c].status = "none",
         answer'[c].status \notin {"refused", "pending"},
         answer'[c].status = "ok" => arg'[c].tool = "revoke_access"
  PROVE  TheGate!Next
<1>1. Vouched' \subseteq Vouched
  BY DEF OnlyMoves, Vouched
<1>2. UNCHANGED <<Operated, Confirmed, Declined>>
  BY DEF OnlyMoves, Operated, Confirmed, Declined, OpOf
<1> QED
  BY <1>1, <1>2, Forgets

\* A call that is not logged is answered refused or pending.
LEMMA Declines ==
  ASSUME Logged' = Logged, NEW c \in Calls, OnlyMoves(c), task'[c] = task[c],
         pc'[c] = "done", c \notin Logged,
         answer[c].status = "none", answer'[c].status \in {"refused", "pending"}
  PROVE  TheGate!Next
<1>1. Vouched' = Vouched \ {c}
  BY DEF OnlyMoves, Vouched
<1>2. UNCHANGED <<Operated, Confirmed>>
  BY DEF OnlyMoves, Operated, Confirmed, OpOf
<1>3. Declined' = Declined \cup {c} /\ c \notin Declined
  BY DEF OnlyMoves, Declined
<1> QED
  BY <1>1, <1>2, <1>3 DEF TheGate!Next, TheGate!Decline, Permitted

\* Only calls that came past their record are in the log.
LEMMA LoggedStarted ==
  ASSUME GateInv, NEW c \in Logged
  PROVE  pc[c] \in Started
  BY DEF GateInv, LogOK, EntryOK, Logged

-----------------------------------------------------------------------------
\* Every step of the broker is a step of the gate.
LEMMA StepImplements ==
  TypeInv /\ TypeInv' /\ GateInv /\ AnswersOK /\ [Next]_vars => TheGate!Next
<1> SUFFICES ASSUME TypeInv, TypeInv', GateInv, AnswersOK, [Next]_vars
             PROVE  TheGate!Next
  OBVIOUS
<1>a. TypeOK /\ TypeOK'
  BY DEF TypeInv
<1>b. \A c \in Calls : pc[c] # "done" => answer[c].status = "none"
  BY DEF AnswersOK
<1>c. \A c \in Calls : pc[c] \notin Started => c \notin Logged
  BY LoggedStarted
<1>d. audit' = audit => Logged' = Logged
  BY <1>a, LoggedKept
<1> USE DEF Starts, Goto, Awaits, Finish, Refused, Answer, NoAnswer, Started
<1>1. ASSUME NEW c \in Calls, NEW account \in Names, NEW resource \in Resources,
             NEW tool \in GateTools, AgentTool(c, tool, account, resource)
      PROVE  TheGate!Next
<2>1. OnlyMoves(c) /\ UNCHANGED <<audit, task>> /\ pc'[c] = "gate" /\ answer' = answer
  BY <1>1, <1>a DEF AgentTool, OnlyMoves, TypeOK
<2> QED
  BY <1>1, <1>b, <1>d, <2>1, MovesQuietly DEF AgentTool
<1>2. ASSUME NEW c \in Calls, pc[c] = "idle", OnlyMoves(c), UNCHANGED <<audit, task>>,
             \/ pc'[c] # "record" /\ answer' = answer
             \/ pc'[c] = "done" /\ answer'[c].status = "refused"
      PROVE  TheGate!Next
<2>1. CASE pc'[c] # "record" /\ answer' = answer
  BY <1>2, <1>b, <1>d, <2>1, MovesQuietly
<2>2. CASE pc'[c] = "done" /\ answer'[c].status = "refused"
  BY <1>2, <1>b, <1>c, <1>d, <2>2, Declines
<2> QED
  BY <1>2, <2>1, <2>2
<1>3. ASSUME NEW c \in Calls, NEW account \in Names, NEW resource \in Resources,
             \/ TransferRead(c, account, resource)
             \/ \E intact \in BOOLEAN : TransferWrite(c, account, resource, intact)
             \/ \E ops \in OpSets : RequestAccess(c, account, resource, ops)
      PROVE  TheGate!Next
<2>1. pc[c] = "idle" /\ OnlyMoves(c) /\ UNCHANGED <<audit, task>>
  BY <1>3, <1>a DEF TransferRead, TransferWrite, RequestAccess, OnlyMoves, TypeOK
<2>2. \/ pc'[c] # "record" /\ answer' = answer
      \/ pc'[c] = "done" /\ answer'[c].status = "refused"
  BY <1>3, <1>a DEF TransferRead, TransferWrite, RequestAccess, TypeOK
<2> QED
  BY <1>2, <2>1, <2>2
<1>4. ASSUME NEW c \in Calls, NEW account \in Names, NEW number \in Numbers,
             RevokeAccess(c, account, number)
      PROVE  TheGate!Next
<2>1. pc[c] = "idle" /\ OnlyMoves(c) /\ UNCHANGED <<audit, task>>
  BY <1>4, <1>a DEF RevokeAccess, OnlyMoves, TypeOK
<2>2. \/ pc'[c] # "record" /\ answer' = answer
      \/ pc'[c] = "done" /\ answer'[c].status = "refused"
  BY <1>4, <1>a DEF RevokeAccess, TypeOK
<2> QED
  BY <1>2, <2>1, <2>2
<1>5. ASSUME NEW c \in Calls, Gate(c) PROVE TheGate!Next
<2>1. OnlyMoves(c) /\ UNCHANGED <<audit, task, arg>> /\ pc[c] = "gate"
  BY <1>5, <1>a DEF Gate, Justify, OnlyMoves, TypeOK
<2>2. CASE pc'[c] = "done" /\ answer'[c].status = "refused"
  BY <1>b, <1>c, <1>d, <2>1, <2>2, Declines
<2>3. CASE pc'[c] = "submit" /\ answer' = answer
  BY <1>b, <1>d, <2>1, <2>3, MovesQuietly
<2>4. CASE pc'[c] = "record" /\ answer' = answer /\ c \in Permitted
  <3>1. Vouched' = Vouched \cup {c} /\ c \notin Vouched
    BY <2>1, <2>4 DEF OnlyMoves, Vouched
  <3>2. UNCHANGED <<Operated, Confirmed, Declined>> /\ c \notin Declined
    BY <1>b, <2>1, <2>4 DEF Operated, Confirmed, Declined, OpOf
  <3> QED
    BY <1>c, <1>d, <2>1, <2>4, <3>1, <3>2 DEF TheGate!Next, TheGate!Vouch, Permitted
<2>5. \/ pc'[c] = "done" /\ answer'[c].status = "refused"
      \/ pc'[c] = "submit" /\ answer' = answer
      \/ pc'[c] = "record" /\ answer' = answer /\ c \in Permitted
  <3>1. CASE arg[c].account \notin Accounts
    BY <1>5, <1>a, <3>1 DEF Gate, TypeOK
  <3>2. CASE /\ arg[c].account \in Accounts
             /\ active_for(arg[c].account, arg[c].resource, OpOf(c)) # {}
    BY <1>5, <1>a, <2>1, <3>2 DEF Gate, Justify, Permitted, TypeOK
  <3>3. CASE /\ arg[c].account \in Accounts
             /\ active_for(arg[c].account, arg[c].resource, OpOf(c)) = {}
    BY <1>5, <1>a, <2>1, <3>3 DEF Gate, Justify, Permitted, TypeOK, classify, tier_table, DECLARED_OPERATIONS
  <3> QED
    BY <3>1, <3>2, <3>3
<2> QED
  BY <2>2, <2>3, <2>4, <2>5
<1>6. ASSUME NEW c \in Calls, RecordExecuted(c) PROVE TheGate!Next
<2>1. OnlyMoves(c) /\ pc[c] = "record" /\ arg' = arg
  BY <1>6, <1>a DEF RecordExecuted, OnlyMoves, TypeOK
<2>2. CASE audit' = Append(audit, ExecutedRecord(c)) /\ pc'[c] = "running" /\ answer' = answer
           /\ task'[c] = "scheduled"
  <3>1. Vouched' = Vouched \ {c} /\ c \in Vouched
    BY <2>1, <2>2 DEF OnlyMoves, Vouched
  <3>2. UNCHANGED <<Confirmed, Declined>>
    BY <2>1, <2>2 DEF Confirmed, Declined, OpOf
  <3>3. Operated' = Operated
    <4>1. task[c] = "none"
      BY <2>1 DEF GateInv, TasksOK
    <4> QED
      BY <2>1, <2>2, <4>1 DEF OnlyMoves, Operated
  <3>4. Logged' = Logged \cup {c}
    <4>1. audit \in Seq(AuditRecord)
      BY <1>a DEF TypeOK
    <4>2. /\ \A i \in DOMAIN audit : i \in DOMAIN audit' /\ audit'[i] = audit[i]
          /\ Len(audit) + 1 \in DOMAIN audit' /\ audit'[Len(audit) + 1] = ExecutedRecord(c)
          /\ \A i \in DOMAIN audit' : i \in DOMAIN audit \/ i = Len(audit) + 1
      BY <2>2, <4>1
    <4>3. ExecutedRecord(c).decision = "executed" /\ ExecutedRecord(c).call = c
      BY DEF ExecutedRecord
    <4> QED
      BY <4>2, <4>3 DEF Logged, Executed
  <3> QED
    BY <3>1, <3>2, <3>3, <3>4 DEF TheGate!Next, TheGate!Log, Permitted
<2>3. CASE UNCHANGED <<audit, task>> /\ pc'[c] = "done" /\ answer'[c].status = "error"
  BY <1>b, <1>d, <2>1, <2>3, MovesQuietly
<2>4. CASE UNCHANGED <<audit, task>> /\ pc'[c] = "done" /\ answer'[c].status = "refused"
  BY <1>b, <1>c, <1>d, <2>1, <2>4, Declines
<2> QED
  BY <1>6, <1>a, <2>2, <2>3, <2>4 DEF RecordExecuted, TypeOK
<1>7. ASSUME NEW c \in Calls, Submit(c) PROVE TheGate!Next
<2>1. OnlyMoves(c) /\ UNCHANGED <<audit, task, arg>> /\ pc[c] = "submit"
  BY <1>7, <1>a DEF Submit, Accepts, OnlyMoves, TypeOK
<2>2. CASE pc'[c] = "recordSubmitted" /\ answer' = answer
  BY <1>b, <1>d, <2>1, <2>2, MovesQuietly
<2>3. CASE pc'[c] = "done" /\ answer'[c].status = "refused"
  BY <1>b, <1>c, <1>d, <2>1, <2>3, Declines
<2> QED
  BY <1>7, <1>a, <2>2, <2>3 DEF Submit, Accepts, TypeOK
<1>8. ASSUME NEW c \in Calls, RecordSubmitted(c) \/ NotifyEnds(c) PROVE TheGate!Next
<2>1. OnlyMoves(c) /\ UNCHANGED <<task, arg>> /\ pc[c] \in {"recordSubmitted", "notify"}
  BY <1>8, <1>a DEF RecordSubmitted, NotifyEnds, OnlyMoves, TypeOK
<2>2. Logged' = Logged
  <3>1. \/ audit' = audit
        \/ \E a : a.decision = "submitted" /\ audit' = Append(audit, a)
    BY <1>8 DEF RecordSubmitted, NotifyEnds
  <3> QED
    BY <1>a, <3>1, LastAppended, LoggedKept DEF Executed
<2>3. CASE pc'[c] = "notify" /\ answer' = answer
  BY <1>b, <2>1, <2>2, <2>3, MovesQuietly
<2>4. CASE pc'[c] = "done" /\ answer'[c].status = "pending"
  BY <1>b, <1>c, <2>1, <2>2, <2>4, Declines
<2>5. Pending(c).status = "pending"
  BY DEF Pending
<2>6. Finish(c, Pending(c)) => pc'[c] = "done" /\ answer'[c].status = "pending"
  BY <1>a, <2>5 DEF TypeOK
<2>7. Awaits(c, "notify") \/ Finish(c, Pending(c))
  BY <1>8 DEF RecordSubmitted, NotifyEnds
<2> QED
  BY <1>a, <2>3, <2>4, <2>6, <2>7 DEF TypeOK
<1>9. ASSUME NEW c \in Calls, RecordRevoked(c) PROVE TheGate!Next
<2>1. /\ OnlyMoves(c) /\ UNCHANGED <<task, arg>> /\ pc[c] = "recordRevoked" /\ pc'[c] = "done"
      /\ answer'[c].status = "ok"
  BY <1>9, <1>a DEF RecordRevoked, OnlyMoves, TypeOK
<2>2. Logged' = Logged
  <3>1. \/ audit' = audit
        \/ \E a : a.decision = "revoked" /\ audit' = Append(audit, a)
    BY <1>9 DEF RecordRevoked
  <3> QED
    BY <1>a, <3>1, LastAppended, LoggedKept DEF Executed
<2>3. arg'[c].tool = "revoke_access"
  BY <2>1 DEF AnswersOK, OpOf
<2> QED
  BY <1>b, <2>1, <2>2, <2>3, MovesQuietly
<1>10. ASSUME NEW c \in Calls, BackendActs(c) PROVE TheGate!Next
<2>1. UNCHANGED <<audit, pc, arg, answer>>
  BY <1>10 DEF BackendActs
<2>2. Operated' = Operated \cup {c} /\ c \notin Operated
  BY <1>10, <1>a DEF BackendActs, Operated, TypeOK
<2>3. c \in Logged
  BY <1>10 DEF BackendActs, GateInv, TasksOK, ExecutionLogged, Logged
<2>4. UNCHANGED <<Vouched, Confirmed, Declined>>
  BY <2>1 DEF Vouched, Confirmed, Declined, OpOf
<2> QED
  BY <1>d, <2>1, <2>2, <2>3, <2>4 DEF TheGate!Next, TheGate!Operate, Permitted
<1>11. ASSUME NEW c \in Calls, BackendReturns(c) PROVE TheGate!Next
<2>1. /\ OnlyMoves(c) /\ UNCHANGED <<audit, task, arg>> /\ pc[c] = "running" /\ pc'[c] = "done"
      /\ answer'[c].status = "ok" /\ task[c] = "acted"
  BY <1>11, <1>a DEF BackendReturns, OnlyMoves, TypeOK
<2>2. CASE OpOf(c) = "revoke_access"
  BY <1>b, <1>d, <2>1, <2>2, MovesQuietly DEF OpOf
<2>3. CASE OpOf(c) # "revoke_access"
  <3>1. Confirmed' = Confirmed \cup {c} /\ c \notin Confirmed /\ c \in Operated
    BY <1>b, <2>1, <2>3 DEF OnlyMoves, Confirmed, Operated, OpOf
  <3>2. UNCHANGED <<Vouched, Operated, Declined>>
    BY <1>b, <2>1 DEF OnlyMoves, Vouched, Operated, Declined
  <3> QED
    BY <1>d, <2>1, <3>1, <3>2 DEF TheGate!Next, TheGate!Confirm, Permitted
<2> QED
  BY <2>2, <2>3
<1>12. ASSUME NEW c \in Calls, BackendFails(c) PROVE TheGate!Next
<2>1. /\ OnlyMoves(c) /\ UNCHANGED <<audit, task, arg>> /\ pc[c] = "running" /\ pc'[c] = "done"
      /\ answer'[c].status = "error"
  BY <1>12, <1>a DEF BackendFails, OnlyMoves, TypeOK
<2> QED
  BY <1>b, <1>d, <2>1, MovesQuietly
<1>13. ASSUME UNCHANGED <<audit, task, arg, answer>>,
              \A c \in Calls : pc'[c] = "record" => pc[c] = "record"
       PROVE  TheGate!Next
<2>1. Vouched' \subseteq Vouched
  BY <1>13 DEF Vouched
<2>2. UNCHANGED <<Operated, Confirmed, Declined>>
  BY <1>13 DEF Operated, Confirmed, Declined, OpOf
<2> QED
  BY <1>13, <1>d, <2>1, <2>2, Forgets
<1>14. CASE CrashRestart
  BY <1>13, <1>14 DEF CrashRestart
<1>15. ASSUME \/ \E n \in DOMAIN requests :
                    (\E lifetime \in Lifetimes : Approve(n, lifetime)) \/ Deny(n) \/ OwnerRevokes(n)
              \/ Sweep
              \/ \E b \in Baselines : BaselineMoves(b)
              \/ Tick
              \/ AllCallsMade
              \/ UNCHANGED vars
       PROVE  TheGate!Next
<2>1. UNCHANGED <<audit, pc, arg, task, answer>>
  BY <1>15 DEF Approve, Deny, OwnerRevokes, Sweep, BaselineMoves, Tick, AllCallsMade, vars, handler
<2> QED
  BY <1>13, <2>1
<1> QED
  BY <1>1, <1>3, <1>4, <1>5, <1>6, <1>7, <1>8, <1>9, <1>10, <1>11, <1>12, <1>14, <1>15
  DEF Next, HandlerStep, BackendEnds

\* The broker implements the gate, for every set of calls, accounts, resources and
\* stores: whatever fails and whenever the process dies, an operation takes effect
\* once, after its log entry, which followed a look that found it permitted; ok is
\* answered for what took effect alone, and nothing declined is ever started.
THEOREM Implements == Spec => GateSpec
<1>1. Init => TheGate!Init
  BY DEF Init, NoAnswer, TheGate!Init, TheGate!progress, Permitted, Vouched, Logged, Operated,
         Confirmed, Declined
<1>2. Init => AnswersOK
  BY DEF Init, AnswersOK, NoAnswer
<1>3. TypeInv /\ GateInv /\ AnswersOK /\ [Next]_vars => AnswersOK'
  BY AnswersStep DEF TypeInv
<1>4. TypeInv /\ TypeInv' /\ GateInv /\ AnswersOK /\ [Next]_vars => [TheGate!Next]_(TheGate!vars)
  BY StepImplements
<1> QED
  BY <1>1, <1>2, <1>3, <1>4, GateInvariant, PTL DEF Spec, GateSpec, TheGate!Spec

-----------------------------------------------------------------------------
(***************************************************************************)
(* What the broker answers is true: EnvelopeHonest, for every set of       *)
(* calls, accounts and resources and every store.                          *)
(***************************************************************************)
\* A call that has a number in the store to answer, or has answered it.
Numbered(c) == pc[c] \in {"recordSubmitted", "notify"} \/ answer[c].status = "pending"

\* The request of that number is the one the call asked for.
OwnRequest(c) ==
    LET n == seen[c].number IN
    /\ n \in DOMAIN requests
    /\ requests[n].account = arg[c].account
    /\ requests[n].resource = arg[c].resource
    /\ requests[n].ops = ItemOps(c)

RevokedAt(n) == n \in DOMAIN requests /\ requests[n].state = "revoked"
RevokedAfter(n) == n \in DOMAIN requests' /\ requests'[n].state = "revoked"

Truth(c) ==
    /\ answer[c].status \in {"refused", "pending"} => task[c] = "none"
    /\ answer[c].status = "ok" /\ OpOf(c) # "revoke_access" => task[c] = "acted"
    /\ answer[c].status = "pending" => answer[c].number = seen[c].number
    /\ Numbered(c) => OwnRequest(c)
    /\ pc[c] = "recordRevoked" /\ seen[c].reason = "revoked" => RevokedAt(seen[c].number)
    /\ answer[c].revoked => RevokedAt(answer[c].number)

\* No two calls have the same number.
Distinct ==
    \A c, d \in Calls : Numbered(c) /\ Numbered(d) /\ c # d => seen[c].number # seen[d].number

EnvelopeInv == Distinct /\ \A c \in Calls : Truth(c)

\* What a step of the broker does to the store.
StoreGoesOn ==
    /\ StoreKept
    /\ \A n : RevokedAt(n) => RevokedAfter(n)

LEMMA StoreSteps ==
  ASSUME TypeInv, TypeInv', GateInv, [Next]_vars
  PROVE  StoreGoesOn
<1>1. StoreKept
  BY StoreStep DEF TypeInv, GateInv
<1>2. ASSUME NEW n, RevokedAt(n) PROVE RevokedAfter(n)
<2>1. n \in DOMAIN requests /\ requests[n].state = "revoked"
  BY <1>2 DEF RevokedAt, RevokedAfter
<2>2. MovesForward(n)
  BY <2>1, ForwardStep DEF TypeInv
<2> QED
  BY <2>1, <2>2 DEF MovesForward, Forward, RevokedAt, RevokedAfter
<1> QED
  BY <1>1, <1>2 DEF StoreGoesOn

\* The step leaves call c as it is, but that its backend may act.
Stays(c) ==
    /\ pc'[c] = pc[c] /\ arg'[c] = arg[c] /\ seen'[c] = seen[c] /\ answer'[c] = answer[c]
    /\ task'[c] = task[c] \/ (task[c] = "scheduled" /\ task'[c] = "acted")

LEMMA OwnRequestKept ==
  ASSUME StoreGoesOn, NEW c \in Calls, OwnRequest(c),
         arg'[c] = arg[c], seen'[c].number = seen[c].number
  PROVE  OwnRequest(c)'
  BY DEF StoreGoesOn, StoreKept, OwnRequest, ItemOps, OpOf

LEMMA TruthStays ==
  ASSUME StoreGoesOn, NEW c \in Calls, Truth(c), Stays(c)
  PROVE  /\ Truth(c)'
         /\ Numbered(c)' => Numbered(c) /\ seen'[c].number = seen[c].number
<1>1. Numbered(c)' <=> Numbered(c)
  BY DEF Stays, Numbered
<1>2. Numbered(c)' => OwnRequest(c)'
  BY <1>1, OwnRequestKept DEF Stays, Truth
<1>3. \A n : RevokedAt(n) => RevokedAfter(n)
  BY DEF StoreGoesOn
<1>4. pc'[c] = "recordRevoked" /\ seen'[c].reason = "revoked" => RevokedAfter(seen'[c].number)
  BY <1>3 DEF Stays, Truth
<1>5. answer'[c].revoked => RevokedAfter(answer'[c].number)
  BY <1>3 DEF Stays, Truth
<1>6. /\ answer'[c].status \in {"refused", "pending"} => task'[c] = "none"
      /\ answer'[c].status = "ok" /\ arg'[c].tool # "revoke_access" => task'[c] = "acted"
      /\ answer'[c].status = "pending" => answer'[c].number = seen'[c].number
  BY DEF Stays, Truth, OpOf
<1> QED
  BY <1>1, <1>2, <1>4, <1>5, <1>6 DEF Truth, Stays, OpOf, RevokedAt, RevokedAfter

\* A call that has not answered moves to where it has no number and no revocation.
LEMMA TruthMoves ==
  ASSUME StoreGoesOn, NEW c \in Calls, Truth(c), answer[c].status = "none",
         answer'[c] = answer[c],
         pc'[c] \notin {"recordSubmitted", "notify", "recordRevoked"}
  PROVE  Truth(c)' /\ ~Numbered(c)'
<1>1. ~Numbered(c)'
  BY DEF Numbered
<1>2. answer'[c].revoked => RevokedAfter(answer'[c].number)
  BY DEF Truth, StoreGoesOn
<1> QED
  BY <1>1, <1>2 DEF Truth, RevokedAt, RevokedAfter

\* A call answers refused, having started nothing, or error.
LEMMA TruthDeclined ==
  ASSUME NEW c \in Calls, task'[c] = task[c], pc'[c] = "done",
         \/ answer'[c] = Refused /\ task[c] = "none"
         \/ answer'[c] = Answer("error")
         \/ answer'[c] = Answer("ok") /\ task[c] = "acted"
  PROVE  Truth(c)' /\ ~Numbered(c)'
<1>1. answer'[c].status # "pending" /\ ~answer'[c].revoked
  BY DEF Refused, Answer, NoAnswer
<1>2. /\ answer'[c].status = "refused" => task[c] = "none"
      /\ answer'[c].status = "ok" => task[c] = "acted"
  BY DEF Refused, Answer, NoAnswer
<1> QED
  BY <1>1, <1>2 DEF Truth, Numbered

\* A step of one call, which does not take another's number.
LEMMA OneStep ==
  ASSUME EnvelopeInv, StoreGoesOn, NEW c \in Calls,
         \A d \in Calls \ {c} : Stays(d),
         Truth(c)',
         \/ ~Numbered(c)'
         \/ Numbered(c) /\ seen'[c].number = seen[c].number
         \/ \A d \in Calls \ {c} : Numbered(d) => seen'[c].number # seen[d].number
  PROVE  EnvelopeInv'
<1>1. \A d \in Calls \ {c} :
         Truth(d)' /\ (Numbered(d)' => Numbered(d) /\ seen'[d].number = seen[d].number)
  BY TruthStays DEF EnvelopeInv
<1>2. Distinct'
<2> SUFFICES ASSUME NEW d \in Calls, NEW e \in Calls, Numbered(d)', Numbered(e)', d # e
             PROVE  seen'[d].number # seen'[e].number
  BY DEF Distinct
<2>1. CASE d # c /\ e # c
  BY <1>1, <2>1 DEF EnvelopeInv, Distinct
<2>2. CASE d = c
  BY <1>1, <2>2 DEF EnvelopeInv, Distinct
<2>3. CASE e = c
  BY <1>1, <2>3 DEF EnvelopeInv, Distinct
<2> QED
  BY <2>1, <2>2, <2>3
<1> QED
  BY <1>1, <1>2 DEF EnvelopeInv

LEMMA EnvelopeStep ==
  TypeInv /\ TypeInv' /\ GateInv /\ AnswersOK /\ EnvelopeInv /\ [Next]_vars => EnvelopeInv'
<1> SUFFICES ASSUME TypeInv, TypeInv', GateInv, AnswersOK, EnvelopeInv, [Next]_vars
             PROVE  EnvelopeInv'
  OBVIOUS
<1>a. TypeOK /\ StoreGoesOn
  BY StoreSteps DEF TypeInv
<1>b. \A c \in Calls : pc[c] # "done" => answer[c].status = "none"
  BY DEF AnswersOK
<1>c. \A c \in Calls : pc[c] \notin Started => task[c] = "none"
  BY DEF GateInv, TasksOK
<1>d. \A c \in Calls : Truth(c)
  BY DEF EnvelopeInv
<1>e. ASSUME NEW c \in Calls, \A d \in Calls \ {c} : Stays(d), pc[c] # "done",
             answer' = answer, pc'[c] \notin {"recordSubmitted", "notify", "recordRevoked"}
      PROVE  EnvelopeInv'
  BY <1>a, <1>b, <1>d, <1>e, TruthMoves, OneStep
<1>f. ASSUME NEW c \in Calls, \A d \in Calls \ {c} : Stays(d), task'[c] = task[c],
             pc[c] \notin Started, Finish(c, Refused)
      PROVE  EnvelopeInv'
<2>1. pc'[c] = "done" /\ answer'[c] = Refused
  BY <1>a, <1>f DEF Finish, TypeOK
<2> QED
  BY <1>a, <1>c, <1>f, <2>1, TruthDeclined, OneStep
<1>g. \A c \in Calls : /\ Goto(c, "gate") => pc'[c] = "gate" /\ answer' = answer
                       /\ Goto(c, "record") => pc'[c] = "record" /\ answer' = answer
                       /\ Goto(c, "submit") => pc'[c] = "submit" /\ answer' = answer
                       /\ Awaits(c, "running") => pc'[c] = "running" /\ answer' = answer
  BY <1>a DEF Goto, Awaits, TypeOK
<1> USE DEF Starts
<1>1. ASSUME NEW c \in Calls, NEW account \in Names, NEW resource \in Resources,
             \/ \E tool \in GateTools : AgentTool(c, tool, account, resource)
             \/ TransferRead(c, account, resource)
             \/ \E intact \in BOOLEAN : TransferWrite(c, account, resource, intact)
             \/ \E ops \in OpSets : RequestAccess(c, account, resource, ops)
      PROVE  EnvelopeInv'
<2>1. /\ pc[c] = "idle" /\ task' = task
      /\ Goto(c, "gate") \/ Goto(c, "submit") \/ Finish(c, Refused)
  BY <1>1 DEF AgentTool, TransferRead, TransferWrite, RequestAccess
<2>2. \A d \in Calls \ {c} : Stays(d)
<3>1. \A d \in Calls \ {c} : pc'[d] = pc[d] /\ answer'[d] = answer[d]
  BY <1>a, <2>1 DEF TypeOK, Goto, Finish
<3>2. \A d \in Calls \ {c} : arg'[d] = arg[d] /\ seen'[d] = seen[d]
  BY <1>1, <1>a DEF AgentTool, TransferRead, TransferWrite, RequestAccess, TypeOK
<3> QED
  BY <2>1, <3>1, <3>2 DEF Stays
<2> QED
  BY <1>e, <1>f, <1>g, <2>1, <2>2 DEF Started
<1>2. ASSUME NEW c \in Calls, NEW account \in Names, NEW number \in Numbers,
             RevokeAccess(c, account, number)
      PROVE  EnvelopeInv'
<2>1. pc[c] = "idle" /\ task' = task
  BY <1>2 DEF RevokeAccess
<2>2. \A d \in Calls \ {c} : Stays(d)
  BY <1>2, <1>a DEF RevokeAccess, Stays, TypeOK, Goto, Finish
<2>3. CASE Finish(c, Refused)
  BY <1>f, <2>1, <2>2, <2>3 DEF Started
<2>4. CASE /\ number \in DOMAIN requests
           /\ requests' = [requests EXCEPT ![number] = Revoked(@)]
           /\ seen'[c].number = number
           /\ seen'[c].reason = "revoked" => requests[number].state \in RevocableStates
           /\ pc'[c] = "recordRevoked" /\ answer' = answer
  <3>1. requests[number] \in Request
    BY <1>a, <2>4 DEF TypeOK
  <3>2. seen'[c].reason = "revoked" => RevokedAfter(seen'[c].number)
    BY <1>a, <2>4, <3>1 DEF RevokedAt, RevokedAfter, Revoked, Request, TypeOK
  <3>3. answer'[c].revoked => RevokedAfter(answer'[c].number)
    BY <1>a, <1>d, <2>4 DEF Truth, StoreGoesOn
  <3>4. answer'[c].status = "none"
    BY <1>b, <2>1, <2>4
  <3>5. ~Numbered(c)'
    BY <2>4, <3>4 DEF Numbered
  <3>6. Truth(c)'
    BY <2>4, <3>2, <3>3, <3>4, <3>5 DEF Truth, RevokedAt, RevokedAfter
  <3> QED
    BY <1>a, <2>2, <3>5, <3>6, OneStep
<2> QED
  BY <1>2, <1>a, <2>3, <2>4 DEF RevokeAccess, Goto, TypeOK, Reading
<1>3. ASSUME NEW c \in Calls, Gate(c) PROVE EnvelopeInv'
<2>1. /\ pc[c] = "gate" /\ UNCHANGED <<task, arg>>
      /\ Goto(c, "record") \/ Goto(c, "submit") \/ Finish(c, Refused)
  BY <1>3 DEF Gate, Justify
<2>2. \A d \in Calls \ {c} : Stays(d)
<3>1. \A d \in Calls \ {c} : pc'[d] = pc[d] /\ answer'[d] = answer[d]
  BY <1>a, <2>1 DEF TypeOK, Goto, Finish
<3>2. \A d \in Calls \ {c} : seen'[d] = seen[d]
  BY <1>3, <1>a DEF Gate, Justify, Justified, TypeOK
<3> QED
  BY <2>1, <3>1, <3>2 DEF Stays
<2> QED
  BY <1>e, <1>f, <1>g, <2>1, <2>2 DEF Started
<1>4. ASSUME NEW c \in Calls, RecordExecuted(c) PROVE EnvelopeInv'
<2>1. pc[c] = "record" /\ UNCHANGED <<arg, seen>>
  BY <1>4 DEF RecordExecuted
<2>2. \A d \in Calls \ {c} : Stays(d)
  BY <1>4, <1>a DEF RecordExecuted, Stays, TypeOK, Awaits, Finish
<2>3. CASE Awaits(c, "running")
  BY <1>e, <1>g, <2>1, <2>2, <2>3
<2>4. CASE Finish(c, Answer("error")) /\ task' = task
  <3>1. pc'[c] = "done" /\ answer'[c] = Answer("error")
    BY <1>a, <2>4 DEF Finish, TypeOK
  <3> QED
    BY <1>a, <2>2, <2>4, <3>1, TruthDeclined, OneStep
<2>5. CASE Finish(c, Refused) /\ task' = task
  BY <1>f, <2>1, <2>2, <2>5 DEF Started
<2> QED
  BY <1>4, <2>3, <2>4, <2>5 DEF RecordExecuted
<1>5. ASSUME NEW c \in Calls, Submit(c) PROVE EnvelopeInv'
<2>1. pc[c] = "submit" /\ UNCHANGED <<task, arg>>
  BY <1>5 DEF Submit
<2>2. \A d \in Calls \ {c} : Stays(d)
  BY <1>5, <1>a DEF Submit, Accepts, Stays, TypeOK, Goto, Finish
<2>3. CASE Finish(c, Refused)
  BY <1>f, <2>1, <2>2, <2>3 DEF Started
<2>4. CASE Accepts(c)
  <3>1. /\ requests' = Append(requests, Item(c))
        /\ seen'[c].number = Len(requests) + 1
        /\ pc'[c] = "recordSubmitted" /\ answer' = answer
    BY <1>a, <2>4 DEF Accepts, Goto, TypeOK, Reading
  <3>2. requests \in Seq(Request)
    BY <1>a DEF TypeOK
  <3>3. /\ Len(requests) + 1 \in DOMAIN requests'
        /\ requests'[Len(requests) + 1] = Item(c)
        /\ Len(requests) + 1 \notin DOMAIN requests
    BY <3>1, <3>2
  <3>4. /\ Item(c).account = arg[c].account /\ Item(c).resource = arg[c].resource
        /\ Item(c).ops = ItemOps(c)
    BY DEF Item
  <3>5. OwnRequest(c)'
    BY <2>1, <3>1, <3>3, <3>4 DEF OwnRequest, ItemOps, OpOf
  <3>6. answer'[c].status = "none"
    BY <1>b, <2>1, <3>1
  <3>7. answer'[c].revoked => RevokedAfter(answer'[c].number)
    BY <1>a, <1>d, <3>1 DEF Truth, StoreGoesOn
  <3>8. Truth(c)'
    BY <3>1, <3>5, <3>6, <3>7 DEF Truth, RevokedAt, RevokedAfter
  <3>9. \A d \in Calls \ {c} : Numbered(d) => seen'[c].number # seen[d].number
    BY <1>d, <3>1, <3>3 DEF Truth, OwnRequest
  <3> QED
    BY <1>a, <2>2, <3>8, <3>9, OneStep
<2> QED
  BY <1>5, <2>3, <2>4 DEF Submit
<1>6. ASSUME NEW c \in Calls, RecordSubmitted(c) \/ NotifyEnds(c) PROVE EnvelopeInv'
<2>1. /\ pc[c] \in {"recordSubmitted", "notify"} /\ UNCHANGED <<task, arg, seen, requests>>
      /\ Awaits(c, "notify") \/ Finish(c, Pending(c))
  BY <1>6 DEF RecordSubmitted, NotifyEnds, store
<2>2. \A d \in Calls \ {c} : Stays(d)
  BY <1>a, <2>1 DEF Stays, TypeOK, Awaits, Finish
<2>3. Numbered(c) /\ OwnRequest(c)' /\ task[c] = "none" /\ answer[c].status = "none"
  BY <1>a, <1>b, <1>c, <1>d, <2>1, OwnRequestKept DEF Numbered, Truth, Started
<2>4. CASE Awaits(c, "notify")
  <3>1. pc'[c] = "notify" /\ answer' = answer
    BY <1>a, <2>4 DEF Awaits, TypeOK
  <3>2. answer'[c].revoked => RevokedAfter(answer'[c].number)
    BY <1>a, <1>d, <3>1 DEF Truth, StoreGoesOn
  <3>3. Truth(c)'
    BY <2>1, <2>3, <3>1, <3>2 DEF Truth, RevokedAt, RevokedAfter
  <3> QED
    BY <1>a, <2>1, <2>2, <2>3, <3>3, OneStep
<2>5. CASE Finish(c, Pending(c))
  <3>1. pc'[c] = "done" /\ answer'[c] = Pending(c)
    BY <1>a, <2>5 DEF Finish, TypeOK
  <3>2. Pending(c).status = "pending" /\ Pending(c).number = seen[c].number /\ ~Pending(c).revoked
    BY DEF Pending, Answer, NoAnswer
  <3>3. Truth(c)'
    BY <2>1, <2>3, <3>1, <3>2 DEF Truth
  <3> QED
    BY <1>a, <2>1, <2>2, <2>3, <3>3, OneStep
<2> QED
  BY <2>1, <2>4, <2>5
<1>7. ASSUME NEW c \in Calls, RecordRevoked(c) PROVE EnvelopeInv'
<2>1. /\ pc[c] = "recordRevoked" /\ UNCHANGED <<task, arg, seen, requests>>
      /\ Finish(c, [status |-> "ok", number |-> seen[c].number,
                    revoked |-> seen[c].reason = "revoked"])
  BY <1>7 DEF RecordRevoked, store
<2>2. \A d \in Calls \ {c} : Stays(d)
  BY <1>a, <2>1 DEF Stays, TypeOK, Finish
<2>3. /\ pc'[c] = "done" /\ answer'[c].status = "ok" /\ answer'[c].number = seen[c].number
      /\ answer'[c].revoked => seen[c].reason = "revoked"
  BY <1>a, <2>1 DEF Finish, TypeOK
<2>4. arg'[c].tool = "revoke_access"
  BY <2>1 DEF AnswersOK, OpOf
<2>5. answer'[c].revoked => RevokedAfter(answer'[c].number)
  BY <1>d, <2>1, <2>3 DEF Truth, RevokedAt, RevokedAfter
<2>6. ~Numbered(c)'
  BY <2>3 DEF Numbered
<2>7. Truth(c)'
  BY <2>3, <2>4, <2>5, <2>6 DEF Truth, OpOf, RevokedAt, RevokedAfter
<2> QED
  BY <1>a, <2>2, <2>6, <2>7, OneStep
<1>8. ASSUME NEW c \in Calls, BackendEnds(c) PROVE EnvelopeInv'
<2>1. /\ UNCHANGED <<task, arg, seen>>
      /\ \/ Finish(c, Answer("ok")) /\ task[c] = "acted"
         \/ Finish(c, Answer("error"))
  BY <1>8 DEF BackendEnds, BackendReturns, BackendFails
<2>2. \A d \in Calls \ {c} : Stays(d)
  BY <1>a, <2>1 DEF Stays, TypeOK, Finish
<2>3. /\ pc'[c] = "done"
      /\ (answer'[c] = Answer("ok") /\ task[c] = "acted") \/ answer'[c] = Answer("error")
  BY <1>a, <2>1 DEF Finish, TypeOK
<2> QED
  BY <1>a, <2>1, <2>2, <2>3, TruthDeclined, OneStep
<1>9. CASE CrashRestart
<2>1. /\ UNCHANGED <<task, arg, seen, requests, answer>>
      /\ \A c \in Calls : pc'[c] = pc[c] \/ (InFlight(c) /\ pc'[c] = "lost")
  BY <1>9 DEF CrashRestart, store
<2>2. ASSUME NEW c \in Calls
      PROVE  /\ Truth(c)'
             /\ Numbered(c)' => Numbered(c) /\ seen'[c].number = seen[c].number
  <3>1. CASE pc'[c] = pc[c]
    BY <1>a, <1>d, <2>1, <3>1, TruthStays DEF Stays
  <3>2. CASE InFlight(c) /\ pc'[c] = "lost"
    BY <1>a, <1>b, <1>d, <2>1, <3>2, TruthMoves DEF InFlight
  <3> QED
    BY <2>1, <3>1, <3>2
<2> QED
  BY <2>2 DEF EnvelopeInv, Distinct
<1>10. ASSUME \A c \in Calls : Stays(c)
       PROVE  EnvelopeInv'
<2>1. \A c \in Calls :
         Truth(c)' /\ (Numbered(c)' => Numbered(c) /\ seen'[c].number = seen[c].number)
  BY <1>a, <1>d, <1>10, TruthStays
<2> QED
  BY <2>1 DEF EnvelopeInv, Distinct
<1>11. ASSUME NEW c \in Calls, BackendActs(c) PROVE EnvelopeInv'
<2>1. \A d \in Calls : Stays(d)
  BY <1>11, <1>a DEF BackendActs, Stays, TypeOK
<2> QED
  BY <1>10, <2>1
<1>12. ASSUME \/ \E n \in DOMAIN requests :
                    (\E lifetime \in Lifetimes : Approve(n, lifetime)) \/ Deny(n) \/ OwnerRevokes(n)
              \/ Sweep
              \/ \E b \in Baselines : BaselineMoves(b)
              \/ Tick
              \/ AllCallsMade
              \/ UNCHANGED vars
       PROVE  EnvelopeInv'
<2>1. UNCHANGED <<pc, arg, seen, task, answer>>
  BY <1>12 DEF Approve, Deny, OwnerRevokes, Sweep, BaselineMoves, Tick, AllCallsMade, vars, handler
<2> QED
  BY <1>10, <2>1 DEF Stays
<1> QED
  BY <1>1, <1>2, <1>3, <1>4, <1>5, <1>6, <1>7, <1>8, <1>9, <1>11, <1>12 DEF Next, HandlerStep

\* Every envelope tells the truth, whatever fails in between: ok means the
\* backend acted, refused and pending that nothing was started, a pending number
\* is the call's own request, and a revocation reported is in the store.
THEOREM EnvelopesHonest == Spec => []EnvelopeHonest
<1>1. Init => AnswersOK /\ EnvelopeInv
  BY DEF Init, NoAnswer, AnswersOK, EnvelopeInv, Distinct, Truth, Numbered
<1>2. TypeInv /\ TypeInv' /\ GateInv /\ AnswersOK /\ EnvelopeInv /\ [Next]_vars
        => AnswersOK' /\ EnvelopeInv'
  BY AnswersStep, EnvelopeStep DEF TypeInv
<1>3. EnvelopeInv => EnvelopeHonest
<2> SUFFICES ASSUME EnvelopeInv, NEW c \in Calls
             PROVE  LET e == answer[c] IN
                    /\ e.status = "ok" /\ OpOf(c) # "revoke_access" => task[c] = "acted"
                    /\ e.status = "refused" => task[c] = "none"
                    /\ e.status = "pending" =>
                        /\ task[c] = "none"
                        /\ e.number \in DOMAIN requests
                        /\ requests[e.number].account = arg[c].account
                        /\ requests[e.number].resource = arg[c].resource
                        /\ requests[e.number].ops = ItemOps(c)
                        /\ \A d \in Calls \ {c} :
                            answer[d].status = "pending" => answer[d].number # e.number
                    /\ e.revoked => requests[e.number].state = "revoked"
  BY DEF EnvelopeHonest
<2>1. Truth(c)
  BY DEF EnvelopeInv
<2>2. \A d \in Calls \ {c} :
         answer[c].status = "pending" /\ answer[d].status = "pending" =>
            answer[d].number # answer[c].number
  BY DEF EnvelopeInv, Truth, Distinct, Numbered
<2> QED
  BY <2>1, <2>2 DEF Truth, Numbered, OwnRequest, RevokedAt, RevokedAfter
<1> QED
  BY <1>1, <1>2, <1>3, GateInvariant, PTL DEF Spec
=============================================================================

---------------------------- MODULE BrokerProofs ----------------------------
(***************************************************************************)
(* Proofs about Broker, for every set of calls, accounts, resources and    *)
(* baselines and every store the broker is booted on.                      *)
(***************************************************************************)
EXTENDS Broker, TLAPS, SequenceTheorems

\* Tools whose calls reach the gate or submit have the arguments these need.
ArgumentsFit ==
    \A c \in Calls :
        /\ pc[c] # "idle" => arg[c] \in Argument
        /\ pc[c] \in {"gate", "record", "submit", "recordSubmitted", "notify", "running"} =>
              arg[c].resource \in Resources
        /\ pc[c] \in {"record", "submit", "recordSubmitted", "notify", "running"} =>
              arg[c].account \in Accounts

LEMMA BootedStore ==
  ASSUME NEW st \in Stores
  PROVE  Persisted(st)
  BY BrokerAssumption

LEMMA Configured ==
  /\ \A a \in Accounts : Family[a] \in DECLARED_BACKENDS
  /\ Numbers \subseteq Nat
  /\ Lifetimes \subseteq Nat
  /\ Idle \notin Calls
  BY BrokerAssumption DEF Numbers

LEMMA InitType == Init => TypeOK
<1> SUFFICES ASSUME Init PROVE TypeOK
  OBVIOUS
<1>1. requests \in Seq(Request)
  BY BootedStore DEF Init, Persisted
<1>2. audit \in Seq(AuditRecord)
  BY DEF Init
<1>3. /\ pc \in [Calls -> PCs]
      /\ arg \in [Calls -> Argument \cup {NoArgument}]
      /\ task \in [Calls -> {"none", "scheduled", "acted"}]
  BY DEF Init, PCs
<1>4. /\ seen \in [Calls -> Reading]
      /\ answer \in [Calls -> Envelope]
  BY DEF Init, Reading, Reasons, NoReading, NoAnswer, Envelope
<1> QED
  BY <1>1, <1>2, <1>3, <1>4 DEF Init, TypeOK

LEMMA AuditAppended ==
  ASSUME audit \in Seq(AuditRecord), NEW a \in AuditRecord
  PROVE  Append(audit, a) \in Seq(AuditRecord)
  BY AppendProperties

\* A request of the store, replaced by another, leaves a store.
LEMMA RequestReplaced ==
  ASSUME requests \in Seq(Request), NEW n \in DOMAIN requests, NEW r \in Request
  PROVE  /\ [requests EXCEPT ![n] = r] \in Seq(Request)
         /\ DOMAIN [requests EXCEPT ![n] = r] = DOMAIN requests
  BY ExceptSeq

LEMMA RevokedType ==
  ASSUME NEW r \in Request
  PROVE  Revoked(r) \in Request
  BY DEF Revoked, Request, RequestStates

LEMMA ArgumentTypes ==
  ASSUME NEW account \in Names
  PROVE  /\ \A tool \in GateTools, resource \in Resources :
              AgentArgument(tool, account, resource) \in Argument
         /\ \A tool \in TransferTools, resource \in Resources :
              TransferArgument(tool, account, resource) \in Argument
         /\ \A resource \in Resources, ops \in OpSets :
              [AgentArgument("request_access", account, resource) EXCEPT !.ops = ops] \in Argument
         /\ \A number \in Numbers :
              [AgentArgument("revoke_access", account, <<>>) EXCEPT !.number = number] \in Argument
<1>1. ASSUME NEW tool \in GateTools, NEW resource \in Resources
      PROVE  AgentArgument(tool, account, resource) \in Argument
  BY DEF AgentArgument, Argument, AgentTools
<1>2. ASSUME NEW tool \in TransferTools, NEW resource \in Resources
      PROVE  TransferArgument(tool, account, resource) \in Argument
  BY DEF AgentArgument, TransferArgument, Argument, TransferTools
<1>3. ASSUME NEW resource \in Resources, NEW ops \in OpSets
      PROVE  [AgentArgument("request_access", account, resource) EXCEPT !.ops = ops] \in Argument
  BY DEF AgentArgument, Argument, AgentTools
<1>4. ASSUME NEW number \in Numbers
      PROVE  [AgentArgument("revoke_access", account, <<>>) EXCEPT !.number = number] \in Argument
<2>1. number \in Nat
  BY BrokerAssumption DEF Numbers
<2> QED
  BY <2>1 DEF AgentArgument, Argument, AgentTools
<1> QED
  BY <1>1, <1>2, <1>3, <1>4

LEMMA EnvelopeTypes ==
  /\ Refused \in Envelope
  /\ Answer("ok") \in Envelope
  /\ Answer("error") \in Envelope
  BY DEF Refused, Answer, NoAnswer, Envelope

TypeInv == TypeOK /\ ArgumentsFit

\* The variables that Goto, Awaits and Finish move.
ControlType ==
    /\ loop \in Calls \cup {Idle}
    /\ pc \in [Calls -> PCs]
    /\ answer \in [Calls -> Envelope]

LEMMA ControlSteps ==
  ASSUME ControlType, NEW c \in Calls
  PROVE  /\ \A step \in PCs : Goto(c, step) \/ Awaits(c, step) => ControlType'
         /\ \A e \in Envelope : Finish(c, e) => ControlType'
  BY DEF ControlType, Goto, Awaits, Finish, PCs

LEMMA ReadingUpdates ==
  ASSUME NEW r \in Reading
  PROVE  /\ \A t \in Nat : [r EXCEPT !.admitted = t] \in Reading
         /\ \A n \in Nat : [r EXCEPT !.number = n] \in Reading
         /\ \A n \in Nat, why \in Reasons : [r EXCEPT !.number = n, !.reason = why] \in Reading
         /\ \A t, n \in Nat, why \in Reasons :
               [r EXCEPT !.checked = t, !.number = n, !.reason = why] \in Reading
  BY DEF Reading

LEMMA TypeStep == TypeInv /\ [Next]_vars => TypeInv'
<1> SUFFICES ASSUME TypeInv, [Next]_vars PROVE TypeInv'
  OBVIOUS
<1>a. /\ ControlType
      /\ TypeOK
      /\ ArgumentsFit
  BY DEF TypeInv, TypeOK, ControlType
<1>1. ASSUME NEW c \in Calls, NEW account \in Names, NEW resource \in Resources,
             NEW tool \in GateTools, AgentTool(c, tool, account, resource)
      PROVE  TypeInv'
<2>1. ControlType'
  BY <1>1, <1>a, ControlSteps DEF AgentTool, PCs
<2>2. /\ AgentArgument(tool, account, resource) \in Argument
      /\ AgentArgument(tool, account, resource).resource = resource
  BY ArgumentTypes DEF AgentArgument
<2>3. ArgumentsFit'
  BY <1>1, <1>a, <2>2 DEF TypeOK, ArgumentsFit, AgentTool, Starts, Goto, PCs
<2> QED
  BY <1>1, <1>a, <2>1, <2>2, <2>3 DEF TypeInv, TypeOK, ControlType, AgentTool, Starts, store
<1>2. ASSUME NEW c \in Calls, NEW account \in Names, NEW resource \in Resources,
             \/ TransferRead(c, account, resource)
             \/ \E intact \in BOOLEAN : TransferWrite(c, account, resource, intact)
      PROVE  TypeInv'
<2>1. PICK tool \in TransferTools :
         /\ arg' = [arg EXCEPT ![c] = TransferArgument(tool, account, resource)]
         /\ \/ seen' = [seen EXCEPT ![c].admitted = now] /\ Goto(c, "gate")
            \/ UNCHANGED seen /\ Finish(c, Refused)
         /\ UNCHANGED <<now, store, audit, task>>
  BY <1>2 DEF TransferRead, TransferWrite, Starts, TransferTools
<2>2. /\ TransferArgument(tool, account, resource) \in Argument
      /\ TransferArgument(tool, account, resource).resource = resource
  BY ArgumentTypes DEF AgentArgument, TransferArgument
<2>3. ControlType'
  BY <1>a, <2>1, ControlSteps, EnvelopeTypes DEF PCs
<2>4. seen' \in [Calls -> Reading]
<3>1. seen[c] \in Reading /\ now \in Nat
  BY <1>a DEF TypeOK
<3>2. [seen[c] EXCEPT !.admitted = now] \in Reading
  BY <3>1, ReadingUpdates
<3> QED
  BY <1>a, <2>1, <3>2 DEF TypeOK
<2>5. ArgumentsFit'
  BY <1>a, <2>1, <2>2 DEF TypeOK, ArgumentsFit, Goto, Finish, PCs
<2> QED
  BY <1>a, <2>1, <2>2, <2>3, <2>4, <2>5 DEF TypeInv, TypeOK, ControlType, store
<1>3. ASSUME NEW c \in Calls, NEW account \in Names, NEW resource \in Resources,
             NEW ops \in OpSets, RequestAccess(c, account, resource, ops)
      PROVE  TypeInv'
<2> DEFINE a == [AgentArgument("request_access", account, resource) EXCEPT !.ops = ops]
<2>1. a \in Argument /\ a.resource = resource /\ a.account = account
  BY ArgumentTypes DEF AgentArgument
<2>2. arg' = [arg EXCEPT ![c] = a]
  BY <1>3 DEF RequestAccess, Starts
<2> HIDE DEF a
<2>3. ControlType'
  BY <1>3, <1>a, ControlSteps, EnvelopeTypes DEF RequestAccess, PCs
<2>4. ArgumentsFit'
  BY <1>3, <1>a, <2>1, <2>2 DEF TypeOK, ArgumentsFit, RequestAccess, Goto, Finish, PCs
<2> QED
  BY <1>3, <1>a, <2>1, <2>2, <2>3, <2>4 DEF TypeInv, TypeOK, ControlType, RequestAccess, store
<1>4. ASSUME NEW c \in Calls, NEW account \in Names, NEW number \in Numbers,
             RevokeAccess(c, account, number)
      PROVE  TypeInv'
<2> DEFINE a == [AgentArgument("revoke_access", account, <<>>) EXCEPT !.number = number]
<2>1. a \in Argument
  BY ArgumentTypes
<2>2. arg' = [arg EXCEPT ![c] = a]
  BY <1>4 DEF RevokeAccess, Starts
<2> HIDE DEF a
<2>3. ControlType'
  BY <1>4, <1>a, ControlSteps, EnvelopeTypes DEF RevokeAccess, PCs
<2>4. ArgumentsFit'
  BY <1>4, <1>a, <2>1, <2>2 DEF TypeOK, ArgumentsFit, RevokeAccess, Goto, Finish, PCs
<2>5. number \in Nat
  BY BrokerAssumption DEF Numbers
<2>6. seen' \in [Calls -> Reading]
<3>1. seen[c] \in Reading
  BY <1>a DEF TypeOK
<3>2. \A why \in Reasons : [seen[c] EXCEPT !.number = number, !.reason = why] \in Reading
  BY <2>5, <3>1, ReadingUpdates
<3>3. \/ seen' = seen
      \/ \E why \in Reasons : seen' = [seen EXCEPT ![c] = [seen[c] EXCEPT !.number = number, !.reason = why]]
  BY <1>4, <1>a DEF TypeOK, RevokeAccess, Reasons
<3> QED
  BY <1>a, <3>2, <3>3 DEF TypeOK
<2>7. requests' \in Seq(Request)
<3>1. CASE number \in DOMAIN requests
  <4>1. Revoked(requests[number]) \in Request
    BY <1>a, <3>1, RevokedType DEF TypeOK
  <4>2. [requests EXCEPT ![number] = Revoked(requests[number])] \in Seq(Request)
    BY <1>a, <3>1, <4>1, RequestReplaced DEF TypeOK
  <4>3. \/ requests' = requests
        \/ requests' = [requests EXCEPT ![number] = Revoked(requests[number])]
    BY <1>4 DEF RevokeAccess
  <4> QED
    BY <1>a, <4>2, <4>3 DEF TypeOK
<3>2. CASE number \notin DOMAIN requests
  BY <1>4, <1>a, <3>2 DEF TypeOK, RevokeAccess
<3> QED
  BY <3>1, <3>2
<2> QED
  BY <1>4, <1>a, <2>1, <2>2, <2>3, <2>4, <2>6, <2>7 DEF TypeInv, TypeOK, ControlType, RevokeAccess
<1>5. ASSUME NEW c \in Calls, Gate(c) PROVE TypeInv'
<2>1. ControlType'
  BY <1>5, <1>a, ControlSteps, EnvelopeTypes DEF Gate, Justify, PCs
<2>2. seen' \in [Calls -> Reading]
<3>1. seen[c] \in Reading /\ now \in Nat
  BY <1>a DEF TypeOK
<3>2. \A n \in Nat, why \in Reasons :
         [seen[c] EXCEPT !.checked = now, !.number = n, !.reason = why] \in Reading
  BY <3>1, ReadingUpdates
<3>3. ASSUME NEW n \in Nat, NEW why \in Reasons, Justify(c, n, why)
      PROVE  seen' \in [Calls -> Reading]
<4>1. seen' = [seen EXCEPT ![c] =
                  [seen[c] EXCEPT !.checked = now, !.number = n, !.reason = why]]
  BY <1>a, <3>3 DEF Justify, Justified, TypeOK
<4> QED
  BY <1>a, <3>2, <4>1 DEF TypeOK
<3>4. \A n \in active_for(arg[c].account, arg[c].resource, OpOf(c)) : n \in Nat
  BY <1>a DEF active_for, TypeOK
<3> QED
  BY <1>5, <1>a, <3>3, <3>4 DEF Gate, Reasons, TypeOK
<2>3. ArgumentsFit'
  BY <1>5, <1>a DEF TypeOK, ArgumentsFit, Gate, Justify, Goto, Finish, PCs
<2> QED
  BY <1>5, <1>a, <2>1, <2>2, <2>3 DEF TypeInv, TypeOK, ControlType, Gate, store
<1>6. ASSUME NEW c \in Calls, RecordExecuted(c) PROVE TypeInv'
<2>1. ControlType'
  BY <1>6, <1>a, ControlSteps, EnvelopeTypes DEF RecordExecuted, PCs
<2>2. ExecutedRecord(c) \in AuditRecord
<3>1. arg[c] \in Argument /\ arg[c].resource \in Resources /\ seen[c] \in Reading
  BY <1>6, <1>a DEF RecordExecuted, TypeOK, ArgumentsFit
<3> QED
  BY <3>1 DEF ExecutedRecord, AuditRecord, Argument, Reading, OpOf
<2>3. ArgumentsFit'
  BY <1>6, <1>a DEF TypeOK, ArgumentsFit, RecordExecuted, Awaits, Finish, PCs
<2>4. audit' \in Seq(AuditRecord)
<3>1. audit \in Seq(AuditRecord)
  BY <1>a DEF TypeOK
<3>2. Append(audit, ExecutedRecord(c)) \in Seq(AuditRecord)
  BY <2>2, <3>1, AuditAppended
<3> QED
  BY <1>6, <3>1, <3>2 DEF RecordExecuted
<2>5. task' \in [Calls -> {"none", "scheduled", "acted"}]
  BY <1>6, <1>a DEF RecordExecuted, TypeOK
<2> QED
  BY <1>6, <1>a, <2>1, <2>3, <2>4, <2>5 DEF TypeInv, TypeOK, ControlType, RecordExecuted, store
<1>7. ASSUME NEW c \in Calls, Submit(c) PROVE TypeInv'
<2>1. ControlType'
  BY <1>7, <1>a, ControlSteps, EnvelopeTypes DEF Submit, Accepts, PCs
<2>2. ArgumentsFit'
  BY <1>7, <1>a DEF TypeOK, ArgumentsFit, Submit, Accepts, Goto, Finish, PCs
<2>3. CASE /\ ItemOps(c) \subseteq DECLARED_OPERATIONS
           /\ Accepts(c)
<3>1. /\ arg[c] \in Argument
      /\ arg[c].resource \in Resources
      /\ arg[c].account \in Accounts
  BY <1>7, <1>a DEF Submit, ArgumentsFit
<3>2. Item(c) \in Request
<4>1. arg[c].account \in Names /\ Family[arg[c].account] \in DECLARED_BACKENDS
  BY <3>1, Configured DEF Argument
<4>2. ItemOps(c) \in SUBSET DECLARED_OPERATIONS
  BY <2>3
<4> QED
  BY <3>1, <4>1, <4>2 DEF Item, Request, RequestStates, Never
<3>3. [seen[c] EXCEPT !.number = Len(requests) + 1] \in Reading
<4>1. seen[c] \in Reading /\ Len(requests) + 1 \in Nat
  BY <1>a DEF TypeOK
<4> QED
  BY <4>1, ReadingUpdates
<3>4. seen' \in [Calls -> Reading]
  BY <1>a, <2>3, <3>3 DEF Accepts, TypeOK
<3> QED
  BY <1>7, <1>a, <2>1, <2>2, <2>3, <3>2, <3>4 DEF TypeInv, TypeOK, ControlType, Submit, Accepts
<2>4. CASE UNCHANGED <<requests, seen>>
  BY <1>7, <1>a, <2>1, <2>2, <2>4 DEF TypeInv, TypeOK, ControlType, Submit
<2> QED
  BY <1>7, <2>3, <2>4 DEF Submit
<1>8. ASSUME NEW c \in Calls, RecordSubmitted(c) \/ NotifyEnds(c) PROVE TypeInv'
<2>1. seen[c] \in Reading /\ arg[c] \in Argument
  BY <1>8, <1>a DEF RecordSubmitted, NotifyEnds, TypeOK, ArgumentsFit
<2>2. Pending(c) \in Envelope
  BY <2>1 DEF Pending, Answer, NoAnswer, Envelope, Reading
<2>3. ControlType'
  BY <1>8, <1>a, <2>2, ControlSteps DEF RecordSubmitted, NotifyEnds, PCs
<2>4. audit' \in Seq(AuditRecord)
<3>1. CASE RecordSubmitted(c)
<4>1. arg[c].resource \in Resources
  BY <3>1, <1>a DEF RecordSubmitted, ArgumentsFit
<4>2. [decision |-> "submitted", call |-> c, account |-> arg[c].account,
       resource |-> arg[c].resource, op |-> OpOf(c),
       grant |-> seen[c].number, reason |-> "pending_approval"] \in AuditRecord
  BY <2>1, <4>1 DEF AuditRecord, Argument, Reading, Reasons, OpOf
<4> QED
  BY <1>a, <3>1, <4>2 DEF RecordSubmitted, TypeOK
<3>2. CASE NotifyEnds(c)
  BY <1>a, <3>2 DEF NotifyEnds, TypeOK
<3> QED
  BY <1>8, <3>1, <3>2
<2>5. ArgumentsFit'
  BY <1>8, <1>a DEF TypeOK, ArgumentsFit, RecordSubmitted, NotifyEnds, Awaits, Finish, PCs
<2> QED
  BY <1>8, <1>a, <2>3, <2>4, <2>5
  DEF TypeInv, TypeOK, ControlType, RecordSubmitted, NotifyEnds, store
<1>9. ASSUME NEW c \in Calls, RecordRevoked(c) PROVE TypeInv'
<2> DEFINE e == [status |-> "ok", number |-> seen[c].number,
                 revoked |-> seen[c].reason = "revoked"]
           a == [decision |-> "revoked", call |-> c, account |-> arg[c].account,
                 resource |-> <<>>, op |-> OpOf(c),
                 grant |-> seen[c].number, reason |-> seen[c].reason]
<2>1. seen[c] \in Reading /\ arg[c] \in Argument
  BY <1>9, <1>a DEF RecordRevoked, TypeOK, ArgumentsFit
<2>2. e \in Envelope
  BY <2>1 DEF Envelope, Reading
<2>3. a \in AuditRecord
  BY <2>1 DEF AuditRecord, Argument, Reading, OpOf
<2>4. /\ Finish(c, e)
      /\ audit' = Append(audit, a) \/ UNCHANGED audit
      /\ UNCHANGED <<now, store, arg, seen, task>>
  BY <1>9 DEF RecordRevoked
<2> HIDE DEF e, a
<2>5. ControlType'
  BY <1>a, <2>2, <2>4, ControlSteps
<2>6. ArgumentsFit'
  BY <1>a, <2>1, <2>4 DEF TypeOK, ArgumentsFit, Finish, PCs
<2>7. audit' \in Seq(AuditRecord)
<3>1. audit \in Seq(AuditRecord)
  BY <1>a DEF TypeOK
<3>2. Append(audit, a) \in Seq(AuditRecord)
  BY <2>3, <3>1, AuditAppended
<3> QED
  BY <2>4, <3>1, <3>2
<2> QED
  BY <1>a, <2>4, <2>5, <2>6, <2>7 DEF TypeInv, TypeOK, ControlType, store
<1>10. ASSUME NEW c \in Calls, BackendActs(c) \/ BackendEnds(c) PROVE TypeInv'
<2>1. ControlType'
  BY <1>10, <1>a, ControlSteps, EnvelopeTypes
  DEF BackendActs, BackendEnds, BackendReturns, BackendFails, ControlType
<2>2. ArgumentsFit'
  BY <1>10, <1>a
  DEF TypeOK, ArgumentsFit, BackendActs, BackendEnds, BackendReturns, BackendFails, Finish, PCs
<2> QED
  BY <1>10, <1>a, <2>1, <2>2
  DEF TypeInv, TypeOK, ControlType, BackendActs, BackendEnds, BackendReturns, BackendFails, store
<1>11. ASSUME NEW n \in DOMAIN requests,
              (\E lifetime \in Lifetimes : Approve(n, lifetime)) \/ Deny(n) \/ OwnerRevokes(n)
       PROVE  TypeInv'
<2>1. requests[n] \in Request
  BY <1>a DEF TypeOK
<2>2. PICK r \in Request : requests' = [requests EXCEPT ![n] = r]
<3>1. CASE \E lifetime \in Lifetimes : Approve(n, lifetime)
<4>1. PICK lifetime \in Lifetimes : Approve(n, lifetime)
  BY <3>1
<4> DEFINE r == [requests[n] EXCEPT !.state = "active", !.approved = now,
                    !.expires = IF lifetime = 0 THEN Never ELSE now + lifetime]
<4>2. lifetime \in Nat /\ now \in Nat
  BY <1>a, Configured DEF TypeOK
<4>3. r \in Request
<5>1. (IF lifetime = 0 THEN Never ELSE now + lifetime) \in Nat
  BY <4>2 DEF Never
<5> QED
  BY <2>1, <4>2, <5>1 DEF Request, RequestStates
<4>4. requests' = [requests EXCEPT ![n] = r]
  BY <1>a, <4>1 DEF Approve, TypeOK
<4> QED
  BY <4>3, <4>4
<3>2. CASE Deny(n)
<4>1. [requests[n] EXCEPT !.state = "denied"] \in Request
  BY <2>1 DEF Request, RequestStates
<4> QED
  BY <3>2, <4>1 DEF Deny
<3>3. CASE OwnerRevokes(n)
  BY <2>1, <3>3, RevokedType DEF OwnerRevokes
<3> QED
  BY <1>11, <3>1, <3>2, <3>3
<2>3. requests' \in Seq(Request)
  BY <1>a, <2>2, RequestReplaced DEF TypeOK
<2> QED
  BY <1>11, <1>a, <2>3
  DEF TypeInv, TypeOK, ArgumentsFit, Approve, Deny, OwnerRevokes, handler
<1>12. ASSUME Sweep PROVE TypeInv'
<2>1. \A n \in DOMAIN requests : [requests[n] EXCEPT !.state = "expired"] \in Request
<3>1. \A r \in Request : [r EXCEPT !.state = "expired"] \in Request
  BY DEF Request, RequestStates
<3> QED
  BY <1>a, <3>1 DEF TypeOK
<2>2. requests' \in [1 .. Len(requests) -> Request]
  BY <1>12, <1>a, <2>1 DEF Sweep, TypeOK
<2>3. Len(requests) \in Nat
  BY <1>a DEF TypeOK
<2>4. requests' \in Seq(Request)
  BY <2>2, <2>3, SeqDef
<2> QED
  BY <1>12, <1>a, <2>4 DEF TypeInv, TypeOK, ArgumentsFit, Sweep, handler
<1>13. ASSUME NEW b \in Baselines, BaselineMoves(b) PROVE TypeInv'
  BY <1>13, <1>a DEF TypeInv, TypeOK, ArgumentsFit, BaselineMoves, handler
<1>14. CASE Tick
  BY <1>14, <1>a DEF TypeInv, TypeOK, ArgumentsFit, Tick, store, handler
<1>15. CASE CrashRestart
<2>1. ControlType'
  BY <1>15, <1>a DEF CrashRestart, ControlType, PCs
<2>2. ArgumentsFit'
  BY <1>15, <1>a DEF CrashRestart, ArgumentsFit, InFlight, TypeOK, PCs
<2> QED
  BY <1>15, <1>a, <2>1, <2>2 DEF TypeInv, TypeOK, ControlType, CrashRestart, store
<1>16. CASE UNCHANGED vars
  BY <1>16, <1>a DEF TypeInv, TypeOK, ArgumentsFit, vars, store, handler
<1> QED
  BY <1>1, <1>2, <1>3, <1>4, <1>5, <1>6, <1>7, <1>8, <1>9, <1>10, <1>11, <1>12, <1>13,
     <1>14, <1>15, <1>16 DEF Next, HandlerStep, AllCallsMade

\* Type correctness: every variable of the broker keeps its type, whatever the
\* callers, the owner, the backend, the clock and crashes do.
THEOREM TypeCorrect == Spec => []TypeOK
<1>1. Init => TypeInv
  BY InitType DEF TypeInv, ArgumentsFit, Init
<1>2. TypeInv /\ [Next]_vars => TypeInv'
  BY TypeStep
<1>3. TypeInv => TypeOK
  BY DEF TypeInv
<1> QED
  BY <1>1, <1>2, <1>3, PTL DEF Spec

-----------------------------------------------------------------------------
(***************************************************************************)
(* The inductive invariant of the gate.                                    *)
(***************************************************************************)

\* An approval is in the past, and only approved requests are active.
StoreOK ==
    /\ now >= 1
    /\ \A n \in DOMAIN requests :
        /\ requests[n].approved <= now
        /\ requests[n].state = "pending" => requests[n].approved = 0
        /\ requests[n].state = "active" => requests[n].approved >= 1

\* What a step of the store keeps of every request: its item, and its approval
\* once given.
StoreKept ==
    \A n \in DOMAIN requests :
        /\ n \in DOMAIN requests'
        /\ requests'[n].backend = requests[n].backend
        /\ requests'[n].account = requests[n].account
        /\ requests'[n].resource = requests[n].resource
        /\ requests'[n].ops = requests[n].ops
        /\ requests[n].approved >= 1 =>
              requests'[n].approved = requests[n].approved /\ requests'[n].expires = requests[n].expires

\* What the gate found for call c, still to be seen in the store.
Justification(c) ==
    IF seen[c].reason = "grant"
    THEN Permits(seen[c].number, c, seen[c].checked)
    ELSE seen[c].number = 0 /\ classify(OpOf(c)) = "READ"

Admission(c) ==
    arg[c].surface = "transfer" =>
        \E n \in DOMAIN requests : Permits(n, c, seen[c].admitted)

\* Calls whose execution may be in the log: their arguments and readings are final.
Started == {"running", "done", "lost"}

CallsOK ==
    \A c \in Calls :
        /\ pc[c] = "record" => Justification(c)
        /\ pc[c] \in {"gate", "record"} => Admission(c)

EntryOK(i) ==
    LET a == audit[i]
        c == a.call
    IN  /\ pc[c] \in Started
        /\ a.account = arg[c].account
        /\ a.account \in Accounts
        /\ a.resource = arg[c].resource
        /\ a.op = OpOf(c)
        /\ a.grant = seen[c].number
        /\ a.reason = seen[c].reason
        /\ Justification(c)
        /\ Admission(c)

LogOK == \A i \in DOMAIN audit : Executed(audit[i]) => EntryOK(i)

TasksOK ==
    \A c \in Calls : task[c] # "none" => pc[c] \in Started /\ ExecutionLogged(c)

GateInv == StoreOK /\ CallsOK /\ LogOK /\ TasksOK

-----------------------------------------------------------------------------
\* A permission outlives every step that keeps the store and the call.
LEMMA PermissionStable ==
  ASSUME TypeOK, StoreKept, NEW c \in Calls, arg'[c] = arg[c], seen'[c] = seen[c]
  PROVE  /\ Justification(c) => Justification(c)'
         /\ Admission(c) => Admission(c)'
<1>1. ASSUME NEW n, NEW t, Permits(n, c, t)
      PROVE  (n \in DOMAIN requests') /\ Permits(n, c, t)'
<2>1. n \in DOMAIN requests /\ requests[n].approved \in 1 .. t
  BY <1>1 DEF Permits, WasLive
<2>2. WasLive(requests'[n], t)
  BY <1>1, <2>1 DEF StoreKept, Permits, WasLive
<2> QED
  BY <1>1, <2>1, <2>2 DEF StoreKept, Permits, Matches, check, OpOf
<1>2. Justification(c) => Justification(c)'
  BY <1>1 DEF Justification, OpOf
<1>3. Admission(c) => Admission(c)'
  BY <1>1 DEF Admission
<1> QED
  BY <1>2, <1>3

\* Every step keeps the items and the approvals of the store, and its order in time.
LEMMA StoreStep == TypeInv /\ TypeOK' /\ StoreOK /\ [Next]_vars => StoreKept /\ StoreOK'
<1> SUFFICES ASSUME TypeInv, TypeOK', StoreOK, [Next]_vars
             PROVE  StoreKept /\ StoreOK'
  OBVIOUS
<1>a. /\ now \in Nat /\ now' \in Nat
      /\ requests \in Seq(Request)
  BY DEF TypeInv, TypeOK
<1>b. \A n \in DOMAIN requests : requests[n] \in Request
  BY <1>a
<1>1. ASSUME UNCHANGED requests, now' >= now
      PROVE  StoreKept /\ StoreOK'
<2>1. StoreKept
  BY <1>1 DEF StoreKept
<2>2. \A n \in DOMAIN requests : requests[n].approved \in Nat
  BY <1>b DEF Request
<2> QED
  BY <1>1, <1>a, <2>1, <2>2 DEF StoreOK
<1>2. ASSUME NEW c \in Calls, Submit(c) PROVE StoreKept /\ StoreOK'
<2>1. CASE UNCHANGED requests
  BY <1>1, <1>2, <1>a, <2>1 DEF Submit
<2>2. CASE requests' = Append(requests, Item(c))
<3>1. /\ Item(c).approved = 0
      /\ Item(c).state = "pending"
  BY DEF Item
<3>2. /\ \A n \in DOMAIN requests : n \in DOMAIN requests' /\ requests'[n] = requests[n]
      /\ \A n \in DOMAIN requests' : n \in DOMAIN requests \/ requests'[n] = Item(c)
  BY <1>a, <2>2
<3>3. now' = now
  BY <1>2 DEF Submit
<3> QED
  BY <1>a, <3>1, <3>2, <3>3 DEF StoreKept, StoreOK
<2> QED
  BY <1>2, <2>1, <2>2 DEF Submit, Accepts
<1>3. ASSUME now' = now, NEW n \in DOMAIN requests, NEW r \in Request,
             requests' = [requests EXCEPT ![n] = r],
             r = requests[n] \/
             /\ r.backend = requests[n].backend
             /\ r.account = requests[n].account
             /\ r.resource = requests[n].resource
             /\ r.ops = requests[n].ops
             /\ r.state # "pending"
             /\ r.state # "active" => r.approved = requests[n].approved /\ r.expires = requests[n].expires
             /\ r.state = "active" => requests[n].approved = 0 /\ r.approved = now
      PROVE  StoreKept /\ StoreOK'
<2>1. DOMAIN requests' = DOMAIN requests
  BY <1>3, <1>a
<2>2. \A m \in DOMAIN requests : requests'[m] = IF m = n THEN r ELSE requests[m]
  BY <1>3, <1>a
<2> QED
  BY <1>3, <1>a, <2>1, <2>2 DEF StoreKept, StoreOK
<1>4. ASSUME NEW c \in Calls, NEW account \in Names, NEW number \in Numbers,
             RevokeAccess(c, account, number)
      PROVE  StoreKept /\ StoreOK'
<2>1. CASE UNCHANGED requests
  BY <1>1, <1>4, <1>a, <2>1 DEF RevokeAccess
<2>2. CASE /\ number \in DOMAIN requests
           /\ requests' = [requests EXCEPT ![number] = Revoked(requests[number])]
<3>1. Revoked(requests[number]) \in Request
  BY <1>b, <2>2, RevokedType
<3>2. now' = now
  BY <1>4 DEF RevokeAccess
<3> QED
  BY <1>3, <1>b, <2>2, <3>1, <3>2 DEF Revoked, Request
<2> QED
  BY <1>4, <2>1, <2>2 DEF RevokeAccess
<1>5. ASSUME NEW n \in DOMAIN requests,
             (\E lifetime \in Lifetimes : Approve(n, lifetime)) \/ Deny(n) \/ OwnerRevokes(n)
      PROVE  StoreKept /\ StoreOK'
<2>0. now' = now /\ requests[n] \in Request
  BY <1>5, <1>b DEF Approve, Deny, OwnerRevokes
<2>1. CASE OwnerRevokes(n)
<3>1. /\ Revoked(requests[n]) \in Request
      /\ requests' = [requests EXCEPT ![n] = Revoked(requests[n])]
  BY <2>0, <2>1, RevokedType DEF OwnerRevokes
<3> QED
  BY <1>3, <2>0, <3>1 DEF Revoked, Request
<2>2. CASE Deny(n)
<3> DEFINE r == [requests[n] EXCEPT !.state = "denied"]
<3>1. /\ r \in Request
      /\ requests' = [requests EXCEPT ![n] = r]
  BY <2>0, <2>2 DEF Deny, Request, RequestStates
<3>2. /\ r.backend = requests[n].backend
      /\ r.account = requests[n].account
      /\ r.resource = requests[n].resource
      /\ r.ops = requests[n].ops
      /\ r.state = "denied"
      /\ r.approved = requests[n].approved
      /\ r.expires = requests[n].expires
  BY <2>0 DEF Request
<3> HIDE DEF r
<3> QED
  BY <1>3, <2>0, <3>1, <3>2
<2>3. ASSUME NEW lifetime \in Lifetimes, Approve(n, lifetime)
      PROVE  StoreKept /\ StoreOK'
<3> DEFINE r == [requests[n] EXCEPT !.state = "active", !.approved = now,
                    !.expires = IF lifetime = 0 THEN Never ELSE now + lifetime]
<3>1. (IF lifetime = 0 THEN Never ELSE now + lifetime) \in Nat
  BY <1>a, Configured DEF Never
<3>2. r \in Request
  BY <1>a, <2>0, <3>1 DEF Request, RequestStates
<3>3. requests' = [requests EXCEPT ![n] = r]
  BY <2>3 DEF Approve
<3>4. /\ r.backend = requests[n].backend
      /\ r.account = requests[n].account
      /\ r.resource = requests[n].resource
      /\ r.ops = requests[n].ops
      /\ r.state = "active"
      /\ r.approved = now
  BY <2>0 DEF Request
<3>5. requests[n].approved = 0
  BY <2>3 DEF Approve, StoreOK
<3> HIDE DEF r
<3> QED
  BY <1>3, <2>0, <3>2, <3>3, <3>4, <3>5
<2> QED
  BY <1>5, <2>1, <2>2, <2>3
<1>6. ASSUME Sweep PROVE StoreKept /\ StoreOK'
<2>1. DOMAIN requests' = DOMAIN requests /\ now' = now
  BY <1>6 DEF Sweep
<2>2. \A n \in DOMAIN requests :
         /\ requests'[n].backend = requests[n].backend
         /\ requests'[n].account = requests[n].account
         /\ requests'[n].resource = requests[n].resource
         /\ requests'[n].ops = requests[n].ops
         /\ requests'[n].approved = requests[n].approved
         /\ requests'[n].expires = requests[n].expires
         /\ requests'[n].state \in {requests[n].state, "expired"}
  BY <1>6, <1>b DEF Sweep, Request
<2> QED
  BY <2>1, <2>2 DEF StoreKept, StoreOK
<1>7. ASSUME NEW c \in Calls, NEW account \in Names, NEW resource \in Resources,
             \/ \E tool \in GateTools : AgentTool(c, tool, account, resource)
             \/ TransferRead(c, account, resource)
             \/ \E intact \in BOOLEAN : TransferWrite(c, account, resource, intact)
             \/ \E ops \in OpSets : RequestAccess(c, account, resource, ops)
      PROVE  StoreKept /\ StoreOK'
<2>1. UNCHANGED <<now, requests>>
  BY <1>7 DEF AgentTool, TransferRead, TransferWrite, RequestAccess, store
<2> QED
  BY <1>1, <1>a, <2>1
<1>8. ASSUME NEW c \in Calls,
             \/ Gate(c) \/ RecordExecuted(c) \/ RecordSubmitted(c) \/ RecordRevoked(c)
             \/ NotifyEnds(c) \/ BackendActs(c) \/ BackendEnds(c)
      PROVE  StoreKept /\ StoreOK'
<2>1. UNCHANGED <<now, requests>>
<3>1. CASE Gate(c) \/ RecordExecuted(c) \/ RecordSubmitted(c) \/ RecordRevoked(c)
  BY <3>1 DEF Gate, RecordExecuted, RecordSubmitted, RecordRevoked, store
<3>2. CASE NotifyEnds(c) \/ BackendActs(c) \/ BackendEnds(c)
  BY <3>2 DEF NotifyEnds, BackendActs, BackendEnds, BackendReturns, BackendFails, store
<3> QED
  BY <1>8, <3>1, <3>2
<2> QED
  BY <1>1, <1>a, <2>1
<1>9. CASE (\E b \in Baselines : BaselineMoves(b)) \/ Tick \/ CrashRestart \/ UNCHANGED vars
  BY <1>1, <1>9, <1>a DEF BaselineMoves, Tick, CrashRestart, store, vars
<1> QED
  BY <1>2, <1>4, <1>5, <1>6, <1>7, <1>8, <1>9 DEF Next, HandlerStep, AllCallsMade

LEMMA LastAppended ==
  ASSUME TypeOK, TypeOK', NEW a, audit' = Append(audit, a)
  PROVE  a \in AuditRecord
<1>1. audit \in Seq(AuditRecord) /\ audit' \in Seq(AuditRecord)
  BY DEF TypeOK
<1>2. Len(audit) + 1 \in DOMAIN audit' /\ audit'[Len(audit) + 1] = a
  BY <1>1
<1> QED
  BY <1>1, <1>2

\* Call c keeps its arguments, its readings and its place.
CallKept(c) == pc'[c] = pc[c] /\ arg'[c] = arg[c] /\ seen'[c] = seen[c]

LEMMA CallsKept ==
  ASSUME TypeOK, StoreKept, CallsOK,
         \A c \in Calls :
            \/ CallKept(c)
            \/ /\ pc'[c] = "record" => Justification(c)'
               /\ pc'[c] \in {"gate", "record"} => Admission(c)'
  PROVE  CallsOK'
<1> SUFFICES ASSUME NEW c \in Calls
             PROVE  /\ pc'[c] = "record" => Justification(c)'
                    /\ pc'[c] \in {"gate", "record"} => Admission(c)'
  BY DEF CallsOK
<1>1. CASE CallKept(c)
  BY <1>1, PermissionStable DEF CallKept, CallsOK
<1> QED
  BY <1>1

\* A step that logs no execution and starts no task keeps the log and the tasks
\* justified, when it leaves alone the calls that have come that far.
LEMMA LogKept ==
  ASSUME TypeOK, StoreKept, LogOK, TasksOK,
         \A c \in Calls : task'[c] # "none" => task[c] # "none",
         \A c \in Calls : pc[c] \in Started =>
            pc'[c] \in Started /\ arg'[c] = arg[c] /\ seen'[c] = seen[c],
         \/ audit' = audit
         \/ \E a \in AuditRecord : ~Executed(a) /\ audit' = Append(audit, a)
  PROVE  LogOK' /\ TasksOK'
<1>1. audit \in Seq(AuditRecord)
  BY DEF TypeOK
<1>2. /\ \A i \in DOMAIN audit : i \in DOMAIN audit' /\ audit'[i] = audit[i]
      /\ \A i \in DOMAIN audit' : Executed(audit'[i]) =>
            i \in DOMAIN audit /\ audit'[i] = audit[i]
  BY <1>1
<1>3. LogOK'
<2> SUFFICES ASSUME NEW i \in DOMAIN audit', Executed(audit'[i])
             PROVE  EntryOK(i)'
  BY DEF LogOK, Executed
<2>1. i \in DOMAIN audit /\ audit'[i] = audit[i] /\ EntryOK(i)
  BY <1>2 DEF LogOK
<2>2. audit[i] \in AuditRecord
  BY <1>1, <2>1
<2>3. PICK c \in Calls : c = audit[i].call
  BY <2>2 DEF AuditRecord
<2>4. pc'[c] \in Started /\ arg'[c] = arg[c] /\ seen'[c] = seen[c]
  BY <2>1, <2>3 DEF EntryOK
<2>5. Justification(c)' /\ Admission(c)'
  BY <2>1, <2>3, <2>4, PermissionStable DEF EntryOK
<2> QED
  BY <2>1, <2>3, <2>4, <2>5 DEF EntryOK, OpOf
<1>4. TasksOK'
<2> SUFFICES ASSUME NEW c \in Calls, task'[c] # "none"
             PROVE  pc'[c] \in Started /\ ExecutionLogged(c)'
  BY DEF TasksOK
<2>1. pc[c] \in Started /\ ExecutionLogged(c)
  BY DEF TasksOK
<2> QED
  BY <1>2, <2>1 DEF ExecutionLogged, Executed, OpOf
<1> QED
  BY <1>3, <1>4

\* A step that logs no execution, starts no task and brings no call to the gate
\* or to its record.
Quiet ==
    /\ \A c \in Calls :
        \/ CallKept(c)
        \/ /\ pc'[c] \notin {"gate", "record"}
           /\ pc[c] \in Started =>
                pc'[c] \in Started /\ arg'[c] = arg[c] /\ seen'[c] = seen[c]
    /\ \A c \in Calls : task'[c] # "none" => task[c] # "none"
    /\ \/ audit' = audit
       \/ \E a \in AuditRecord : ~Executed(a) /\ audit' = Append(audit, a)

LEMMA QuietStep ==
  ASSUME TypeInv, TypeInv', GateInv, StoreKept, StoreOK', Quiet
  PROVE  GateInv'
<1>1. /\ TypeOK
      /\ CallsOK /\ LogOK /\ TasksOK
  BY DEF TypeInv, GateInv
<1>2. CallsOK'
  BY <1>1, CallsKept DEF Quiet
<1>3. LogOK' /\ TasksOK'
  BY <1>1, LogKept DEF Quiet, CallKept
<1> QED
  BY <1>2, <1>3 DEF GateInv

\* A call that asks the gate, or passes it, keeps the log and the tasks as they are.
LEMMA GateKept ==
  ASSUME TypeInv, TypeInv', GateInv, StoreKept, StoreOK', NEW c \in Calls,
         \A d \in Calls \ {c} : CallKept(d),
         pc[c] \in {"idle", "gate"},
         pc'[c] = "record" => Justification(c)',
         pc'[c] \in {"gate", "record"} => Admission(c)',
         UNCHANGED <<audit, task>>
  PROVE  GateInv'
<1>1. /\ TypeOK
      /\ CallsOK /\ LogOK /\ TasksOK
  BY DEF TypeInv, GateInv
<1>2. CallsOK'
  BY <1>1, CallsKept
<1>3. LogOK' /\ TasksOK'
  BY <1>1, LogKept DEF CallKept, Started
<1> QED
  BY <1>2, <1>3 DEF GateInv

\* What the store's query finds is an approved request that matches, live now.
LEMMA FoundLive ==
  ASSUME TypeOK, StoreOK, NEW account, NEW resource, NEW op,
         NEW n \in active_for(account, resource, op)
  PROVE  /\ n \in DOMAIN requests
         /\ WasLive(requests[n], now)
         /\ Matches(requests[n], account, resource, op)
<1>1. /\ n \in DOMAIN requests
      /\ LiveAt(requests[n], now)
      /\ Matches(requests[n], account, resource, op)
  BY DEF active_for
<1>2. requests[n] \in Request /\ now \in Nat
  BY <1>1 DEF TypeOK
<1>3. requests[n].approved \in 1 .. now
  BY <1>1, <1>2 DEF StoreOK, LiveAt, Request
<1> QED
  BY <1>1, <1>3 DEF WasLive, LiveAt

LEMMA GateStep == TypeInv /\ TypeInv' /\ GateInv /\ [Next]_vars => GateInv'
<1> SUFFICES ASSUME TypeInv, TypeInv', GateInv, [Next]_vars
             PROVE  GateInv'
  OBVIOUS
<1>a. /\ TypeOK /\ TypeOK'
      /\ ArgumentsFit
      /\ StoreOK /\ CallsOK /\ LogOK /\ TasksOK
  BY DEF TypeInv, GateInv
<1>b. StoreKept /\ StoreOK'
  BY <1>a, StoreStep
<1>q. Quiet => GateInv'
  BY <1>b, QuietStep
<1>1. ASSUME NEW c \in Calls, NEW account \in Names, NEW resource \in Resources,
             NEW tool \in GateTools, AgentTool(c, tool, account, resource)
      PROVE  GateInv'
<2>1. /\ \A d \in Calls \ {c} : CallKept(d)
      /\ pc[c] = "idle" /\ pc'[c] = "gate"
      /\ UNCHANGED <<audit, task>>
  BY <1>1, <1>a DEF AgentTool, Starts, Goto, CallKept, TypeOK
<2>2. arg'[c].surface = "agent"
  BY <1>1, <1>a DEF AgentTool, Starts, AgentArgument, TypeOK
<2>3. Admission(c)'
  BY <2>2 DEF Admission
<2> QED
  BY <1>b, <2>1, <2>3, GateKept
<1>2. ASSUME NEW c \in Calls, NEW account \in Names, NEW resource \in Resources,
             \/ TransferRead(c, account, resource)
             \/ \E intact \in BOOLEAN : TransferWrite(c, account, resource, intact)
      PROVE  GateInv'
<2>1. PICK tool \in TransferTools :
         /\ arg' = [arg EXCEPT ![c] = TransferArgument(tool, account, resource)]
         /\ pc[c] = "idle"
         /\ \/ /\ Admits(c, tool, account, resource)
               /\ seen' = [seen EXCEPT ![c].admitted = now]
               /\ Goto(c, "gate")
            \/ UNCHANGED seen /\ Finish(c, Refused)
         /\ UNCHANGED <<now, store, audit, task>>
  BY <1>2 DEF TransferRead, TransferWrite, Starts, TransferTools
<2>2. /\ \A d \in Calls \ {c} : CallKept(d)
      /\ UNCHANGED <<audit, task>>
  BY <1>a, <2>1 DEF Goto, Finish, CallKept, TypeOK
<2>3. pc'[c] # "record"
  BY <1>a, <2>1 DEF Goto, Finish, TypeOK
<2>4. CASE UNCHANGED seen /\ Finish(c, Refused)
<3>1. pc'[c] = "done"
  BY <1>a, <2>4 DEF Finish, TypeOK
<3> QED
  BY <1>b, <2>1, <2>2, <3>1, GateKept
<2>5. CASE /\ Admits(c, tool, account, resource)
           /\ seen' = [seen EXCEPT ![c].admitted = now]
<3>1. /\ arg'[c].account = account
      /\ arg'[c].resource = resource
      /\ OpOf(c)' = tool
      /\ seen'[c].admitted = now
  BY <1>a, <2>1, <2>5 DEF TypeOK, TransferArgument, AgentArgument, OpOf, Reading
<3>2. PICK n \in active_for(account, resource, tool) : TRUE
  BY <2>5 DEF Admits
<3>3. /\ n \in DOMAIN requests
      /\ WasLive(requests[n], now)
      /\ Matches(requests[n], account, resource, tool)
  BY <1>a, <3>2, FoundLive
<3>4. requests' = requests
  BY <2>1 DEF store
<3>5. n \in DOMAIN requests' /\ Permits(n, c, seen[c].admitted)'
  BY <3>1, <3>3, <3>4 DEF Permits
<3>6. Admission(c)'
  BY <3>5 DEF Admission
<3> QED
  BY <1>b, <2>1, <2>2, <2>3, <3>6, GateKept
<2> QED
  BY <2>1, <2>4, <2>5
<1>3. ASSUME NEW c \in Calls, NEW account \in Names, NEW resource \in Resources,
             NEW ops \in OpSets, RequestAccess(c, account, resource, ops)
      PROVE  GateInv'
<2>1. /\ \A d \in Calls \ {c} : CallKept(d)
      /\ pc[c] = "idle" /\ pc'[c] \in {"submit", "done"}
      /\ UNCHANGED <<audit, task>>
  BY <1>3, <1>a DEF RequestAccess, Starts, Goto, Finish, CallKept, TypeOK
<2> QED
  BY <1>b, <2>1, GateKept
<1>4. ASSUME NEW c \in Calls, NEW account \in Names, NEW number \in Numbers,
             RevokeAccess(c, account, number)
      PROVE  GateInv'
<2>1. /\ \A d \in Calls \ {c} : CallKept(d)
      /\ pc[c] = "idle" /\ pc'[c] \in {"recordRevoked", "done"}
      /\ UNCHANGED <<audit, task>>
  BY <1>4, <1>a DEF RevokeAccess, Starts, Goto, Finish, CallKept, TypeOK
<2> QED
  BY <1>b, <2>1, GateKept
<1>5. ASSUME NEW c \in Calls, Gate(c) PROVE GateInv'
<2>1. /\ \A d \in Calls \ {c} : CallKept(d)
      /\ pc[c] = "gate" /\ pc'[c] \in {"record", "submit", "done"}
      /\ UNCHANGED <<audit, task, requests, arg, now>>
  BY <1>5, <1>a DEF Gate, Justify, Justified, Goto, Finish, CallKept, TypeOK, store
<2>2. CASE pc'[c] # "record"
  BY <1>b, <2>1, <2>2, GateKept
<2>3. CASE pc'[c] = "record"
<3>1. Admission(c)
  BY <1>a, <2>1 DEF CallsOK
<3>2. PICK n, why :
         /\ Justify(c, n, why)
         /\ \/ why = "grant" /\ n \in active_for(arg[c].account, arg[c].resource, OpOf(c))
            \/ why # "grant" /\ n = 0 /\ classify(OpOf(c)) # "GATED"
  BY <1>5, <1>a, <2>3 DEF Gate, Goto, Finish, TypeOK
<3>3. /\ seen'[c].admitted = seen[c].admitted
      /\ seen'[c].checked = now
      /\ seen'[c].number = n
      /\ seen'[c].reason = why
  BY <1>a, <3>2 DEF Justify, Justified, TypeOK, Reading
<3>4. Admission(c)'
  BY <2>1, <3>1, <3>3 DEF Admission, Permits, Matches, OpOf
<3>5. Justification(c)'
<4>1. CASE why = "grant" /\ n \in active_for(arg[c].account, arg[c].resource, OpOf(c))
<5>1. Permits(n, c, now)
  BY <1>a, <4>1, FoundLive DEF Permits
<5>2. Permits(seen[c].number, c, seen[c].checked)'
  BY <2>1, <3>3, <5>1 DEF Permits, OpOf
<5> QED
  BY <3>3, <4>1, <5>2 DEF Justification
<4>2. CASE why # "grant" /\ n = 0 /\ classify(OpOf(c)) # "GATED"
<5>1. classify(OpOf(c)) = "READ"
  BY <4>2 DEF classify, tier_table
<5> QED
  BY <2>1, <3>3, <4>2, <5>1 DEF Justification, OpOf
<4> QED
  BY <3>2, <4>1, <4>2
<3> QED
  BY <1>b, <2>1, <3>4, <3>5, GateKept
<2> QED
  BY <2>2, <2>3
<1>6. ASSUME NEW c \in Calls, RecordExecuted(c) PROVE GateInv'
<2>1. /\ \A d \in Calls \ {c} : CallKept(d)
      /\ pc[c] = "record" /\ pc'[c] \in {"running", "done"}
      /\ UNCHANGED <<arg, seen>>
  BY <1>6, <1>a DEF RecordExecuted, Awaits, Finish, CallKept, TypeOK
<2>2. CASE UNCHANGED <<audit, task>>
  BY <1>q, <2>1, <2>2 DEF Quiet, CallKept, Started
<2>3. CASE /\ audit' = Append(audit, ExecutedRecord(c))
           /\ task' = [task EXCEPT ![c] = "scheduled"]
           /\ pc'[c] = "running"
<3>1. CallsOK'
  BY <1>a, <1>b, <2>1, <2>3, CallsKept
<3>2. Justification(c)' /\ Admission(c)'
  BY <1>a, <1>b, <2>1, PermissionStable DEF CallsOK
<3>3. /\ \A i \in DOMAIN audit : i \in DOMAIN audit' /\ audit'[i] = audit[i]
      /\ \A i \in DOMAIN audit' : i \in DOMAIN audit \/ audit'[i] = ExecutedRecord(c)
      /\ \E i \in DOMAIN audit' : audit'[i] = ExecutedRecord(c)
  <4>1. audit \in Seq(AuditRecord) /\ ExecutedRecord(c) \in AuditRecord
    BY <1>a, <2>3, LastAppended DEF TypeOK
  <4> QED
    BY <2>3, <4>1, AppendProperties
<3>4. LogOK'
  <4> SUFFICES ASSUME NEW i \in DOMAIN audit', Executed(audit'[i])
               PROVE  EntryOK(i)'
    BY DEF LogOK, Executed
  <4>1. CASE i \in DOMAIN audit
    <5>1. audit'[i] = audit[i] /\ EntryOK(i)
      BY <1>a, <3>3, <4>1 DEF LogOK
    <5>2. audit[i] \in AuditRecord
      BY <1>a, <4>1 DEF TypeOK
    <5>3. PICK d \in Calls : d = audit[i].call
      BY <5>2 DEF AuditRecord
    <5>4. d # c
      BY <2>1, <5>1, <5>3 DEF EntryOK, Started
    <5>5. Justification(d)' /\ Admission(d)'
      BY <1>a, <1>b, <2>1, <5>1, <5>3, PermissionStable DEF EntryOK
    <5>6. CallKept(d)
      BY <2>1, <5>3, <5>4
    <5> QED
      BY <5>1, <5>3, <5>5, <5>6 DEF EntryOK, CallKept, OpOf
  <4>2. CASE audit'[i] = ExecutedRecord(c)
    <5>1. arg[c].account \in Accounts
      BY <1>a, <2>1 DEF ArgumentsFit
    <5> QED
      BY <2>1, <2>3, <3>2, <4>2, <5>1 DEF EntryOK, ExecutedRecord, Started, OpOf
  <4> QED
    BY <3>3, <4>1, <4>2
<3>5. TasksOK'
  <4> SUFFICES ASSUME NEW d \in Calls, task'[d] # "none"
               PROVE  pc'[d] \in Started /\ ExecutionLogged(d)'
    BY DEF TasksOK
  <4>1. CASE d = c
    BY <2>1, <2>3, <3>3, <4>1 DEF ExecutionLogged, ExecutedRecord, Executed, Started, OpOf
  <4>2. CASE d # c
    <5>1. task[d] # "none" /\ CallKept(d)
      BY <1>a, <2>1, <2>3, <4>2 DEF TypeOK
    <5>2. pc[d] \in Started /\ ExecutionLogged(d)
      BY <1>a, <5>1 DEF TasksOK
    <5> QED
      BY <3>3, <5>1, <5>2 DEF ExecutionLogged, Executed, CallKept, OpOf
  <4> QED
    BY <4>1, <4>2
<3> QED
  BY <1>b, <3>1, <3>4, <3>5 DEF GateInv
<2> QED
  BY <1>6, <1>a, <2>2, <2>3 DEF RecordExecuted, Awaits, TypeOK
<1>7. ASSUME NEW c \in Calls, Submit(c) \/ RecordSubmitted(c) \/ NotifyEnds(c)
      PROVE  GateInv'
<2>1. /\ \A d \in Calls \ {c} : CallKept(d)
      /\ pc[c] \notin Started /\ pc'[c] \notin {"gate", "record"}
      /\ UNCHANGED task
  BY <1>7, <1>a DEF Submit, Accepts, RecordSubmitted, NotifyEnds, Goto, Awaits, Finish, CallKept,
                    Started, TypeOK
<2>2. \/ audit' = audit
      \/ \E a : ~Executed(a) /\ audit' = Append(audit, a)
  BY <1>7 DEF Submit, RecordSubmitted, NotifyEnds, Executed
<2>3. \/ audit' = audit
      \/ \E a \in AuditRecord : ~Executed(a) /\ audit' = Append(audit, a)
  BY <1>a, <2>2, LastAppended
<2> QED
  BY <1>q, <2>1, <2>3 DEF Quiet
<1>8. ASSUME NEW c \in Calls, RecordRevoked(c) PROVE GateInv'
<2>1. /\ \A d \in Calls \ {c} : CallKept(d)
      /\ pc[c] = "recordRevoked" /\ pc'[c] = "done"
      /\ UNCHANGED task
  BY <1>8, <1>a DEF RecordRevoked, Finish, CallKept, TypeOK
<2>2. \/ audit' = audit
      \/ \E a : ~Executed(a) /\ audit' = Append(audit, a)
  BY <1>8 DEF RecordRevoked, Executed
<2>3. \/ audit' = audit
      \/ \E a \in AuditRecord : ~Executed(a) /\ audit' = Append(audit, a)
  BY <1>a, <2>2, LastAppended
<2> QED
  BY <1>q, <2>1, <2>3 DEF Quiet, Started
<1>9. ASSUME NEW c \in Calls, BackendActs(c) \/ BackendEnds(c) PROVE GateInv'
<2>1. /\ \A d \in Calls \ {c} : CallKept(d)
      /\ pc'[c] \in {pc[c], "done"} /\ arg'[c] = arg[c] /\ seen'[c] = seen[c]
      /\ \A d \in Calls : task'[d] # "none" => task[d] # "none"
      /\ audit' = audit
  BY <1>9, <1>a DEF BackendActs, BackendEnds, BackendReturns, BackendFails, Finish, CallKept, TypeOK
<2> QED
  BY <1>q, <2>1 DEF Quiet, Started, CallKept
<1>10. CASE CrashRestart
<2>1. /\ \A c \in Calls : pc'[c] \in {pc[c], "lost"}
      /\ UNCHANGED <<arg, seen, task, audit>>
  BY <1>10, <1>a DEF CrashRestart, TypeOK
<2> QED
  BY <1>q, <2>1 DEF Quiet, Started, CallKept
<1>11. CASE UNCHANGED <<audit, handler>>
  BY <1>q, <1>11 DEF Quiet, CallKept, handler
<1>12. CASE \/ \E n \in DOMAIN requests :
                  (\E lifetime \in Lifetimes : Approve(n, lifetime)) \/ Deny(n) \/ OwnerRevokes(n)
            \/ Sweep
            \/ \E b \in Baselines : BaselineMoves(b)
            \/ Tick
            \/ AllCallsMade
  BY <1>11, <1>12 DEF Approve, Deny, OwnerRevokes, Sweep, BaselineMoves, Tick, AllCallsMade, vars
<1>13. CASE UNCHANGED vars
  BY <1>11, <1>13 DEF vars
<1> QED
  BY <1>1, <1>2, <1>3, <1>4, <1>5, <1>6, <1>7, <1>8, <1>9, <1>10, <1>12, <1>13
  DEF Next, HandlerStep

-----------------------------------------------------------------------------
LEMMA GateInvariant == Spec => [](TypeInv /\ GateInv)
<1>1. Init => TypeInv
  BY InitType DEF TypeInv, ArgumentsFit, Init
<1>2. Init => GateInv
<2> SUFFICES ASSUME Init PROVE GateInv
  OBVIOUS
<2>1. StoreOK
  BY BootedStore DEF Init, Persisted, StoreOK
<2> QED
  BY <2>1 DEF Init, GateInv, CallsOK, LogOK, TasksOK
<1>3. TypeInv /\ GateInv /\ [Next]_vars => (TypeInv /\ GateInv)'
  BY TypeStep, GateStep
<1> QED
  BY <1>1, <1>2, <1>3, PTL DEF Spec

\* Write-before-operate, for every interleaving, every failure of the log and
\* every crash: no backend task without its execution in the audit log.
THEOREM WritesBeforeOperating == Spec => []WriteBeforeOperate
<1>1. GateInv => WriteBeforeOperate
  BY DEF GateInv, TasksOK, WriteBeforeOperate
<1> QED
  BY <1>1, GateInvariant, PTL

\* Every execution in the log is justified: by the cited grant, which matches and
\* was live when the gate looked, or by being of the READ tier.
THEOREM ExecutesJustified == Spec => []ExecutionJustified
<1>1. GateInv => ExecutionJustified
<2> SUFFICES ASSUME GateInv, NEW i \in DOMAIN audit, Executed(audit[i])
             PROVE  LET c == audit[i].call IN
                    /\ audit[i].account \in Accounts
                    /\ IF audit[i].reason = "grant"
                       THEN Permits(audit[i].grant, c, seen[c].checked)
                       ELSE audit[i].grant = 0 /\ classify(audit[i].op) = "READ"
  BY DEF ExecutionJustified
<2>1. EntryOK(i)
  BY DEF GateInv, LogOK
<2> QED
  BY <2>1 DEF EntryOK, Justification
<1> QED
  BY <1>1, GateInvariant, PTL

\* The transfer surface executes only what a matching grant permitted when its
\* handler admitted the call.
THEOREM TransfersAdmitted == Spec => []TransferAdmitted
<1>1. GateInv => TransferAdmitted
  BY DEF GateInv, LogOK, EntryOK, Admission, TransferAdmitted
<1> QED
  BY <1>1, GateInvariant, PTL

-----------------------------------------------------------------------------
(***************************************************************************)
(* The event loop: what is between two awaits is not disturbed.            *)
(***************************************************************************)

\* The calls between two awaits; one of them holds the loop.
OnLoop == {"gate", "record", "submit", "recordSubmitted", "recordRevoked"}

LoopHeld == \A c \in Calls : pc[c] \in OnLoop => loop = c

CitedActive(c) ==
    pc[c] = "record" /\ seen[c].number # 0 =>
        /\ seen[c].number \in DOMAIN requests
        /\ requests[seen[c].number].state = "active"

LoopInv == LoopHeld /\ \A c \in Calls : CitedActive(c)

\* A step of call c's handler, which the loop runs: no other call is on the loop.
LEMMA HandlerKeeps ==
  ASSUME LoopInv, NEW c \in Calls, Runs(c),
         \A d \in Calls \ {c} : pc'[d] = pc[d] /\ seen'[d] = seen[d],
         pc'[c] \in OnLoop => loop' = c,
         CitedActive(c)'
  PROVE  LoopInv'
<1>1. \A d \in Calls \ {c} : pc[d] \notin OnLoop
  BY Configured DEF LoopInv, LoopHeld, Runs
<1>2. LoopHeld'
  BY <1>1 DEF LoopHeld, OnLoop
<1>3. ASSUME NEW d \in Calls \ {c} PROVE CitedActive(d)'
  BY <1>1, <1>3 DEF CitedActive, OnLoop
<1> QED
  BY <1>2, <1>3 DEF LoopInv

\* Whatever else runs on the loop runs while no handler does.
LEMMA HousekeepingKeeps ==
  ASSUME LoopInv, loop = Idle, UNCHANGED <<pc, seen>>
  PROVE  LoopInv'
<1>1. \A c \in Calls : pc[c] \notin OnLoop
  BY Configured DEF LoopInv, LoopHeld
<1> QED
  BY <1>1 DEF LoopInv, LoopHeld, CitedActive, OnLoop

LEMMA LoopStep == TypeInv /\ LoopInv /\ [Next]_vars => LoopInv'
<1> SUFFICES ASSUME TypeInv, LoopInv, [Next]_vars PROVE LoopInv'
  OBVIOUS
<1>a. TypeOK
  BY DEF TypeInv
<1>1. ASSUME NEW c \in Calls, NEW account \in Names, NEW resource \in Resources,
             \/ \E tool \in GateTools : AgentTool(c, tool, account, resource)
             \/ TransferRead(c, account, resource)
             \/ \E intact \in BOOLEAN : TransferWrite(c, account, resource, intact)
             \/ \E ops \in OpSets : RequestAccess(c, account, resource, ops)
      PROVE  LoopInv'
<2>1. /\ Runs(c)
      /\ \E step \in {"gate", "submit"} : Goto(c, step) \/ Finish(c, Refused)
      /\ \A d \in Calls \ {c} : seen'[d] = seen[d]
  BY <1>1, <1>a
  DEF AgentTool, TransferRead, TransferWrite, RequestAccess, Starts, Runs, TypeOK
<2>2. /\ \A d \in Calls \ {c} : pc'[d] = pc[d]
      /\ pc'[c] \in {"gate", "submit", "done"}
      /\ pc'[c] \in OnLoop => loop' = c
  BY <1>a, <2>1 DEF Goto, Finish, OnLoop, TypeOK
<2> QED
  BY <2>1, <2>2, HandlerKeeps DEF CitedActive
<1>2. ASSUME NEW c \in Calls, NEW account \in Names, NEW number \in Numbers,
             RevokeAccess(c, account, number)
      PROVE  LoopInv'
<2>1. /\ Runs(c)
      /\ \A d \in Calls \ {c} : pc'[d] = pc[d] /\ seen'[d] = seen[d]
      /\ pc'[c] \in {"recordRevoked", "done"}
      /\ pc'[c] \in OnLoop => loop' = c
  BY <1>2, <1>a DEF RevokeAccess, Starts, Runs, Goto, Finish, OnLoop, TypeOK
<2> QED
  BY <2>1, HandlerKeeps DEF CitedActive
<1>3. ASSUME NEW c \in Calls, Gate(c) PROVE LoopInv'
<2>1. /\ Runs(c)
      /\ \A d \in Calls \ {c} : pc'[d] = pc[d] /\ seen'[d] = seen[d]
      /\ pc'[c] \in OnLoop => loop' = c
      /\ requests' = requests
  BY <1>3, <1>a DEF Gate, Justify, Justified, Goto, Finish, OnLoop, TypeOK, store
<2>2. CASE pc'[c] # "record"
  BY <2>1, <2>2, HandlerKeeps DEF CitedActive
<2>3. CASE pc'[c] = "record"
<3>1. PICK n, why :
         /\ Justify(c, n, why)
         /\ n = 0 \/ n \in active_for(arg[c].account, arg[c].resource, OpOf(c))
  BY <1>3, <1>a, <2>3 DEF Gate, Goto, Finish, TypeOK
<3>2. seen'[c].number = n
  BY <1>a, <3>1 DEF Justify, Justified, TypeOK, Reading
<3>3. n # 0 => n \in DOMAIN requests /\ requests[n].state = "active"
  BY <3>1 DEF active_for, LiveAt
<3>4. CitedActive(c)'
  BY <2>1, <3>2, <3>3 DEF CitedActive
<3> QED
  BY <2>1, <3>4, HandlerKeeps
<2> QED
  BY <2>2, <2>3
<1>4. ASSUME NEW c \in Calls,
             \/ RecordExecuted(c) \/ Submit(c) \/ RecordSubmitted(c) \/ RecordRevoked(c)
             \/ NotifyEnds(c) \/ BackendEnds(c)
      PROVE  LoopInv'
<2>1. Runs(c)
  BY <1>4 DEF RecordExecuted, Submit, RecordSubmitted, RecordRevoked, NotifyEnds, BackendEnds,
              BackendReturns, BackendFails, Runs
<2>2. /\ \A d \in Calls \ {c} : pc'[d] = pc[d] /\ seen'[d] = seen[d]
      /\ pc'[c] \in {"running", "notify", "recordSubmitted", "done"}
      /\ pc'[c] \in OnLoop => loop' = c
<3>1. CASE RecordExecuted(c) \/ RecordSubmitted(c) \/ RecordRevoked(c)
  BY <1>a, <3>1 DEF RecordExecuted, RecordSubmitted, RecordRevoked, Awaits, Finish, OnLoop, TypeOK
<3>2. CASE Submit(c) \/ NotifyEnds(c) \/ BackendEnds(c)
  BY <1>a, <3>2 DEF Submit, Accepts, NotifyEnds, BackendEnds, BackendReturns, BackendFails,
                    Goto, Finish, OnLoop, TypeOK
<3> QED
  BY <1>4, <3>1, <3>2
<2> QED
  BY <2>1, <2>2, HandlerKeeps DEF CitedActive
<1>5. CASE \/ \E n \in DOMAIN requests :
                 (\E lifetime \in Lifetimes : Approve(n, lifetime)) \/ Deny(n) \/ OwnerRevokes(n)
           \/ Sweep
           \/ \E b \in Baselines : BaselineMoves(b)
<2>1. loop = Idle /\ UNCHANGED <<pc, seen>>
  BY <1>5 DEF Approve, Deny, OwnerRevokes, Sweep, BaselineMoves, handler
<2> QED
  BY <2>1, HousekeepingKeeps
<1>6. CASE (\E c \in Calls : BackendActs(c)) \/ Tick \/ AllCallsMade \/ UNCHANGED vars
<2>1. UNCHANGED <<loop, requests, pc, seen>>
  BY <1>6 DEF BackendActs, Tick, AllCallsMade, vars, store, handler
<2> QED
  BY <2>1 DEF LoopInv, LoopHeld, CitedActive
<1>7. CASE CrashRestart
<2>1. \A c \in Calls : pc'[c] \notin OnLoop
  BY <1>7, <1>a DEF CrashRestart, InFlight, OnLoop, TypeOK
<2> QED
  BY <2>1 DEF LoopInv, LoopHeld, CitedActive, OnLoop
<1> QED
  BY <1>1, <1>2, <1>3, <1>4, <1>5, <1>6, <1>7 DEF Next, HandlerStep

LEMMA LoopInvariant == Spec => [](TypeInv /\ LoopInv)
<1>1. Init => TypeInv
  BY InitType DEF TypeInv, ArgumentsFit, Init
<1>2. Init => LoopInv
  BY DEF Init, LoopInv, LoopHeld, CitedActive, OnLoop
<1>3. TypeInv /\ LoopInv /\ [Next]_vars => (TypeInv /\ LoopInv)'
  BY TypeStep, LoopStep
<1> QED
  BY <1>1, <1>2, <1>3, PTL DEF Spec

\* A new record of an execution is the record of a call that had passed the gate.
LEMMA NewExecution ==
  ASSUME TypeOK, TypeOK', [Next]_vars,
         NEW i \in DOMAIN audit' \ DOMAIN audit, Executed(audit'[i])
  PROVE  \E c \in Calls :
            pc[c] = "record" /\ UNCHANGED store /\ audit'[i] = ExecutedRecord(c)
<1>1. ASSUME NEW a, audit' = Append(audit, a)
      PROVE  audit'[i] = a
<2>1. audit \in Seq(AuditRecord) /\ a \in AuditRecord
  BY <1>1, LastAppended DEF TypeOK
<2> QED
  BY <1>1, <2>1, AppendProperties
<1>2. audit' # audit
  OBVIOUS
<1>3. ASSUME NEW c \in Calls, RecordExecuted(c)
      PROVE  pc[c] = "record" /\ UNCHANGED store /\ audit'[i] = ExecutedRecord(c)
  BY <1>1, <1>2, <1>3 DEF RecordExecuted
<1>4. ASSUME NEW c \in Calls, RecordSubmitted(c) \/ RecordRevoked(c)
      PROVE  FALSE
<2>1. PICK a : audit' = Append(audit, a) /\ a.decision \in {"submitted", "revoked"}
  BY <1>2, <1>4 DEF RecordSubmitted, RecordRevoked
<2> QED
  BY <1>1, <2>1 DEF Executed
<1>5. ASSUME NEW c \in Calls,
             \/ \E account \in Names, resource \in Resources :
                   \/ \E tool \in GateTools : AgentTool(c, tool, account, resource)
                   \/ TransferRead(c, account, resource)
                   \/ \E intact \in BOOLEAN : TransferWrite(c, account, resource, intact)
                   \/ \E ops \in OpSets : RequestAccess(c, account, resource, ops)
             \/ \E account \in Names, number \in Numbers : RevokeAccess(c, account, number)
             \/ Gate(c) \/ Submit(c) \/ NotifyEnds(c) \/ BackendActs(c) \/ BackendEnds(c)
      PROVE  FALSE
  BY <1>2, <1>5 DEF AgentTool, TransferRead, TransferWrite, RequestAccess, RevokeAccess, Gate,
                    Submit, NotifyEnds, BackendActs, BackendEnds, BackendReturns, BackendFails
<1>6. CASE \/ \E n \in DOMAIN requests :
                 (\E lifetime \in Lifetimes : Approve(n, lifetime)) \/ Deny(n) \/ OwnerRevokes(n)
           \/ Sweep \/ (\E b \in Baselines : BaselineMoves(b))
           \/ Tick \/ CrashRestart \/ AllCallsMade \/ UNCHANGED vars
  BY <1>2, <1>6 DEF Approve, Deny, OwnerRevokes, Sweep, BaselineMoves, Tick, CrashRestart,
                    AllCallsMade, vars
<1> QED
  BY <1>3, <1>4, <1>5, <1>6 DEF Next, HandlerStep

\* No execution is logged on a grant that was withdrawn, swept or replaced since
\* the gate found it: nothing touches the store between the two.
THEOREM CitesActive == Spec => CitesOnlyActive
<1>1. ASSUME TypeInv, TypeInv', LoopInv, [Next]_vars,
             NEW i \in DOMAIN audit' \ DOMAIN audit,
             Executed(audit'[i]), audit'[i].grant # 0
      PROVE  requests[audit'[i].grant].state = "active"
<2>1. PICK c \in Calls : pc[c] = "record" /\ audit'[i] = ExecutedRecord(c)
  BY <1>1, NewExecution DEF TypeInv
<2>2. audit'[i].grant = seen[c].number
  BY <2>1 DEF ExecutedRecord
<2> QED
  BY <1>1, <2>1, <2>2 DEF LoopInv, CitedActive
<1>2. TypeInv /\ TypeInv' /\ LoopInv /\ [Next]_vars =>
        [\A i \in DOMAIN audit' \ DOMAIN audit :
            Executed(audit'[i]) /\ audit'[i].grant # 0 =>
                requests[audit'[i].grant].state = "active"]_vars
  BY <1>1
<1> QED
  BY <1>2, LoopInvariant, PTL DEF Spec, CitesOnlyActive

-----------------------------------------------------------------------------
(***************************************************************************)
(* The store over time.                                                    *)
(***************************************************************************)

\* The store as it is taken to be: a request only moves forward, its item and its
\* approval stay, and its number.
Forward(s, t) ==
    \/ s = t
    \/ s = "pending" /\ t \in {"active", "denied", "revoked"}
    \/ s = "active" /\ t \in {"expired", "revoked"}

MovesForward(n) ==
    /\ n \in DOMAIN requests'
    /\ Forward(requests[n].state, requests'[n].state)
    /\ \/ requests'[n] = [requests[n] EXCEPT !.state = requests'[n].state]
       \/ requests[n].state = "pending"

LEMMA RevokedForward ==
  ASSUME NEW r \in Request
  PROVE  Forward(r.state, Revoked(r).state) /\ Revoked(r) = [r EXCEPT !.state = Revoked(r).state]
  BY BrokerAssumption DEF Revoked, Forward, Request

\* A step that replaces one request by a later one.
LEMMA ReplacedForward ==
  ASSUME TypeOK, NEW n \in DOMAIN requests, NEW r,
         requests' = [requests EXCEPT ![n] = r],
         Forward(requests[n].state, r.state),
         r = [requests[n] EXCEPT !.state = r.state] \/ requests[n].state = "pending"
  PROVE  \A m \in DOMAIN requests : MovesForward(m)
<1>1. requests \in Seq(Request)
  BY DEF TypeOK
<1>2. DOMAIN requests' = DOMAIN requests
  BY <1>1
<1>3. ASSUME NEW m \in DOMAIN requests PROVE MovesForward(m)
<2>1. requests[m] \in Request
  BY <1>1
<2>2. requests[m] = [requests[m] EXCEPT !.state = requests[m].state]
  BY <2>1 DEF Request
<2> QED
  BY <1>1, <1>2, <2>2 DEF MovesForward, Forward
<1> QED
  BY <1>3

LEMMA ForwardStep ==
  ASSUME TypeOK, [Next]_vars, NEW n \in DOMAIN requests
  PROVE  MovesForward(n)
<1>a. /\ requests \in Seq(Request)
      /\ \A m \in DOMAIN requests : requests[m] \in Request
  BY DEF TypeOK
<1>1. ASSUME requests'[n] = requests[n], n \in DOMAIN requests'
      PROVE  MovesForward(n)
  BY <1>1, <1>a DEF MovesForward, Forward, Request
<1>2. ASSUME NEW c \in Calls, Submit(c) PROVE MovesForward(n)
  BY <1>1, <1>2, <1>a DEF Submit, Accepts
<1>3. ASSUME NEW c \in Calls, NEW account \in Names, NEW number \in Numbers,
             RevokeAccess(c, account, number)
      PROVE  MovesForward(n)
<2>1. CASE UNCHANGED requests
  BY <1>1, <2>1
<2>2. CASE /\ number \in DOMAIN requests
           /\ requests' = [requests EXCEPT ![number] = Revoked(requests[number])]
  BY <1>a, <2>2, RevokedForward, ReplacedForward
<2> QED
  BY <1>3, <2>1, <2>2 DEF RevokeAccess
<1>4. ASSUME NEW m \in DOMAIN requests, OwnerRevokes(m) PROVE MovesForward(n)
  BY <1>4, <1>a, RevokedForward, ReplacedForward DEF OwnerRevokes
<1>5. ASSUME NEW m \in DOMAIN requests, Deny(m) PROVE MovesForward(n)
<2> DEFINE r == [requests[m] EXCEPT !.state = "denied"]
<2>1. requests[m].state = "pending" /\ r.state = "denied" /\ requests' = [requests EXCEPT ![m] = r]
  BY <1>5, <1>a DEF Deny, Request
<2> HIDE DEF r
<2> QED
  BY <2>1, ReplacedForward DEF Forward
<1>6. ASSUME NEW m \in DOMAIN requests, NEW lifetime \in Lifetimes, Approve(m, lifetime)
      PROVE  MovesForward(n)
<2> DEFINE r == [requests[m] EXCEPT !.state = "active", !.approved = now,
                    !.expires = IF lifetime = 0 THEN Never ELSE now + lifetime]
<2>1. requests[m].state = "pending" /\ r.state = "active" /\ requests' = [requests EXCEPT ![m] = r]
  BY <1>6, <1>a DEF Approve, Request
<2> HIDE DEF r
<2> QED
  BY <2>1, ReplacedForward DEF Forward
<1>7. CASE Sweep
<2>1. n \in DOMAIN requests'
  BY <1>7 DEF Sweep
<2>2. CASE Overdue(requests[n])
<3>1. requests'[n] = [requests[n] EXCEPT !.state = "expired"] /\ requests[n].state = "active"
  BY <1>7, <2>2 DEF Sweep, Overdue
<3> QED
  BY <1>a, <2>1, <3>1 DEF MovesForward, Forward, Request
<2>3. CASE ~Overdue(requests[n])
  BY <1>1, <1>7, <2>1, <2>3 DEF Sweep
<2> QED
  BY <2>2, <2>3
<1>8. ASSUME NEW c \in Calls,
             \/ \E account \in Names, resource \in Resources :
                   \/ \E tool \in GateTools : AgentTool(c, tool, account, resource)
                   \/ TransferRead(c, account, resource)
                   \/ \E intact \in BOOLEAN : TransferWrite(c, account, resource, intact)
                   \/ \E ops \in OpSets : RequestAccess(c, account, resource, ops)
             \/ Gate(c) \/ RecordExecuted(c) \/ RecordSubmitted(c) \/ RecordRevoked(c)
             \/ NotifyEnds(c) \/ BackendActs(c) \/ BackendEnds(c)
      PROVE  MovesForward(n)
<2>1. requests' = requests
  BY <1>8 DEF AgentTool, TransferRead, TransferWrite, RequestAccess, Gate, RecordExecuted,
              RecordSubmitted, RecordRevoked, NotifyEnds, BackendActs, BackendEnds,
              BackendReturns, BackendFails, store
<2> QED
  BY <1>1, <2>1
<1>9. CASE (\E b \in Baselines : BaselineMoves(b)) \/ Tick \/ CrashRestart \/ AllCallsMade
           \/ UNCHANGED vars
  BY <1>1, <1>9 DEF BaselineMoves, Tick, CrashRestart, AllCallsMade, store, vars
<1> QED
  BY <1>2, <1>3, <1>4, <1>5, <1>6, <1>7, <1>8, <1>9 DEF Next, HandlerStep
=============================================================================

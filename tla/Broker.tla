------------------------------- MODULE Broker -------------------------------
(***************************************************************************)
(* The gate of the data broker (data_broker/tools.py): concurrent tool     *)
(* calls of the agent and the transfer surface, the grant store and the    *)
(* baselines they consult, the audit log they write and the backend tasks  *)
(* they start.                                                             *)
(*                                                                         *)
(* Every handler runs on one asyncio event loop, so a handler is atomic    *)
(* between two awaits for everything but the wall clock and the death of   *)
(* the process.  `loop' is the call whose handler is between two awaits;   *)
(* its code is split where it reads the clock or makes a durable write,    *)
(* and only Tick and CrashRestart may come in between.                     *)
(*                                                                         *)
(* The grant store, the baseline engine and the audit log belong to        *)
(* access_broker_core, which the repository does not hold: they are        *)
(* modelled from the way tools.py and the tests use them.                  *)
(***************************************************************************)
EXTENDS Wall

CONSTANTS
    Calls,            \* tool calls, each made once
    Names,            \* account names a caller may give
    Resources,        \* raw resources a caller may give
    Family,           \* the configured accounts: account name -> backend
    GateTools,        \* the agent tools called that go straight to the gate
    Stores,           \* the grant stores the broker may be booted on
    OpSets,           \* operation sets request_access may ask for
    Baselines,        \* the baseline definitions, [backend, account, resource, ops]
    RevocableStates,  \* the request states store.revoke withdraws
    Lifetimes,        \* lifetimes the owner approves with; 0 is no expiry
    HasGateway,       \* is an approval gateway configured (ctx.core)?
    Idle,             \* the event loop runs no handler
    MaxTime,          \* bound on the clock
    MaxRequests       \* bound on the requests ever submitted

Accounts == DOMAIN Family

Numbers == 1 .. MaxRequests
Never == 0    \* the expiry of a grant that does not expire

RequestStates == {"pending", "active", "denied", "expired", "revoked"}

\* A request holds one item, as every submission in tools.py does.
Request ==
    [backend : DECLARED_BACKENDS, account : Names, resource : Resources,
     ops : SUBSET DECLARED_OPERATIONS, state : RequestStates,
     approved : Nat, expires : Nat]

\* A store left by an earlier run of the broker, before the clock's start.
Persisted(st) ==
    /\ st \in Seq(Request)
    /\ \A n \in DOMAIN st :
        /\ st[n].approved \in {0, 1}
        /\ st[n].state = "active" => st[n].approved = 1
        /\ st[n].state = "pending" => st[n].approved = 0

ASSUME BrokerAssumption ==
    /\ Idle \notin Calls
    /\ "none" \notin Accounts
    /\ Accounts \subseteq Names
    /\ \A a \in Accounts : Family[a] \in DECLARED_BACKENDS
    /\ GateTools \subseteq {"list", "read", "move", "trash", "mkdir"}
    /\ \A st \in Stores : Persisted(st)
    /\ \A b \in Baselines : b.ops \subseteq {"read", "list"}
    /\ RevocableStates \subseteq {"pending", "active"}
    /\ Lifetimes \subseteq Nat
    /\ HasGateway \in BOOLEAN
    /\ MaxTime \in Nat
    /\ MaxRequests \in Nat

VARIABLES
    now,       \* the wall clock
    loop,      \* the call whose handler holds the event loop, or Idle
    requests,  \* the grant store: every request ever submitted, by number
    baseline,  \* the state of each baseline definition
    audit,     \* the audit log
    pc,        \* where each call's handler is
    arg,       \* the arguments of each call
    seen,      \* what its handler has read so far
    task,      \* its backend task
    answer     \* its envelope

store == <<requests, baseline>>
handler == <<pc, arg, seen, task, answer>>
vars == <<now, loop, store, audit, handler>>

AgentTools == GateTools \cup {"request_access", "revoke_access"}
TransferTools == {"read", "write"}

\* The arguments of a call; `resource' is <<>> where the tool takes none.
Argument ==
    [surface : {"agent", "transfer"}, tool : AgentTools \cup TransferTools,
     account : Names, resource : Resources \cup {<<>>}, ops : OpSets \cup {{}}, number : Nat]

NoArgument ==
    [surface |-> "none", tool |-> "none", account |-> "none",
     resource |-> <<>>, ops |-> {}, number |-> 0]

\* The operation a tool asks the gate for is the tool's own name.
OpOf(c) == arg[c].tool

PCs == {"idle", "gate", "record", "submit", "recordSubmitted", "notify",
        "running", "recordRevoked", "done", "lost"}

\* When the handler admitted and checked the request, and the grant it found or
\* the request it submitted.
Reasons == {"none", "grant", "baseline", "freelane", "pending_approval",
            "revoked", "not_revocable"}

Reading == [admitted : Nat, checked : Nat, number : Nat, reason : Reasons]

NoReading == [admitted |-> 0, checked |-> 0, number |-> 0, reason |-> "none"]

Envelope ==
    [status : {"none", "ok", "refused", "error", "pending"}, number : Nat, revoked : BOOLEAN]

NoAnswer == [status |-> "none", number |-> 0, revoked |-> FALSE]
Answer(status) == [NoAnswer EXCEPT !.status = status]
Refused == Answer("refused")

AuditRecord ==
    [decision : {"executed", "submitted", "revoked"}, call : Calls, account : Names,
     resource : Resources \cup {<<>>}, op : AgentTools \cup TransferTools, grant : Nat, reason : Reasons]

-----------------------------------------------------------------------------
(***************************************************************************)
(* The queries of the core that handlers make.                             *)
(***************************************************************************)

\* What the normalizer makes of every resource (a table, for TLC's sake).
StoreNode == [b \in DECLARED_BACKENDS |-> [r \in Resources |-> normalize_store_node(r, b)]]

\* Does this item match a request of account for op on resource?
Matches(item, account, resource, op) ==
    LET b == Family[account] IN
    check(item, StoreNode[b][item.resource], b, account, StoreNode[b][resource], op)

\* An active grant that has not expired at time t.
LiveAt(r, t) == r.state = "active" /\ (r.expires = Never \/ t < r.expires)

\* store.active_for: the numbers of the live grants that match the request.
active_for(account, resource, op) ==
    {n \in DOMAIN requests :
        /\ LiveAt(requests[n], now)
        /\ Matches(requests[n], account, resource, op)}

\* baselines.baseline_for: does an active baseline match the request?
baseline_for(account, resource, op) ==
    \E b \in Baselines :
        /\ baseline[b] = "active"
        /\ Matches(b, account, resource, op)

-----------------------------------------------------------------------------
Init ==
    /\ now = 1
    /\ loop = Idle
    /\ requests \in Stores
    /\ baseline \in [Baselines -> {"pending", "active", "suspended"}]
    /\ audit = <<>>
    /\ pc = [c \in Calls |-> "idle"]
    /\ arg = [c \in Calls |-> NoArgument]
    /\ seen = [c \in Calls |-> NoReading]
    /\ task = [c \in Calls |-> "none"]
    /\ answer = [c \in Calls |-> NoAnswer]

-----------------------------------------------------------------------------
(***************************************************************************)
(* Steps of a handler.                                                     *)
(***************************************************************************)

\* The loop may run c: it is c's already, or free.
Runs(c) == loop \in {Idle, c}

\* A call arrives and its handler starts.
Starts(c, a) ==
    /\ loop = Idle
    /\ pc[c] = "idle"
    /\ arg' = [arg EXCEPT ![c] = a]

Goto(c, step) ==
    /\ pc' = [pc EXCEPT ![c] = step]
    /\ loop' = c
    /\ UNCHANGED answer

\* The handler awaits at `step': the loop is free.
Awaits(c, step) ==
    /\ pc' = [pc EXCEPT ![c] = step]
    /\ loop' = Idle
    /\ UNCHANGED answer

Finish(c, envelope) ==
    /\ pc' = [pc EXCEPT ![c] = "done"]
    /\ answer' = [answer EXCEPT ![c] = envelope]
    /\ loop' = Idle

AgentArgument(tool, account, resource) ==
    [surface |-> "agent", tool |-> tool, account |-> account,
     resource |-> resource, ops |-> {}, number |-> 0]

TransferArgument(tool, account, resource) ==
    [AgentArgument(tool, account, resource) EXCEPT !.surface = "transfer"]

\* list, read, move, trash and mkdir of the agent surface go straight to the gate.
AgentTool(c, tool, account, resource) ==
    /\ Starts(c, AgentArgument(tool, account, resource))
    /\ Goto(c, "gate")
    /\ UNCHANGED <<now, store, audit, seen, task>>

\* Mutant: the transfer surface trusts the gate to ask for the grant.
AdmitsAnyone(c, tool, account, resource) == account \in Accounts

\* The transfer surface asks for an active grant of its own before the gate.
Admits(c, tool, account, resource) ==
    /\ account \in Accounts
    /\ active_for(account, resource, tool) # {}

\* read of the transfer surface.
TransferRead(c, account, resource) ==
    /\ Starts(c, TransferArgument("read", account, resource))
    /\ IF Admits(c, "read", account, resource)
       THEN /\ seen' = [seen EXCEPT ![c].admitted = now]
            /\ Goto(c, "gate")
       ELSE /\ Finish(c, Refused)
            /\ UNCHANGED seen
    /\ UNCHANGED <<now, store, audit, task>>

\* write of the transfer surface; `intact': the content is base64 and has the
\* expected sha256.
TransferWrite(c, account, resource, intact) ==
    /\ Starts(c, TransferArgument("write", account, resource))
    /\ IF Admits(c, "write", account, resource) /\ intact
       THEN /\ seen' = [seen EXCEPT ![c].admitted = now]
            /\ Goto(c, "gate")
       ELSE /\ Finish(c, Refused)
            /\ UNCHANGED seen
    /\ UNCHANGED <<now, store, audit, task>>

\* The gate found its justification and goes on to the audit record.
Justified(c, number, reason) ==
    seen' = [seen EXCEPT ![c].checked = now, ![c].number = number, ![c].reason = reason]

\* Mutant: an await between the look at the store and the audit record.
JustifyThenAwait(c, number, reason) ==
    Justified(c, number, reason) /\ Awaits(c, "record")

Justify(c, number, reason) ==
    Justified(c, number, reason) /\ Goto(c, "record")

\* Mutant: the tier is not looked at, every operation may take the free lane.
GateNoTier(c) ==
    LET account == arg[c].account
        resource == arg[c].resource
        grants == active_for(account, resource, OpOf(c))
    IN  /\ pc[c] = "gate"
        /\ Runs(c)
        /\ account \in Accounts
        /\ IF grants # {} THEN \E n \in grants : Justify(c, n, "grant")
           ELSE Justify(c, 0, "freelane")
        /\ UNCHANGED <<now, store, audit, arg, task>>

\* execute, up to the audit record: classify, look for grants, look for a
\* baseline unless the operation is GATED, and pick the reason.
Gate(c) ==
    LET account == arg[c].account
        resource == arg[c].resource
        op == OpOf(c)
        grants == active_for(account, resource, op)
    IN  /\ pc[c] = "gate"
        /\ Runs(c)
        /\ UNCHANGED <<now, store, audit, arg, task>>
        /\ \/ /\ account \notin Accounts
              /\ Finish(c, Refused)
              /\ UNCHANGED seen
           \/ /\ account \in Accounts
              /\ \E n \in grants : Justify(c, n, "grant")
           \/ /\ account \in Accounts
              /\ grants = {}
              /\ classify(op) = "GATED"
              /\ Goto(c, "submit")
              /\ UNCHANGED seen
           \/ /\ account \in Accounts
              /\ grants = {}
              /\ classify(op) # "GATED"
              /\ Justify(c, 0, IF baseline_for(account, resource, op)
                               THEN "baseline" ELSE "freelane")

\* The record of an execution.
ExecutedRecord(c) ==
    [decision |-> "executed", call |-> c, account |-> arg[c].account,
     resource |-> arg[c].resource, op |-> OpOf(c),
     grant |-> seen[c].number, reason |-> seen[c].reason]

\* Mutant: the task is scheduled before the record, which may then fail.
RecordExecutedLate(c) ==
    /\ pc[c] = "record"
    /\ Runs(c)
    /\ task' = [task EXCEPT ![c] = "scheduled"]
    /\ \/ audit' = Append(audit, ExecutedRecord(c)) /\ Awaits(c, "running")
       \/ UNCHANGED audit /\ Finish(c, Answer("error"))
    /\ UNCHANGED <<now, store, arg, seen>>

\* audit.record with `then': the backend task is scheduled once the record is
\* written.  LogWriteError answers error, ValueError (a secret in the record)
\* answers refused, and neither schedules.
RecordExecuted(c) ==
    /\ pc[c] = "record"
    /\ Runs(c)
    /\ UNCHANGED <<now, store, arg, seen>>
    /\ \/ /\ audit' = Append(audit, ExecutedRecord(c))
          /\ task' = [task EXCEPT ![c] = "scheduled"]
          /\ Awaits(c, "running")
       \/ /\ Finish(c, Answer("error"))
          /\ UNCHANGED <<audit, task>>
       \/ /\ Finish(c, Refused)
          /\ UNCHANGED <<audit, task>>

-----------------------------------------------------------------------------
(***************************************************************************)
(* Submitting a request: _request_pending, and request_access.             *)
(***************************************************************************)
RequestAccess(c, account, resource, ops) ==
    /\ Starts(c, [AgentArgument("request_access", account, resource) EXCEPT !.ops = ops])
    /\ IF account \in Accounts THEN Goto(c, "submit") ELSE Finish(c, Refused)
    /\ UNCHANGED <<now, store, audit, seen, task>>

\* The operations of the item a call submits.
ItemOps(c) == IF OpOf(c) = "request_access" THEN arg[c].ops ELSE {OpOf(c)}

Item(c) ==
    [backend |-> Family[arg[c].account], account |-> arg[c].account,
     resource |-> arg[c].resource, ops |-> ItemOps(c), state |-> "pending",
     approved |-> 0, expires |-> Never]

\* The store takes the item of call c under the next number.
Accepts(c) ==
    /\ Len(requests) < MaxRequests
    /\ requests' = Append(requests, Item(c))
    /\ seen' = [seen EXCEPT ![c].number = Len(requests) + 1]
    /\ Goto(c, "recordSubmitted")

\* Mutant: the operations asked for are not held against the vocabulary.
SubmitAnything(c) ==
    /\ pc[c] = "submit"
    /\ Runs(c)
    /\ Accepts(c)
    /\ UNCHANGED <<now, baseline, audit, arg, task>>

\* Mutant: a refused item is submitted again instead of answered.
SubmitRetries(c) ==
    /\ pc[c] = "submit"
    /\ Runs(c)
    /\ UNCHANGED <<now, baseline, audit, arg, task>>
    /\ \/ Accepts(c)
       \/ /\ Awaits(c, "submit")
          /\ UNCHANGED <<requests, seen>>

\* store.submit takes an item of declared operations and gives it the next
\* number; it may refuse any item with ValueError.
Submit(c) ==
    /\ pc[c] = "submit"
    /\ Runs(c)
    /\ UNCHANGED <<now, baseline, audit, arg, task>>
    /\ \/ /\ ItemOps(c) # {}
          /\ ItemOps(c) \subseteq DECLARED_OPERATIONS
          /\ Accepts(c)
       \/ /\ Finish(c, Refused)
          /\ UNCHANGED <<requests, seen>>

\* Mutant: the number is read off the store when the call comes to answer.
PendingLatest(c) == [Answer("pending") EXCEPT !.number = Len(requests)]

Pending(c) == [Answer("pending") EXCEPT !.number = seen[c].number]

\* A failed audit record of a submission is logged and passed over.
RecordSubmitted(c) ==
    /\ pc[c] = "recordSubmitted"
    /\ Runs(c)
    /\ UNCHANGED <<now, store, arg, seen, task>>
    /\ \/ audit' = Append(audit,
              [decision |-> "submitted", call |-> c, account |-> arg[c].account,
               resource |-> arg[c].resource, op |-> OpOf(c),
               grant |-> seen[c].number, reason |-> "pending_approval"])
       \/ UNCHANGED audit
    /\ IF HasGateway THEN Awaits(c, "notify") ELSE Finish(c, Pending(c))

\* core.notify_request returns or raises: the call pends either way.
NotifyEnds(c) ==
    /\ pc[c] = "notify"
    /\ loop = Idle
    /\ Finish(c, Pending(c))
    /\ UNCHANGED <<now, store, audit, arg, seen, task>>

-----------------------------------------------------------------------------
(***************************************************************************)
(* revoke_access.                                                          *)
(***************************************************************************)

\* store.revoke: a compare-and-set on the state.
Revoked(r) == IF r.state \in RevocableStates THEN [r EXCEPT !.state = "revoked"] ELSE r

RevokeAccess(c, account, number) ==
    /\ Starts(c, [AgentArgument("revoke_access", account, <<>>) EXCEPT !.number = number])
    /\ IF number \in DOMAIN requests /\ requests[number].account = account
       THEN /\ requests' = [requests EXCEPT ![number] = Revoked(@)]
            /\ seen' = [seen EXCEPT ![c].number = number,
                   ![c].reason = IF requests[number].state \in RevocableStates
                                 THEN "revoked" ELSE "not_revocable"]
            /\ Goto(c, "recordRevoked")
       ELSE /\ Finish(c, Refused)
            /\ UNCHANGED <<requests, seen>>
    /\ UNCHANGED <<now, baseline, audit, task>>

RecordRevoked(c) ==
    /\ pc[c] = "recordRevoked"
    /\ Runs(c)
    /\ \/ audit' = Append(audit,
              [decision |-> "revoked", call |-> c, account |-> arg[c].account,
               resource |-> <<>>, op |-> OpOf(c),
               grant |-> seen[c].number, reason |-> seen[c].reason])
       \/ UNCHANGED audit
    /\ Finish(c, [status |-> "ok", number |-> seen[c].number,
                  revoked |-> seen[c].reason = "revoked"])
    /\ UNCHANGED <<now, store, arg, seen, task>>

-----------------------------------------------------------------------------
(***************************************************************************)
(* The backend.  Its request may take effect at the store at any time once *)
(* scheduled, also after the handler gave up on it or the process died.    *)
(***************************************************************************)
BackendActs(c) ==
    /\ task[c] = "scheduled"
    /\ task' = [task EXCEPT ![c] = "acted"]
    /\ UNCHANGED <<now, loop, store, audit, pc, arg, seen, answer>>

BackendReturns(c) ==
    /\ pc[c] = "running"
    /\ loop = Idle
    /\ task[c] = "acted"
    /\ Finish(c, Answer("ok"))
    /\ UNCHANGED <<now, store, audit, arg, seen, task>>

\* A backend exception, a timeout among them.
BackendFails(c) ==
    /\ pc[c] = "running"
    /\ loop = Idle
    /\ Finish(c, Answer("error"))
    /\ UNCHANGED <<now, store, audit, arg, seen, task>>

-----------------------------------------------------------------------------
(***************************************************************************)
(* The owner and the housekeeping, which run on the same loop (external).  *)
(***************************************************************************)
Approve(n, lifetime) ==
    /\ loop = Idle
    /\ requests[n].state = "pending"
    /\ requests' = [requests EXCEPT ![n].state = "active", ![n].approved = now,
                        ![n].expires = IF lifetime = 0 THEN Never ELSE now + lifetime]
    /\ UNCHANGED <<now, loop, baseline, audit, handler>>

Deny(n) ==
    /\ loop = Idle
    /\ requests[n].state = "pending"
    /\ requests' = [requests EXCEPT ![n].state = "denied"]
    /\ UNCHANGED <<now, loop, baseline, audit, handler>>

OwnerRevokes(n) ==
    /\ loop = Idle
    /\ requests[n].state \in RevocableStates
    /\ requests' = [requests EXCEPT ![n] = Revoked(@)]
    /\ UNCHANGED <<now, loop, baseline, audit, handler>>

\* core.sweep, from _sweep_loop: overdue grants become expired.
Overdue(r) == r.state = "active" /\ ~LiveAt(r, now)

Sweep ==
    /\ loop = Idle
    /\ \E n \in DOMAIN requests : Overdue(requests[n])
    /\ requests' = [n \in DOMAIN requests |->
                       IF Overdue(requests[n])
                       THEN [requests[n] EXCEPT !.state = "expired"] ELSE requests[n]]
    /\ UNCHANGED <<now, loop, baseline, audit, handler>>

\* The owner approves a baseline, silence suspends it, the owner restores it.
BaselineMoves(b) ==
    /\ loop = Idle
    /\ baseline' = [baseline EXCEPT ![b] = IF @ = "active" THEN "suspended" ELSE "active"]
    /\ UNCHANGED <<now, loop, requests, audit, handler>>

Tick ==
    /\ now < MaxTime
    /\ now' = now + 1
    /\ UNCHANGED <<loop, store, audit, handler>>

InFlight(c) == pc[c] \notin {"idle", "done", "lost"}

\* The process dies and is started again: handlers are gone, the store and the
\* log are on disk.
CrashRestart ==
    /\ \E c \in Calls : InFlight(c)
    /\ pc' = [c \in Calls |-> IF InFlight(c) THEN "lost" ELSE pc[c]]
    /\ loop' = Idle
    /\ UNCHANGED <<now, store, audit, arg, seen, task, answer>>

\* Every call has been made: the bounded instance has nothing left to do.
AllCallsMade ==
    /\ \A c \in Calls : pc[c] \in {"done", "lost"}
    /\ UNCHANGED vars

HandlerStep(c) ==
    \/ Gate(c)
    \/ RecordExecuted(c)
    \/ Submit(c)
    \/ RecordSubmitted(c)
    \/ RecordRevoked(c)

BackendEnds(c) == BackendReturns(c) \/ BackendFails(c)

Next ==
    \/ \E c \in Calls :
        \/ \E account \in Names, resource \in Resources :
            \/ \E tool \in GateTools : AgentTool(c, tool, account, resource)
            \/ TransferRead(c, account, resource)
            \/ \E intact \in BOOLEAN : TransferWrite(c, account, resource, intact)
            \/ \E ops \in OpSets : RequestAccess(c, account, resource, ops)
        \/ \E account \in Names, number \in Numbers : RevokeAccess(c, account, number)
        \/ HandlerStep(c)
        \/ NotifyEnds(c)
        \/ BackendActs(c)
        \/ BackendEnds(c)
    \/ \E n \in DOMAIN requests :
        \/ \E lifetime \in Lifetimes : Approve(n, lifetime)
        \/ Deny(n)
        \/ OwnerRevokes(n)
    \/ Sweep
    \/ \E b \in Baselines : BaselineMoves(b)
    \/ Tick
    \/ CrashRestart
    \/ AllCallsMade

Spec == Init /\ [][Next]_vars

\* The loop runs every ready handler in turn, and a backend call ends by itself
\* or by its client's 30 s timeout.  Nothing bounds the gateway's notification.
Fairness ==
    \A c \in Calls : WF_vars(HandlerStep(c)) /\ WF_vars(BackendEnds(c))

FairSpec == Spec /\ Fairness

-----------------------------------------------------------------------------
(***************************************************************************)
(* Properties.                                                             *)
(***************************************************************************)
TypeOK ==
    /\ now \in Nat
    /\ loop \in Calls \cup {Idle}
    /\ requests \in Seq(Request)
    /\ baseline \in [Baselines -> {"pending", "active", "suspended"}]
    /\ audit \in Seq(AuditRecord)
    /\ pc \in [Calls -> PCs]
    /\ arg \in [Calls -> Argument \cup {NoArgument}]
    /\ seen \in [Calls -> Reading]
    /\ task \in [Calls -> {"none", "scheduled", "acted"}]
    /\ answer \in [Calls -> Envelope]

Executed(a) == a.decision = "executed"

\* The audit log holds the execution of call c as c asked for it.
ExecutionLogged(c) ==
    \E i \in DOMAIN audit :
        /\ Executed(audit[i])
        /\ audit[i].call = c
        /\ audit[i].account = arg[c].account
        /\ audit[i].resource = arg[c].resource
        /\ audit[i].op = OpOf(c)

\* Write-before-operate: a backend task exists, or has acted, only for a call
\* whose execution is in the audit log, whatever record() raised and whenever
\* the process died.
WriteBeforeOperate == \A c \in Calls : task[c] # "none" => ExecutionLogged(c)

\* Request r was granted by the owner and not expired at time t.
WasLive(r, t) == r.approved \in 1 .. t /\ (r.expires = Never \/ t < r.expires)

\* Request n matches what call c asks for and was live at time t.
Permits(n, c, t) ==
    /\ n \in DOMAIN requests
    /\ WasLive(requests[n], t)
    /\ Matches(requests[n], arg[c].account, arg[c].resource, OpOf(c))

\* Every execution in the log is on a configured account and justified: by the
\* grant it cites, which the owner approved, which matches and was live when
\* the gate looked, or else by being of the READ tier.
ExecutionJustified ==
    \A i \in DOMAIN audit : Executed(audit[i]) =>
        LET c == audit[i].call IN
        /\ audit[i].account \in Accounts
        /\ IF audit[i].reason = "grant"
           THEN Permits(audit[i].grant, c, seen[c].checked)
           ELSE audit[i].grant = 0 /\ classify(audit[i].op) = "READ"

\* The transfer surface executes only what some matching grant permitted at the
\* time its handler admitted the call.
TransferAdmitted ==
    \A i \in DOMAIN audit :
        LET c == audit[i].call IN
        Executed(audit[i]) /\ arg[c].surface = "transfer" =>
            \E n \in DOMAIN requests : Permits(n, c, seen[c].admitted)

\* The envelope tells the truth: ok means the backend acted, refused that
\* nothing was started, pending that the numbered request is this
\* call's own and nothing was started; a revocation reported is in the store.
EnvelopeHonest ==
    \A c \in Calls :
        LET e == answer[c] IN
        /\ e.status = "ok" /\ OpOf(c) # "revoke_access" => task[c] = "acted"
        /\ e.status = "refused" => task[c] = "none"
        /\ e.status = "pending" =>
            /\ task[c] = "none"
            /\ e.number \in DOMAIN requests
            /\ requests[e.number].account = arg[c].account
            /\ requests[e.number].resource = arg[c].resource
            /\ requests[e.number].ops = ItemOps(c)
            /\ \A d \in Calls \ {c} :
                answer[d].status = "pending" => answer[d].number # e.number
        /\ e.revoked => requests[e.number].state = "revoked"

\* No execution is logged on a grant that has been withdrawn: between the gate's
\* look at the store and its audit record nothing else touches the store.
CitesOnlyActive ==
    [][\A i \in DOMAIN audit' \ DOMAIN audit :
        Executed(audit'[i]) /\ audit'[i].grant # 0 =>
            requests[audit'[i].grant].state = "active"]_vars

-----------------------------------------------------------------------------
(***************************************************************************)
(* The gate the broker implements.                                         *)
(***************************************************************************)

\* The calls at the gate that a grant or the READ tier permits.
Permitted ==
    {c \in Calls :
        /\ pc[c] = "gate"
        /\ arg[c].account \in Accounts
        /\ \/ active_for(arg[c].account, arg[c].resource, OpOf(c)) # {}
           \/ classify(OpOf(c)) = "READ"}

Vouched == {c \in Calls : pc[c] = "record"}
Logged == {c \in Calls : \E i \in DOMAIN audit : Executed(audit[i]) /\ audit[i].call = c}
Operated == {c \in Calls : task[c] = "acted"}
Confirmed == {c \in Calls : answer[c].status = "ok" /\ OpOf(c) # "revoke_access"}
Declined == {c \in Calls : answer[c].status \in {"refused", "pending"}}

TheGate == INSTANCE Gate WITH
    permitted <- Permitted, vouched <- Vouched, logged <- Logged,
    operated <- Operated, confirmed <- Confirmed, declined <- Declined

\* The broker implements the gate: an operation takes effect once, after its log
\* entry, which follows a look at the store that found it permitted; ok is only
\* answered for what took effect, refused and pending never for what was or
\* will be started.
GateSpec == TheGate!Spec

\* As the transfer surface documents it: its reads and writes are grant-scoped,
\* never free.
TransferNeverFree ==
    \A i \in DOMAIN audit :
        Executed(audit[i]) /\ arg[audit[i].call].surface = "transfer" =>
            audit[i].reason = "grant"

\* Every call the broker takes up is answered, dies with the process, or waits
\* for the gateway's notification.
Answered ==
    \A c \in Calls : InFlight(c) ~> pc[c] \in {"done", "lost", "notify"}

=============================================================================

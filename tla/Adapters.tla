------------------------------ MODULE Adapters ------------------------------
(***************************************************************************)
(* The WebDAV and the OneDrive adapter (data_broker/backends): connecting  *)
(* every account, sending requests, and translating what comes back.       *)
(*                                                                         *)
(* An adapter runs on the event loop from its check of the connection to   *)
(* the first await, the token provider's blocking calls included: a        *)
(* request is made in one step, and only the death of the process splits   *)
(* it.  The server may carry out what has been sent at any time until it   *)
(* refuses it (external).                                                  *)
(***************************************************************************)
EXTENDS Tokens, FiniteSets, Sequences, Functions

CONSTANTS
    Family,     \* the configured accounts: account name -> backend
    Order,      \* the accounts in the order of the configuration
    Calls,      \* operations, each made once
    Operations  \* the operations called

Accounts == DOMAIN Family

ASSUME AdaptersAssumption ==
    /\ \A a \in Accounts : Family[a] \in {"webdav", "onedrive"}
    /\ "none" \notin Accounts
    /\ MsalAccounts = {a \in Accounts : Family[a] = "onedrive"}
    /\ Operations \subseteq {"list", "read", "write", "move", "trash", "mkdir", "capabilities"}
    /\ Calls \cap Accounts = {}
    /\ Order \in Seq(Accounts) /\ IsInjective(Order) /\ Range(Order) = Accounts

VARIABLES
    phase,       \* of the process
    connected,   \* the accounts the adapters hold for connected
    pc,          \* of each call, and of the probe of each account, named by it
    target,      \* the account and the operation
    credential,  \* what authorises the request
    wire,        \* the calls the server may still carry out
    effect,      \* what it has carried out
    verdict      \* what the caller got

requesting == <<pc, target, credential, wire, effect, verdict>>
vars == <<tokens, phase, connected, requesting>>

Requests == Calls \cup Accounts
NoCredential == [account |-> "none", version |-> 0]

\* Statuses of a response; "other" are those of 400 and above with no meaning of
\* their own here.
Statuses == {"2xx", "207", "3xx", "401", "403", "429", "5xx", "other"}

Init ==
    /\ InitTokens
    /\ phase = "connecting"
    /\ connected = {}
    /\ pc = [r \in Requests |-> "idle"]
    /\ target = [r \in Requests |-> [account |-> "none", op |-> "none"]]
    /\ credential = [r \in Requests |-> NoCredential]
    /\ wire = {}
    /\ effect = [c \in Calls |-> "none"]
    /\ verdict = [r \in Requests |-> "none"]

-----------------------------------------------------------------------------
(***************************************************************************)
(* Translating a response to a result or a typed error.  `sound': the DAV  *)
(* header names class 1, or the body is JSON.                              *)
(***************************************************************************)

\* Mutant: a server error is none of the named ones.
TranslateServerError(status) ==
    CASE status \in {"2xx", "207"} -> "ok"
      [] status \in {"401", "403"} -> "AuthError"
      [] status = "429" -> "BackendUnavailable"
      [] OTHER -> "ProtocolError"

_translate(status) ==
    CASE status \in {"2xx", "207"} -> "ok"
      [] status \in {"401", "403"} -> "AuthError"
      [] status \in {"429", "5xx"} -> "BackendUnavailable"
      [] OTHER -> "ProtocolError"

\* WebDAV's probe takes any answer below 400 that names class 1.
DavProbed(status, sound) ==
    CASE status \in {"401", "403"} -> "AuthError"
      [] status = "5xx" -> "BackendUnavailable"
      [] status \in {"2xx", "207", "3xx"} /\ sound -> "ok"
      [] OTHER -> "ProtocolError"

\* Graph's parsed answers raise on a body that is no JSON.
GraphParsed(op, status, sound) ==
    IF _translate(status) = "ok" /\ op \in {"list", "capabilities"} /\ ~sound
    THEN "raised" ELSE _translate(status)

Verdict(r, status, sound) ==
    LET account == target[r].account
        op == target[r].op
    IN  IF Family[account] = "onedrive" THEN GraphParsed(op, status, sound)
        ELSE IF op = "connect" THEN DavProbed(status, sound)
        ELSE _translate(status)

-----------------------------------------------------------------------------
(***************************************************************************)
(* Making a request.                                                       *)
(***************************************************************************)
Aims(r, account, op) ==
    /\ pc[r] = "idle"
    /\ target' = [target EXCEPT ![r] = [account |-> account, op |-> op]]

Sends(r, account, version) ==
    /\ pc' = [pc EXCEPT ![r] = "sent"]
    /\ credential' = [credential EXCEPT ![r] = [account |-> account, version |-> version]]
    /\ wire' = wire \cup ({r} \cap Calls)
    /\ UNCHANGED <<effect, verdict>>

Ends(r, outcome) ==
    /\ pc' = [pc EXCEPT ![r] = "done"]
    /\ verdict' = [verdict EXCEPT ![r] = outcome]

\* WebDAV authenticates every request with the account's own password.
DavRequests(r, account) ==
    /\ Sends(r, account, 0)
    /\ UNCHANGED <<tokens, phase>>

\* Graph asks the token provider for every request; what that raises leaves the
\* adapter as it is.
GraphRequests(r, account) ==
    \/ /\ \E version \in 1 .. MaxVersion :
            TokenOf(account, version) /\ Sends(r, account, version)
       /\ UNCHANGED phase
    \/ /\ TokenRaises(account)
       /\ Ends(r, "raised")
       /\ phase' = IF r = account THEN "down" ELSE phase
       /\ UNCHANGED <<credential, wire, effect>>

Requesting(r, account) ==
    IF Family[account] = "webdav" THEN DavRequests(r, account) ELSE GraphRequests(r, account)

\* It is this account's turn.
Turn(a) == a = Order[Cardinality(connected) + 1]

\* _serve connects one account after another.
Probe(a) ==
    /\ phase = "connecting"
    /\ Turn(a)
    /\ Aims(a, a, "connect")
    /\ Requesting(a, a)
    /\ UNCHANGED connected

\* Mutant: an account is taken for connected when its probe is answered at all.
AnsweredIsConnected(a, outcome) ==
    /\ connected' = connected \cup {a}
    /\ phase' = IF Accounts \subseteq connected' THEN "serving" ELSE phase

\* connect adds the account, or raises and ends the boot; the last one lets the
\* broker serve.
Connects(a, outcome) ==
    /\ connected' = IF outcome = "ok" THEN connected \cup {a} ELSE connected
    /\ phase' = IF outcome # "ok" THEN "down"
                ELSE IF Accounts \subseteq connected' THEN "serving" ELSE phase

\* list, read, write, move, trash, mkdir and capabilities.
Operation(c, account, op) ==
    /\ phase = "serving"
    /\ account \in connected
    /\ Aims(c, account, op)
    /\ Requesting(c, account)
    /\ UNCHANGED connected

-----------------------------------------------------------------------------
(***************************************************************************)
(* The server (external), and what comes back from it.                     *)
(***************************************************************************)

\* It carries out a request; WebDAV's may do so in part.
ServerActs(c) ==
    /\ c \in wire
    /\ wire' = wire \ {c}
    /\ \E done \in {"whole"} \cup (IF Family[target[c].account] = "webdav" THEN {"part"} ELSE {}) :
          effect' = [effect EXCEPT ![c] = done]
    /\ UNCHANGED <<tokens, phase, connected, pc, target, credential, verdict>>

\* The answers a server may give by what it has done; a server error leaves open
\* what becomes of the request.
MayAnswer(r, status) ==
    CASE r \in Accounts \/ status = "5xx" -> TRUE
      [] status = "2xx" -> effect[r] = "whole"
      [] status = "207" -> effect[r] = "part"
      [] OTHER -> r \in wire

Returns(r, outcome) ==
    /\ Ends(r, outcome)
    /\ IF r \in Accounts THEN Connects(r, outcome) ELSE UNCHANGED <<phase, connected>>
    /\ UNCHANGED <<tokens, target, credential, effect>>

Answered(r, status, sound) ==
    /\ pc[r] = "sent"
    /\ MayAnswer(r, status)
    /\ wire' = IF status = "5xx" THEN wire ELSE wire \ {r}
    /\ Returns(r, Verdict(r, status, sound))

\* httpx's TransportError, its timeout of 30 s among them.
Unreachable(r) ==
    /\ pc[r] = "sent"
    /\ Returns(r, "BackendUnavailable")
    /\ UNCHANGED wire

-----------------------------------------------------------------------------
\* What the death of the process leaves: a new one starts over with its probes.
Dead ==
    /\ phase' = "down"
    /\ connected' = {}
    /\ pc' = [r \in Requests |-> IF pc[r] = "sent" THEN "lost" ELSE pc[r]]
    /\ UNCHANGED <<target, credential, wire, effect, verdict>>

Crash ==
    /\ phase # "down"
    /\ Dead
    /\ memory' = NothingLoaded
    /\ UNCHANGED <<cacheFile, tenant, unwritten>>

\* The process dies in the token provider, before the request leaves.
CrashInProvider(r, account) ==
    /\ pc[r] = "idle"
    /\ IF r = account THEN phase = "connecting" /\ Turn(r) ELSE phase = "serving"
    /\ DiesWriting(account)
    /\ Dead

Restart ==
    /\ phase = "down"
    /\ phase' = "connecting"
    /\ connected' = {}
    /\ memory' = NothingLoaded
    /\ pc' = [r \in Requests |-> IF r \in Accounts THEN "idle" ELSE pc[r]]
    /\ verdict' = [r \in Requests |-> IF r \in Accounts THEN "none" ELSE verdict[r]]
    /\ UNCHANGED <<cacheFile, tenant, unwritten, target, credential, wire, effect>>

Next ==
    \/ \E a \in Accounts : Probe(a)
    \/ \E c \in Calls, a \in Accounts, op \in Operations : Operation(c, a, op)
    \/ \E c \in Calls : ServerActs(c)
    \/ \E r \in Requests :
        \/ \E status \in Statuses, sound \in BOOLEAN : Answered(r, status, sound)
        \/ Unreachable(r)
        \/ \E a \in MsalAccounts : (r \in Calls \/ r = a) /\ CrashInProvider(r, a)
    \/ Crash
    \/ Restart
    \/ \E a \in MsalAccounts : OwnerStep(a) /\ UNCHANGED <<phase, connected, requesting>>

Spec == Init /\ [][Next]_vars

-----------------------------------------------------------------------------
(***************************************************************************)
(* Properties.                                                             *)
(***************************************************************************)
TypeOK ==
    /\ TokensTypeOK
    /\ phase \in {"connecting", "serving", "down"}
    /\ connected \subseteq Accounts
    /\ pc \in [Requests -> {"idle", "sent", "done", "lost"}]
    /\ target \in [Requests -> [account : Accounts \cup {"none"},
                                op : Operations \cup {"connect", "none"}]]
    /\ credential \in [Requests -> [account : Accounts \cup {"none"}, version : 0 .. MaxVersion]]
    /\ wire \subseteq Calls
    /\ effect \in [Calls -> {"none", "part", "whole"}]
    /\ verdict \in [Requests -> {"none", "ok", "AuthError", "BackendUnavailable",
                                 "ProtocolError", "raised"}]

\* An operation leaves only when every account has answered a probe of this very
\* process with success: neither a crash nor a refused probe leaves an account
\* connected.
ProbedFirst ==
    \A c \in Calls : pc[c] = "sent" => \A a \in Accounts : verdict[a] = "ok"

\* A refresh is on disk before the token it gave is used: but for the owner's
\* deletion, a loss of the file's contents and a write that the disk refused, the
\* cache never falls behind a token that a request has carried, so that a restart
\* needs no new sign-in.
UsedIsKept ==
    \A r \in Requests :
        LET a == credential[r].account IN
        a \in MsalAccounts =>
            \/ cacheFile[a] \in {Absent, Cut, 0}
            \/ cacheFile[a] >= credential[r].version
            \/ <<a, credential[r].version>> \in unwritten

\* The adapters implement the backend: a result only for what the server did, a
\* refusal only for what it never does, the calls of processes that died and of
\* requests that time out included.
TheBackend == INSTANCE Backend WITH
    asked <- {c \in Calls : credential[c] # NoCredential},
    acted <- {c \in Calls : effect[c] # "none"},
    verdict <- [c \in Calls |->
                   CASE verdict[c] \in {"AuthError", "ProtocolError"} -> "refused"
                     [] verdict[c] \in {"BackendUnavailable", "raised"} -> "unavailable"
                     [] OTHER -> verdict[c]]

BackendSpec == TheBackend!Spec
=============================================================================

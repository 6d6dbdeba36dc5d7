# Data access broker: TLA+ models and proofs

The data access broker is an MCP server that holds the real credentials of an
owner's file stores (WebDAV, OneDrive) and lets an agent operate on them only
through declared tools, human-approved and expiring grants, and an audit log
that is written before anything operates. This directory models its control
logic in TLA+, model-checks it with TLC on small instances, and proves with TLAPS,
for every instance, every safety property that it checks.

File and line references are to the repository's `data_broker/`.

## 1. The system

### Parts, state and operations

| Part | Code | State it keeps | Operations |
|---|---|---|---|
| Policy wall | `policy.py` | none | tier table, `normalize_store_node`, prefix and operation checks |
| Gate and agent surface | `tools.py` | none of its own; handlers between two awaits | `execute`, `_request_pending`, `list/read/move/trash/mkdir`, `request_access`, `revoke_access`, `check_access`, `list_accounts` |
| Transfer surface | `tools.py` | none | `read`, `write`, `check_access`, each with its own admission before the gate |
| Grant store, baselines, audit log | `access_broker_core`, not in the repository | requests by number, baseline states, the hash-chained log | `submit`, `active_for`, `revoke`, `sweep`, `baseline_for`, `record` |
| Client core | `client.py`, run by `cli.py` as processes and by `client_mcp.py` as threads | the staging directory | `fetch`, `push`, exit codes |
| Surfaces | `server.py` | lifespan messages, waiting futures, indices; each surface's token | bearer check, path dispatch, lifespan fan-out |
| Boot and shutdown | `run.py` | background tasks | `_boot`, `_serve`, `_sweep_loop`, `_shutdown` |
| Configuration | `config.py` | none | validation of YAML and environment |
| Matrix gateway | `gateways/matrix.py` | the sync token, `_running`, the sync task | `start`, `stop`, the sync loop, callbacks, sends |
| Renderer | `gateways/markdown_render.py` | none | Markdown to HTML |
| Backends | `backends/*.py` | the connected accounts, one HTTP client per family | `connect`, `close`, one call per operation, the translation of every answer |
| Token providers | `token_providers.py` | the MSAL cache of each account, in memory and on disk | `get_token`, persistence |

### How they interact

A tool call arrives at one of two surfaces, each behind its own bearer token.
Its handler runs on the process's one asyncio loop: it asks the wall, the store
and the baselines, writes the audit record, starts the backend call from the
record's `then` callback and awaits it, or submits a request, notifies the
gateway and answers `pending`. A backend call sends one request with its account's
password or with a token the provider may first have to refresh. The owner's replies and reactions come in through
the gateway's sync loop and change the store; a sweep task expires grants. The
client core talks to the transfer surface over HTTP and keeps verified copies
in a staging directory other processes share. uvicorn starts and stops both
surfaces through one lifespan that `PathDispatch` replays to each.

### What is hard

* **Stale reads.** The gate's decision, the record and the backend call are
  separate; the transfer surface asks the store twice, with work in between.
  The wall clock moves at any time, so a grant can expire between any two reads.
* **Interleaving.** Handlers interleave at every await: other calls, the owner,
  the sweep and the gateway run there.
* **Crashes.** Store and log survive the process; handlers, tokens and tasks do
  not, and a backend request that was sent may still take effect.
* **Shared files.** Runs of the client share temporary names in one directory
  and can die between open, write and rename.
* **Fan-out.** Two apps share one list of lifespan messages and one channel for
  answers; any app may fail while another goes on.
* **Replay.** The sync token lives only in memory: a failed sync must lose no
  decision, a restart must replay none.
* **Encoding.** One resource has many spellings; the wall has to judge the node
  the backend will operate on.
* **The network.** A request that timed out may be carried out all the same, and later;
  a refresh changes the tenant's state before the file that holds the token, and the
  write of that file may fail.
* **Sharing.** The accounts of a family share a client and a provider, and a name has
  to lead to one account.

The hazards, each at its line and with the properties that would catch it, are
listed in `PROJECT.json`.

### What makes each part correct

* Wall: an accepted resource names a proper node; no spelling changes which
  node is judged; nothing spelled below a scope leaves it.
* Gate: nothing operates unlogged; what is logged was permitted; what the caller
  is told is true; an in-flight decision is never based on a grant withdrawn
  meanwhile.
* Client: nothing unverified is staged; exit codes are true; what a manifest
  promises is there and intact.
* Configuration: an entry is served as it was written, under its own name, or the start
  is refused; no token opens both surfaces.
* Serving: never half-wired, a startup and a shutdown that end, and a shutdown that
  reaches every task and app.
* Backends: a request follows a whole round of good probes; the error the gate gets is
  true of what the server did; the URL names the node that was judged.
* Token providers: what was used is on disk, so that a restart needs no new sign-in.
* Gateway: history is skipped; but for an answer that a callback cut short, no decision
  is overtaken or repeated, and each one arrives.

## 2. Modules

| Module | Models | State and code |
|---|---|---|
| `Wall` | `policy.py`, with the core's `check()` (external) | pure operators. A resource is a sequence of tokens, each with the character it finally decodes to and the number of decode rounds that takes, so that "%252e" is `.` at depth 2 |
| `Paths` | the URLs of both adapters; EXTENDS `Wall` | pure operators: from a raw resource to the URL, and to the node a server finds there after its one round of decoding |
| `MCWall` | bounded enumeration of pairs of resources | a caller spells both token by token |
| `Gate` | what the gate promises, whatever keeps it | sets of calls: `permitted`, `vouched`, `logged`, `operated`, `confirmed`, `declined` |
| `Broker` | the gate, both surfaces' tools, the store, the log and the owner; EXTENDS `Wall`, implements `Gate` (`TheGate`, `GateSpec`) | `pc`, `arg`, `seen`, `task`, `answer` per call; `loop`, `requests`, `baseline`, `audit`, `now` |
| `Client` | `client.py` | `tmp`, `entry`, `manifestTmp`, `manifest` are directory entries pointing at inodes; `fd` is the inode a run has open, so a rename and an open file are told apart |
| `Backend` | what a backend promises the gate | `asked`, `acted`, `verdict` |
| `Tokens` | `token_providers.py`'s MSAL provider | `cacheFile`, `memory`; of the tenant (external) `issued`, `revoked`; `unwritten` is the history of writes that raised. Contents are the version of the refresh token |
| `Adapters` | connecting, every operation's request and the translation of its answer in `backends/*.py`; EXTENDS `Tokens`, implements `Backend` (`TheBackend`, `BackendSpec`) | `phase`, `connected`; `pc`, `target`, `credential`, `verdict` per request; of the server (external) `wire`, `effect` |
| `Config` | `config.py`, and the backends `run.py` builds | pure operators on a raw configuration: whether it loads, which entry serves which name, and with which token provider |
| `Serving` | `_serve`, `_shutdown` and `PathDispatch`; EXTENDS `Config` | `raw`, `stage`, `connected`, the background tasks, uvicorn's queue and answers, the fan-out's lists, `reached` |
| `Gateway` | `MatrixGateway`'s sync loop, `start` and `stop` over restarts | `since`, `batch`, `next_batch`, `running`, `task`; `cut` and `interrupted` are the histories of the positions no answer held and of those whose answer a callback cut short |
| `MCBroker`, `MCClient`, `MCAdapters`, `MCServing` | instances and symmetries | |
| `BrokerProofs`, `GateProofs` | theorems about `Broker`; the second EXTENDS the first | |
| `ClientProofs`, `GatewayProofs`, `AdaptersProofs`, `ServingProofs` | theorems about the module they name | |
| `LeftFold` | lemmas about the fold of the library, for any step and start: its two equations, and induction over numbers and sequences | a CONSTANT operator is the step |
| `WallProofs` | theorems about `Wall`, `Paths` and `MCWall`; one INSTANCE of `LeftFold` per fold | |

`Gate` and `Backend` meet at the call of a backend: what `Broker` assumes of its tasks is
what `Backend` promises. A task acts at most once; `ok` is answered only for what took
effect; an error leaves open whether it did, or still will.

The names in the models are the code's where TLA+ allows it (`normalize_store_node`,
`active_for`, `_running` as `running`, `upstream_events`, `EXIT_REFUSED`). `PROJECT.json`
maps every definition to its lines.

`Broker` takes a handler to be atomic between two awaits but for the clock and the
death of the process: `loop` names the call that holds the event loop, and its code
is cut where it reads the clock or writes to disk, so `Tick` and `CrashRestart` may
come in there and nothing else may. A backend call is one task that may act
at any time once it is scheduled, also after its handler has timed out or the
process has died.

`Adapters` makes a request in one step, since an adapter runs from its check of the
connection to its first await without leaving the loop, the provider's blocking calls
included; the death of the process alone splits it (`CrashInProvider`). The server may
act on a request as long as it has not refused it, also when the sender has given up.
`Serving` starts on any raw configuration of the constant `Raws` and goes on only with
one that loads, over HTTP or over stdio. It contains one assumption that is stated as an operator, `PumpRan`: the pump
task is created before the apps' tasks and finds `startup` already queued, so it has
read it when the first app asks. Without it, `app_receive`'s future path, which does
not advance the index, would hand an app the same message twice (`server.py:149`).

`Gateway` takes an event that is posted between the start of the process and its
first successful sync for history, as the code's filter does; and the homeserver
(external) puts at most `TimelineLimit` events into an answer, the earlier ones of a
longer gap are `cut`, since the loop asks for no back-pagination. A callback that raises
makes `sync` raise: the rest of the answer is not dispatched and the token stays
(`interrupted`). What the retry brings is the homeserver's and nio's: an answer with
another token is dispatched, the earlier of its events left out beyond the limit
(`SyncNext`); one with the token nio has noted already is not (`SyncRepeats`). A decision
in such an answer may thus be lost, or handed on twice. Callbacks may raise without bound.

Definitions whose comment starts with "Mutant:" are deliberately wrong forms of the
definition after them. Replacing the right one by its mutant makes TLC report the
property that `PROJECT.json` pairs with it, which shows that the property depends on
that piece of code.

## 3. What is checked

Every passing run explores its instance completely.

| Run | Question | Bounds, and why they are enough |
|---|---|---|
| `wall` | Is an accepted node proper (`NodesWellFormed`), blind to escaping (`EncodingBlind`) and, but for the length it adds, to the Graph prefix (`GraphPrefixBlind`)? Does a scope keep what is spelled below it, on either backend (`SubtreeClosed`)? Does a URL lead back to the names as spelled (`AddressesAsSpelled`), and to the node that was judged where the resource is plainly spelled (`OperatesOnJudged`)? | scopes and requests of up to 3 tokens over names with and without a blank, separators, dots, `root:` and NUL, with depths from 0 up to `MAX_DECODE_PASSES`: "..", "//" and every mixture of escape depths fit; a length limit of 18 characters, which a prefix or an escape more can exceed; 69,700 states |
| `broker` | Can anything operate unlogged (`WriteBeforeOperate`), be logged without permission (`ExecutionJustified`, `TransferAdmitted`), cite a grant that is gone (`CitesOnlyActive`), be answered untruthfully (`EnvelopeHonest`)? Does the whole implement the abstract gate (`GateSpec`)? | 2 calls, 2 resources of which one lies below the other, a fresh store or one with a grant that expires at the next tick, 2 ticks, 2 requests: two calls and a moving clock are what every race in the code takes; 1,055,533 states |
| `broker_live` | Is every call answered (`Answered`)? | 2 calls, 1 resource, a known and an unknown account; 219,195 states |
| `client` | Is an exit code of a push false (`ExitsTruthful`), anything staged unverified (`VerifiedBeforeStaged`) or, but by a race, half written (`DamagedOnlyByRace`)? Does staging hold what a manifest or an exit code promises (`StagedComplete`), whole once the runs are over (`IntactAtRest`)? | 3 runs, all of which may be at work at once, so that a run that died leaves its files to two that race; 2 resources, which share staging by their 1 stored content; a second content for the bytes or the digest of an answer, so that one may declare the one and carry the other, or declare none; 2,709,141 states |
| `gateway` | Does a restart replay history (`HistorySkipped`), a failure lose (`NoneOvertaken`) or repeat (`RepeatedOnlyAfterRaise`) a decision, does each one reach the core (`DecisionsReachCore`)? | 4 events and answers of 2, any number of raising callbacks: an answer can be cut short, dispatched in part, repeated and passed over; 104,995 states |
| `serving` | Is an entry lost or led to another one's server or family (`EveryAccountRouted`), does a token reach both surfaces (`SurfacesSeparate`), is the broker ever half-wired (`ServesConnected`), an app stopped early (`NoEarlyStop`), a task or an app the shutdown does not reach (`ShutdownReaches`), a startup (`StartupEnds`) or a shutdown (`ShutdownEnds`) stuck? | every pair of an unset, a short and two long tokens; every way to write up to 2 sections of up to 2 entries under 2 names, which has every collision there is, and OneDrive sections with two registrations; both transports; the 2 apps the broker has; 153,656 states |
| `adapters` | Does a request leave before every probe went well (`ProbedFirst`), or use a token that is not on disk though the disk took it (`UsedIsKept`)? Do the adapters implement the backend (`BackendSpec`)? | 2 calls, an account of WebDAV and one of OneDrive; 3 token versions, so that a refresh comes after a sign-in, and another after one whose write failed; 897,435 states |

### Where code and documentation disagree

Each of these runs checks one sentence of the repository's own documentation or tests
and finds a behaviour of the code that contradicts it.

| Run | Documented | What the code does |
|---|---|---|
| `broker_free` | "A read here is grant-scoped, never free" (`tools.py:519`) | the transfer read is admitted by one query of the store and executed after another one; a grant that expires in between leaves the gate on the free lane |
| `client_race` | "temp + fsync + atomic rename into staging" (`cli.py:22`) | two runs that fetch one content share one temporary name, and the second open truncates a file the first is about to rename: the staged file is seen empty |
| `serving_failure` | "startup failures propagate immediately" (`server.py:120`) | only the first app's answer is forwarded: a failure after another app's success is dropped |
| `serving_gateway` | "an unreachable homeserver or unjoinable room stops startup" (`gateways/matrix.py:122`) | `adapter.start()` runs in a background task that nobody awaits before serving |
| `move_landing` | "Tool move: reparent a node" (`tools.py:225`), to a path whose components are percent-encoded (`backends/webdav.py:92`) | WebDAV's Destination header is quoted per component and then once more as a whole, so that a node moved to "my notes" lands as "my%20notes"; OneDrive's move names a new parent only when the destination has one, and renames in place where it is at the top of the drive |

Further disagreements that need no search of the states and have no run:

* `cli.py:31` has 2 for infrastructure and 3 for the wall. A connection that is refused
  says so in the words of the error, and `_error_exit` (`client.py:292`) takes the word
  "refused" for the wall's: it exits with 3 (`PostFails`, `error_exit` of `Client`).
* `tests/test_policy.py:135` calls "more than MAX_DECODE_PASSES decode rounds" hostile.
  The loop's `else` (`policy.py:164`) also refuses a text that the last of exactly that
  many rounds decodes completely (`Rounds` of `Wall`).
* `DEPLOYMENT.md:55` lets each OneDrive entry select its token provider. The first entry
  that asks for MSAL gives its provider, client id and authority to every OneDrive account
  (`run.py:73`, whose docstring calls the provider "per-deployment";
  `_onedrive_provider` of `Config`).
* `DEPLOYMENT.md:57` has `StaticTokenProvider` take its token from `token_env`.
  `run.py:77` builds it without arguments, so that every account's token is the constant
  "test-token"; the variable is only required to be set.
* `gateways/matrix.py:144` has `stop` cancel the sync task and close the client. The
  announcement comes first, and where it raises, which `_shutdown` suppresses, `stop`
  does neither; `ShutdownReaches` says what is left (`StopAdapter` of `Serving`).
* `token_providers.py:27` has the cache "written after every acquisition". A write that
  raises comes after `serialize()` has marked the cache as unchanged: the next call
  returns the new token and writes nothing. `UsedIsKept` excepts just that
  (`PersistRaises`, `unwritten` of `Tokens`).
* `tools.py:473` says pending submission is not the CLI's path. The window of
  `broker_free` exists for `write` too, and there the gate submits a request and
  answers `pending`.
* The repository's README counts refusals among the events written to the log; the
  refusal paths of `tools.py` return without calling `audit.record`.
* `_serve` documents a "clean shutdown" and passes `{}` for the backends
  (`run.py:262`), so no backend is closed.
* `gc_staging` (`client.py:63`) says it runs on every invocation and has no caller.
* `cli.py:22` lists a size check among the verifications of a fetch; `client.py` records
  the declared size in the manifest and compares nothing with it.
* A `TimeoutError` of `urlopen` is no `URLError` and leaves `fetch` and `push` uncaught,
  outside the exit codes of `cli.py:30` (`Uncaught` of `Client`).
* `DEPLOYMENT.md:73` has the device flow leave a cached token behind. `get_token` raises
  `InteractionRequiredError` with the code, and nothing then polls the flow.
* `ROTATION.md:33` rotates by deleting the cache file and restarting. The running
  process holds the cache in memory, and its next refresh writes the file anew, or over
  a sign-in of the owner's (`OwnerStep` and `TokenOf` of `Tokens`).
* `backends/webdav.py:20` and `backends/base.py:14` translate 429 to `BackendUnavailable`;
  WebDAV's `connect` raises `ProtocolError` on it. 207, by which a server may report
  that a part of a request failed, counts as success.
* `backends/base.py:12` says "never raw library exceptions"; a Graph body that is no
  JSON, and what the token provider raises, leave the adapter as they are.
* `backends/webdav.py:92` and `onedrive.py:128` say that the components come from the
  wall's normalizer. The tools pass the resource on as the caller spelled it, and the
  adapter quotes a percent sign as a character. `AddressesAsSpelled` holds of every
  resource, `OperatesOnJudged` therefore of those without escapes and prefix.

What else follows from the code and is worth knowing: a token cache that the death of
the process has cut off raises on every read, so that each start is refused until the
owner deletes it; a decision of the owner's may be lost, or handed to the core twice, if a
callback raises in its answer (`gateways/matrix.py:180`); a sync loop that `stop` has not
cancelled ends with `asyncio.run`'s loop, which cancels every task; and a request that
comes while its surface's app has not started yet is answered 500.

### Fairness

* `Broker`: the loop runs every handler that is ready (`WF` of `HandlerStep`), and a
  backend call ends by itself or by its HTTP client's 30 s timeout (`WF` of
  `BackendEnds`). Nothing bounds `notify_request`, so it gets no fairness and
  `Answered` excepts the calls that wait for it. A crash, the owner and the sweep are
  never obliged to come.
* `Serving`: the loop runs the pump and the apps (`LifespanStep`), uvicorn goes on when it
  has its answer (`Serve`), and the steps of the shutdown follow one another
  (`ShutdownStep`: `Drained`, `CancelBackground`, `StopAdapter`). That an app ends its
  startup and shutdown, and that `adapter.stop()` ends, is assumed of Starlette and of
  the gateway. A signal, and the end of stdio, are never obliged to come.
* `Gateway`: the loop goes on and the retry delay ends (`WF` of `LoopStep`); a homeserver
  that is asked again and again answers in the end (`SF` of the first sync and of the
  later ones). Nothing obliges the owner to post, the process to stop or restart, or a
  callback ever to return without raising; `DecisionsReachCore` excepts a gateway that is
  stopped, events no answer held, and the answers that callbacks cut short.
* `Client` and `Adapters` have safety alone, and no fairness.

## 4. What is proved

Every theorem holds for every value of the constants that satisfies the named
assumptions: any set of calls, accounts, resources, runs or contents, any store,
timeline or configuration, any length and number of failures. A bound that is a
constant (`MaxTime`, `MaxRequests`, `MaxEvents`, `MaxVersion`) may have any value.

| Module | Theorem | Property |
|---|---|---|
| `BrokerProofs` | `TypeCorrect` | `TypeOK` |
| | `WritesBeforeOperating` | `WriteBeforeOperate` |
| | `ExecutesJustified` | `ExecutionJustified` |
| | `TransfersAdmitted` | `TransferAdmitted` |
| | `CitesActive` | `CitesOnlyActive`, an action property |
| `GateProofs` | `Implements` | `GateSpec`, the refinement of `Gate` |
| | `EnvelopesHonest` | `EnvelopeHonest` |
| `ClientProofs` | `TypeCorrect` | `TypeOK` |
| | `ExitsTrue` | `ExitsTruthful` |
| | `VerifiesBeforeStaging` | `VerifiedBeforeStaged` |
| | `StagesComplete` | `StagedComplete` |
| | `OnlyRacesDamage` | `DamagedOnlyByRace` |
| | `RestsIntact` | `IntactAtRest` |
| `GatewayProofs` | `TypeCorrect` | `TypeOK` |
| | `SkipsHistory` | `HistorySkipped` |
| | `OvertakesNone` | `NoneOvertaken`, an action property |
| | `RepeatsAfterRaise` | `RepeatedOnlyAfterRaise` |
| `AdaptersProofs` | `TypeCorrect` | `TypeOK` |
| | `ProbesFirst` | `ProbedFirst` |
| | `KeepsUsed` | `UsedIsKept` |
| | `Implements` | `BackendSpec`, the refinement of `Backend` |
| `ServingProofs` | `TypeCorrect` | `TypeOK` |
| | `ServesWhole` | `ServesConnected` |
| | `RoutesEvery` | `EveryAccountRouted` |
| | `KeepsSurfacesApart` | `SurfacesSeparate` |
| | `StopsInTime` | `NoEarlyStop` |
| | `LeavesNothing` | `ShutdownReaches` |
| `WallProofs` | `TypeInvariant` | `TypeOK` |
| | `NodesAreWellFormed` | `NodesWellFormed` |
| | `EncodingIsBlind` | `EncodingBlind` |
| | `SubtreesAreClosed` | `SubtreeClosed` |
| | `PrefixIsBlind` | `GraphPrefixBlind` |
| | `AddressesAreAsSpelled` | `AddressesAsSpelled` |
| | `OperationsMeetJudged` | `OperatesOnJudged` |

TLC evaluates every assumption on every instance.

### The broker

**Assumptions.** `BrokerAssumption` and `WallAssumption`: `Idle` is no call, "none" no
account, accounts are configured names with a declared backend, a persisted store is
well formed (approved exactly when it has been active), baselines cover only `read`
and `list`, `store.revoke` withdraws only pending or active requests. Nothing is assumed
of the normalizer: the proofs hold for any `StoreNode`, so they rest on the wall only
through the node it returns.

**Types.** `TypeInv` strengthens `TypeOK` by `ArgumentsFit`: a call that is at the gate
or beyond has a resource, one that passed it a configured account. Without it
`Family[arg[c].account]` has no type.

**The gate.** `WriteBeforeOperate`, `ExecutionJustified` and `TransferAdmitted` are not
inductive: they speak of the log, and what is logged is decided earlier.
`GateInv` adds

* `StoreOK`: an approval lies in the past and only approved requests are active, so
  that what `active_for` finds was approved by the owner;
* `CallsOK`: a call that is about to be recorded carries its justification, one at the
  gate or past it its admission;
* `LogOK`: each logged execution agrees with its call's arguments and readings, which
  are final by then, and its justification still holds;
* `TasksOK`: a task belongs to a call past its record.

The key lemmas are `StoreStep` (no step changes an item or an approval once given:
`StoreKept`) and `PermissionStable` (therefore a permission, once found, stays true of
the time it was found at). `QuietStep` and `GateKept` reduce the actions to two shapes.

**The loop.** `CitesOnlyActive` speaks of the store at the moment of the record, not of
the gate's look. `LoopInv` says that a call between two awaits holds the loop and that
the grant a call is about to cite is still active; `HandlerKeeps` and
`HousekeepingKeeps` show that while one call holds the loop nothing else that touches
the store can run.

**The refinement.** `GateProofs!Implements` needs of `GateInv` that the log agrees with its
calls, and `AnswersOK`: only a call that is done has an answer. Each step of the broker
is then one of `Gate`'s, by its shape: it moves one call before its record
(`MovesQuietly`, a stutter or `Vouch`), takes the record (`Log`), ends a call that is not
logged (`Declines`), or forgets (`Forgets`: clock, owner, sweep, crash). The mapping needs
no history variable: what was decided can be read off `pc`, `seen`, `task` and the log.

**The answers.** `EnvelopeHonest` speaks of a number that was taken from the store before
an await. `EnvelopeInv` carries over it that no two calls have the same number
(`Distinct`) and, per call, what its answer will rest on (`Truth`): the request of its
number is its own, a revocation it is to report is in the store. `StoreGoesOn` says
that other calls' steps keep both.

### The client

`ClientAssumption` says no more than that `None` is neither a run nor a content, and that
what is stored is a content. A content outside of `Stored` is what the bytes of an
answer may have become, or a digest that does not fit them.
`ExitInv` ties a run's reply to what its broker did, and with the table of messages
(`TransportExits`, `EnvelopeExits`) gives `ExitsTruthful`.

The staging properties share `StagingInv`. For each digest, `Content` and `Text` say whose
inodes its four names point at, and that an inode is whole unless a run that has it
open, or died with it open, may have truncated it; `OpenFile` that an open file is one
of its run's digest; `Verified` that a run is past the comparison only with the content
the digest names; `Complete` that where a manifest is, its file is. A step is either
`Quiet` or `Stage` of one run (`QuietOrStage`), and the two halves are proved apart.
`DamagedOnlyByRace` and `IntactAtRest` follow from `Content`: an inode that is not whole
has a writer besides its owner.

### The gateway

`TokenInv` places the token after this process's start, and `BatchInv` what is left of an
answer after the token, which gives `HistorySkipped`. `BatchInv` also says that what is left
is the answer's tail up to `next_batch`, and that each decision between the token and it
is with the core, beyond the limit, or in an answer that was cut short: that is why the
token may move when nothing is left. `RetryInv` says that between two syncs the token lags
behind the answer nio noted last only by a stretch that a callback cut short, which is
what `SyncRepeats` passes over. `RepeatInv` places whatever was handed on from beyond the
token in such a stretch, or before what is left of the answer in hand; from it follows
`RepeatedOnlyAfterRaise`.

### The adapters and the token cache

Of the caches, `CacheInv` says that the memory is never newer than the file, unless the
file holds nothing or the disk has refused to write that token (`Kept`). A step that leaves the caches' order (`Grows`: versions issued stay
so, what is kept is kept on) leaves true what is said of the tokens that requests carry
(`StillKept`). `CredentialInv` is the request's part, `CallInv` ties a call to what the
server may still do, `ProbeInv` an account's connection to its own probe of this
process; it rests on there being one probe at a time, which `Turn` gives. The refinement
needs `CallInv`: a refusal ends the server's chance to act, a timeout does not.

### Configuration, boot and serving

`ServingAssumption` says that sections and entries are sequences, and families known.
The configuration's part is about operators: with unique keys a family's entries are
those of its one section (`EntriesOfSection`), with unique names a name leads to one
entry of one family (`NamesApart`), so that dicts lose none (`Routed`) and the accounts
are those written (`AccountsWritten`).

`ProcessInv` has the stages: what was refused serves nothing (`BootInv`), a surface is
reached by its own token (`ReachedInv`), what has ended does not come back (`EndInv`).
`LifespanInv` is about the fan-out, and its core is that only few lists are possible:
`Messages` enumerates what waits in uvicorn's queue and what the pump has read; `AppInv`
ties an app's state to its index and its waiting; `DispatchInv` the life of pump,
dispatch and serving to one another; `AnswersInv` the answer uvicorn heard to an app.

### The wall and the URLs

`WallAssumption` and `SpellingAssumption` say that the limits are numbers and that a
caller's tokens are characters with a depth. A resource may have any length and any
depth of escapes. The properties are about operators, so that the invariant is no more
than the type of what was spelled, `TypeOK`; the work is in the lemmas.

*Folds.* `split`, the dropping of empty names and the quoting of a path are folds. The
library defines a fold by a choice among functions, and its induction theorems take an
operator for an argument, which no prover here can instantiate. `LeftFold` therefore
states induction for a set of sequences that holds the empty one and is closed under
`Append`; it follows from a least number in every set of numbers (`Least`), and that from
the library's theorem that finite sets have no endless descent. From it come `FoldEmpty`
and `FoldAppend`, the program's own reading of a loop.

*Concatenation.* What a property says of a scope and what is spelled behind it, or of a
prefix and a resource, is a lemma per operator: `SplitCat`, `StripLeadingCat`,
`StripPrefixCat`, `NamesCat`, `DecodesCat`, `RawLengthCat`. `AcceptedFits` puts the
normalizer into one sentence: a resource is accepted just if it fits the length, its
decoding settles before the last round, and its names are proper. `SubtreeClosed`
and `GraphPrefixBlind` then compare the names of the two spellings, `EncodingBlind` their
characters once all escapes are gone (`SettledCharacters`).

*URLs.* Quoting and the server's one round of decoding cancel (`DecodeQuote`,
`PathFound`). `mkdir` of OneDrive cuts the last name off and puts it into the request's
body: that the two pieces name the same node takes a resource that does not end in a
separator (`NoTrailingSeparator`, `MkdirAsSpelled`). A plainly spelled resource splits
back into its names (`SplitPlain`), so that those of the URL are those of the node.

`SubtreeClosed` excepts one case: a scope that is the beginning of a Graph prefix
("/drives/id"), which the appended text ("/root:/...") completes, so that the whole names
another node. The gate compares nodes, never spellings, and judges such a request by
that other node. `GraphPrefixBlind` excepts a resource the prefix makes too long.

### Only model-checked

Liveness alone (`Answered`, `StartupEnds`, `ShutdownEnds`, `DecisionsReachCore`): it is out of reach of
the proof system's backends.

## 5. Not modelled

* `check_access` and `list_accounts` of either surface: they only read.
* `move`'s destination at the gate, which looks at the source alone; where it lands is
  in `Paths`.
* The log's hash chain and the store's persistence: they belong to
  `access_broker_core`. `Broker` takes an append and a submission to be durable when
  they return.
* The backends' `close`, which nothing calls.
* The parsing of listings, which is a pure conversion; that Graph's can raise is
  modelled.
* Of the configuration: unknown keys, storage paths and the syntax of environment
  references. They only refuse the start and are one flag of an entry, or part of
  `Boot`'s refusal.
* The branch of `_serve` that serves over HTTP without a transfer surface: `main` never
  takes it.
* Sending messages and reactions through the gateway: `notify` of `Broker` and
  `GatewayAnnounces` of `Serving` have their success and failure.
* The renderer, a stateless conversion; argument parsing and output of the command line;
  and the scratch servers, development helpers.

Refusals before the gate are not in the log (`tools.py:87`), `gc_staging` is never called
(`client.py:63`) and no backend is closed (`run.py:262`): a property of these would
restate one line, and section 3 lists them.

## 6. Plan

Done, in this order: `Wall`; `Broker` with its safety proofs; `Client`; `Serving`; `Gateway`;
`Gate` and the refinement; `Paths`; `Tokens`, `Adapters` and `Backend`; `Config` and
`Serving` from the configuration on; the proofs of every module's
safety properties.

Left:

1. `Broker` over `Backend` instead of its own task, so that the two refinements compose in
   one module.
2. `Client` over `Broker`'s transfer surface instead of its external broker: a fetch that
   retries while its grant expires.
3. `Gateway` inside `Serving`'s start and stop.

## 7. Running

    tlc -config MCBroker.cfg MCBroker
    tlc -config MCServing.cfg MCServing
    tlc -config MCGateway.cfg Gateway
    tlapm BrokerProofs.tla

The module and configuration of every run are in `PROJECT.json`. Each run ends within
five minutes on two cores.

------------------------------- MODULE Serving -------------------------------
(***************************************************************************)
(* The life of the broker's process (data_broker/run.py) from its          *)
(* configuration to its shutdown, the lifespan fan-out of its two surfaces *)
(* and the dispatch of requests to them (data_broker/server.py).           *)
(*                                                                         *)
(* uvicorn sends one lifespan to PathDispatch, which replays it to every   *)
(* surface's app.  uvicorn and the apps (Starlette's lifespan) are         *)
(* external.  An app takes its first lifespan message for startup and its  *)
(* second for shutdown, whatever they say.                                 *)
(***************************************************************************)
EXTENDS Config, SequencesExt

CONSTANT Raws    \* the raw configurations it may be started on

ASSUME ServingAssumption ==
    \A r \in Raws :
        /\ r.sections \in Seq(Range(r.sections))
        /\ \A i \in DOMAIN r.sections :
            /\ r.sections[i].family \in Families
            /\ r.sections[i].entries \in Seq(Range(r.sections[i].entries))

\* The surfaces' apps, each behind the path of its name.
Apps == {"mcp", "transfer"}

Paths == {<<"mcp">>, <<"transfer", "x">>, <<"mcpx">>, <<>>}

VARIABLES
    raw,        \* the configuration
    reached,    \* which bearer token has reached which app
    stage,      \* how far _serve is
    connected,  \* the accounts whose backend is connected
    gateway,    \* the task of adapter.start()
    sync,       \* the sync loop's task, which that one makes
    sweep,      \* the task of _sweep_loop
    queue,      \* lifespan messages uvicorn has sent
    answers,    \* startup answers uvicorn has got
    dispatch,   \* the call of PathDispatch for the lifespan
    pump,       \* its pump task
    upstream_events,  \* the messages the pump has read
    waiting,    \* the apps that wait for the next one
    index,      \* how many messages each app has taken from upstream_events
    app         \* where each app's lifespan is

process == <<raw, reached, stage, connected, gateway, sync, sweep>>
uvicorn == <<queue, answers>>
lifespan == <<dispatch, pump, upstream_events, waiting, index, app>>
vars == <<process, uvicorn, lifespan>>

Stages == {"boot", "connecting", "starting", "serving", "draining", "closing", "cancelled",
           "stopped", "refused"}

Accounts == DOMAIN accounts_map(raw)
HasGateway == raw.gateway

Init ==
    /\ raw \in Raws
    /\ reached = {}
    /\ stage = "boot"
    /\ connected = {}
    /\ gateway = "none"
    /\ sync = "none"
    /\ sweep = "none"
    /\ queue = <<>>
    /\ answers = <<>>
    /\ dispatch = "none"
    /\ pump = "none"
    /\ upstream_events = <<>>
    /\ waiting = {}
    /\ index = [a \in Apps |-> 0]
    /\ app = [a \in Apps |-> "none"]

-----------------------------------------------------------------------------
(***************************************************************************)
(* Boot: everything is validated and built, then every account connected.  *)
(***************************************************************************)

\* The configuration loads and _boot builds everything from it, or any failure
\* refuses to start.
Boot ==
    /\ stage = "boot"
    /\ stage' \in {"refused"} \cup (IF load_config(raw) THEN {"connecting"} ELSE {})
    /\ UNCHANGED <<raw, reached, connected, gateway, sync, sweep, uvicorn, lifespan>>

\* backend.connect of one account; an error leaves _serve before it serves.
Connect(a) ==
    /\ stage = "connecting"
    /\ a \in Accounts \ connected
    /\ \/ connected' = connected \cup {a} /\ UNCHANGED stage
       \/ stage' = "refused" /\ UNCHANGED connected
    /\ UNCHANGED <<raw, reached, gateway, sync, sweep, uvicorn, lifespan>>

\* The background tasks are made.
Background ==
    /\ gateway' = IF HasGateway THEN "joining" ELSE "none"
    /\ sweep' = IF HasGateway THEN "running" ELSE "none"
    /\ UNCHANGED <<raw, reached, connected, sync, answers, upstream_events, waiting, index>>

\* Mutant: nothing connects the accounts before serving.
StartUnconnected ==
    /\ stage = "connecting"
    /\ raw.transport = "http"
    /\ stage' = "starting"
    /\ Background
    /\ queue' = <<"startup">>
    /\ dispatch' = "running"
    /\ pump' = "running"
    /\ app' = [a \in Apps |-> "new"]

\* Over HTTP, uvicorn sends startup to the dispatch of the two surfaces.
Start ==
    /\ stage = "connecting"
    /\ connected = Accounts
    /\ raw.transport = "http"
    /\ stage' = "starting"
    /\ Background
    /\ queue' = <<"startup">>
    /\ dispatch' = "running"
    /\ pump' = "running"
    /\ app' = [a \in Apps |-> "new"]

\* Over stdio the agent surface is served at once, and there is no other.
StartStdio ==
    /\ stage = "connecting"
    /\ connected = Accounts
    /\ raw.transport = "stdio"
    /\ stage' = "serving"
    /\ Background
    /\ UNCHANGED <<queue, dispatch, pump, app>>

\* adapter.start() joins the room and makes the sync loop's task, or raises.
GatewayJoins ==
    /\ gateway = "joining"
    /\ \/ gateway' = "announcing" /\ sync' = "running"
       \/ gateway' = "failed" /\ UNCHANGED sync
    /\ UNCHANGED <<raw, reached, stage, connected, sweep, uvicorn, lifespan>>

\* The core announces the start in the room (external, it may raise).
GatewayAnnounces ==
    /\ gateway = "announcing"
    /\ gateway' \in {"up", "unannounced"}
    /\ UNCHANGED <<raw, reached, stage, connected, sync, sweep, uvicorn, lifespan>>

-----------------------------------------------------------------------------
(***************************************************************************)
(* The lifespan fan-out.                                                   *)
(***************************************************************************)

\* What the next message means to an app.
Heard(state) == IF state = "new" THEN "starting" ELSE "stopping"

\* Mutant: only one of the waiting apps is woken.
PumpWakesOne ==
    /\ pump = "running"
    /\ queue # <<>>
    /\ upstream_events' = Append(upstream_events, Head(queue))
    /\ queue' = Tail(queue)
    /\ pump' = IF Head(queue) = "shutdown" THEN "done" ELSE "running"
    /\ LET woken == IF waiting = {} THEN {} ELSE {CHOOSE a \in waiting : TRUE} IN
       app' = [a \in Apps |-> IF a \in woken THEN Heard(app[a]) ELSE app[a]]
    /\ UNCHANGED <<process, answers, dispatch, index, waiting>>

\* The pump reads a message and hands it to every app that waits.
Pump ==
    /\ pump = "running"
    /\ queue # <<>>
    /\ upstream_events' = Append(upstream_events, Head(queue))
    /\ queue' = Tail(queue)
    /\ pump' = IF Head(queue) = "shutdown" THEN "done" ELSE "running"
    /\ app' = [a \in Apps |-> IF a \in waiting THEN Heard(app[a]) ELSE app[a]]
    /\ waiting' = {}
    /\ UNCHANGED <<process, answers, dispatch, index>>

\* The pump's task is made before the apps' and finds startup in uvicorn's
\* queue, so it has read that when the first app runs.
PumpRan == upstream_events # <<>>

\* Mutant: index is not advanced.
AppReceivesAgain(a) ==
    /\ PumpRan
    /\ app[a] \in {"new", "started"}
    /\ a \notin waiting
    /\ IF index[a] < Len(upstream_events)
       THEN /\ app' = [app EXCEPT ![a] = Heard(@)]
            /\ UNCHANGED waiting
       ELSE /\ waiting' = waiting \cup {a}
            /\ UNCHANGED app
    /\ UNCHANGED <<process, uvicorn, dispatch, pump, upstream_events, index>>

\* Mutant: an app waits for the pump's next message, whatever it has read so far.
AppReceivesNext(a) ==
    /\ PumpRan
    /\ app[a] \in {"new", "started"}
    /\ a \notin waiting
    /\ waiting' = waiting \cup {a}
    /\ UNCHANGED <<process, uvicorn, dispatch, pump, upstream_events, index, app>>

\* app_receive: the next of the messages read so far, or wait for one.
AppReceives(a) ==
    /\ PumpRan
    /\ app[a] \in {"new", "started"}
    /\ a \notin waiting
    /\ IF index[a] < Len(upstream_events)
       THEN /\ index' = [index EXCEPT ![a] = @ + 1]
            /\ app' = [app EXCEPT ![a] = Heard(@)]
            /\ UNCHANGED waiting
       ELSE /\ waiting' = waiting \cup {a}
            /\ UNCHANGED <<index, app>>
    /\ UNCHANGED <<process, uvicorn, dispatch, pump, upstream_events>>

\* Mutant: every app's answer goes to uvicorn.
SendAll(answer) == answers' = Append(answers, answer)

\* app_send: the first startup answer of any app goes to uvicorn, no other.
Send(answer) == answers' = IF answers = <<>> THEN <<answer>> ELSE answers

AppStarts(a) ==
    /\ app[a] = "starting"
    /\ app' = [app EXCEPT ![a] = "started"]
    /\ Send("complete")
    /\ UNCHANGED <<process, queue, dispatch, pump, upstream_events, waiting, index>>

\* An app's exception ends gather, and with it the dispatch and the pump; the
\* other apps' tasks are left as they are.
DispatchRaises ==
    /\ dispatch' = "raised"
    /\ pump' = IF pump = "running" THEN "cancelled" ELSE pump

AppFailsToStart(a) ==
    /\ app[a] = "starting"
    /\ app' = [app EXCEPT ![a] = "startup failed"]
    /\ Send("failed")
    /\ DispatchRaises
    /\ UNCHANGED <<process, queue, upstream_events, waiting, index>>

AppStops(a) ==
    /\ app[a] = "stopping"
    /\ app' = [app EXCEPT ![a] = "exited"]
    /\ dispatch' = IF dispatch = "running" /\ \A b \in Apps \ {a} : app[b] = "exited"
                   THEN "returned" ELSE dispatch
    /\ UNCHANGED <<process, uvicorn, pump, upstream_events, waiting, index>>

AppFailsToStop(a) ==
    /\ app[a] = "stopping"
    /\ app' = [app EXCEPT ![a] = "shutdown failed"]
    /\ DispatchRaises
    /\ UNCHANGED <<process, uvicorn, upstream_events, waiting, index>>

-----------------------------------------------------------------------------
(***************************************************************************)
(* uvicorn (external) and the shutdown.                                    *)
(***************************************************************************)

\* uvicorn serves on the first answer, or exits on a failed startup.
Serve ==
    /\ stage = "starting"
    /\ answers # <<>>
    /\ stage' = IF answers[1] = "complete" THEN "serving" ELSE "closing"
    /\ UNCHANGED <<raw, reached, connected, gateway, sync, sweep, uvicorn, lifespan>>

\* PathDispatch: the app whose prefix is the path, or the path up to a slash.
Routes(path) == {a \in Apps : path # <<>> /\ Head(path) = a}

SurfaceToken(a) == IF a = "mcp" THEN raw.agent ELSE raw.transfer

\* BearerMiddleware lets a request through that bears its surface's token.
check_auth(bearer, a) == TokenLength[bearer] > 0 /\ bearer = SurfaceToken(a)

\* A request over HTTP.  Anything else is answered 404 or 401, and 500 by an app
\* that has not started.
Request(path, bearer) ==
    /\ stage = "serving"
    /\ dispatch # "none"
    /\ \E a \in Routes(path) :
        /\ check_auth(bearer, a)
        /\ app[a] = "started"
        /\ reached' = reached \cup {[app |-> a, bearer |-> bearer]}
    /\ UNCHANGED <<raw, stage, connected, gateway, sync, sweep, uvicorn, lifespan>>

\* The client of stdio closes it.
StopStdio ==
    /\ stage = "serving"
    /\ dispatch = "none"
    /\ stage' = "closing"
    /\ UNCHANGED <<raw, reached, connected, gateway, sync, sweep, uvicorn, lifespan>>

\* A signal: uvicorn sends shutdown, unless the lifespan has died.
Stop ==
    /\ stage = "serving"
    /\ dispatch # "none"
    /\ stage' = "draining"
    /\ queue' = IF dispatch = "running" THEN Append(queue, "shutdown") ELSE queue
    /\ UNCHANGED <<raw, reached, connected, gateway, sync, sweep, answers, lifespan>>

\* uvicorn returns once the dispatch has ended.
Drained ==
    /\ stage = "draining"
    /\ dispatch # "running"
    /\ stage' = "closing"
    /\ UNCHANGED <<raw, reached, connected, gateway, sync, sweep, uvicorn, lifespan>>

\* A task of the background is cancelled where it awaits, or is over.
Cancelled(task) == IF task \in {"joining", "announcing", "running"} THEN "cancelled" ELSE task

\* Mutant: the first background task alone is cancelled.
CancelFirst ==
    /\ stage = "closing"
    /\ stage' = "cancelled"
    /\ gateway' = Cancelled(gateway)
    /\ UNCHANGED <<raw, reached, connected, sync, sweep, uvicorn, lifespan>>

\* _shutdown cancels the background tasks and awaits them.
CancelBackground ==
    /\ stage = "closing"
    /\ stage' = "cancelled"
    /\ gateway' = Cancelled(gateway)
    /\ sweep' = Cancelled(sweep)
    /\ UNCHANGED <<raw, reached, connected, sync, uvicorn, lifespan>>

\* adapter.stop() tells the sync loop to leave and, unless its announcement
\* raises first, cancels it; _shutdown passes exceptions over and is given no
\* backends to close.
StopAdapter ==
    /\ stage = "cancelled"
    /\ stage' = "stopped"
    /\ IF sync = "running" THEN sync' \in {"leaving", "cancelled"} ELSE UNCHANGED sync
    /\ UNCHANGED <<raw, reached, connected, gateway, sweep, uvicorn, lifespan>>

Ended ==
    /\ stage \in {"stopped", "refused"}
    /\ UNCHANGED vars

-----------------------------------------------------------------------------
LifespanStep ==
    \/ Pump
    \/ \E a \in Apps : AppReceives(a)
    \/ \E a \in Apps : AppStarts(a) \/ AppFailsToStart(a)
    \/ \E a \in Apps : AppStops(a) \/ AppFailsToStop(a)

ShutdownStep == Drained \/ CancelBackground \/ StopAdapter

Next ==
    \/ Boot
    \/ \E a \in Accounts : Connect(a)
    \/ Start
    \/ StartStdio
    \/ GatewayJoins
    \/ GatewayAnnounces
    \/ LifespanStep
    \/ Serve
    \/ \E path \in Paths, bearer \in DOMAIN TokenLength : Request(path, bearer)
    \/ Stop
    \/ StopStdio
    \/ ShutdownStep
    \/ Ended

Spec == Init /\ [][Next]_vars

\* The loop runs what is ready; apps end their startup and their shutdown.
Fairness == WF_vars(LifespanStep) /\ WF_vars(Serve) /\ WF_vars(ShutdownStep)

FairSpec == Spec /\ Fairness

-----------------------------------------------------------------------------
(***************************************************************************)
(* Properties.                                                             *)
(***************************************************************************)
TypeOK ==
    /\ raw \in Raws
    /\ reached \subseteq [app : Apps, bearer : DOMAIN TokenLength]
    /\ stage \in Stages
    /\ connected \subseteq Accounts
    /\ gateway \in {"none", "joining", "announcing", "up", "unannounced", "failed", "cancelled"}
    /\ sync \in {"none", "running", "leaving", "cancelled"}
    /\ sweep \in {"none", "running", "cancelled"}
    /\ queue \in Seq({"startup", "shutdown"})
    /\ answers \in {<<>>, <<"complete">>, <<"failed">>}
    /\ dispatch \in {"none", "running", "returned", "raised"}
    /\ pump \in {"none", "running", "done", "cancelled"}
    /\ upstream_events \in Seq({"startup", "shutdown"})
    /\ waiting \subseteq Apps
    /\ index \in [Apps -> 0 .. 2]
    /\ app \in [Apps -> {"none", "new", "starting", "started", "stopping", "exited",
                         "startup failed", "shutdown failed"}]

Written == UNION {Range(raw.sections[i].entries) : i \in DOMAIN raw.sections}

\* The broker never serves half-wired: over either transport, no request is
\* taken before every account that the configuration writes is connected.
ServesConnected ==
    stage \notin {"boot", "connecting", "refused"} => connected = {e.name : e \in Written}

\* Each entry the configuration writes, in whatever section, is served by its own
\* family's backend under what it says of its account: the text loses none to a
\* later entry or key, and a name leads to one alone.  And no entry that asks for
\* msal, wherever it stands, is served with the static token.
EveryAccountRouted ==
    stage \notin {"boot", "refused"} =>
        \A i \in DOMAIN raw.sections : \A j \in DOMAIN raw.sections[i].entries :
            LET e == raw.sections[i].entries[j]
                route == Route(raw, e.name)
            IN
            /\ route.family = raw.sections[i].family
            /\ route.entry = e
            /\ route.family = "onedrive" /\ e.provider = "msal" => route.provider.kind = "msal"

\* The two surfaces stay apart: no bearer token reaches both, whatever the
\* environment holds and whatever the paths.
SurfacesSeparate ==
    \A x, y \in reached : x.bearer = y.bearer => x.app = y.app

\* No app shuts down before uvicorn has said so: the replay hands each app the
\* startup message once, though all share one list of messages.
NoEarlyStop ==
    \A a \in Apps : app[a] \in {"stopping", "exited", "shutdown failed"} =>
        Contains(upstream_events, "shutdown")

\* What the shutdown reaches: of the background the gateway's start, which may
\* still have been under way, and the sweep are over, the pump is, and the sync
\* loop is cancelled or, if stop()'s announcement raised, told to leave when its
\* sync in flight ends.  An app is left in its lifespan only where an app failed.
ShutdownReaches ==
    stage = "stopped" =>
        /\ gateway \notin {"joining", "announcing"}
        /\ "running" \notin {sync, sweep, pump}
        /\ \/ \A a \in Apps : app[a] \in {"none", "exited"}
           \/ \E a \in Apps : app[a] \in {"startup failed", "shutdown failed"}

\* A startup ends: no app waits for a startup message the pump has read before it
\* asked, and uvicorn hears of one app at least.
StartupEnds == stage = "starting" ~> stage # "starting"

\* A shutdown ends, also when an app failed in its startup or fails in its
\* shutdown: no app is left waiting for a message and uvicorn for the dispatch.
ShutdownEnds == stage \in {"draining", "closing"} ~> stage = "stopped"

\* As PathDispatch documents it: a startup failure of any app reaches uvicorn.
StartupFailurePropagates ==
    (\E a \in Apps : app[a] = "startup failed") => answers = <<"failed">>

\* As MatrixGateway.start documents it: a gateway that cannot start stops the
\* startup.
GatewayFailsClosed == gateway = "failed" => stage # "serving"

=============================================================================

---------------------------- MODULE ServingProofs ----------------------------
(***************************************************************************)
(* Configuration, boot, serving and shutdown for every set of              *)
(* configurations: any number of sections, accounts and tokens.            *)
(***************************************************************************)
EXTENDS Serving, SequenceTheorems, TLAPS

-----------------------------------------------------------------------------
(***************************************************************************)
(* The accounts of a configuration that loads.                             *)
(***************************************************************************)

\* The last of one.
LEMMA MaxOfOne == ASSUME NEW n \in Int PROVE Max({n}) = n
  BY DEF Max

\* A family's entries are those of its one section.
LEMMA EntriesOfSection ==
  ASSUME NEW r \in Raws, construct_mapping(r), NEW i \in DOMAIN r.sections
  PROVE  /\ r.sections[i].family \in Families
         /\ Entries(r, r.sections[i].family) = r.sections[i].entries
<1>1. DOMAIN r.sections = 1 .. Len(r.sections) /\ r.sections[i].family \in Families
  BY ServingAssumption
<1>2. {j \in DOMAIN r.sections : r.sections[j].family = r.sections[i].family} = {i}
  BY DEF construct_mapping
<1> QED
  BY <1>1, <1>2, MaxOfOne DEF Entries

LEMMA EntriesSeq ==
  ASSUME NEW r \in Raws, construct_mapping(r), NEW family \in Families
  PROVE  /\ DOMAIN Entries(r, family) = 1 .. Len(Entries(r, family))
         /\ Len(Entries(r, family)) \in Nat
         /\ Entries(r, family) \in Seq(Range(Entries(r, family)))
         /\ \A j \in DOMAIN Entries(r, family) :
               \E i \in DOMAIN r.sections :
                  /\ r.sections[i].family = family
                  /\ j \in DOMAIN r.sections[i].entries
                  /\ Entries(r, family)[j] = r.sections[i].entries[j]
<1>1. CASE \E i \in DOMAIN r.sections : r.sections[i].family = family
  <2>1. PICK i \in DOMAIN r.sections : r.sections[i].family = family
    BY <1>1
  <2>2. Entries(r, family) = r.sections[i].entries
    BY <2>1, EntriesOfSection
  <2>3. r.sections[i].entries \in Seq(Range(r.sections[i].entries))
    BY ServingAssumption
  <2> QED
    BY <2>1, <2>2, <2>3
<1>2. CASE ~\E i \in DOMAIN r.sections : r.sections[i].family = family
  <2>1. Entries(r, family) = <<>>
    BY <1>2 DEF Entries
  <2> QED
    BY <2>1
<1> QED
  BY <1>1, <1>2

\* A name leads to one entry of one family.
LEMMA NamesApart ==
  ASSUME NEW r \in Raws, load_config(r)
  PROVE  /\ \A family \in Families : \A i, j \in DOMAIN Entries(r, family) :
               Entries(r, family)[i].name = Entries(r, family)[j].name => i = j
         /\ Named(r, "webdav") \cap Named(r, "onedrive") = {}
<1>1. construct_mapping(r) /\ NamesUnique(r)
  BY DEF load_config, parse_accounts
<1> DEFINE w == Entries(r, "webdav")
           o == Entries(r, "onedrive")
<1>2. /\ w \in Seq(Range(w)) /\ o \in Seq(Range(o))
      /\ DOMAIN w = 1 .. Len(w) /\ DOMAIN o = 1 .. Len(o) /\ Len(w) \in Nat /\ Len(o) \in Nat
  BY <1>1, EntriesSeq DEF Families
<1>3. \A i, j \in DOMAIN (w \o o) : (w \o o)[i].name = (w \o o)[j].name => i = j
  BY <1>1 DEF NamesUnique, IsInjective
<1> HIDE DEF w, o
<1>4. /\ DOMAIN (w \o o) = 1 .. Len(w) + Len(o)
      /\ \A i \in 1 .. Len(w) : (w \o o)[i] = w[i]
      /\ \A i \in 1 .. Len(o) : (w \o o)[Len(w) + i] = o[i]
  <2>1. w \in Seq(Range(w) \cup Range(o)) /\ o \in Seq(Range(w) \cup Range(o))
    BY <1>2
  <2> QED
    BY <1>2, <2>1
<1>5. \A i, j \in DOMAIN w : w[i].name = w[j].name => i = j
  BY <1>2, <1>3, <1>4
<1>6. \A i, j \in DOMAIN o : o[i].name = o[j].name => i = j
  <2> SUFFICES ASSUME NEW i \in DOMAIN o, NEW j \in DOMAIN o, o[i].name = o[j].name PROVE i = j
    OBVIOUS
  <2>1. Len(w) + i \in DOMAIN (w \o o) /\ Len(w) + j \in DOMAIN (w \o o)
    BY <1>2, <1>4
  <2>2. (w \o o)[Len(w) + i].name = (w \o o)[Len(w) + j].name
    BY <1>2, <1>4
  <2>3. Len(w) + i = Len(w) + j
    BY <1>3, <2>1, <2>2
  <2> QED
    BY <1>2, <2>3
<1>7. \A i \in DOMAIN w, j \in DOMAIN o : w[i].name # o[j].name
  <2> SUFFICES ASSUME NEW i \in DOMAIN w, NEW j \in DOMAIN o, w[i].name = o[j].name PROVE FALSE
    OBVIOUS
  <2>1. i \in DOMAIN (w \o o) /\ Len(w) + j \in DOMAIN (w \o o) /\ i # Len(w) + j
    BY <1>2, <1>4
  <2>2. (w \o o)[i].name = (w \o o)[Len(w) + j].name
    BY <1>2, <1>4
  <2> QED
    BY <1>3, <2>1, <2>2
<1> QED
  BY <1>5, <1>6, <1>7 DEF w, o, Named, Families

\* The accounts are the entries written, and each leads to its own.
LEMMA Routed ==
  ASSUME NEW r \in Raws, load_config(r), NEW i \in DOMAIN r.sections,
         NEW j \in DOMAIN r.sections[i].entries
  PROVE  LET e == r.sections[i].entries[j] IN
         /\ e.name \in DOMAIN accounts_map(r)
         /\ Route(r, e.name).family = r.sections[i].family
         /\ Route(r, e.name).entry = e
         /\ r.sections[i].family = "onedrive" /\ e.provider = "msal" =>
               Route(r, e.name).provider.kind = "msal"
<1>1. construct_mapping(r)
  BY DEF load_config
<1>2. PICK family \in Families : /\ family = r.sections[i].family
                                 /\ Entries(r, family) = r.sections[i].entries
  BY <1>1, EntriesOfSection
<1>3. PICK e : e = Entries(r, family)[j] /\ j \in DOMAIN Entries(r, family)
  BY <1>2
<1>4. e.name \in Named(r, family)
  BY <1>3 DEF Named
<1>5. accounts_map(r)[e.name] = family /\ e.name \in DOMAIN accounts_map(r)
  BY <1>4, NamesApart DEF accounts_map, Families
<1>6. {k \in DOMAIN Entries(r, family) : Entries(r, family)[k].name = e.name} = {j}
  BY <1>3, NamesApart
<1>7. j \in Int
  BY <1>1, <1>3, EntriesSeq
<1>8. BackendAccounts(r, family)[e.name] = e
  BY <1>3, <1>4, <1>6, <1>7, MaxOfOne DEF BackendAccounts
<1>9. ASSUME family = "onedrive", e.provider = "msal"
      PROVE  Provider(r, family).kind = "msal"
<2>1. {k \in DOMAIN Entries(r, family) : Entries(r, family)[k].provider = "msal"} # {}
  BY <1>3, <1>9
<2> QED
  BY <1>9, <2>1 DEF Provider, _onedrive_provider, MsalTokenProvider
<1> QED
  BY <1>2, <1>3, <1>5, <1>8, <1>9 DEF Route

LEMMA AccountsWritten ==
  ASSUME NEW r \in Raws, load_config(r)
  PROVE  DOMAIN accounts_map(r) =
           {e.name : e \in UNION {Range(r.sections[i].entries) : i \in DOMAIN r.sections}}
<1> DEFINE written == UNION {Range(r.sections[i].entries) : i \in DOMAIN r.sections}
<1>1. construct_mapping(r)
  BY DEF load_config
<1>2. ASSUME NEW e \in written PROVE e.name \in DOMAIN accounts_map(r)
  <2>1. PICK i \in DOMAIN r.sections : e \in Range(r.sections[i].entries)
    OBVIOUS
  <2>2. PICK j \in DOMAIN r.sections[i].entries : e = r.sections[i].entries[j]
    BY <2>1 DEF Range
  <2> QED
    BY <2>2, Routed
<1>3. ASSUME NEW name \in DOMAIN accounts_map(r) PROVE \E e \in written : name = e.name
  <2>1. PICK family \in Families : name \in Named(r, family)
    BY <1>3 DEF accounts_map, Families
  <2>2. PICK j \in DOMAIN Entries(r, family) : name = Entries(r, family)[j].name
    BY <2>1 DEF Named
  <2>3. PICK i \in DOMAIN r.sections : /\ j \in DOMAIN r.sections[i].entries
                                       /\ Entries(r, family)[j] = r.sections[i].entries[j]
    BY <1>1, <2>2, EntriesSeq
  <2>4. r.sections[i].entries[j] \in Range(r.sections[i].entries)
    BY <2>3 DEF Range
  <2>5. r.sections[i].entries[j] \in written
    BY <2>3, <2>4
  <2> QED
    BY <2>2, <2>3, <2>5
<1> QED
  BY <1>2, <1>3

-----------------------------------------------------------------------------
(***************************************************************************)
(* The process.                                                            *)
(***************************************************************************)
NotYet == {"boot", "connecting", "refused"}

ProcessTypes ==
    /\ raw \in Raws
    /\ reached \subseteq [app : Apps, bearer : DOMAIN TokenLength]
    /\ stage \in Stages
    /\ connected \subseteq Accounts
    /\ gateway \in {"none", "joining", "announcing", "up", "unannounced", "failed", "cancelled"}
    /\ sync \in {"none", "running", "leaving", "cancelled"}
    /\ sweep \in {"none", "running", "cancelled"}

\* A configuration that was refused serves nothing, and every account is
\* connected before the background starts.
BootInv ==
    /\ stage \notin {"boot", "refused"} => load_config(raw)
    /\ stage \notin NotYet => connected = Accounts

\* Each surface is reached with its own token.
ReachedInv == \A x \in reached : load_config(raw) /\ x.bearer = SurfaceToken(x.app)

\* What the shutdown has ended does not come back.
EndInv ==
    /\ stage \in {"cancelled", "stopped"} => /\ gateway \notin {"joining", "announcing"}
                                             /\ sweep # "running"
    /\ stage = "stopped" => sync # "running"

ProcessInv == ProcessTypes /\ BootInv /\ ReachedInv /\ EndInv

LEMMA ProcessInit == Init => ProcessInv
  BY DEF Init, ProcessInv, ProcessTypes, BootInv, ReachedInv, EndInv, Stages, NotYet

LEMMA ProcessStep ==
  ASSUME ProcessInv, [Next]_vars
  PROVE  ProcessInv'
<1>0. raw' = raw /\ Accounts' = Accounts
  BY DEF Next, LifespanStep, ShutdownStep, Boot, Connect, Start, StartStdio, Background,
         GatewayJoins, GatewayAnnounces, Pump, AppReceives, AppStarts, AppFailsToStart, AppStops,
         AppFailsToStop, Serve, Request, Stop, StopStdio, Drained, CancelBackground, StopAdapter,
         Ended, vars, process, Accounts
<1>1. CASE Boot
  BY <1>0, <1>1 DEF Boot, ProcessInv, ProcessTypes, BootInv, ReachedInv, EndInv, Stages, NotYet,
                    SurfaceToken
<1>2. ASSUME NEW a \in Accounts, Connect(a) PROVE ProcessInv'
  BY <1>0, <1>2 DEF Connect, ProcessInv, ProcessTypes, BootInv, ReachedInv, EndInv, Stages, NotYet,
                    SurfaceToken
<1>3. CASE Start \/ StartStdio
  BY <1>0, <1>3 DEF Start, StartStdio, Background, ProcessInv, ProcessTypes, BootInv, ReachedInv,
                    EndInv, Stages, NotYet, SurfaceToken
<1>4. CASE GatewayJoins \/ GatewayAnnounces
  BY <1>0, <1>4 DEF GatewayJoins, GatewayAnnounces, ProcessInv, ProcessTypes, BootInv, ReachedInv,
                    EndInv, NotYet, SurfaceToken
<1>5. ASSUME UNCHANGED process PROVE ProcessInv'
  BY <1>0, <1>5 DEF process, ProcessInv, ProcessTypes, BootInv, ReachedInv, EndInv, NotYet,
                    SurfaceToken
<1>6. CASE Serve \/ Stop \/ StopStdio \/ Drained
  BY <1>0, <1>6 DEF Serve, Stop, StopStdio, Drained, ProcessInv, ProcessTypes, BootInv, ReachedInv,
                    EndInv, Stages, NotYet, SurfaceToken
<1>7. ASSUME NEW path \in Paths, NEW bearer \in DOMAIN TokenLength, Request(path, bearer)
      PROVE  ProcessInv'
  <2>1. PICK a \in Apps : /\ reached' = reached \cup {[app |-> a, bearer |-> bearer]}
                          /\ bearer = SurfaceToken(a)
    BY <1>7 DEF Request, Routes, check_auth
  <2>2. stage = "serving" /\ UNCHANGED <<stage, connected, gateway, sync, sweep>>
    BY <1>7 DEF Request
  <2>3. ProcessTypes' /\ BootInv' /\ EndInv'
    BY <1>0, <2>1, <2>2 DEF ProcessInv, ProcessTypes, BootInv, EndInv, NotYet
  <2>4. ReachedInv'
    BY <1>0, <2>1, <2>2 DEF ProcessInv, BootInv, ReachedInv, SurfaceToken
  <2> QED
    BY <2>3, <2>4 DEF ProcessInv
<1>8. CASE CancelBackground
  BY <1>0, <1>8 DEF CancelBackground, Cancelled, ProcessInv, ProcessTypes, BootInv, ReachedInv,
                    EndInv, Stages, NotYet, SurfaceToken
<1>9. CASE StopAdapter
  BY <1>0, <1>9 DEF StopAdapter, ProcessInv, ProcessTypes, BootInv, ReachedInv, EndInv, Stages,
                    NotYet, SurfaceToken
<1>10. (LifespanStep \/ Ended \/ UNCHANGED vars) => UNCHANGED process
  BY DEF LifespanStep, Pump, AppReceives, AppStarts, AppFailsToStart, AppStops, AppFailsToStop,
         Ended, vars
<1> QED
  BY <1>1, <1>2, <1>3, <1>4, <1>5, <1>6, <1>7, <1>8, <1>9, <1>10 DEF Next, ShutdownStep

LEMMA ProcessInvariant == Spec => []ProcessInv
  BY ProcessInit, ProcessStep, PTL DEF Spec

\* Whatever the configuration, nothing is served before all its accounts are
\* connected.
THEOREM ServesWhole == Spec => []ServesConnected
<1>1. ProcessInv => ServesConnected
  BY AccountsWritten DEF ProcessInv, ProcessTypes, BootInv, ServesConnected, Written, Accounts,
                         NotYet
<1> QED
  BY <1>1, ProcessInvariant, PTL

\* No configuration that loads loses or misroutes an entry, however many
\* sections and entries its text has.
THEOREM RoutesEvery == Spec => []EveryAccountRouted
<1>1. ProcessInv => EveryAccountRouted
  BY Routed DEF ProcessInv, ProcessTypes, BootInv, EveryAccountRouted
<1> QED
  BY <1>1, ProcessInvariant, PTL

\* Whatever tokens the environment holds and requests bear, no token reaches
\* both surfaces.
THEOREM KeepsSurfacesApart == Spec => []SurfacesSeparate
<1>1. ProcessInv => SurfacesSeparate
<2> SUFFICES ASSUME ProcessInv, NEW x \in reached, NEW y \in reached, x.bearer = y.bearer
             PROVE  x.app = y.app
  BY DEF SurfacesSeparate
<2>1. x.app \in Apps /\ y.app \in Apps
  BY DEF ProcessInv, ProcessTypes
<2>2. raw.agent # raw.transfer
  BY DEF ProcessInv, ReachedInv, load_config, parse_tokens
<2> QED
  BY <2>1, <2>2 DEF ProcessInv, ReachedInv, SurfaceToken, Apps
<1> QED
  BY <1>1, ProcessInvariant, PTL

-----------------------------------------------------------------------------
(***************************************************************************)
(* The lifespan fan-out.                                                   *)
(***************************************************************************)

None == <<>>
One == <<"startup">>
Shut == <<"shutdown">>
Both == <<"startup", "shutdown">>
Complete == <<"complete">>
Failed == <<"failed">>

\* The messages uvicorn has sent: what waits for the pump, and what it has read.
Messages ==
    \/ queue = None /\ upstream_events = None
    \/ queue = One /\ upstream_events = None
    \/ queue = None /\ upstream_events = One
    \/ queue = Shut /\ upstream_events = One
    \/ queue = None /\ upstream_events = Both

\* An app takes startup from the list, and shutdown from there or by waiting.
AppInv(a) ==
    /\ (app[a] = "none") <=> (dispatch = "none")
    /\ app[a] \in {"none", "new"} => index[a] = 0
    /\ app[a] \in {"starting", "started", "startup failed"} =>
          index[a] = 1 /\ upstream_events # None
    /\ app[a] \in {"stopping", "exited", "shutdown failed"} =>
          index[a] \in {1, 2} /\ upstream_events = Both
    /\ a \in waiting => app[a] = "started" /\ upstream_events = One
    /\ dispatch = "returned" => app[a] = "exited"

LifespanTypes ==
    /\ Messages
    /\ answers = None \/ answers = Complete \/ answers = Failed
    /\ dispatch \in {"none", "running", "returned", "raised"}
    /\ pump \in {"none", "running", "done", "cancelled"}
    /\ waiting \subseteq Apps
    /\ index \in [Apps -> 0 .. 2]
    /\ app \in [Apps -> {"none", "new", "starting", "started", "stopping", "exited",
                         "startup failed", "shutdown failed"}]

\* How far the process is bounds what uvicorn has sent; the pump does not
\* outlive the dispatch, nor the dispatch the serving.
DispatchInv ==
    /\ (dispatch = "none") <=> (queue = None /\ upstream_events = None)
    /\ stage \in NotYet => dispatch = "none"
    /\ stage \in {"starting", "serving"} => upstream_events # Both /\ queue # Shut
    /\ stage = "serving" /\ dispatch # "none" => upstream_events = One
    /\ stage \in {"closing", "cancelled", "stopped"} => dispatch # "running"
    /\ dispatch \in {"none", "raised"} => pump # "running"
    /\ upstream_events = Both => pump # "running"

\* uvicorn's answer is true, and a failed app, and nothing else, has ended the
\* dispatch early.
AnswersInv ==
    /\ answers = Failed => dispatch = "raised"
    /\ dispatch = "raised" => \E a \in Apps : app[a] \in {"startup failed", "shutdown failed"}
    /\ answers = Complete =>
          \E a \in Apps : app[a] \in {"started", "stopping", "exited", "shutdown failed"}

LifespanInv == LifespanTypes /\ DispatchInv /\ AnswersInv /\ \A a \in Apps : AppInv(a)

LEMMA Lists ==
  /\ One # None /\ Both # None /\ Shut # None /\ One # Both /\ One # Shut
  /\ Complete # None /\ Failed # None /\ Complete # Failed
<1>1. Len(<<>>) = 0 /\ Len(<<"startup">>) = 1 /\ Len(<<"shutdown">>) = 1
  OBVIOUS
<1>2. Len(<<"startup", "shutdown">>) = 2 /\ Len(<<"complete">>) = 1 /\ Len(<<"failed">>) = 1
  OBVIOUS
<1>3. <<"startup">> # <<"shutdown">> /\ <<"complete">> # <<"failed">>
  OBVIOUS
<1> QED
  BY <1>1, <1>2, <1>3 DEF None, One, Shut, Both, Complete, Failed

LEMMA Lengths ==
  /\ Len(None) = 0 /\ Len(One) = 1 /\ Len(Both) = 2 /\ Len(Complete) = 1 /\ Len(Failed) = 1
<1>1. Len(<<>>) = 0 /\ Len(<<"startup">>) = 1 /\ Len(<<"startup", "shutdown">>) = 2
  OBVIOUS
<1>2. Len(<<"complete">>) = 1 /\ Len(<<"failed">>) = 1
  OBVIOUS
<1> QED
  BY <1>1, <1>2 DEF None, One, Both, Complete, Failed

LEMMA Operations ==
  /\ Append(None, "startup") = One /\ Append(None, "shutdown") = Shut
  /\ Append(One, "shutdown") = Both
  /\ Head(One) = "startup" /\ Head(Shut) = "shutdown"
  /\ Tail(One) = None /\ Tail(Shut) = None
<1>1. Append(<<>>, "startup") = <<"startup">> /\ Append(<<>>, "shutdown") = <<"shutdown">>
  OBVIOUS
<1>2. Append(<<"startup">>, "shutdown") = <<"startup", "shutdown">>
  <2> DEFINE S == {"startup", "shutdown"}
             one == <<"startup">>
             s == Append(one, "shutdown")
             t == <<"startup", "shutdown">>
  <2>1. one \in Seq({"startup", "shutdown"}) /\ Len(one) = 1 /\ one[1] = "startup"
    OBVIOUS
  <2>2. t \in Seq({"startup", "shutdown"}) /\ Len(t) = 2 /\ t[1] = "startup" /\ t[2] = "shutdown"
    OBVIOUS
  <2>a. one \in Seq(S) /\ t \in Seq(S) /\ "shutdown" \in S
    BY <2>1, <2>2
  <2> HIDE DEF one, t, S
  <2>3. s \in Seq(S) /\ Len(s) = 2 /\ s[1] = "startup" /\ s[2] = "shutdown"
    <3>1. /\ s \in Seq(S) /\ Len(s) = Len(one) + 1 /\ s[Len(one) + 1] = "shutdown"
          /\ \A i \in 1 .. Len(one) : s[i] = one[i]
      BY <2>a, AppendProperties
    <3> HIDE DEF s
    <3>2. Len(one) + 1 = 2 /\ 1 \in 1 .. Len(one)
      BY <2>1
    <3> QED
      BY <2>1, <3>1, <3>2
  <2> HIDE DEF s
  <2>4. \A i \in 1 .. Len(s) : s[i] = t[i]
    BY <2>2, <2>3
  <2>5. s = t
    BY <2>2, <2>a, <2>3, <2>4, SeqEqual
  <2> QED
    BY <2>5 DEF s, t, one
<1>3. Head(<<"startup">>) = "startup" /\ Head(<<"shutdown">>) = "shutdown"
  OBVIOUS
<1>4. Tail(<<"startup">>) = <<>> /\ Tail(<<"shutdown">>) = <<>>
  OBVIOUS
<1> QED
  BY <1>1, <1>2, <1>3, <1>4 DEF None, One, Shut, Both

LEMMA BothTells == Contains(Both, "shutdown")
<1>1. Both[2] = "shutdown" /\ Len(Both) = 2
  BY DEF Both
<1>2. 2 \in 1 .. 2
  OBVIOUS
<1> QED
  BY <1>1, <1>2 DEF Contains

LEMMA LifespanInit == Init => LifespanInv
  BY Lists DEF Init, LifespanInv, LifespanTypes, Messages, DispatchInv, AnswersInv, AppInv, None

\* A step that leaves the lifespan's messages and apps alone.
LEMMA StageStep ==
  ASSUME LifespanInv, UNCHANGED <<uvicorn, lifespan>>,
         (stage' \in NotYet) => (stage \in NotYet),
         \/ stage' = stage
         \/ stage' \in NotYet
         \/ stage' \in {"cancelled", "stopped"} /\ stage \in {"closing", "cancelled"}
         \/ stage' = "closing" /\ dispatch # "running"
  PROVE  LifespanInv'
<1>1. UNCHANGED <<queue, answers, dispatch, pump, upstream_events, waiting, index, app>>
  BY DEF uvicorn, lifespan
<1>2. LifespanTypes' /\ AnswersInv' /\ \A a \in Apps : AppInv(a)'
  BY <1>1 DEF LifespanInv, LifespanTypes, Messages, AnswersInv, AppInv
<1>3. DispatchInv'
  BY <1>1 DEF LifespanInv, DispatchInv, NotYet
<1> QED
  BY <1>2, <1>3 DEF LifespanInv

LEMMA StartLifespan ==
  ASSUME LifespanInv, Start \/ StartStdio
  PROVE  LifespanInv'
<1>0. stage = "connecting" /\ dispatch = "none" /\ queue = None /\ upstream_events = None
  BY Lists DEF Start, StartStdio, LifespanInv, DispatchInv, NotYet
<1>1. waiting = {} /\ \A a \in Apps : app[a] = "none"
  BY <1>0, Lists DEF LifespanInv, AppInv, LifespanTypes
<1>1a. answers = None
  BY <1>0, <1>1, Lists DEF LifespanInv, AnswersInv, LifespanTypes
<1>2. UNCHANGED <<answers, upstream_events, waiting, index>>
  BY DEF Start, StartStdio, Background
<1>3. CASE Start
  <2>1. /\ stage' = "starting" /\ queue' = One /\ dispatch' = "running"
        /\ pump' = "running" /\ app' = [a \in Apps |-> "new"]
    BY <1>3 DEF Start, One
  <2>2a. LifespanTypes'
    BY <1>0, <1>2, <2>1, Lists DEF LifespanInv, LifespanTypes, Messages
  <2>2. LifespanTypes' /\ DispatchInv'
    BY <1>0, <1>2, <2>1, <2>2a, Lists DEF DispatchInv, NotYet
  <2>3. AnswersInv' /\ \A a \in Apps : AppInv(a)'
    BY <1>0, <1>1, <1>1a, <1>2, <2>1, Lists DEF LifespanInv, AnswersInv, AppInv
  <2> QED
    BY <2>2, <2>3 DEF LifespanInv
<1>4. CASE StartStdio
  <2>1. stage' = "serving" /\ UNCHANGED <<queue, dispatch, pump, app>>
    BY <1>4 DEF StartStdio
  <2>2. LifespanTypes' /\ AnswersInv' /\ \A a \in Apps : AppInv(a)'
    BY <1>2, <2>1, Lists DEF LifespanInv, LifespanTypes, Messages, AnswersInv, AppInv
  <2>3. DispatchInv'
    BY <1>0, <1>2, <2>1, Lists DEF LifespanInv, DispatchInv, NotYet
  <2> QED
    BY <2>2, <2>3 DEF LifespanInv
<1> QED
  BY <1>3, <1>4

LEMMA PumpLifespan ==
  ASSUME LifespanInv, Pump
  PROVE  LifespanInv'
<1>1. /\ queue # None /\ pump = "running"
      /\ upstream_events' = Append(upstream_events, Head(queue)) /\ queue' = Tail(queue)
      /\ pump' = IF Head(queue) = "shutdown" THEN "done" ELSE "running"
      /\ app' = [a \in Apps |-> IF a \in waiting THEN Heard(app[a]) ELSE app[a]]
      /\ waiting' = {} /\ UNCHANGED <<stage, answers, dispatch, index>>
  BY DEF Pump, process, None
<1>2. CASE queue = One /\ upstream_events = None
  <2>1. waiting = {}
    BY <1>2, Lists DEF LifespanInv, LifespanTypes, AppInv
  <2>2. queue' = None /\ upstream_events' = One /\ pump' = "running"
    BY <1>1, <1>2, Operations
  <2>3. \A a \in Apps : app'[a] = app[a]
    BY <1>1, <2>1
  <2>4. app' = app
    BY <1>1, <2>1, Lists DEF LifespanInv, LifespanTypes
  <2>5. LifespanTypes' /\ AnswersInv'
    BY <1>1, <2>2, <2>4, Lists DEF LifespanInv, LifespanTypes, Messages, AnswersInv
  <2>6. DispatchInv'
    BY <1>1, <1>2, <2>2, Lists DEF LifespanInv, DispatchInv
  <2>7. ASSUME NEW a \in Apps PROVE AppInv(a)'
    BY <1>1, <1>2, <2>1, <2>2, <2>4, Lists DEF LifespanInv, AppInv
  <2> QED
    BY <2>5, <2>6, <2>7 DEF LifespanInv
<1>3. CASE queue = Shut /\ upstream_events = One
  <2>2. queue' = None /\ upstream_events' = Both /\ pump' = "done"
    BY <1>1, <1>3, Operations
  <2>3. ASSUME NEW a \in Apps
        PROVE  /\ a \in waiting => app[a] = "started" /\ app'[a] = "stopping"
               /\ a \notin waiting => app'[a] = app[a]
    BY <1>1, Lists DEF LifespanInv, AppInv, Heard
  <2>4. upstream_events' = Both
    BY <2>2
  <2>5. LifespanTypes'
    <3>1. app' \in [Apps -> {"none", "new", "starting", "started", "stopping", "exited",
                             "startup failed", "shutdown failed"}]
      BY <1>1, <2>3, Lists DEF LifespanInv, LifespanTypes, Heard
    <3> QED
      BY <1>1, <2>2, <3>1, Lists DEF LifespanInv, LifespanTypes, Messages
  <2>6. DispatchInv'
    BY <1>1, <1>3, <2>2, <2>4, Lists DEF LifespanInv, DispatchInv
  <2>7. AnswersInv'
    BY <1>1, <2>3, Lists DEF LifespanInv, AnswersInv
  <2>8. ASSUME NEW a \in Apps PROVE AppInv(a)'
    BY <1>1, <1>3, <2>2, <2>3, <2>4, Lists DEF LifespanInv, AppInv
  <2> QED
    BY <2>5, <2>6, <2>7, <2>8 DEF LifespanInv
<1> QED
  BY <1>1, <1>2, <1>3, Lists DEF LifespanInv, LifespanTypes, Messages

LEMMA ReceivesLifespan ==
  ASSUME LifespanInv, NEW a \in Apps, AppReceives(a)
  PROVE  LifespanInv'
<1>1. /\ upstream_events # None /\ app[a] \in {"new", "started"} /\ a \notin waiting
      /\ UNCHANGED <<stage, queue, answers, dispatch, pump, upstream_events>>
  BY DEF AppReceives, PumpRan, process, uvicorn, None
<1>2. upstream_events \in {One, Both}
  BY <1>1, Lists DEF LifespanInv, LifespanTypes, Messages
<1>3. Len(upstream_events) = IF upstream_events = One THEN 1 ELSE 2
  BY <1>2, Lengths
<1>4. DispatchInv'
  BY <1>1, Lists DEF LifespanInv, DispatchInv
<1>5. CASE index[a] < Len(upstream_events)
  <2>1. /\ index' = [index EXCEPT ![a] = @ + 1] /\ app' = [app EXCEPT ![a] = Heard(@)]
        /\ waiting' = waiting
    BY <1>5 DEF AppReceives
  <2>2. /\ index'[a] = index[a] + 1 /\ app'[a] = Heard(app[a])
        /\ \A b \in Apps \ {a} : index'[b] = index[b] /\ app'[b] = app[b]
    BY <2>1, Lists DEF LifespanInv, LifespanTypes
  <2>3. \/ app[a] = "new" /\ app'[a] = "starting" /\ index'[a] = 1
        \/ app[a] = "started" /\ app'[a] = "stopping" /\ index'[a] = 2 /\ upstream_events = Both
    <3>1. CASE app[a] = "new"
      <4>1. index[a] = 0
        BY <3>1 DEF LifespanInv, AppInv
      <4> QED
        BY <2>2, <3>1, <4>1 DEF Heard
    <3>2. CASE app[a] = "started"
      <4>1. index[a] = 1
        BY <3>2 DEF LifespanInv, AppInv
      <4>2. upstream_events = Both
        BY <1>2, <1>3, <1>5, <4>1
      <4> QED
        BY <2>2, <3>2, <4>1, <4>2 DEF Heard
    <3> QED
      BY <1>1, <3>1, <3>2
  <2>4. LifespanTypes'
    <3>1. index' \in [Apps -> 0 .. 2]
      <4>1. index'[a] \in 0 .. 2
        BY <2>3
      <4> QED
        BY <2>1, <2>2, <4>1 DEF LifespanInv, LifespanTypes
    <3>2. app' \in [Apps -> {"none", "new", "starting", "started", "stopping", "exited",
                             "startup failed", "shutdown failed"}]
      BY <2>1, <2>3 DEF LifespanInv, LifespanTypes
    <3> QED
      BY <1>1, <2>1, <3>1, <3>2 DEF LifespanInv, LifespanTypes, Messages
  <2>5. AnswersInv'
    BY <1>1, <2>2, <2>3, Lists DEF LifespanInv, AnswersInv
  <2>6. ASSUME NEW b \in Apps PROVE AppInv(b)'
    <3>1. AppInv(b)
      BY DEF LifespanInv
    <3>2. CASE b = a
      BY <1>1, <2>1, <2>3, <3>1, <3>2, Lists DEF AppInv
    <3>3. CASE b # a
      BY <1>1, <2>1, <2>2, <3>1, <3>3, Lists DEF AppInv
    <3> QED
      BY <3>2, <3>3
  <2> QED
    BY <1>4, <2>4, <2>5, <2>6 DEF LifespanInv
<1>6. CASE ~(index[a] < Len(upstream_events))
  <2>1. waiting' = waiting \cup {a} /\ UNCHANGED <<index, app>>
    BY <1>6 DEF AppReceives
  <2>2. app[a] = "started" /\ upstream_events = One
    <3>1. index[a] \in {0, 1} /\ (app[a] = "new" => index[a] = 0)
      BY <1>1 DEF LifespanInv, AppInv
    <3>2. index[a] = 1 /\ upstream_events = One
      BY <1>2, <1>3, <1>6, <3>1
    <3> QED
      BY <1>1, <3>1, <3>2
  <2>3. LifespanTypes' /\ AnswersInv'
    BY <1>1, <2>1, Lists DEF LifespanInv, LifespanTypes, Messages, AnswersInv
  <2>4. ASSUME NEW b \in Apps PROVE AppInv(b)'
    BY <1>1, <2>1, <2>2, Lists DEF LifespanInv, AppInv
  <2> QED
    BY <1>4, <2>3, <2>4 DEF LifespanInv
<1> QED
  BY <1>5, <1>6

\* Where an app's lifespan goes on by itself.
LEMMA AppLifespan ==
  ASSUME LifespanInv, NEW a \in Apps,
         AppStarts(a) \/ AppFailsToStart(a) \/ AppStops(a) \/ AppFailsToStop(a)
  PROVE  LifespanInv'
<1>1. UNCHANGED <<stage, queue, upstream_events, waiting, index>>
  BY DEF AppStarts, AppFailsToStart, AppStops, AppFailsToStop, process, uvicorn
<1>2. PICK state \in {"started", "startup failed", "exited", "shutdown failed"} :
         /\ app' = [app EXCEPT ![a] = state]
         /\ state \in {"started", "startup failed"} => app[a] = "starting"
         /\ state \in {"exited", "shutdown failed"} => app[a] = "stopping"
         /\ state = "started" => Send("complete") /\ UNCHANGED <<dispatch, pump>>
         /\ state = "startup failed" => Send("failed") /\ DispatchRaises
         /\ state = "shutdown failed" => UNCHANGED answers /\ DispatchRaises
         /\ state = "exited" =>
              /\ UNCHANGED <<answers, pump>>
              /\ dispatch' = IF dispatch = "running" /\ \A b \in Apps \ {a} : app[b] = "exited"
                             THEN "returned" ELSE dispatch
  BY DEF AppStarts, AppFailsToStart, AppStops, AppFailsToStop, uvicorn
<1>3. app'[a] = state /\ \A b \in Apps \ {a} : app'[b] = app[b]
  BY <1>2, Lists DEF LifespanInv, LifespanTypes
<1>4. AppInv(a)
  BY DEF LifespanInv
<1>5. dispatch # "none" /\ dispatch # "returned" /\ upstream_events # None /\ a \notin waiting
  BY <1>2, <1>4, Lists DEF LifespanInv, AppInv, DispatchInv
<1>6. /\ dispatch' \in {"running", "returned", "raised"}
      /\ dispatch' = "running" => dispatch = "running"
      /\ dispatch' = "returned" => state = "exited" /\ \A b \in Apps : app'[b] = "exited"
      /\ dispatch = "raised" => dispatch' = "raised"
      /\ pump' \in {"none", "running", "done", "cancelled"}
      /\ pump # "running" => pump' # "running"
      /\ dispatch' = "raised" => pump' # "running"
  BY <1>2, <1>3, <1>5, Lists DEF LifespanInv, LifespanTypes, DispatchInv, DispatchRaises
<1>7. LifespanTypes'
  BY <1>1, <1>2, <1>6, Lists DEF LifespanInv, LifespanTypes, Messages, Send, None, Complete, Failed
<1>8. DispatchInv'
  BY <1>1, <1>5, <1>6, Lists DEF LifespanInv, DispatchInv, NotYet
<1>9. AnswersInv'
  <2>1. CASE state = "started"
    BY <1>2, <1>3, <2>1, Lists DEF LifespanInv, LifespanTypes, AnswersInv, Send, None, Complete, Failed
  <2>2. CASE state = "startup failed"
    BY <1>2, <1>3, <2>2, Lists DEF LifespanInv, LifespanTypes, AnswersInv, Send, DispatchRaises, None, Complete, Failed
  <2>3. CASE state \in {"exited", "shutdown failed"}
    BY <1>2, <1>3, <1>6, <2>3, Lists DEF LifespanInv, AnswersInv
  <2> QED
    BY <2>1, <2>2, <2>3
<1>10. ASSUME NEW b \in Apps PROVE AppInv(b)'
  <2>1. AppInv(b)
    BY DEF LifespanInv
  <2>2. CASE b = a
    BY <1>1, <1>2, <1>3, <1>4, <1>5, <1>6, <2>2, Lists DEF AppInv
  <2>3. CASE b # a
    BY <1>1, <1>3, <1>5, <1>6, <2>1, <2>3, Lists DEF AppInv
  <2> QED
    BY <2>2, <2>3
<1> QED
  BY <1>7, <1>8, <1>9, <1>10 DEF LifespanInv

LEMMA StopLifespan ==
  ASSUME LifespanInv, Stop
  PROVE  LifespanInv'
<1>1. /\ stage = "serving" /\ stage' = "draining" /\ dispatch # "none"
      /\ queue' = IF dispatch = "running" THEN Append(queue, "shutdown") ELSE queue
      /\ UNCHANGED <<answers, dispatch, pump, upstream_events, waiting, index, app>>
  BY DEF Stop, lifespan
<1>2. upstream_events = One /\ queue = None
  BY <1>1, Lists DEF LifespanInv, LifespanTypes, Messages, DispatchInv
<1>3. queue' \in {None, Shut}
  BY <1>1, <1>2, Operations
<1>4. LifespanTypes' /\ AnswersInv' /\ \A a \in Apps : AppInv(a)'
  BY <1>1, <1>2, <1>3, Lists DEF LifespanInv, LifespanTypes, Messages, AnswersInv, AppInv
<1>5. DispatchInv'
  BY <1>1, <1>2, <1>3, Lists DEF LifespanInv, DispatchInv, NotYet
<1> QED
  BY <1>4, <1>5 DEF LifespanInv

LEMMA ServeLifespan ==
  ASSUME LifespanInv, Serve
  PROVE  LifespanInv'
<1>1. /\ stage = "starting" /\ answers # None
      /\ stage' = IF answers[1] = "complete" THEN "serving" ELSE "closing"
      /\ UNCHANGED <<queue, answers, dispatch, pump, upstream_events, waiting, index, app>>
  BY DEF Serve, uvicorn, lifespan, None
<1>2. \/ answers = Complete /\ stage' = "serving"
      \/ answers = Failed /\ stage' = "closing"
<2>1. Complete[1] = "complete" /\ Failed[1] # "complete"
  BY DEF Complete, Failed
<2> QED
  BY <1>1, <2>1 DEF LifespanInv, LifespanTypes
<1>3. LifespanTypes' /\ AnswersInv' /\ \A a \in Apps : AppInv(a)'
  BY <1>1, Lists DEF LifespanInv, LifespanTypes, Messages, AnswersInv, AppInv
<1>4. answers = Complete => upstream_events # None
  <2> SUFFICES ASSUME answers = Complete PROVE upstream_events # None
    OBVIOUS
  <2>1. PICK a \in Apps : app[a] \in {"started", "stopping", "exited", "shutdown failed"}
    BY Lists DEF LifespanInv, AnswersInv
  <2>2. AppInv(a)
    BY DEF LifespanInv
  <2> QED
    BY <2>1, <2>2, Lists DEF AppInv
<1>5. upstream_events # Both
  BY <1>1, Lists DEF LifespanInv, DispatchInv
<1>6. answers = Complete => upstream_events = One
  BY <1>4, <1>5, Lists DEF LifespanInv, LifespanTypes, Messages
<1>7. DispatchInv'
  BY <1>1, <1>2, <1>6, Lists DEF LifespanInv, DispatchInv, AnswersInv, NotYet
<1> QED
  BY <1>3, <1>7 DEF LifespanInv

LEMMA LifespanStepKept ==
  ASSUME LifespanInv, [Next]_vars
  PROVE  LifespanInv'
<1>1. CASE Boot \/ \E a \in Accounts : Connect(a)
  <2>1. UNCHANGED <<uvicorn, lifespan>> /\ stage \in NotYet /\ stage' \in NotYet
    BY <1>1 DEF Boot, Connect, NotYet
  <2> QED
    BY <2>1, StageStep
<1>2. CASE Start \/ StartStdio
  BY <1>2, StartLifespan
<1>3. CASE GatewayJoins \/ GatewayAnnounces
  BY <1>3, StageStep DEF GatewayJoins, GatewayAnnounces
<1>4. CASE LifespanStep
  BY <1>4, PumpLifespan, ReceivesLifespan, AppLifespan DEF LifespanStep
<1>5. CASE Serve
  BY <1>5, ServeLifespan
<1>6. CASE \E path \in Paths, bearer \in DOMAIN TokenLength : Request(path, bearer)
  BY <1>6, StageStep DEF Request
<1>7. CASE Stop
  BY <1>7, StopLifespan
<1>8. CASE StopStdio
  BY <1>8, StageStep DEF StopStdio, NotYet
<1>9. CASE ShutdownStep
  BY <1>9, StageStep DEF ShutdownStep, Drained, CancelBackground, StopAdapter, NotYet
<1>10. CASE Ended \/ UNCHANGED vars
  BY <1>10, StageStep DEF Ended, vars, process
<1> QED
  BY <1>1, <1>2, <1>3, <1>4, <1>5, <1>6, <1>7, <1>8, <1>9, <1>10 DEF Next

LEMMA Invariant == Spec => [](ProcessInv /\ LifespanInv)
  BY ProcessInit, ProcessStep, LifespanInit, LifespanStepKept, PTL DEF Spec

\* Every variable keeps its type: no app takes more than the two messages there
\* are, and uvicorn hears at most one answer.
THEOREM TypeCorrect == Spec => []TypeOK
<1>1. ProcessInv /\ LifespanInv => TypeOK
<2> SUFFICES ASSUME ProcessInv, LifespanInv PROVE TypeOK
  OBVIOUS
<2>1. {None, One, Shut, Both} \subseteq Seq({"startup", "shutdown"})
  <3>1. <<>> \in Seq({"startup", "shutdown"}) /\ <<"startup">> \in Seq({"startup", "shutdown"})
    OBVIOUS
  <3>2. <<"shutdown">> \in Seq({"startup", "shutdown"})
    OBVIOUS
  <3>3. <<"startup", "shutdown">> \in Seq({"startup", "shutdown"})
    OBVIOUS
  <3> QED
    BY <3>1, <3>2, <3>3 DEF None, One, Shut, Both
<2>2. queue \in Seq({"startup", "shutdown"}) /\ upstream_events \in Seq({"startup", "shutdown"})
  BY <2>1 DEF LifespanInv, LifespanTypes, Messages
<2> QED
  BY <2>2 DEF ProcessInv, ProcessTypes, LifespanInv, LifespanTypes, TypeOK, None, Complete, Failed
<1> QED
  BY <1>1, Invariant, PTL

\* No replay of the shared list, and no message delivered to a waiting app,
\* takes the startup for a shutdown.
THEOREM StopsInTime == Spec => []NoEarlyStop
<1>1. LifespanInv => NoEarlyStop
<2> SUFFICES ASSUME LifespanInv, NEW a \in Apps,
                    app[a] \in {"stopping", "exited", "shutdown failed"}
             PROVE  Contains(upstream_events, "shutdown")
  BY DEF NoEarlyStop
<2>1. upstream_events = Both
  BY Lists DEF LifespanInv, AppInv
<2>2. upstream_events = Both
  BY <2>1, Lists DEF LifespanInv, LifespanTypes, Messages
<2> QED
  BY <2>2, BothTells
<1> QED
  BY <1>1, Invariant, PTL

\* Whenever the shutdown comes: it reaches every background task, and an app is
\* left in its lifespan only where an app failed.
THEOREM LeavesNothing == Spec => []ShutdownReaches
<1>1. ProcessInv /\ LifespanInv => ShutdownReaches
<2> SUFFICES ASSUME ProcessInv, LifespanInv, stage = "stopped"
             PROVE  /\ gateway \notin {"joining", "announcing"}
                    /\ "running" \notin {sync, sweep, pump}
                    /\ \/ \A a \in Apps : app[a] \in {"none", "exited"}
                       \/ \E a \in Apps : app[a] \in {"startup failed", "shutdown failed"}
  BY DEF ShutdownReaches
<2>1. gateway \notin {"joining", "announcing"} /\ sync # "running" /\ sweep # "running"
  BY DEF ProcessInv, EndInv
<2>2. dispatch # "running"
  BY Lists DEF LifespanInv, DispatchInv
<2>3. CASE dispatch = "returned"
  <3>1. \A a \in Apps : app[a] = "exited"
    BY <2>3, Lists DEF LifespanInv, AppInv
  <3>2. AppInv("mcp") /\ app["mcp"] = "exited"
    BY <3>1 DEF LifespanInv, Apps
  <3>3. pump # "running"
    BY <3>2, Lists DEF AppInv, LifespanInv, DispatchInv
  <3> QED
    BY <2>1, <3>1, <3>3
<2>4. CASE dispatch = "none"
  <3>1. \A a \in Apps : app[a] = "none"
    BY <2>4, Lists DEF LifespanInv, AppInv
  <3> QED
    BY <2>1, <2>4, <3>1, Lists DEF LifespanInv, DispatchInv
<2>5. CASE dispatch = "raised"
  BY <2>1, <2>5, Lists DEF LifespanInv, DispatchInv, AnswersInv
<2> QED
  BY <2>2, <2>3, <2>4, <2>5, Lists DEF LifespanInv, LifespanTypes
<1> QED
  BY <1>1, Invariant, PTL
=============================================================================

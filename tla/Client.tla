------------------------------- MODULE Client -------------------------------
(***************************************************************************)
(* The client core (data_broker/client.py): fetch and push, run by the CLI *)
(* as processes and by the local MCP fetcher as threads of one process,    *)
(* over one staging directory and one transfer surface.                    *)
(*                                                                         *)
(* A file's content is its sha256 digest: no two contents share one.  An   *)
(* open file is its inode, named by the run that created it, so that a     *)
(* rename moves the name and not the file other runs still have open.      *)
(***************************************************************************)
EXTENDS Naturals

CONSTANTS
    Runs,          \* fetches and pushes, each made once
    Resources,     \* resources of the one account
    Contents,      \* what bytes may be: a file's content, also one damaged on its way
    Stored,        \* the contents of the resources, and of what is pushed
    None           \* no file, no content

ASSUME ClientAssumption == None \notin Runs \cup Contents /\ Stored \subseteq Contents

EXIT_OK == 0
EXIT_LOCAL == 1
EXIT_INFRA == 2
EXIT_REFUSED == 3
EXIT_VERIFICATION == 4
Uncaught == 5    \* an exception leaves fetch or push: no exit code of the contract
NoExit == 6

VARIABLES
    remote,    \* the content of each resource at the broker
    pc,        \* where each run is
    kind,      \* fetch or push
    resource,  \* the resource a run is for
    body,      \* the content of a push, or what a fetch decoded
    reply,     \* what the broker answered
    wrote,     \* did the broker carry out the push?
    exit,      \* its exit code
    tmp, entry,              \* .<digest>.tmp and <digest>: an inode or None
    manifestTmp, manifest,   \* .<digest>.manifest.json.tmp and <digest>.json
    data,      \* what is in the inodes of contents
    text,      \* what is in the inodes of manifests: the resource named
    fd         \* the inode each run has open

network == <<remote, reply, wrote>>
staging == <<tmp, entry, manifestTmp, manifest, data, text, fd>>
vars == <<network, pc, kind, resource, body, exit, staging>>

Files == Runs \cup {None}
Empty == "empty"       \* a file just truncated
Mixed == "mixed"       \* two different texts written over one another

Statuses == {"ok", "refused", "error", "pending"}

\* `content' is None when it is missing or unreadable, `sha' is the digest the
\* broker declares, `mismatch' that a refusal says they differ, `refusal' that an
\* error's text holds the word "refused".
Reply ==
    [status : Statuses, content : Contents \cup {None}, sha : Contents \cup {None},
     mismatch : BOOLEAN, refusal : BOOLEAN]

Answered(status) ==
    [status |-> status, content |-> None, sha |-> None, mismatch |-> FALSE, refusal |-> FALSE]
NoReply == [Answered("error") EXCEPT !.status = "none"]

\* The call never comes to the tool: it is not made, or the surface rejects it.
Unreached == [Answered("error") EXCEPT !.status = "unreached"]

InFlight(r) == pc[r] \notin {"idle", "done", "dead"}

-----------------------------------------------------------------------------
Init ==
    /\ remote \in [Resources -> Stored]
    /\ pc = [r \in Runs |-> "idle"]
    /\ kind = [r \in Runs |-> "none"]
    /\ resource = [r \in Runs |-> None]
    /\ body = [r \in Runs |-> None]
    /\ reply = [r \in Runs |-> NoReply]
    /\ wrote = [r \in Runs |-> FALSE]
    /\ exit = [r \in Runs |-> NoExit]
    /\ tmp = [d \in Contents |-> None]
    /\ entry = [d \in Contents |-> None]
    /\ manifestTmp = [d \in Contents |-> None]
    /\ manifest = [d \in Contents |-> None]
    /\ data = [r \in Runs |-> Empty]
    /\ text = [r \in Runs |-> Empty]
    /\ fd = [r \in Runs |-> None]

Goto(r, step) == pc' = [pc EXCEPT ![r] = step] /\ UNCHANGED exit

Exits(r, code) ==
    /\ pc' = [pc EXCEPT ![r] = "done"]
    /\ exit' = [exit EXCEPT ![r] = code]

-----------------------------------------------------------------------------
(***************************************************************************)
(* Exit codes.  A message is the set of the words _error_exit looks for.   *)
(***************************************************************************)

\* What ClientError says of a failed POST.
TransportMessage(why) ==
    CASE why = "unreachable" -> {"unreachable"}
      [] why = "connection refused" -> {"unreachable", "refused"}
      [] why = "http" -> {"HTTP"}
      [] OTHER -> {}    \* 401, an rpc error, a body that holds no answer

\* envelope_error of an envelope that is not ok.
envelope_error(e) ==
    IF e.status = "refused" THEN {"REFUSED"}
    ELSE {"INFRA"} \cup (IF e.refusal THEN {"refused"} ELSE {})

\* Mutant: what is none of the known messages counts as a refusal.
ErrorExitElseRefused(message) ==
    IF {"INFRA", "unreachable", "HTTP"} \cap message # {} THEN EXIT_INFRA ELSE EXIT_REFUSED

error_exit(message) ==
    IF {"REFUSED", "refused"} \cap message # {} THEN EXIT_REFUSED
    ELSE IF {"INFRA", "unreachable", "HTTP"} \cap message # {} THEN EXIT_INFRA
    ELSE EXIT_LOCAL

-----------------------------------------------------------------------------
(***************************************************************************)
(* Starting a run, and its call of the broker.                             *)
(***************************************************************************)
Starts(r, what, node, content) ==
    /\ pc[r] = "idle"
    /\ kind' = [kind EXCEPT ![r] = what]
    /\ resource' = [resource EXCEPT ![r] = node]
    /\ body' = [body EXCEPT ![r] = content]
    /\ UNCHANGED <<remote, wrote, staging>>

\* Call the broker, or stop before: for want of a token or of a file to push.
Calls(r) ==
    \/ Goto(r, "calling") /\ UNCHANGED reply
    \/ Exits(r, EXIT_LOCAL) /\ reply' = [reply EXCEPT ![r] = Unreached]

Fetch(r, node) == Starts(r, "fetch", node, None) /\ Calls(r)

Push(r, node, content) == Starts(r, "push", node, content) /\ Calls(r)

\* A resource's content with its digest, either of them lost or the content damaged.
Deliveries(node) ==
    {e \in Reply : /\ e.status = "ok" /\ ~e.mismatch /\ ~e.refusal
                   /\ e.sha \in {remote[node], None}}

\* Answer a call with one of these; they change nothing at the broker.
Answers(r, replies) ==
    /\ pc[r] = "calling"
    /\ \E e \in replies : reply' = [reply EXCEPT ![r] = e]
    /\ UNCHANGED <<remote, wrote>>

\* The broker answers the calls that reach it.  It carries out a push also when
\* the client is gone, and may then answer in error (external).
Serve(r) ==
    /\ reply[r] = NoReply
    /\ kind[r] # "none"
    /\ UNCHANGED <<pc, kind, resource, body, exit, staging>>
    /\ \/ /\ kind[r] = "fetch"
          /\ Answers(r, Deliveries(resource[r]))
       \/ /\ kind[r] = "push"
          /\ remote' = [remote EXCEPT ![resource[r]] = body[r]]
          /\ wrote' = [wrote EXCEPT ![r] = TRUE]
          /\ \E status \in {"ok", "error"} : reply' = [reply EXCEPT ![r] = Answered(status)]
       \/ /\ kind[r] = "push"
          /\ Answers(r, {[Answered("refused") EXCEPT !.mismatch = TRUE]})
       \/ Answers(r, {Answered("refused"), Answered("pending"), Answered("error"),
                      [Answered("error") EXCEPT !.refusal = TRUE]})

\* A POST that fails with ClientError: no connection, a connection refused, an
\* HTTP error, 401, an answer lost in a body nobody can read.
PostFails(r) ==
    /\ pc[r] = "calling"
    /\ \/ /\ \E why \in {"unreachable", "http", "malformed"} :
                Exits(r, error_exit(TransportMessage(why)))
          /\ UNCHANGED reply
       \/ /\ reply[r] = NoReply
          /\ \E why \in {"connection refused", "unauthorized"} :
                Exits(r, error_exit(TransportMessage(why)))
          /\ reply' = [reply EXCEPT ![r] = Unreached]
    /\ UNCHANGED <<remote, wrote, kind, resource, body, staging>>

\* urlopen's timeout while it waits for the answer: a TimeoutError, which is
\* no URLError and which nobody catches.
TimesOut(r) ==
    /\ pc[r] = "calling"
    /\ Exits(r, Uncaught)
    /\ UNCHANGED <<network, kind, resource, body, staging>>

\* Mutant: a digest has to be declared, and is not compared with the content's.
ReceivePresent(r) ==
    /\ pc[r] = "calling"
    /\ kind[r] = "fetch"
    /\ reply[r].status = "ok"
    /\ {reply[r].content, reply[r].sha} \subseteq Contents
    /\ body' = [body EXCEPT ![r] = reply[r].content]
    /\ Goto(r, "open")
    /\ UNCHANGED <<network, kind, resource, staging>>

\* Mutant: the manifest comes first.
ReceiveManifestFirst(r) ==
    /\ pc[r] = "calling"
    /\ kind[r] = "fetch"
    /\ reply[r].status = "ok"
    /\ reply[r].content \in Contents
    /\ reply[r].content = reply[r].sha
    /\ body' = [body EXCEPT ![r] = reply[r].content]
    /\ Goto(r, "openManifest")
    /\ UNCHANGED <<network, kind, resource, staging>>

\* fetch verifies before it stages anything.
ReceiveFetch(r) ==
    /\ pc[r] = "calling"
    /\ kind[r] = "fetch"
    /\ reply[r].status = "ok"
    /\ IF reply[r].content \in Contents /\ reply[r].content = reply[r].sha
       THEN /\ body' = [body EXCEPT ![r] = reply[r].content]
            /\ Goto(r, "open")
       ELSE /\ Exits(r, EXIT_VERIFICATION)
            /\ UNCHANGED body
    /\ UNCHANGED <<network, kind, resource, staging>>

ReceivePush(r) ==
    /\ pc[r] = "calling"
    /\ kind[r] = "push"
    /\ reply[r].status = "ok"
    /\ Exits(r, EXIT_OK)
    /\ UNCHANGED <<network, kind, resource, body, staging>>

\* An envelope that is not ok.
ReceiveError(r) ==
    /\ pc[r] = "calling"
    /\ reply[r].status \in Statuses \ {"ok"}
    /\ IF reply[r].mismatch
       THEN Exits(r, EXIT_VERIFICATION)
       ELSE Exits(r, error_exit(envelope_error(reply[r])))
    /\ UNCHANGED <<network, kind, resource, body, staging>>

-----------------------------------------------------------------------------
(***************************************************************************)
(* Staging: open, write and rename, for the content and for the manifest.  *)
(***************************************************************************)

\* open(name, "w"): the file named, or a new one, truncated.
Opened(name, r) == IF name[body[r]] = None THEN r ELSE name[body[r]]

\* Mutant: the staged file itself is opened, without a temporary name.
OpenInPlace(r) ==
    /\ pc[r] = "open"
    /\ entry' = [entry EXCEPT ![body[r]] = Opened(entry, r)]
    /\ data' = [data EXCEPT ![Opened(entry, r)] = Empty]
    /\ fd' = [fd EXCEPT ![r] = Opened(entry, r)]
    /\ Goto(r, "write")
    /\ UNCHANGED <<network, kind, resource, body, tmp, manifestTmp, manifest, text>>

OpenTmp(r) ==
    /\ pc[r] = "open"
    /\ tmp' = [tmp EXCEPT ![body[r]] = Opened(tmp, r)]
    /\ data' = [data EXCEPT ![Opened(tmp, r)] = Empty]
    /\ fd' = [fd EXCEPT ![r] = Opened(tmp, r)]
    /\ Goto(r, "write")
    /\ UNCHANGED <<network, kind, resource, body, entry, manifestTmp, manifest, text>>

\* Mutant: the file is opened to append.
WriteAppends(r) ==
    /\ pc[r] = "write"
    /\ data' = [data EXCEPT ![fd[r]] = IF @ = Empty THEN body[r] ELSE Mixed]
    /\ Goto(r, "replace")
    /\ UNCHANGED <<network, kind, resource, body, tmp, entry, manifestTmp, manifest, text, fd>>

\* write, flush and fsync to the open file, whatever its name is by now.
WriteTmp(r) ==
    /\ pc[r] = "write"
    /\ data' = [data EXCEPT ![fd[r]] = body[r]]
    /\ Goto(r, "replace")
    /\ UNCHANGED <<network, kind, resource, body, tmp, entry, manifestTmp, manifest, text, fd>>

\* chmod and os.replace; both raise when another run renamed the file away.
Replace(r) ==
    LET d == body[r] IN
    /\ pc[r] = "replace"
    /\ IF tmp[d] = None
       THEN /\ Exits(r, Uncaught)
            /\ UNCHANGED <<tmp, entry>>
       ELSE /\ entry' = [entry EXCEPT ![d] = tmp[d]]
            /\ tmp' = [tmp EXCEPT ![d] = None]
            /\ Goto(r, "openManifest")
    /\ UNCHANGED <<network, kind, resource, body, manifestTmp, manifest, data, text, fd>>

OpenManifest(r) ==
    /\ pc[r] = "openManifest"
    /\ manifestTmp' = [manifestTmp EXCEPT ![body[r]] = Opened(manifestTmp, r)]
    /\ text' = [text EXCEPT ![Opened(manifestTmp, r)] = Empty]
    /\ fd' = [fd EXCEPT ![r] = Opened(manifestTmp, r)]
    /\ Goto(r, "writeManifest")
    /\ UNCHANGED <<network, kind, resource, body, tmp, entry, manifest, data>>

\* A text written over a longer one leaves that one's tail.
WriteManifest(r) ==
    /\ pc[r] = "writeManifest"
    /\ \/ text' = [text EXCEPT ![fd[r]] = resource[r]]
       \/ /\ text[fd[r]] \notin {Empty, resource[r]}
          /\ text' = [text EXCEPT ![fd[r]] = Mixed]
    /\ Goto(r, "replaceManifest")
    /\ UNCHANGED <<network, kind, resource, body, tmp, entry, manifestTmp, manifest, data, fd>>

ReplaceManifest(r) ==
    LET d == body[r] IN
    /\ pc[r] = "replaceManifest"
    /\ IF manifestTmp[d] = None
       THEN /\ Exits(r, Uncaught)
            /\ UNCHANGED <<manifestTmp, manifest>>
       ELSE /\ manifest' = [manifest EXCEPT ![d] = manifestTmp[d]]
            /\ manifestTmp' = [manifestTmp EXCEPT ![d] = None]
            /\ Exits(r, EXIT_OK)
    /\ UNCHANGED <<network, kind, resource, body, tmp, entry, data, text, fd>>

\* The process of a run dies.
Dies(r) ==
    /\ InFlight(r)
    /\ pc' = [pc EXCEPT ![r] = "dead"]
    /\ UNCHANGED <<network, kind, resource, body, exit, staging>>

AllDone ==
    /\ \A r \in Runs : pc[r] \in {"done", "dead"}
    /\ UNCHANGED vars

-----------------------------------------------------------------------------
Receive(r) == ReceiveFetch(r) \/ ReceivePush(r) \/ ReceiveError(r)

Stage(r) ==
    \/ OpenTmp(r) \/ WriteTmp(r) \/ Replace(r)
    \/ OpenManifest(r) \/ WriteManifest(r) \/ ReplaceManifest(r)

Next ==
    \/ \E r \in Runs :
        \/ \E node \in Resources :
            \/ Fetch(r, node)
            \/ \E content \in Stored : Push(r, node, content)
        \/ Serve(r)
        \/ PostFails(r)
        \/ TimesOut(r)
        \/ Receive(r)
        \/ Stage(r)
        \/ Dies(r)
    \/ AllDone

Spec == Init /\ [][Next]_vars

-----------------------------------------------------------------------------
(***************************************************************************)
(* Properties.                                                             *)
(***************************************************************************)
TypeOK ==
    /\ remote \in [Resources -> Contents]
    /\ pc \in [Runs -> {"idle", "calling", "open", "write", "replace", "openManifest",
                        "writeManifest", "replaceManifest", "done", "dead"}]
    /\ kind \in [Runs -> {"none", "fetch", "push"}]
    /\ resource \in [Runs -> Resources \cup {None}]
    /\ body \in [Runs -> Contents \cup {None}]
    /\ reply \in [Runs -> Reply \cup {NoReply, Unreached}]
    /\ wrote \in [Runs -> BOOLEAN]
    /\ exit \in [Runs -> EXIT_OK .. NoExit]
    /\ {tmp, entry, manifestTmp, manifest} \subseteq [Contents -> Files]
    /\ data \in [Runs -> Contents \cup {Empty}]
    /\ text \in [Runs -> Resources \cup {Empty, Mixed}]
    /\ fd \in [Runs -> Files]

\* Verify-then-stage: no name appears in staging for a digest unless a fetch
\* got that very content with that very digest declared by the broker.
VerifiedBeforeStaged ==
    \A d \in Contents :
        {tmp[d], entry[d], manifestTmp[d], manifest[d]} # {None} =>
            \E r \in Runs : reply[r].content = d /\ reply[r].sha = d

\* A manifest, and a fetch that exits 0, always have their file in staging,
\* whatever other runs do and wherever they die.
StagedComplete ==
    /\ \A d \in Contents : manifest[d] # None => entry[d] # None
    /\ \A r \in Runs : kind[r] = "fetch" /\ exit[r] = EXIT_OK =>
        entry[body[r]] # None /\ manifest[body[r]] # None

\* Once no run is at work on a digest, its staged file holds its content, also
\* after runs that raced for it, unless one of them died.
IntactAtRest ==
    \A d \in Contents :
        /\ entry[d] # None
        /\ \A r \in Runs : kind[r] = "fetch" /\ body[r] = d => pc[r] = "done"
        => data[entry[d]] = d

\* Only a race damages what is staged: a staged file without its content is one
\* that a run has opened and not written yet while another run renamed it, and a
\* manifest that is no whole text has one run's fd and another run's rename.  A
\* run by itself, wherever it dies, and runs one after another show nothing half
\* written.
DamagedOnlyByRace ==
    \A d \in Contents :
        /\ entry[d] # None /\ data[entry[d]] # d =>
            \E p, q \in Runs :
                /\ p # q
                /\ fd[p] = entry[d] /\ pc[p] \in {"write", "dead"}
                /\ kind[q] = "fetch" /\ body[q] = d
                /\ pc[q] \notin {"open", "write", "replace"}
        /\ manifest[d] # None /\ text[manifest[d]] \notin Resources =>
            \E p, q \in Runs :
                /\ p # q
                /\ fd[p] = manifest[d]
                /\ kind[q] = "fetch" /\ body[q] = d /\ pc[q] = "done"

\* A staged file holds its content and a manifest a whole text at every moment.
StagedIntact ==
    \A d \in Contents :
        /\ entry[d] # None => data[entry[d]] = d
        /\ manifest[d] # None => text[manifest[d]] \in Resources

\* Exit 3 tells an agent never to retry as-is and exit 4 to take the file for
\* corrupt: a push that exits so was not carried out, nor is it later; one that
\* exits 0 was.
ExitsTruthful ==
    \A r \in Runs : kind[r] = "push" =>
        /\ exit[r] \in {EXIT_REFUSED, EXIT_VERIFICATION} => ~wrote[r]
        /\ exit[r] = EXIT_OK => wrote[r]

=============================================================================

---------------------------- MODULE ClientProofs ----------------------------
(***************************************************************************)
(* What the client stages and what its exit codes say, for every number of *)
(* runs, resources and contents and however many run at the same time.     *)
(***************************************************************************)
EXTENDS Client, TLAPS

Staging == {"open", "write", "replace", "openManifest", "writeManifest", "replaceManifest"}

\* A run has what its step needs.
RunFits(r) ==
    /\ pc[r] = "idle" => reply[r] = NoReply /\ ~wrote[r] /\ exit[r] = NoExit /\ kind[r] = "none"
    /\ pc[r] # "idle" => kind[r] # "none" /\ resource[r] \in Resources
    /\ kind[r] = "push" => body[r] \in Contents
    /\ pc[r] \in Staging => kind[r] = "fetch" /\ body[r] \in Contents
    /\ pc[r] \in {"write", "replace", "writeManifest", "replaceManifest"} => fd[r] \in Runs

Fits == \A r \in Runs : RunFits(r)

TypeInv == TypeOK /\ Fits

LEMMA StoredContents == Stored \subseteq Contents
  BY ClientAssumption

LEMMA Replies ==
  /\ \A status \in Statuses :
        /\ Answered(status) \in Reply
        /\ [Answered(status) EXCEPT !.mismatch = TRUE] \in Reply
        /\ [Answered(status) EXCEPT !.refusal = TRUE] \in Reply
  BY DEF Reply, Answered

LEMMA ExitCodes ==
  /\ \A message : error_exit(message) \in {EXIT_REFUSED, EXIT_INFRA, EXIT_LOCAL}
  /\ \A code \in {EXIT_OK, EXIT_LOCAL, EXIT_INFRA, EXIT_REFUSED, EXIT_VERIFICATION, Uncaught} :
        code \in EXIT_OK .. NoExit
  /\ \A message : error_exit(message) \in EXIT_OK .. NoExit
  BY DEF error_exit, EXIT_REFUSED, EXIT_INFRA, EXIT_LOCAL, EXIT_OK, EXIT_VERIFICATION, Uncaught,
         NoExit

\* Only the steps of a run itself and the broker's change what is the run's.
LEMMA TypeStep == TypeInv /\ [Next]_vars => TypeInv'
<1> SUFFICES ASSUME TypeInv, [Next]_vars PROVE TypeInv'
  OBVIOUS
<1> USE DEF TypeInv
<1>1. ASSUME NEW r \in Runs, NEW node \in Resources, Fetch(r, node) PROVE TypeInv'
<2>1. TypeOK'
  BY <1>1, ExitCodes DEF Fetch, Starts, Calls, Goto, Exits, TypeOK, staging
<2>2. Fits'
  BY <1>1 DEF Fetch, Starts, Calls, Goto, Exits, TypeOK, staging, Fits, RunFits, Staging
<2> QED
  BY <2>1, <2>2
<1>2. ASSUME NEW r \in Runs, NEW node \in Resources, NEW content \in Stored,
             Push(r, node, content)
      PROVE  TypeInv'
<2>a. content \in Contents
  BY StoredContents
<2>1. TypeOK'
  BY <1>2, <2>a, ExitCodes DEF Push, Starts, Calls, Goto, Exits, TypeOK, staging
<2>2. Fits'
  BY <1>2, <2>a DEF Push, Starts, Calls, Goto, Exits, TypeOK, staging, Fits, RunFits, Staging
<2> QED
  BY <2>1, <2>2
<1>3. ASSUME NEW r \in Runs, Serve(r) PROVE TypeInv'
<2>1. /\ UNCHANGED <<pc, kind, resource, body, exit, staging>>
      /\ kind[r] # "none"
      /\ \E e \in Reply : reply' = [reply EXCEPT ![r] = e]
      /\ \/ UNCHANGED <<remote, wrote>>
         \/ /\ kind[r] = "push"
            /\ remote' = [remote EXCEPT ![resource[r]] = body[r]]
            /\ wrote' = [wrote EXCEPT ![r] = TRUE]
  <3>1. kind[r] # "none" /\ UNCHANGED <<pc, kind, resource, body, exit, staging>>
    BY <1>3 DEF Serve
  <3>2. resource[r] \in Resources /\ remote[resource[r]] \in Contents
    BY <3>1 DEF Fits, RunFits, TypeOK
  <3>3. CASE \E e \in Reply : Answers(r, {e})
    BY <3>1, <3>3 DEF Answers
  <3>4. CASE /\ kind[r] = "push"
             /\ remote' = [remote EXCEPT ![resource[r]] = body[r]]
             /\ wrote' = [wrote EXCEPT ![r] = TRUE]
             /\ \E status \in {"ok", "error"} : reply' = [reply EXCEPT ![r] = Answered(status)]
    BY <3>1, <3>4, Replies DEF Statuses
  <3>5. \A replies \in SUBSET Reply :
           Answers(r, replies) => \E e \in Reply : Answers(r, {e})
    BY DEF Answers
  <3>6. /\ {Answered("refused"), Answered("pending"), Answered("error"),
            [Answered("error") EXCEPT !.refusal = TRUE]} \in SUBSET Reply
        /\ {[Answered("refused") EXCEPT !.mismatch = TRUE]} \in SUBSET Reply
        /\ Deliveries(resource[r]) \in SUBSET Reply
    BY <3>2, Replies DEF Statuses, Deliveries
  <3> QED
    BY <1>3, <3>3, <3>4, <3>5, <3>6 DEF Serve
<2>2. reply' \in [Runs -> Reply \cup {NoReply, Unreached}]
  BY <2>1 DEF TypeOK
<2>3. kind[r] = "push" => body[r] \in Contents /\ resource[r] \in Resources
  BY <2>1 DEF Fits, RunFits
<2>4. remote' \in [Resources -> Contents] /\ wrote' \in [Runs -> BOOLEAN]
  BY <2>1, <2>3 DEF TypeOK
<2>5. TypeOK'
  BY <2>1, <2>2, <2>4 DEF TypeOK, staging
<2>6. Fits'
  BY <2>1 DEF TypeOK, staging, Fits, RunFits
<2> QED
  BY <2>5, <2>6
<1>4. ASSUME NEW r \in Runs, PostFails(r) \/ TimesOut(r) \/ Receive(r) \/ Dies(r) PROVE TypeInv'
<2>1. /\ pc[r] # "idle"
      /\ UNCHANGED <<remote, wrote, kind, resource, staging>>
      /\ \/ UNCHANGED reply
         \/ reply' = [reply EXCEPT ![r] = Unreached]
      /\ \/ UNCHANGED body
         \/ /\ kind[r] = "fetch"
            /\ body' = [body EXCEPT ![r] = reply[r].content]
            /\ reply[r].content \in Contents
      /\ \/ \E code \in EXIT_OK .. NoExit : Exits(r, code)
         \/ kind[r] = "fetch" /\ Goto(r, "open") /\ body'[r] \in Contents
         \/ Goto(r, "dead")
  BY <1>4, ExitCodes DEF PostFails, TimesOut, Receive, ReceiveFetch, ReceivePush, ReceiveError,
                         Dies, InFlight, Goto, TypeOK, network
<2>2. TypeOK'
  BY <2>1 DEF TypeOK, staging, Exits, Goto
<2>3. Fits'
  BY <2>1 DEF TypeOK, staging, Fits, RunFits, Exits, Goto, Staging
<2> QED
  BY <2>2, <2>3
<1>5. ASSUME NEW r \in Runs, Stage(r) PROVE TypeInv'
<2>1. /\ pc[r] \in Staging /\ body[r] \in Contents /\ kind[r] = "fetch"
      /\ resource[r] \in Resources
      /\ UNCHANGED <<network, kind, resource, body>>
  BY <1>5 DEF Stage, OpenTmp, WriteTmp, Replace, OpenManifest, WriteManifest, ReplaceManifest,
              Staging, Fits, RunFits
<2>2. Opened(tmp, r) \in Runs /\ Opened(manifestTmp, r) \in Runs
  BY <2>1 DEF Opened, TypeOK, Files
<2>3. CASE OpenTmp(r)
  BY <2>1, <2>2, <2>3 DEF OpenTmp, Goto, TypeOK, Fits, RunFits, network, Files, Staging
<2>4. CASE WriteTmp(r)
  BY <2>1, <2>4 DEF WriteTmp, Goto, TypeOK, Fits, RunFits, network, Files, Staging
<2>5. CASE Replace(r)
  BY <2>1, <2>5, ExitCodes
     DEF Replace, Goto, Exits, TypeOK, Fits, RunFits, network, Files, Staging
<2>6. CASE OpenManifest(r)
  BY <2>1, <2>2, <2>6 DEF OpenManifest, Goto, TypeOK, Fits, RunFits, network, Files, Staging
<2>7. CASE WriteManifest(r)
  BY <2>1, <2>7 DEF WriteManifest, Goto, TypeOK, Fits, RunFits, network, Files, Staging
<2>8. CASE ReplaceManifest(r)
  BY <2>1, <2>8, ExitCodes
     DEF ReplaceManifest, Goto, Exits, TypeOK, Fits, RunFits, network, Files, Staging
<2> QED
  BY <1>5, <2>3, <2>4, <2>5, <2>6, <2>7, <2>8 DEF Stage
<1>6. CASE UNCHANGED vars
  BY <1>6 DEF vars, network, staging, TypeOK, Fits, RunFits
<1> QED
  BY <1>1, <1>2, <1>3, <1>4, <1>5, <1>6 DEF Next, AllDone

LEMMA TypeInit == Init => TypeInv
  BY StoredContents, ExitCodes DEF Init, TypeInv, TypeOK, Fits, RunFits, Staging, NoReply, Files, EXIT_OK, NoExit

\* Every variable keeps its type, for any number of runs.
THEOREM TypeCorrect == Spec => []TypeOK
<1>1. TypeInv => TypeOK
  BY DEF TypeInv
<1> QED
  BY <1>1, TypeInit, TypeStep, PTL DEF Spec

-----------------------------------------------------------------------------
(***************************************************************************)
(* Exit codes.                                                             *)
(***************************************************************************)
ExitTold(r) ==
    kind[r] = "push" =>
        /\ wrote[r] => reply[r].status \in {"ok", "error"} /\ ~reply[r].refusal /\ ~reply[r].mismatch
        /\ reply[r].status = "ok" => wrote[r]
        /\ exit[r] \in {EXIT_REFUSED, EXIT_VERIFICATION} => reply[r] # NoReply /\ ~wrote[r]
        /\ exit[r] = EXIT_OK => wrote[r]

ExitInv == \A r \in Runs : ExitTold(r)

LEMMA ExitValues ==
  /\ EXIT_REFUSED = 3 /\ EXIT_VERIFICATION = 4 /\ EXIT_OK = 0 /\ EXIT_LOCAL = 1
  /\ Uncaught = 5 /\ NoExit = 6
  BY DEF EXIT_REFUSED, EXIT_LOCAL, EXIT_OK, EXIT_VERIFICATION, Uncaught, NoExit

\* What ends a run that has not been answered in the broker's words.
LEMMA TransportExits ==
  /\ \A why \in {"unreachable", "http", "malformed", "unauthorized"} :
        error_exit(TransportMessage(why)) \in {1, 2}
  /\ error_exit(TransportMessage("connection refused")) = 3
  BY DEF error_exit, TransportMessage, EXIT_REFUSED, EXIT_INFRA, EXIT_LOCAL

LEMMA EnvelopeExits ==
  ASSUME NEW e
  PROVE  /\ error_exit(envelope_error(e)) \in {1, 2, 3}
         /\ e.status = "error" /\ ~e.refusal => error_exit(envelope_error(e)) = 2
  BY DEF error_exit, envelope_error, EXIT_REFUSED, EXIT_INFRA, EXIT_LOCAL

LEMMA ReplyValues ==
  /\ NoReply.status = "none" /\ NoReply.content = None
  /\ Unreached.status = "unreached" /\ Unreached.content = None /\ Unreached # NoReply
  /\ \A status \in Statuses :
        /\ Answered(status).status = status /\ Answered(status) # NoReply
        /\ ~Answered(status).refusal /\ ~Answered(status).mismatch
  /\ \A e \in Reply : e.status \in Statuses /\ e # NoReply
  BY DEF NoReply, Unreached, Answered, Reply, Statuses

LEMMA ExitStep == TypeInv /\ ExitInv /\ [Next]_vars => ExitInv'
<1> SUFFICES ASSUME TypeInv, ExitInv, [Next]_vars PROVE ExitInv'
  OBVIOUS
<1>a. TypeOK /\ \A r \in Runs : RunFits(r) /\ ExitTold(r)
  BY DEF TypeInv, Fits, ExitInv
\* A step that is one run's own, and leaves it true.
<1>b. ASSUME NEW r \in Runs, ExitTold(r)',
             \A q \in Runs \ {r} : /\ kind'[q] = kind[q] /\ reply'[q] = reply[q]
                                   /\ wrote'[q] = wrote[q] /\ exit'[q] = exit[q]
      PROVE  ExitInv'
<2>1. \A q \in Runs \ {r} : ExitTold(q)'
  BY <1>a, <1>b DEF ExitTold
<2> QED
  BY <1>b, <2>1 DEF ExitInv
<1>1. ASSUME NEW r \in Runs, NEW node \in Resources,
             Fetch(r, node) \/ \E content \in Stored : Push(r, node, content)
      PROVE  ExitInv'
<2>1. /\ pc[r] = "idle" /\ wrote' = wrote
      /\ kind' = [kind EXCEPT ![r] = kind'[r]]
      /\ \/ reply' = reply /\ exit' = exit
         \/ reply' = [reply EXCEPT ![r] = Unreached] /\ exit' = [exit EXCEPT ![r] = EXIT_LOCAL]
  BY <1>1, <1>a DEF Fetch, Push, Starts, Calls, Goto, Exits, TypeOK
<2>2. reply[r] = NoReply /\ ~wrote[r] /\ exit[r] = NoExit
  BY <1>a, <2>1 DEF RunFits
<2>3. ExitTold(r)'
  BY <1>a, <2>1, <2>2, ReplyValues, ExitValues DEF ExitTold, TypeOK
<2> QED
  BY <1>a, <1>b, <2>1, <2>3 DEF TypeOK
<1>2. ASSUME NEW r \in Runs, Serve(r) PROVE ExitInv'
<2>1. /\ reply[r] = NoReply /\ kind' = kind /\ exit' = exit
      /\ \/ kind[r] = "fetch" /\ Answers(r, Deliveries(resource[r]))
         \/ /\ wrote' = [wrote EXCEPT ![r] = TRUE]
            /\ \E status \in {"ok", "error"} : reply' = [reply EXCEPT ![r] = Answered(status)]
         \/ Answers(r, {[Answered("refused") EXCEPT !.mismatch = TRUE]})
         \/ Answers(r, {Answered("refused"), Answered("pending"), Answered("error"),
                        [Answered("error") EXCEPT !.refusal = TRUE]})
  BY <1>2 DEF Serve
<2>2. kind[r] = "push" =>
        ~wrote[r] /\ exit[r] \notin {EXIT_REFUSED, EXIT_VERIFICATION, EXIT_OK}
  BY <1>a, <2>1, ReplyValues DEF ExitTold
<2>3. \A q \in Runs \ {r} : reply'[q] = reply[q] /\ wrote'[q] = wrote[q]
  BY <1>a, <2>1 DEF Answers, TypeOK
<2>4. CASE kind[r] = "fetch"
  BY <1>b, <2>1, <2>3, <2>4 DEF ExitTold
<2>5. CASE \E status \in {"ok", "error"} :
              reply'[r] = Answered(status) /\ wrote'[r] /\ kind[r] = "push"
  BY <1>b, <2>1, <2>2, <2>3, <2>5, ReplyValues DEF ExitTold, Statuses
<2>6. CASE reply'[r].status # "ok" /\ ~wrote'[r] /\ kind[r] = "push"
  BY <1>b, <2>1, <2>2, <2>3, <2>6 DEF ExitTold
<2>7. CASE /\ kind[r] = "push" /\ wrote' = wrote
           /\ \E e \in {[Answered("refused") EXCEPT !.mismatch = TRUE],
                        Answered("refused"), Answered("pending"), Answered("error"),
                        [Answered("error") EXCEPT !.refusal = TRUE]} : reply'[r] = e
  <3>1. reply'[r].status # "ok"
    BY <2>7 DEF Answered
  <3> QED
    BY <2>2, <2>6, <2>7, <3>1
<2>8. kind[r] \in {"fetch", "push"}
  BY <1>2, <1>a DEF Serve, TypeOK
<2> QED
  BY <1>a, <2>1, <2>4, <2>5, <2>7, <2>8 DEF Answers, TypeOK
<1>3. ASSUME NEW r \in Runs, NEW code, Exits(r, code), UNCHANGED <<kind, wrote>>,
             \/ UNCHANGED reply
             \/ reply[r] = NoReply /\ reply' = [reply EXCEPT ![r] = Unreached],
             kind[r] = "push" =>
                /\ code \in {3, 4} =>
                      reply'[r] # NoReply /\ reply[r].status # "ok"
                         /\ (reply[r].status = "error" => reply[r].refusal \/ reply[r].mismatch)
                /\ code = 0 => reply[r].status = "ok"
      PROVE  ExitInv'
<2>1. exit'[r] = code /\ reply'[r] \in {reply[r], Unreached} /\ wrote'[r] = wrote[r]
  BY <1>3, <1>a DEF Exits, TypeOK
<2>2. reply'[r] # reply[r] => reply[r] = NoReply /\ reply'[r] = Unreached
  BY <1>3, <1>a DEF TypeOK
<2>3. ExitTold(r)'
  BY <1>3, <1>a, <2>1, <2>2, ReplyValues, ExitValues DEF ExitTold
<2> QED
  BY <1>3, <1>a, <1>b, <2>3 DEF Exits, TypeOK
<1>4. ASSUME UNCHANGED <<kind, wrote, reply, exit>> PROVE ExitInv'
  BY <1>4, <1>a DEF ExitInv, ExitTold
<1>5. ASSUME NEW r \in Runs, PostFails(r) PROVE ExitInv'
<2>1. CASE /\ \E why \in {"unreachable", "http", "malformed"} :
                 Exits(r, error_exit(TransportMessage(why)))
           /\ UNCHANGED reply
  <3>1. PICK code \in {1, 2} : Exits(r, code)
    BY <2>1, TransportExits
  <3>2. UNCHANGED <<kind, wrote>>
    BY <1>5 DEF PostFails
  <3>3. code \notin {0, 3, 4}
    BY <3>1
  <3> QED
    BY <1>3, <2>1, <3>1, <3>2, <3>3
<2>2. CASE /\ reply[r] = NoReply
           /\ \E why \in {"connection refused", "unauthorized"} :
                 Exits(r, error_exit(TransportMessage(why)))
           /\ reply' = [reply EXCEPT ![r] = Unreached]
  <3>1. reply'[r] = Unreached
    BY <1>a, <2>2 DEF TypeOK
  <3>2. PICK code \in {1, 2, 3} : Exits(r, code)
    BY <2>2, TransportExits
  <3>3. UNCHANGED <<kind, wrote>> /\ Unreached # NoReply /\ reply[r].status = "none"
    BY <1>5, <2>2, ReplyValues DEF PostFails
  <3>4. code \notin {0, 4}
    BY <3>2
  <3>5. reply'[r] # NoReply /\ reply[r].status \notin {"ok", "error"}
    BY <3>1, <3>3
  <3> QED
    BY <1>3, <2>2, <3>2, <3>3, <3>4, <3>5
<2> QED
  BY <1>5, <2>1, <2>2 DEF PostFails
<1>6. ASSUME NEW r \in Runs, TimesOut(r) PROVE ExitInv'
  BY <1>3, <1>6, ExitValues DEF TimesOut, network
<1>7. ASSUME NEW r \in Runs, ReceiveFetch(r) PROVE ExitInv'
<2>1. kind[r] = "fetch" /\ UNCHANGED <<kind, wrote, reply>>
  BY <1>7 DEF ReceiveFetch, network
<2>2. CASE Exits(r, EXIT_VERIFICATION)
  BY <1>3, <2>1, <2>2
<2>3. CASE UNCHANGED exit
  BY <1>4, <2>1, <2>3
<2> QED
  BY <1>7, <2>2, <2>3 DEF ReceiveFetch, Goto
<1>8. ASSUME NEW r \in Runs, ReceivePush(r) PROVE ExitInv'
  BY <1>3, <1>8, ExitValues DEF ReceivePush, network
<1>9. ASSUME NEW r \in Runs, ReceiveError(r) PROVE ExitInv'
<2>1. /\ reply[r].status \in Statuses \ {"ok"} /\ UNCHANGED <<kind, wrote, reply>>
      /\ reply[r] # NoReply
  BY <1>9, ReplyValues DEF ReceiveError, network, Statuses
<2>2. CASE reply[r].mismatch /\ Exits(r, EXIT_VERIFICATION)
  BY <1>3, <2>1, <2>2, ExitValues
<2>3. CASE Exits(r, error_exit(envelope_error(reply[r])))
  BY <1>3, <2>1, <2>3, EnvelopeExits
<2> QED
  BY <1>9, <2>2, <2>3 DEF ReceiveError
<1>10. ASSUME NEW r \in Runs, Stage(r) PROVE ExitInv'
<2>1. kind[r] = "fetch" /\ UNCHANGED <<kind, wrote, reply>>
  BY <1>10, <1>a DEF Stage, OpenTmp, WriteTmp, Replace, OpenManifest, WriteManifest,
                     ReplaceManifest, RunFits, Staging, network
<2>2. UNCHANGED exit \/ \E code : Exits(r, code)
  BY <1>10 DEF Stage, OpenTmp, WriteTmp, Replace, OpenManifest, WriteManifest,
               ReplaceManifest, Goto
<2> QED
  BY <1>3, <1>4, <2>1, <2>2
<1>11. CASE (\E r \in Runs : Dies(r)) \/ UNCHANGED vars
  BY <1>4, <1>11 DEF Dies, vars, network
<1> QED
  BY <1>1, <1>2, <1>5, <1>6, <1>7, <1>8, <1>9, <1>10, <1>11 DEF Next, Receive, AllDone

\* Exit 3 and exit 4 of a push are final: the broker has not carried it out and
\* never will, whatever is lost on the way; exit 0 says it has.
THEOREM ExitsTrue == Spec => []ExitsTruthful
<1>1. Init => ExitInv
  BY ExitValues, ReplyValues DEF Init, ExitInv, ExitTold
<1>2. ExitInv => ExitsTruthful
  BY DEF ExitInv, ExitTold, ExitsTruthful
<1> QED
  BY <1>1, <1>2, TypeInit, TypeStep, ExitStep, PTL DEF Spec

-----------------------------------------------------------------------------
(***************************************************************************)
(* Staging.                                                                *)
(***************************************************************************)

\* A run that is past a stage of its own digest, dead or not.
Late == {"writeManifest", "replaceManifest", "done", "dead"}
Renamed == {"openManifest", "writeManifest", "replaceManifest", "done", "dead"}

FetchOf(r, d) == kind[r] = "fetch" /\ body[r] = d

\* Run p has inode i of digest d open, and has not written it or never will.
Writing(p, i, d) == FetchOf(p, d) /\ fd[p] = i /\ pc[p] \in {"write", "dead"}

Verified ==
    /\ \A r \in Runs : pc[r] \in Staging => reply[r].content = body[r] /\ reply[r].sha = body[r]
    /\ VerifiedBeforeStaged

\* What is named for a digest was created by a fetch of it.
ContentOf(d, i) == FetchOf(i, d) /\ pc[i] \in {"write", "replace"} \cup Renamed

Content(d) ==
    /\ \A i \in Runs : i \in {tmp[d], entry[d]} => ContentOf(d, i)
    /\ tmp[d] # None => tmp[d] # entry[d]
    /\ tmp[d] # None /\ data[tmp[d]] # d => \E p \in Runs : Writing(p, tmp[d], d)
    /\ entry[d] # None /\ data[entry[d]] # d =>
          \E p, q \in Runs : p # q /\ Writing(p, entry[d], d) /\ FetchOf(q, d) /\ pc[q] \in Renamed

\* Run p had inode i open for a manifest.
Opener(p, i) == fd[p] = i /\ pc[p] \in Late

ManifestOf(d, i) == FetchOf(i, d) /\ Opener(i, i)

Text(d) ==
    /\ \A i \in Runs : i \in {manifestTmp[d], manifest[d]} => ManifestOf(d, i)
    /\ manifestTmp[d] # None => manifestTmp[d] # manifest[d]
    /\ LET i == manifestTmp[d] IN
       i # None => \/ \E p \in Runs \ {i} : Opener(p, i)
                   \/ /\ pc[i] = "writeManifest" => text[i] = Empty
                      /\ pc[i] = "replaceManifest" => text[i] \in Resources
    /\ manifest[d] # None => \E q \in Runs : FetchOf(q, d) /\ pc[q] = "done"
    /\ manifest[d] # None /\ text[manifest[d]] \notin Resources =>
          \E p, q \in Runs : p # q /\ Opener(p, manifest[d]) /\ FetchOf(q, d) /\ pc[q] = "done"

\* An open file is its digest's.
OpenFile(r) ==
    /\ pc[r] \in {"write", "replace"} => ContentOf(body[r], fd[r])
    /\ pc[r] \in {"writeManifest", "replaceManifest"} => ManifestOf(body[r], fd[r])

\* What a manifest promises is there, from the rename of the content on.
Complete ==
    /\ \A r \in Runs : /\ pc[r] \in {"openManifest", "writeManifest", "replaceManifest"} =>
                             entry[body[r]] # None
                       /\ exit[r] # NoExit => pc[r] = "done"
                       /\ exit[r] = EXIT_OK /\ kind[r] = "fetch" => body[r] \in Contents
    /\ StagedComplete

StagingInv ==
    /\ Verified
    /\ \A d \in Contents : Content(d) /\ Text(d)
    /\ \A r \in Runs : OpenFile(r)
    /\ Complete

LEMMA Nothing == None \notin Runs /\ None \notin Contents
  BY ClientAssumption

\* A step outside of staging: it names, writes and opens no file, a run that has
\* its content keeps it, and none of them comes to rename anything.
Quiet ==
    /\ UNCHANGED staging
    /\ \A r \in Runs :
        /\ pc[r] \notin {"idle", "calling"} => kind'[r] = kind[r] /\ body'[r] = body[r]
        /\ \/ pc'[r] = pc[r]
           \/ pc[r] # "done" /\ pc'[r] = "dead"
           \/ pc[r] \in {"idle", "calling"} /\ pc'[r] \in {"calling", "open", "done"}

LEMMA QuietOrStage ==
  ASSUME TypeInv, [Next]_vars
  PROVE  Quiet \/ \E r \in Runs : Stage(r)
<1>a. TypeOK
  BY DEF TypeInv
<1>1. ASSUME NEW r \in Runs, NEW node \in Resources,
             Fetch(r, node) \/ \E content \in Stored : Push(r, node, content)
      PROVE  Quiet
  BY <1>1, <1>a DEF Fetch, Push, Starts, Calls, Goto, Exits, Quiet, TypeOK
<1>2. ASSUME NEW r \in Runs, Serve(r) PROVE Quiet
<2>1. UNCHANGED <<pc, kind, body, staging>>
  BY <1>2 DEF Serve
<2> QED
  BY <2>1 DEF Quiet
<1>3. ASSUME NEW r \in Runs, PostFails(r) \/ TimesOut(r) \/ Receive(r) \/ Dies(r) PROVE Quiet
<2>1. /\ UNCHANGED <<kind, staging>>
      /\ pc[r] = "calling" \/ body' = body
      /\ \A q \in Runs \ {r} : body'[q] = body[q]
      /\ \/ pc[r] = "calling" /\ Goto(r, "open")
         \/ pc[r] = "calling" /\ \E code : Exits(r, code)
         \/ pc[r] # "done" /\ pc' = [pc EXCEPT ![r] = "dead"]
  BY <1>3, <1>a DEF PostFails, TimesOut, Receive, ReceiveFetch, ReceivePush, ReceiveError, Dies,
                    InFlight, network, TypeOK
<2> QED
  BY <2>1, <1>a DEF Quiet, Goto, Exits, TypeOK
<1>4. CASE UNCHANGED vars
  BY <1>4 DEF vars, Quiet
<1> QED
  BY <1>1, <1>2, <1>3, <1>4 DEF Next, AllDone

\* A run that was or comes to be at work on a digest stays a fetch of it.
LEMMA QuietRuns ==
  ASSUME Quiet, NEW d \in Contents, NEW r \in Runs
  PROVE  /\ FetchOf(r, d) /\ pc[r] \notin {"idle", "calling"} => FetchOf(r, d)'
         /\ pc[r] \in Late => pc'[r] = pc[r] \/ (pc[r] # "done" /\ pc'[r] = "dead")
         /\ pc[r] \in Renamed => pc'[r] \in Renamed
<1>1. FetchOf(r, d) /\ pc[r] \notin {"idle", "calling"} => FetchOf(r, d)'
  BY DEF Quiet, FetchOf
<1>2. \/ pc'[r] = pc[r]
      \/ pc[r] # "done" /\ pc'[r] = "dead"
      \/ pc[r] \in {"idle", "calling"}
  BY DEF Quiet
<1>3. pc[r] \in Late => pc'[r] = pc[r] \/ (pc[r] # "done" /\ pc'[r] = "dead")
  BY <1>2 DEF Late
<1>4. pc[r] \in Renamed => pc'[r] \in Renamed
  BY <1>2 DEF Renamed
<1> QED
  BY <1>1, <1>3, <1>4

LEMMA QuietContent ==
  ASSUME Quiet, NEW d \in Contents, Content(d), {tmp[d], entry[d]} \subseteq Files
  PROVE  Content(d)'
<1>a. UNCHANGED <<tmp, entry, data, fd>>
  BY DEF Quiet, staging
<1>1. ASSUME NEW i \in Runs, ContentOf(d, i) PROVE ContentOf(d, i)'
  BY <1>1, QuietRuns DEF ContentOf, Quiet, FetchOf, Renamed
<1>2. ASSUME NEW i, NEW p \in Runs, Writing(p, i, d) PROVE Writing(p, i, d)'
  BY <1>2, <1>a, QuietRuns DEF Writing, Quiet, FetchOf
<1>3. ASSUME NEW q \in Runs, FetchOf(q, d), pc[q] \in Renamed
      PROVE  FetchOf(q, d)' /\ pc'[q] \in Renamed
  BY <1>3, QuietRuns DEF Renamed
<1> QED
  BY <1>a, <1>1, <1>2, <1>3 DEF Content

LEMMA QuietText ==
  ASSUME Quiet, NEW d \in Contents, Text(d), manifestTmp[d] \in Files
  PROVE  Text(d)'
<1>a. UNCHANGED <<manifestTmp, manifest, text, fd>>
  BY DEF Quiet, staging
<1>1. ASSUME NEW i, NEW p \in Runs, Opener(p, i) PROVE Opener(p, i)'
  BY <1>1, <1>a, QuietRuns DEF Opener, Late
<1>2. ASSUME NEW i \in Runs, ManifestOf(d, i) PROVE ManifestOf(d, i)'
  BY <1>1, <1>2, QuietRuns DEF ManifestOf, Opener, Late
<1>3. ASSUME NEW q \in Runs, FetchOf(q, d), pc[q] = "done"
      PROVE  FetchOf(q, d)' /\ pc'[q] = "done"
  BY <1>3, QuietRuns DEF Late
<1>4. ASSUME NEW i \in Runs, ManifestOf(d, i)
      PROVE  /\ pc'[i] = "writeManifest" => pc[i] = "writeManifest"
             /\ pc'[i] = "replaceManifest" => pc[i] = "replaceManifest"
  BY <1>4, QuietRuns DEF ManifestOf, Opener, Late
<1>5. manifestTmp[d] # None => ManifestOf(d, manifestTmp[d])
  BY DEF Text, Files
<1> QED
  BY <1>a, <1>1, <1>2, <1>3, <1>4, <1>5 DEF Text, Files

\* What every step of staging keeps of the runs.
LEMMA StageRuns ==
  ASSUME TypeInv, NEW r \in Runs, Stage(r)
  PROVE  /\ TypeOK /\ body[r] \in Contents /\ resource[r] \in Resources /\ kind[r] = "fetch"
         /\ UNCHANGED <<network, kind, resource, body>>
         /\ pc[r] \in Staging
         /\ \A q \in Runs \ {r} : pc'[q] = pc[q] /\ fd'[q] = fd[q]
         /\ \A q \in Runs, d \in Contents : FetchOf(q, d)' <=> FetchOf(q, d)
         /\ \A q \in Runs \ {r}, d \in Contents : \A i :
              /\ Writing(q, i, d)' <=> Writing(q, i, d)
              /\ Opener(q, i)' <=> Opener(q, i)
<1>1. TypeOK /\ RunFits(r)
  BY DEF TypeInv, Fits
<1>2. pc[r] \in Staging
  BY DEF Stage, OpenTmp, WriteTmp, Replace, OpenManifest, WriteManifest, ReplaceManifest, Staging
<1>3. body[r] \in Contents /\ resource[r] \in Resources /\ kind[r] = "fetch"
  BY <1>1, <1>2 DEF RunFits, Staging
<1>4. UNCHANGED <<network, kind, resource, body>>
  BY DEF Stage, OpenTmp, WriteTmp, Replace, OpenManifest, WriteManifest, ReplaceManifest
<1>5. \A q \in Runs \ {r} : pc'[q] = pc[q]
  BY <1>1 DEF Stage, OpenTmp, WriteTmp, Replace, OpenManifest, WriteManifest, ReplaceManifest,
              Goto, Exits, TypeOK
<1>6. \A q \in Runs \ {r} : fd'[q] = fd[q]
  BY <1>1 DEF Stage, OpenTmp, WriteTmp, Replace, OpenManifest, WriteManifest, ReplaceManifest,
              TypeOK
<1>7. \A q \in Runs, d \in Contents : FetchOf(q, d)' <=> FetchOf(q, d)
  BY <1>4 DEF FetchOf
<1>8. \A q \in Runs \ {r}, d \in Contents : \A i :
         /\ Writing(q, i, d)' <=> Writing(q, i, d)
         /\ Opener(q, i)' <=> Opener(q, i)
  BY <1>5, <1>6, <1>7 DEF Writing, Opener
<1> QED
  BY <1>1, <1>2, <1>3, <1>4, <1>5, <1>6, <1>7, <1>8

LEMMA StageContent ==
  ASSUME TypeInv, NEW r \in Runs, Stage(r), OpenFile(r), \A e \in Contents : Content(e),
         NEW d \in Contents
  PROVE  Content(d)'
<1>a. /\ TypeOK /\ body[r] \in Contents /\ kind[r] = "fetch"
      /\ \A q \in Runs \ {r} : pc'[q] = pc[q] /\ fd'[q] = fd[q]
      /\ \A q \in Runs, e \in Contents : FetchOf(q, e)' <=> FetchOf(q, e)
      /\ \A q \in Runs \ {r}, e \in Contents : \A i : Writing(q, i, e)' <=> Writing(q, i, e)
  BY StageRuns
<1>b. {tmp[d], entry[d]} \subseteq Files /\ Content(d) /\ None \notin Runs
  BY <1>a, Nothing DEF TypeOK
\* The names and what they name stay, and so does every run the invariant speaks of.
<1>c. ASSUME tmp'[d] = tmp[d], entry'[d] = entry[d],
             \A i \in Runs : i \in {tmp[d], entry[d]} => data'[i] = data[i],
             pc[r] \in {"write", "dead"} =>
                \A i \in Runs : i \in {tmp[d], entry[d]} => fd[r] # i,
             pc[r] # "open" => pc'[r] \in {"write", "replace"} \cup Renamed,
             pc[r] \in Renamed => pc'[r] \in Renamed
      PROVE  Content(d)'
<2>1. ASSUME NEW i \in Runs, ContentOf(d, i) PROVE ContentOf(d, i)'
  BY <1>a, <1>c, <2>1 DEF ContentOf, Renamed
<2>2. ASSUME NEW i \in Runs, i \in {tmp[d], entry[d]}, NEW p \in Runs, Writing(p, i, d)
      PROVE  Writing(p, i, d)'
  BY <1>a, <1>c, <2>2 DEF Writing
<2>3. ASSUME NEW q \in Runs, FetchOf(q, d), pc[q] \in Renamed
      PROVE  FetchOf(q, d)' /\ pc'[q] \in Renamed
  BY <1>a, <1>c, <2>3
<2>4. \A i \in Runs : i \in {tmp[d], entry[d]}' => ContentOf(d, i)'
  BY <1>b, <1>c, <2>1 DEF Content
<2>5. tmp'[d] # None => tmp'[d] # entry'[d]
  BY <1>b, <1>c DEF Content
<2>6. tmp'[d] # None /\ data'[tmp'[d]] # d => \E p \in Runs : Writing(p, tmp[d], d)'
  BY <1>b, <1>c, <2>2 DEF Content, Files
<2>7. entry'[d] # None /\ data'[entry'[d]] # d =>
        \E p, q \in Runs :
            p # q /\ Writing(p, entry[d], d)' /\ FetchOf(q, d)' /\ pc'[q] \in Renamed
  BY <1>b, <1>c, <2>2, <2>3 DEF Content, Files
<2> QED
  BY <1>c, <2>4, <2>5, <2>6, <2>7 DEF Content, Writing, FetchOf
<1>1. CASE OpenTmp(r)
<2>2. PICK i \in Runs : i = Opened(tmp, r) /\ (i = r \/ i = tmp[body[r]])
  BY <1>a DEF Opened, TypeOK, Files
<2>1. /\ pc[r] = "open" /\ pc'[r] = "write" /\ fd'[r] = i
      /\ tmp' = [tmp EXCEPT ![body[r]] = i] /\ entry' = entry
      /\ data' = [data EXCEPT ![i] = Empty]
  BY <1>1, <1>a, <2>2 DEF OpenTmp, Goto, TypeOK
<2>3. \A e \in Contents, j \in Runs : j \in {tmp[e], entry[e]} => FetchOf(j, e) /\ j # r
  BY <2>1 DEF Content, ContentOf, Renamed
<2>4. CASE d # body[r]
  <3>1. \A j \in Runs : j \in {tmp[d], entry[d]} => j # i
    BY <1>a, <2>2, <2>3, <2>4 DEF FetchOf
  <3> QED
    BY <1>a, <1>c, <2>1, <2>4, <3>1 DEF TypeOK, Renamed
<2>5. CASE d = body[r]
  <3>1. tmp'[d] = i /\ entry'[d] = entry[d] /\ i # entry[d]
    BY <1>a, <1>b, <2>1, <2>2, <2>3, <2>5 DEF TypeOK, Content
  <3>2. \A j \in Runs : ContentOf(d, j) => ContentOf(d, j)'
    BY <1>a, <2>1 DEF ContentOf, Renamed
  <3>3. ContentOf(d, i)'
    BY <1>a, <1>b, <2>1, <2>2, <2>5, <3>2 DEF Content, ContentOf, FetchOf
  <3>4. Writing(r, i, d)'
    BY <1>a, <2>1, <2>5 DEF Writing, FetchOf
  <3>5. entry'[d] # None => data'[entry'[d]] = data[entry[d]]
    BY <1>a, <1>b, <2>1, <2>2, <3>1 DEF TypeOK, Files
  <3>6. \A p \in Runs : \A j : Writing(p, j, d) => Writing(p, j, d)'
    BY <1>a, <2>1 DEF Writing
  <3>7. \A q \in Runs : FetchOf(q, d) /\ pc[q] \in Renamed => FetchOf(q, d)' /\ pc'[q] \in Renamed
    BY <1>a, <2>1 DEF Renamed
  <3>8. entry'[d] # None /\ data'[entry'[d]] # d =>
          \E p, q \in Runs :
              p # q /\ Writing(p, entry[d], d)' /\ FetchOf(q, d)' /\ pc'[q] \in Renamed
    BY <1>b, <3>1, <3>5, <3>6, <3>7 DEF Content, Files
  <3>9. \A j \in Runs : j \in {tmp'[d], entry'[d]} => ContentOf(d, j)'
    BY <1>b, <3>1, <3>2, <3>3 DEF Content
  <3> QED
    BY <3>1, <3>4, <3>8, <3>9 DEF Content, Writing, FetchOf
<2> QED
  BY <2>4, <2>5
<1>2. CASE WriteTmp(r)
<2>1. /\ pc[r] = "write" /\ pc'[r] = "replace" /\ UNCHANGED <<tmp, entry, fd>>
      /\ data' = [data EXCEPT ![fd[r]] = body[r]]
      /\ ContentOf(body[r], fd[r])
  BY <1>2, <1>a DEF WriteTmp, Goto, TypeOK, OpenFile
<2>2. ASSUME NEW j \in Runs, j \in {tmp[d], entry[d]}
      PROVE  data'[j] = d \/ (data'[j] = data[j] /\ fd[r] # j)
  BY <1>a, <1>b, <2>1, <2>2 DEF Content, ContentOf, FetchOf, TypeOK
<2>3. \A j \in Runs : ContentOf(d, j) => ContentOf(d, j)'
  BY <1>a, <2>1 DEF ContentOf, Renamed
<2>4. \A j, p \in Runs : Writing(p, j, d) /\ fd[r] # j => Writing(p, j, d)'
  BY <1>a DEF Writing
<2>5. \A q \in Runs : FetchOf(q, d) /\ pc[q] \in Renamed => FetchOf(q, d)' /\ pc'[q] \in Renamed
  BY <1>a, <2>1 DEF Renamed
<2>6. tmp'[d] # None /\ data'[tmp'[d]] # d => \E p \in Runs : Writing(p, tmp[d], d)'
  BY <1>b, <2>1, <2>2, <2>4 DEF Content, Files
<2>7. entry'[d] # None /\ data'[entry'[d]] # d =>
        \E p, q \in Runs :
            p # q /\ Writing(p, entry[d], d)' /\ FetchOf(q, d)' /\ pc'[q] \in Renamed
  BY <1>b, <2>1, <2>2, <2>4, <2>5 DEF Content, Files
<2> QED
  BY <1>b, <2>1, <2>3, <2>6, <2>7 DEF Content, Writing, FetchOf
<1>3. CASE Replace(r)
<2>1. pc[r] = "replace" /\ UNCHANGED <<data, fd>>
  BY <1>3 DEF Replace
<2>2. CASE tmp[body[r]] = None \/ d # body[r]
  <3>1. tmp'[d] = tmp[d] /\ entry'[d] = entry[d] /\ pc'[r] \in {"done", "openManifest"}
    BY <1>3, <1>a, <2>2 DEF Replace, TypeOK, Exits, Goto
  <3> QED
    BY <1>c, <2>1, <3>1 DEF Renamed
<2>3. CASE tmp[d] # None /\ d = body[r]
  <3>0. PICK i \in Runs : i = tmp[d]
    BY <1>b, <2>3 DEF Files
  <3>1. entry'[d] = i /\ tmp'[d] = None /\ pc'[r] = "openManifest"
    BY <1>3, <1>a, <2>3, <3>0 DEF Replace, TypeOK, Goto
  <3>2. ContentOf(d, i)'
    <4>1. ContentOf(d, i)
      BY <1>b, <3>0 DEF Content
    <4> QED
      BY <1>a, <3>1, <4>1 DEF ContentOf, Renamed
  <3>3. \A p \in Runs : Writing(p, i, d) => p # r /\ Writing(p, i, d)'
    BY <1>a, <2>1 DEF Writing
  <3>4. FetchOf(r, d)' /\ pc'[r] \in Renamed
    BY <1>a, <2>3, <3>1 DEF FetchOf, Renamed
  <3>5. data'[i] # d => \E p \in Runs : Writing(p, i, d)
    BY <1>b, <2>1, <2>3, <3>0 DEF Content
  <3>6. data'[i] # d => \E p, q \in Runs : /\ p # q /\ Writing(p, i, d)'
                                           /\ FetchOf(q, d)' /\ pc'[q] \in Renamed
    BY <3>3, <3>4, <3>5
  <3>7. \A j \in Runs : j \in {tmp'[d], entry'[d]} => ContentOf(d, j)'
    BY <1>b, <3>1, <3>2
  <3> QED
    BY <3>1, <3>6, <3>7 DEF Content, Writing, FetchOf
<2> QED
  BY <2>2, <2>3
<1>4. CASE OpenManifest(r) \/ WriteManifest(r) \/ ReplaceManifest(r)
<2>1. /\ UNCHANGED <<tmp, entry, data>>
      /\ pc[r] \in {"openManifest", "writeManifest", "replaceManifest"}
      /\ pc'[r] \in Renamed
  BY <1>4, <1>a DEF OpenManifest, WriteManifest, ReplaceManifest, Goto, Exits, TypeOK, Renamed
<2> QED
  BY <1>c, <2>1
<1> QED
  BY <1>1, <1>2, <1>3, <1>4 DEF Stage

LEMMA StageText ==
  ASSUME TypeInv, NEW r \in Runs, Stage(r), OpenFile(r), \A e \in Contents : Text(e),
         NEW d \in Contents
  PROVE  Text(d)'
<1>a. /\ TypeOK /\ body[r] \in Contents /\ resource[r] \in Resources /\ kind[r] = "fetch"
      /\ resource' = resource
      /\ \A q \in Runs \ {r} : pc'[q] = pc[q] /\ fd'[q] = fd[q]
      /\ \A q \in Runs, e \in Contents : FetchOf(q, e)' <=> FetchOf(q, e)
  BY StageRuns
<1>b. {manifestTmp[d], manifest[d]} \subseteq Files /\ Text(d) /\ None \notin Runs
  BY <1>a, Nothing DEF TypeOK
<1>o. \A q \in Runs \ {r} : \A i : Opener(q, i) => Opener(q, i)'
  BY <1>a DEF Opener
\* The names and what they name stay, and the run does not leave where it is late.
<1>c. ASSUME manifestTmp'[d] = manifestTmp[d], manifest'[d] = manifest[d],
             \A i \in Runs : i \in {manifestTmp[d], manifest[d]} => text'[i] = text[i],
             \A i : Opener(r, i) => Opener(r, i)',
             pc[r] # "writeManifest",
             pc'[r] = "done" \/ pc'[r] \notin Late
      PROVE  Text(d)'
<2>1. \A q \in Runs : \A i : Opener(q, i) => Opener(q, i)'
  BY <1>o, <1>c
<2>2. \A i \in Runs : ManifestOf(d, i) => ManifestOf(d, i)'
  BY <1>a, <2>1 DEF ManifestOf
<2>3. \A q \in Runs : FetchOf(q, d) /\ pc[q] = "done" => FetchOf(q, d)' /\ pc'[q] = "done"
  BY <1>a, <1>c DEF Opener, Late, Stage, OpenTmp, WriteTmp, Replace, OpenManifest, WriteManifest,
                    ReplaceManifest
<2>4. \A i \in Runs : pc'[i] \in {"writeManifest", "replaceManifest"} => pc[i] = pc'[i]
  BY <1>a, <1>c DEF Late
<2>5. \A i \in Runs : i \in {manifestTmp'[d], manifest'[d]} => ManifestOf(d, i)'
  BY <1>b, <1>c, <2>2 DEF Text
<2>6. ASSUME NEW i \in Runs, i = manifestTmp[d]
      PROVE  \/ \E p \in Runs \ {i} : Opener(p, i)'
             \/ /\ pc'[i] = "writeManifest" => text'[i] = Empty
                /\ pc'[i] = "replaceManifest" => text'[i] \in Resources
  BY <1>b, <1>c, <2>1, <2>4, <2>6 DEF Text
<2>7. manifest'[d] # None => \E q \in Runs : FetchOf(q, d)' /\ pc'[q] = "done"
  BY <1>b, <1>c, <2>3 DEF Text
<2>8. ASSUME NEW i \in Runs, i = manifest[d], text'[i] \notin Resources
      PROVE  \E p, q \in Runs : p # q /\ Opener(p, i)' /\ FetchOf(q, d)' /\ pc'[q] = "done"
  BY <1>b, <1>c, <2>1, <2>3, <2>8 DEF Text
<2>9. manifestTmp'[d] # None => manifestTmp'[d] # manifest'[d]
  BY <1>b, <1>c DEF Text
<2>10. {manifestTmp'[d], manifest'[d]} \subseteq Files
  BY <1>b, <1>c
<2> QED
  BY <1>c, <2>5, <2>6, <2>7, <2>8, <2>9, <2>10, Nothing
     DEF Text, Files, ManifestOf, Opener, FetchOf
<1>1. CASE OpenTmp(r) \/ WriteTmp(r) \/ Replace(r)
<2>1. /\ UNCHANGED <<manifestTmp, manifest, text>>
      /\ pc[r] \in {"open", "write", "replace"}
      /\ pc'[r] \in {"write", "replace", "openManifest", "done"}
  BY <1>1, <1>a DEF OpenTmp, WriteTmp, Replace, Goto, Exits, TypeOK
<2> QED
  BY <1>c, <2>1 DEF Opener, Late
<1>2. CASE OpenManifest(r)
<2>1. PICK i \in Runs : i = Opened(manifestTmp, r) /\ (i = r \/ i = manifestTmp[body[r]])
  BY <1>a DEF Opened, TypeOK, Files
<2>2. /\ pc[r] = "openManifest" /\ pc'[r] = "writeManifest" /\ fd'[r] = i
      /\ manifestTmp' = [manifestTmp EXCEPT ![body[r]] = i] /\ manifest' = manifest
      /\ text' = [text EXCEPT ![i] = Empty]
  BY <1>2, <1>a, <2>1 DEF OpenManifest, Goto, TypeOK
<2>3. \A q \in Runs : \A j : Opener(q, j) => Opener(q, j)' /\ q # r
  BY <1>o, <2>2 DEF Opener, Late
<2>4. \A e \in Contents, j \in Runs : j \in {manifestTmp[e], manifest[e]} => FetchOf(j, e) /\ j # r
  BY <2>3 DEF Text, ManifestOf
<2>5. \A q \in Runs : FetchOf(q, d) /\ pc[q] = "done" => FetchOf(q, d)' /\ pc'[q] = "done"
  BY <1>a, <2>2
<2>6. \A j \in Runs : ManifestOf(d, j) => ManifestOf(d, j)'
  BY <1>a, <2>3 DEF ManifestOf
<2>7. manifest'[d] # None => /\ manifest[d] # i /\ text'[manifest[d]] = text[manifest[d]]
                             /\ \E q \in Runs : FetchOf(q, d)' /\ pc'[q] = "done"
  <3>1. manifest[d] # None => manifest[d] # i
    BY <1>a, <1>b, <2>1, <2>4 DEF Text, FetchOf, Files
  <3> QED
    BY <1>a, <1>b, <2>1, <2>2, <2>5, <3>1 DEF Text, TypeOK, Files
<2>8. ASSUME NEW j \in Runs, j = manifest[d], text'[j] \notin Resources
      PROVE  \E p, q \in Runs : p # q /\ Opener(p, j)' /\ FetchOf(q, d)' /\ pc'[q] = "done"
  BY <1>b, <2>2, <2>3, <2>5, <2>7, <2>8, Nothing DEF Text
<2>9. CASE d # body[r]
  <3>1. manifestTmp'[d] = manifestTmp[d]
    BY <1>a, <2>2, <2>9 DEF TypeOK
  <3>2. manifestTmp[d] # i
    BY <1>a, <1>b, <2>1, <2>4, <2>9 DEF FetchOf
  <3>3. ASSUME NEW j \in Runs, j = manifestTmp[d]
        PROVE  \/ \E p \in Runs \ {j} : Opener(p, j)'
               \/ /\ pc'[j] = "writeManifest" => text'[j] = Empty
                  /\ pc'[j] = "replaceManifest" => text'[j] \in Resources
    <4>1. pc'[j] = pc[j] /\ text'[j] = text[j]
      BY <1>a, <2>2, <2>4, <3>2, <3>3 DEF TypeOK
    <4>2. manifestTmp[d] # None
      BY <3>3, Nothing
    <4> QED
      BY <1>b, <2>3, <3>3, <4>1, <4>2 DEF Text
  <3>4. \A j \in Runs : j \in {manifestTmp'[d], manifest'[d]} => ManifestOf(d, j)'
    BY <1>b, <2>2, <2>6, <3>1 DEF Text
  <3>5. /\ manifestTmp'[d] # None => manifestTmp'[d] # manifest'[d]
        /\ {manifestTmp'[d], manifest'[d]} \subseteq Files
    BY <1>b, <2>2, <3>1 DEF Text
  <3> QED
    BY <2>2, <2>7, <2>8, <3>1, <3>3, <3>4, <3>5, Nothing
       DEF Text, Files, ManifestOf, Opener, FetchOf
<2>10. CASE d = body[r]
  <3>1. manifestTmp'[d] = i /\ i # manifest'[d] /\ text'[i] = Empty
    BY <1>a, <1>b, <2>1, <2>2, <2>7, <2>10, Nothing DEF TypeOK
  <3>2. ManifestOf(d, i)'
    <4>1. CASE i = r
      BY <1>a, <2>2, <2>10, <4>1 DEF ManifestOf, Opener, FetchOf, Late
    <4>2. CASE i = manifestTmp[d]
      BY <1>b, <2>6, <4>2 DEF Text
    <4> QED
      BY <2>1, <2>10, <4>1, <4>2
  <3>3. \/ \E p \in Runs \ {i} : Opener(p, i)'
        \/ /\ pc'[i] = "writeManifest" => text'[i] = Empty
           /\ pc'[i] = "replaceManifest" => text'[i] \in Resources
    <4>1. i # r => Opener(r, i)'
      BY <2>2 DEF Opener, Late
    <4> QED
      BY <2>2, <3>1, <4>1
  <3>4. \A j \in Runs : j \in {manifestTmp'[d], manifest'[d]} => ManifestOf(d, j)'
    BY <1>b, <2>2, <2>6, <3>1, <3>2 DEF Text
  <3>5. {manifestTmp'[d], manifest'[d]} \subseteq Files
    BY <1>b, <2>2, <3>1 DEF Files
  <3> QED
    BY <2>2, <2>7, <2>8, <3>1, <3>3, <3>4, <3>5, Nothing
       DEF Text, Files, ManifestOf, Opener, FetchOf
<2> QED
  BY <2>9, <2>10
<1>3. CASE WriteManifest(r)
<2>1. PICK i \in Runs : i = fd[r]
  BY <1>3, <1>a DEF WriteManifest, OpenFile, ManifestOf, FetchOf, Opener, TypeInv, Fits, RunFits
<2>2. /\ pc[r] = "writeManifest" /\ pc'[r] = "replaceManifest"
      /\ UNCHANGED <<manifestTmp, manifest, fd>>
      /\ \A j \in Runs \ {i} : text'[j] = text[j]
      /\ text[i] = Empty => text'[i] \in Resources
      /\ ManifestOf(body[r], i)
  BY <1>3, <1>a, <2>1 DEF WriteManifest, Goto, TypeOK, OpenFile
<2>3. \A q \in Runs : \A j : Opener(q, j) => Opener(q, j)'
  BY <1>o, <2>2 DEF Opener, Late
<2>4. \A j \in Runs : ManifestOf(d, j) => ManifestOf(d, j)'
  BY <1>a, <2>3 DEF ManifestOf
<2>5. \A q \in Runs : FetchOf(q, d) /\ pc[q] = "done" =>
         q # r /\ FetchOf(q, d)' /\ pc'[q] = "done"
  BY <1>a, <2>2
<2>6. \A j \in Runs : j \in {manifestTmp[d], manifest[d]} => ManifestOf(d, j)
  BY <1>b DEF Text
<2>7. Opener(r, i)'
  BY <2>1, <2>2 DEF Opener, Late
<2>8. ASSUME NEW j \in Runs, j = manifestTmp[d]
      PROVE  \/ \E p \in Runs \ {j} : Opener(p, j)'
             \/ /\ pc'[j] = "writeManifest" => text'[j] = Empty
                /\ pc'[j] = "replaceManifest" => text'[j] \in Resources
  <3>1. \/ \E p \in Runs \ {j} : Opener(p, j)
        \/ /\ pc[j] = "writeManifest" => text[j] = Empty
           /\ pc[j] = "replaceManifest" => text[j] \in Resources
    BY <1>b, <2>8, Nothing DEF Text
  <3>2. CASE \E p \in Runs \ {j} : Opener(p, j)
    BY <2>3, <3>2
  <3>3. CASE j = i /\ j # r
    BY <2>7, <3>3
  <3>4. CASE j = i /\ j = r /\ text[j] = Empty
    BY <2>2, <3>4
  <3>5. CASE /\ j # i
             /\ pc[j] = "writeManifest" => text[j] = Empty
             /\ pc[j] = "replaceManifest" => text[j] \in Resources
    <4>1. j # r
      BY <2>1, <2>6, <2>8, <3>5 DEF ManifestOf, Opener
    <4> QED
      BY <1>a, <2>2, <3>5, <4>1
  <3> QED
    BY <2>2, <3>1, <3>2, <3>3, <3>4, <3>5
<2>9. manifest'[d] # None => \E q \in Runs : FetchOf(q, d)' /\ pc'[q] = "done"
  BY <1>b, <2>2, <2>5 DEF Text
<2>10. ASSUME NEW j \in Runs, j = manifest[d], text'[j] \notin Resources
       PROVE  \E p, q \in Runs : p # q /\ Opener(p, j)' /\ FetchOf(q, d)' /\ pc'[q] = "done"
  <3>1. CASE j = i
    <4>1. PICK q \in Runs : FetchOf(q, d) /\ pc[q] = "done"
      BY <1>b, <2>10, Nothing DEF Text
    <4> QED
      BY <2>5, <2>7, <3>1, <4>1
  <3>2. CASE j # i
    <4>1. text[j] \notin Resources
      BY <2>2, <2>10, <3>2
    <4>2. PICK p, q \in Runs : p # q /\ Opener(p, j) /\ FetchOf(q, d) /\ pc[q] = "done"
      BY <1>b, <2>10, <4>1, Nothing DEF Text
    <4> QED
      BY <2>3, <2>5, <4>2
  <3> QED
    BY <3>1, <3>2
<2>11. \A j \in Runs : j \in {manifestTmp'[d], manifest'[d]} => ManifestOf(d, j)'
  BY <2>2, <2>4, <2>6
<2>12. /\ manifestTmp'[d] # None => manifestTmp'[d] # manifest'[d]
       /\ {manifestTmp'[d], manifest'[d]} \subseteq Files
  BY <1>b, <2>2 DEF Text
<2> QED
  BY <2>2, <2>8, <2>9, <2>10, <2>11, <2>12, Nothing DEF Text, Files, ManifestOf, Opener, FetchOf
<1>4. CASE ReplaceManifest(r)
<2>1. pc[r] = "replaceManifest" /\ pc'[r] = "done" /\ UNCHANGED <<text, fd>>
  BY <1>4, <1>a DEF ReplaceManifest, Exits, TypeOK
<2>2. CASE manifestTmp[body[r]] = None \/ d # body[r]
  <3>1. manifestTmp'[d] = manifestTmp[d] /\ manifest'[d] = manifest[d]
    BY <1>4, <1>a, <2>2 DEF ReplaceManifest, TypeOK
  <3> QED
    BY <1>c, <2>1, <3>1 DEF Opener, Late
<2>3. CASE manifestTmp[d] # None /\ d = body[r]
  <3>0. PICK i \in Runs : i = manifestTmp[d]
    BY <1>b, <2>3 DEF Files
  <3>1. manifest'[d] = i /\ manifestTmp'[d] = None
    BY <1>4, <1>a, <2>3, <3>0 DEF ReplaceManifest, TypeOK
  <3>2. \A q \in Runs : \A j : Opener(q, j) => Opener(q, j)'
    BY <1>o, <2>1 DEF Opener, Late
  <3>3. ManifestOf(d, i)
    BY <1>b, <3>0 DEF Text
  <3>4. ManifestOf(d, i)' /\ Opener(i, i)'
    BY <1>a, <3>2, <3>3 DEF ManifestOf
  <3>5. FetchOf(r, d)'
    BY <1>a, <2>3 DEF FetchOf
  <3>6. text'[i] \notin Resources => \E p \in Runs : p # r /\ Opener(p, i)'
    <4>1. CASE i # r
      BY <3>4, <4>1
    <4>2. CASE i = r /\ text[i] \notin Resources
      <5>1. \E p \in Runs \ {i} : Opener(p, i)
        BY <1>b, <2>1, <2>3, <3>0, <4>2 DEF Text
      <5> QED
        BY <3>2, <4>2, <5>1
    <4> QED
      BY <2>1, <4>1, <4>2
  <3>7. \A j \in Runs : j \in {manifestTmp'[d], manifest'[d]} => ManifestOf(d, j)'
    BY <1>b, <3>1, <3>4
  <3> QED
    BY <2>1, <3>1, <3>5, <3>6, <3>7 DEF Text, ManifestOf, Opener, FetchOf
<2> QED
  BY <2>2, <2>3
<1> QED
  BY <1>1, <1>2, <1>3, <1>4 DEF Stage

LEMMA OpenFilesStep ==
  ASSUME TypeInv, [Next]_vars, \A d \in Contents : Content(d) /\ Text(d),
         \A r \in Runs : OpenFile(r)
  PROVE  \A r \in Runs : OpenFile(r)'
<1>a. TypeOK /\ None \notin Runs
  BY Nothing DEF TypeInv
<1>b. \A q \in Runs : pc[q] \in {"write", "replace", "writeManifest", "replaceManifest"} =>
                         fd[q] \in Runs /\ body[q] \in Contents
  BY DEF TypeInv, Fits, RunFits, Staging
<1>1. ASSUME Quiet, NEW r \in Runs PROVE OpenFile(r)'
<2>1. pc'[r] \in {"write", "replace", "writeManifest", "replaceManifest"} =>
         pc'[r] = pc[r] /\ body'[r] = body[r] /\ fd'[r] = fd[r]
  BY <1>1 DEF Quiet, staging
<2>2. ASSUME NEW i \in Runs, NEW d \in Contents, ContentOf(d, i) PROVE ContentOf(d, i)'
  BY <1>1, <2>2, QuietRuns DEF ContentOf, Quiet, FetchOf, Renamed
<2>3. ASSUME NEW i \in Runs, NEW d \in Contents, ManifestOf(d, i) PROVE ManifestOf(d, i)'
  BY <1>1, <2>3, QuietRuns DEF ManifestOf, Opener, Late, Quiet, staging
<2>4. pc'[r] \in {"write", "replace"} => ContentOf(body'[r], fd'[r])
  BY <2>1 DEF OpenFile
<2>5. ASSUME pc'[r] \in {"write", "replace"} PROVE ContentOf(body[r], fd[r])'
  <3>1. PICK i \in Runs, d \in Contents : i = fd[r] /\ d = body[r]
    BY <1>b, <2>1, <2>5
  <3>2. ContentOf(d, i)'
    BY <2>1, <2>2, <2>5, <3>1 DEF OpenFile
  <3> QED
    BY <2>1, <2>5, <3>1, <3>2 DEF ContentOf, FetchOf
<2>6. ASSUME pc'[r] \in {"writeManifest", "replaceManifest"} PROVE ManifestOf(body[r], fd[r])'
  <3>1. PICK i \in Runs, d \in Contents : i = fd[r] /\ d = body[r]
    BY <1>b, <2>1, <2>6
  <3>2. ManifestOf(d, i)'
    BY <2>1, <2>3, <2>6, <3>1 DEF OpenFile
  <3> QED
    BY <2>1, <2>6, <3>1, <3>2 DEF ManifestOf, Opener, FetchOf
<2> QED
  BY <2>5, <2>6 DEF OpenFile
<1>2. ASSUME NEW r \in Runs, Stage(r), NEW q \in Runs PROVE OpenFile(q)'
<2>1. /\ body[r] \in Contents /\ kind[r] = "fetch" /\ body' = body
      /\ \A s \in Runs \ {r} : pc'[s] = pc[s] /\ fd'[s] = fd[s]
      /\ \A s \in Runs, d \in Contents : FetchOf(s, d)' <=> FetchOf(s, d)
  BY <1>2, StageRuns
<2>2. /\ pc[r] # "open" => pc'[r] \in {"write", "replace"} \cup Renamed
      /\ pc[r] \in Late => pc'[r] \in Late /\ fd'[r] = fd[r]
  BY <1>2, <1>a DEF Stage, OpenTmp, WriteTmp, Replace, OpenManifest, WriteManifest,
                    ReplaceManifest, Goto, Exits, TypeOK, Renamed, Late
<2>3. ASSUME NEW i \in Runs, NEW d \in Contents, ContentOf(d, i) PROVE ContentOf(d, i)'
  BY <2>1, <2>2, <2>3 DEF ContentOf, Renamed
<2>4. ASSUME NEW i \in Runs, NEW d \in Contents, ManifestOf(d, i) PROVE ManifestOf(d, i)'
  BY <2>1, <2>2, <2>4 DEF ManifestOf, Opener
<2>5. CASE q # r \/ pc'[r] \in {"replace", "replaceManifest"}
  <3>1. \/ pc'[q] = pc[q]
        \/ pc'[q] = "replace" /\ pc[q] = "write"
        \/ pc'[q] = "replaceManifest" /\ pc[q] = "writeManifest"
    BY <1>2, <1>a, <2>1, <2>5 DEF Stage, OpenTmp, WriteTmp, Replace, OpenManifest,
                                  WriteManifest, ReplaceManifest, Goto, Exits, TypeOK
  <3>2. fd'[q] = fd[q]
    BY <1>2, <1>a, <2>1, <2>5 DEF Stage, OpenTmp, WriteTmp, Replace, OpenManifest,
                                  WriteManifest, ReplaceManifest, Goto, Exits, TypeOK
  <3>3. ASSUME pc'[q] \in {"write", "replace"} PROVE ContentOf(body[q], fd[q])'
    <4>1. PICK i \in Runs, d \in Contents : i = fd[q] /\ d = body[q]
      BY <1>b, <3>1, <3>3
    <4>2. ContentOf(d, i)'
      BY <2>3, <3>1, <3>3, <4>1 DEF OpenFile
    <4> QED
      BY <2>1, <3>2, <4>1, <4>2 DEF ContentOf, FetchOf
  <3>4. ASSUME pc'[q] \in {"writeManifest", "replaceManifest"} PROVE ManifestOf(body[q], fd[q])'
    <4>1. PICK i \in Runs, d \in Contents : i = fd[q] /\ d = body[q]
      BY <1>b, <3>1, <3>4
    <4>2. ManifestOf(d, i)'
      BY <2>4, <3>1, <3>4, <4>1 DEF OpenFile
    <4> QED
      BY <2>1, <3>2, <4>1, <4>2 DEF ManifestOf, Opener, FetchOf
  <3> QED
    BY <3>3, <3>4 DEF OpenFile
<2>6. CASE q = r /\ OpenTmp(r)
  <3>1. PICK i \in Runs : i = Opened(tmp, r) /\ (i = r \/ i = tmp[body[r]])
    BY <1>a, <2>1 DEF Opened, TypeOK, Files
  <3>2. pc'[r] = "write" /\ fd'[r] = i
    BY <1>a, <2>6, <3>1 DEF OpenTmp, Goto, TypeOK
  <3>3. PICK d \in Contents : d = body[r]
    BY <2>1
  <3>4. ContentOf(d, i)'
    <4>1. CASE i = r
      BY <2>1, <3>2, <3>3, <4>1 DEF ContentOf, FetchOf
    <4>2. CASE i = tmp[d]
      BY <2>3, <4>2 DEF Content
    <4> QED
      BY <3>1, <3>3, <4>1, <4>2
  <3> QED
    BY <2>1, <2>6, <3>2, <3>3, <3>4 DEF OpenFile, ContentOf, FetchOf
<2>7. CASE q = r /\ OpenManifest(r)
  <3>1. PICK i \in Runs : i = Opened(manifestTmp, r) /\ (i = r \/ i = manifestTmp[body[r]])
    BY <1>a, <2>1 DEF Opened, TypeOK, Files
  <3>2. pc'[r] = "writeManifest" /\ fd'[r] = i
    BY <1>a, <2>7, <3>1 DEF OpenManifest, Goto, TypeOK
  <3>3. PICK d \in Contents : d = body[r]
    BY <2>1
  <3>4. ManifestOf(d, i)'
    <4>1. CASE i = r
      BY <2>1, <3>2, <3>3, <4>1 DEF ManifestOf, Opener, FetchOf, Late
    <4>2. CASE i = manifestTmp[d]
      BY <2>4, <4>2 DEF Text
    <4> QED
      BY <3>1, <3>3, <4>1, <4>2
  <3> QED
    BY <2>1, <2>7, <3>2, <3>3, <3>4 DEF OpenFile, ManifestOf, Opener, FetchOf
<2>8. CASE q = r /\ pc'[r] \notin {"write", "replace", "writeManifest", "replaceManifest"}
  BY <2>8 DEF OpenFile
<2>9. /\ pc'[r] = "write" => OpenTmp(r)
      /\ pc'[r] = "writeManifest" => OpenManifest(r)
  <3>1. OpenTmp(r) => pc'[r] = "write"
    BY <1>a DEF OpenTmp, Goto, TypeOK
  <3>2. OpenManifest(r) => pc'[r] = "writeManifest"
    BY <1>a DEF OpenManifest, Goto, TypeOK
  <3>3. WriteTmp(r) \/ Replace(r) \/ WriteManifest(r) \/ ReplaceManifest(r) =>
           pc'[r] \notin {"write", "writeManifest"}
    BY <1>a DEF WriteTmp, Replace, WriteManifest, ReplaceManifest, Goto, Exits, TypeOK
  <3> QED
    BY <1>2, <3>1, <3>2, <3>3 DEF Stage
<2> QED
  BY <2>5, <2>6, <2>7, <2>8, <2>9
<1> QED
  BY <1>1, <1>2, QuietOrStage

\* A digest's reply, once there, stays.
LEMMA RepliesKept ==
  ASSUME TypeInv, [Next]_vars, NEW r \in Runs, reply[r] # NoReply
  PROVE  reply'[r] = reply[r]
<1>a. TypeOK /\ \A q \in Runs : RunFits(q)
  BY DEF TypeInv, Fits
<1>1. ASSUME NEW q \in Runs, NEW node \in Resources,
             Fetch(q, node) \/ \E content \in Stored : Push(q, node, content)
      PROVE  reply'[r] = reply[r]
<2>1. /\ reply[q] = NoReply
      /\ UNCHANGED reply \/ reply' = [reply EXCEPT ![q] = Unreached]
  BY <1>1, <1>a DEF Fetch, Push, Starts, Calls, Goto, Exits, RunFits
<2> QED
  BY <1>a, <2>1 DEF TypeOK
<1>2. ASSUME NEW q \in Runs, Serve(q) PROVE reply'[r] = reply[r]
<2>1. reply[q] = NoReply /\ \E e : reply' = [reply EXCEPT ![q] = e]
  BY <1>2 DEF Serve, Answers
<2> QED
  BY <1>a, <2>1 DEF TypeOK
<1>3. ASSUME NEW q \in Runs, PostFails(q) PROVE reply'[r] = reply[r]
<2>1. \/ UNCHANGED reply
      \/ reply[q] = NoReply /\ reply' = [reply EXCEPT ![q] = Unreached]
  BY <1>3 DEF PostFails
<2> QED
  BY <1>a, <2>1 DEF TypeOK
<1>4. ASSUME NEW q \in Runs, TimesOut(q) \/ Receive(q) \/ Stage(q) \/ Dies(q)
      PROVE  reply'[r] = reply[r]
  BY <1>4, StageRuns
     DEF TimesOut, Receive, ReceiveFetch, ReceivePush, ReceiveError, Dies, network
<1>5. CASE UNCHANGED vars
  BY <1>5 DEF vars, network
<1> QED
  BY <1>1, <1>2, <1>3, <1>4, <1>5 DEF Next, AllDone

\* A run comes to stage only with the content it was sent and the digest declared.
LEMMA VerifiedStep ==
  ASSUME TypeInv, [Next]_vars, Verified
  PROVE  Verified'
<1>a. TypeOK /\ None \notin Runs /\ None \notin Contents
  BY Nothing DEF TypeInv
<1>b. \A r \in Runs : pc[r] \in Staging => body[r] \in Contents
  BY DEF TypeInv, Fits, RunFits
<1>1. ASSUME NEW r \in Runs, NEW d \in Contents, reply[r].content = d, reply[r].sha = d
      PROVE  reply'[r].content = d /\ reply'[r].sha = d
  BY <1>a, <1>1, RepliesKept, ReplyValues
<1>2. ASSUME NEW r \in Runs, ReceiveFetch(r), pc'[r] \in Staging
      PROVE  reply'[r].content = body'[r] /\ reply'[r].sha = body'[r]
  BY <1>a, <1>2 DEF ReceiveFetch, Exits, Goto, TypeOK, network, Staging
<1>3. ASSUME NEW r \in Runs, pc'[r] \in Staging
      PROVE  reply'[r].content = body'[r] /\ reply'[r].sha = body'[r]
<2>1. CASE pc[r] \in Staging /\ body'[r] = body[r]
  BY <1>1, <1>b, <2>1 DEF Verified
<2>2. CASE Quiet
  <3>1. pc[r] \in Staging \/ (pc[r] \in {"idle", "calling"} /\ pc'[r] = "open")
    BY <1>3, <2>2 DEF Quiet, Staging
  <3>2. pc[r] \in Staging => body'[r] = body[r]
    BY <2>2 DEF Quiet, Staging
  <3>3. ASSUME pc[r] \in {"idle", "calling"}, pc'[r] = "open" PROVE ReceiveFetch(r)
    <4>1. ASSUME NEW q \in Runs, NEW node \in Resources,
                 Fetch(q, node) \/ \E content \in Stored : Push(q, node, content)
          PROVE  FALSE
      BY <1>a, <3>3, <4>1 DEF Fetch, Push, Starts, Calls, Goto, Exits, TypeOK
    <4>2. ASSUME NEW q \in Runs, Serve(q) PROVE FALSE
      BY <3>3, <4>2 DEF Serve
    <4>3. ASSUME NEW q \in Runs, PostFails(q) \/ TimesOut(q) \/ ReceivePush(q)
                                    \/ ReceiveError(q) \/ Dies(q)
          PROVE  FALSE
      BY <1>a, <3>3, <4>3 DEF PostFails, TimesOut, ReceivePush, ReceiveError, Dies, Exits, TypeOK
    <4>4. ASSUME NEW q \in Runs, ReceiveFetch(q), q # r PROVE FALSE
      BY <1>a, <3>3, <4>4 DEF ReceiveFetch, Goto, Exits, TypeOK
    <4>5. ASSUME NEW q \in Runs, Stage(q) PROVE FALSE
      BY <1>a, <3>3, <4>5 DEF Stage, OpenTmp, WriteTmp, Replace, OpenManifest, WriteManifest,
                              ReplaceManifest, Goto, Exits, TypeOK
    <4>6. ~UNCHANGED vars
      BY <3>3 DEF vars
    <4> QED
      BY <4>1, <4>2, <4>3, <4>4, <4>5, <4>6 DEF Next, Receive, AllDone
  <3> QED
    BY <1>2, <1>3, <2>1, <3>1, <3>2, <3>3
<2>3. CASE \E q \in Runs : Stage(q)
  <3>1. PICK q \in Runs : Stage(q)
    BY <2>3
  <3>2. pc[q] \in Staging /\ body' = body /\ (r # q => pc'[r] = pc[r])
    BY <3>1, StageRuns
  <3> QED
    BY <1>3, <2>1, <3>2
<2> QED
  BY <2>2, <2>3, QuietOrStage
<1>4. ASSUME NEW d \in Contents, {tmp'[d], entry'[d], manifestTmp'[d], manifest'[d]} # {None}
      PROVE  \E r \in Runs : reply'[r].content = d /\ reply'[r].sha = d
<2>1. CASE {tmp[d], entry[d], manifestTmp[d], manifest[d]} # {None}
  <3>1. PICK r \in Runs : reply[r].content = d /\ reply[r].sha = d
    BY <2>1 DEF Verified, VerifiedBeforeStaged
  <3> QED
    BY <1>1, <3>1
<2>2. CASE \E q \in Runs : Stage(q)
  <3>1. PICK q \in Runs : Stage(q)
    BY <2>2
  <3>2. pc[q] \in Staging
    BY <3>1, StageRuns
  <3>3. reply[q].content = body[q] /\ reply[q].sha = body[q]
    BY <3>2 DEF Verified
  <3>4. CASE d = body[q]
    BY <1>1, <3>3, <3>4
  <3>5. CASE d # body[q]
    <4>1. UNCHANGED <<tmp[d], entry[d], manifestTmp[d], manifest[d]>>
      BY <1>a, <3>1, <3>5 DEF Stage, OpenTmp, WriteTmp, Replace, OpenManifest, WriteManifest,
                              ReplaceManifest, TypeOK
    <4> QED
      BY <1>4, <2>1, <4>1
  <3> QED
    BY <3>4, <3>5
<2>3. CASE Quiet
  BY <1>4, <2>1, <2>3 DEF Quiet, staging
<2> QED
  BY <2>2, <2>3, QuietOrStage
<1> QED
  BY <1>3, <1>4 DEF Verified, VerifiedBeforeStaged

\* Outside of staging only a push ends well.
LEMMA QuietExits ==
  ASSUME TypeInv, [Next]_vars, NEW r \in Runs
  PROVE  \/ exit'[r] = exit[r]
         \/ \E q \in Runs : Stage(q)
         \/ pc'[r] = "done" /\ (exit'[r] = EXIT_OK => kind'[r] = "push")
<1>a. TypeOK
  BY DEF TypeInv
<1>b. ASSUME NEW q \in Runs, NEW code, Exits(q, code), code = EXIT_OK => kind'[q] = "push"
      PROVE  exit'[r] = exit[r] \/ (pc'[r] = "done" /\ (exit'[r] = EXIT_OK => kind'[r] = "push"))
  BY <1>a, <1>b DEF Exits, TypeOK
<1>1. ASSUME NEW q \in Runs, NEW node \in Resources,
             Fetch(q, node) \/ \E content \in Stored : Push(q, node, content)
      PROVE  UNCHANGED exit \/ Exits(q, EXIT_LOCAL)
  BY <1>1 DEF Fetch, Push, Starts, Calls, Goto
<1>2. ASSUME NEW q \in Runs, Serve(q) \/ Dies(q) PROVE UNCHANGED exit
  BY <1>2 DEF Serve, Dies
<1>3. ASSUME NEW q \in Runs, PostFails(q) PROVE \E code \in {1, 2, 3} : Exits(q, code)
<2>1. \/ \E why \in {"unreachable", "http", "malformed"} :
            Exits(q, error_exit(TransportMessage(why)))
      \/ \E why \in {"connection refused", "unauthorized"} :
            Exits(q, error_exit(TransportMessage(why)))
  BY <1>3 DEF PostFails
<2> QED
  BY <2>1, TransportExits
<1>4. ASSUME NEW q \in Runs, TimesOut(q) PROVE Exits(q, Uncaught)
  BY <1>4 DEF TimesOut
<1>5. ASSUME NEW q \in Runs, ReceiveFetch(q) PROVE UNCHANGED exit \/ Exits(q, EXIT_VERIFICATION)
  BY <1>5 DEF ReceiveFetch, Goto
<1>6. ASSUME NEW q \in Runs, ReceivePush(q) PROVE Exits(q, EXIT_OK) /\ kind'[q] = "push"
  BY <1>6 DEF ReceivePush
<1>7. ASSUME NEW q \in Runs, ReceiveError(q)
      PROVE  \E code \in {1, 2, 3, EXIT_VERIFICATION} : Exits(q, code)
<2>1. Exits(q, EXIT_VERIFICATION) \/ Exits(q, error_exit(envelope_error(reply[q])))
  BY <1>7 DEF ReceiveError
<2> QED
  BY <2>1, EnvelopeExits
<1>8. CASE UNCHANGED vars
  BY <1>8 DEF vars
<1>9. ASSUME NEW q \in Runs, \E code \in {1, 2, 3, 4, 5} : Exits(q, code)
      PROVE  exit'[r] = exit[r] \/ (pc'[r] = "done" /\ (exit'[r] = EXIT_OK => kind'[r] = "push"))
<2>1. PICK code \in {1, 2, 3, 4, 5} : Exits(q, code)
  BY <1>9
<2>2. code # EXIT_OK
  BY ExitValues
<2> QED
  BY <1>b, <2>1, <2>2
<1>10. ASSUME NEW q \in Runs, NEW code \in {EXIT_LOCAL, EXIT_VERIFICATION, Uncaught}, Exits(q, code)
       PROVE  \E number \in {1, 2, 3, 4, 5} : Exits(q, number)
  BY <1>10, ExitValues
<1>11. ASSUME NEW q \in Runs, NEW code \in {1, 2, 3, EXIT_VERIFICATION}, Exits(q, code)
       PROVE  \E number \in {1, 2, 3, 4, 5} : Exits(q, number)
  BY <1>11, ExitValues
<1> QED
  BY <1>b, <1>1, <1>2, <1>3, <1>4, <1>5, <1>6, <1>7, <1>8, <1>9, <1>10, <1>11
     DEF Next, Receive, AllDone

LEMMA CompleteStep ==
  ASSUME TypeInv, [Next]_vars, Complete, \A d \in Contents : Text(d)
  PROVE  Complete'
<1>a. TypeOK /\ None \notin Runs
  BY Nothing DEF TypeInv
<1>1. CASE Quiet /\ ~\E q \in Runs : Stage(q)
<2>1. UNCHANGED <<entry, manifest>>
  BY <1>1 DEF Quiet, staging
<2>2. ASSUME NEW r \in Runs,
             pc'[r] \in {"openManifest", "writeManifest", "replaceManifest"}
      PROVE  entry'[body'[r]] # None
  BY <1>1, <2>1, <2>2 DEF Quiet, Complete
<2>3. ASSUME NEW r \in Runs
      PROVE  /\ exit'[r] # NoExit => pc'[r] = "done"
             /\ exit'[r] = EXIT_OK /\ kind'[r] = "fetch" =>
                   exit[r] = EXIT_OK /\ kind[r] = "fetch" /\ body'[r] = body[r]
  <3>1. CASE exit'[r] = exit[r]
    <4>1. exit[r] # NoExit => pc[r] = "done"
      BY DEF Complete
    <4>2. pc[r] = "done" => pc'[r] = "done" /\ kind'[r] = kind[r] /\ body'[r] = body[r]
      BY <1>1 DEF Quiet
    <4>3. EXIT_OK # NoExit
      BY ExitValues
    <4> QED
      BY <3>1, <4>1, <4>2, <4>3
  <3>2. CASE pc'[r] = "done" /\ (exit'[r] = EXIT_OK => kind'[r] = "push")
    BY <3>2
  <3> QED
    BY <1>1, <3>1, <3>2, QuietExits
<2> QED
  BY <2>1, <2>2, <2>3 DEF Complete, StagedComplete
<1>2. ASSUME NEW r \in Runs, Stage(r) PROVE Complete'
<2>1. /\ body[r] \in Contents /\ kind[r] = "fetch" /\ UNCHANGED <<body, kind>>
      /\ pc[r] \in Staging
      /\ \A q \in Runs \ {r} : pc'[q] = pc[q]
  BY <1>2, StageRuns
<2>2. exit[r] = NoExit /\ \A q \in Runs \ {r} : exit'[q] = exit[q]
  BY <1>2, <1>a, <2>1
     DEF Complete, Stage, OpenTmp, WriteTmp, Replace, OpenManifest, WriteManifest,
         ReplaceManifest, Goto, Exits, TypeOK, Staging
<2>3. /\ \A d \in Contents : entry[d] # None => entry'[d] # None
      /\ \A d \in Contents : manifest[d] # None => manifest'[d] # None
  <3>1. CASE OpenTmp(r) \/ WriteTmp(r) \/ OpenManifest(r) \/ WriteManifest(r)
    BY <3>1 DEF OpenTmp, WriteTmp, OpenManifest, WriteManifest
  <3>2. CASE Replace(r)
    BY <1>a, <2>1, <3>2 DEF Replace, TypeOK
  <3>3. CASE ReplaceManifest(r)
    BY <1>a, <2>1, <3>3 DEF ReplaceManifest, TypeOK
  <3> QED
    BY <1>2, <3>1, <3>2, <3>3 DEF Stage
<2>4. pc'[r] \in {"openManifest", "writeManifest", "replaceManifest"} => entry'[body[r]] # None
  <3>1. CASE OpenTmp(r) \/ WriteTmp(r)
    BY <1>a, <3>1 DEF OpenTmp, WriteTmp, Goto, TypeOK
  <3>2. CASE Replace(r)
    BY <1>a, <2>1, <3>2 DEF Replace, Goto, Exits, TypeOK
  <3>3. CASE OpenManifest(r) \/ WriteManifest(r) \/ ReplaceManifest(r)
    BY <2>1, <2>3, <3>3 DEF OpenManifest, WriteManifest, ReplaceManifest, Complete
  <3> QED
    BY <1>2, <3>1, <3>2, <3>3 DEF Stage
<2>5. \/ exit'[r] = NoExit
      \/ /\ pc'[r] = "done"
         /\ exit'[r] = EXIT_OK => entry'[body[r]] # None /\ manifest'[body[r]] # None
  <3>1. CASE OpenTmp(r) \/ WriteTmp(r) \/ OpenManifest(r) \/ WriteManifest(r)
    BY <2>2, <3>1 DEF OpenTmp, WriteTmp, OpenManifest, WriteManifest, Goto
  <3>2. CASE Replace(r)
    BY <1>a, <2>2, <3>2, ExitValues DEF Replace, Goto, Exits, TypeOK
  <3>3. CASE ReplaceManifest(r)
    <4>1. pc'[r] = "done" /\ pc[r] = "replaceManifest" /\ entry' = entry
      BY <1>a, <3>3 DEF ReplaceManifest, Exits, TypeOK
    <4>2. entry'[body[r]] # None
      BY <2>1, <4>1 DEF Complete
    <4>3. exit'[r] = EXIT_OK => manifest'[body[r]] # None
      BY <1>a, <2>1, <3>3, ExitValues DEF ReplaceManifest, Exits, TypeOK
    <4> QED
      BY <4>1, <4>2, <4>3
  <3> QED
    BY <1>2, <3>1, <3>2, <3>3 DEF Stage
<2>6. ASSUME NEW d \in Contents, manifest'[d] # None PROVE entry'[d] # None
  <3>1. CASE manifest[d] # None
    BY <2>3, <3>1 DEF Complete, StagedComplete
  <3>2. CASE manifest[d] = None
    <4>1. ReplaceManifest(r) /\ d = body[r]
      BY <1>a, <1>2, <2>1, <2>6, <3>2
         DEF Stage, OpenTmp, WriteTmp, Replace, OpenManifest, WriteManifest, ReplaceManifest, TypeOK
    <4> QED
      BY <2>1, <2>3, <4>1 DEF ReplaceManifest, Complete
  <3> QED
    BY <3>1, <3>2
<2>7. EXIT_OK # NoExit
  BY ExitValues
<2>8. ASSUME NEW q \in Runs
      PROVE  /\ pc'[q] \in {"openManifest", "writeManifest", "replaceManifest"} =>
                   entry'[body'[q]] # None
             /\ exit'[q] # NoExit => pc'[q] = "done"
             /\ exit'[q] = EXIT_OK /\ kind'[q] = "fetch" =>
                   /\ body'[q] \in Contents
                   /\ entry'[body'[q]] # None /\ manifest'[body'[q]] # None
  <3>1. CASE q = r
    BY <2>1, <2>4, <2>5, <2>7, <3>1
  <3>2. CASE q # r
    <4>1. pc'[q] \in {"openManifest", "writeManifest", "replaceManifest"} =>
             body[q] \in Contents /\ entry[body[q]] # None
      BY <2>1, <3>2 DEF Complete, TypeInv, Fits, RunFits, Staging
    <4>2. exit'[q] # NoExit => pc'[q] = "done"
      BY <2>1, <2>2, <3>2 DEF Complete
    <4>3. exit'[q] = EXIT_OK /\ kind'[q] = "fetch" =>
             /\ body[q] \in Contents
             /\ entry[body[q]] # None /\ manifest[body[q]] # None
      BY <2>1, <2>2, <3>2 DEF Complete, StagedComplete
    <4> QED
      BY <2>1, <2>3, <4>1, <4>2, <4>3
  <3> QED
    BY <3>1, <3>2
<2> QED
  BY <2>6, <2>8 DEF Complete, StagedComplete
<1> QED
  BY <1>1, <1>2, QuietOrStage

LEMMA StagingStep == TypeInv /\ StagingInv /\ [Next]_vars => StagingInv'
<1> SUFFICES ASSUME TypeInv, StagingInv, [Next]_vars PROVE StagingInv'
  OBVIOUS
<1>1. Verified' /\ Complete' /\ \A r \in Runs : OpenFile(r)'
  BY VerifiedStep, CompleteStep, OpenFilesStep DEF StagingInv
<1>2. ASSUME NEW d \in Contents PROVE Content(d)' /\ Text(d)'
<2>1. {tmp[d], entry[d]} \subseteq Files /\ manifestTmp[d] \in Files
  BY DEF TypeInv, TypeOK
<2>2. CASE Quiet
  BY <2>1, <2>2, QuietContent, QuietText DEF StagingInv
<2>3. CASE \E r \in Runs : Stage(r)
  BY <2>3, StageContent, StageText DEF StagingInv
<2> QED
  BY <2>2, <2>3, QuietOrStage
<1> QED
  BY <1>1, <1>2 DEF StagingInv

LEMMA StagingInit == Init => StagingInv
<1> SUFFICES ASSUME Init PROVE StagingInv
  OBVIOUS
<1>1. Verified
  BY DEF Init, Verified, VerifiedBeforeStaged, Staging
<1>2. ASSUME NEW d \in Contents PROVE Content(d) /\ Text(d)
  BY <1>2, Nothing DEF Init, Content, Text
<1>3. \A r \in Runs : OpenFile(r)
  BY DEF Init, OpenFile
<1>4. Complete
  BY ExitValues DEF Init, Complete, StagedComplete
<1> QED
  BY <1>1, <1>2, <1>3, <1>4 DEF StagingInv

LEMMA StagingInvariant == Spec => [](TypeInv /\ StagingInv)
  BY TypeInit, TypeStep, StagingInit, StagingStep, PTL DEF Spec

\* Nothing has a name in staging, temporary or final, that no fetch verified.
THEOREM VerifiesBeforeStaging == Spec => []VerifiedBeforeStaged
<1>1. StagingInv => VerifiedBeforeStaged
  BY DEF StagingInv, Verified
<1> QED
  BY <1>1, StagingInvariant, PTL

\* What a manifest or an exit code 0 promises is in staging, whatever runs race
\* and wherever they die.
THEOREM StagesComplete == Spec => []StagedComplete
<1>1. StagingInv => StagedComplete
  BY DEF StagingInv, Complete
<1> QED
  BY <1>1, StagingInvariant, PTL

\* Only two runs of one digest that overlap damage what is staged.
THEOREM OnlyRacesDamage == Spec => []DamagedOnlyByRace
<1>1. TypeInv /\ StagingInv => DamagedOnlyByRace
<2> SUFFICES ASSUME TypeInv, StagingInv, NEW d \in Contents
             PROVE  /\ entry[d] # None /\ data[entry[d]] # d =>
                        \E p, q \in Runs :
                            /\ p # q
                            /\ fd[p] = entry[d] /\ pc[p] \in {"write", "dead"}
                            /\ kind[q] = "fetch" /\ body[q] = d
                            /\ pc[q] \notin {"open", "write", "replace"}
                    /\ manifest[d] # None /\ text[manifest[d]] \notin Resources =>
                        \E p, q \in Runs :
                            /\ p # q
                            /\ fd[p] = manifest[d]
                            /\ kind[q] = "fetch" /\ body[q] = d /\ pc[q] = "done"
  BY DEF DamagedOnlyByRace
<2>1. Content(d) /\ Text(d)
  BY DEF StagingInv
<2>2. ASSUME entry[d] # None, data[entry[d]] # d
      PROVE  \E p, q \in Runs :
                /\ p # q
                /\ fd[p] = entry[d] /\ pc[p] \in {"write", "dead"}
                /\ kind[q] = "fetch" /\ body[q] = d
                /\ pc[q] \notin {"open", "write", "replace"}
  BY <2>1, <2>2 DEF Content, Writing, FetchOf, Renamed
<2>3. ASSUME manifest[d] # None, text[manifest[d]] \notin Resources
      PROVE  \E p, q \in Runs :
                /\ p # q
                /\ fd[p] = manifest[d]
                /\ kind[q] = "fetch" /\ body[q] = d /\ pc[q] = "done"
  BY <2>1, <2>3 DEF Text, Opener, FetchOf
<2> QED
  BY <2>2, <2>3
<1> QED
  BY <1>1, StagingInvariant, PTL

\* Once the runs for a digest are over, and none of them died, its staged file is
\* intact: a race heals itself.
THEOREM RestsIntact == Spec => []IntactAtRest
<1>1. TypeInv /\ StagingInv => IntactAtRest
<2> SUFFICES ASSUME TypeInv, StagingInv, NEW d \in Contents, entry[d] # None,
                    \A r \in Runs : kind[r] = "fetch" /\ body[r] = d => pc[r] = "done"
             PROVE  data[entry[d]] = d
  BY DEF IntactAtRest
<2>1. Content(d)
  BY DEF StagingInv
<2> QED
  BY <2>1 DEF Content, Writing, FetchOf
<1> QED
  BY <1>1, StagingInvariant, PTL
=============================================================================

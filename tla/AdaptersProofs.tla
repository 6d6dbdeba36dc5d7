---------------------------- MODULE AdaptersProofs ----------------------------
(***************************************************************************)
(* The adapters for every configuration and any number of calls: what has  *)
(* to come before a request, what stays on disk behind it, and that every  *)
(* verdict is true.                                                        *)
(***************************************************************************)
EXTENDS Adapters, TLAPS

-----------------------------------------------------------------------------
(***************************************************************************)
(* The token caches.                                                       *)
(***************************************************************************)

\* The file of an account holds nothing, or no less than a version, or the disk
\* refused that version.
Kept(a, version) ==
    \/ cacheFile[a] \in {Absent, Cut, 0}
    \/ cacheFile[a] >= version
    \/ <<a, version>> \in unwritten

\* Nothing is newer than what the tenant issued, and the file not older than
\* the memory.
CacheInv(a) ==
    /\ cacheFile[a] \in Nat => cacheFile[a] <= issued[a]
    /\ memory[a] \in Nat => memory[a] <= issued[a] /\ Kept(a, memory[a])

TokensInv == TokensTypeOK /\ \A a \in MsalAccounts : CacheInv(a)

\* What a step must leave as it was: versions issued stay so, what is kept of
\* them is kept on.
Grows ==
    \A a \in MsalAccounts :
        /\ issued[a] <= issued'[a]
        /\ \A v \in 0 .. issued[a] : Kept(a, v) => Kept(a, v)'

LEMMA TokensTypes ==
  ASSUME TokensInv, NEW a \in MsalAccounts
  PROVE  /\ issued[a] \in Nat /\ issued[a] <= MaxVersion /\ revoked[a] \in Nat
         /\ cacheFile[a] \in (0 .. MaxVersion) \cup {Absent, Cut}
         /\ memory[a] \in (0 .. MaxVersion) \cup {Unloaded}
         /\ MaxVersion \in Nat /\ Absent \notin Nat /\ Cut \notin Nat /\ Unloaded \notin Nat
  BY TokensAssumption DEF TokensInv, TokensTypeOK

LEMMA AppTyped ==
  ASSUME TokensInv, NEW a \in MsalAccounts, Readable(a)
  PROVE  _app(a) \in Nat /\ _app(a) <= issued[a] /\ Kept(a, _app(a))
<1>1. CacheInv(a)
  BY DEF TokensInv
<1>2. CASE memory[a] # Unloaded
  BY <1>1, <1>2, TokensTypes DEF _app, CacheInv
<1>3. CASE memory[a] = Unloaded
  <2>1. /\ _app(a) = IF cacheFile[a] = Absent THEN 0 ELSE cacheFile[a]
        /\ cacheFile[a] # Cut
    BY <1>3 DEF _app, Readable
  <2>2. _app(a) \in Nat /\ _app(a) <= issued[a]
    BY <1>1, <2>1, TokensTypes DEF CacheInv
  <2>3. cacheFile[a] = Absent \/ cacheFile[a] >= _app(a)
    BY <2>1, TokensTypes
  <2> QED
    BY <2>2, <2>3 DEF Kept
<1> QED
  BY <1>2, <1>3

\* A cache whose file stays, and whose memory stays or is lost, is as it was.
LEMMA StillInv ==
  ASSUME TokensInv, NEW b \in MsalAccounts, cacheFile'[b] = cacheFile[b],
         issued'[b] = issued[b], memory'[b] \in {memory[b], Unloaded},
         unwritten \subseteq unwritten'
  PROVE  /\ CacheInv(b)' /\ issued[b] <= issued'[b]
         /\ \A v \in 0 .. issued[b] : Kept(b, v) => Kept(b, v)'
<1>1. \A v \in 0 .. issued[b] : Kept(b, v) => Kept(b, v)'
  BY DEF Kept
<1>2. CacheInv(b)
  BY DEF TokensInv
<1>3. issued[b] <= issued'[b] /\ (cacheFile[b] \in Nat => cacheFile[b] <= issued[b])'
  BY <1>2, TokensTypes DEF CacheInv
<1>4. ASSUME memory'[b] \in Nat PROVE memory'[b] <= issued'[b] /\ Kept(b, memory[b])'
  <2>1. PICK n \in Nat : n = memory[b] /\ n = memory'[b]
    BY <1>4, TokensTypes
  <2>2. n \in 0 .. issued[b] /\ Kept(b, n)
    BY <1>2, <2>1, TokensTypes DEF CacheInv
  <2>3. Kept(b, n)'
    BY <1>1, <2>2
  <2> QED
    BY <2>1, <2>2, <2>3 DEF Kept
<1> QED
  BY <1>1, <1>3, <1>4 DEF CacheInv

\* The caches of one account take new values, and the others are left.
LEMMA OneCache ==
  ASSUME TokensInv, NEW a \in MsalAccounts, TokensTypeOK',
         \A b \in MsalAccounts \ {a} :
            /\ cacheFile'[b] = cacheFile[b] /\ issued'[b] = issued[b]
            /\ memory'[b] \in {memory[b], Unloaded},
         unwritten \subseteq unwritten', CacheInv(a)', issued[a] <= issued'[a],
         \A v \in 0 .. issued[a] : Kept(a, v) => Kept(a, v)'
  PROVE  TokensInv' /\ Grows
<1>1. ASSUME NEW b \in MsalAccounts, b # a
      PROVE  /\ CacheInv(b)' /\ issued[b] <= issued'[b]
             /\ \A v \in 0 .. issued[b] : Kept(b, v) => Kept(b, v)'
  BY <1>1, StillInv
<1> QED
  BY <1>1 DEF TokensInv, Grows

\* What the tenant is asked for is typed and not older than what it issued.
LEMMA AcquiresStep ==
  ASSUME TokensInv, NEW a \in MsalAccounts, NEW contents, Acquires(a, contents)
  PROVE  /\ contents \in 0 .. MaxVersion /\ contents <= issued'[a] /\ issued[a] <= issued'[a]
         /\ contents # 0 => contents = issued'[a] /\ issued[a] < contents
         /\ issued' \in [MsalAccounts -> 0 .. MaxVersion] /\ UNCHANGED revoked
         /\ \A b \in MsalAccounts \ {a} : issued'[b] = issued[b]
<1>1. CASE Refreshes(a) /\ contents = issued[a] + 1 /\ issued' = [issued EXCEPT ![a] = contents]
  <2>1. contents \in 1 .. MaxVersion /\ issued[a] < contents
    BY <1>1, TokensTypes DEF Refreshes
  <2>2. /\ issued'[a] = contents /\ \A b \in MsalAccounts \ {a} : issued'[b] = issued[b]
        /\ issued' \in [MsalAccounts -> 0 .. MaxVersion]
    BY <1>1, <2>1 DEF TokensInv, TokensTypeOK
  <2> QED
    BY <2>1, <2>2, TokensTypes DEF Acquires
<1>2. CASE contents = 0 /\ UNCHANGED issued
  BY <1>2, TokensTypes DEF Acquires, TokensInv, TokensTypeOK
<1> QED
  BY <1>1, <1>2 DEF Acquires

\* They are written, or the disk refuses them.
LEMMA PersistStep ==
  ASSUME TokensInv, NEW a \in MsalAccounts, NEW contents, Acquires(a, contents),
         Keeps(a, contents), _persist(a, contents) \/ PersistRaises(a, contents)
  PROVE  TokensInv' /\ Grows /\ contents <= issued'[a] /\ Kept(a, contents)'
<1>1. /\ contents \in 0 .. MaxVersion /\ contents <= issued'[a] /\ issued[a] <= issued'[a]
      /\ contents # 0 => contents = issued'[a] /\ issued[a] < contents
      /\ issued' \in [MsalAccounts -> 0 .. MaxVersion] /\ UNCHANGED revoked
      /\ \A b \in MsalAccounts \ {a} : issued'[b] = issued[b]
  BY AcquiresStep
<1>2. PICK rest \in {contents, cacheFile[a], 0, Cut} :
         /\ cacheFile' = [cacheFile EXCEPT ![a] = rest]
         /\ rest = contents \/ (contents # 0 => <<a, contents>> \in unwritten')
         /\ unwritten \subseteq unwritten'
         /\ unwritten' \subseteq unwritten \cup {<<a, contents>>}
  BY DEF _persist, PersistRaises
<1>3. /\ memory'[a] = contents /\ \A b \in MsalAccounts \ {a} : memory'[b] = memory[b]
      /\ memory' \in [MsalAccounts -> (0 .. MaxVersion) \cup {Unloaded}]
  BY <1>1 DEF Keeps, TokensInv, TokensTypeOK
<1>4. /\ cacheFile'[a] = rest /\ \A b \in MsalAccounts \ {a} : cacheFile'[b] = cacheFile[b]
      /\ cacheFile' \in [MsalAccounts -> (0 .. MaxVersion) \cup {Absent, Cut}]
  BY <1>1, <1>2, TokensTypes DEF TokensInv, TokensTypeOK
<1>5. TokensTypeOK'
  BY <1>1, <1>2, <1>3, <1>4 DEF TokensInv, TokensTypeOK
<1>6. Kept(a, contents)'
  BY <1>1, <1>2, <1>4, TokensTypes DEF Kept
<1>7. CacheInv(a)'
  <2>1. issued'[a] \in Nat
    BY <1>1, TokensTypes
  <2>2. rest \in Nat => rest <= issued'[a]
    BY <1>1, <1>2, <2>1, TokensTypes DEF TokensInv, CacheInv
  <2> QED
    BY <1>1, <1>3, <1>4, <1>6, <2>2 DEF CacheInv
<1>8. \A v \in 0 .. issued[a] : Kept(a, v) => Kept(a, v)'
  <2>1. CASE rest = contents /\ contents # 0
    BY <1>1, <1>4, <2>1, TokensTypes DEF Kept
  <2>2. CASE rest \in {0, Cut}
    BY <1>4, <2>2 DEF Kept
  <2>3. CASE rest = cacheFile[a]
    BY <1>2, <1>4, <2>3 DEF Kept
  <2> QED
    BY <1>2, <2>1, <2>2, <2>3
<1> QED
  BY <1>1, <1>2, <1>3, <1>4, <1>5, <1>6, <1>7, <1>8, OneCache

\* What is loaded is what the process goes on with.
LEMMA LoadsStep ==
  ASSUME TokensInv, NEW a \in MsalAccounts, Readable(a), NEW n, n = _app(a), Keeps(a, n),
         UNCHANGED <<cacheFile, tenant, unwritten>>
  PROVE  TokensInv' /\ Grows /\ n <= issued'[a] /\ Kept(a, n)'
<1>1. n \in 0 .. MaxVersion /\ n <= issued[a] /\ Kept(a, n)
  BY AppTyped, TokensTypes
<1>2. UNCHANGED <<cacheFile, issued, revoked, unwritten>>
  BY DEF tenant
<1>3. TokensTypeOK' /\ memory'[a] = n /\ \A b \in MsalAccounts \ {a} : memory'[b] = memory[b]
  BY <1>1, <1>2 DEF TokensInv, TokensTypeOK, Keeps
<1>4. Kept(a, n)' /\ \A v \in 0 .. issued[a] : Kept(a, v) => Kept(a, v)'
  BY <1>1, <1>2 DEF Kept
<1>5. /\ issued[a] <= issued'[a] /\ n <= issued'[a]
      /\ cacheFile'[a] \in Nat => cacheFile'[a] <= issued'[a]
  BY <1>1, <1>2, TokensTypes DEF TokensInv, CacheInv
<1>6. CacheInv(a)'
  BY <1>3, <1>4, <1>5 DEF CacheInv
<1> QED
  BY <1>2, <1>3, <1>4, <1>5, <1>6, OneCache

LEMMA TokenOfStep ==
  ASSUME TokensInv, NEW a \in MsalAccounts, NEW version \in 1 .. MaxVersion, TokenOf(a, version)
  PROVE  TokensInv' /\ Grows /\ version <= issued'[a] /\ Kept(a, version)'
<1>1. CASE Readable(a) /\ version = _app(a) /\ UNCHANGED <<cacheFile, tenant, unwritten>>
  BY <1>1, LoadsStep DEF TokenOf
<1>2. CASE Acquires(a, version) /\ _persist(a, version)
  BY <1>2, PersistStep DEF TokenOf
<1> QED
  BY <1>1, <1>2 DEF TokenOf

LEMMA TokenRaisesStep ==
  ASSUME TokensInv, NEW a \in MsalAccounts, TokenRaises(a)
  PROVE  TokensInv' /\ Grows
<1>1. CASE UNCHANGED tokens
  <2>1. UNCHANGED <<cacheFile, memory, tenant, unwritten>>
    BY <1>1 DEF tokens
  <2>2. TokensTypeOK' /\ CacheInv(a)' /\ issued[a] <= issued'[a]
    BY <2>1, TokensTypes DEF TokensInv, TokensTypeOK, CacheInv, Kept, tenant
  <2>3. \A v \in 0 .. issued[a] : Kept(a, v) => Kept(a, v)'
    BY <2>1 DEF Kept
  <2> QED
    BY <2>1, <2>2, <2>3, OneCache DEF tenant
<1>2. CASE Readable(a) /\ Keeps(a, _app(a)) /\ UNCHANGED <<cacheFile, tenant, unwritten>>
  BY <1>2, LoadsStep
<1>3. ASSUME NEW contents \in 0 .. MaxVersion, Acquires(a, contents), Keeps(a, contents),
             (contents = 0 /\ _persist(a, 0)) \/ PersistRaises(a, contents)
      PROVE  TokensInv' /\ Grows
  BY <1>3, PersistStep
<1> QED
  BY <1>1, <1>2, <1>3 DEF TokenRaises

LEMMA DiesWritingStep ==
  ASSUME TokensInv, NEW a \in MsalAccounts, DiesWriting(a)
  PROVE  TokensInv' /\ Grows
<1>1. PICK contents \in 0 .. MaxVersion : Acquires(a, contents)
  BY DEF DiesWriting
<1>2. PICK rest \in {0, Cut} : cacheFile' = [cacheFile EXCEPT ![a] = rest]
  BY DEF DiesWriting
<1>3. /\ issued[a] <= issued'[a] /\ UNCHANGED revoked
      /\ issued' \in [MsalAccounts -> 0 .. MaxVersion]
      /\ \A b \in MsalAccounts \ {a} : issued'[b] = issued[b]
  BY <1>1, AcquiresStep
<1>4. memory' = NothingLoaded /\ UNCHANGED unwritten
  BY DEF DiesWriting
<1>5. TokensTypeOK'
  <2>1. rest \in (0 .. MaxVersion) \cup {Absent, Cut}
    BY TokensTypes
  <2> QED
    BY <1>2, <1>3, <1>4, <2>1 DEF TokensInv, TokensTypeOK, NothingLoaded
<1>6. /\ cacheFile'[a] = rest /\ memory'[a] = Unloaded
      /\ \A b \in MsalAccounts \ {a} : memory'[b] = Unloaded /\ cacheFile'[b] = cacheFile[b]
  BY <1>2, <1>4 DEF TokensInv, TokensTypeOK, NothingLoaded
<1>7. CacheInv(a)' /\ \A v \in 0 .. issued[a] : Kept(a, v) => Kept(a, v)'
  BY <1>3, <1>6, TokensTypes DEF CacheInv, Kept
<1> QED
  BY <1>3, <1>4, <1>5, <1>6, <1>7, OneCache

LEMMA OwnerStepStep ==
  ASSUME TokensInv, NEW a \in MsalAccounts, OwnerStep(a)
  PROVE  TokensInv' /\ Grows
<1>1. CASE SignIn(a)
  <2>1. /\ TokensTypeOK' /\ cacheFile'[a] = issued[a] + 1 /\ issued'[a] = issued[a] + 1
        /\ memory' = memory /\ unwritten' = unwritten
        /\ \A b \in MsalAccounts \ {a} : cacheFile'[b] = cacheFile[b] /\ issued'[b] = issued[b]
    BY <1>1, TokensTypes DEF SignIn, TokensInv, TokensTypeOK
  <2>2. /\ CacheInv(a)' /\ issued[a] <= issued'[a]
        /\ \A v \in 0 .. issued[a] : Kept(a, v) => Kept(a, v)'
    BY <2>1, TokensTypes DEF TokensInv, CacheInv, Kept
  <2> QED
    BY <2>1, <2>2, OneCache
<1>2. CASE DeleteCache(a)
  <2>1. /\ TokensTypeOK' /\ cacheFile'[a] = Absent /\ issued' = issued /\ memory' = memory
        /\ unwritten' = unwritten
        /\ \A b \in MsalAccounts \ {a} : cacheFile'[b] = cacheFile[b]
    BY <1>2 DEF DeleteCache, tenant, TokensInv, TokensTypeOK
  <2>2. /\ CacheInv(a)' /\ issued[a] <= issued'[a]
        /\ \A v \in 0 .. issued[a] : Kept(a, v)'
    <3>1. \A v : Kept(a, v)'
      BY <2>1 DEF Kept
    <3>2. CacheInv(a)
      BY DEF TokensInv
    <3>3. issued[a] <= issued'[a] /\ cacheFile'[a] \notin Nat
      BY <2>1, TokensTypes
    <3>4. memory'[a] \in Nat => memory'[a] <= issued'[a]
      BY <2>1, <3>2 DEF CacheInv
    <3> QED
      BY <3>1, <3>3, <3>4 DEF CacheInv, Kept
  <2> QED
    BY <2>1, <2>2, OneCache
<1>3. CASE Revoke(a)
  <2>1. TokensTypeOK' /\ UNCHANGED <<cacheFile, memory, issued, unwritten>>
    BY <1>3 DEF Revoke, TokensInv, TokensTypeOK
  <2>2. /\ CacheInv(a)' /\ issued[a] <= issued'[a]
        /\ \A v \in 0 .. issued[a] : Kept(a, v) => Kept(a, v)'
    BY <2>1, TokensTypes DEF TokensInv, CacheInv, Kept
  <2> QED
    BY <2>1, <2>2, OneCache
<1> QED
  BY <1>1, <1>2, <1>3 DEF OwnerStep

\* A process that ends forgets what it had loaded.
LEMMA ForgetsStep ==
  ASSUME TokensInv, memory' \in {memory, NothingLoaded}, UNCHANGED <<cacheFile, tenant, unwritten>>
  PROVE  TokensInv' /\ Grows
<1>1. TokensTypeOK'
  BY DEF TokensInv, TokensTypeOK, NothingLoaded, tenant
<1>2. ASSUME NEW a \in MsalAccounts
      PROVE  /\ CacheInv(a)' /\ issued[a] <= issued'[a]
             /\ \A v \in 0 .. issued[a] : Kept(a, v) => Kept(a, v)'
  <2>1. UNCHANGED <<cacheFile, issued, unwritten>> /\ memory'[a] \in {memory[a], Unloaded}
    BY DEF tenant, NothingLoaded
  <2> QED
    BY <2>1, StillInv
<1> QED
  BY <1>1, <1>2 DEF TokensInv, Grows

-----------------------------------------------------------------------------
(***************************************************************************)
(* Requests.                                                               *)
(***************************************************************************)

\* What a request on its way carries is kept on disk.
CredentialInv(r) ==
    /\ pc[r] = "sent" => target[r].account \in Accounts
    /\ credential[r].account \in MsalAccounts =>
          /\ credential[r].version <= issued[credential[r].account]
          /\ Kept(credential[r].account, credential[r].version)

\* A call is sent while the broker serves; the server may act on it as long as
\* it has not, and as the caller was told nothing that this would make untrue.
CallInv(c) ==
    /\ pc[c] = "idle" => /\ credential[c] = NoCredential /\ verdict[c] = "none"
                         /\ effect[c] = "none" /\ c \notin wire
    /\ pc[c] = "sent" => phase = "serving" /\ target[c].op \in Operations
    /\ pc[c] \in {"sent", "lost"} => verdict[c] = "none" /\ credential[c] # NoCredential
    /\ c \in wire => /\ effect[c] = "none" /\ credential[c] # NoCredential
                     /\ verdict[c] \in {"none", "BackendUnavailable"}
    /\ effect[c] # "none" => credential[c] # NoCredential

\* An account is connected by a probe of this process that went well, one after
\* the other.
ProbeInv(a) ==
    /\ phase = "serving" => a \in connected
    /\ a \in connected => pc[a] = "done" /\ verdict[a] = "ok"
    /\ pc[a] = "sent" => phase = "connecting" /\ Turn(a)

RequestInv ==
    /\ \A r \in Requests : CredentialInv(r)
    /\ \A c \in Calls : CallInv(c)
    /\ \A a \in Accounts : ProbeInv(a)

\* The variables that are not the token provider's.
RequestTypes ==
    /\ phase \in {"connecting", "serving", "down"}
    /\ connected \subseteq Accounts
    /\ pc \in [Requests -> {"idle", "sent", "done", "lost"}]
    /\ target \in [Requests -> [account : Accounts \cup {"none"},
                                op : Operations \cup {"connect", "none"}]]
    /\ credential \in [Requests -> [account : Accounts \cup {"none"}, version : 0 .. MaxVersion]]
    /\ wire \subseteq Calls
    /\ effect \in [Calls -> {"none", "part", "whole"}]
    /\ verdict \in [Requests -> {"none", "ok", "AuthError", "BackendUnavailable",
                                 "ProtocolError", "raised"}]

Inv == TokensInv /\ RequestTypes /\ RequestInv

LEMMA Names ==
  /\ "none" \notin Accounts /\ MsalAccounts \subseteq Accounts /\ Calls \cap Accounts = {}
  /\ \A a \in Accounts : Family[a] = "onedrive" <=> a \in MsalAccounts
  /\ \A a \in Accounts : Family[a] \in {"webdav", "onedrive"}
  /\ MaxVersion \in Nat
  BY AdaptersAssumption, TokensAssumption

LEMMA InvInit == Init => Inv
<1> SUFFICES ASSUME Init PROVE Inv
  OBVIOUS
<1>1. TokensTypeOK
  BY TokensAssumption DEF Init, InitTokens, TokensTypeOK, NothingLoaded
<1>2. ASSUME NEW a \in MsalAccounts PROVE CacheInv(a)
  BY TokensAssumption DEF Init, InitTokens, CacheInv, NothingLoaded
<1>3. RequestTypes
  BY Names DEF Init, RequestTypes, Requests, NoCredential
<1>4. RequestInv
  BY Names DEF Init, RequestInv, CredentialInv, CallInv, ProbeInv, Requests, NoCredential
<1> QED
  BY <1>1, <1>2, <1>3, <1>4 DEF Inv, TokensInv

\* What making a request comes to: it is sent, with a credential that is kept,
\* or the token provider raises.
Sent(r, account) ==
    \E version \in 0 .. MaxVersion :
        /\ Sends(r, account, version)
        /\ UNCHANGED phase
        /\ account \in MsalAccounts => version <= issued'[account] /\ Kept(account, version)'

Raised(r, account) ==
    /\ Ends(r, "raised")
    /\ phase' = IF r = account THEN "down" ELSE phase
    /\ UNCHANGED <<credential, wire, effect>>

LEMMA RequestingStep ==
  ASSUME Inv, NEW r \in Requests, NEW account \in Accounts, Requesting(r, account)
  PROVE  TokensInv' /\ Grows /\ (Sent(r, account) \/ Raised(r, account))
<1>1. CASE Family[account] = "webdav"
  <2>1. DavRequests(r, account) /\ account \notin MsalAccounts
    BY <1>1, Names DEF Requesting
  <2>2. UNCHANGED <<cacheFile, memory, tenant, unwritten>>
    BY <2>1 DEF DavRequests, tokens
  <2> QED
    BY <2>1, <2>2, ForgetsStep, Names DEF DavRequests, Sent, Inv
<1>2. CASE Family[account] = "onedrive"
  <2>1. GraphRequests(r, account) /\ account \in MsalAccounts
    BY <1>2, Names DEF Requesting
  <2>2. ASSUME NEW version \in 1 .. MaxVersion, TokenOf(account, version),
               Sends(r, account, version), UNCHANGED phase
        PROVE  TokensInv' /\ Grows /\ Sent(r, account)
    <3>1. TokensInv' /\ Grows /\ version <= issued'[account] /\ Kept(account, version)'
      BY <2>1, <2>2, TokenOfStep DEF Inv
    <3>2. version \in 0 .. MaxVersion
      OBVIOUS
    <3> QED
      BY <2>2, <3>1, <3>2 DEF Sent
  <2>3. CASE TokenRaises(account) /\ Raised(r, account)
    BY <2>1, <2>3, TokenRaisesStep DEF Inv
  <2> QED
    BY <2>1, <2>2, <2>3 DEF GraphRequests, Raised
<1> QED
  BY <1>1, <1>2, Names

\* What is carried by a request the step leaves alone is still kept.
LEMMA StillKept ==
  ASSUME Inv, TokensTypeOK', Grows, NEW r \in Requests, credential'[r] = credential[r],
         credential[r].account \in MsalAccounts
  PROVE  (/\ credential[r].version <= issued[credential[r].account]
          /\ Kept(credential[r].account, credential[r].version))'
<1>1. PICK a \in MsalAccounts : a = credential[r].account
  OBVIOUS
<1>2. PICK v \in 0 .. MaxVersion : v = credential[r].version
  BY DEF Inv, RequestTypes
<1>3. v <= issued[a] /\ Kept(a, v)
  BY <1>1, <1>2 DEF Inv, RequestInv, CredentialInv
<1>4. v \in 0 .. issued[a]
  BY <1>1, <1>3, TokensTypes DEF Inv
<1>5. issued[a] <= issued'[a] /\ Kept(a, v)'
  BY <1>3, <1>4 DEF Grows
<1>6. issued[a] \in Nat /\ issued'[a] \in Nat
  BY DEF Inv, TokensInv, TokensTypeOK
<1>7. v <= issued'[a]
  BY <1>3, <1>5, <1>6
<1> QED
  BY <1>1, <1>2, <1>5, <1>7 DEF Kept

\* A request of its own account leaves the others, and their accounts, alone.
LEMMA RequestedStep ==
  ASSUME Inv, NEW r \in Requests, NEW account \in Accounts, NEW op \in Operations \cup {"connect"},
         Aims(r, account, op), Requesting(r, account), UNCHANGED connected,
         IF r \in Calls THEN phase = "serving" /\ op \in Operations
                        ELSE r = account /\ phase = "connecting" /\ Turn(r)
  PROVE  Inv'
<1>a. RequestTypes
  BY DEF Inv
<1>1. TokensInv' /\ Grows /\ (Sent(r, account) \/ Raised(r, account))
  BY RequestingStep
<1>2. /\ pc[r] = "idle"
      /\ target' = [target EXCEPT ![r] = [account |-> account, op |-> op]]
  BY DEF Aims
<1>3. TokensTypeOK'
  BY <1>1 DEF TokensInv
<1>4. account = r <=> r \in Accounts
  BY Names DEF Requests
<1>5. ASSUME Sent(r, account) PROVE Inv'
  <2>1. PICK version \in 0 .. MaxVersion :
           /\ Sends(r, account, version) /\ UNCHANGED phase
           /\ account \in MsalAccounts => version <= issued'[account] /\ Kept(account, version)'
    BY <1>5 DEF Sent
  <2>2. /\ pc' = [pc EXCEPT ![r] = "sent"]
        /\ credential' = [credential EXCEPT ![r] = [account |-> account, version |-> version]]
        /\ wire' = wire \cup ({r} \cap Calls)
        /\ UNCHANGED <<effect, verdict, phase, connected>>
    BY <2>1 DEF Sends
  <2>3. RequestTypes'
    BY <1>a, <1>2, <2>2, Names DEF RequestTypes
  <2>4. ASSUME NEW q \in Requests, q # r
        PROVE  /\ pc'[q] = pc[q] /\ credential'[q] = credential[q] /\ target'[q] = target[q]
               /\ q \in wire' <=> q \in wire
    BY <1>a, <1>2, <2>2, <2>4 DEF RequestTypes
  <2>5. /\ pc'[r] = "sent" /\ target'[r] = [account |-> account, op |-> op]
        /\ credential'[r] = [account |-> account, version |-> version]
    BY <1>a, <1>2, <2>2 DEF RequestTypes
  <2>6. CredentialInv(r)'
    BY <2>1, <2>5 DEF CredentialInv
  <2>7. ASSUME NEW q \in Requests, q # r PROVE CredentialInv(q)'
    BY <1>1, <1>3, <2>4, <2>7, StillKept DEF CredentialInv, Inv, RequestInv
  <2>8. ASSUME NEW c \in Calls PROVE CallInv(c)'
    <3>1. c \in Requests /\ CallInv(c)
      BY DEF Requests, Inv, RequestInv
    <3>2. CASE c = r
      BY <1>2, <2>2, <2>5, <3>1, <3>2, Names DEF CallInv, NoCredential
    <3>3. CASE c # r
      BY <2>2, <2>4, <3>1, <3>3 DEF CallInv
    <3> QED
      BY <3>2, <3>3
  <2>9. ASSUME NEW a \in Accounts PROVE ProbeInv(a)'
    <3>1. a \in Requests /\ ProbeInv(a)
      BY DEF Requests, Inv, RequestInv
    <3>2. CASE a = r
      BY <1>2, <2>2, <2>5, <3>1, <3>2, Names DEF ProbeInv, Turn
    <3>3. CASE a # r
      BY <2>2, <2>4, <3>1, <3>3 DEF ProbeInv, Turn
    <3> QED
      BY <3>2, <3>3
  <2> QED
    BY <1>1, <2>3, <2>6, <2>7, <2>8, <2>9 DEF Inv, RequestInv
<1>6. ASSUME Raised(r, account) PROVE Inv'
  <2>2. /\ pc' = [pc EXCEPT ![r] = "done"]
        /\ verdict' = [verdict EXCEPT ![r] = "raised"]
        /\ phase' = IF r = account THEN "down" ELSE phase
        /\ UNCHANGED <<credential, wire, effect, connected>>
    BY <1>6 DEF Raised, Ends
  <2>3. RequestTypes'
    BY <1>a, <1>2, <2>2, Names DEF RequestTypes
  <2>4. ASSUME NEW q \in Requests, q # r
        PROVE  pc'[q] = pc[q] /\ target'[q] = target[q] /\ verdict'[q] = verdict[q]
    BY <1>a, <1>2, <2>2, <2>4 DEF RequestTypes
  <2>5. pc'[r] = "done" /\ verdict'[r] = "raised"
    BY <1>a, <2>2 DEF RequestTypes
  <2>7. ASSUME NEW q \in Requests PROVE CredentialInv(q)'
    <3>1. credential'[q] = credential[q]
      BY <2>2
    <3>2. (credential[q].account \in MsalAccounts =>
             /\ credential[q].version <= issued[credential[q].account]
             /\ Kept(credential[q].account, credential[q].version))'
      BY <1>1, <1>3, <3>1, StillKept
    <3>3. CASE q = r
      BY <2>5, <3>2, <3>3 DEF CredentialInv
    <3>4. CASE q # r
      BY <2>4, <3>1, <3>2, <3>4 DEF CredentialInv, Inv, RequestInv
    <3> QED
      BY <3>3, <3>4
  <2>8. ASSUME NEW c \in Calls PROVE CallInv(c)'
    <3>1. c \in Requests /\ CallInv(c)
      BY DEF Requests, Inv, RequestInv
    <3>2. CASE c = r
      BY <1>2, <2>2, <2>5, <3>1, <3>2 DEF CallInv
    <3>3. CASE c # r
      <4>1. pc[c] = "sent" => r # account
        BY <3>1, Names DEF CallInv
      <4> QED
        BY <2>2, <2>4, <3>1, <3>3, <4>1 DEF CallInv
    <3> QED
      BY <3>2, <3>3
  <2>9. ASSUME NEW a \in Accounts PROVE ProbeInv(a)'
    <3>1. a \in Requests /\ ProbeInv(a)
      BY DEF Requests, Inv, RequestInv
    <3>2. CASE a = r
      BY <1>2, <1>4, <2>2, <2>5, <3>1, <3>2, Names DEF ProbeInv
    <3>3. CASE a # r
      <4>1. pc[a] # "sent" \/ r # account
        BY <1>4, <3>1, <3>3, Names DEF ProbeInv, Turn
      <4> QED
        BY <1>4, <2>2, <2>4, <3>1, <3>3, <4>1, Names DEF ProbeInv, Turn
    <3> QED
      BY <3>2, <3>3
  <2> QED
    BY <1>1, <2>3, <2>7, <2>8, <2>9 DEF Inv, RequestInv
<1> QED
  BY <1>1, <1>5, <1>6

-----------------------------------------------------------------------------
\* What comes back: no refusal of a call the server has carried out or may yet.
LEMMA VerdictOfCall ==
  ASSUME Inv, NEW c \in Calls, NEW status \in Statuses, NEW sound \in BOOLEAN,
         pc[c] = "sent", MayAnswer(c, status)
  PROVE  LET outcome == Verdict(c, status, sound) IN
         /\ outcome \in {"ok", "AuthError", "BackendUnavailable", "ProtocolError", "raised"}
         /\ outcome = "ok" => effect[c] # "none"
         /\ outcome \in {"AuthError", "ProtocolError"} => c \in wire /\ effect[c] = "none"
         /\ status = "5xx" => outcome = "BackendUnavailable"
<1>1. /\ target[c].account \in Accounts /\ target[c].op \in Operations /\ target[c].op # "connect"
      /\ c \in wire => effect[c] = "none"
  BY AdaptersAssumption DEF Inv, RequestInv, CredentialInv, CallInv, Requests
<1>2. c \notin Accounts
  BY Names
<1>3. Verdict(c, status, sound) \in {GraphParsed(target[c].op, status, sound), _translate(status)}
  BY <1>1 DEF Verdict
<1>4. GraphParsed(target[c].op, status, sound) \in
        {_translate(status)} \cup (IF _translate(status) = "ok" THEN {"raised"} ELSE {})
  BY DEF GraphParsed
<1>5. /\ _translate(status) \in {"ok", "AuthError", "BackendUnavailable", "ProtocolError"}
      /\ _translate(status) = "ok" => effect[c] # "none"
      /\ _translate(status) \in {"AuthError", "ProtocolError"} => c \in wire
      /\ status = "5xx" => _translate(status) = "BackendUnavailable"
  BY <1>2 DEF Statuses, MayAnswer, _translate
<1> QED
  BY <1>1, <1>3, <1>4, <1>5

LEMMA VerdictTyped ==
  ASSUME NEW r, NEW status \in Statuses, NEW sound \in BOOLEAN
  PROVE  Verdict(r, status, sound) \in
           {"ok", "AuthError", "BackendUnavailable", "ProtocolError", "raised"}
<1>1. /\ _translate(status) \in {"ok", "AuthError", "BackendUnavailable", "ProtocolError"}
      /\ DavProbed(status, sound) \in {"ok", "AuthError", "BackendUnavailable", "ProtocolError"}
  BY DEF Statuses, _translate, DavProbed
<1> QED
  BY <1>1 DEF Verdict, GraphParsed

\* A request returns; of a call only what lets the server's later acts be true.
LEMMA ReturnsStep ==
  ASSUME Inv, NEW r \in Requests, pc[r] = "sent",
         NEW outcome \in {"ok", "AuthError", "BackendUnavailable", "ProtocolError", "raised"},
         Returns(r, outcome), wire' \in {wire, wire \ {r}},
         r \in wire' => outcome = "BackendUnavailable"
  PROVE  Inv'
<1>a. RequestTypes
  BY DEF Inv
<1>1. /\ pc' = [pc EXCEPT ![r] = "done"] /\ verdict' = [verdict EXCEPT ![r] = outcome]
      /\ UNCHANGED <<cacheFile, memory, tenant, unwritten, target, credential, effect>>
      /\ IF r \in Accounts THEN Connects(r, outcome) ELSE UNCHANGED <<phase, connected>>
  BY DEF Returns, Ends, tokens
<1>2. TokensInv' /\ Grows /\ TokensTypeOK'
  BY <1>1, ForgetsStep DEF Inv, TokensInv
<1>3. RequestTypes'
  <2>1. connected' \subseteq Accounts /\ phase' \in {"connecting", "serving", "down"}
    BY <1>a, <1>1 DEF RequestTypes, Connects
  <2> QED
    BY <1>a, <1>1, <2>1 DEF RequestTypes
<1>4. /\ pc'[r] = "done" /\ verdict'[r] = outcome
      /\ \A q \in Requests \ {r} : pc'[q] = pc[q] /\ verdict'[q] = verdict[q]
      /\ \A q \in Requests \ {r} : q \in wire' <=> q \in wire
  BY <1>a, <1>1 DEF RequestTypes
<1>5. ASSUME NEW q \in Requests PROVE CredentialInv(q)'
  <2>1. (credential[q].account \in MsalAccounts =>
           /\ credential[q].version <= issued[credential[q].account]
           /\ Kept(credential[q].account, credential[q].version))'
    BY <1>1, <1>2, StillKept
  <2>2. CASE q = r
    BY <1>4, <2>1, <2>2 DEF CredentialInv
  <2>3. CASE q # r
    BY <1>1, <1>4, <2>1, <2>3 DEF CredentialInv, Inv, RequestInv
  <2> QED
    BY <2>2, <2>3
<1>6. r \in Accounts => phase = "connecting" /\ Turn(r)
  BY DEF Inv, RequestInv, ProbeInv
<1>7. ASSUME NEW c \in Calls PROVE CallInv(c)'
  <2>1. c \in Requests /\ CallInv(c)
    BY DEF Requests, Inv, RequestInv
  <2>2. CASE c = r
    BY <1>1, <1>4, <2>1, <2>2 DEF CallInv
  <2>3. CASE c # r
    <3>1. pc[c] = "sent" => phase' = phase
      BY <1>1, <1>6, <2>1 DEF CallInv
    <3> QED
      BY <1>1, <1>4, <2>1, <2>3, <3>1 DEF CallInv
  <2> QED
    BY <2>2, <2>3
<1>8. ASSUME NEW a \in Accounts PROVE ProbeInv(a)'
  <2>1. a \in Requests /\ ProbeInv(a)
    BY DEF Requests, Inv, RequestInv
  <2>2. CASE r \notin Accounts
    BY <1>1, <1>4, <2>1, <2>2 DEF ProbeInv, Turn
  <2>3. CASE r \in Accounts
    <3>1. /\ connected' = IF outcome = "ok" THEN connected \cup {r} ELSE connected
          /\ phase' = IF outcome # "ok" THEN "down"
                      ELSE IF Accounts \subseteq connected' THEN "serving" ELSE phase
      BY <1>1, <2>3 DEF Connects
    <3>2. CASE a = r
      BY <1>4, <1>6, <3>1, <3>2, <2>1 DEF ProbeInv
    <3>3. CASE a # r
      <4>1. pc[a] # "sent"
        BY <1>6, <2>1, <2>3, <3>3 DEF ProbeInv, Turn
      <4> QED
        BY <1>4, <1>6, <2>1, <3>1, <3>3, <4>1 DEF ProbeInv
    <3> QED
      BY <3>2, <3>3
  <2> QED
    BY <2>2, <2>3
<1> QED
  BY <1>2, <1>3, <1>5, <1>7, <1>8 DEF Inv, RequestInv

LEMMA AnsweredStep ==
  ASSUME Inv, NEW r \in Requests, NEW status \in Statuses, NEW sound \in BOOLEAN,
         Answered(r, status, sound)
  PROVE  Inv'
<1>1. PICK outcome \in {"ok", "AuthError", "BackendUnavailable", "ProtocolError", "raised"} :
         outcome = Verdict(r, status, sound)
  BY VerdictTyped
<1>2. /\ pc[r] = "sent" /\ MayAnswer(r, status)
      /\ wire' = IF status = "5xx" THEN wire ELSE wire \ {r}
      /\ Returns(r, outcome)
  BY <1>1 DEF Answered
<1>3. r \in wire' => outcome = "BackendUnavailable"
  <2>1. CASE r \in Calls
    BY <1>1, <1>2, <2>1, VerdictOfCall
  <2>2. CASE r \notin Calls
    BY <1>2, <2>2 DEF Inv, RequestTypes
  <2> QED
    BY <2>1, <2>2
<1> QED
  BY <1>2, <1>3, ReturnsStep

LEMMA ServerActsStep ==
  ASSUME Inv, NEW c \in Calls, ServerActs(c)
  PROVE  Inv'
<1>a. RequestTypes
  BY DEF Inv
<1>1. PICK done \in {"whole", "part"} : effect' = [effect EXCEPT ![c] = done]
  BY DEF ServerActs
<1>2. /\ c \in wire /\ wire' = wire \ {c}
      /\ UNCHANGED <<cacheFile, memory, tenant, unwritten, phase, connected, pc, target,
                      credential, verdict>>
  BY DEF ServerActs, tokens
<1>3. TokensInv' /\ Grows /\ TokensTypeOK'
  BY <1>2, ForgetsStep DEF Inv, TokensInv
<1>4. RequestTypes'
  BY <1>a, <1>1, <1>2 DEF RequestTypes
<1>5. ASSUME NEW q \in Requests PROVE CredentialInv(q)'
  BY <1>2, <1>3, StillKept DEF CredentialInv, Inv, RequestInv
<1>6. ASSUME NEW b \in Calls PROVE CallInv(b)'
  <2>1. CallInv(b) /\ CallInv(c)
    BY DEF Inv, RequestInv
  <2>2. b # c => effect'[b] = effect[b]
    BY <1>a, <1>1 DEF RequestTypes
  <2> QED
    BY <1>2, <2>1, <2>2 DEF CallInv
<1>7. ASSUME NEW a \in Accounts PROVE ProbeInv(a)'
  BY <1>2 DEF ProbeInv, Turn, Inv, RequestInv
<1> QED
  BY <1>3, <1>4, <1>5, <1>6, <1>7 DEF Inv, RequestInv

\* The death of the process.
LEMMA DeadStep ==
  ASSUME Inv, Dead, TokensInv', Grows
  PROVE  Inv'
<1>a. RequestTypes
  BY DEF Inv
<1>1. /\ phase' = "down" /\ connected' = {}
      /\ pc' = [r \in Requests |-> IF pc[r] = "sent" THEN "lost" ELSE pc[r]]
      /\ UNCHANGED <<target, credential, wire, effect, verdict>>
  BY DEF Dead
<1>2. RequestTypes'
  BY <1>a, <1>1 DEF RequestTypes
<1>3. ASSUME NEW q \in Requests PROVE CredentialInv(q)'
  <2>1. TokensTypeOK'
    BY DEF TokensInv
  <2> QED
    BY <1>1, <2>1, StillKept DEF CredentialInv
<1>4. ASSUME NEW c \in Calls PROVE CallInv(c)'
  BY <1>1 DEF CallInv, Inv, RequestInv, Requests
<1>5. ASSUME NEW a \in Accounts PROVE ProbeInv(a)'
  BY <1>1 DEF ProbeInv, Inv, RequestInv, Requests
<1> QED
  BY <1>2, <1>3, <1>4, <1>5 DEF Inv, RequestInv

LEMMA RestartStep ==
  ASSUME Inv, Restart
  PROVE  Inv'
<1>a. RequestTypes
  BY DEF Inv
<1>1. /\ phase = "down" /\ phase' = "connecting" /\ connected' = {} /\ memory' = NothingLoaded
      /\ pc' = [r \in Requests |-> IF r \in Accounts THEN "idle" ELSE pc[r]]
      /\ verdict' = [r \in Requests |-> IF r \in Accounts THEN "none" ELSE verdict[r]]
      /\ UNCHANGED <<cacheFile, tenant, unwritten, target, credential, wire, effect>>
  BY DEF Restart
<1>2. TokensInv' /\ Grows /\ TokensTypeOK'
  BY <1>1, ForgetsStep DEF Inv, TokensInv
<1>3. RequestTypes'
  BY <1>a, <1>1 DEF RequestTypes
<1>4. ASSUME NEW q \in Requests PROVE CredentialInv(q)'
  BY <1>1, <1>2, StillKept DEF CredentialInv, Inv, RequestInv
<1>5. ASSUME NEW c \in Calls PROVE CallInv(c)'
  BY <1>1, Names DEF CallInv, Inv, RequestInv, Requests
<1>6. ASSUME NEW a \in Accounts PROVE ProbeInv(a)'
  BY <1>1 DEF ProbeInv, Requests
<1> QED
  BY <1>2, <1>3, <1>4, <1>5, <1>6 DEF Inv, RequestInv

LEMMA OwnersStep ==
  ASSUME Inv, UNCHANGED <<phase, connected, requesting>>, TokensInv', Grows
  PROVE  Inv'
<1>1. UNCHANGED <<phase, connected, pc, target, credential, wire, effect, verdict>>
  BY DEF requesting
<1>2. RequestTypes' /\ TokensTypeOK'
  BY <1>1 DEF Inv, RequestTypes, TokensInv
<1>3. ASSUME NEW q \in Requests PROVE CredentialInv(q)'
  BY <1>1, <1>2, StillKept DEF CredentialInv, Inv, RequestInv
<1>4. ASSUME NEW c \in Calls PROVE CallInv(c)'
  BY <1>1 DEF CallInv, Inv, RequestInv
<1>5. ASSUME NEW a \in Accounts PROVE ProbeInv(a)'
  BY <1>1 DEF ProbeInv, Turn, Inv, RequestInv
<1> QED
  BY <1>2, <1>3, <1>4, <1>5 DEF Inv, RequestInv

LEMMA InvStep ==
  ASSUME Inv, [Next]_vars
  PROVE  Inv'
<1>1. ASSUME NEW a \in Accounts, Probe(a) PROVE Inv'
  <2>1. a \in Requests /\ a \notin Calls
    BY Names DEF Requests
  <2> QED
    BY <1>1, <2>1, RequestedStep DEF Probe
<1>2. ASSUME NEW c \in Calls, NEW a \in Accounts, NEW op \in Operations, Operation(c, a, op)
      PROVE  Inv'
  <2>1. c \in Requests
    BY DEF Requests
  <2> QED
    BY <1>2, <2>1, RequestedStep DEF Operation
<1>3. ASSUME NEW c \in Calls, ServerActs(c) PROVE Inv'
  BY <1>3, ServerActsStep
<1>4. ASSUME NEW r \in Requests, NEW status \in Statuses, NEW sound \in BOOLEAN,
             Answered(r, status, sound)
      PROVE  Inv'
  BY <1>4, AnsweredStep
<1>5. ASSUME NEW r \in Requests, Unreachable(r) PROVE Inv'
  BY <1>5, ReturnsStep DEF Unreachable
<1>6. ASSUME NEW r \in Requests, NEW a \in MsalAccounts, CrashInProvider(r, a) PROVE Inv'
  BY <1>6, DiesWritingStep, DeadStep DEF CrashInProvider, Inv
<1>7. CASE Crash
  BY <1>7, ForgetsStep, DeadStep DEF Crash, Inv
<1>8. CASE Restart
  BY <1>8, RestartStep
<1>9. ASSUME NEW a \in MsalAccounts, OwnerStep(a), UNCHANGED <<phase, connected, requesting>>
      PROVE  Inv'
  BY <1>9, OwnerStepStep, OwnersStep DEF Inv
<1>10. CASE UNCHANGED vars
  <2>1. UNCHANGED <<cacheFile, memory, tenant, unwritten>> /\ UNCHANGED <<phase, connected, requesting>>
    BY <1>10 DEF vars, tokens
  <2> QED
    BY <2>1, ForgetsStep, OwnersStep DEF Inv
<1> QED
  BY <1>1, <1>2, <1>3, <1>4, <1>5, <1>6, <1>7, <1>8, <1>9, <1>10 DEF Next

LEMMA Invariant == Spec => []Inv
  BY InvInit, InvStep, PTL DEF Spec

-----------------------------------------------------------------------------
\* Every variable keeps its type, the versions of the tokens within what the
\* tenant issued.
THEOREM TypeCorrect == Spec => []TypeOK
<1>1. Inv => TypeOK
  BY DEF Inv, TokensInv, RequestTypes, TypeOK
<1> QED
  BY <1>1, Invariant, PTL

\* Whatever probes are refused and whenever the process dies, an operation
\* leaves only behind a whole round of good probes of its own process.
THEOREM ProbesFirst == Spec => []ProbedFirst
<1>1. Inv => ProbedFirst
<2> SUFFICES ASSUME Inv, NEW c \in Calls, pc[c] = "sent", NEW a \in Accounts
             PROVE  verdict[a] = "ok"
  BY DEF ProbedFirst
<2>1. CallInv(c) /\ ProbeInv(a)
  BY DEF Inv, RequestInv
<2> QED
  BY <2>1 DEF CallInv, ProbeInv
<1> QED
  BY <1>1, Invariant, PTL

\* No refresh, death, refusal or sign-in leaves an older token on disk than one
\* that was used, unless the file holds nothing or the disk refused the write.
THEOREM KeepsUsed == Spec => []UsedIsKept
<1>1. Inv => UsedIsKept
  BY DEF Inv, RequestInv, CredentialInv, UsedIsKept, Kept
<1> QED
  BY <1>1, Invariant, PTL

-----------------------------------------------------------------------------
(***************************************************************************)
(* The adapters implement the backend.                                     *)
(***************************************************************************)
AskedOf == {c \in Calls : credential[c] # NoCredential}
ActedOn == {c \in Calls : effect[c] # "none"}
Told(outcome) ==
    CASE outcome \in {"AuthError", "ProtocolError"} -> "refused"
      [] outcome \in {"BackendUnavailable", "raised"} -> "unavailable"
      [] OTHER -> outcome
ToldTo == [c \in Calls |-> Told(verdict[c])]

LEMMA Mapping ==
  /\ TheBackend!Init <=> /\ AskedOf = {} /\ ActedOn = {}
                         /\ ToldTo = [c \in Calls |-> "none"]
  /\ TheBackend!vars = <<AskedOf, ActedOn, ToldTo>>
  /\ \A c \in Calls : TheBackend!Ask(c) <=>
        /\ c \notin AskedOf /\ ToldTo[c] = "none"
        /\ AskedOf' = AskedOf \cup {c} /\ UNCHANGED <<ActedOn, ToldTo>>
  /\ \A c \in Calls : TheBackend!Act(c) <=>
        /\ c \in AskedOf \ ActedOn /\ ToldTo[c] \in {"none", "unavailable"}
        /\ ActedOn' = ActedOn \cup {c} /\ UNCHANGED <<AskedOf, ToldTo>>
  /\ \A c \in Calls : \A outcome : TheBackend!End(c, outcome) <=>
        /\ ToldTo[c] = "none"
        /\ outcome = "ok" => c \in ActedOn
        /\ outcome = "refused" => c \notin ActedOn
        /\ ToldTo' = [ToldTo EXCEPT ![c] = outcome] /\ UNCHANGED <<AskedOf, ActedOn>>
  BY DEF TheBackend!Init, TheBackend!vars, TheBackend!Ask, TheBackend!Act, TheBackend!End,
         AskedOf, ActedOn, ToldTo, Told

\* A step that does not touch the calls is a stutter of the backend.
LEMMA Quiet ==
  ASSUME \A c \in Calls : /\ credential'[c] = credential[c] /\ effect'[c] = effect[c]
                          /\ verdict'[c] = verdict[c]
  PROVE  UNCHANGED <<AskedOf, ActedOn, ToldTo>>
  BY DEF AskedOf, ActedOn, ToldTo

LEMMA Asks ==
  ASSUME Inv, NEW c \in Calls, NEW account \in Accounts, pc[c] = "idle", Sent(c, account)
  PROVE  TheBackend!Ask(c)
<1>1. PICK version \in 0 .. MaxVersion : Sends(c, account, version)
  BY DEF Sent
<1>2. /\ credential' = [credential EXCEPT ![c] = [account |-> account, version |-> version]]
      /\ UNCHANGED <<effect, verdict>>
  BY <1>1 DEF Sends
<1>3. c \in Requests /\ CallInv(c)
  BY DEF Requests, Inv, RequestInv
<1>4. /\ credential'[c] # NoCredential
      /\ \A b \in Calls \ {c} : credential'[b] = credential[b]
  BY <1>2, <1>3, Names DEF NoCredential, Inv, RequestTypes
<1>5. c \notin AskedOf /\ ToldTo[c] = "none"
  BY <1>3 DEF CallInv, AskedOf, ToldTo, Told
<1>6. AskedOf' = AskedOf \cup {c} /\ UNCHANGED <<ActedOn, ToldTo>>
  BY <1>2, <1>4 DEF AskedOf, ActedOn, ToldTo
<1> QED
  BY <1>5, <1>6, Mapping

LEMMA EndsWith ==
  ASSUME Inv, NEW c \in Calls, verdict[c] = "none",
         NEW outcome \in {"ok", "AuthError", "BackendUnavailable", "ProtocolError", "raised"},
         verdict' = [verdict EXCEPT ![c] = outcome], UNCHANGED <<credential, effect>>,
         outcome = "ok" => effect[c] # "none",
         outcome \in {"AuthError", "ProtocolError"} => effect[c] = "none"
  PROVE  TheBackend!Next
<1>1. verdict'[c] = outcome /\ \A b \in Calls \ {c} : verdict'[b] = verdict[b]
  BY DEF Inv, RequestTypes, Requests
<1>2. ToldTo[c] = "none" /\ ToldTo' = [ToldTo EXCEPT ![c] = Told(outcome)]
  BY <1>1 DEF ToldTo, Told
<1>3. UNCHANGED <<AskedOf, ActedOn>>
  BY DEF AskedOf, ActedOn
<1>4. Told(outcome) \in {"ok", "refused", "unavailable"}
  BY DEF Told
<1>5. /\ Told(outcome) = "ok" => c \in ActedOn
      /\ Told(outcome) = "refused" => c \notin ActedOn
  BY DEF Told, ActedOn
<1>6. TheBackend!End(c, Told(outcome))
  BY <1>2, <1>3, <1>5, Mapping
<1> QED
  BY <1>4, <1>6 DEF TheBackend!Next

LEMMA StepImplements ==
  ASSUME Inv, [Next]_vars
  PROVE  [TheBackend!Next]_(TheBackend!vars)
<1>q. ASSUME UNCHANGED <<AskedOf, ActedOn, ToldTo>> PROVE UNCHANGED TheBackend!vars
  BY <1>q DEF TheBackend!vars, AskedOf, ActedOn, ToldTo, Told
<1>1. ASSUME NEW a \in Accounts, Probe(a) PROVE UNCHANGED TheBackend!vars
  <2>1. a \in Requests /\ a \notin Calls /\ (Sent(a, a) \/ Raised(a, a))
    BY <1>1, Names, RequestingStep DEF Requests, Probe
  <2>2. \A c \in Calls : /\ credential'[c] = credential[c] /\ effect'[c] = effect[c]
                         /\ verdict'[c] = verdict[c]
    BY <2>1 DEF Sent, Sends, Raised, Ends, Inv, RequestTypes, Requests
  <2> QED
    BY <1>q, <2>2, Quiet
<1>2. ASSUME NEW c \in Calls, NEW a \in Accounts, NEW op \in Operations, Operation(c, a, op)
      PROVE  TheBackend!Next
  <2>1. pc[c] = "idle" /\ (Sent(c, a) \/ Raised(c, a))
    BY <1>2, RequestingStep DEF Operation, Aims, Requests
  <2>2. CASE Sent(c, a)
    BY <2>1, <2>2, Asks DEF TheBackend!Next
  <2>3. CASE Raised(c, a)
    <3>1. verdict[c] = "none"
      BY <2>1 DEF Inv, RequestInv, CallInv
    <3> QED
      BY <2>3, <3>1, EndsWith DEF Raised, Ends
  <2> QED
    BY <2>1, <2>2, <2>3
<1>3. ASSUME NEW c \in Calls, ServerActs(c) PROVE TheBackend!Next
  <2>1. PICK done \in {"whole", "part"} : effect' = [effect EXCEPT ![c] = done]
    BY <1>3 DEF ServerActs
  <2>2. /\ effect'[c] # "none" /\ \A b \in Calls \ {c} : effect'[b] = effect[b]
        /\ UNCHANGED <<credential, verdict>>
    BY <1>3, <2>1 DEF ServerActs, Inv, RequestTypes
  <2>3. /\ credential[c] # NoCredential /\ effect[c] = "none"
        /\ verdict[c] \in {"none", "BackendUnavailable"}
    BY <1>3 DEF ServerActs, Inv, RequestInv, CallInv
  <2>4. c \in AskedOf \ ActedOn /\ ToldTo[c] \in {"none", "unavailable"}
    BY <2>3 DEF AskedOf, ActedOn, ToldTo, Told
  <2>5. ActedOn' = ActedOn \cup {c} /\ UNCHANGED <<AskedOf, ToldTo>>
    BY <2>2 DEF AskedOf, ActedOn, ToldTo
  <2>6. TheBackend!Act(c)
    BY <2>4, <2>5, Mapping
  <2> QED
    BY <2>6 DEF TheBackend!Next
<1>4. ASSUME NEW r \in Accounts, NEW outcome, Returns(r, outcome) PROVE UNCHANGED TheBackend!vars
  <2>1. r \notin Calls
    BY Names
  <2>2. \A c \in Calls : /\ credential'[c] = credential[c] /\ effect'[c] = effect[c]
                         /\ verdict'[c] = verdict[c]
    BY <1>4, <2>1 DEF Returns, Ends, Inv, RequestTypes, Requests
  <2> QED
    BY <1>q, <2>2, Quiet
<1>5. ASSUME NEW r \in Requests, NEW status \in Statuses, NEW sound \in BOOLEAN,
             Answered(r, status, sound), r \in Calls
      PROVE  TheBackend!Next
  <2>1. PICK outcome \in {"ok", "AuthError", "BackendUnavailable", "ProtocolError", "raised"} :
           outcome = Verdict(r, status, sound)
    BY VerdictTyped
  <2>2. pc[r] = "sent" /\ MayAnswer(r, status) /\ Returns(r, outcome)
    BY <1>5, <2>1 DEF Answered
  <2>3. /\ outcome = "ok" => effect[r] # "none"
        /\ outcome \in {"AuthError", "ProtocolError"} => effect[r] = "none"
    BY <1>5, <2>1, <2>2, VerdictOfCall
  <2>4. verdict[r] = "none"
    BY <1>5, <2>2 DEF Inv, RequestInv, CallInv
  <2> QED
    BY <1>5, <2>2, <2>3, <2>4, EndsWith DEF Returns, Ends
<1>6. ASSUME NEW r \in Requests, Unreachable(r), r \in Calls PROVE TheBackend!Next
  <2>1. verdict[r] = "none"
    BY <1>6 DEF Unreachable, Inv, RequestInv, CallInv
  <2> QED
    BY <1>6, <2>1, EndsWith DEF Unreachable, Returns, Ends
<1>7. ASSUME Dead \/ UNCHANGED <<phase, connected, requesting>> PROVE UNCHANGED TheBackend!vars
  <2>1. UNCHANGED <<credential, effect, verdict>>
    BY <1>7 DEF Dead, requesting
  <2> QED
    BY <1>q, <2>1, Quiet
<1>8. CASE Restart
  <2>1. \A c \in Calls : /\ credential'[c] = credential[c] /\ effect'[c] = effect[c]
                         /\ verdict'[c] = verdict[c]
    BY <1>8, Names DEF Restart, Requests
  <2> QED
    BY <1>q, <2>1, Quiet
<1>9. ASSUME NEW r \in Accounts,
             \/ \E status \in Statuses, sound \in BOOLEAN : Answered(r, status, sound)
             \/ Unreachable(r)
      PROVE  UNCHANGED TheBackend!vars
  BY <1>4, <1>9 DEF Answered, Unreachable
<1>10. ASSUME NEW r \in Requests,
              \/ \E status \in Statuses, sound \in BOOLEAN : Answered(r, status, sound)
              \/ Unreachable(r)
       PROVE  [TheBackend!Next]_(TheBackend!vars)
  <2>1. CASE r \in Calls
    BY <1>5, <1>6, <1>10, <2>1
  <2>2. CASE r \in Accounts
    BY <1>9, <1>10, <2>2
  <2> QED
    BY <2>1, <2>2 DEF Requests
<1>11. CASE UNCHANGED vars
  BY <1>7, <1>11 DEF vars
<1>12. ASSUME NEW r \in Requests, NEW a \in MsalAccounts, CrashInProvider(r, a)
       PROVE  UNCHANGED TheBackend!vars
  BY <1>7, <1>12 DEF CrashInProvider
<1>13. CASE Crash
  BY <1>7, <1>13 DEF Crash
<1> QED
  BY <1>1, <1>2, <1>3, <1>7, <1>8, <1>10, <1>11, <1>12, <1>13 DEF Next

\* The adapters implement the backend that the gate relies on, for every
\* configuration: a call asks the server at most once; a result is only for what
\* it has done and a refusal only for what it never does, though requests time
\* out, processes die and the server acts late.
THEOREM Implements == Spec => BackendSpec
<1>1. Init => TheBackend!Init
  BY Mapping, Names DEF Init, AskedOf, ActedOn, ToldTo, Told, Requests
<1> QED
  BY <1>1, StepImplements, Invariant, PTL DEF Spec, BackendSpec, TheBackend!Spec
=============================================================================

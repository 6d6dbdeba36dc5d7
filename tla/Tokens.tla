------------------------------- MODULE Tokens -------------------------------
(***************************************************************************)
(* The MSAL token provider (data_broker/token_providers.py): one token     *)
(* cache per OneDrive account, loaded from its file once per process and   *)
(* rewritten in place after a refresh.                                     *)
(*                                                                         *)
(* The contents of a cache are the version of its refresh token, 0 when it *)
(* holds none.  MSAL and the tenant are external: a refresh issues the     *)
(* next version, and the tenant refuses the versions it has revoked.       *)
(***************************************************************************)
EXTENDS Naturals

CONSTANTS
    MsalAccounts,   \* the accounts the provider serves
    MaxVersion,     \* bound on the versions the tenant ever issues
    Absent,         \* there is no cache file
    Cut,            \* a cache file cut off in the middle: no valid JSON
    Unloaded        \* the process has not read the cache yet

ASSUME TokensAssumption ==
    /\ MaxVersion \in Nat \ {0}
    /\ {Absent, Cut, Unloaded} \cap Nat = {}

VARIABLES
    cacheFile,   \* msal_cache_<account>.json
    memory,      \* the contents the process works on: _apps
    issued,      \* the last version the tenant issued
    revoked,     \* the last version the tenant refuses
    unwritten    \* the tokens whose write the disk refused (a history)

tenant == <<issued, revoked>>
tokens == <<cacheFile, memory, tenant, unwritten>>

NothingLoaded == [a \in MsalAccounts |-> Unloaded]

InitTokens ==
    /\ issued \in [MsalAccounts -> {0, 1}]
    /\ cacheFile = [a \in MsalAccounts |-> IF issued[a] = 0 THEN Absent ELSE issued[a]]
    /\ memory = NothingLoaded
    /\ revoked = [a \in MsalAccounts |-> 0]
    /\ unwritten = {}

\* deserialize raises on a file that was cut off, and takes an empty one.
Readable(a) == memory[a] # Unloaded \/ cacheFile[a] # Cut

\* _app: what is in memory, or else in the file.
_app(a) ==
    IF memory[a] # Unloaded THEN memory[a]
    ELSE IF cacheFile[a] = Absent THEN 0 ELSE cacheFile[a]

\* Mutant: the cache is written when the process leaves, not here.
PersistLater(a, contents) == UNCHANGED <<cacheFile, unwritten>>

\* _persist writes the cache.
_persist(a, contents) ==
    /\ cacheFile' = [cacheFile EXCEPT ![a] = contents]
    /\ UNCHANGED unwritten

\* write_text raises instead, in opening the file or with some of it written.
\* serialize has by then marked the cache as unchanged: no later call writes
\* these contents.
PersistRaises(a, contents) ==
    /\ \E rest \in {cacheFile[a], 0, Cut} : cacheFile' = [cacheFile EXCEPT ![a] = rest]
    /\ unwritten' = unwritten \cup ({a} \X ({contents} \ {0}))

\* Mutant: memory is the file as it was found, also when there is none.
KeepsFile(a, contents) == memory' = [memory EXCEPT ![a] = cacheFile[a]]

\* The process goes on with these contents.
Keeps(a, contents) == memory' = [memory EXCEPT ![a] = contents]

Refreshes(a) == _app(a) > revoked[a] /\ issued[a] < MaxVersion
Refused(a) == _app(a) \in 1 .. revoked[a]

\* The tenant gives the next version for the refresh token in the cache, or
\* refuses that, and MSAL drops it.
Acquires(a, contents) ==
    /\ Readable(a)
    /\ \/ /\ Refreshes(a)
          /\ contents = issued[a] + 1
          /\ issued' = [issued EXCEPT ![a] = contents]
       \/ /\ Refused(a)
          /\ contents = 0
          /\ UNCHANGED issued
    /\ UNCHANGED revoked

\* get_token returns: the access token in the cache still holds, or the refresh
\* token gets a new one and is itself replaced.
TokenOf(a, version) ==
    /\ version > 0
    /\ Keeps(a, version)
    /\ \/ /\ Readable(a)
          /\ version = _app(a)
          /\ UNCHANGED <<cacheFile, tenant, unwritten>>
       \/ Acquires(a, version) /\ _persist(a, version)

\* get_token raises: the file cannot be read, the cache holds no token or the
\* network is away, the tenant refuses the token, or the cache cannot be written.
TokenRaises(a) ==
    \/ ~Readable(a) /\ UNCHANGED tokens
    \/ Readable(a) /\ Keeps(a, _app(a)) /\ UNCHANGED <<cacheFile, tenant, unwritten>>
    \/ \E contents \in 0 .. MaxVersion :
          /\ Acquires(a, contents)
          /\ Keeps(a, contents)
          /\ (contents = 0 /\ _persist(a, 0)) \/ PersistRaises(a, contents)

\* The process dies in _persist's write_text, which has truncated the file.
DiesWriting(a) ==
    /\ \E contents \in 0 .. MaxVersion : Acquires(a, contents)
    /\ \E rest \in {0, Cut} : cacheFile' = [cacheFile EXCEPT ![a] = rest]
    /\ memory' = NothingLoaded
    /\ UNCHANGED unwritten

\* The owner signs in with a tool of his own, which writes the cache file: no
\* call of the provider completes the flow it starts (external).
SignIn(a) ==
    /\ issued[a] < MaxVersion
    /\ issued' = [issued EXCEPT ![a] = @ + 1]
    /\ cacheFile' = [cacheFile EXCEPT ![a] = issued[a] + 1]
    /\ UNCHANGED <<memory, revoked, unwritten>>

DeleteCache(a) ==
    /\ cacheFile[a] # Absent
    /\ cacheFile' = [cacheFile EXCEPT ![a] = Absent]
    /\ UNCHANGED <<memory, tenant, unwritten>>

Revoke(a) ==
    /\ revoked[a] < issued[a]
    /\ revoked' = [revoked EXCEPT ![a] = issued[a]]
    /\ UNCHANGED <<cacheFile, memory, issued, unwritten>>

OwnerStep(a) == SignIn(a) \/ DeleteCache(a) \/ Revoke(a)

TokensTypeOK ==
    /\ cacheFile \in [MsalAccounts -> (0 .. MaxVersion) \cup {Absent, Cut}]
    /\ memory \in [MsalAccounts -> (0 .. MaxVersion) \cup {Unloaded}]
    /\ issued \in [MsalAccounts -> 0 .. MaxVersion]
    /\ revoked \in [MsalAccounts -> 0 .. MaxVersion]
    /\ unwritten \subseteq MsalAccounts \X (0 .. MaxVersion)
=============================================================================

------------------------------- MODULE Config -------------------------------
(***************************************************************************)
(* The configuration (data_broker/config.py) and the backends that run.py  *)
(* builds from it: which raw configurations load, and which account is     *)
(* served by which backend.                                                *)
(*                                                                         *)
(* A raw configuration is what the YAML text says, the variables it names  *)
(* replaced by what the environment holds.  `sections' are the families    *)
(* under `accounts' in the order of the text, where one may come twice.    *)
(* Every error is a ConfigError that refuses the start, so an operator     *)
(* only says whether its part is accepted.                                 *)
(***************************************************************************)
EXTENDS Naturals, Sequences, FiniteSetsExt, Functions

CONSTANT TokenLength    \* the length of each token; an unset one has length 0

Families == {"webdav", "onedrive"}

PORT_MAX == 65535

validate_bind_host(host) == host \notin {"0.0.0.0", "::", ""}

\* Mutant: the two tokens are not compared.
parse_tokens_alone(raw) ==
    /\ raw.min_length > 0
    /\ TokenLength[raw.agent] > 0
    /\ TokenLength[raw.transfer] > 0
    /\ TokenLength[raw.transfer] >= raw.min_length

\* Both tokens are set, the transfer token long enough and not the agent's.
parse_tokens(raw) ==
    /\ raw.min_length > 0
    /\ TokenLength[raw.agent] > 0
    /\ TokenLength[raw.transfer] > 0
    /\ TokenLength[raw.transfer] >= raw.min_length
    /\ raw.agent # raw.transfer

\* The YAML loader refuses a key that comes twice in a mapping.
construct_mapping(raw) ==
    \A i, j \in DOMAIN raw.sections :
        raw.sections[i].family = raw.sections[j].family => i = j

\* What the mapping holds under a family: the last section of that name.
Entries(raw, family) ==
    LET own == {i \in DOMAIN raw.sections : raw.sections[i].family = family} IN
    IF own = {} THEN <<>> ELSE raw.sections[Max(own)].entries

\* An entry has its strings and its secret, and an authority exactly with msal.
EntryParses(entry) ==
    /\ entry.complete
    /\ entry.provider \in {"default", "msal"}
    /\ entry.authority <=> entry.provider = "msal"

\* Mutant: names are unique within a family.
UniqueInFamily(raw) ==
    \A family \in Families : IsInjective([i \in DOMAIN Entries(raw, family) |->
                                             Entries(raw, family)[i].name])

\* No account name comes twice, within a family or across them.
NamesUnique(raw) ==
    LET all == Entries(raw, "webdav") \o Entries(raw, "onedrive") IN
    IsInjective([i \in DOMAIN all |-> all[i].name])

parse_accounts(raw) ==
    /\ \A family \in Families : \A i \in DOMAIN Entries(raw, family) :
        EntryParses(Entries(raw, family)[i])
    /\ \E family \in Families : Entries(raw, family) # <<>>
    /\ NamesUnique(raw)

load_config(raw) ==
    /\ construct_mapping(raw)
    /\ validate_bind_host(raw.bind_host)
    /\ raw.bind_port \in 1 .. PORT_MAX
    /\ raw.transport \in {"stdio", "http"}
    /\ parse_tokens(raw)
    /\ parse_accounts(raw)
    /\ raw.transport = "http" => raw.oauth

-----------------------------------------------------------------------------
Named(raw, family) == {Entries(raw, family)[i].name : i \in DOMAIN Entries(raw, family)}

\* The accounts of one backend, a dict of what their entries say: the last entry of
\* a name stays.
BackendAccounts(raw, family) ==
    [name \in Named(raw, family) |->
        Entries(raw, family)[Max({i \in DOMAIN Entries(raw, family) :
                                     Entries(raw, family)[i].name = name})]]

\* accounts_map: WebDAV's names, then OneDrive's.
accounts_map(raw) ==
    [name \in Named(raw, "webdav") \cup Named(raw, "onedrive") |->
        IF name \in Named(raw, "onedrive") THEN "onedrive" ELSE "webdav"]

\* Where the token of a OneDrive backend comes from, and for which registration:
\* a client and an authority.
StaticTokenProvider == [kind |-> "default", client |-> "none"]
MsalTokenProvider(client) == [kind |-> "msal", client |-> client]
NoProvider == [kind |-> "none", client |-> "none"]

\* One provider for the whole family: the first entry that asks for msal selects
\* it, with its own registration.
_onedrive_provider(entries) ==
    LET asking == {i \in DOMAIN entries : entries[i].provider = "msal"} IN
    IF asking = {} THEN StaticTokenProvider ELSE MsalTokenProvider(entries[Min(asking)].client)

Provider(raw, family) ==
    IF family = "onedrive" THEN _onedrive_provider(Entries(raw, "onedrive")) ELSE NoProvider

\* What serves an account by its name: the family, the entry in its backend, and
\* the provider of that backend's tokens.
Route(raw, name) ==
    [family |-> accounts_map(raw)[name],
     entry |-> BackendAccounts(raw, accounts_map(raw)[name])[name],
     provider |-> Provider(raw, accounts_map(raw)[name])]
=============================================================================

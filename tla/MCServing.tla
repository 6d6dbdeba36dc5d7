----------------------------- MODULE MCServing -----------------------------
(***************************************************************************)
(* Small instances of Serving: every pair of tokens on a plain             *)
(* configuration, and every way to write up to two sections with up to two *)
(* accounts under two names.                                               *)
(***************************************************************************)
EXTENDS Serving

MCTokenLength == [unset |-> 0, short |-> 8, first |-> 32, second |-> 32]

Entry(name, provider, secret) ==
    [name |-> name, complete |-> TRUE, provider |-> provider, authority |-> provider = "msal",
     secret |-> secret, client |-> secret]

Section(family, entries) == [family |-> family, entries |-> entries]

Plain ==
    [bind_host |-> "127.0.0.1", bind_port |-> 8471, transport |-> "http", oauth |-> TRUE,
     agent |-> "first", transfer |-> "second", min_length |-> 32, gateway |-> TRUE,
     sections |-> <<Section("webdav", <<Entry("work", "default", "s1")>>)>>]

OtherTokens ==
    {[Plain EXCEPT !.agent = agent, !.transfer = transfer] :
        agent \in DOMAIN MCTokenLength, transfer \in DOMAIN MCTokenLength}

\* One or two entries, and one or two sections; `secret' and `client' tell two
\* entries of one name apart.
Sections ==
    {Section(family, <<Entry(name, "default", secret)>>) :
        family \in Families, name \in {"work", "home"}, secret \in {"s1", "s2"}}
    \cup {Section("onedrive", <<Entry(name, first, "s1"), Entry("home", "msal", "s2")>>) :
        name \in {"work", "home"}, first \in {"default", "msal"}}

OtherAccounts ==
    {[Plain EXCEPT !.sections = <<one>>] : one \in Sections}
    \cup {[Plain EXCEPT !.sections = <<one, two>>] : one \in Sections, two \in Sections}

Others ==
    {[Plain EXCEPT !.transport = "stdio"],
     [Plain EXCEPT !.transport = "stdio", !.gateway = FALSE, !.oauth = FALSE],
     [Plain EXCEPT !.gateway = FALSE],
     [Plain EXCEPT !.oauth = FALSE],
     [Plain EXCEPT !.bind_host = "0.0.0.0"],
     [Plain EXCEPT !.bind_port = 0],
     [Plain EXCEPT !.sections = <<>>],
     [Plain EXCEPT !.sections[1].entries[1].complete = FALSE],
     [Plain EXCEPT !.sections[1].entries[1].authority = TRUE]}

MCRaws == OtherTokens \cup OtherAccounts \cup Others

PlainOnly == {Plain}
=============================================================================

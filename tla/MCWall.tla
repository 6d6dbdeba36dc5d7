------------------------------- MODULE MCWall -------------------------------
(***************************************************************************)
(* The wall's normalizer and the adapters' addresses on every pair of      *)
(* short resources, spelled token by token: a scope, or the source of a    *)
(* move, and a request, or its destination.                                *)
(***************************************************************************)
EXTENDS Paths

CONSTANTS
    ScopeTokens,     \* what a scope is spelled with
    RequestTokens,   \* what a request is spelled with
    MaxTokens        \* bound on the tokens of each

VARIABLES
    scope,    \* the raw resource of a grant item
    request   \* the raw resource of a request

vars == <<scope, request>>

Token(ch, depth) == [ch |-> ch, depth |-> depth]

Tokens == [ch : STRING, depth : Nat]

\* A name, a separator and a dot, plain and escaped.
MCScopeTokens == {Token("a", 0), Token("/", 0), Token("/", 1), Token(".", 1)}
MCRequestTokens ==
    {Token("a", 0), Token("a", 2), Token("/", 0), Token("/", 1), Token("/", 3),
     Token(".", 0), Token("root:", 0), Token("NUL", 1), Token(Spaced, 0)}

\* For moves alone.
MCMoveTokens == {Token("a", 0), Token("/", 0), Token(Spaced, 0)}

ASSUME SpellingAssumption ==
    /\ ScopeTokens \subseteq Tokens
    /\ RequestTokens \subseteq Tokens
    /\ MaxTokens \in Nat

Init == scope = <<>> /\ request = <<>>

SpellScope(token) ==
    /\ Len(scope) < MaxTokens
    /\ scope' = Append(scope, token)
    /\ UNCHANGED request

SpellRequest(token) ==
    /\ Len(request) < MaxTokens
    /\ request' = Append(request, token)
    /\ UNCHANGED scope

Spelled == Len(scope) = MaxTokens /\ Len(request) = MaxTokens /\ UNCHANGED vars

Next ==
    \/ \E token \in ScopeTokens : SpellScope(token)
    \/ \E token \in RequestTokens : SpellRequest(token)
    \/ Spelled

Spec == Init /\ [][Next]_vars

-----------------------------------------------------------------------------
Accepted(raw, b) == normalize_store_node(raw, b).ok
NodeOf(raw, b) == normalize_store_node(raw, b).node

Decodes(raw) == [i \in DOMAIN raw |-> raw[i].ch]
Plain(text) == [i \in DOMAIN text |-> Token(text[i], 0)]

\* A resource the normalizer takes names a node below the account's root: at
\* least one component, none empty, dotted or holding a separator or a control
\* character, so that no grant covers a whole account.
NodesWellFormed ==
    \A b \in DECLARED_BACKENDS : Accepted(request, b) =>
        /\ NodeOf(request, b) # <<>>
        /\ \A component \in Range(NodeOf(request, b)) :
            /\ component \notin {<<>>, <<".">>, <<".", ".">>}
            /\ {Separator, NUL, CTL} \cap Range(component) = {}

\* Encoding cannot make the wall judge another node: two accepted spellings that
\* decode to the same characters name the same node, an accepted spelling the
\* node of its plain text.
EncodingBlind ==
    \A b \in DECLARED_BACKENDS :
        /\ Accepted(request, b) =>
            normalize_store_node(request, b) = normalize_store_node(Plain(Decodes(request)), b)
        /\ Accepted(scope, b) /\ Accepted(request, b) /\ Decodes(scope) = Decodes(request) =>
            NodeOf(scope, b) = NodeOf(request, b)

\* What is spelled below a scope is judged below it: no suffix of separators and
\* dots, encoded or not, leads out of the subtree a grant names; on OneDrive unless
\* the suffix completes a Graph prefix that the scope only began.
SubtreeClosed ==
    LET below == scope \o <<Token(Separator, 0)>> \o request IN
    \A b \in DECLARED_BACKENDS :
        /\ Accepted(scope, b) /\ Accepted(below, b)
        /\ b = "onedrive" /\ GraphPrefixed(Decodes(below)) => GraphPrefixed(Decodes(scope))
        => covers(NodeOf(scope, b), NodeOf(below, b))

\* The Graph prefix never changes the node: behind "/drives/<id>/root:" a path
\* without a prefix of its own names what it names alone, also where it holds
\* "root:", and the prefix costs no more than its length.
GraphPrefixBlind ==
    LET prefixed == Plain(<<"/", "drives", "/", "id", "/", "root:">>) \o request IN
    ~ GraphPrefixed(Decodes(request)) =>
        /\ Accepted(prefixed, "onedrive") =>
            /\ Accepted(request, "onedrive")
            /\ NodeOf(prefixed, "onedrive") = NodeOf(request, "onedrive")
        /\ Accepted(request, "onedrive") /\ RawLength(prefixed) <= MAX_RESOURCE_LENGTH =>
            Accepted(prefixed, "onedrive")

\* An adapter finds every node by the name it was spelled with, whatever has to
\* be quoted on the way: quoting and the server's decoding cancel out, and what
\* Graph's mkdir cuts apart is put together again.
AddressesAsSpelled ==
    \A family \in Families, op \in DECLARED_OPERATIONS :
        Accepted(request, family) => Addressed(family, op, request) = Names(request)

IsPlain(raw) == \A i \in DOMAIN raw : raw[i].depth = 0

\* A resource that is spelled without escapes and without a Graph prefix.
Simple(raw, family) ==
    Accepted(raw, family) /\ IsPlain(raw) /\ (family = "onedrive" => ~ GraphPrefixed(Decodes(raw)))

\* The node the wall judged, in tokens.
Judged(raw, family) ==
    LET node == NodeOf(raw, family) IN [i \in DOMAIN node |-> Plain(node[i])]

\* The wall and the adapters, which read the raw resource each on its own, mean
\* the same node: what was judged is what is operated on, for every operation of
\* both families and however many slashes lead the resource.
OperatesOnJudged ==
    \A family \in Families, op \in DECLARED_OPERATIONS :
        Simple(request, family) => Addressed(family, op, request) = Judged(request, family)

\* As move_node says it: the node moves to the destination.
MoveLands ==
    \A family \in Families :
        Simple(scope, family) /\ Simple(request, family) =>
            Landing(family, scope, request) = Judged(request, family)
=============================================================================

-------------------------------- MODULE Wall --------------------------------
(***************************************************************************)
(* The policy wall of the data broker (data_broker/policy.py): the tier    *)
(* table, the store-node normalizer, and the matching of a grant item      *)
(* against a request that the core's check() performs with them.           *)
(*                                                                         *)
(* A raw resource is a sequence of tokens [ch, depth].  `ch' is the        *)
(* character (or a whole name) the token finally decodes to and `depth'    *)
(* the number of percent-decode rounds that takes: "." is depth 0, "%2e"   *)
(* depth 1, "%252e" depth 2.  A "%" that starts no valid escape is a       *)
(* character of depth 0 like any other.  Names longer than a character are *)
(* single tokens, as only "/", "." and the control characters are ever     *)
(* looked at.                                                              *)
(***************************************************************************)
EXTENDS Naturals, Sequences, FiniteSets, SequencesExt

CONSTANTS
    MAX_DECODE_PASSES,    \* rounds of percent-decoding the normalizer tries
    MAX_RESOURCE_LENGTH   \* longest raw resource, in characters

ASSUME WallAssumption ==
    /\ MAX_DECODE_PASSES \in Nat \ {0}
    /\ MAX_RESOURCE_LENGTH \in Nat

-----------------------------------------------------------------------------
(***************************************************************************)
(* Operations and their tiers.                                             *)
(***************************************************************************)
DECLARED_OPERATIONS == {"read", "write", "list", "move", "trash", "mkdir"}

DECLARED_BACKENDS == {"webdav", "onedrive"}

tier_table ==
    [op \in DECLARED_OPERATIONS |->
        IF op \in {"read", "list"} THEN "READ" ELSE "GATED"]

\* The registry's classification: an operation outside the table is GATED.
classify(op) == IF op \in DECLARED_OPERATIONS THEN tier_table[op] ELSE "GATED"

-----------------------------------------------------------------------------
(***************************************************************************)
(* The normalizer.                                                         *)
(***************************************************************************)
Separator == "/"
NUL == "NUL"
CTL == "CTL"      \* any other C0 control but tab and newline

\* One decode round: every escape loses one level.
decode_once(text) ==
    [i \in DOMAIN text |->
        [text[i] EXCEPT !.depth = IF @ = 0 THEN 0 ELSE @ - 1]]

\* The text after k rounds.
Decoded(raw, k) ==
    [i \in DOMAIN raw |->
        [raw[i] EXCEPT !.depth = IF @ < k THEN 0 ELSE @ - k]]

\* A text another round would leave as it is: the loop's two breaks.
Settled(text) == decode_once(text) = text

\* An escape that is still there shows as its percent sign.
Characters(text) ==
    [i \in DOMAIN text |-> IF text[i].depth = 0 THEN text[i].ch ELSE "%"]

\* "%25...2e" of depth d is written with 1 + 2d characters.
RawLength(raw) == FoldLeft(LAMBDA n, token : n + 1 + 2 * token.depth, 0, raw)

\* text.lstrip("/")
StripLeading(text) ==
    LET first == {i \in DOMAIN text : text[i] # Separator}
    IN  IF first = {} THEN <<>> ELSE SubSeq(text, Min(first), Len(text))

\* A mark ends the last part; any other character extends it.
Extend(mark, parts, ch) ==
    IF ch = mark THEN Append(parts, <<>>)
    ELSE [parts EXCEPT ![Len(parts)] = Append(@, ch)]

\* text.split(mark): the runs between two marks, empty ones included.
SplitAt(text, mark) ==
    FoldLeft(LAMBDA parts, ch : Extend(mark, parts, ch), << <<>> >>, text)

SplitComponents(text) == SplitAt(text, Separator)

Drives == <<Separator, "drives", Separator>>

\* The places of "/root:" in a text.
Roots(text) == {i \in 1 .. Len(text) - 1 : text[i] = Separator /\ text[i + 1] = "root:"}

\* OneDrive's "/drives/<id>/root:" shape.
GraphPrefixed(text) == IsPrefix(Drives, text) /\ Roots(text) # {}

\* Mutant: cut at the last "/root:".
CutAtLastRoot(text) ==
    IF GraphPrefixed(text)
    THEN SubSeq(text, Max(Roots(text)) + 2, Len(text))
    ELSE text

\* Of a text of that shape, keep what follows the first "/root:".
strip_graph_prefix(text) ==
    IF GraphPrefixed(text)
    THEN SubSeq(text, Min(Roots(text)) + 2, Len(text))
    ELSE text

Node(components) == [ok |-> TRUE, node |-> components]
Refusal(reason) == [ok |-> FALSE, reason |-> reason]

\* Mutant: empty components are dropped instead of refused.
JudgeSqueezed(text, backend) ==
    LET stripped == IF backend = "onedrive" THEN strip_graph_prefix(text) ELSE text
        components == SelectSeq(SplitComponents(StripLeading(stripped)), LAMBDA c : c # <<>>)
    IN  IF {NUL, CTL} \cap Range(text) # {} THEN Refusal("MALFORMED_RESOURCE")
        ELSE IF stripped \in {<<>>, <<Separator>>} THEN Refusal("EMPTY_RESOURCE")
        ELSE IF <<".">> \in Range(components) THEN Refusal("MALFORMED_RESOURCE")
        ELSE IF <<".", ".">> \in Range(components) THEN Refusal("ESCAPES_NAMESPACE")
        ELSE Node(components)

\* Mutant: ".." climbs instead of being refused.
JudgeClimbing(text, backend) ==
    LET stripped == IF backend = "onedrive" THEN strip_graph_prefix(text) ELSE text
        components == SplitComponents(StripLeading(stripped))
        Climb(path, c) == IF c = <<".", ".">> /\ path # <<>> THEN Front(path) ELSE Append(path, c)
    IN  IF {NUL, CTL} \cap Range(text) # {} THEN Refusal("MALFORMED_RESOURCE")
        ELSE IF stripped \in {<<>>, <<Separator>>} THEN Refusal("EMPTY_RESOURCE")
        ELSE IF {<<>>, <<".">>} \cap Range(components) # {} THEN Refusal("MALFORMED_RESOURCE")
        ELSE Node(FoldLeft(Climb, <<>>, components))

\* The checks on the text the decode loop leaves, in the code's order.
JudgeText(text, backend) ==
    LET stripped == IF backend = "onedrive" THEN strip_graph_prefix(text) ELSE text
        components == SplitComponents(StripLeading(stripped))
    IN  IF {NUL, CTL} \cap Range(text) # {} THEN Refusal("MALFORMED_RESOURCE")
        ELSE IF stripped \in {<<>>, <<Separator>>} THEN Refusal("EMPTY_RESOURCE")
        ELSE IF {<<>>, <<".">>} \cap Range(components) # {} THEN Refusal("MALFORMED_RESOURCE")
        ELSE IF <<".", ".">> \in Range(components) THEN Refusal("ESCAPES_NAMESPACE")
        ELSE Node(components)

\* The round in which the loop breaks: the first that changes nothing.
Rounds(raw) == {k \in 0 .. MAX_DECODE_PASSES - 1 : Settled(Decoded(raw, k))}

\* Mutant: a text that still changes in the last round is judged as it is then.
NormalizeUndecided(raw, backend) ==
    IF backend \notin DECLARED_BACKENDS THEN Refusal("UNKNOWN_BACKEND")
    ELSE IF RawLength(raw) > MAX_RESOURCE_LENGTH THEN Refusal("MALFORMED_RESOURCE")
    ELSE IF Rounds(raw) = {}
    THEN JudgeText(Characters(Decoded(raw, MAX_DECODE_PASSES - 1)), backend)
    ELSE JudgeText(Characters(Decoded(raw, Min(Rounds(raw)))), backend)

\* A raw resource to its components, or a refusal with a fixed reason.  The
\* loop breaks in round k < MAX_DECODE_PASSES on a settled text; a text that
\* still changes in the last round is refused.
normalize_store_node(raw, backend) ==
    IF backend \notin DECLARED_BACKENDS THEN Refusal("UNKNOWN_BACKEND")
    ELSE IF RawLength(raw) > MAX_RESOURCE_LENGTH THEN Refusal("MALFORMED_RESOURCE")
    ELSE IF Rounds(raw) = {} THEN Refusal("NORMALIZATION_FAILURE")
    ELSE JudgeText(Characters(Decoded(raw, Min(Rounds(raw)))), backend)

-----------------------------------------------------------------------------
(***************************************************************************)
(* The matching the core's check() performs with this registry (external,  *)
(* from the decisions tests/test_policy.py expects of it).                 *)
(***************************************************************************)

\* A scope covers its own node and every descendant, by whole components.
covers(scope, node) == IsPrefix(scope, node)

\* "write" implies "read", and nothing else implies anything.
GrantsOp(ops, op) == op \in ops \/ (op = "read" /\ "write" \in ops)

\* Does a grant item (or baseline definition) with this scope match a request for
\* this node?  `scope' and `node' are results of the normalizer.
check(item, scope, backend, account, node, op) ==
    /\ item.backend = backend
    /\ item.account = account
    /\ scope.ok
    /\ node.ok
    /\ covers(scope.node, node.node)
    /\ GrantsOp(item.ops, op)
=============================================================================

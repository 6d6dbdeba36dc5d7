-------------------------------- MODULE Paths --------------------------------
(***************************************************************************)
(* Which node a backend adapter addresses (data_broker/backends): from a   *)
(* raw resource to the URL, and to the node the server finds there after   *)
(* its one round of percent-decoding (external).                           *)
(*                                                                         *)
(* The wall judges what a resource decodes to; the adapters are handed the *)
(* raw resource.  Texts are sequences of the wall's tokens, a node is the  *)
(* sequence of its names, and an escape left in a name is part of it.      *)
(***************************************************************************)
EXTENDS Wall

Slash == [ch |-> Separator, depth |-> 0]

Families == DECLARED_BACKENDS

\* The names that hold something quote() does not leave alone.
Spaced == "my notes"
Unsafe == {Separator, "root:", NUL, CTL, Spaced}

\* Mutant: what looks escaped is left alone.
QuoteOnce(text, safe) ==
    [i \in DOMAIN text |->
        IF text[i].depth > 0 \/ text[i].ch \notin Unsafe \ safe
        THEN text[i] ELSE [text[i] EXCEPT !.depth = @ + 1]]

\* urllib's quote: a percent sign becomes an escape like any unsafe character.
quote(text, safe) ==
    [i \in DOMAIN text |->
        IF text[i].depth = 0 /\ text[i].ch \notin Unsafe \ safe
        THEN text[i] ELSE [text[i] EXCEPT !.depth = @ + 1]]

\* The parts that "if c" keeps.
NonEmpty(parts) ==
    FoldLeft(LAMBDA names, part : IF part = <<>> THEN names ELSE Append(names, part), <<>>, parts)

Names(text) == NonEmpty(SplitAt(text, Slash))

\* Names behind a slash each, quoted.
QuotedPath(names) ==
    FoldLeft(LAMBDA path, name : path \o <<Slash>> \o quote(name, {}), <<>>, names)

\* _dav_path, and _enc but for the first slash.
url_path(raw) == QuotedPath(Names(raw))

\* The Destination header is the quoted URL, quoted as a whole once more.
_quote_url(path) == quote(path, {Separator})

\* The node a server finds under a path of a request.
NodeAt(path) == Names(decode_once(path))

Slashes(raw) == {i \in DOMAIN raw : raw[i] = Slash}

\* Mutant: cut at the first slash.
Partition(raw) ==
    IF Slashes(raw) = {} THEN [parent |-> <<>>, name |-> raw]
    ELSE LET i == Min(Slashes(raw)) IN
         [parent |-> SubSeq(raw, 1, i - 1), name |-> SubSeq(raw, i + 1, Len(raw))]

\* raw.rpartition("/")
rpartition(raw) ==
    IF Slashes(raw) = {} THEN [parent |-> <<>>, name |-> raw]
    ELSE LET i == Max(Slashes(raw)) IN
         [parent |-> SubSeq(raw, 1, i - 1), name |-> SubSeq(raw, i + 1, Len(raw))]

\* Graph's mkdir posts the bare name to the parent's children.
mkdir_node(raw) ==
    LET cut == rpartition(raw) IN Append(NodeAt(url_path(cut.parent)), cut.name)

\* The node that an operation on one resource acts on.
Addressed(family, op, raw) ==
    IF family = "onedrive" /\ op = "mkdir" THEN mkdir_node(raw) ELSE NodeAt(url_path(raw))

\* Graph's move renames in place unless the target has a parent.
graph_move(src, dst) ==
    LET cut == rpartition(dst) IN
    Append(IF cut.parent = <<>> THEN Front(NodeAt(url_path(src))) ELSE NodeAt(url_path(cut.parent)),
           cut.name)

\* Where a move from src to dst puts the node.
Landing(family, src, dst) ==
    IF family = "onedrive" THEN graph_move(src, dst) ELSE NodeAt(_quote_url(url_path(dst)))
=============================================================================

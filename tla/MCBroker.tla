------------------------------ MODULE MCBroker ------------------------------
(***************************************************************************)
(* Small instances of Broker: one WebDAV account and one name that is not  *)
(* configured, a collection and a node below it.                           *)
(***************************************************************************)
EXTENDS Broker, TLC

Plain(ch) == [ch |-> ch, depth |-> 0]
Docs == <<Plain("Docs")>>
Notes == <<Plain("Docs"), Plain("/"), Plain("notes")>>

OneResource == {Docs}
TwoResources == {Docs, Notes}

MCFamily == [a \in {"scratch"} |-> "webdav"]
Grant(resource, ops, state, approved, expires) ==
    [backend |-> "webdav", account |-> "scratch", resource |-> resource, ops |-> ops,
     state |-> state, approved |-> approved, expires |-> expires]

\* A fresh store, and one that holds a grant about to expire.
MCStores == {<<>>, <<Grant(Docs, {"write", "trash"}, "active", 1, 2)>>}

MCOpSets == {{"write", "format"}, {"trash"}}
MCBaselines ==
    {[backend |-> "webdav", account |-> "scratch", resource |-> Docs, ops |-> {"read"}]}

CallSymmetry == Permutations(Calls)
=============================================================================

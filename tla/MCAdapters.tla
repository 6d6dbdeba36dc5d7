----------------------------- MODULE MCAdapters -----------------------------
(***************************************************************************)
(* Small instances of Adapters: a WebDAV account and a OneDrive account.   *)
(***************************************************************************)
EXTENDS Adapters, TLC

MCFamily == [a \in {"personal", "drive"} |->
                IF a = "drive" THEN "onedrive" ELSE "webdav"]

MCOrder == <<"personal", "drive">>

CallSymmetry == Permutations(Calls)
=============================================================================

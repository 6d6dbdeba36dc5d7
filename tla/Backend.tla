------------------------------- MODULE Backend -------------------------------
(***************************************************************************)
(* What a store backend promises the gate (the typed errors of             *)
(* data_broker/backends/base.py), apart from how an adapter keeps it: a    *)
(* call asks the server at most once; when it returns the server has       *)
(* acted; when it is refused the server has not and never will; when it is *)
(* unavailable anything may be, and may still come to be.                  *)
(***************************************************************************)
CONSTANT Calls

VARIABLES
    asked,    \* the calls whose request has left
    acted,    \* the calls the server has carried out, in part at least
    verdict   \* what each call ended with

vars == <<asked, acted, verdict>>

Init ==
    /\ asked = {}
    /\ acted = {}
    /\ verdict = [c \in Calls |-> "none"]

Ask(c) ==
    /\ c \notin asked
    /\ verdict[c] = "none"
    /\ asked' = asked \cup {c}
    /\ UNCHANGED <<acted, verdict>>

Act(c) ==
    /\ c \in asked \ acted
    /\ verdict[c] \in {"none", "unavailable"}
    /\ acted' = acted \cup {c}
    /\ UNCHANGED <<asked, verdict>>

End(c, outcome) ==
    /\ verdict[c] = "none"
    /\ outcome = "ok" => c \in acted
    /\ outcome = "refused" => c \notin acted
    /\ verdict' = [verdict EXCEPT ![c] = outcome]
    /\ UNCHANGED <<asked, acted>>

Next ==
    \E c \in Calls :
        \/ Ask(c)
        \/ Act(c)
        \/ \E outcome \in {"ok", "refused", "unavailable"} : End(c, outcome)

Spec == Init /\ [][Next]_vars
=============================================================================

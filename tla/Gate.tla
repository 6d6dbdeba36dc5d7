-------------------------------- MODULE Gate --------------------------------
(***************************************************************************)
(* What the gate of the broker promises, apart from how tools.py keeps it: *)
(* an operation takes effect only after it was logged, it is logged only   *)
(* once something permitted it when the gate looked, each call operates at *)
(* most once, ok is answered only for what took effect, and a call that is *)
(* declined never operates.                                                *)
(***************************************************************************)
CONSTANT Calls

VARIABLES
    permitted,  \* the calls at the gate that something permits now
    vouched,    \* the calls the gate found permitted and has yet to log
    logged,     \* the calls whose execution is in the log
    operated,   \* the calls whose operation took effect
    confirmed,  \* the calls answered ok
    declined    \* the calls answered refused or pending

progress == <<vouched, logged, operated, confirmed, declined>>
vars == <<permitted, progress>>

Init ==
    /\ permitted \subseteq Calls
    /\ progress = <<{}, {}, {}, {}, {}>>

Vouch(c) ==
    /\ c \in permitted \ (vouched \cup logged \cup declined)
    /\ vouched' = vouched \cup {c}
    /\ UNCHANGED <<logged, operated, confirmed, declined>>

Log(c) ==
    /\ c \in vouched
    /\ vouched' = vouched \ {c}
    /\ logged' = logged \cup {c}
    /\ UNCHANGED <<operated, confirmed, declined>>

Operate(c) ==
    /\ c \in logged \ operated
    /\ operated' = operated \cup {c}
    /\ UNCHANGED <<vouched, logged, confirmed, declined>>

Confirm(c) ==
    /\ c \in operated \ confirmed
    /\ confirmed' = confirmed \cup {c}
    /\ UNCHANGED <<vouched, logged, operated, declined>>

Decline(c) ==
    /\ c \notin logged \cup declined
    /\ vouched' = vouched \ {c}
    /\ declined' = declined \cup {c}
    /\ UNCHANGED <<logged, operated, confirmed>>

\* A record fails, or the process dies: what was vouched for is forgotten.
Forget ==
    /\ vouched' \subseteq vouched
    /\ UNCHANGED <<logged, operated, confirmed, declined>>

\* What is permitted changes with the owner, the clock and the calls that come.
Next ==
    /\ permitted' \subseteq Calls
    /\ \/ \E c \in Calls : Vouch(c) \/ Log(c) \/ Operate(c) \/ Confirm(c) \/ Decline(c)
       \/ Forget

Spec == Init /\ [][Next]_vars
=============================================================================

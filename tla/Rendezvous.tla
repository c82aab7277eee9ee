----------------------------- MODULE Rendezvous -----------------------------
(***************************************************************************)
(* What the burst promises of its barrier, and nothing of how: no request  *)
(* is on the wire before every worker has arrived, and a burst that is     *)
(* called off before it fired never fires.                                 *)
(***************************************************************************)
CONSTANT Workers

VARIABLES
    arrived,     \* workers that are ready to fire
    fired,       \* workers whose request went out
    calledOff    \* the burst was given up

vars == <<arrived, fired, calledOff>>

Init == arrived = {} /\ fired = {} /\ calledOff = FALSE

Arrive(w) ==
    /\ w \notin arrived
    /\ arrived' = arrived \cup {w}
    /\ UNCHANGED <<fired, calledOff>>

Fire(w) ==
    /\ ~calledOff
    /\ arrived = Workers
    /\ w \notin fired
    /\ fired' = fired \cup {w}
    /\ UNCHANGED <<arrived, calledOff>>

CallOff ==
    /\ ~calledOff
    /\ fired = {}
    /\ calledOff' = TRUE
    /\ UNCHANGED <<arrived, fired>>

Next == (\E w \in Workers : Arrive(w) \/ Fire(w)) \/ CallOff

Spec == Init /\ [][Next]_vars
=============================================================================

---------------------------- MODULE CheckReport -----------------------------
(***************************************************************************)
(* What a run sees of a same-key check, and nothing of how: in the end it  *)
(* reports what SameKeyReports allows, which is an ERROR unless something  *)
(* answered the check, and nothing answers once the run is cancelled.  A   *)
(* check that was not heard yet may be given up instead.                   *)
(*                                                                         *)
(* RunMatrix takes such a check as one step; SameKeyCheck implements it.   *)
(***************************************************************************)
EXTENDS Evidence

VARIABLES
    cancelled,   \* the run is cancelled
    heard,       \* something answered the check
    report       \* what the check returned to the run

vars == <<cancelled, heard, report>>

NoReport == [verdict |-> "none", rejected |-> FALSE]
GivenUp == [verdict |-> "aborted", rejected |-> FALSE]

Init == cancelled = FALSE /\ heard = FALSE /\ report = NoReport

Hear ==
    /\ report = NoReport
    /\ ~cancelled
    /\ heard' = TRUE
    /\ UNCHANGED <<cancelled, report>>

Report ==
    /\ report = NoReport
    /\ report' \in SameKeyReports(heard)
    /\ UNCHANGED <<cancelled, heard>>

GiveUp ==
    /\ report = NoReport
    /\ cancelled /\ ~heard
    /\ report' = GivenUp
    /\ UNCHANGED <<cancelled, heard>>

Cancel ==
    /\ report = NoReport
    /\ cancelled' = TRUE
    /\ UNCHANGED <<heard, report>>

Next == Hear \/ Report \/ GiveUp \/ Cancel

Spec == Init /\ [][Next]_vars
=============================================================================

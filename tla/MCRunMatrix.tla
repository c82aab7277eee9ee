---------------------------- MODULE MCRunMatrix -----------------------------
(***************************************************************************)
(* RunMatrix for TLC.  The answers let each rule of the two-request checks *)
(* decide: two success bodies, a redirect, a payload rejection, a status   *)
(* that is none (429) and a server error.                                  *)
(***************************************************************************)
EXTENDS RunMatrix

CONSTANTS b1, b2

MCBodies == {b1, b2}
MCFingerprints ==
    {<<200, b1>>, <<200, b2>>, <<302, b1>>, <<409, b1>>, <<429, b1>>, <<500, b1>>}
=============================================================================

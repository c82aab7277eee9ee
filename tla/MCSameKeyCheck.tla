--------------------------- MODULE MCSameKeyCheck ---------------------------
(***************************************************************************)
(* SameKeyCheck for TLC.  The answers are the fewest in which every rule   *)
(* can decide: two success bodies, one of them under two success statuses  *)
(* (one logical result, two fingerprints), a status the default policy     *)
(* tolerates and one it does not.                                          *)
(***************************************************************************)
EXTENDS SameKeyCheck

CONSTANTS b1, b2

MCBodies == {b1, b2}
MCFingerprints ==
    {<<200, b1>>, <<201, b1>>, <<200, b2>>, <<429, b1>>, <<500, b1>>}
=============================================================================

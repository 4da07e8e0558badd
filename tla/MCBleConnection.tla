-------------------------- MODULE MCBleConnection --------------------------
(***************************************************************************)
(* BleConnection for TLC.  The links are interchangeable: nothing orders   *)
(* them, so the safety runs identify states that differ only in their      *)
(* names.  The liveness runs do not, symmetry being unsound for them.      *)
(***************************************************************************)
EXTENDS BleConnection, TLC

Symmetry == Permutations(Links)
=============================================================================

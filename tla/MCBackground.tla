---------------------------- MODULE MCBackground ----------------------------
(* One storage node, one chunk.   Thresholds are those of the code; the      *)
(* factors and the windows are smaller, with promote_windows > cold_rf kept. *)
EXTENDS Background

MCGaps == {0, 20, 200}
=============================================================================

---------------------------- MODULE MCWakeGateway ----------------------------
(***************************************************************************)
(* The wake gateway for TLC: two players of one game.                      *)
(***************************************************************************)
EXTENDS WakeGateway

CONSTANTS g1, p1, p2
OneGame == {g1}
TwoPlayers == {p1, p2}
=============================================================================

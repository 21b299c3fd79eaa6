---------------------------- MODULE MCLaunchPage ----------------------------
(* Values of the constants of LaunchPage for TLC.                          *)
EXTENDS LaunchPage, TLC

CONSTANTS t1, x1, l1, l2

OnePreset == {t1}
NoExtra == {}
OneExtra == {x1}
OneLambda == {l1}
TwoLambdas == {l1, l2}
Symmetry == Permutations(Lambdas)
=============================================================================

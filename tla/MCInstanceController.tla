------------------------ MODULE MCInstanceController ------------------------
(* Values of the constants of InstanceController for TLC.                  *)
EXTENDS InstanceController

CONSTANT i1

One == {i1}
=============================================================================

---------------------------- MODULE MCHeldNative ----------------------------
(***************************************************************************)
(* Two parts that share no state, whose definitions have names of their    *)
(* own, in one run of TLC: a held session, and an instance of the native   *)
(* provider.  A behaviour is one of one part; the other stays as it        *)
(* begins, a session whose player has left or a directory of somebody      *)
(* else's, in which nothing is left to happen.                             *)
(*                                                                         *)
(* Held sessions: loading messages that are acknowledged late, a handshake *)
(* that fails once, and messages of both ends around it.  Native host: an  *)
(* agent that was given up on beside its successor, two requests at a      *)
(* time, a restart of the machine, and faults enough for one in each of    *)
(* three calls.                                                            *)
(***************************************************************************)
EXTENDS HeldSession, NativeHost

VARIABLE part

Init ==
    /\ part \in {"held", "native"}
    /\ HeldInit /\ NativeInit
    /\ part = "held" => dir = Foreign
    /\ part = "native" => ~gw.open

Next ==
    /\ UNCHANGED part
    /\ \/ part = "held" /\ HeldNext /\ UNCHANGED nativeVars
       \/ part = "native" /\ NativeNext /\ UNCHANGED heldVars

Spec == Init /\ [][Next]_<<part, heldVars, nativeVars>>

\* Each part has the fairness of its own.
LiveSpec == Spec /\ HeldFairness /\ NativeFairness
=============================================================================

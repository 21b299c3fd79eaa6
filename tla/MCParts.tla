------------------------------- MODULE MCParts -------------------------------
(***************************************************************************)
(* Three parts that share no state, whose definitions have names of their  *)
(* own, in one run of TLC: the agent's log, the BZFlag sessions and the    *)
(* preparation of images.  A behaviour is one of one part; the others stay *)
(* as they begin.                                                          *)
(***************************************************************************)
EXTENDS LogRing, BZFlagSession, DockerPreparation, TLC

CONSTANTS c1, c2, i1, i2, i3

VARIABLE part

MCClients == {c1, c2}
\* Each player has a machine of its own, and one message is held at most; two players on
\* one machine and longer queues are left to the theorems of BZFlagProofs.
MCIp == [c \in {c1, c2} |-> c]
MCInstances == {i1, i2, i3}
\* Two instances of one game, and one of another.
MCGame == i1 :> "first" @@ i2 :> "first" @@ i3 :> "second"

Init ==
    /\ part \in {"log", "bzflag", "docker"}
    /\ LogInit /\ BZInit /\ PrepareInit
    /\ part # "docker" => images = {} /\ ~hasAssets

Next ==
    /\ UNCHANGED part
    /\ \/ part = "log" /\ LogNext /\ UNCHANGED <<bzVars, prepareVars>>
       \/ part = "bzflag" /\ BZNext /\ UNCHANGED <<logVars, prepareVars>>
       \/ part = "docker" /\ PrepareNext /\ UNCHANGED <<logVars, bzVars>>

Spec == Init /\ [][Next]_<<part, logVars, bzVars, prepareVars>>

-----------------------------------------------------------------------------
(* Properties.  LogTells, MessagesKeepMeaning, LinksAreOwn,                *)
(* NoLeakedBackend and PrepareIsTrue are those of the parts.               *)

\* Every variable holds a value of its kind, no channel of the log and no queue of a
\* session holds more than it can, and the sessions are counted as they are.
TypeOK == LogTypes /\ BZTypes /\ PrepareTypes
=============================================================================

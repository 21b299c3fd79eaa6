----------------------------- MODULE HeldSession -----------------------------
(***************************************************************************)
(* A NetQuake player whom the wake gateway holds while the game starts,    *)
(* and then hands over to it (internal/wake/session.go).                   *)
(*                                                                         *)
(* The gateway keeps the player alive with reliable messages of its own.   *)
(* They use up sequence numbers the game does not know of, so that the     *)
(* gateway translates between two numberings for the rest of the session.  *)
(* A packet stays on its network once sent: it may be lost, repeated and   *)
(* overtaken, and resending it adds nothing.  Unreliable packets pass      *)
(* unchanged and are left out; NAKs are treated as ACKs are.  Sequence     *)
(* numbers do not wrap: at one message each two seconds a uint32 lasts.    *)
(***************************************************************************)
EXTENDS Integers, Sequences

CONSTANTS
    MaxNotices,  \* bound: messages of the gateway
    MaxGame,     \* bound: reliable messages of the game
    MaxClient,   \* bound: reliable messages of the player
    MaxRefused   \* bound: handshakes with the game that fail

ASSUME SessionAssumption ==
    MaxNotices \in Nat /\ MaxGame \in Nat /\ MaxClient \in Nat /\ MaxRefused \in Nat

VARIABLES
    gw,          \* the session
    refused,     \* handshakes that have failed
    client,      \* the player's end
    game,        \* the game's end of the connection the gateway makes
    toClient, fromClient, toGame, fromGame,  \* the networks
    sentDown,    \* history: what was sent to the player, by the gateway and the game
    sentUp       \* history: what the player has sent

heldVars == <<gw, refused, client, game, toClient, fromClient, toGame, fromGame, sentDown, sentUp>>

Messages == [by : {"gateway", "game", "client"}, n : Nat]
Packets == [kind : {"data"}, seq : Nat, body : Messages] \cup [kind : {"ack"}, seq : Nat]
Message(by, n) == [by |-> by, n |-> n]
DataPacket(seq, body) == [kind |-> "data", seq |-> seq, body |-> body]
AckPacket(seq) == [kind |-> "ack", seq |-> seq]

\* One end of a reliable connection: the sequence number it expects, the one it
\* sends next, the one it waits to have acknowledged, and what it was given.
End == [recv : Nat, send : Nat, acked : Nat, got : Seq(Messages)]
FreshEnd == [recv |-> 0, send |-> 0, acked |-> 0, got |-> << >>]

\* backend: the game's connection is there; pending: the message with sequence
\* number prefix is not acknowledged; initial: the player's first packet, if any.
HeldRecord == [open : BOOLEAN, backend : BOOLEAN, prefix : Nat, pending : BOOLEAN,
            initial : SUBSET Packets, target : BOOLEAN]

\* The player is there, or has left at once.
HeldInit ==
    /\ \E open \in BOOLEAN :
         gw = [open |-> open, backend |-> FALSE, prefix |-> 0, pending |-> FALSE,
               initial |-> {}, target |-> FALSE]
    /\ refused = 0
    /\ client = FreshEnd
    /\ game = FreshEnd
    /\ toClient = {} /\ fromClient = {} /\ toGame = {} /\ fromGame = {}
    /\ sentDown = << >> /\ sentUp = << >>

-----------------------------------------------------------------------------
(* NetQuake's reliable channel, the same at both ends.                     *)

Acked(end) == end.acked = end.send
Sends(end) == [end EXCEPT !.send = @ + 1]
\* Every reliable packet is acknowledged; only the expected one is delivered.
Receives(end, p) ==
    CASE p.kind = "data" /\ p.seq = end.recv ->
           [end EXCEPT !.recv = @ + 1, !.got = Append(@, p.body)]
      [] p.kind = "ack" /\ p.seq = end.acked /\ ~Acked(end) ->
           [end EXCEPT !.acked = @ + 1]
      [] OTHER -> end
Replies(p) == IF p.kind = "data" THEN {AckPacket(p.seq)} ELSE {}

ClientSends ==
    /\ Acked(client) /\ client.send < MaxClient
    /\ client' = Sends(client)
    /\ fromClient' = fromClient \cup {DataPacket(client.send, Message("client", client.send))}
    /\ sentUp' = Append(sentUp, Message("client", client.send))
    /\ UNCHANGED <<gw, refused, game, toClient, toGame, fromGame, sentDown>>
ClientReceives(p) ==
    /\ client' = Receives(client, p)
    /\ fromClient' = fromClient \cup Replies(p)
    /\ UNCHANGED <<gw, refused, game, toClient, toGame, fromGame, sentDown, sentUp>>

GameSends ==
    /\ gw.backend /\ Acked(game) /\ game.send < MaxGame
    /\ game' = Sends(game)
    /\ fromGame' = fromGame \cup {DataPacket(game.send, Message("game", game.send))}
    /\ sentDown' = Append(sentDown, Message("game", game.send))
    /\ UNCHANGED <<gw, refused, client, toClient, fromClient, toGame, sentUp>>
GameReceives(p) ==
    /\ game' = Receives(game, p)
    /\ fromGame' = fromGame \cup Replies(p)
    /\ UNCHANGED <<gw, refused, client, toClient, fromClient, toGame, sentDown, sentUp>>

-----------------------------------------------------------------------------
(* The session.                                                            *)

\* resolve has answered with the address of the game.
Resolved ==
    /\ gw.open /\ ~gw.backend /\ ~gw.target
    /\ gw' = [gw EXCEPT !.target = TRUE]
    /\ UNCHANGED <<refused, client, game, toClient, fromClient, toGame, fromGame, sentDown, sentUp>>

\* A loading message, only while the game is not there yet.
Notice ==
    /\ gw.open /\ ~gw.backend /\ ~gw.pending /\ ~gw.target
    /\ gw.prefix < MaxNotices
    /\ gw' = [gw EXCEPT !.pending = TRUE]
    /\ toClient' = toClient \cup {DataPacket(gw.prefix, Message("gateway", gw.prefix))}
    /\ sentDown' = Append(sentDown, Message("gateway", gw.prefix))
    /\ UNCHANGED <<refused, client, game, fromClient, toGame, fromGame, sentUp>>

\* Mutant of HandsOver: a loading message may still be on its way.
MutHandsOver ==
    /\ gw.open /\ ~gw.backend /\ gw.target
    /\ gw' = [gw EXCEPT !.backend = TRUE]
    /\ toGame' = toGame \cup gw.initial
    /\ UNCHANGED <<refused, client, game, toClient, fromClient, fromGame, sentDown, sentUp>>
\* The handshake with the game; the player's first packet is passed on.
HandsOver ==
    /\ gw.open /\ ~gw.backend /\ gw.target /\ ~gw.pending
    /\ gw' = [gw EXCEPT !.backend = TRUE]
    /\ toGame' = toGame \cup gw.initial
    /\ UNCHANGED <<refused, client, game, toClient, fromClient, fromGame, sentDown, sentUp>>
\* A handshake that fails is followed by a new resolve.
HandshakeFails ==
    /\ gw.open /\ ~gw.backend /\ gw.target /\ ~gw.pending
    /\ refused < MaxRefused /\ refused' = refused + 1
    /\ gw' = [gw EXCEPT !.target = FALSE]
    /\ UNCHANGED <<client, game, toClient, fromClient, toGame, fromGame, sentDown, sentUp>>

\* What the session makes of a packet of the player while there is no game.
Noted(p) ==
    LET acked == p.kind = "ack" /\ gw.pending /\ p.seq = gw.prefix
        first == p.kind = "data" /\ p.seq = 0 /\ gw.initial = {}
    IN  [gw EXCEPT !.prefix = IF acked THEN @ + 1 ELSE @, !.pending = @ /\ ~acked,
                   !.initial = IF first THEN {p} ELSE @]
\* Mutant of Holds: the gateway acknowledges what it holds.
MutHolds(p) ==
    /\ gw.open /\ ~gw.backend
    /\ gw' = Noted(p)
    /\ toClient' = toClient \cup Replies(p)
    /\ UNCHANGED <<refused, client, game, fromClient, toGame, fromGame, sentDown, sentUp>>
Holds(p) ==
    /\ gw.open /\ ~gw.backend
    /\ gw' = Noted(p)
    /\ UNCHANGED <<refused, client, game, toClient, fromClient, toGame, fromGame, sentDown, sentUp>>

\* Mutants of Lowered: acknowledgements keep the player's numbering; those of
\* the loading messages are passed on.
MutLoweredNot(p) == IF p.kind = "ack" /\ p.seq < gw.prefix THEN {} ELSE {p}
MutLoweredAll(p) == {IF p.kind = "ack" THEN [p EXCEPT !.seq = @ - gw.prefix] ELSE p}
\* What of a player's packet the game gets: acknowledgements lose the prefix.
Lowered(p) ==
    CASE p.kind = "data" -> {p}
      [] p.kind = "ack" /\ p.seq < gw.prefix -> {}
      [] OTHER -> {[p EXCEPT !.seq = @ - gw.prefix]}
\* What of a game's packet the player gets: reliable messages gain the prefix.
Raised(p) == IF p.kind = "data" THEN [p EXCEPT !.seq = @ + gw.prefix] ELSE p

\* The first packet is not kept any more: only HandsOver reads it.
RelaysUp(p) ==
    /\ gw.open /\ gw.backend
    /\ toGame' = toGame \cup Lowered(p)
    /\ UNCHANGED <<gw, refused, client, game, toClient, fromClient, fromGame, sentDown, sentUp>>
RelaysDown(p) ==
    /\ gw.open /\ gw.backend
    /\ toClient' = toClient \cup {Raised(p)}
    /\ UNCHANGED <<gw, refused, client, game, fromClient, toGame, fromGame, sentDown, sentUp>>

\* A disconnect, a minute without a packet, a failed start or a failing socket.
Disconnects ==
    /\ gw.open
    /\ gw' = [gw EXCEPT !.open = FALSE]
    /\ UNCHANGED <<refused, client, game, toClient, fromClient, toGame, fromGame, sentDown, sentUp>>

-----------------------------------------------------------------------------
FromClient == \E p \in fromClient : Holds(p) \/ RelaysUp(p)
FromGame == \E p \in fromGame : RelaysDown(p)
AtClient == \E p \in toClient : ClientReceives(p)
AtGame == \E p \in toGame : GameReceives(p)

HeldNext ==
    \/ ClientSends \/ GameSends \/ Resolved \/ Notice \/ HandsOver \/ HandshakeFails \/ Disconnects
    \/ FromClient \/ FromGame \/ AtClient \/ AtGame

HeldSpec == HeldInit /\ [][HeldNext]_heldVars

\* The packets there can be, for the fairness of each.
Wire ==
    {AckPacket(q) : q \in 0..(MaxNotices + MaxGame + MaxClient)} \cup
    {DataPacket(n, Message("client", n)) : n \in 0..MaxClient} \cup
    {DataPacket(n, Message("gateway", n)) : n \in 0..MaxNotices} \cup
    {DataPacket(prefix + n, Message("game", n)) : prefix \in 0..MaxNotices, n \in 0..MaxGame}

\* The start has an outcome, the session goes on, and a packet that is resent
\* until it is acknowledged gets through.
HeldFairness ==
    /\ WF_heldVars(Resolved) /\ WF_heldVars(HandsOver)
    /\ \A p \in Wire :
         /\ WF_heldVars(p \in fromClient /\ (Holds(p) \/ RelaysUp(p)))
         /\ WF_heldVars(p \in fromGame /\ RelaysDown(p))
         /\ WF_heldVars(p \in toClient /\ ClientReceives(p))
         /\ WF_heldVars(p \in toGame /\ GameReceives(p))
HeldLiveSpec == HeldSpec /\ HeldFairness

-----------------------------------------------------------------------------
(* Properties.                                                             *)

\* Every variable holds a value of its kind.
HeldTypes ==
    /\ gw \in HeldRecord
    /\ refused \in 0..MaxRefused
    /\ client \in End /\ game \in End
    /\ toClient \subseteq Packets /\ fromClient \subseteq Packets
    /\ toGame \subseteq Packets /\ fromGame \subseteq Packets
    /\ sentDown \in Seq(Messages) /\ sentUp \in Seq(Messages)

\* The player cannot tell the gateway from the game: the loading messages and
\* the game's own are one reliable channel across the hand-over, without a gap,
\* a repetition or a message taken for another, and whoever sent the last one is
\* right to take it as acknowledged (docs/architecture.md, "Backend DATA sequences
\* gain the acknowledged loading-message count").
Down == INSTANCE ReliableLink WITH
    sent <- sentDown, got <- client.got, busy <- gw.pending \/ ~Acked(game)
DownLink == Down!Spec

\* What the player sends while it is held and afterwards is one reliable channel
\* to the game: the gateway never acknowledges in the game's place.
Up == INSTANCE ReliableLink WITH
    sent <- sentUp, got <- game.got, busy <- ~Acked(client)
UpLink == Up!Spec

\* Nobody waits for ever while the session lasts: a game that is ready gets the
\* player, and each end has its last message acknowledged, whatever was lost or
\* resent before the hand-over.
NobodyWaits ==
    /\ []<>(gw.open => gw.backend)
    /\ []<>(gw.open => Acked(game))
    /\ []<>(gw.open => Acked(client))
=============================================================================

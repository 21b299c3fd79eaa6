---------------------------- MODULE BZFlagSession ----------------------------
(***************************************************************************)
(* The sessions of a BZFlag listener of the wake gateway                   *)
(* (internal/wake/bzflag.go, bzflag_wire.go).                              *)
(*                                                                         *)
(* A player is greeted at once with a virtual player ID; what it sends is  *)
(* held until the game takes it, with an ID of the game's choice.  From    *)
(* then on the two IDs are swapped in every message.  UDP comes from an    *)
(* address of its own, bound to the player by a link request.              *)
(*                                                                         *)
(* A message is who it is about: the bytes around the player IDs are left  *)
(* out, and so is a message that cannot be translated, which ends the      *)
(* session as any failing socket does.                                     *)
(***************************************************************************)
EXTENDS Integers, Sequences, FiniteSets

CONSTANTS
    Clients,      \* the players, each with an address for UDP
    Ip,           \* the machine of each
    Ids,          \* 0..k: player IDs, virtual and of the game
    MaxSessions,  \* the limit of sessions of the gateway
    MaxPending,   \* messages held while the game starts
    MaxMessages,  \* bound: messages a player sends in one session
    MaxDatagrams, \* bound: different link requests
    MaxAdrift,    \* bound: goroutines of past sessions when one begins
    None

ASSUME BZAssumption ==
    /\ IsFiniteSet(Clients) /\ Ids \subseteq Nat
    /\ None \notin Ids /\ None \notin Clients
    /\ MaxSessions \in Nat /\ MaxPending \in Nat /\ MaxMessages \in Nat

VARIABLES
    client,    \* per player, its session
    clients,   \* the number of sessions, as the gateway counts them
    datagrams, \* link requests sent; they may be late and come again
    backends,  \* IDs of the connections to the game that are open
    strays,    \* those held by the connecting goroutine of a session that ended
    adrift     \* connecting goroutines that had none yet when their session ended

bzVars == <<client, clients, datagrams, backends, strays, adrift>>

\* A message: the ID it names, whom the player means by that (None: itself, or the
\* player the game has under an ID) and its number.
Message == Ids \X (Ids \cup {None}) \X (1..MaxMessages)
\* connector: the goroutine that starts the game and connects to it; known: the
\* player the game has last told of, as shown and as it is; input: a link request
\* is in the session's channel; linkedAs: the ID the game was asked to link.
Session == [st : {"none", "greets", "holds", "relays", "gone"},
            virtual : Ids \cup {None}, accepted : BOOLEAN, udp : Clients \cup {None},
            connector : {"none", "asks", "has", "failed", "given"}, actual : Ids \cup {None},
            sent : 0..MaxMessages, wire : Seq(Message), pending : Seq(Message),
            passed : Seq(Message), known : SUBSET (Ids \X Ids),
            input : BOOLEAN, udpRequest : BOOLEAN, linkedAs : Ids \cup {None}]
NoSession == [st |-> "none", virtual |-> None, accepted |-> FALSE, udp |-> None,
              connector |-> "none", actual |-> None,
              sent |-> 0, wire |-> << >>, pending |-> << >>, passed |-> << >>, known |-> {},
              input |-> FALSE, udpRequest |-> FALSE, linkedAs |-> None]

BZInit ==
    /\ client = [c \in Clients |-> NoSession]
    /\ clients = 0 /\ datagrams = {} /\ backends = {} /\ strays = {} /\ adrift = 0

Live(c) == client[c].virtual # None
Becomes(c, s) == client' = [client EXCEPT ![c] = s]

-----------------------------------------------------------------------------
(* The translation of player IDs, the same in both directions.             *)

\* Mutant of Swap: the player who has the virtual ID in the game keeps it.
MutSwap(virtual, actual, id) == IF id \in {virtual, actual} THEN actual ELSE id
Swap(virtual, actual, id) ==
    CASE id = virtual -> actual
      [] id = actual -> virtual
      [] OTHER -> id
\* A message of the player as the game gets it.
Translated(s, m) == <<Swap(s.virtual, s.actual, m[1]), m[2], m[3]>>

-----------------------------------------------------------------------------
(* The TCP listener and the start of a session.                            *)

FreeSlots == {k \in Ids : \A c \in Clients : client[c].virtual # k}
Accepts(c) ==
    /\ client[c].st = "none" /\ clients < MaxSessions /\ FreeSlots # {}
    /\ Becomes(c, [NoSession EXCEPT !.st = "greets",
                     !.virtual = CHOOSE k \in FreeSlots : \A j \in FreeSlots : k <= j])
    /\ clients' = clients + 1
    /\ UNCHANGED <<datagrams, backends, strays, adrift>>
Greets(c) ==
    /\ client[c].st = "greets" /\ adrift < MaxAdrift
    /\ Becomes(c, [client[c] EXCEPT !.st = "holds", !.accepted = TRUE, !.connector = "asks"])
    /\ UNCHANGED <<clients, datagrams, backends, strays, adrift>>

\* The player names itself or the one the game has told it of.
Sends(c) ==
    /\ client[c].st \in {"holds", "relays"} /\ client[c].sent < MaxMessages
    /\ \E m \in {<<client[c].virtual, None>>} \cup client[c].known :
         Becomes(c, [client[c] EXCEPT !.sent = @ + 1,
                                      !.wire = Append(@, <<m[1], m[2], client[c].sent + 1>>)])
    /\ UNCHANGED <<clients, datagrams, backends, strays, adrift>>

\* The session waits for the game.
Holds(c) ==
    /\ client[c].st = "holds" /\ client[c].wire # << >> /\ Len(client[c].pending) < MaxPending
    /\ Becomes(c, [client[c] EXCEPT !.wire = Tail(@),
                                    !.pending = Append(@, Head(client[c].wire))])
    /\ UNCHANGED <<clients, datagrams, backends, strays, adrift>>

\* bzConnect: the game takes the player under an ID of its own, or it does not.
Connected(c) ==
    /\ client[c].connector = "asks"
    /\ \/ \E id \in Ids \ backends :
            /\ Becomes(c, [client[c] EXCEPT !.connector = "has", !.actual = id])
            /\ backends' = backends \cup {id}
       \/ /\ Becomes(c, [client[c] EXCEPT !.connector = "failed"])
          /\ UNCHANGED backends
    /\ UNCHANGED <<clients, datagrams, strays, adrift>>

\* Mutant of Replayed: what was held is sent as it was checked on arrival.
MutReplayed(s) == s.pending
Replayed(s) == [k \in DOMAIN s.pending |-> Translated(s, s.pending[k])]
\* Mutant of TakesBackend: what the player has sent since is read first.
MutTakesBackend(c) ==
    /\ client[c].st = "holds" /\ client[c].connector = "has"
    /\ Becomes(c, [client[c] EXCEPT !.st = "relays", !.connector = "given",
                       !.wire = @ \o Replayed(client[c]), !.pending = << >>])
    /\ UNCHANGED <<clients, datagrams, backends, strays, adrift>>
\* The session has the game: it sends what it has held, and the request for a link.
TakesBackend(c) ==
    /\ client[c].st = "holds" /\ client[c].connector = "has"
    /\ Becomes(c, [client[c] EXCEPT !.st = "relays", !.connector = "given",
                       !.passed = Replayed(client[c]), !.pending = << >>, !.udpRequest = FALSE,
                       !.linkedAs = IF client[c].udpRequest THEN client[c].actual ELSE None])
    /\ UNCHANGED <<clients, datagrams, backends, strays, adrift>>

-----------------------------------------------------------------------------
(* Relaying.                                                               *)

Passes(c) ==
    /\ client[c].st = "relays" /\ client[c].wire # << >>
    /\ Becomes(c, [client[c] EXCEPT !.wire = Tail(@),
                       !.passed = Append(@, Translated(client[c], Head(client[c].wire)))])
    /\ UNCHANGED <<clients, datagrams, backends, strays, adrift>>
\* The game mentions a player, this one or another, by TCP or UDP.
Mentions(c, id) ==
    /\ client[c].st = "relays"
    /\ LET shown == Swap(client[c].virtual, client[c].actual, id)
       IN  Becomes(c, [client[c] EXCEPT !.known = {<<shown, id>>}])
    /\ UNCHANGED <<clients, datagrams, backends, strays, adrift>>

\* A player asks for its UDP link, with its virtual ID.
AsksLink(c) ==
    /\ client[c].accepted /\ Cardinality(datagrams) < MaxDatagrams
    /\ datagrams' = datagrams \cup {<<c, client[c].virtual>>}
    /\ UNCHANGED <<client, clients, backends, strays, adrift>>
\* Mutant of MayLink: any machine may.
MutMayLink(c, from) ==
    /\ client[c].accepted /\ client[c].udp \in {None, from}
    /\ \A other \in Clients \ {c} : client[other].udp # from
MayLink(c, from) ==
    /\ client[c].accepted /\ Ip[c] = Ip[from] /\ client[c].udp \in {None, from}
    /\ \A other \in Clients \ {c} : client[other].udp # from
\* bzflagUDP, for a link request.
Links(from, slot) ==
    /\ <<from, slot>> \in datagrams
    /\ \E c \in Clients :
         /\ client[c].virtual = slot /\ MayLink(c, from)
         /\ Becomes(c, [client[c] EXCEPT !.udp = from, !.input = TRUE])
    /\ UNCHANGED <<clients, datagrams, backends, strays, adrift>>

\* The session takes the request from its channel.
TakesInput(c) ==
    /\ client[c].st \in {"holds", "relays"} /\ client[c].input
    /\ Becomes(c, IF client[c].st = "holds"
                  THEN [client[c] EXCEPT !.input = FALSE, !.udpRequest = TRUE]
                  ELSE [client[c] EXCEPT !.input = FALSE,
                          !.linkedAs = Swap(client[c].virtual, client[c].actual, client[c].virtual)])
    /\ UNCHANGED <<clients, datagrams, backends, strays, adrift>>

-----------------------------------------------------------------------------
(* The end of a session.                                                   *)

\* The session closes the connection it was given; one that its connecting
\* goroutine holds, or is about to have, is left to that.  It keeps its slot.
Leaves(c) ==
    /\ Becomes(c, [NoSession EXCEPT !.st = "gone", !.virtual = client[c].virtual,
                      !.accepted = client[c].accepted, !.udp = client[c].udp])
    /\ backends' = IF client[c].connector = "given" THEN backends \ {client[c].actual} ELSE backends
    /\ strays' = IF client[c].connector = "has" THEN strays \cup {client[c].actual} ELSE strays
    /\ adrift' = IF client[c].connector = "asks" THEN adrift + 1 ELSE adrift
    /\ UNCHANGED <<clients, datagrams>>
\* The player leaves, a message is not understood, a socket fails, or the gateway ends.
Ends(c) == client[c].st \in {"greets", "holds", "relays"} /\ Leaves(c)
\* The start has failed, or more is sent than is held.
Refuses(c) ==
    /\ client[c].st = "holds"
    /\ \/ client[c].connector = "failed"
       \/ client[c].wire # << >> /\ Len(client[c].pending) >= MaxPending
    /\ Leaves(c)
\* The connecting goroutine of a session that ended: its context is cancelled, which
\* it may notice before the game takes the player or only after.
GivesUp ==
    /\ adrift > 0 /\ adrift' = adrift - 1
    /\ UNCHANGED <<client, clients, datagrams, backends, strays>>
ConnectsLate(id) ==
    /\ adrift > 0 /\ adrift' = adrift - 1
    /\ id \notin backends /\ backends' = backends \cup {id} /\ strays' = strays \cup {id}
    /\ UNCHANGED <<client, clients, datagrams>>
\* Mutant of StrayEnds: the connection nobody waits for any more stays open.
MutStrayEnds(id) ==
    /\ id \in strays /\ strays' = strays \ {id}
    /\ UNCHANGED <<client, clients, datagrams, backends, adrift>>
StrayEnds(id) ==
    /\ id \in strays /\ strays' = strays \ {id}
    /\ backends' = backends \ {id}
    /\ UNCHANGED <<client, clients, datagrams, adrift>>
\* Mutant of Removes: the session is not counted out.
MutRemoves(c) ==
    /\ client[c].st = "gone" /\ Becomes(c, NoSession)
    /\ UNCHANGED <<clients, datagrams, backends, strays, adrift>>
Removes(c) ==
    /\ client[c].st = "gone" /\ Becomes(c, NoSession)
    /\ clients' = clients - 1
    /\ UNCHANGED <<datagrams, backends, strays, adrift>>

-----------------------------------------------------------------------------
Step(c) ==
    \/ Accepts(c) \/ Greets(c) \/ Sends(c) \/ Holds(c) \/ Connected(c) \/ TakesBackend(c)
    \/ Passes(c) \/ AsksLink(c) \/ TakesInput(c) \/ Ends(c) \/ Refuses(c) \/ Removes(c)
    \/ \E id \in Ids : Mentions(c, id) \/ Links(c, id)
BZNext ==
    \/ \E c \in Clients : Step(c)
    \/ \E id \in Ids : ConnectsLate(id) \/ StrayEnds(id)
    \/ GivesUp

BZSpec == BZInit /\ [][BZNext]_bzVars

-----------------------------------------------------------------------------
(* Properties.                                                             *)

\* Every variable holds a value of its kind, and the count of sessions is that of
\* the listener's map.
BZTypes ==
    /\ client \in [Clients -> Session]
    /\ clients = Cardinality({c \in Clients : Live(c)}) /\ clients <= MaxSessions
    /\ datagrams \subseteq Clients \X Ids
    /\ backends \subseteq Ids /\ strays \subseteq Ids /\ adrift \in Nat
    /\ \A c \in Clients : Len(client[c].pending) <= MaxPending

\* Whom the player means is whom the game understands, in the messages held before
\* the game had given the player an ID too, and whoever has the ID it was greeted
\* with (docs/architecture.md, "A per-client permutation translates player IDs in
\* both directions").
NamesKeepMeaning ==
    \A c \in Clients :
        /\ \A k \in DOMAIN client[c].passed :
             LET m == client[c].passed[k]
             IN  m[1] = IF m[2] = None THEN client[c].actual ELSE m[2]
        /\ client[c].linkedAs \in {None, client[c].actual}

\* No message is lost, repeated or overtaken between the player and the game, also
\* those it sent while the game was starting: those passed, held and under way are
\* the ones sent, in their order.
NothingIsLost ==
    \A c \in Clients : client[c].st \in {"holds", "relays"} =>
        LET all == client[c].passed \o client[c].pending \o client[c].wire
        IN  [k \in DOMAIN all |-> all[k][3]] = [k \in 1..client[c].sent |-> k]

\* What a BZFlag player sends reaches the game in its order, none lost or repeated, and
\* about the players it was meant about, what was held while the game started too
\* (wake/bzflag.go, bzflagSession; bzflag_wire.go, bzTranslate).
MessagesKeepMeaning == NamesKeepMeaning /\ NothingIsLost

\* A UDP address is linked to one player at most, on the machine the player's TCP
\* comes from, although slots are used again and link requests come late ("UDP
\* links bind to the TCP client by address and virtual ID", wake/bzflag.go, bzflagUDP).
LinksAreOwn ==
    \A c, d \in Clients :
        client[c].udp # None =>
            /\ Ip[client[c].udp] = Ip[c]
            /\ client[c].udp = client[d].udp => c = d

\* A connection to the game is open only while a session uses it or its connecting
\* goroutine is about to hand it over or close it: a player who leaves while the
\* game answers does not keep its place there (wake/bzflag.go:143).
NoLeakedBackend ==
    backends = strays \cup {client[c].actual : c \in {d \in Clients : client[d].actual # None}}
=============================================================================

---------------------------- MODULE SessionProofs ----------------------------
(***************************************************************************)
(* For any number of messages, the two directions of a held session        *)
(* implement ReliableLink.                                                 *)
(***************************************************************************)
EXTENDS HeldSession, SequenceTheorems, TLAPS

\* How the numberings hang together; a sender has at most one message out.
Numbers ==
    /\ Len(sentDown) = gw.prefix + game.send + (IF gw.pending THEN 1 ELSE 0)
    /\ gw.pending => ~gw.backend
    /\ ~gw.backend => game = FreshEnd /\ toGame = {} /\ fromGame = {}
    /\ game.acked <= game.send /\ game.send <= game.acked + 1
    /\ Len(sentUp) = client.send
    /\ client.acked <= client.send /\ client.send <= client.acked + 1

\* What an end was given is what was sent to it so far, and covers what the
\* sender takes as acknowledged.
Delivered ==
    /\ client.recv = Len(client.got)
    /\ \A k \in 1..client.recv : client.got[k] = sentDown[k]
    /\ gw.prefix + game.acked <= client.recv /\ client.recv <= Len(sentDown)
    /\ game.recv = Len(game.got)
    /\ \A k \in 1..game.recv : game.got[k] = sentUp[k]
    /\ client.acked <= game.recv /\ game.recv <= Len(sentUp)

\* What a packet on its way says, however old it is: base is the number of
\* messages of the channel that precede its sequence number 0.
Genuine(ps, sent, base) ==
    \A p \in ps : p.kind = "data" =>
        p.seq + base < Len(sent) /\ p.body = sent[p.seq + base + 1]
Earned(ps, recv, base) == \A p \in ps : p.kind = "ack" => p.seq + base < recv
OnTheWay ==
    /\ Genuine(toClient, sentDown, 0) /\ Genuine(fromGame, sentDown, gw.prefix)
    /\ Earned(fromClient, client.recv, 0) /\ Earned(toGame, client.recv, gw.prefix)
    /\ Genuine(fromClient, sentUp, 0) /\ Genuine(toGame, sentUp, 0)
    /\ Genuine(gw.initial, sentUp, 0)
    /\ Earned(fromGame, game.recv, 0) /\ Earned(toClient, game.recv, 0)
    /\ Earned(gw.initial, 0, 0)

IInv == HeldTypes /\ Numbers /\ Delivered /\ OnTheWay

\* Two sequences that agree everywhere are equal.
LEMMA SameSeq ==
    ASSUME NEW S, NEW s \in Seq(S), NEW t \in Seq(S), Len(s) = Len(t),
           \A k \in 1..Len(s) : s[k] = t[k]
    PROVE  s = t
BY SeqEqual

\* What a message at the end of a channel changes.
LEMMA AppendFacts ==
    ASSUME NEW S, NEW s \in Seq(S), NEW m \in S, NEW t, t = Append(s, m)
    PROVE  /\ t \in Seq(S) /\ Len(t) = Len(s) + 1 /\ t[Len(s) + 1] = m
           /\ \A k \in 1..Len(s) : t[k] = s[k]
OBVIOUS

\* The session begins with nothing sent.
LEMMA InitIInv == HeldInit => IInv
BY SessionAssumption DEF HeldInit, IInv, HeldTypes, Numbers, Delivered, OnTheWay, Genuine, Earned,
   HeldRecord, End, FreshEnd, Packets, Messages

\* What a packet consists of.
LEMMA PacketFields ==
    ASSUME NEW p \in Packets
    PROVE  /\ p.seq \in Nat /\ p.kind \in {"data", "ack"}
           /\ p.kind = "data" => p.body \in Messages
           /\ \A q \in Nat : /\ [p EXCEPT !.seq = q] \in Packets
                             /\ [p EXCEPT !.seq = q].seq = q
                             /\ [p EXCEPT !.seq = q].kind = p.kind
                             /\ p.kind = "data" => [p EXCEPT !.seq = q].body = p.body
<1>1. CASE p \in [kind : {"data"}, seq : Nat, body : Messages]
  BY <1>1 DEF Packets
<1>2. CASE p \in [kind : {"ack"}, seq : Nat]
  BY <1>2 DEF Packets
<1> QED BY <1>1, <1>2 DEF Packets
\* The packets and messages that are made here.
LEMMA NewPackets ==
    ASSUME NEW q \in Nat
    PROVE  /\ AckPacket(q) \in Packets /\ AckPacket(q).kind = "ack" /\ AckPacket(q).seq = q
           /\ \A m \in Messages : /\ DataPacket(q, m) \in Packets /\ DataPacket(q, m).kind = "data"
                                  /\ DataPacket(q, m).seq = q /\ DataPacket(q, m).body = m
           /\ \A w \in {"gateway", "game", "client"} : Message(w, q) \in Messages
BY DEF AckPacket, DataPacket, Message, Packets, Messages

\* An end that sends, field by field.
LEMMA SendFields ==
    ASSUME NEW e \in End
    PROVE  /\ Sends(e) \in End /\ Sends(e).send = e.send + 1
           /\ Sends(e).recv = e.recv /\ Sends(e).acked = e.acked /\ Sends(e).got = e.got
BY DEF Sends, End
\* A packet is delivered, or acknowledges, or changes nothing.
LEMMA ReceiveFields ==
    ASSUME NEW e \in End, NEW p \in Packets, NEW f, f = Receives(e, p)
    PROVE  /\ f \in End /\ f.send = e.send
           /\ \/ /\ p.kind = "data" /\ p.seq = e.recv
                 /\ f.recv = e.recv + 1 /\ f.got = Append(e.got, p.body) /\ f.acked = e.acked
              \/ /\ p.kind = "ack" /\ p.seq = e.acked /\ e.acked # e.send
                 /\ f.recv = e.recv /\ f.got = e.got /\ f.acked = e.acked + 1
              \/ /\ p.kind = "data" => p.seq # e.recv
                 /\ f = e
<1>1. CASE p.kind = "data" /\ p.seq = e.recv
  <2> DEFINE g == Append(e.got, p.body)
  <2>1. f = [e EXCEPT !.recv = @ + 1, !.got = g]
    BY <1>1 DEF Receives
  <2>2. p.body \in Messages /\ e.got \in Seq(Messages)
    BY <1>1, PacketFields DEF End
  <2>3. g \in Seq(Messages)
    BY <2>2
  <2> HIDE DEF g
  <2>4. f = [recv |-> e.recv + 1, send |-> e.send, acked |-> e.acked, got |-> g]
    BY <2>1 DEF End
  <2>5. e.recv \in Nat /\ e.send \in Nat /\ e.acked \in Nat
    BY DEF End
  <2>6. f \in End
    BY <2>3, <2>4, <2>5 DEF End
  <2> QED BY <1>1, <2>4, <2>6 DEF g
<1>2. CASE p.kind = "ack" /\ p.seq = e.acked /\ ~Acked(e)
  <2>1. f = [e EXCEPT !.acked = @ + 1]
    BY <1>2 DEF Receives
  <2> QED BY <1>2, <2>1 DEF End, Acked
<1>3. CASE ~(p.kind = "data" /\ p.seq = e.recv) /\ ~(p.kind = "ack" /\ p.seq = e.acked /\ ~Acked(e))
  <2>1. f = e
    BY <1>3 DEF Receives
  <2> QED BY <1>3, <2>1
<1> QED BY <1>1, <1>2, <1>3
\* An end answers reliable messages only, under their number.
LEMMA ReplyFields ==
    ASSUME NEW p \in Packets, NEW r \in Replies(p)
    PROVE  r \in Packets /\ r.kind = "ack" /\ r.seq = p.seq /\ p.kind = "data"
BY PacketFields, NewPackets DEF Replies

\* A message added to a channel keeps the packets on their way genuine.
LEMMA GenuineMore ==
    ASSUME NEW ps \in SUBSET Packets, NEW sent \in Seq(Messages), NEW base \in Nat,
           NEW m \in Messages, Genuine(ps, sent, base)
    PROVE  Genuine(ps, Append(sent, m), base)
BY PacketFields DEF Genuine
\* Genuine packets joined to genuine ones.
LEMMA GenuineUnion ==
    ASSUME NEW ps, NEW qs, NEW sent, NEW base, Genuine(ps, sent, base), Genuine(qs, sent, base)
    PROVE  Genuine(ps \cup qs, sent, base)
BY DEF Genuine
\* An acknowledgement stays earned as the receiver gets on.
LEMMA EarnedOn ==
    ASSUME NEW ps \in SUBSET Packets, NEW base \in Nat, NEW n \in Nat, NEW k \in Nat,
           n <= k, Earned(ps, n, base)
    PROVE  Earned(ps, k, base)
BY PacketFields DEF Earned
\* Earned acknowledgements joined to earned ones.
LEMMA EarnedMore ==
    ASSUME NEW ps \in SUBSET Packets, NEW qs, NEW base \in Nat, NEW n \in Nat, NEW k \in Nat,
           n <= k, Earned(ps, n, base), Earned(qs, k, base)
    PROVE  Earned(ps \cup qs, k, base)
<1>1. Earned(ps, k, base)
  BY EarnedOn
<1> QED BY <1>1 DEF Earned

\* What every step may use: what the invariant says of the fields.
LEMMA Fields ==
    ASSUME IInv
    PROVE  /\ client.recv \in Nat /\ client.send \in Nat /\ client.acked \in Nat
           /\ client.got \in Seq(Messages)
           /\ game.recv \in Nat /\ game.send \in Nat /\ game.acked \in Nat
           /\ game.got \in Seq(Messages)
           /\ gw.prefix \in Nat /\ gw.pending \in BOOLEAN /\ gw.backend \in BOOLEAN
           /\ gw.open \in BOOLEAN /\ gw.target \in BOOLEAN /\ gw.initial \subseteq Packets
BY DEF IInv, HeldTypes, End, HeldRecord

\* A receiver between what is acknowledged and what is sent lags by at most one.
LEMMA ClientLag ==
    ASSUME client.recv \in Nat, game.send \in Nat, game.acked \in Nat, gw.prefix \in Nat,
           Len(sentDown) = gw.prefix + game.send,
           gw.prefix + game.acked <= client.recv, client.recv <= Len(sentDown),
           game.send <= game.acked + 1
    PROVE  /\ client.recv = Len(sentDown) \/ client.recv + 1 = Len(sentDown)
           /\ client.recv + 1 = Len(sentDown) => game.acked # game.send
OBVIOUS
\* The same while a loading message is pending.
LEMMA NoticeLag ==
    ASSUME client.recv \in Nat, gw.prefix \in Nat, Len(sentDown) = gw.prefix + 1,
           gw.prefix <= client.recv, client.recv <= Len(sentDown)
    PROVE  client.recv = Len(sentDown) \/ client.recv + 1 = Len(sentDown)
OBVIOUS
\* The same for the game.
LEMMA GameLag ==
    ASSUME game.recv \in Nat, client.send \in Nat, client.acked \in Nat,
           Len(sentUp) = client.send, client.acked <= game.recv, game.recv <= Len(sentUp),
           client.send <= client.acked + 1
    PROVE  /\ game.recv = Len(sentUp) \/ game.recv + 1 = Len(sentUp)
           /\ game.recv + 1 = Len(sentUp) => client.acked # client.send
OBVIOUS
\* The messages an end can still be given: at most one, and its sender waits.
LEMMA Outstanding ==
    ASSUME IInv
    PROVE  /\ client.recv = Len(sentDown) \/ client.recv + 1 = Len(sentDown)
           /\ client.recv + 1 = Len(sentDown) => gw.pending \/ ~Acked(game)
           /\ game.recv = Len(sentUp) \/ game.recv + 1 = Len(sentUp)
           /\ game.recv + 1 = Len(sentUp) => ~Acked(client)
<1>1. /\ game.recv \in Nat /\ client.send \in Nat /\ client.acked \in Nat
      /\ client.recv \in Nat /\ game.send \in Nat /\ game.acked \in Nat /\ gw.prefix \in Nat
  BY Fields
<1>2. /\ Len(sentUp) = client.send /\ client.acked <= game.recv
      /\ game.recv <= Len(sentUp) /\ client.send <= client.acked + 1
  BY DEF IInv, Numbers, Delivered
<1>3. /\ game.recv = Len(sentUp) \/ game.recv + 1 = Len(sentUp)
      /\ game.recv + 1 = Len(sentUp) => ~Acked(client)
  BY <1>1, <1>2, GameLag DEF Acked
<1>4. /\ gw.prefix + game.acked <= client.recv /\ client.recv <= Len(sentDown)
      /\ game.send <= game.acked + 1
  BY DEF IInv, Numbers, Delivered
<1>5. CASE gw.pending
  <2>1. game.acked = 0 /\ game.send = 0
    BY <1>5 DEF IInv, Numbers, FreshEnd
  <2>2. Len(sentDown) = gw.prefix + 1
    BY <1>1, <1>5, <2>1 DEF IInv, Numbers
  <2>3. gw.prefix <= client.recv
    BY <1>1, <1>4, <2>1
  <2>4. client.recv = Len(sentDown) \/ client.recv + 1 = Len(sentDown)
    BY <1>1, <1>4, <2>2, <2>3, NoticeLag
  <2> QED BY <1>3, <1>5, <2>4
<1>6. CASE ~gw.pending
  <2>1. Len(sentDown) = gw.prefix + game.send
    BY <1>1, <1>6 DEF IInv, Numbers
  <2> QED BY <1>1, <1>3, <1>4, <2>1, ClientLag DEF Acked
<1> QED BY <1>5, <1>6

\* The address of the game changes only what the session knows.
LEMMA ResolvedStep ==
    ASSUME IInv, Resolved PROVE IInv'
<1>1. /\ gw' \in HeldRecord /\ gw'.prefix = gw.prefix
      /\ gw'.pending = gw.pending /\ gw'.initial = gw.initial
  BY Fields DEF Resolved, IInv, HeldTypes, HeldRecord
<1>2. HeldTypes'
  BY <1>1, Fields, SessionAssumption DEF Resolved, IInv, HeldTypes
<1>3. Numbers'
  BY <1>1, Fields DEF Resolved, IInv, HeldTypes, Numbers, HeldRecord
<1>4. Delivered'
  BY <1>1 DEF Resolved, IInv, Delivered
<1>5. OnTheWay'
  BY <1>1 DEF Resolved, IInv, Numbers, OnTheWay, Genuine, Earned
<1> QED BY <1>2, <1>3, <1>4, <1>5 DEF IInv

\* Nor does a failed handshake.
LEMMA RefusedStep ==
    ASSUME IInv, HandshakeFails PROVE IInv'
<1>1. /\ gw' \in HeldRecord /\ gw'.prefix = gw.prefix
      /\ gw'.pending = gw.pending /\ gw'.initial = gw.initial
  BY Fields DEF HandshakeFails, IInv, HeldTypes, HeldRecord
<1>a. refused' \in 0..MaxRefused
  BY SessionAssumption DEF HandshakeFails, IInv, HeldTypes
<1>2. HeldTypes'
  BY <1>1, <1>a DEF HandshakeFails, IInv, HeldTypes
<1>3. Numbers'
  BY <1>1, Fields DEF HandshakeFails, IInv, HeldTypes, Numbers, HeldRecord
<1>4. Delivered'
  BY <1>1 DEF HandshakeFails, IInv, Delivered
<1>5. OnTheWay'
  BY <1>1 DEF HandshakeFails, IInv, Numbers, OnTheWay, Genuine, Earned
<1> QED BY <1>2, <1>3, <1>4, <1>5 DEF IInv

\* A session that ends leaves everything on its way as it was.
LEMMA EndsStep ==
    ASSUME IInv, Disconnects PROVE IInv'
<1>1. /\ gw' \in HeldRecord /\ gw'.prefix = gw.prefix
      /\ gw'.pending = gw.pending /\ gw'.initial = gw.initial
  BY Fields DEF Disconnects, IInv, HeldTypes, HeldRecord
<1>2. HeldTypes'
  BY <1>1, Fields, SessionAssumption DEF Disconnects, IInv, HeldTypes
<1>3. Numbers'
  BY <1>1, Fields DEF Disconnects, IInv, HeldTypes, Numbers, HeldRecord
<1>4. Delivered'
  BY <1>1 DEF Disconnects, IInv, Delivered
<1>5. OnTheWay'
  BY <1>1 DEF Disconnects, IInv, Numbers, OnTheWay, Genuine, Earned
<1> QED BY <1>2, <1>3, <1>4, <1>5 DEF IInv

\* The game's connection begins with the player's first packet: nothing of the
\* gateway's is unacknowledged, so that both numberings start together.
LEMMA HandsOverStep ==
    ASSUME IInv, HandsOver PROVE IInv'
<1>1. /\ gw' \in HeldRecord /\ gw'.prefix = gw.prefix /\ gw'.pending = gw.pending
      /\ gw'.initial = gw.initial /\ gw'.backend
  BY Fields DEF HandsOver, IInv, HeldTypes, HeldRecord
<1>2. HeldTypes'
  BY <1>1, Fields DEF HandsOver, IInv, HeldTypes
<1>3. Numbers'
  BY <1>1, Fields DEF HandsOver, IInv, HeldTypes, Numbers, HeldRecord
<1>4. Delivered'
  BY <1>1 DEF HandsOver, IInv, Delivered
<1>5. toGame' = gw.initial
  BY DEF HandsOver, IInv, Numbers
<1>6. Earned(gw.initial, client.recv, gw.prefix)
  BY Fields, PacketFields DEF IInv, OnTheWay, Earned
<1>7. OnTheWay'
  BY <1>1, <1>5, <1>6 DEF HandsOver, IInv, OnTheWay, Genuine, Earned
<1> QED BY <1>2, <1>3, <1>4, <1>7 DEF IInv

\* A new message of the player, the last of its channel.
LEMMA ClientSendsStep ==
    ASSUME IInv, ClientSends PROVE IInv'
<1> DEFINE m == Message("client", client.send)
           new == {DataPacket(client.send, m)}
<1>1. /\ client' \in End /\ client'.send = client.send + 1
      /\ client'.recv = client.recv /\ client'.acked = client.acked /\ client'.got = client.got
  BY SendFields DEF ClientSends, IInv, HeldTypes
<1>0. client.send \in Nat
  BY Fields
<1>2. m \in Messages /\ new \subseteq Packets
  BY <1>0, NewPackets
<1>3. sentUp' = Append(sentUp, m) /\ fromClient' = fromClient \cup new
  BY DEF ClientSends
<1>a. \A p \in new : p.kind = "data" /\ p.seq = client.send /\ p.body = m
  BY <1>0, <1>2, NewPackets
<1> HIDE DEF m, new
<1>4. HeldTypes'
  BY <1>1, <1>2, <1>3 DEF ClientSends, IInv, HeldTypes
<1>b. Len(sentUp) = client.send
  BY Fields DEF ClientSends, IInv, Numbers, FreshEnd
<1>5. /\ Len(sentUp') = Len(sentUp) + 1 /\ sentUp'[Len(sentUp) + 1] = m
      /\ \A k \in 1..Len(sentUp) : sentUp'[k] = sentUp[k]
  BY <1>2, <1>3, AppendFacts DEF IInv, HeldTypes
<1>6. Numbers'
  BY <1>1, <1>b, <1>5, Fields DEF ClientSends, IInv, Numbers, Acked
<1>7. Delivered'
  <2>1. /\ game.recv \in Nat /\ game.recv <= Len(sentUp) /\ Len(sentUp) \in Nat
        /\ \A k \in 1..game.recv : game.got[k] = sentUp[k]
    BY <1>b, Fields DEF IInv, Delivered
  <2>2. \A k \in 1..game.recv : game.got[k] = sentUp'[k]
    BY <1>5, <2>1
  <2> QED BY <1>1, <1>b, <1>5, <2>1, <2>2, Fields DEF ClientSends, IInv, Delivered
<1>c. Len(sentUp') = client.send + 0 + 1 /\ sentUp'[client.send + 0 + 1] = m /\ 0 \in Nat
  BY <1>0, <1>b, <1>5, Fields
<1>8. Genuine(new, sentUp', 0) /\ Earned(new, client.recv, 0)
  <2>1. ASSUME NEW p \in new PROVE p.seq + 0 < Len(sentUp') /\ p.body = sentUp'[p.seq + 0 + 1]
    BY <1>0, <1>a, <1>c
  <2> QED BY <1>a, <2>1 DEF Genuine, Earned
<1>9. /\ Genuine(fromClient, sentUp', 0) /\ Genuine(toGame, sentUp', 0)
      /\ Genuine(gw.initial, sentUp', 0)
  BY <1>2, <1>3, Fields, GenuineMore DEF IInv, HeldTypes, OnTheWay
<1>10. OnTheWay'
  BY <1>1, <1>3, <1>8, <1>9 DEF ClientSends, IInv, OnTheWay, Genuine, Earned
<1> QED BY <1>4, <1>6, <1>7, <1>10 DEF IInv

\* A new message of the game, numbered from the prefix.
LEMMA GameSendsStep ==
    ASSUME IInv, GameSends PROVE IInv'
<1> DEFINE m == Message("game", game.send)
           new == {DataPacket(game.send, m)}
<1>1. /\ game' \in End /\ game'.send = game.send + 1
      /\ game'.recv = game.recv /\ game'.acked = game.acked /\ game'.got = game.got
  BY SendFields DEF GameSends, IInv, HeldTypes
<1>0. game.send \in Nat
  BY Fields
<1>2. m \in Messages /\ new \subseteq Packets
  BY <1>0, NewPackets
<1>3. sentDown' = Append(sentDown, m) /\ fromGame' = fromGame \cup new
  BY DEF GameSends
<1>a. \A p \in new : p.kind = "data" /\ p.seq = game.send /\ p.body = m
  BY <1>0, <1>2, NewPackets
<1> HIDE DEF m, new
<1>4. HeldTypes'
  BY <1>1, <1>2, <1>3 DEF GameSends, IInv, HeldTypes
<1>b. Len(sentDown) = gw.prefix + game.send
  BY Fields DEF GameSends, IInv, Numbers, FreshEnd
<1>5. /\ Len(sentDown') = Len(sentDown) + 1 /\ sentDown'[Len(sentDown) + 1] = m
      /\ \A k \in 1..Len(sentDown) : sentDown'[k] = sentDown[k]
  BY <1>2, <1>3, AppendFacts DEF IInv, HeldTypes
<1>6. Numbers'
  <2>1. gw.backend /\ ~gw.pending /\ game.acked = game.send
    BY DEF GameSends, IInv, Numbers, Acked
  <2>2. UNCHANGED <<gw, client, sentUp>>
    BY DEF GameSends
  <2>3. Len(sentDown') = gw.prefix + game'.send + 0
    BY <1>1, <1>b, <1>5, Fields
  <2>4. game'.acked <= game'.send /\ game'.send <= game'.acked + 1
    BY <1>1, <2>1, Fields
  <2> QED BY <2>1, <2>2, <2>3, <2>4 DEF IInv, Numbers
<1>7. Delivered'
  <2>1. /\ client.recv \in Nat /\ client.recv <= Len(sentDown) /\ Len(sentDown) \in Nat
        /\ \A k \in 1..client.recv : client.got[k] = sentDown[k]
    BY <1>b, Fields DEF IInv, Delivered
  <2>2. \A k \in 1..client.recv : client.got[k] = sentDown'[k]
    BY <1>5, <2>1
  <2>3. UNCHANGED <<gw, client, sentUp>>
    BY DEF GameSends
  <2>4. client.recv <= Len(sentDown')
    BY <1>5, <2>1
  <2> QED BY <1>1, <2>2, <2>3, <2>4 DEF IInv, Delivered
<1>c. /\ Len(sentDown') = game.send + gw.prefix + 1 /\ sentDown'[game.send + gw.prefix + 1] = m
      /\ gw.prefix \in Nat
  BY <1>0, <1>b, <1>5, Fields
<1>8. Genuine(new, sentDown', gw.prefix) /\ Earned(new, game.recv, 0)
  <2>1. ASSUME NEW p \in new
        PROVE  p.seq + gw.prefix < Len(sentDown') /\ p.body = sentDown'[p.seq + gw.prefix + 1]
    BY <1>0, <1>a, <1>c
  <2> QED BY <1>a, <2>1 DEF Genuine, Earned
<1>9. Genuine(toClient, sentDown', 0) /\ Genuine(fromGame, sentDown', gw.prefix)
  BY <1>2, <1>3, Fields, GenuineMore DEF IInv, HeldTypes, OnTheWay
<1>10. OnTheWay'
  BY <1>1, <1>3, <1>8, <1>9 DEF GameSends, IInv, OnTheWay, Genuine, Earned
<1> QED BY <1>4, <1>6, <1>7, <1>10 DEF IInv

\* A loading message, sent only when the one before it is acknowledged.
LEMMA NoticeStep ==
    ASSUME IInv, Notice PROVE IInv'
<1> DEFINE m == Message("gateway", gw.prefix)
           new == {DataPacket(gw.prefix, m)}
<1>1. /\ gw' \in HeldRecord /\ gw'.prefix = gw.prefix /\ gw'.pending /\ gw'.initial = gw.initial
      /\ gw'.backend = gw.backend
  BY Fields DEF Notice, IInv, HeldTypes, HeldRecord
<1>0. gw.prefix \in Nat
  BY Fields
<1>2. m \in Messages /\ new \subseteq Packets
  BY <1>0, NewPackets
<1>3. sentDown' = Append(sentDown, m) /\ toClient' = toClient \cup new
  BY DEF Notice
<1>a. \A p \in new : p.kind = "data" /\ p.seq = gw.prefix /\ p.body = m
  BY <1>0, <1>2, NewPackets
<1> HIDE DEF m, new
<1>4. HeldTypes'
  BY <1>1, <1>2, <1>3 DEF Notice, IInv, HeldTypes
<1>b. game.send = 0 /\ Len(sentDown) = gw.prefix
  BY Fields DEF Notice, IInv, Numbers, FreshEnd
<1>5. /\ Len(sentDown') = Len(sentDown) + 1 /\ sentDown'[Len(sentDown) + 1] = m
      /\ \A k \in 1..Len(sentDown) : sentDown'[k] = sentDown[k]
  BY <1>2, <1>3, AppendFacts DEF IInv, HeldTypes
<1>6. Numbers'
  BY <1>1, <1>b, <1>5, Fields DEF Notice, IInv, Numbers
<1>7. Delivered'
  <2>1. /\ client.recv \in Nat /\ client.recv <= Len(sentDown) /\ Len(sentDown) \in Nat
        /\ \A k \in 1..client.recv : client.got[k] = sentDown[k]
    BY <1>b, Fields DEF IInv, Delivered
  <2>2. \A k \in 1..client.recv : client.got[k] = sentDown'[k]
    BY <1>5, <2>1
  <2> QED BY <1>1, <1>b, <1>5, <2>1, <2>2, Fields DEF Notice, IInv, Delivered
<1>c. Len(sentDown') = gw.prefix + 0 + 1 /\ sentDown'[gw.prefix + 0 + 1] = m /\ 0 \in Nat
  BY <1>0, <1>b, <1>5, Fields
<1>8. Genuine(new, sentDown', 0) /\ Earned(new, game.recv, 0)
  <2>1. ASSUME NEW p \in new PROVE p.seq + 0 < Len(sentDown') /\ p.body = sentDown'[p.seq + 0 + 1]
    BY <1>0, <1>a, <1>c
  <2> QED BY <1>a, <2>1 DEF Genuine, Earned
<1>9. Genuine(toClient, sentDown', 0) /\ Genuine(fromGame, sentDown', gw.prefix)
  BY <1>2, <1>3, Fields, GenuineMore DEF IInv, HeldTypes, OnTheWay
<1>10. OnTheWay'
  BY <1>1, <1>3, <1>8, <1>9 DEF Notice, IInv, OnTheWay, Genuine, Earned
<1> QED BY <1>4, <1>6, <1>7, <1>10 DEF IInv

\* A packet at the player: delivered, acknowledging or known already.
LEMMA ClientReceivesStep ==
    ASSUME IInv, NEW p \in toClient, ClientReceives(p) PROVE IInv'
<1>1. p \in Packets /\ p.seq \in Nat
  BY PacketFields DEF IInv, HeldTypes
<1>2. client \in End /\ client' = Receives(client, p) /\ fromClient' = fromClient \cup Replies(p)
  BY DEF ClientReceives, IInv, HeldTypes
<1>3. client' \in End /\ client'.send = client.send
  BY <1>1, <1>2, ReceiveFields
<1>4. \A r \in Replies(p) : r \in Packets /\ r.kind = "ack" /\ r.seq = p.seq /\ p.kind = "data"
  BY <1>1, ReplyFields
<1>5. HeldTypes'
  BY <1>2, <1>3, <1>4 DEF ClientReceives, IInv, HeldTypes
<1>6. p.kind = "data" => p.seq < Len(sentDown) /\ p.body = sentDown[p.seq + 1]
  BY <1>1 DEF IInv, OnTheWay, Genuine
<1>7. p.kind = "ack" => p.seq < game.recv
  BY <1>1 DEF IInv, OnTheWay, Earned
<1>8. client.recv <= client'.recv /\ client'.recv \in Nat
  <2>1. client'.recv = client.recv \/ client'.recv = client.recv + 1
    BY <1>1, <1>2, ReceiveFields
  <2> QED BY <2>1, Fields
<1>9. Delivered' /\ Numbers' /\ (p.kind = "data" => p.seq < client'.recv)
  <2>1. CASE /\ p.kind = "data" /\ p.seq = client.recv /\ client'.recv = client.recv + 1
             /\ client'.got = Append(client.got, p.body) /\ client'.acked = client.acked
    <3>1. p.body \in Messages
      BY <1>1, <2>1, PacketFields
    <3>2. /\ Len(client'.got) = Len(client.got) + 1 /\ client'.got[Len(client.got) + 1] = p.body
          /\ \A k \in 1..Len(client.got) : client'.got[k] = client.got[k]
      BY <2>1, <3>1, Fields, AppendFacts
    <3>3. ASSUME NEW k \in 1..client'.recv PROVE client'.got[k] = sentDown[k]
      <4>1. /\ client.recv \in Nat /\ Len(client.got) = client.recv
            /\ \A j \in 1..client.recv : client.got[j] = sentDown[j]
        BY Fields DEF IInv, Delivered
      <4>2. k \in 1..client.recv \/ k = client.recv + 1
        BY <2>1, <4>1
      <4> QED BY <1>6, <2>1, <3>2, <4>1, <4>2
    <3>4. client'.recv <= Len(sentDown)
      BY <1>6, <2>1, Fields DEF IInv, HeldTypes
    <3>a. UNCHANGED <<gw, game, sentDown, sentUp, toGame, fromGame>>
      BY DEF ClientReceives
    <3>b. /\ client'.recv = Len(client'.got)
          /\ gw.prefix + game.acked <= client'.recv /\ client'.acked <= game.recv
      BY <2>1, <3>2, Fields DEF IInv, Delivered
    <3>c. /\ game.recv = Len(game.got) /\ game.recv <= Len(sentUp)
          /\ \A k \in 1..game.recv : game.got[k] = sentUp[k]
      BY DEF IInv, Delivered
    <3>5. Delivered'
      BY <3>3, <3>4, <3>a, <3>b, <3>c DEF Delivered
    <3>6. Numbers'
      BY <1>3, <2>1, <3>a DEF IInv, Numbers
    <3>7. p.seq < client'.recv
      BY <2>1, Fields
    <3> QED BY <3>5, <3>6, <3>7
  <2>2. CASE /\ p.kind = "ack" /\ p.seq = client.acked /\ client.acked # client.send
             /\ client'.recv = client.recv /\ client'.got = client.got
             /\ client'.acked = client.acked + 1
    <3>a. client'.acked <= client'.send /\ client'.send <= client'.acked + 1
      <4>1. /\ client.acked <= client.send /\ client.send <= client.acked + 1
            /\ client.acked \in Nat /\ client.send \in Nat
        BY Fields DEF IInv, Numbers
      <4> QED BY <1>3, <2>2, <4>1
    <3>1. Numbers'
      BY <1>3, <3>a DEF ClientReceives, IInv, Numbers
    <3>2. client'.acked <= game.recv
      BY <1>1, <1>7, <2>2, Fields
    <3>3. Delivered'
      BY <2>2, <3>2, Fields DEF ClientReceives, IInv, Delivered
    <3> QED BY <2>2, <3>1, <3>3
  <2>3. CASE (p.kind = "data" => p.seq # client.recv) /\ client' = client
    <3>a. Len(sentDown) \in Nat /\ client.recv \in Nat
      BY Fields DEF IInv, HeldTypes
    <3>1. Len(sentDown) = client.recv \/ Len(sentDown) = client.recv + 1
      BY Outstanding
    <3>2. p.kind = "data" => p.seq < client'.recv
      BY <1>1, <1>6, <2>3, <3>1, <3>a
    <3> QED BY <2>3, <3>2 DEF ClientReceives, IInv, Numbers, Delivered
  <2> QED BY <1>1, <1>2, <2>1, <2>2, <2>3, ReceiveFields
<1>10. Earned(fromClient', client'.recv, 0) /\ Genuine(fromClient', sentUp, 0)
  <2>1. Genuine(Replies(p), sentUp, 0) /\ Earned(Replies(p), client'.recv, 0)
    BY <1>1, <1>4, <1>9 DEF Genuine, Earned
  <2>2. Earned(fromClient \cup Replies(p), client'.recv, 0)
    BY <1>8, <2>1, Fields, EarnedMore DEF IInv, HeldTypes, OnTheWay
  <2>3. Genuine(fromClient \cup Replies(p), sentUp, 0)
    BY <2>1, GenuineUnion DEF IInv, OnTheWay
  <2> QED BY <1>2, <2>2, <2>3
<1>11. Earned(toGame, client'.recv, gw.prefix)
  <2>1. /\ toGame \in SUBSET Packets /\ Earned(toGame, client.recv, gw.prefix)
        /\ client.recv \in Nat /\ gw.prefix \in Nat
    BY Fields DEF IInv, HeldTypes, OnTheWay
  <2> QED BY <1>8, <2>1, EarnedOn
<1>12. OnTheWay'
  BY <1>10, <1>11 DEF ClientReceives, IInv, OnTheWay
<1> QED BY <1>5, <1>9, <1>12 DEF IInv

\* The same at the game, whose numbers are the prefix lower.
LEMMA GameReceivesStep ==
    ASSUME IInv, NEW p \in toGame, GameReceives(p) PROVE IInv'
<1>1. p \in Packets /\ p.seq \in Nat
  BY PacketFields DEF IInv, HeldTypes
<1>2. game \in End /\ game' = Receives(game, p) /\ fromGame' = fromGame \cup Replies(p)
  BY DEF GameReceives, IInv, HeldTypes
<1>3. game' \in End /\ game'.send = game.send
  BY <1>1, <1>2, ReceiveFields
<1>4. \A r \in Replies(p) : r \in Packets /\ r.kind = "ack" /\ r.seq = p.seq /\ p.kind = "data"
  BY <1>1, ReplyFields
<1>5. HeldTypes'
  BY <1>2, <1>3, <1>4 DEF GameReceives, IInv, HeldTypes
<1>6. p.kind = "data" => p.seq < Len(sentUp) /\ p.body = sentUp[p.seq + 1]
  BY <1>1 DEF IInv, OnTheWay, Genuine
<1>7. p.kind = "ack" => p.seq + gw.prefix < client.recv
  BY <1>1 DEF IInv, OnTheWay, Earned
<1>8. game.recv <= game'.recv /\ game'.recv \in Nat
  <2>1. game'.recv = game.recv \/ game'.recv = game.recv + 1
    BY <1>1, <1>2, ReceiveFields
  <2> QED BY <2>1, Fields
<1>9. gw.backend
  BY DEF IInv, Numbers
<1>10. Delivered' /\ Numbers' /\ (p.kind = "data" => p.seq < game'.recv)
  <2>1. CASE /\ p.kind = "data" /\ p.seq = game.recv /\ game'.recv = game.recv + 1
             /\ game'.got = Append(game.got, p.body) /\ game'.acked = game.acked
    <3>1. p.body \in Messages
      BY <1>1, <2>1, PacketFields
    <3>2. /\ Len(game'.got) = Len(game.got) + 1 /\ game'.got[Len(game.got) + 1] = p.body
          /\ \A k \in 1..Len(game.got) : game'.got[k] = game.got[k]
      BY <2>1, <3>1, Fields, AppendFacts
    <3>3. ASSUME NEW k \in 1..game'.recv PROVE game'.got[k] = sentUp[k]
      <4>1. /\ game.recv \in Nat /\ Len(game.got) = game.recv
            /\ \A j \in 1..game.recv : game.got[j] = sentUp[j]
        BY Fields DEF IInv, Delivered
      <4>2. k \in 1..game.recv \/ k = game.recv + 1
        BY <2>1, <4>1
      <4> QED BY <1>6, <2>1, <3>2, <4>1, <4>2
    <3>4. game'.recv <= Len(sentUp)
      BY <1>6, <2>1, Fields DEF IInv, HeldTypes
    <3>a. UNCHANGED <<gw, client, sentDown, sentUp, toGame>>
      BY DEF GameReceives
    <3>b. game'.recv = Len(game'.got) /\ client.acked <= game'.recv
      BY <2>1, <3>2, Fields DEF IInv, Delivered
    <3>c. /\ client.recv = Len(client.got) /\ gw.prefix + game.acked <= client.recv
          /\ client.recv <= Len(sentDown)
          /\ \A k \in 1..client.recv : client.got[k] = sentDown[k]
      BY DEF IInv, Delivered
    <3>5. Delivered'
      BY <2>1, <3>3, <3>4, <3>a, <3>b, <3>c DEF Delivered
    <3>6. Numbers'
      BY <1>3, <1>9, <2>1, <3>a DEF IInv, Numbers
    <3>7. p.seq < game'.recv
      BY <2>1, Fields
    <3> QED BY <3>5, <3>6, <3>7
  <2>2. CASE /\ p.kind = "ack" /\ p.seq = game.acked /\ game.acked # game.send
             /\ game'.recv = game.recv /\ game'.got = game.got
             /\ game'.acked = game.acked + 1
    <3>a. game'.acked <= game'.send /\ game'.send <= game'.acked + 1
      <4>1. /\ game.acked <= game.send /\ game.send <= game.acked + 1
            /\ game.acked \in Nat /\ game.send \in Nat
        BY Fields DEF IInv, Numbers
      <4> QED BY <1>3, <2>2, <4>1
    <3>1. Numbers'
      BY <1>3, <1>9, <3>a DEF GameReceives, IInv, Numbers
    <3>2. gw.prefix + game'.acked <= client.recv
      BY <1>1, <1>7, <2>2, Fields
    <3>3. Delivered'
      BY <2>2, <3>2, Fields DEF GameReceives, IInv, Delivered
    <3> QED BY <2>2, <3>1, <3>3
  <2>3. CASE (p.kind = "data" => p.seq # game.recv) /\ game' = game
    <3>a. Len(sentUp) \in Nat /\ game.recv \in Nat
      BY Fields DEF IInv, HeldTypes
    <3>1. Len(sentUp) = game.recv \/ Len(sentUp) = game.recv + 1
      BY Outstanding
    <3>2. p.kind = "data" => p.seq < game'.recv
      BY <1>1, <1>6, <2>3, <3>1, <3>a
    <3> QED BY <1>9, <2>3, <3>2 DEF GameReceives, IInv, Numbers, Delivered
  <2> QED BY <1>1, <1>2, <2>1, <2>2, <2>3, ReceiveFields
<1>11. Earned(fromGame', game'.recv, 0) /\ Genuine(fromGame', sentDown, gw.prefix)
  <2>1. Genuine(Replies(p), sentDown, gw.prefix) /\ Earned(Replies(p), game'.recv, 0)
    BY <1>1, <1>4, <1>10 DEF Genuine, Earned
  <2>2. Earned(fromGame \cup Replies(p), game'.recv, 0)
    BY <1>8, <2>1, Fields, EarnedMore DEF IInv, HeldTypes, OnTheWay
  <2>3. Genuine(fromGame \cup Replies(p), sentDown, gw.prefix)
    BY <2>1, GenuineUnion DEF IInv, OnTheWay
  <2> QED BY <1>2, <2>2, <2>3
<1>12. Earned(toClient, game'.recv, 0)
  <2>1. toClient \in SUBSET Packets /\ Earned(toClient, game.recv, 0) /\ game.recv \in Nat
    BY Fields DEF IInv, HeldTypes, OnTheWay
  <2> QED BY <1>8, <2>1, EarnedOn
<1>13. OnTheWay'
  BY <1>11, <1>12 DEF GameReceives, IInv, OnTheWay
<1> QED BY <1>5, <1>10, <1>13 DEF IInv

\* A packet held: an acknowledgement of the pending message makes it part of
\* the prefix, and the player has it.
LEMMA HoldsStep ==
    ASSUME IInv, NEW p \in fromClient, Holds(p) PROVE IInv'
<1>1. p \in Packets /\ p.seq \in Nat /\ p.kind \in {"data", "ack"}
  BY PacketFields DEF IInv, HeldTypes
<1>2. /\ gw' \in HeldRecord /\ gw'.backend = gw.backend
      /\ gw'.initial = gw.initial \/ (gw'.initial = {p} /\ p.kind = "data")
      /\ \/ gw'.prefix = gw.prefix /\ gw'.pending = gw.pending
         \/ /\ gw'.prefix = gw.prefix + 1 /\ ~gw'.pending
            /\ gw.pending /\ p.kind = "ack" /\ p.seq = gw.prefix
  <2>1. CASE p.kind = "ack" /\ gw.pending /\ p.seq = gw.prefix
    <3>1. gw' = [gw EXCEPT !.prefix = @ + 1, !.pending = FALSE]
      BY <2>1, Fields DEF Holds, Noted, IInv, HeldTypes, HeldRecord
    <3>2. /\ gw'.prefix = gw.prefix + 1 /\ ~gw'.pending
          /\ gw'.backend = gw.backend /\ gw'.initial = gw.initial
      BY <3>1 DEF IInv, HeldTypes, HeldRecord
    <3>3. gw.prefix + 1 \in Nat
      BY Fields
    <3>4. gw' \in HeldRecord
      BY <3>1, <3>3 DEF IInv, HeldTypes, HeldRecord
    <3> QED BY <2>1, <3>2, <3>4
  <2>2. CASE p.kind = "data" /\ p.seq = 0 /\ gw.initial = {}
    <3>1. gw' = [gw EXCEPT !.initial = {p}]
      BY <2>2, Fields DEF Holds, Noted, IInv, HeldTypes, HeldRecord
    <3>2. {p} \subseteq Packets
      BY <1>1
    <3> QED BY <2>2, <3>1, <3>2, Fields DEF IInv, HeldTypes, HeldRecord
  <2>3. CASE /\ ~(p.kind = "ack" /\ gw.pending /\ p.seq = gw.prefix)
             /\ ~(p.kind = "data" /\ p.seq = 0 /\ gw.initial = {})
    <3>1. gw' = gw
      BY <2>3, Fields DEF Holds, Noted, IInv, HeldTypes, HeldRecord
    <3> QED BY <3>1 DEF IInv, HeldTypes
  <2> QED BY <2>1, <2>2, <2>3
<1>3. HeldTypes'
  BY <1>2 DEF Holds, IInv, HeldTypes
<1>4. /\ ~gw.backend /\ toGame = {} /\ fromGame = {}
      /\ game.send = 0 /\ game.acked = 0
  BY DEF Holds, IInv, Numbers, FreshEnd
<1>5. Numbers'
  BY <1>2, <1>4, Fields DEF Holds, IInv, Numbers
<1>6. p.kind = "ack" => p.seq < client.recv
  BY <1>1 DEF IInv, OnTheWay, Earned
<1>7. gw'.prefix <= client.recv
  BY <1>2, <1>4, <1>6, Fields DEF IInv, Delivered
<1>8. Delivered'
  BY <1>2, <1>4, <1>7, Fields DEF Holds, IInv, Delivered
<1>9. Genuine(gw'.initial, sentUp, 0) /\ Earned(gw'.initial, 0, 0)
  BY <1>2 DEF IInv, OnTheWay, Genuine, Earned
<1>10. OnTheWay'
  BY <1>4, <1>9 DEF Holds, IInv, OnTheWay, Genuine, Earned
<1> QED BY <1>3, <1>5, <1>8, <1>10 DEF IInv

\* A packet relayed to the game says in the game's numbers what it said before.
LEMMA RelaysUpStep ==
    ASSUME IInv, NEW p \in fromClient, RelaysUp(p) PROVE IInv'
<1>1. p \in Packets /\ p.seq \in Nat /\ p.kind \in {"data", "ack"}
  BY PacketFields DEF IInv, HeldTypes
<1>2. \A r \in Lowered(p) :
         /\ r \in Packets /\ r.kind = p.kind
         /\ p.kind = "data" => r = p
         /\ p.kind = "ack" => r.seq + gw.prefix = p.seq
  <2>1. CASE p.kind = "data"
    BY <1>1, <2>1 DEF Lowered
  <2>2. CASE p.kind = "ack" /\ p.seq < gw.prefix
    BY <2>2 DEF Lowered
  <2>3. CASE p.kind = "ack" /\ ~(p.seq < gw.prefix)
    <3>1. Lowered(p) = {[p EXCEPT !.seq = p.seq - gw.prefix]}
      BY <2>3 DEF Lowered
    <3>2. p.seq - gw.prefix \in Nat
      BY <1>1, <2>3, Fields
    <3> DEFINE low == [p EXCEPT !.seq = p.seq - gw.prefix]
    <3>3. low \in Packets /\ low.kind = p.kind /\ low.seq = p.seq - gw.prefix
      BY <1>1, <3>2, PacketFields
    <3> HIDE DEF low
    <3>4. low.seq + gw.prefix = p.seq
      BY <1>1, <3>3, Fields
    <3> QED BY <2>3, <3>1, <3>3, <3>4 DEF low
  <2> QED BY <1>1, <2>1, <2>2, <2>3
<1>3. HeldTypes'
  BY <1>2 DEF RelaysUp, IInv, HeldTypes
<1>4. Numbers' /\ Delivered'
  BY DEF RelaysUp, IInv, Numbers, Delivered
<1>5. Genuine(Lowered(p), sentUp, 0) /\ Earned(Lowered(p), client.recv, gw.prefix)
  BY <1>1, <1>2 DEF IInv, OnTheWay, Genuine, Earned
<1>6. OnTheWay'
  BY <1>5 DEF RelaysUp, IInv, OnTheWay, Genuine, Earned
<1> QED BY <1>3, <1>4, <1>6 DEF IInv

\* A packet relayed to the player says in the player's numbers what it said before.
LEMMA RelaysDownStep ==
    ASSUME IInv, NEW p \in fromGame, RelaysDown(p) PROVE IInv'
<1>1. p \in Packets /\ p.seq \in Nat /\ p.kind \in {"data", "ack"}
  BY PacketFields DEF IInv, HeldTypes
<1>2. /\ Raised(p) \in Packets /\ Raised(p).kind = p.kind
      /\ p.kind = "data" => Raised(p).seq = p.seq + gw.prefix /\ Raised(p).body = p.body
      /\ p.kind = "ack" => Raised(p) = p
  <2>1. CASE p.kind = "data"
    <3>1. Raised(p) = [p EXCEPT !.seq = p.seq + gw.prefix]
      BY <2>1 DEF Raised
    <3>2. p.seq + gw.prefix \in Nat
      BY <1>1, Fields
    <3> QED BY <1>1, <2>1, <3>1, <3>2, PacketFields
  <2>2. CASE p.kind = "ack"
    BY <1>1, <2>2 DEF Raised
  <2> QED BY <1>1, <2>1, <2>2
<1>3. HeldTypes'
  BY <1>2 DEF RelaysDown, IInv, HeldTypes
<1>4. Numbers' /\ Delivered'
  BY DEF RelaysDown, IInv, Numbers, Delivered
<1>5. Genuine({Raised(p)}, sentDown, 0) /\ Earned({Raised(p)}, game.recv, 0)
  BY <1>1, <1>2, Fields DEF IInv, OnTheWay, Genuine, Earned
<1>6. OnTheWay'
  BY <1>5 DEF RelaysDown, IInv, OnTheWay, Genuine, Earned
<1> QED BY <1>3, <1>4, <1>6 DEF IInv

\* Every step keeps the invariant.
LEMMA NextIInv == IInv /\ [HeldNext]_heldVars => IInv'
<1> SUFFICES ASSUME IInv, [HeldNext]_heldVars PROVE IInv'
  OBVIOUS
<1>1. CASE ClientSends BY <1>1, ClientSendsStep
<1>2. CASE GameSends BY <1>2, GameSendsStep
<1>3. CASE Resolved BY <1>3, ResolvedStep
<1>4. CASE Notice BY <1>4, NoticeStep
<1>5. CASE HandsOver BY <1>5, HandsOverStep
<1>6. CASE HandshakeFails BY <1>6, RefusedStep
<1>7. CASE Disconnects BY <1>7, EndsStep
<1>8. CASE FromClient BY <1>8, HoldsStep, RelaysUpStep DEF FromClient
<1>9. CASE FromGame BY <1>9, RelaysDownStep DEF FromGame
<1>10. CASE AtClient BY <1>10, ClientReceivesStep DEF AtClient
<1>11. CASE AtGame BY <1>11, GameReceivesStep DEF AtGame
<1>12. CASE UNCHANGED heldVars
  BY <1>12 DEF heldVars, IInv, HeldTypes, Numbers, Delivered, OnTheWay, Genuine, Earned
<1> QED
  BY <1>1, <1>2, <1>3, <1>4, <1>5, <1>6, <1>7, <1>8, <1>9, <1>10, <1>11, <1>12 DEF HeldNext

\* The invariant holds throughout.
LEMMA SessionInvariant == HeldSpec => []IInv
BY InitIInv, NextIInv, PTL DEF HeldSpec

\* Every variable keeps its kind: in particular no acknowledgement the gateway
\* translates gets a negative number (session.go, the test sequence < prefix).
THEOREM SessionTypes == HeldSpec => []HeldTypes
<1>1. IInv => HeldTypes
  BY DEF IInv
<1> QED BY <1>1, SessionInvariant, PTL

-----------------------------------------------------------------------------
(* Refinement.                                                             *)

\* An end that has had as many messages as were sent was given just them.
LEMMA CaughtUp ==
    ASSUME NEW got \in Seq(Messages), NEW sent \in Seq(Messages), NEW n \in Nat,
           n = Len(got), n <= Len(sent), \A k \in 1..n : got[k] = sent[k]
    PROVE  got = sent <=> n = Len(sent)
BY SameSeq
\* An end that has caught up was given all that was sent to it.
LEMMA AllGiven ==
    ASSUME IInv
    PROVE  /\ client.recv = Len(sentDown) => client.got = sentDown
           /\ game.recv = Len(sentUp) => game.got = sentUp
<1>1. /\ client.got \in Seq(Messages) /\ game.got \in Seq(Messages)
      /\ sentDown \in Seq(Messages) /\ sentUp \in Seq(Messages)
      /\ client.recv \in Nat /\ game.recv \in Nat
  BY Fields DEF IInv, HeldTypes
<1>2. /\ client.recv = Len(client.got) /\ client.recv <= Len(sentDown)
      /\ \A k \in 1..client.recv : client.got[k] = sentDown[k]
  BY DEF IInv, Delivered
<1>3. /\ game.recv = Len(game.got) /\ game.recv <= Len(sentUp)
      /\ \A k \in 1..game.recv : game.got[k] = sentUp[k]
  BY DEF IInv, Delivered
<1>4. ASSUME client.recv = Len(sentDown) PROVE client.got = sentDown
  <2>1. Len(client.got) = Len(sentDown) /\ \A k \in 1..Len(client.got) : client.got[k] = sentDown[k]
    BY <1>2, <1>4
  <2> QED BY <1>1, <2>1, SameSeq
<1>5. ASSUME game.recv = Len(sentUp) PROVE game.got = sentUp
  <2>1. Len(game.got) = Len(sentUp) /\ \A k \in 1..Len(game.got) : game.got[k] = sentUp[k]
    BY <1>3, <1>5
  <2> QED BY <1>1, <2>1, SameSeq
<1> QED BY <1>4, <1>5

\* The channel's last message, in the words of ReliableLink.
LEMMA Appended ==
    ASSUME NEW s \in Seq(Messages), NEW m \in Messages, NEW t, t = Append(s, m)
    PROVE  Len(t) > 0 /\ t = Append(s, t[Len(t)])
<1>1. Len(t) = Len(s) + 1 /\ t[Len(s) + 1] = m /\ Len(s) \in Nat
  BY AppendFacts
<1> QED BY <1>1

\* The player's packets: only a message it has not had changes what it was
\* given, and only an acknowledgement frees its sender.
LEMMA DownStep ==
    ASSUME IInv, IInv', [HeldNext]_heldVars
    PROVE  [Down!Next]_<<sentDown, client.got, gw.pending \/ ~Acked(game)>>
<1> DEFINE busy == gw.pending \/ ~Acked(game)
<1>1. CASE UNCHANGED <<sentDown, client.got, busy>>
  BY <1>1
<1>2. CASE GameSends
  <2>1. gw.backend /\ ~gw.pending /\ Acked(game)
    BY <1>2 DEF GameSends, IInv, Numbers
  <2>a. game'.send = game.send + 1 /\ game'.acked = game.acked
    BY <1>2, SendFields DEF GameSends, IInv, HeldTypes
  <2>2. ~Acked(game')
    BY <2>1, <2>a, Fields DEF Acked
  <2>3. Message("game", game.send) \in Messages /\ sentDown \in Seq(Messages)
    BY NewPackets, Fields DEF IInv, HeldTypes
  <2>4. Len(sentDown') > 0 /\ sentDown' = Append(sentDown, sentDown'[Len(sentDown')])
    BY <1>2, <2>3, Appended DEF GameSends
  <2> QED BY <1>2, <2>1, <2>2, <2>4 DEF GameSends, Down!Next, Down!Send, Acked
<1>3. CASE Notice
  <2>1. ~gw.pending /\ Acked(game) /\ gw'.pending
    BY <1>3 DEF Notice, IInv, HeldTypes, HeldRecord, Numbers, FreshEnd, Acked
  <2>2. Message("gateway", gw.prefix) \in Messages /\ sentDown \in Seq(Messages)
    BY NewPackets, Fields DEF IInv, HeldTypes
  <2>3. Len(sentDown') > 0 /\ sentDown' = Append(sentDown, sentDown'[Len(sentDown')])
    BY <1>3, <2>2, Appended DEF Notice
  <2> QED BY <1>3, <2>1, <2>3 DEF Notice, Down!Next, Down!Send
<1>4. ASSUME NEW p \in toClient, ClientReceives(p)
      PROVE  UNCHANGED <<sentDown, client.got, busy>> \/ Down!Next
  <2>1. p \in Packets /\ client \in End /\ client' = Receives(client, p)
    BY <1>4 DEF ClientReceives, IInv, HeldTypes
  <2>2. client'.got = client.got \/ client'.recv = client.recv + 1
    BY <2>1, ReceiveFields
  <2>3. CASE client'.recv = client.recv + 1
    <3>1. client'.recv <= Len(sentDown) /\ sentDown' = sentDown /\ busy' = busy
      BY <1>4 DEF ClientReceives, IInv, Delivered, Acked
    <3>2. client.recv \in Nat /\ Len(sentDown) \in Nat
      BY Fields DEF IInv, HeldTypes
    <3>3. busy /\ client.recv + 1 = Len(sentDown)
      BY <2>3, <3>1, <3>2, Outstanding
    <3>4. client'.got = sentDown'
      <4>1. client'.got \in Seq(Messages) /\ sentDown' \in Seq(Messages) /\ client'.recv \in Nat
        BY DEF IInv, HeldTypes, End
      <4>2. /\ client'.recv = Len(client'.got) /\ client'.recv <= Len(sentDown')
            /\ \A k \in 1..client'.recv : client'.got[k] = sentDown'[k]
        BY DEF IInv, Delivered
      <4> QED BY <2>3, <3>1, <3>3, <4>1, <4>2, CaughtUp
    <3>5. client.got # sentDown
      <4>1. client.recv = Len(client.got)
        BY DEF IInv, Delivered
      <4> QED BY <3>2, <3>3, <4>1
    <3> QED BY <3>1, <3>3, <3>4, <3>5 DEF Down!Next, Down!Deliver
  <2> QED BY <1>4, <2>2, <2>3 DEF ClientReceives, Acked
<1>5. ASSUME NEW p \in toGame, GameReceives(p)
      PROVE  UNCHANGED <<sentDown, client.got, busy>> \/ Down!Next
  <2>1. p \in Packets /\ p.seq \in Nat /\ game \in End /\ game' = Receives(game, p)
    BY <1>5, PacketFields DEF GameReceives, IInv, HeldTypes
  <2>2. UNCHANGED <<gw, client, sentDown>>
    BY <1>5 DEF GameReceives
  <2>3. CASE game'.acked = game.acked
    BY <2>1, <2>2, <2>3, ReceiveFields DEF Acked
  <2>4. CASE game'.acked # game.acked
    <3>1. p.kind = "ack" /\ p.seq = game.acked /\ game.acked # game.send
          /\ game'.acked = game.acked + 1 /\ game'.send = game.send
      BY <2>1, <2>4, ReceiveFields
    <3>2. p.seq + gw.prefix < client.recv
      BY <1>5, <3>1 DEF IInv, OnTheWay, Earned
    <3>3. gw.backend /\ ~gw.pending /\ ~Acked(game)
      BY <1>5, <3>1 DEF IInv, Numbers, Acked
    <3>4. /\ game.acked <= game.send /\ game.send <= game.acked + 1
          /\ Len(sentDown) = gw.prefix + game.send
      BY <3>3, Fields DEF IInv, Numbers
    <3>a. /\ client.recv \in Nat /\ gw.prefix \in Nat /\ game.acked \in Nat /\ game.send \in Nat
      BY Fields
    <3>b. game.send = game.acked + 1
      BY <3>1, <3>4, <3>a
    <3>c. client.recv = Len(sentDown)
      BY <3>1, <3>2, <3>4, <3>a, <3>b, Outstanding
    <3>5. client.recv = Len(sentDown) /\ Acked(game')
      BY <3>1, <3>b, <3>c DEF Acked
    <3>6. client.got = sentDown
      BY <3>5, AllGiven
    <3>7. busy /\ busy' = FALSE
      BY <2>2, <3>3, <3>5 DEF Acked
    <3> QED BY <2>2, <3>6, <3>7 DEF Down!Next, Down!Acknowledged
  <2> QED BY <2>3, <2>4
<1>6. ASSUME NEW p \in fromClient, Holds(p)
      PROVE  UNCHANGED <<sentDown, client.got, busy>> \/ Down!Next
  <2>1. UNCHANGED <<game, client, sentDown>> /\ ~gw.backend /\ gw' = Noted(p)
    BY <1>6 DEF Holds
  <2>2. game.send = 0 /\ game.acked = 0 /\ Acked(game)
    BY <2>1 DEF IInv, Numbers, FreshEnd, Acked
  <2>3. CASE p.kind = "ack" /\ gw.pending /\ p.seq = gw.prefix
    <3>1. ~gw'.pending
      BY <2>1, <2>3, Fields DEF Noted, IInv, HeldTypes, HeldRecord
    <3>2. p.seq < client.recv /\ p.seq \in Nat
      BY <1>6, <2>3, PacketFields DEF IInv, HeldTypes, OnTheWay, Earned
    <3>3. Len(sentDown) = gw.prefix + 1
      BY <2>2, <2>3, Fields DEF IInv, Numbers
    <3>4. client.recv = Len(sentDown)
      BY <2>3, <3>2, <3>3, Outstanding, Fields
    <3>5. client.got = sentDown
      BY <3>4, AllGiven
    <3>6. busy /\ busy' = FALSE
      BY <2>1, <2>2, <2>3, <3>1 DEF Acked
    <3> QED BY <2>1, <3>5, <3>6 DEF Down!Next, Down!Acknowledged
  <2>4. CASE ~(p.kind = "ack" /\ gw.pending /\ p.seq = gw.prefix)
    <3>1. gw'.pending = gw.pending
      BY <2>1, <2>4, Fields DEF Noted, IInv, HeldTypes, HeldRecord
    <3> QED BY <2>1, <3>1
  <2> QED BY <2>3, <2>4
<1>7. CASE ClientSends
  <2>1. client'.got = client.got
    BY <1>7, SendFields DEF ClientSends, IInv, HeldTypes
  <2> QED BY <1>7, <2>1 DEF ClientSends
<1>8. CASE Resolved \/ HandsOver \/ HandshakeFails \/ Disconnects
  <2>1. gw'.pending = gw.pending /\ UNCHANGED <<sentDown, client, game>>
    BY <1>8 DEF Resolved, HandsOver, HandshakeFails, Disconnects, IInv, HeldTypes, HeldRecord
  <2> QED BY <2>1
<1>9. ASSUME NEW p, RelaysUp(p) \/ RelaysDown(p) PROVE UNCHANGED <<sentDown, client.got, busy>>
  BY <1>9 DEF RelaysUp, RelaysDown
<1>10. CASE UNCHANGED heldVars
  BY <1>10 DEF heldVars
<1> QED
  BY <1>1, <1>2, <1>3, <1>4, <1>5, <1>6, <1>7, <1>8, <1>9, <1>10
     DEF HeldNext, FromClient, FromGame, AtClient, AtGame

\* The player's packets and the game's replies are steps of one channel.
LEMMA UpStep ==
    ASSUME IInv, IInv', [HeldNext]_heldVars
    PROVE  [Up!Next]_<<sentUp, game.got, ~Acked(client)>>
<1>1. CASE ClientSends
  <2>a. Acked(client) /\ client'.send = client.send + 1 /\ client'.acked = client.acked
    BY <1>1, SendFields DEF ClientSends, IInv, HeldTypes
  <2>1. Acked(client) /\ ~Acked(client')
    BY <2>a, Fields DEF Acked
  <2>2. Message("client", client.send) \in Messages /\ sentUp \in Seq(Messages)
    BY NewPackets, Fields DEF IInv, HeldTypes
  <2>3. Len(sentUp') > 0 /\ sentUp' = Append(sentUp, sentUp'[Len(sentUp')])
    BY <1>1, <2>2, Appended DEF ClientSends
  <2> QED BY <1>1, <2>1, <2>3 DEF ClientSends, Up!Next, Up!Send
<1>2. ASSUME NEW p \in toGame, GameReceives(p)
      PROVE  UNCHANGED <<sentUp, game.got, ~Acked(client)>> \/ Up!Next
  <2>1. p \in Packets /\ game \in End /\ game' = Receives(game, p)
    BY <1>2 DEF GameReceives, IInv, HeldTypes
  <2>2. game'.got = game.got \/ game'.recv = game.recv + 1
    BY <2>1, ReceiveFields
  <2>3. CASE game'.recv = game.recv + 1
    <3>1. game'.recv <= Len(sentUp) /\ UNCHANGED <<sentUp, client>>
      BY <1>2 DEF GameReceives, IInv, Delivered
    <3>2. game.recv \in Nat /\ Len(sentUp) \in Nat
      BY Fields DEF IInv, HeldTypes
    <3>3. ~Acked(client) /\ game.recv + 1 = Len(sentUp)
      BY <2>3, <3>1, <3>2, Outstanding
    <3>4. game'.got = sentUp'
      <4>1. game'.got \in Seq(Messages) /\ sentUp' \in Seq(Messages) /\ game'.recv \in Nat
        BY DEF IInv, HeldTypes, End
      <4>2. /\ game'.recv = Len(game'.got) /\ game'.recv <= Len(sentUp')
            /\ \A k \in 1..game'.recv : game'.got[k] = sentUp'[k]
        BY DEF IInv, Delivered
      <4> QED BY <2>3, <3>1, <3>3, <4>1, <4>2, CaughtUp
    <3>5. game.got # sentUp
      <4>1. game.recv = Len(game.got)
        BY DEF IInv, Delivered
      <4> QED BY <3>2, <3>3, <4>1
    <3> QED BY <3>1, <3>3, <3>4, <3>5 DEF Up!Next, Up!Deliver
  <2> QED BY <1>2, <2>2, <2>3 DEF GameReceives
<1>3. ASSUME NEW p \in toClient, ClientReceives(p)
      PROVE  UNCHANGED <<sentUp, game.got, ~Acked(client)>> \/ Up!Next
  <2>1. p \in Packets /\ p.seq \in Nat /\ client \in End /\ client' = Receives(client, p)
    BY <1>3, PacketFields DEF ClientReceives, IInv, HeldTypes
  <2>2. UNCHANGED <<game, sentUp>>
    BY <1>3 DEF ClientReceives
  <2>3. CASE client'.acked = client.acked
    BY <2>1, <2>2, <2>3, ReceiveFields DEF Acked
  <2>4. CASE client'.acked # client.acked
    <3>1. /\ p.kind = "ack" /\ p.seq = client.acked /\ client.acked # client.send
          /\ client'.acked = client.acked + 1 /\ client'.send = client.send
      BY <2>1, <2>4, ReceiveFields
    <3>2. p.seq < game.recv
      BY <1>3, <2>1, <3>1 DEF IInv, OnTheWay, Earned
    <3>3. /\ client.acked <= client.send /\ client.send <= client.acked + 1
          /\ Len(sentUp) = client.send
      BY DEF IInv, Numbers
    <3>4. game.recv = Len(sentUp) /\ ~Acked(client) /\ Acked(client')
      BY <3>1, <3>2, <3>3, Outstanding, Fields DEF Acked
    <3>5. game.got = sentUp
      BY <3>4, AllGiven
    <3> QED BY <2>2, <3>4, <3>5 DEF Up!Next, Up!Acknowledged
  <2> QED BY <2>3, <2>4
<1>4. CASE GameSends
  <2>1. game'.got = game.got
    BY <1>4, SendFields DEF GameSends, IInv, HeldTypes
  <2> QED BY <1>4, <2>1 DEF GameSends
<1>5. CASE Resolved \/ Notice \/ HandsOver \/ HandshakeFails \/ Disconnects
  BY <1>5 DEF Resolved, Notice, HandsOver, HandshakeFails, Disconnects
<1>6. ASSUME NEW p, Holds(p) \/ RelaysUp(p) \/ RelaysDown(p)
      PROVE  UNCHANGED <<sentUp, game.got, ~Acked(client)>>
  BY <1>6 DEF Holds, RelaysUp, RelaysDown
<1>7. CASE UNCHANGED heldVars
  BY <1>7 DEF heldVars
<1> QED
  BY <1>1, <1>2, <1>3, <1>4, <1>5, <1>6, <1>7 DEF HeldNext, FromClient, FromGame, AtClient, AtGame

\* The loading messages of the gateway and the messages of the game are, for the
\* player, one reliable channel (session.go, run: prefix and pending).
THEOREM DownIsReliable == HeldSpec => DownLink
<1>1. HeldInit => Down!Init
  BY DEF HeldInit, Down!Init, Acked, FreshEnd
<1>2. IInv /\ IInv' /\ [HeldNext]_heldVars
         => [Down!Next]_<<sentDown, client.got, gw.pending \/ ~Acked(game)>>
  BY DownStep
<1> QED BY <1>1, <1>2, SessionInvariant, PTL DEF HeldSpec, DownLink, Down!Spec

\* What the player sends reaches the game as one reliable channel, from before
\* the game was there (session.go, run: initial, and no packet is acknowledged
\* by the gateway).
THEOREM UpIsReliable == HeldSpec => UpLink
<1>1. HeldInit => Up!Init
  BY DEF HeldInit, Up!Init, Acked, FreshEnd
<1>2. IInv /\ IInv' /\ [HeldNext]_heldVars
         => [Up!Next]_<<sentUp, game.got, ~Acked(client)>>
  BY UpStep
<1> QED BY <1>1, <1>2, SessionInvariant, PTL DEF HeldSpec, UpLink, Up!Spec
=============================================================================

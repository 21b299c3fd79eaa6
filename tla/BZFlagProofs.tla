---------------------------- MODULE BZFlagProofs -----------------------------
(***************************************************************************)
(* The sessions of a BZFlag listener, for any number of players, player    *)
(* IDs and messages.                                                       *)
(*                                                                         *)
(* What the game has been given speaks only of the messages it has; the    *)
(* invariant adds what is still held and under way: that each such message *)
(* names whom it means under the IDs the player is shown (Meant), that the *)
(* messages of the three places are numbered without a gap (Ordered), and  *)
(* that before the game has given the player an ID no message can be about *)
(* anybody else (Shape).  The connections to the game need that no two of  *)
(* their holders have the same (Apart).                                    *)
(***************************************************************************)
EXTENDS BZFlagSession, FiniteSetTheorems, SequenceTheorems, WellFoundedInduction, TLAPS

\* The length of a queue of messages, a name the provers' arithmetic takes as it is.
Size(q) == Len(q)

\* What a session has in each of its states.
Shape(s) ==
    /\ s.st = "none" => s = NoSession
    /\ s.st # "none" => s.virtual # None
    /\ s.st \in {"none", "greets", "gone"} =>
         /\ s.connector = "none" /\ s.wire = << >> /\ s.pending = << >> /\ s.passed = << >>
         /\ s.known = {} /\ s.linkedAs = None /\ s.sent = 0
    /\ s.st = "holds" =>
         /\ s.connector \in {"asks", "has", "failed"} /\ s.known = {} /\ s.passed = << >>
         /\ s.linkedAs = None
    /\ s.st = "relays" => s.connector = "given" /\ s.pending = << >>
    /\ s.actual # None <=> s.connector \in {"has", "given"}

\* A message on its way names whom it means as the player is shown it.
Meant(s, m) == m[1] = IF m[2] = None THEN s.virtual ELSE Swap(s.virtual, s.actual, m[2])
\* A message the game was given names whom it means as the game knows it.
Understood(s, m) == m[1] = IF m[2] = None THEN s.actual ELSE m[2]
Meanings(s) ==
    /\ \A k \in 1..Size(s.passed) : Understood(s, s.passed[k])
    /\ \A k \in 1..Size(s.pending) : Meant(s, s.pending[k]) /\ (s.st = "holds" => s.pending[k][2] = None)
    /\ \A k \in 1..Size(s.wire) : Meant(s, s.wire[k]) /\ (s.st = "holds" => s.wire[k][2] = None)
    /\ s.linkedAs \in {None, s.actual}
    /\ \A p \in s.known : p[1] = Swap(s.virtual, s.actual, p[2])

\* The messages given, held and under way are those sent, in their order.
Ordered(s) ==
    /\ s.sent = Size(s.passed) + Size(s.pending) + Size(s.wire)
    /\ \A k \in 1..Size(s.passed) : s.passed[k][3] = k
    /\ \A k \in 1..Size(s.pending) : s.pending[k][3] = Size(s.passed) + k
    /\ \A k \in 1..Size(s.wire) : s.wire[k][3] = Size(s.passed) + Size(s.pending) + k

SessionInv(s) ==
    s \in Session /\ Size(s.pending) <= MaxPending /\ Shape(s) /\ Meanings(s) /\ Ordered(s)

\* No two holders of connections to the game have the same.
Apart ==
    /\ \A c, d \in Clients : client[c].actual # None /\ client[c].actual = client[d].actual => c = d
    /\ \A c \in Clients : client[c].actual \notin strays

LiveClients == {c \in Clients : Live(c)}

BZInv ==
    /\ BZTypes
    /\ \A c \in Clients : SessionInv(client[c])
    /\ LinksAreOwn /\ NoLeakedBackend /\ Apart

-----------------------------------------------------------------------------
(* The translation.                                                        *)

\* The player gets the ID it has in the game, and to translate twice is to do nothing.
LEMMA SwapTwice ==
    ASSUME NEW v, NEW a, NEW id
    PROVE  Swap(v, a, v) = a /\ Swap(v, a, Swap(v, a, id)) = id
BY DEF Swap

\* A translated ID is an ID.
LEMMA SwapType ==
    ASSUME NEW v \in Ids, NEW a \in Ids, NEW id \in Ids
    PROVE  Swap(v, a, id) \in Ids
BY DEF Swap

\* A set of slots has a first one.
LEMMA FirstSlot ==
    ASSUME NEW S \in SUBSET Ids, S # {}
    PROVE  (CHOOSE k \in S : \A j \in S : k <= j) \in S
<1>1. IsWellFoundedOn(OpToRel(<, Nat), Nat)
  BY NatLessThanWellFounded
<1>2. S \subseteq Nat
  BY BZAssumption
<1>3. PICK x \in S : \A y \in S : ~(<<y, x>> \in OpToRel(<, Nat))
  BY <1>1, <1>2, WFMin
<1>4. \A y \in S : ~(y < x)
  BY <1>2, <1>3 DEF OpToRel
<1>5. \A y \in S : x <= y
  BY <1>2, <1>4
<1> QED
  BY <1>5

\* A message that names whom it means as shown is understood once it is translated.
LEMMA TranslatedIsUnderstood ==
    ASSUME NEW s, s \in Session, NEW m \in Message, s.virtual \in Ids, s.actual \in Ids, Meant(s, m)
    PROVE  Translated(s, m) \in Message /\ Understood(s, Translated(s, m)) /\ Translated(s, m)[3] = m[3]
<1>1. m[1] \in Ids /\ m[2] \in Ids \cup {None} /\ m[3] \in 1..MaxMessages
  BY DEF Message
<1>2. Swap(s.virtual, s.actual, m[1]) \in Ids
  BY <1>1, SwapType
<1>3. Swap(s.virtual, s.actual, m[1]) = IF m[2] = None THEN s.actual ELSE m[2]
  BY SwapTwice DEF Meant
<1> QED
  BY <1>1, <1>2, <1>3 DEF Translated, Understood, Message

\* The queues.
LEMMA NoMessages == << >> \in Seq(Message) /\ Size(<< >>) = 0
BY EmptySeq DEF Size

LEMMA Messages ==
    ASSUME NEW q \in Seq(Message)
    PROVE  /\ Size(q) = Len(q) /\ Size(q) \in Nat /\ DOMAIN q = 1..Size(q)
           /\ \A k \in 1..Size(q) : q[k] \in Message
BY LenProperties DEF Size

LEMMA OneMore ==
    ASSUME NEW q \in Seq(Message), NEW x \in Message
    PROVE  /\ Append(q, x) \in Seq(Message) /\ Size(Append(q, x)) = Size(q) + 1
           /\ \A k \in 1..Size(q) : Append(q, x)[k] = q[k]
           /\ Append(q, x)[Size(q) + 1] = x
BY AppendProperties DEF Size

LEMMA OneLess ==
    ASSUME NEW q \in Seq(Message), q # << >>
    PROVE  /\ Head(q) \in Message /\ Head(q) = q[1] /\ Size(q) >= 1
           /\ Tail(q) \in Seq(Message) /\ Size(Tail(q)) = Size(q) - 1
           /\ \A k \in 1..(Size(q) - 1) : Tail(q)[k] = q[k + 1]
<1>1. Len(q) \in Nat \ {0}
  BY EmptySeq
<1>2. /\ Head(q) \in Message /\ Tail(q) \in Seq(Message) /\ Len(Tail(q)) = Len(q) - 1
      /\ \A k \in 1..Len(Tail(q)) : Tail(q)[k] = q[k + 1]
  BY HeadTailProperties
<1>3. Head(q) = q[1]
  OBVIOUS
<1> QED
  BY <1>1, <1>2, <1>3 DEF Size

-----------------------------------------------------------------------------
(* What each operation makes of the session it is about.                   *)

\* A player without a session.
LEMMA NoSessionIs == SessionInv(NoSession)
<1>1. NoSession \in Session
  BY BZAssumption, NoMessages DEF NoSession, Session
<1>2. Size(NoSession.pending) = 0 /\ Size(NoSession.wire) = 0 /\ Size(NoSession.passed) = 0
  BY NoMessages DEF NoSession
<1>3. Shape(NoSession)
  BY DEF NoSession, Shape
<1>4. Meanings(NoSession) /\ Ordered(NoSession)
  BY <1>2 DEF NoSession, Meanings, Ordered
<1> QED
  BY <1>1, <1>2, <1>3, <1>4, BZAssumption DEF SessionInv

\* A session that begins, and one that has ended.
LEMMA EmptyIs ==
    ASSUME NEW w \in Session, w.st \in {"greets", "gone"}, w.virtual \in Ids,
           w.connector = "none", w.actual = None, w.sent = 0, w.wire = << >>, w.pending = << >>,
           w.passed = << >>, w.known = {}, w.linkedAs = None
    PROVE  SessionInv(w)
<1>1. Shape(w)
  BY BZAssumption DEF Shape
<1>2. Meanings(w) /\ Ordered(w)
  BY NoMessages DEF Meanings, Ordered
<1> QED
  BY <1>1, <1>2, BZAssumption, NoMessages DEF SessionInv

LEMMA GreetsKeeps ==
    ASSUME NEW s, SessionInv(s), s.st = "greets"
    PROVE  SessionInv([s EXCEPT !.st = "holds", !.accepted = TRUE, !.connector = "asks"])
<1> DEFINE w == [s EXCEPT !.st = "holds", !.accepted = TRUE, !.connector = "asks"]
<1>1. w \in Session
  BY DEF SessionInv, Session
<1>2. /\ w.st = "holds" /\ w.virtual = s.virtual /\ w.connector = "asks" /\ w.actual = s.actual
      /\ w.sent = s.sent /\ w.wire = s.wire /\ w.pending = s.pending /\ w.passed = s.passed
      /\ w.known = s.known /\ w.linkedAs = s.linkedAs
  BY DEF SessionInv, Session
<1> HIDE DEF w
<1>3. Shape(w)
  BY <1>2, BZAssumption DEF Shape, SessionInv
<1>4. Meanings(w) /\ Ordered(w)
  <2>1. /\ s.sent = 0 /\ s.wire = << >> /\ s.pending = << >> /\ s.passed = << >> /\ s.known = {}
        /\ s.linkedAs = None
    BY DEF SessionInv, Shape
  <2> QED
    BY <1>2, <2>1, NoMessages DEF Meanings, Ordered
<1>5. SessionInv(w)
  BY <1>1, <1>2, <1>3, <1>4 DEF SessionInv
<1> QED
  BY <1>5 DEF w

LEMMA SendsKeeps ==
    ASSUME NEW s, SessionInv(s), s.st \in {"holds", "relays"}, s.sent < MaxMessages,
           NEW m \in {<<s.virtual, None>>} \cup s.known
    PROVE  SessionInv([s EXCEPT !.sent = @ + 1, !.wire = Append(@, <<m[1], m[2], s.sent + 1>>)])
<1> DEFINE x == <<m[1], m[2], s.sent + 1>>
           q == Append(s.wire, x)
           w == [s EXCEPT !.sent = @ + 1, !.wire = Append(@, x)]
<1>0. /\ s \in Session /\ s.virtual \in Ids /\ s.sent \in 0..MaxMessages /\ s.known \subseteq Ids \X Ids
      /\ s.wire \in Seq(Message)
  BY DEF SessionInv, Session, Shape
<1>1. x \in Message /\ Meant(s, x) /\ (s.st = "holds" => x[2] = None) /\ x[3] = s.sent + 1
  <2>1. CASE m = <<s.virtual, None>>
    BY <1>0, <2>1, BZAssumption DEF Message, Meant
  <2>2. CASE m \in s.known
    <3>1. m[1] \in Ids /\ m[2] \in Ids /\ m[2] # None /\ m[1] = Swap(s.virtual, s.actual, m[2])
      BY <1>0, <2>2, BZAssumption DEF SessionInv, Meanings
    <3>2. s.st # "holds"
      BY <2>2 DEF SessionInv, Shape
    <3> QED
      BY <1>0, <3>1, <3>2, BZAssumption DEF Message, Meant
  <2> QED
    BY <2>1, <2>2
<1> HIDE DEF x
<1>2. /\ q \in Seq(Message) /\ Size(q) = Size(s.wire) + 1
      /\ \A k \in 1..Size(s.wire) : q[k] = s.wire[k]
      /\ q[Size(s.wire) + 1] = x
      /\ Size(s.wire) \in Nat
  BY <1>0, <1>1, OneMore, Messages DEF q
<1>3. /\ w.st = s.st /\ w.virtual = s.virtual /\ w.connector = s.connector /\ w.actual = s.actual
      /\ w.sent = s.sent + 1 /\ w.wire = q /\ w.pending = s.pending /\ w.passed = s.passed
      /\ w.known = s.known /\ w.linkedAs = s.linkedAs
  BY <1>0 DEF Session
<1>4. w \in Session
  <2>1. s.sent + 1 \in 0..MaxMessages
    BY <1>0, BZAssumption
  <2> QED
    BY <1>0, <1>2, <2>1 DEF Session
<1> HIDE DEF w, q
<1>5. Shape(w)
  BY <1>3 DEF Shape, SessionInv
<1>6. Size(s.passed) \in Nat /\ Size(s.pending) \in Nat
  BY <1>0, Messages DEF Session
<1>7. Meanings(w)
  <2>1. \A k \in 1..Size(w.wire) : Meant(w, w.wire[k]) /\ (w.st = "holds" => w.wire[k][2] = None)
    <3> SUFFICES ASSUME NEW k \in 1..Size(w.wire)
                 PROVE  Meant(w, w.wire[k]) /\ (w.st = "holds" => w.wire[k][2] = None)
      OBVIOUS
    <3>1. CASE k = Size(s.wire) + 1
      BY <1>1, <1>2, <1>3, <3>1 DEF Meant
    <3>2. CASE k \in 1..Size(s.wire)
      BY <1>2, <1>3, <3>2 DEF Meant, SessionInv, Meanings
    <3> QED
      BY <1>2, <1>3, <3>1, <3>2
  <2> QED
    BY <1>3, <2>1 DEF Meanings, SessionInv, Meant, Understood
<1>8. Ordered(w)
  <2>0. s.sent = Size(s.passed) + Size(s.pending) + Size(s.wire)
    BY DEF Ordered, SessionInv
  <2>a. Size(w.wire) = Size(s.wire) + 1 /\ Size(s.wire) \in Nat
    BY <1>2, <1>3
  <2>b. w.sent = s.sent + 1 /\ Size(w.passed) = Size(s.passed) /\ Size(w.pending) = Size(s.pending)
    BY <1>3
  <2>1. w.sent = Size(w.passed) + Size(w.pending) + Size(w.wire) /\ Size(w.wire) = Size(s.wire) + 1
    BY <1>6, <2>0, <2>a, <2>b
  <2>2. \A k \in 1..Size(w.wire) : w.wire[k][3] = Size(w.passed) + Size(w.pending) + k
    <3> SUFFICES ASSUME NEW k \in 1..Size(w.wire)
                 PROVE  w.wire[k][3] = Size(w.passed) + Size(w.pending) + k
      OBVIOUS
    <3>1. CASE k = Size(s.wire) + 1
      BY <1>1, <1>2, <1>3, <1>6, <2>0, <3>1
    <3>2. CASE k \in 1..Size(s.wire)
      BY <1>2, <1>3, <3>2 DEF Ordered, SessionInv
    <3> QED
      BY <1>2, <2>1, <3>1, <3>2
  <2> QED
    BY <1>3, <2>1, <2>2 DEF Ordered, SessionInv
<1>9. SessionInv(w)
  BY <1>3, <1>4, <1>5, <1>7, <1>8 DEF SessionInv
<1> QED
  BY <1>9 DEF w, x, q

LEMMA HoldsKeeps ==
    ASSUME NEW s, SessionInv(s), s.st = "holds", s.wire # << >>, Len(s.pending) < MaxPending
    PROVE  SessionInv([s EXCEPT !.wire = Tail(@), !.pending = Append(@, Head(s.wire))])
<1> DEFINE x == Head(s.wire)
           q == Tail(s.wire)
           r == Append(s.pending, x)
           w == [s EXCEPT !.wire = Tail(@), !.pending = Append(@, Head(s.wire))]
<1>0. /\ s \in Session /\ s.wire \in Seq(Message) /\ s.pending \in Seq(Message) /\ s.passed \in Seq(Message)
      /\ s.passed = << >> /\ s.virtual \in Ids
  BY DEF SessionInv, Session, Shape
<1>1. /\ x \in Message /\ x = s.wire[1] /\ q \in Seq(Message) /\ Size(q) = Size(s.wire) - 1
      /\ \A k \in 1..(Size(s.wire) - 1) : q[k] = s.wire[k + 1]
      /\ Size(s.wire) >= 1
  BY <1>0, OneLess
<1>2. /\ r \in Seq(Message) /\ Size(r) = Size(s.pending) + 1
      /\ \A k \in 1..Size(s.pending) : r[k] = s.pending[k]
      /\ r[Size(s.pending) + 1] = x
  BY <1>0, <1>1, OneMore
<1>3. /\ w.st = "holds" /\ w.virtual = s.virtual /\ w.connector = s.connector /\ w.actual = s.actual
      /\ w.sent = s.sent /\ w.wire = q /\ w.pending = r /\ w.passed = s.passed
      /\ w.known = s.known /\ w.linkedAs = s.linkedAs
  BY <1>0 DEF Session
<1>4. w \in Session
  BY <1>0, <1>1, <1>2 DEF Session
<1> HIDE DEF w, q, r, x
<1>5. Shape(w)
  BY <1>3 DEF Shape, SessionInv
<1>6. /\ Size(s.passed) = 0 /\ Size(s.pending) \in Nat /\ Size(s.wire) \in Nat /\ Size(r) <= MaxPending
      /\ s.sent = Size(s.passed) + Size(s.pending) + Size(s.wire)
  BY <1>0, <1>2, Messages, NoMessages, BZAssumption DEF SessionInv, Ordered
<1>7. Meanings(w)
  <2>1. \A k \in 1..Size(s.wire) : Meant(w, s.wire[k]) /\ s.wire[k][2] = None
    BY <1>3 DEF SessionInv, Meanings, Meant
  <2>2. \A k \in 1..Size(w.wire) : Meant(w, w.wire[k]) /\ w.wire[k][2] = None
    BY <1>1, <1>3, <1>6, <2>1
  <2>3. \A k \in 1..Size(s.pending) : Meant(w, s.pending[k]) /\ s.pending[k][2] = None
    BY <1>3 DEF SessionInv, Meanings, Meant
  <2>4. Meant(w, x) /\ x[2] = None
    BY <1>1, <1>6, <2>1
  <2>5. \A k \in 1..Size(w.pending) : Meant(w, w.pending[k]) /\ w.pending[k][2] = None
    BY <1>2, <1>3, <1>6, <2>3, <2>4
  <2> QED
    BY <1>3, <2>2, <2>5 DEF Meanings, SessionInv, Understood
<1>8. Ordered(w)
  <2>1. \A k \in 1..Size(s.wire) : s.wire[k][3] = Size(s.pending) + k
    BY <1>6 DEF SessionInv, Ordered
  <2>2. \A k \in 1..Size(w.wire) : w.wire[k][3] = Size(w.passed) + Size(w.pending) + k
    <3> SUFFICES ASSUME NEW k \in 1..Size(w.wire)
                 PROVE  w.wire[k][3] = Size(w.passed) + Size(w.pending) + k
      OBVIOUS
    <3>1. k \in 1..(Size(s.wire) - 1) /\ k + 1 \in 1..Size(s.wire) /\ k \in Nat
      BY <1>1, <1>3, <1>6
    <3>2. w.wire[k] = s.wire[k + 1]
      BY <1>1, <1>3, <3>1
    <3>3. s.wire[k + 1][3] = Size(s.pending) + (k + 1)
      BY <2>1, <3>1
    <3>4. Size(w.passed) = 0 /\ Size(w.pending) = Size(s.pending) + 1
      BY <1>2, <1>3, <1>6
    <3> QED
      BY <1>6, <3>1, <3>2, <3>3, <3>4
  <2>3. \A k \in 1..Size(s.pending) : s.pending[k][3] = k
    BY <1>6 DEF SessionInv, Ordered
  <2>4. x[3] = Size(s.pending) + 1
    BY <1>1, <1>6, <2>1
  <2>5. \A k \in 1..Size(w.pending) : w.pending[k][3] = Size(w.passed) + k
    BY <1>2, <1>3, <1>6, <2>3, <2>4
  <2>6. w.sent = Size(w.passed) + Size(w.pending) + Size(w.wire)
    BY <1>1, <1>2, <1>3, <1>6
  <2> QED
    BY <1>3, <2>2, <2>5, <2>6 DEF Ordered, SessionInv
<1>9. SessionInv(w)
  BY <1>3, <1>4, <1>5, <1>6, <1>7, <1>8 DEF SessionInv
<1> QED
  BY <1>9 DEF w, x, q, r

\* The game takes the player: no message held is about anybody the ID could change.
LEMMA HasKeeps ==
    ASSUME NEW s, SessionInv(s), s.connector = "asks", NEW id \in Ids
    PROVE  SessionInv([s EXCEPT !.connector = "has", !.actual = id])
<1> DEFINE w == [s EXCEPT !.connector = "has", !.actual = id]
<1>0. s \in Session /\ s.st = "holds"
  BY DEF SessionInv, Session, Shape
<1>1. w \in Session
  BY <1>0 DEF Session
<1>2. /\ w.st = "holds" /\ w.virtual = s.virtual /\ w.connector = "has" /\ w.actual = id
      /\ w.sent = s.sent /\ w.wire = s.wire /\ w.pending = s.pending /\ w.passed = s.passed
      /\ w.known = s.known /\ w.linkedAs = s.linkedAs
  BY <1>0 DEF Session
<1> HIDE DEF w
<1>3. Shape(w)
  BY <1>0, <1>2, BZAssumption DEF Shape, SessionInv
<1>4. Meanings(w)
  <2>1. /\ \A k \in 1..Size(w.wire) : Meant(w, w.wire[k]) /\ w.wire[k][2] = None
        /\ \A k \in 1..Size(w.pending) : Meant(w, w.pending[k]) /\ w.pending[k][2] = None
    BY <1>0, <1>2 DEF SessionInv, Meanings, Meant
  <2>2. Size(w.passed) = 0 /\ w.known = {} /\ w.linkedAs = None
    BY <1>0, <1>2, NoMessages DEF SessionInv, Shape
  <2> QED
    BY <2>1, <2>2 DEF Meanings
<1>5. Ordered(w)
  BY <1>2 DEF Ordered, SessionInv
<1>6. SessionInv(w)
  BY <1>1, <1>2, <1>3, <1>4, <1>5 DEF SessionInv
<1> QED
  BY <1>6 DEF w

LEMMA FailsKeeps ==
    ASSUME NEW s, SessionInv(s), s.connector = "asks"
    PROVE  SessionInv([s EXCEPT !.connector = "failed"])
<1> DEFINE w == [s EXCEPT !.connector = "failed"]
<1>0. s \in Session /\ s.st = "holds"
  BY DEF SessionInv, Session, Shape
<1>1. w \in Session
  BY <1>0 DEF Session
<1>2. /\ w.st = "holds" /\ w.virtual = s.virtual /\ w.connector = "failed" /\ w.actual = s.actual
      /\ w.sent = s.sent /\ w.wire = s.wire /\ w.pending = s.pending /\ w.passed = s.passed
      /\ w.known = s.known /\ w.linkedAs = s.linkedAs
  BY <1>0 DEF Session
<1> HIDE DEF w
<1>3. Shape(w)
  BY <1>0, <1>2 DEF Shape, SessionInv
<1>4. Meanings(w) /\ Ordered(w)
  BY <1>0, <1>2 DEF Meanings, Ordered, SessionInv, Meant, Understood
<1>5. SessionInv(w)
  BY <1>1, <1>2, <1>3, <1>4 DEF SessionInv
<1> QED
  BY <1>5 DEF w

\* What was held reaches the game translated, each message in its place.
LEMMA ReplayedIs ==
    ASSUME NEW s, SessionInv(s), s.st = "holds", s.connector = "has"
    PROVE  /\ Replayed(s) \in Seq(Message) /\ Size(Replayed(s)) = Size(s.pending)
           /\ \A k \in 1..Size(s.pending) : /\ Understood(s, Replayed(s)[k])
                                            /\ Replayed(s)[k][3] = s.pending[k][3]
<1>0. s \in Session /\ s.virtual \in Ids /\ s.actual \in Ids /\ s.pending \in Seq(Message)
  BY DEF SessionInv, Session, Shape
<1>1. \A k \in 1..Size(s.pending) :
        /\ Translated(s, s.pending[k]) \in Message
        /\ Understood(s, Translated(s, s.pending[k]))
        /\ Translated(s, s.pending[k])[3] = s.pending[k][3]
  <2> SUFFICES ASSUME NEW k \in 1..Size(s.pending)
               PROVE  /\ Translated(s, s.pending[k]) \in Message
                      /\ Understood(s, Translated(s, s.pending[k]))
                      /\ Translated(s, s.pending[k])[3] = s.pending[k][3]
    OBVIOUS
  <2>1. s.pending[k] \in Message /\ Meant(s, s.pending[k])
    BY <1>0, Messages DEF SessionInv, Meanings
  <2> QED
    BY <1>0, <2>1, TranslatedIsUnderstood
<1>2. Replayed(s) = [k \in 1..Size(s.pending) |-> Translated(s, s.pending[k])]
  BY <1>0, Messages DEF Replayed
<1>3. Size(s.pending) \in Nat
  BY <1>0, Messages
<1>4. Replayed(s) \in [1..Size(s.pending) -> Message]
  BY <1>1, <1>2
<1>5. Replayed(s) \in Seq(Message) /\ Len(Replayed(s)) = Size(s.pending)
  BY <1>3, <1>4, SeqDef, LenProperties
<1> QED
  BY <1>1, <1>2, <1>5 DEF Size

LEMMA TakesBackendKeeps ==
    ASSUME NEW s, SessionInv(s), s.st = "holds", s.connector = "has"
    PROVE  SessionInv([s EXCEPT !.st = "relays", !.connector = "given",
                          !.passed = Replayed(s), !.pending = << >>, !.udpRequest = FALSE,
                          !.linkedAs = IF s.udpRequest THEN s.actual ELSE None])
<1> DEFINE l == IF s.udpRequest THEN s.actual ELSE None
           q == Replayed(s)
           w == [s EXCEPT !.st = "relays", !.connector = "given", !.passed = q, !.pending = << >>,
                          !.udpRequest = FALSE, !.linkedAs = l]
<1>0. /\ s \in Session /\ s.virtual \in Ids /\ s.actual \in Ids /\ s.pending \in Seq(Message)
      /\ s.wire \in Seq(Message) /\ s.passed = << >> /\ s.known = {}
  BY DEF SessionInv, Session, Shape
<1>1. /\ q \in Seq(Message) /\ Size(q) = Size(s.pending) /\ Size(q) \in Nat
      /\ \A k \in 1..Size(s.pending) : Understood(s, q[k]) /\ q[k][3] = s.pending[k][3]
  BY ReplayedIs, Messages
<1>2. l \in {None, s.actual}
  OBVIOUS
<1> HIDE DEF l, q
<1>3. /\ w.st = "relays" /\ w.virtual = s.virtual /\ w.connector = "given" /\ w.actual = s.actual
      /\ w.sent = s.sent /\ w.wire = s.wire /\ w.pending = << >> /\ w.passed = q
      /\ w.known = {} /\ w.linkedAs = l
  BY <1>0 DEF Session
<1>4. w \in Session
  BY <1>0, <1>1, <1>2, NoMessages DEF Session
<1> HIDE DEF w
<1>5. Shape(w)
  BY <1>0, <1>3, BZAssumption DEF Shape, SessionInv
<1>6. /\ Size(s.passed) = 0 /\ Size(w.pending) = 0
      /\ s.sent = Size(s.passed) + Size(s.pending) + Size(s.wire)
      /\ Size(s.pending) \in Nat /\ Size(s.wire) \in Nat
  BY <1>0, <1>3, NoMessages, Messages DEF SessionInv, Ordered
<1>7. Meanings(w)
  <2>1. \A k \in 1..Size(w.passed) : Understood(w, w.passed[k])
    BY <1>1, <1>3 DEF Understood
  <2>2. \A k \in 1..Size(w.wire) : Meant(w, w.wire[k])
    BY <1>3 DEF SessionInv, Meanings, Meant
  <2> QED
    BY <1>2, <1>3, <1>6, <2>1, <2>2 DEF Meanings
<1>8. Ordered(w)
  <2>1. \A k \in 1..Size(w.passed) : w.passed[k][3] = k
    BY <1>1, <1>3, <1>6 DEF SessionInv, Ordered
  <2>2. \A k \in 1..Size(w.wire) : w.wire[k][3] = Size(w.passed) + Size(w.pending) + k
    BY <1>1, <1>3, <1>6 DEF SessionInv, Ordered
  <2> QED
    BY <1>1, <1>3, <1>6, <2>1, <2>2 DEF Ordered
<1>9. SessionInv(w)
  BY <1>3, <1>4, <1>5, <1>6, <1>7, <1>8, BZAssumption DEF SessionInv
<1> QED
  BY <1>9 DEF w, l, q

LEMMA PassesKeeps ==
    ASSUME NEW s, SessionInv(s), s.st = "relays", s.wire # << >>
    PROVE  SessionInv([s EXCEPT !.wire = Tail(@), !.passed = Append(@, Translated(s, Head(s.wire)))])
<1> DEFINE h == Head(s.wire)
           x == Translated(s, h)
           q == Tail(s.wire)
           r == Append(s.passed, x)
           w == [s EXCEPT !.wire = Tail(@), !.passed = Append(@, Translated(s, Head(s.wire)))]
<1>0. /\ s \in Session /\ s.wire \in Seq(Message) /\ s.passed \in Seq(Message)
      /\ s.pending = << >> /\ s.virtual \in Ids /\ s.actual \in Ids
  BY DEF SessionInv, Session, Shape
<1>1. /\ h \in Message /\ h = s.wire[1] /\ q \in Seq(Message) /\ Size(q) = Size(s.wire) - 1
      /\ \A k \in 1..(Size(s.wire) - 1) : q[k] = s.wire[k + 1]
      /\ Size(s.wire) >= 1
  BY <1>0, OneLess
<1>2. /\ Size(s.pending) = 0 /\ Size(s.passed) \in Nat /\ Size(s.wire) \in Nat
      /\ s.sent = Size(s.passed) + Size(s.pending) + Size(s.wire)
  BY <1>0, Messages, NoMessages DEF SessionInv, Ordered
<1>3. Meant(s, h) /\ h[3] = Size(s.passed) + 1
  <2> HIDE DEF h
  <2>1. 1 \in 1..Size(s.wire)
    BY <1>1, <1>2
  <2>2. Meant(s, s.wire[1]) /\ s.wire[1][3] = Size(s.passed) + Size(s.pending) + 1
    BY <2>1 DEF SessionInv, Meanings, Ordered
  <2> QED
    BY <1>1, <1>2, <2>2
<1>4. x \in Message /\ Understood(s, x) /\ x[3] = Size(s.passed) + 1
  <2> HIDE DEF h
  <2> QED
    BY <1>0, <1>1, <1>3, TranslatedIsUnderstood
<1>5. /\ r \in Seq(Message) /\ Size(r) = Size(s.passed) + 1
      /\ \A k \in 1..Size(s.passed) : r[k] = s.passed[k]
      /\ r[Size(s.passed) + 1] = x
  <2> HIDE DEF x
  <2> QED
    BY <1>0, <1>4, OneMore
<1>6. /\ w.st = "relays" /\ w.virtual = s.virtual /\ w.connector = s.connector /\ w.actual = s.actual
      /\ w.sent = s.sent /\ w.wire = q /\ w.pending = s.pending /\ w.passed = r
      /\ w.known = s.known /\ w.linkedAs = s.linkedAs
  BY <1>0 DEF Session
<1>7. w \in Session
  BY <1>0, <1>1, <1>5 DEF Session
<1> HIDE DEF w, q, r, x, h
<1>8. Shape(w)
  BY <1>6 DEF Shape, SessionInv
<1>9. Meanings(w)
  <2>1. \A k \in 1..Size(w.passed) : Understood(w, w.passed[k])
    <3>1. \A k \in 1..Size(s.passed) : Understood(w, s.passed[k])
      BY <1>6 DEF SessionInv, Meanings, Understood
    <3>2. Understood(w, x)
      BY <1>4, <1>6 DEF Understood
    <3> QED
      BY <1>2, <1>5, <1>6, <3>1, <3>2
  <2>2. \A k \in 1..Size(s.wire) : Meant(w, s.wire[k])
    BY <1>6 DEF SessionInv, Meanings, Meant
  <2>3. \A k \in 1..Size(w.wire) : Meant(w, w.wire[k])
    BY <1>1, <1>2, <1>6, <2>2
  <2> QED
    BY <1>2, <1>6, <2>1, <2>3 DEF Meanings, SessionInv
<1>10. Ordered(w)
  <2>1. \A k \in 1..Size(w.passed) : w.passed[k][3] = k
    <3>1. \A k \in 1..Size(s.passed) : s.passed[k][3] = k
      BY DEF SessionInv, Ordered
    <3> QED
      BY <1>2, <1>4, <1>5, <1>6, <3>1
  <2>2. \A k \in 1..Size(w.wire) : w.wire[k][3] = Size(w.passed) + Size(w.pending) + k
    <3> SUFFICES ASSUME NEW k \in 1..Size(w.wire)
                 PROVE  w.wire[k][3] = Size(w.passed) + Size(w.pending) + k
      OBVIOUS
    <3>1. k \in 1..(Size(s.wire) - 1) /\ k + 1 \in 1..Size(s.wire) /\ k \in Nat
      BY <1>1, <1>2, <1>6
    <3>2. w.wire[k] = s.wire[k + 1]
      BY <1>1, <1>6, <3>1
    <3>3. s.wire[k + 1][3] = Size(s.passed) + Size(s.pending) + (k + 1)
      BY <3>1 DEF SessionInv, Ordered
    <3>4. Size(w.passed) = Size(s.passed) + 1 /\ Size(w.pending) = 0
      BY <1>2, <1>5, <1>6
    <3> QED
      BY <1>2, <3>1, <3>2, <3>3, <3>4
  <2>3. w.sent = Size(w.passed) + Size(w.pending) + Size(w.wire)
    BY <1>1, <1>2, <1>5, <1>6
  <2> QED
    BY <1>2, <1>6, <2>1, <2>2, <2>3 DEF Ordered
<1>11. SessionInv(w)
  BY <1>6, <1>7, <1>8, <1>9, <1>10 DEF SessionInv
<1> QED
  BY <1>11 DEF w

\* The game mentions a player.
LEMMA MentionsKeeps ==
    ASSUME NEW s, SessionInv(s), s.st = "relays", NEW id \in Ids
    PROVE  SessionInv([s EXCEPT !.known = {<<Swap(s.virtual, s.actual, id), id>>}])
<1> DEFINE p == <<Swap(s.virtual, s.actual, id), id>>
           w == [s EXCEPT !.known = {p}]
<1>0. s \in Session /\ s.virtual \in Ids /\ s.actual \in Ids
  BY DEF SessionInv, Session, Shape
<1>1. p \in Ids \X Ids /\ p[1] = Swap(s.virtual, s.actual, p[2])
  BY <1>0, SwapType
<1> HIDE DEF p
<1>2. w \in Session
  BY <1>0, <1>1 DEF Session
<1>3. /\ w.st = s.st /\ w.virtual = s.virtual /\ w.connector = s.connector /\ w.actual = s.actual
      /\ w.sent = s.sent /\ w.wire = s.wire /\ w.pending = s.pending /\ w.passed = s.passed
      /\ w.known = {p} /\ w.linkedAs = s.linkedAs
  BY <1>0 DEF Session
<1> HIDE DEF w
<1>4. Shape(w)
  BY <1>3 DEF Shape, SessionInv
<1>5. Meanings(w) /\ Ordered(w)
  BY <1>1, <1>3 DEF Meanings, Ordered, SessionInv, Meant, Understood
<1>6. SessionInv(w)
  BY <1>2, <1>3, <1>4, <1>5 DEF SessionInv
<1> QED
  BY <1>6 DEF w, p

\* What is not about messages or connections leaves the session as it is.
LEMMA SameSession ==
    ASSUME NEW s, SessionInv(s), s.st # "none", NEW w, w \in Session,
           w.st = s.st, w.virtual = s.virtual, w.connector = s.connector, w.actual = s.actual,
           w.sent = s.sent, w.wire = s.wire, w.pending = s.pending, w.passed = s.passed,
           w.known = s.known,
           w.linkedAs = s.linkedAs \/ (s.st = "relays" /\ w.linkedAs = s.actual)
    PROVE  SessionInv(w)
<1>1. Shape(w)
  BY DEF Shape, SessionInv
<1>2. Meanings(w) /\ Ordered(w)
  BY DEF Meanings, Ordered, SessionInv, Meant, Understood
<1> QED
  BY <1>1, <1>2 DEF SessionInv

LEMMA LinksKeeps ==
    ASSUME NEW s, SessionInv(s), s.accepted, NEW from \in Clients
    PROVE  SessionInv([s EXCEPT !.udp = from, !.input = TRUE])
<1> DEFINE w == [s EXCEPT !.udp = from, !.input = TRUE]
<1>0. s \in Session /\ s.st # "none"
  BY DEF SessionInv, Session, Shape, NoSession
<1>1. w \in Session
  BY <1>0 DEF Session
<1>2. /\ w.st = s.st /\ w.virtual = s.virtual /\ w.connector = s.connector /\ w.actual = s.actual
      /\ w.sent = s.sent /\ w.wire = s.wire /\ w.pending = s.pending /\ w.passed = s.passed
      /\ w.known = s.known /\ w.linkedAs = s.linkedAs
  BY <1>0 DEF Session
<1> HIDE DEF w
<1>3. SessionInv(w)
  BY <1>0, <1>1, <1>2, SameSession
<1> QED
  BY <1>3 DEF w

LEMMA TakesInputKeeps ==
    ASSUME NEW s, SessionInv(s), s.st \in {"holds", "relays"}
    PROVE  SessionInv(IF s.st = "holds"
                      THEN [s EXCEPT !.input = FALSE, !.udpRequest = TRUE]
                      ELSE [s EXCEPT !.input = FALSE,
                              !.linkedAs = Swap(s.virtual, s.actual, s.virtual)])
<1> DEFINE v == [s EXCEPT !.input = FALSE, !.udpRequest = TRUE]
           u == [s EXCEPT !.input = FALSE, !.linkedAs = Swap(s.virtual, s.actual, s.virtual)]
<1>0. s \in Session /\ Swap(s.virtual, s.actual, s.virtual) = s.actual
  BY SwapTwice DEF SessionInv
<1>1. CASE s.st = "holds"
  <2>1. /\ v \in Session
        /\ v.st = s.st /\ v.virtual = s.virtual /\ v.connector = s.connector /\ v.actual = s.actual
        /\ v.sent = s.sent /\ v.wire = s.wire /\ v.pending = s.pending /\ v.passed = s.passed
        /\ v.known = s.known /\ v.linkedAs = s.linkedAs
    BY <1>0 DEF Session
  <2> HIDE DEF v
  <2>2. SessionInv(v)
    BY <1>1, <2>1, SameSession
  <2> QED
    BY <1>1, <2>2 DEF v
<1>2. CASE s.st = "relays"
  <2>1. u = [s EXCEPT !.input = FALSE, !.linkedAs = s.actual] /\ s.actual \in Ids \cup {None}
    BY <1>0 DEF Session
  <2>2. /\ u \in Session
        /\ u.st = s.st /\ u.virtual = s.virtual /\ u.connector = s.connector /\ u.actual = s.actual
        /\ u.sent = s.sent /\ u.wire = s.wire /\ u.pending = s.pending /\ u.passed = s.passed
        /\ u.known = s.known /\ u.linkedAs = s.actual
    <3> HIDE DEF u
    <3> QED
      BY <1>0, <2>1 DEF Session
  <2> HIDE DEF u
  <2>3. SessionInv(u)
    BY <1>2, <2>2, SameSession
  <2> QED
    BY <1>2, <2>3 DEF u
<1> QED
  BY <1>1, <1>2

-----------------------------------------------------------------------------
(* The listener as a whole.                                                *)

\* What an operation on the session of c leaves of the others.
LEMMA OthersStay ==
    ASSUME BZInv, NEW c \in Clients, NEW w, SessionInv(w), Becomes(c, w)
    PROVE  /\ client' \in [Clients -> Session] /\ client'[c] = w
           /\ \A d \in Clients \ {c} : client'[d] = client[d]
           /\ \A d \in Clients : SessionInv(client'[d]) /\ Len(client'[d].pending) <= MaxPending
<1>1. client \in [Clients -> Session] /\ w \in Session
  BY DEF BZInv, BZTypes, SessionInv
<1>2. /\ client' \in [Clients -> Session] /\ client'[c] = w
      /\ \A d \in Clients \ {c} : client'[d] = client[d]
  BY <1>1 DEF Becomes
<1>3. \A d \in Clients : SessionInv(client'[d])
  BY <1>2 DEF BZInv
<1>4. \A d \in Clients : Len(client'[d].pending) <= MaxPending
  BY <1>3 DEF SessionInv, Size
<1> QED
  BY <1>2, <1>3, <1>4

\* The sessions are finitely many.
LEMMA LiveFinite ==
    /\ IsFiniteSet(LiveClients) /\ Cardinality(LiveClients) \in Nat
<1>1. LiveClients \subseteq Clients
  BY DEF LiveClients
<1>2. IsFiniteSet(LiveClients)
  BY <1>1, BZAssumption, FS_Subset
<1> QED
  BY <1>2, FS_CardinalityType

\* The number of sessions stays when their IDs do.
LEMMA LiveSame ==
    ASSUME \A d \in Clients : client'[d].virtual = client[d].virtual
    PROVE  LiveClients' = LiveClients
BY DEF LiveClients, Live

\* What the invariant says of the listener, but for the links and the connections.
LEMMA TypesFrom ==
    ASSUME client' \in [Clients -> Session],
           clients' = Cardinality(LiveClients'), clients' <= MaxSessions,
           datagrams' \subseteq Clients \X Ids,
           backends' \subseteq Ids, strays' \subseteq Ids, adrift' \in Nat,
           \A d \in Clients : Len(client'[d].pending) <= MaxPending
    PROVE  BZTypes'
BY DEF BZTypes, LiveClients, Live

\* An operation that leaves the session its ID, its link and its connection.
LEMMA QuietStep ==
    ASSUME BZInv, NEW c \in Clients, NEW w, SessionInv(w), Becomes(c, w),
           w.virtual = client[c].virtual, w.udp = client[c].udp, w.actual = client[c].actual,
           clients' = clients, datagrams' = datagrams, backends' = backends, strays' = strays,
           adrift' = adrift
    PROVE  BZInv'
<1>1. /\ client' \in [Clients -> Session] /\ client'[c] = w
      /\ \A d \in Clients \ {c} : client'[d] = client[d]
      /\ \A d \in Clients : SessionInv(client'[d]) /\ Len(client'[d].pending) <= MaxPending
  BY OthersStay
<1>2. \A d \in Clients : /\ client'[d].virtual = client[d].virtual /\ client'[d].udp = client[d].udp
                         /\ client'[d].actual = client[d].actual
  BY <1>1
<1>3. BZTypes'
  <2>1. clients' = Cardinality(LiveClients') /\ clients' <= MaxSessions
    BY <1>2, LiveSame DEF BZInv, BZTypes, LiveClients
  <2> QED
    BY <1>1, <2>1, TypesFrom DEF BZInv, BZTypes
<1>4. LinksAreOwn'
  BY <1>2 DEF BZInv, LinksAreOwn
<1>5. {client'[d].actual : d \in {e \in Clients : client'[e].actual # None}}
        = {client[d].actual : d \in {e \in Clients : client[e].actual # None}}
  BY <1>2
<1>6. NoLeakedBackend'
  BY <1>5 DEF BZInv, NoLeakedBackend
<1>7. Apart'
  BY <1>2 DEF BZInv, Apart
<1> QED
  BY <1>1, <1>3, <1>4, <1>6, <1>7 DEF BZInv

\* A player that comes in is one session more, and has the first free ID.
LEMMA AcceptsStep == ASSUME BZInv, NEW c \in Clients, Accepts(c) PROVE BZInv'
<1> DEFINE v == CHOOSE k \in FreeSlots : \A j \in FreeSlots : k <= j
           w == [NoSession EXCEPT !.st = "greets", !.virtual = v]
<1>1. v \in Ids
  BY FirstSlot DEF Accepts, FreeSlots
<1> HIDE DEF v
<1>2. /\ client[c].st = "none" /\ clients < MaxSessions /\ Becomes(c, w) /\ clients' = clients + 1
      /\ datagrams' = datagrams /\ backends' = backends /\ strays' = strays /\ adrift' = adrift
  BY DEF Accepts, v
<1>3. NoSession \in Session
  BY NoSessionIs DEF SessionInv
<1>4. w \in Session
  BY <1>1, <1>3 DEF Session
<1>6. /\ w.st = "greets" /\ w.virtual = v /\ w.connector = "none" /\ w.actual = None /\ w.sent = 0
      /\ w.wire = << >> /\ w.pending = << >> /\ w.passed = << >> /\ w.known = {}
      /\ w.linkedAs = None /\ w.udp = None
  BY DEF NoSession
<1> HIDE DEF w
<1>5. SessionInv(w)
  BY <1>1, <1>4, <1>6, EmptyIs
<1>7. /\ client' \in [Clients -> Session] /\ client'[c] = w
      /\ \A d \in Clients \ {c} : client'[d] = client[d]
      /\ \A d \in Clients : SessionInv(client'[d]) /\ Len(client'[d].pending) <= MaxPending
  BY <1>2, <1>5, OthersStay
<1>8. client[c].virtual = None /\ client[c].udp = None /\ client[c].actual = None
  BY <1>2 DEF BZInv, SessionInv, Shape, NoSession
<1>9. BZTypes'
  <2>1. LiveClients' = LiveClients \cup {c} /\ c \notin LiveClients
    BY <1>1, <1>6, <1>7, <1>8, BZAssumption DEF LiveClients, Live
  <2>2. Cardinality(LiveClients') = Cardinality(LiveClients) + 1
    BY <2>1, LiveFinite, FS_AddElement
  <2>3. clients = Cardinality(LiveClients)
    BY DEF BZInv, BZTypes, LiveClients
  <2>4. clients' = Cardinality(LiveClients') /\ clients' <= MaxSessions
    BY <1>2, <2>2, <2>3, LiveFinite, BZAssumption
  <2> QED
    BY <1>2, <1>7, <2>4, TypesFrom DEF BZInv, BZTypes
<1>10. \A d \in Clients : client'[d].udp = client[d].udp /\ client'[d].actual = client[d].actual
  BY <1>6, <1>7, <1>8
<1>11. LinksAreOwn'
  BY <1>10 DEF BZInv, LinksAreOwn
<1>12. {client'[d].actual : d \in {e \in Clients : client'[e].actual # None}}
        = {client[d].actual : d \in {e \in Clients : client[e].actual # None}}
  BY <1>10
<1>13. NoLeakedBackend' /\ Apart'
  BY <1>2, <1>10, <1>12 DEF BZInv, NoLeakedBackend, Apart
<1> QED
  BY <1>7, <1>9, <1>11, <1>13 DEF BZInv

\* The game takes a player under an ID none of its connections has.
LEMMA HasStep ==
    ASSUME BZInv, NEW c \in Clients, client[c].connector = "asks", NEW id \in Ids \ backends,
           Becomes(c, [client[c] EXCEPT !.connector = "has", !.actual = id]),
           backends' = backends \cup {id},
           clients' = clients, datagrams' = datagrams, strays' = strays, adrift' = adrift
    PROVE  BZInv'
<1> DEFINE w == [client[c] EXCEPT !.connector = "has", !.actual = id]
<1>0. client[c] \in Session /\ SessionInv(client[c]) /\ client[c].actual = None
  BY DEF BZInv, SessionInv, Shape
<1>1. SessionInv(w)
  BY <1>0, HasKeeps
<1>2. w.virtual = client[c].virtual /\ w.udp = client[c].udp /\ w.actual = id
  BY <1>0 DEF Session
<1>3. Becomes(c, w)
  OBVIOUS
<1> HIDE DEF w
<1>4. /\ client' \in [Clients -> Session] /\ client'[c] = w
      /\ \A d \in Clients \ {c} : client'[d] = client[d]
      /\ \A d \in Clients : SessionInv(client'[d]) /\ Len(client'[d].pending) <= MaxPending
  BY <1>1, <1>3, OthersStay
<1>5. \A d \in Clients : client'[d].virtual = client[d].virtual /\ client'[d].udp = client[d].udp
  BY <1>2, <1>4
<1>6. BZTypes'
  <2>1. clients' = Cardinality(LiveClients') /\ clients' <= MaxSessions
    BY <1>5, LiveSame DEF BZInv, BZTypes, LiveClients
  <2> QED
    BY <1>4, <2>1, TypesFrom DEF BZInv, BZTypes
<1>7. LinksAreOwn'
  BY <1>5 DEF BZInv, LinksAreOwn
<1>8. \A d \in Clients : client[d].actual # None => client[d].actual \in backends
  BY DEF BZInv, NoLeakedBackend
<1>9. strays \subseteq backends /\ id # None
  BY BZAssumption DEF BZInv, NoLeakedBackend
<1>10. Apart'
  BY <1>2, <1>4, <1>8, <1>9 DEF BZInv, Apart
<1>11. NoLeakedBackend'
  <2> DEFINE A == {client[d].actual : d \in {e \in Clients : client[e].actual # None}}
             B == {client'[d].actual : d \in {e \in Clients : client'[e].actual # None}}
  <2>1. B = A \cup {id}
    BY <1>0, <1>2, <1>4, <1>9
  <2>2. backends = strays \cup A
    BY DEF BZInv, NoLeakedBackend
  <2>3. backends' = strays' \cup B
    BY <2>1, <2>2
  <2> QED
    BY <2>3 DEF NoLeakedBackend
<1> QED
  BY <1>4, <1>6, <1>7, <1>10, <1>11 DEF BZInv

\* A link is bound to a session on its own machine, when no other session has it.
LEMMA LinksStep == ASSUME BZInv, NEW from \in Clients, NEW slot \in Ids, Links(from, slot) PROVE BZInv'
<1>0. PICK c \in Clients : /\ MayLink(c, from)
                           /\ Becomes(c, [client[c] EXCEPT !.udp = from, !.input = TRUE])
  BY DEF Links
<1> DEFINE w == [client[c] EXCEPT !.udp = from, !.input = TRUE]
<1>1. client[c] \in Session /\ SessionInv(client[c]) /\ client[c].accepted
  BY <1>0 DEF BZInv, SessionInv, MayLink
<1>2. SessionInv(w)
  BY <1>1, LinksKeeps
<1>3. w.virtual = client[c].virtual /\ w.udp = from /\ w.actual = client[c].actual
  BY <1>1 DEF Session
<1>4. Becomes(c, w)
  BY <1>0
<1> HIDE DEF w
<1>5. /\ client' \in [Clients -> Session] /\ client'[c] = w
      /\ \A d \in Clients \ {c} : client'[d] = client[d]
      /\ \A d \in Clients : SessionInv(client'[d]) /\ Len(client'[d].pending) <= MaxPending
  BY <1>2, <1>4, OthersStay
<1>6. \A d \in Clients : client'[d].virtual = client[d].virtual /\ client'[d].actual = client[d].actual
  BY <1>3, <1>5
<1>7. clients' = clients /\ datagrams' = datagrams /\ backends' = backends /\ strays' = strays /\ adrift' = adrift
  BY DEF Links
<1>8. BZTypes'
  <2>1. clients' = Cardinality(LiveClients') /\ clients' <= MaxSessions
    BY <1>6, <1>7, LiveSame DEF BZInv, BZTypes, LiveClients
  <2> QED
    BY <1>5, <1>7, <2>1, TypesFrom DEF BZInv, BZTypes
<1>9. LinksAreOwn'
  <2> SUFFICES ASSUME NEW d \in Clients, NEW e \in Clients, client'[d].udp # None
               PROVE  /\ Ip[client'[d].udp] = Ip[d]
                      /\ client'[d].udp = client'[e].udp => d = e
    BY DEF LinksAreOwn
  <2>1. Ip[c] = Ip[from] /\ \A other \in Clients \ {c} : client[other].udp # from
    BY <1>0 DEF MayLink
  <2>2. \A other \in Clients \ {c} : client'[other].udp = client[other].udp
    BY <1>5
  <2>3. client'[c].udp = from
    BY <1>3, <1>5
  <2>4. CASE d = c
    BY <2>1, <2>2, <2>3, <2>4
  <2>5. CASE d # c
    BY <2>1, <2>2, <2>3, <2>5 DEF BZInv, LinksAreOwn
  <2> QED
    BY <2>4, <2>5
<1>10. {client'[d].actual : d \in {e \in Clients : client'[e].actual # None}}
        = {client[d].actual : d \in {e \in Clients : client[e].actual # None}}
  BY <1>6
<1>11. NoLeakedBackend' /\ Apart'
  BY <1>6, <1>7, <1>10 DEF BZInv, NoLeakedBackend, Apart
<1> QED
  BY <1>5, <1>8, <1>9, <1>11 DEF BZInv

\* A session that ends closes its connection or leaves it to the goroutine that has it.
LEMMA LeavesStep ==
    ASSUME BZInv, NEW c \in Clients, client[c].st \in {"greets", "holds", "relays"}, Leaves(c)
    PROVE  BZInv'
<1> DEFINE s == client[c]
           w == [NoSession EXCEPT !.st = "gone", !.virtual = client[c].virtual,
                      !.accepted = client[c].accepted, !.udp = client[c].udp]
<1>0. /\ s \in Session /\ s.virtual \in Ids /\ (s.actual # None <=> s.connector \in {"has", "given"})
      /\ s.accepted \in BOOLEAN /\ s.udp \in Clients \cup {None}
  BY DEF BZInv, SessionInv, Shape, Session
<1>1. NoSession \in Session
  BY NoSessionIs DEF SessionInv
<1>2. w \in Session
  BY <1>0, <1>1 DEF Session
<1>3. /\ w.st = "gone" /\ w.virtual = s.virtual /\ w.connector = "none" /\ w.actual = None /\ w.sent = 0
      /\ w.wire = << >> /\ w.pending = << >> /\ w.passed = << >> /\ w.known = {}
      /\ w.linkedAs = None /\ w.udp = s.udp
  BY DEF NoSession
<1>4. Becomes(c, w)
  BY DEF Leaves
<1> HIDE DEF w
<1>5. SessionInv(w)
  BY <1>0, <1>2, <1>3, EmptyIs
<1>6. /\ client' \in [Clients -> Session] /\ client'[c] = w
      /\ \A d \in Clients \ {c} : client'[d] = client[d]
      /\ \A d \in Clients : SessionInv(client'[d]) /\ Len(client'[d].pending) <= MaxPending
  BY <1>4, <1>5, OthersStay
<1>7. \A d \in Clients : client'[d].virtual = client[d].virtual /\ client'[d].udp = client[d].udp
  BY <1>3, <1>6
<1>8. /\ clients' = clients /\ datagrams' = datagrams
      /\ backends' = IF s.connector = "given" THEN backends \ {s.actual} ELSE backends
      /\ strays' = IF s.connector = "has" THEN strays \cup {s.actual} ELSE strays
      /\ adrift' = IF s.connector = "asks" THEN adrift + 1 ELSE adrift
  BY DEF Leaves
<1>9. /\ s.actual # None => s.actual \in backends
      /\ backends \subseteq Ids /\ strays \subseteq Ids /\ adrift \in Nat
  BY DEF BZInv, BZTypes, NoLeakedBackend
<1>10. BZTypes'
  <2>1. clients' = Cardinality(LiveClients') /\ clients' <= MaxSessions
    BY <1>7, <1>8, LiveSame DEF BZInv, BZTypes, LiveClients
  <2>2. backends' \subseteq Ids /\ strays' \subseteq Ids /\ adrift' \in Nat
    BY <1>0, <1>8, <1>9
  <2> QED
    BY <1>6, <1>8, <2>1, <2>2, TypesFrom DEF BZInv, BZTypes
<1>11. LinksAreOwn'
  BY <1>7 DEF BZInv, LinksAreOwn
<1> DEFINE A == {client[d].actual : d \in {e \in Clients \ {c} : client[e].actual # None}}
<1>12. {client'[d].actual : d \in {e \in Clients : client'[e].actual # None}} = A
  BY <1>3, <1>6
<1>13. backends = strays \cup A \cup (IF s.actual = None THEN {} ELSE {s.actual})
  <2>1. {client[d].actual : d \in {e \in Clients : client[e].actual # None}}
          = A \cup (IF s.actual = None THEN {} ELSE {s.actual})
    OBVIOUS
  <2> QED
    BY <2>1 DEF BZInv, NoLeakedBackend
<1>14. s.actual # None => s.actual \notin strays /\ s.actual \notin A
  BY DEF BZInv, Apart
<1>15. backends' = strays' \cup A
  <2> HIDE DEF A
  <2>1. CASE s.connector = "given"
    BY <1>0, <1>8, <1>13, <1>14, <2>1
  <2>2. CASE s.connector = "has"
    BY <1>0, <1>8, <1>13, <2>2
  <2>3. CASE s.connector \notin {"has", "given"}
    BY <1>0, <1>8, <1>13, <2>3
  <2> QED
    BY <2>1, <2>2, <2>3
<1>16. NoLeakedBackend'
  BY <1>12, <1>15 DEF NoLeakedBackend
<1>17. Apart'
  <2>1. \A d \in Clients \ {c} : client[d].actual = s.actual => s.actual = None
    BY DEF BZInv, Apart
  <2>2. None \notin strays
    BY <1>9, BZAssumption
  <2>3. \A d \in Clients : client'[d].actual \notin strays'
    BY <1>0, <1>3, <1>6, <1>8, <2>1, <2>2, BZAssumption DEF BZInv, Apart
  <2>4. \A d, e \in Clients : client'[d].actual # None /\ client'[d].actual = client'[e].actual => d = e
    BY <1>3, <1>6 DEF BZInv, Apart
  <2> QED
    BY <2>3, <2>4 DEF Apart
<1> QED
  BY <1>6, <1>10, <1>11, <1>16, <1>17 DEF BZInv

\* A session that has ended gives up its slot and is counted out.
LEMMA RemovesStep == ASSUME BZInv, NEW c \in Clients, Removes(c) PROVE BZInv'
<1>1. /\ client[c].st = "gone" /\ Becomes(c, NoSession) /\ clients' = clients - 1
      /\ datagrams' = datagrams /\ backends' = backends /\ strays' = strays /\ adrift' = adrift
  BY DEF Removes
<1>2. client[c].virtual # None /\ client[c].actual = None
  BY <1>1 DEF BZInv, SessionInv, Shape
<1>3. NoSession.virtual = None /\ NoSession.udp = None /\ NoSession.actual = None
  BY DEF NoSession
<1>4. /\ client' \in [Clients -> Session] /\ client'[c] = NoSession
      /\ \A d \in Clients \ {c} : client'[d] = client[d]
      /\ \A d \in Clients : SessionInv(client'[d]) /\ Len(client'[d].pending) <= MaxPending
  BY <1>1, NoSessionIs, OthersStay
<1>5. BZTypes'
  <2>1. LiveClients' = LiveClients \ {c} /\ c \in LiveClients
    BY <1>2, <1>3, <1>4 DEF LiveClients, Live
  <2>2. Cardinality(LiveClients') = Cardinality(LiveClients) - 1
    BY <2>1, LiveFinite, FS_RemoveElement
  <2>3. clients = Cardinality(LiveClients) /\ clients <= MaxSessions
    BY DEF BZInv, BZTypes, LiveClients
  <2>4. clients' = Cardinality(LiveClients') /\ clients' <= MaxSessions
    BY <1>1, <2>2, <2>3, LiveFinite, BZAssumption
  <2> QED
    BY <1>1, <1>4, <2>4, TypesFrom DEF BZInv, BZTypes
<1>6. LinksAreOwn'
  BY <1>3, <1>4 DEF BZInv, LinksAreOwn
<1>7. \A d \in Clients : client'[d].actual = client[d].actual
  BY <1>2, <1>3, <1>4
<1>8. {client'[d].actual : d \in {e \in Clients : client'[e].actual # None}}
        = {client[d].actual : d \in {e \in Clients : client[e].actual # None}}
  BY <1>7
<1>9. NoLeakedBackend' /\ Apart'
  BY <1>1, <1>7, <1>8 DEF BZInv, NoLeakedBackend, Apart
<1> QED
  BY <1>4, <1>5, <1>6, <1>9 DEF BZInv

\* The steps in which no session changes.
LEMMA BackendStep ==
    ASSUME BZInv, client' = client, clients' = clients, datagrams' \subseteq Clients \X Ids,
           backends' \subseteq Ids, adrift' \in Nat, strays' \subseteq Ids,
           \A d \in Clients : client[d].actual \notin strays',
           backends' = strays' \cup {client[d].actual : d \in {e \in Clients : client[e].actual # None}}
    PROVE  BZInv'
<1>1. BZTypes'
  <2>1. LiveClients' = LiveClients
    BY LiveSame
  <2> QED
    BY <2>1, TypesFrom DEF BZInv, BZTypes, LiveClients
<1>2. LinksAreOwn'
  BY DEF BZInv, LinksAreOwn
<1>3. NoLeakedBackend'
  BY DEF NoLeakedBackend
<1>4. Apart'
  BY DEF BZInv, Apart
<1> QED
  BY <1>1, <1>2, <1>3, <1>4 DEF BZInv

LEMMA BackendSteps ==
    ASSUME BZInv, GivesUp \/ \E id \in Ids : ConnectsLate(id) \/ StrayEnds(id)
    PROVE  BZInv'
<1> DEFINE A == {client[d].actual : d \in {e \in Clients : client[e].actual # None}}
<1>0. /\ backends = strays \cup A /\ backends \subseteq Ids /\ strays \subseteq Ids /\ adrift \in Nat
      /\ datagrams \subseteq Clients \X Ids /\ \A d \in Clients : client[d].actual \notin strays
  BY DEF BZInv, BZTypes, NoLeakedBackend, Apart
<1>00. \A d \in Clients : client[d].actual # None => client[d].actual \in A
  OBVIOUS
<1>000. \A a \in A : a \notin strays
  BY <1>0
<1> HIDE DEF A
<1>1. CASE GivesUp
  <2>1. backends' = strays' \cup A /\ adrift' \in Nat
    BY <1>0, <1>1 DEF GivesUp
  <2> QED
    BY <1>0, <1>1, <2>1, BackendStep DEF GivesUp, A
<1>2. ASSUME NEW id \in Ids, ConnectsLate(id) PROVE BZInv'
  <2>1. /\ backends' = strays' \cup A /\ adrift' \in Nat /\ backends' \subseteq Ids /\ strays' \subseteq Ids
    BY <1>0, <1>2 DEF ConnectsLate
  <2>2. \A d \in Clients : client[d].actual \notin strays'
    BY <1>0, <1>00, <1>2, BZAssumption DEF ConnectsLate
  <2> QED
    BY <1>0, <1>2, <2>1, <2>2, BackendStep DEF ConnectsLate, A
<1>3. ASSUME NEW id \in Ids, StrayEnds(id) PROVE BZInv'
  <2>1. /\ backends' = strays' \cup A /\ backends' \subseteq Ids /\ strays' \subseteq strays
    BY <1>0, <1>000, <1>3 DEF StrayEnds
  <2> QED
    BY <1>0, <1>3, <2>1, BackendStep DEF StrayEnds, A
<1> QED
  BY <1>1, <1>2, <1>3

\* A player asks for a link.
LEMMA AsksLinkStep == ASSUME BZInv, NEW c \in Clients, AsksLink(c) PROVE BZInv'
<1>1. client[c].virtual \in Ids
  <2>1. client[c] \in Session /\ client[c].accepted /\ Shape(client[c])
    BY DEF BZInv, SessionInv, AsksLink
  <2>2. client[c].st # "none"
    BY <2>1 DEF Shape, NoSession
  <2> QED
    BY <2>1, <2>2 DEF Shape, Session
<1>2. datagrams' \subseteq Clients \X Ids
  BY <1>1 DEF AsksLink, BZInv, BZTypes
<1> QED
  BY <1>2, BackendStep DEF AsksLink, BZInv, BZTypes, NoLeakedBackend, Apart

\* The operations on one session, one by one.
LEMMA SessionSteps == ASSUME BZInv, NEW c \in Clients, Step(c) PROVE BZInv'
<1> DEFINE s == client[c]
<1>0. s \in Session /\ SessionInv(s)
  BY DEF BZInv, SessionInv
<1>1. CASE Accepts(c)
  BY <1>1, AcceptsStep
<1>2. CASE Greets(c)
  <2> DEFINE w == [s EXCEPT !.st = "holds", !.accepted = TRUE, !.connector = "asks"]
  <2>1. SessionInv(w)
    BY <1>0, <1>2, GreetsKeeps DEF Greets
  <2>2. w.virtual = s.virtual /\ w.udp = s.udp /\ w.actual = s.actual
    BY <1>0 DEF Session
  <2>3. /\ Becomes(c, w) /\ clients' = clients /\ datagrams' = datagrams /\ backends' = backends
        /\ strays' = strays /\ adrift' = adrift
    BY <1>2 DEF Greets
  <2> HIDE DEF w
  <2> QED
    BY <2>1, <2>2, <2>3, QuietStep
<1>3. CASE Sends(c)
  <2>1. PICK m \in {<<s.virtual, None>>} \cup s.known :
          Becomes(c, [s EXCEPT !.sent = @ + 1, !.wire = Append(@, <<m[1], m[2], s.sent + 1>>)])
    BY <1>3 DEF Sends
  <2> DEFINE w == [s EXCEPT !.sent = @ + 1, !.wire = Append(@, <<m[1], m[2], s.sent + 1>>)]
  <2>2. SessionInv(w)
    BY <1>0, <1>3, SendsKeeps DEF Sends
  <2>3. w.virtual = s.virtual /\ w.udp = s.udp /\ w.actual = s.actual
    BY <1>0 DEF Session
  <2>4. /\ Becomes(c, w) /\ clients' = clients /\ datagrams' = datagrams /\ backends' = backends
        /\ strays' = strays /\ adrift' = adrift
    BY <1>3, <2>1 DEF Sends
  <2> HIDE DEF w
  <2> QED
    BY <2>2, <2>3, <2>4, QuietStep
<1>4. CASE Holds(c)
  <2> DEFINE w == [s EXCEPT !.wire = Tail(@), !.pending = Append(@, Head(s.wire))]
  <2>1. SessionInv(w)
    BY <1>0, <1>4, HoldsKeeps DEF Holds
  <2>2. w.virtual = s.virtual /\ w.udp = s.udp /\ w.actual = s.actual
    BY <1>0 DEF Session
  <2>3. /\ Becomes(c, w) /\ clients' = clients /\ datagrams' = datagrams /\ backends' = backends
        /\ strays' = strays /\ adrift' = adrift
    BY <1>4 DEF Holds
  <2> HIDE DEF w
  <2> QED
    BY <2>1, <2>2, <2>3, QuietStep
<1>5. CASE Connected(c)
  <2>0. s.connector = "asks" /\ clients' = clients /\ datagrams' = datagrams /\ strays' = strays /\ adrift' = adrift
    BY <1>5 DEF Connected
  <2>1. ASSUME NEW id \in Ids \ backends,
               Becomes(c, [client[c] EXCEPT !.connector = "has", !.actual = id]),
               backends' = backends \cup {id}
        PROVE  BZInv'
    BY <2>0, <2>1, HasStep
  <2>2. ASSUME Becomes(c, [client[c] EXCEPT !.connector = "failed"]), backends' = backends
        PROVE  BZInv'
    <3> DEFINE w == [client[c] EXCEPT !.connector = "failed"]
    <3>1. SessionInv(w)
      BY <1>0, <2>0, FailsKeeps
    <3>2. w.virtual = s.virtual /\ w.udp = s.udp /\ w.actual = s.actual
      BY <1>0 DEF Session
    <3>3. Becomes(c, w)
      BY <2>2
    <3> HIDE DEF w
    <3> QED
      BY <2>0, <2>2, <3>1, <3>2, <3>3, QuietStep
  <2> QED
    BY <1>5, <2>1, <2>2 DEF Connected
<1>6. CASE TakesBackend(c)
  <2> DEFINE w == [s EXCEPT !.st = "relays", !.connector = "given",
                       !.passed = Replayed(s), !.pending = << >>, !.udpRequest = FALSE,
                       !.linkedAs = IF s.udpRequest THEN s.actual ELSE None]
  <2>1. SessionInv(w)
    BY <1>0, <1>6, TakesBackendKeeps DEF TakesBackend
  <2>2. w.virtual = s.virtual /\ w.udp = s.udp /\ w.actual = s.actual
    BY <1>0 DEF Session
  <2>3. /\ Becomes(c, w) /\ clients' = clients /\ datagrams' = datagrams /\ backends' = backends
        /\ strays' = strays /\ adrift' = adrift
    BY <1>6 DEF TakesBackend
  <2> HIDE DEF w
  <2> QED
    BY <2>1, <2>2, <2>3, QuietStep
<1>7. CASE Passes(c)
  <2> DEFINE w == [s EXCEPT !.wire = Tail(@), !.passed = Append(@, Translated(s, Head(s.wire)))]
  <2>1. SessionInv(w)
    BY <1>0, <1>7, PassesKeeps DEF Passes
  <2>2. w.virtual = s.virtual /\ w.udp = s.udp /\ w.actual = s.actual
    BY <1>0 DEF Session
  <2>3. /\ Becomes(c, w) /\ clients' = clients /\ datagrams' = datagrams /\ backends' = backends
        /\ strays' = strays /\ adrift' = adrift
    BY <1>7 DEF Passes
  <2> HIDE DEF w
  <2> QED
    BY <2>1, <2>2, <2>3, QuietStep
<1>8. CASE AsksLink(c)
  BY <1>8, AsksLinkStep
<1>9. CASE TakesInput(c)
  <2> DEFINE w == IF s.st = "holds"
                  THEN [s EXCEPT !.input = FALSE, !.udpRequest = TRUE]
                  ELSE [s EXCEPT !.input = FALSE, !.linkedAs = Swap(s.virtual, s.actual, s.virtual)]
  <2>1. SessionInv(w)
    BY <1>0, <1>9, TakesInputKeeps DEF TakesInput
  <2>2. w.virtual = s.virtual /\ w.udp = s.udp /\ w.actual = s.actual
    BY <1>0 DEF Session
  <2>3. /\ Becomes(c, w) /\ clients' = clients /\ datagrams' = datagrams /\ backends' = backends
        /\ strays' = strays /\ adrift' = adrift
    BY <1>9 DEF TakesInput
  <2> HIDE DEF w
  <2> QED
    BY <2>1, <2>2, <2>3, QuietStep
<1>10. CASE Ends(c)
  BY <1>10, LeavesStep DEF Ends
<1>11. CASE Refuses(c)
  BY <1>11, LeavesStep DEF Refuses
<1>12. CASE Removes(c)
  BY <1>12, RemovesStep
<1>13. ASSUME NEW id \in Ids, Mentions(c, id) PROVE BZInv'
  <2> DEFINE w == [s EXCEPT !.known = {<<Swap(s.virtual, s.actual, id), id>>}]
  <2>1. SessionInv(w)
    BY <1>0, <1>13, MentionsKeeps DEF Mentions
  <2>2. w.virtual = s.virtual /\ w.udp = s.udp /\ w.actual = s.actual
    BY <1>0 DEF Session
  <2>3. /\ Becomes(c, w) /\ clients' = clients /\ datagrams' = datagrams /\ backends' = backends
        /\ strays' = strays /\ adrift' = adrift
    BY <1>13 DEF Mentions
  <2> HIDE DEF w
  <2> QED
    BY <2>1, <2>2, <2>3, QuietStep
<1>14. ASSUME NEW id \in Ids, Links(c, id) PROVE BZInv'
  BY <1>14, LinksStep
<1> QED
  BY <1>1, <1>2, <1>3, <1>4, <1>5, <1>6, <1>7, <1>8, <1>9, <1>10, <1>11, <1>12, <1>13, <1>14 DEF Step

-----------------------------------------------------------------------------
(* The theorems.                                                           *)

\* The invariant holds of a listener without sessions, and every operation keeps it.
THEOREM BZFlagInvariance == BZSpec => []BZInv
<1>1. BZInit => BZInv
  <2> SUFFICES ASSUME BZInit PROVE BZInv
    OBVIOUS
  <2>1. /\ client = [c \in Clients |-> NoSession] /\ clients = 0 /\ datagrams = {} /\ backends = {}
        /\ strays = {} /\ adrift = 0
    BY DEF BZInit
  <2>2. /\ NoSession \in Session /\ NoSession.virtual = None /\ NoSession.udp = None
        /\ NoSession.actual = None /\ Len(NoSession.pending) <= MaxPending
    BY NoSessionIs DEF SessionInv, NoSession, Size
  <2>3. {c \in Clients : Live(c)} = {}
    BY <2>1, <2>2 DEF Live
  <2>4. BZTypes
    BY <2>1, <2>2, <2>3, FS_EmptySet, BZAssumption DEF BZTypes
  <2>5. LinksAreOwn /\ NoLeakedBackend /\ Apart
    BY <2>1, <2>2 DEF LinksAreOwn, NoLeakedBackend, Apart
  <2> QED
    BY <2>1, <2>4, <2>5, NoSessionIs DEF BZInv
<1>2. BZInv /\ [BZNext]_bzVars => BZInv'
  <2> SUFFICES ASSUME BZInv, [BZNext]_bzVars PROVE BZInv'
    OBVIOUS
  <2>1. CASE \E c \in Clients : Step(c)
    BY <2>1, SessionSteps
  <2>2. CASE GivesUp \/ \E id \in Ids : ConnectsLate(id) \/ StrayEnds(id)
    BY <2>2, BackendSteps
  <2>3. CASE UNCHANGED bzVars
    BY <2>3, BackendStep DEF bzVars, BZInv, BZTypes, NoLeakedBackend, Apart
  <2> QED
    BY <2>1, <2>2, <2>3 DEF BZNext
<1> QED
  BY <1>1, <1>2, PTL DEF BZSpec

\* Every variable holds a value of its kind, no session holds more messages than it may,
\* and the sessions counted against the gateway's limit are those there are.
THEOREM BZFlagTypes == BZSpec => []BZTypes
<1>1. BZInv => BZTypes
  BY DEF BZInv
<1> QED
  BY <1>1, BZFlagInvariance, PTL

\* What a player sends reaches the game in its order, none lost or repeated, and about
\* whom it was meant, whichever IDs the game gives (bzTranslate, bzflagSession).
THEOREM BZFlagMeaning == BZSpec => []MessagesKeepMeaning
<1>1. BZInv => MessagesKeepMeaning
  <2> SUFFICES ASSUME BZInv, NEW c \in Clients
               PROVE  /\ \A k \in DOMAIN client[c].passed :
                           client[c].passed[k][1] = IF client[c].passed[k][2] = None
                                                    THEN client[c].actual ELSE client[c].passed[k][2]
                      /\ client[c].linkedAs \in {None, client[c].actual}
                      /\ client[c].st \in {"holds", "relays"} =>
                           LET all == client[c].passed \o client[c].pending \o client[c].wire
                           IN  [k \in DOMAIN all |-> all[k][3]] = [k \in 1..client[c].sent |-> k]
    BY DEF MessagesKeepMeaning, NamesKeepMeaning, NothingIsLost
  <2> DEFINE p == client[c].passed
             q == client[c].pending
             r == client[c].wire
             n == client[c].sent
             pq == p \o q
             all == pq \o r
  <2>1. p \in Seq(Message) /\ q \in Seq(Message) /\ r \in Seq(Message) /\ n \in Nat
    BY DEF BZInv, SessionInv, Session
  <2>2. \A k \in DOMAIN p : p[k][1] = IF p[k][2] = None THEN client[c].actual ELSE p[k][2]
    BY <2>1, Messages DEF BZInv, SessionInv, Meanings, Understood
  <2>3. client[c].linkedAs \in {None, client[c].actual}
    BY DEF BZInv, SessionInv, Meanings
  <2>4. /\ n = Size(p) + Size(q) + Size(r)
        /\ \A k \in 1..Size(p) : p[k][3] = k
        /\ \A k \in 1..Size(q) : q[k][3] = Size(p) + k
        /\ \A k \in 1..Size(r) : r[k][3] = Size(p) + Size(q) + k
    BY DEF BZInv, SessionInv, Ordered
  <2>5. Size(p) \in Nat /\ Size(q) \in Nat /\ Size(r) \in Nat
    BY <2>1, Messages
  <2> HIDE DEF p, q, r, n
  <2>6. /\ pq \in Seq(Message) /\ Size(pq) = Size(p) + Size(q)
        /\ \A k \in 1..(Size(p) + Size(q)) : pq[k] = IF k <= Size(p) THEN p[k] ELSE q[k - Size(p)]
    BY <2>1, ConcatProperties DEF Size
  <2>7. \A k \in 1..(Size(p) + Size(q)) : pq[k][3] = k
    <3> SUFFICES ASSUME NEW k \in 1..(Size(p) + Size(q)) PROVE pq[k][3] = k
      OBVIOUS
    <3> HIDE DEF pq
    <3>1. CASE k <= Size(p)
      BY <2>4, <2>5, <2>6, <3>1
    <3>2. CASE ~(k <= Size(p))
      <4>1. k - Size(p) \in 1..Size(q)
        BY <2>5, <3>2
      <4>2. pq[k] = q[k - Size(p)] /\ q[k - Size(p)][3] = Size(p) + (k - Size(p))
        BY <2>4, <2>6, <3>2, <4>1
      <4> QED
        BY <2>5, <4>2
    <3> QED
      BY <3>1, <3>2
  <2> HIDE DEF pq
  <2>8. /\ all \in Seq(Message) /\ Size(all) = Size(pq) + Size(r)
        /\ \A k \in 1..(Size(pq) + Size(r)) : all[k] = IF k <= Size(pq) THEN pq[k] ELSE r[k - Size(pq)]
    <3>1. pq \in Seq(Message) /\ r \in Seq(Message)
      BY <2>1, <2>6
    <3> QED
      BY <3>1, ConcatProperties DEF Size
  <2> HIDE DEF all
  <2>9. \A k \in 1..n : all[k][3] = k
    <3> SUFFICES ASSUME NEW k \in 1..n PROVE all[k][3] = k
      OBVIOUS
    <3>0. k \in 1..(Size(pq) + Size(r)) /\ Size(pq) \in Nat
      BY <2>4, <2>5, <2>6
    <3>1. CASE k <= Size(pq)
      BY <2>6, <2>7, <2>8, <3>0, <3>1
    <3>2. CASE ~(k <= Size(pq))
      <4>1. k - Size(pq) \in 1..Size(r)
        BY <2>5, <3>0, <3>2
      <4>2. all[k] = r[k - Size(pq)] /\ r[k - Size(pq)][3] = Size(p) + Size(q) + (k - Size(pq))
        BY <2>4, <2>8, <3>0, <3>2, <4>1
      <4> QED
        BY <2>5, <2>6, <3>0, <4>2
    <3> QED
      BY <3>1, <3>2
  <2>10. DOMAIN all = 1..n
    BY <2>4, <2>5, <2>6, <2>8, Messages
  <2>11. [k \in DOMAIN all |-> all[k][3]] = [k \in 1..n |-> k]
    BY <2>9, <2>10
  <2> QED
    BY <2>2, <2>3, <2>11 DEF p, q, r, n, pq, all
<1> QED
  BY <1>1, BZFlagInvariance, PTL

\* A UDP address is linked to one player at most, on the machine of that player, however
\* late a link request comes (bzflagUDP).
THEOREM BZFlagLinks == BZSpec => []LinksAreOwn
<1>1. BZInv => LinksAreOwn
  BY DEF BZInv
<1> QED
  BY <1>1, BZFlagInvariance, PTL

\* A connection to the game is open only while a session or the goroutine that made it
\* has it, also when the player leaves before the game has answered (bzflagSession).
THEOREM BZFlagBackends == BZSpec => []NoLeakedBackend
<1>1. BZInv => NoLeakedBackend
  BY DEF BZInv
<1> QED
  BY <1>1, BZFlagInvariance, PTL
=============================================================================

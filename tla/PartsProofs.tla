---------------------------- MODULE PartsProofs -----------------------------
(***************************************************************************)
(* The agent's log, the preparation of images and, from BZFlagProofs, the  *)
(* BZFlag sessions: each alone, and the three as MCParts runs them.        *)
(***************************************************************************)
EXTENDS MCParts, BZFlagProofs, FiniteSetTheorems, SequenceTheorems, WellFoundedInduction, TLAPS

-----------------------------------------------------------------------------
(***************************************************************************)
(* The agent's log, for any capacity, any number of readers and any cut of *)
(* the game's output into writes.                                          *)
(*                                                                         *)
(* LogTells is not inductive.  A write goes on from the incomplete line    *)
(* and the pending carriage return, so they must be what the end of the    *)
(* whole text says (Held); the lines must be those of the text so far      *)
(* (LinesTo), the ring must have as many of them as it can (RingIs), and a *)
(* reader, also one that leaves, must be at the point of its subscription  *)
(* that its lines say (ReaderIs).  The loop of Write keeps the same of the *)
(* part of the text it has gone through (LoopInv), by induction over its   *)
(* characters.                                                             *)
(***************************************************************************)
Breaks == {CR, LF}

\* The index of the k-th line after the one at h.
At(h, k) == (h + k) % Capacity

\* The log's ring holds the last lines of ls.
RingIs(rg, ls) ==
    /\ rg \in Ring
    /\ rg.size = IF Len(ls) < Capacity THEN Len(ls) ELSE Capacity
    /\ \A k \in 1..rg.size :
         rg.slot[At(rg.head, k - 1)]
           = [n |-> Len(ls) - rg.size + k, text |-> ls[Len(ls) - rg.size + k]]

\* A reader of a log of m lines was given g, in order, and all since its first unless
\* it missed one.
GivenIs(g, m, missed) ==
    /\ g \in Seq(Nat) /\ \A k \in 1..Len(g) : g[k] <= m
    /\ \A k \in 1..(Len(g) - 1) : g[k] < g[k + 1]
    /\ ~missed => /\ g = << >> => m = 0
                  /\ \A k \in 1..Len(g) : g[k] = m - Len(g) + k
Given(s) == s.got \o s.history \o s.queue
ReaderIs(s, m) ==
    /\ s \in Reader /\ Len(s.queue) <= Buffer
    /\ s.registered => ~s.closed /\ s.st \in {"replays", "live"}
    /\ s.st = "replays" => s.got = << >>
    /\ s.st = "live" => s.history = << >>
    /\ s.registered => GivenIs(Given(s), m, s.missed)

\* The last break of w up to i is at b, and 0 is where there is none.
LastBreak(w, b, i) ==
    b \in 0..i /\ (b = 0 \/ w[b] \in Breaks) /\ \A j \in (b + 1)..i : w[j] \notin Breaks
\* ls are the lines of w that end up to i.
LinesTo(w, i, ls) ==
    /\ ls \in Seq(Text) /\ Len(ls) = Cardinality(EndingsTo(w, i))
    /\ \A j \in EndingsTo(w, i) : ls[Cardinality(EndingsTo(w, j))] = RunBefore(w, j)

\* The incomplete line is what follows the last break, and the last carriage return is
\* remembered.
Held ==
    /\ written \in Text /\ partial \in Text /\ Len(partial) <= Len(written)
    /\ \A k \in 1..Len(partial) : partial[k] = written[Len(written) - Len(partial) + k]
    /\ LastBreak(written, Len(written) - Len(partial), Len(written))
    /\ pendingCR = (written # << >> /\ written[Len(written)] = CR)

LogInv ==
    /\ Held /\ LinesTo(written, Len(written), lines) /\ RingIs(ring, lines)
    /\ reader \in [Readers -> Reader] /\ \A r \in Readers : ReaderIs(reader[r], Len(lines))

-----------------------------------------------------------------------------
(* Induction.                                                              *)

\* A set of naturals that has 0 and the successor of each of its members has them all.
LEMMA Upward ==
    ASSUME NEW S \in SUBSET Nat, 0 \in S, \A n \in S : n + 1 \in S
    PROVE  S = Nat
<1> SUFFICES ASSUME Nat \ S # {} PROVE FALSE
  OBVIOUS
<1>1. IsWellFoundedOn(OpToRel(<, Nat), Nat)
  BY NatLessThanWellFounded
<1>2. PICK m \in Nat \ S : \A k \in Nat \ S : ~(<<k, m>> \in OpToRel(<, Nat))
  BY <1>1, WFMin
<1>3. \A k \in Nat \ S : ~(k < m)
  BY <1>2 DEF OpToRel
<1>4. m # 0 /\ m - 1 \in Nat /\ m - 1 \in S
  BY <1>3
<1>5. (m - 1) + 1 \in S
  BY <1>4
<1> QED
  BY <1>3, <1>5

-----------------------------------------------------------------------------
(* The ring.                                                               *)

\* An index of the ring, without the remainder.
LEMMA Index ==
    ASSUME NEW h \in 0..(Capacity - 1), NEW k \in 0..Capacity
    PROVE  /\ At(h, k) = IF h + k < Capacity THEN h + k ELSE h + k - Capacity
           /\ At(h, k) \in 0..(Capacity - 1)
<1>1. CASE h + k < Capacity
  BY <1>1, LogAssumption DEF At
<1>2. CASE ~(h + k < Capacity)
  BY <1>2, LogAssumption DEF At
<1> QED
  BY <1>1, <1>2

\* Once around the ring.
LEMMA Around ==
    ASSUME NEW h \in 0..(Capacity - 1), NEW k \in 1..Capacity
    PROVE  /\ At(At(h, 1), k - 1) = At(h, k)
           /\ At(h, Capacity) = h /\ (k < Capacity => At(h, k) # h)
<1>1. Capacity \in Nat /\ Capacity > 0 /\ 1 \in 0..Capacity /\ k \in 0..Capacity /\ k - 1 \in 0..Capacity
  BY LogAssumption
<1> DEFINE p == At(h, 1)
           q == At(p, k - 1)
           r == At(h, k)
           C == Capacity
<1>2. p \in 0..(C - 1) /\ p = IF h + 1 < C THEN h + 1 ELSE h + 1 - C
  BY <1>1, Index
<1> HIDE DEF p
<1>3. q = IF p + (k - 1) < C THEN p + (k - 1) ELSE p + (k - 1) - C
  BY <1>1, <1>2, Index
<1>4. r = IF h + k < C THEN h + k ELSE h + k - C
  BY <1>1, Index
<1>5. At(h, C) = h
  <2>1. C \in 0..C
    BY <1>1
  <2> QED
    BY <1>1, <2>1, Index
<1> HIDE DEF q, r, C
<1>6. C \in Nat /\ C > 0 /\ h \in 0..(C - 1) /\ k \in 1..C
  BY <1>1 DEF C
<1>7. q = r
  BY <1>2, <1>3, <1>4, <1>6
<1>8. k < C => r # h
  BY <1>4, <1>6
<1> QED
  BY <1>5, <1>7, <1>8 DEF p, q, r, C

LEMMA RingGrows ==
    ASSUME NEW ls \in Seq(Text), NEW line \in Text, NEW rg, RingIs(rg, ls)
    PROVE  RingIs(Appended(rg, [n |-> Len(ls) + 1, text |-> line]), Append(ls, line))
<1> DEFINE e == [n |-> Len(ls) + 1, text |-> line]
           l == Append(ls, line)
           m == Len(ls)
           C == Capacity
           h == rg.head
           z == rg.size
           new == Appended(rg, e)
<1>1. m \in Nat /\ C \in Nat /\ C > 0 /\ e \in [n : Nat, text : Text]
  BY LenProperties, LogAssumption
<1>2. /\ rg \in Ring /\ h \in 0..(C - 1) /\ z \in 0..C /\ z = IF m < C THEN m ELSE C
      /\ rg.slot \in [0..(C - 1) -> [n : Nat, text : Text]]
      /\ \A k \in 1..z : rg.slot[At(h, k - 1)] = [n |-> m - z + k, text |-> ls[m - z + k]]
  BY DEF RingIs, Ring
<1>3. l \in Seq(Text) /\ Len(l) = m + 1 /\ (\A k \in 1..m : l[k] = ls[k]) /\ l[m + 1] = line
  BY AppendProperties, <1>1
<1>4. e.n = m + 1 /\ e.text = line
  OBVIOUS
<1> HIDE DEF l, m, C, h, z
<1>5. CASE z < C
  <2> DEFINE p == At(h, z)
  <2>1. p \in 0..(C - 1) /\ p = IF h + z < C THEN h + z ELSE h + z - C
    BY <1>2, Index DEF C
  <2> HIDE DEF p, e
  <2>2. new = [rg EXCEPT !.slot[p] = e, !.size = z + 1]
    BY <1>5 DEF Appended, p, h, z, C, At
  <2> DEFINE f == [rg.slot EXCEPT ![p] = e]
  <2>3. new.slot = f /\ new.head = h /\ new.size = z + 1 /\ new \in Ring
    <3>1. f \in [0..(C - 1) -> [n : Nat, text : Text]] /\ z + 1 \in 0..C
      BY <1>1, <1>2, <1>5, <2>1
    <3>2. new = [rg EXCEPT !.slot = f, !.size = z + 1]
      BY <1>2, <2>2 DEF Ring
    <3> HIDE DEF f, new
    <3> QED
      BY <1>2, <3>1, <3>2 DEF Ring, h, C
  <2> HIDE DEF new
  <2>4. z = m /\ z + 1 = IF Len(l) < C THEN Len(l) ELSE C
    BY <1>1, <1>2, <1>3, <1>5
  <2>5. ASSUME NEW k \in 1..(z + 1)
        PROVE  f[At(h, k - 1)] = [n |-> Len(l) - (z + 1) + k, text |-> l[Len(l) - (z + 1) + k]]
    <3>0. k - 1 \in 0..C /\ Len(l) - (z + 1) + k = k /\ m - z + k = k
      BY <1>1, <1>2, <1>3, <1>5, <2>4
    <3>1. /\ At(h, k - 1) \in 0..(C - 1)
          /\ At(h, k - 1) = IF h + (k - 1) < C THEN h + (k - 1) ELSE h + (k - 1) - C
      BY <1>2, <3>0, Index DEF C
    <3>2. CASE k = z + 1
      <4>1. At(h, k - 1) = p
        BY <3>2, <1>2 DEF p
      <4>2. f[p] = e
        BY <1>2, <2>1
      <4> QED
        BY <3>0, <3>2, <4>1, <4>2, <1>3, <2>4 DEF e, m
    <3>3. CASE k # z + 1
      <4>1. k \in 1..z /\ k \in 1..m
        BY <3>3, <1>1, <1>2, <2>4
      <4>2. At(h, k - 1) # p
        BY <1>1, <1>2, <1>5, <2>1, <3>1, <4>1
      <4>3. f[At(h, k - 1)] = rg.slot[At(h, k - 1)]
        BY <1>2, <3>1, <4>2
      <4>4. rg.slot[At(h, k - 1)] = [n |-> k, text |-> ls[k]]
        BY <1>2, <3>0, <4>1
      <4> QED
        BY <3>0, <4>1, <4>3, <4>4, <1>3
    <3> QED
      BY <3>2, <3>3
  <2> HIDE DEF f
  <2>6. RingIs(new, l)
    BY <1>3, <2>3, <2>4, <2>5 DEF RingIs, C
  <2> QED
    BY <2>6 DEF new, l, e
<1>6. CASE ~(z < C)
  <2> DEFINE p == At(h, 1)
  <2>1. p \in 0..(C - 1)
    <3>1. 1 \in 0..Capacity
      BY LogAssumption
    <3> QED
      BY <1>2, <3>1, Index DEF C
  <2> HIDE DEF p, e
  <2>2. new = [rg EXCEPT !.slot[h] = e, !.head = p]
    BY <1>6 DEF Appended, p, h, z, C, At
  <2> DEFINE f == [rg.slot EXCEPT ![h] = e]
  <2>3. new.slot = f /\ new.head = p /\ new.size = z /\ new \in Ring
    <3>1. f \in [0..(C - 1) -> [n : Nat, text : Text]]
      BY <1>1, <1>2
    <3>2. new = [rg EXCEPT !.slot = f, !.head = p]
      BY <1>2, <2>2 DEF Ring
    <3> HIDE DEF f, new
    <3> QED
      BY <1>2, <2>1, <3>1, <3>2 DEF Ring, z, C
  <2> HIDE DEF new
  <2>4. z = C /\ m >= C /\ z = IF Len(l) < C THEN Len(l) ELSE C
    BY <1>1, <1>2, <1>3, <1>6
  <2>5. ASSUME NEW k \in 1..z
        PROVE  f[At(p, k - 1)] = [n |-> Len(l) - z + k, text |-> l[Len(l) - z + k]]
    <3>0. k \in 1..C /\ k \in 0..C /\ Len(l) - z + k = m - z + (k + 1)
      BY <1>1, <1>3, <2>4
    <3>1. At(p, k - 1) = At(h, k) /\ At(h, C) = h /\ (k < C => At(h, k) # h)
      BY <1>2, <3>0, Around DEF p, C
    <3>2. CASE k = z
      <4>1. At(p, k - 1) = h
        BY <2>4, <3>1, <3>2
      <4>2. f[h] = e
        BY <1>2
      <4>3. Len(l) - z + k = m + 1
        BY <1>1, <1>3, <2>4, <3>2
      <4> QED
        BY <4>1, <4>2, <4>3, <1>3 DEF e, m
    <3>3. CASE k # z
      <4>1. k + 1 \in 1..z /\ m - z + (k + 1) \in 1..m /\ k < C
        BY <3>3, <1>1, <2>4
      <4>2. At(h, k) # h /\ At(h, k) \in 0..(C - 1)
        BY <1>2, <3>0, <3>1, <4>1, Index DEF C
      <4>3. f[At(p, k - 1)] = rg.slot[At(h, k)]
        BY <1>2, <3>1, <4>2
      <4>4. (k + 1) - 1 = k
        BY <3>0
      <4>6. rg.slot[At(h, k)] = [n |-> m - z + (k + 1), text |-> ls[m - z + (k + 1)]]
        BY <1>2, <4>1, <4>4
      <4> QED
        BY <3>0, <4>1, <4>3, <4>6, <1>3
    <3> QED
      BY <3>2, <3>3
  <2> HIDE DEF f
  <2>6. RingIs(new, l)
    BY <1>3, <2>3, <2>4, <2>5 DEF RingIs, C
  <2> QED
    BY <2>6 DEF new, l, e
<1> QED
  BY <1>5, <1>6

-----------------------------------------------------------------------------
(* The readers.                                                            *)

\* The next line is given to a reader in its place.
LEMMA GivenMore ==
    ASSUME NEW g, NEW m \in Nat, NEW x \in BOOLEAN, GivenIs(g, m, x)
    PROVE  GivenIs(Append(g, m + 1), m + 1, x)
<1> DEFINE a == Append(g, m + 1)
           n == Len(g)
<1>1. g \in Seq(Nat) /\ n \in Nat /\ m + 1 \in Nat
  BY LenProperties DEF GivenIs
<1>2. a \in Seq(Nat) /\ Len(a) = n + 1 /\ (\A k \in 1..n : a[k] = g[k]) /\ a[n + 1] = m + 1
  BY <1>1, AppendProperties
<1>3. /\ \A k \in 1..n : g[k] <= m /\ g[k] \in Nat
      /\ \A k \in 1..(n - 1) : g[k] < g[k + 1]
      /\ ~x => (n = 0 => m = 0) /\ \A k \in 1..n : g[k] = m - n + k
  BY <1>1, ElementOfSeq, EmptySeq DEF GivenIs
<1> HIDE DEF a, n
<1>4. \A k \in 1..(n + 1) : a[k] <= m + 1
  <2> SUFFICES ASSUME NEW k \in 1..(n + 1) PROVE a[k] <= m + 1
    OBVIOUS
  <2>1. CASE k = n + 1
    BY <1>1, <1>2, <2>1
  <2>2. CASE k # n + 1
    <3>1. k \in 1..n
      BY <1>1, <2>2
    <3>2. a[k] = g[k] /\ g[k] <= m /\ g[k] \in Nat
      BY <1>2, <1>3, <3>1
    <3> QED
      BY <1>1, <3>2
  <2> QED
    BY <2>1, <2>2
<1>5. \A k \in 1..n : a[k] < a[k + 1]
  <2> SUFFICES ASSUME NEW k \in 1..n PROVE a[k] < a[k + 1]
    OBVIOUS
  <2>1. CASE k = n
    <3>1. a[k] = g[k] /\ g[k] <= m /\ g[k] \in Nat
      BY <1>2, <1>3
    <3>2. a[k + 1] = m + 1
      BY <1>2, <2>1
    <3> QED
      BY <1>1, <3>1, <3>2
  <2>2. CASE k # n
    BY <1>1, <1>2, <1>3, <2>2
  <2> QED
    BY <2>1, <2>2
<1>6. ~x => \A k \in 1..(n + 1) : a[k] = (m + 1) - (n + 1) + k
  BY <1>1, <1>2, <1>3
<1>7. a # << >> /\ Len(a) - 1 = n
  BY <1>1, <1>2
<1> QED
  BY <1>1, <1>2, <1>4, <1>5, <1>6, <1>7 DEF GivenIs, a

\* A reader that misses a line is told no lie about the others.
LEMMA GivenMissed ==
    ASSUME NEW g, NEW m \in Nat, NEW x \in BOOLEAN, GivenIs(g, m, x)
    PROVE  GivenIs(g, m + 1, TRUE)
<1>1. g \in Seq(Nat) /\ \A k \in 1..Len(g) : g[k] \in Nat
  BY ElementOfSeq DEF GivenIs
<1>2. \A k \in 1..Len(g) : g[k] <= m + 1
  BY <1>1 DEF GivenIs
<1> QED
  BY <1>1, <1>2 DEF GivenIs

LEMMA ConcatAppend ==
    ASSUME NEW a \in Seq(Nat), NEW b \in Seq(Nat), NEW x \in Nat
    PROVE  a \o Append(b, x) = Append(a \o b, x)
<1> DEFINE d == Append(b, x)
           e == a \o b
           u == a \o d
           v == Append(e, x)
           A == Len(a)
           B == Len(b)
<1>1. /\ d \in Seq(Nat) /\ Len(d) = B + 1 /\ A \in Nat /\ B \in Nat
      /\ d[B + 1] = x /\ \A k \in 1..B : d[k] = b[k]
  BY AppendProperties, LenProperties
<1>2. /\ e \in Seq(Nat) /\ Len(e) = A + B
      /\ \A k \in 1..(A + B) : e[k] = IF k <= A THEN a[k] ELSE b[k - A]
  BY ConcatProperties
<1> HIDE DEF d, e
<1>3. /\ u \in Seq(Nat) /\ Len(u) = A + B + 1
      /\ \A k \in 1..(A + B + 1) : u[k] = IF k <= A THEN a[k] ELSE d[k - A]
  <2>1. /\ u \in Seq(Nat) /\ Len(u) = A + Len(d)
        /\ \A k \in 1..(A + Len(d)) : u[k] = IF k <= A THEN a[k] ELSE d[k - A]
    BY <1>1, ConcatProperties
  <2>2. A + Len(d) = A + B + 1
    BY <1>1
  <2> QED
    BY <2>1, <2>2
<1>4. /\ v \in Seq(Nat) /\ Len(v) = A + B + 1
      /\ v[A + B + 1] = x /\ \A k \in 1..(A + B) : v[k] = e[k]
  <2>0. e \in Seq(Nat)
    BY <1>2
  <2>1. /\ v \in Seq(Nat) /\ Len(v) = Len(e) + 1
        /\ v[Len(e) + 1] = x /\ \A k \in 1..Len(e) : v[k] = e[k]
    BY <2>0, AppendProperties
  <2> HIDE DEF A, B, v
  <2> QED
    BY <1>2, <2>1
<1> HIDE DEF u, v, A, B
<1>0. A \in Nat /\ B \in Nat
  BY <1>1
<1>5. Len(u) = Len(v)
  BY <1>3, <1>4
<1>6. ASSUME NEW k \in 1..(A + B + 1) PROVE u[k] = v[k]
  <2>1. CASE k <= A
    <3>1. k \in 1..(A + B)
      BY <1>0, <2>1
    <3> QED
      BY <1>2, <1>3, <1>4, <2>1, <3>1
  <2>2. CASE k > A /\ k <= A + B
    <3>1. k - A \in 1..B /\ k \in 1..(A + B)
      BY <1>1, <2>2
    <3> QED
      BY <1>1, <1>2, <1>3, <1>4, <2>2, <3>1
  <2>3. CASE k = A + B + 1
    <3>1. k - A = B + 1 /\ ~(k <= A)
      BY <1>1, <2>3
    <3> QED
      BY <1>1, <1>3, <1>4, <2>3, <3>1
  <2> QED
    BY <1>0, <2>1, <2>2, <2>3
<1>7. u = v
  BY <1>3, <1>4, <1>5, <1>6, SeqEqual
<1> QED
  BY <1>7 DEF u, v, d, e

\* The head of what is queued goes to the end of what was got.
LEMMA HeadMoved ==
    ASSUME NEW g \in Seq(Nat), NEW q \in Seq(Nat), q # << >>
    PROVE  Append(g, Head(q)) \o Tail(q) = g \o q
<1> DEFINE a == Append(g, Head(q))
           b == Tail(q)
           u == a \o b
           v == g \o q
           G == Len(g)
           Q == Len(q)
<1>1. /\ Head(q) = q[1] /\ Head(q) \in Nat /\ b \in Seq(Nat) /\ Len(b) = Q - 1
      /\ (\A k \in 1..(Q - 1) : b[k] = q[k + 1]) /\ G \in Nat /\ Q \in Nat /\ Q # 0
  BY HeadTailProperties, LenProperties, EmptySeq
<1>2. a \in Seq(Nat) /\ Len(a) = G + 1 /\ a[G + 1] = q[1] /\ \A k \in 1..G : a[k] = g[k]
  BY <1>1, AppendProperties
<1>3. /\ v \in Seq(Nat) /\ Len(v) = G + Q
      /\ \A k \in 1..(G + Q) : v[k] = IF k <= G THEN g[k] ELSE q[k - G]
  BY ConcatProperties
<1> HIDE DEF a, b, v
<1>4. /\ u \in Seq(Nat) /\ Len(u) = Len(a) + Len(b)
      /\ \A k \in 1..(Len(a) + Len(b)) : u[k] = IF k <= Len(a) THEN a[k] ELSE b[k - Len(a)]
  BY <1>1, <1>2, ConcatProperties
<1> HIDE DEF u, G, Q
<1>0. G \in Nat /\ Q \in Nat /\ Q # 0 /\ Len(a) = G + 1 /\ Len(b) = Q - 1
  BY <1>1, <1>2
<1>5. Len(a) + Len(b) = G + Q
  BY <1>0
<1>6. ASSUME NEW k \in 1..(G + Q) PROVE u[k] = v[k]
  <2>1. CASE k <= G
    <3>1. k \in 1..G /\ k <= Len(a)
      BY <1>0, <2>1
    <3> QED
      BY <1>2, <1>3, <1>4, <1>5, <2>1, <3>1
  <2>2. CASE k = G + 1
    <3>1. k <= Len(a) /\ ~(k <= G) /\ k - G = 1
      BY <1>0, <2>2
    <3> QED
      BY <1>2, <1>3, <1>4, <1>5, <2>2, <3>1
  <2>3. CASE k > G + 1
    <3>1. ~(k <= Len(a)) /\ ~(k <= G) /\ k - Len(a) \in 1..(Q - 1) /\ (k - Len(a)) + 1 = k - G
      BY <1>0, <2>3
    <3> QED
      BY <1>1, <1>3, <1>4, <1>5, <3>1
  <2> QED
    BY <1>0, <2>1, <2>2, <2>3
<1>7. Len(u) = G + Q
  BY <1>4, <1>5
<1>8. u = v
  BY <1>3, <1>4, <1>6, <1>7, SeqEqual
<1> QED
  BY <1>8 DEF u, v, a, b

LEMMA ReaderOffered ==
    ASSUME NEW s, NEW m \in Nat, ReaderIs(s, m)
    PROVE  ReaderIs(Offered(s, m + 1), m + 1)
<1> DEFINE q == s.queue
           new == Offered(s, m + 1)
           g == s.got \o s.history
<1>1. /\ s \in Reader /\ q \in Seq(Nat) /\ s.got \in Seq(Nat) /\ s.history \in Seq(Nat)
      /\ s.registered \in BOOLEAN /\ s.missed \in BOOLEAN /\ Len(q) <= Buffer
  BY DEF ReaderIs, Reader
<1>2. CASE ~s.registered
  BY <1>2, <1>1 DEF ReaderIs, Offered
<1>3. CASE s.registered /\ Len(q) < Buffer
  <2> DEFINE p == Append(q, m + 1)
  <2>1. p \in Seq(Nat) /\ Len(p) <= Buffer
    BY <1>1, <1>3, AppendProperties, LogAssumption, LenProperties
  <2>2. new = [s EXCEPT !.queue = p]
    BY <1>3 DEF Offered
  <2> HIDE DEF p
  <2>3. /\ new \in Reader /\ new.queue = p /\ new.st = s.st /\ new.registered = s.registered
        /\ new.closed = s.closed /\ new.history = s.history /\ new.got = s.got
        /\ new.missed = s.missed
    BY <1>1, <2>1, <2>2 DEF Reader
  <2>4. GivenIs(Append(Given(s), m + 1), m + 1, s.missed)
    BY <1>1, <1>3, GivenMore DEF ReaderIs
  <2>5. Given(new) = Append(Given(s), m + 1)
    <3>1. g \in Seq(Nat) /\ m + 1 \in Nat /\ q \in Seq(Nat)
      BY <1>1, ConcatProperties
    <3> HIDE DEF g, q
    <3>2. g \o p = Append(g \o q, m + 1)
      BY <3>1, ConcatAppend DEF p
    <3>6. Given(new) = g \o p /\ Given(s) = g \o q
      BY <2>3 DEF Given, g, q
    <3> QED
      BY <3>2, <3>6
  <2> HIDE DEF new
  <2> QED
    BY <2>1, <2>3, <2>4, <2>5 DEF ReaderIs, new
<1>4. CASE s.registered /\ ~(Len(q) < Buffer)
  <2>2. new = [s EXCEPT !.missed = TRUE]
    BY <1>4 DEF Offered
  <2>3. /\ new \in Reader /\ new.queue = q /\ new.st = s.st /\ new.registered = s.registered
        /\ new.closed = s.closed /\ new.history = s.history /\ new.got = s.got
        /\ new.missed = TRUE
    BY <1>1, <2>2 DEF Reader
  <2>4. GivenIs(Given(s), m + 1, TRUE)
    BY <1>1, <1>4, GivenMissed DEF ReaderIs
  <2>5. Given(new) = Given(s)
    BY <2>3 DEF Given
  <2> HIDE DEF new
  <2> QED
    BY <1>1, <2>3, <2>4, <2>5 DEF ReaderIs, new
<1> QED
  BY <1>1, <1>2, <1>3, <1>4

-----------------------------------------------------------------------------
(* Lines and their endings.                                                *)

LEMMA LastBreakNext ==
    ASSUME NEW w, NEW i \in Nat, NEW b, LastBreak(w, b, i)
    PROVE  /\ w[i + 1] \in Breaks => LastBreak(w, i + 1, i + 1)
           /\ w[i + 1] \notin Breaks => LastBreak(w, b, i + 1)
<1>1. b \in 0..i /\ (b = 0 \/ w[b] \in Breaks) /\ \A j \in (b + 1)..i : w[j] \notin Breaks
  BY DEF LastBreak
<1>2. i + 1 \in 0..(i + 1) /\ b \in 0..(i + 1) /\ (\A j \in ((i + 1) + 1)..(i + 1) : FALSE)
  BY <1>1
<1>3. \A j \in (b + 1)..(i + 1) : j \in (b + 1)..i \/ j = i + 1
  BY <1>1
<1> QED
  BY <1>1, <1>2, <1>3 DEF LastBreak

\* There is always a last break.
LEMMA LastBreakExists ==
    ASSUME NEW w, NEW i \in Nat
    PROVE  \E b : LastBreak(w, b, i)
<1> DEFINE S == {n \in Nat : \E b : LastBreak(w, b, n)}
<1>1. 0 \in S
  <2>1. LastBreak(w, 0, 0)
    BY DEF LastBreak
  <2> QED
    BY <2>1
<1>2. ASSUME NEW n \in S PROVE n + 1 \in S
  BY LastBreakNext
<1>3. S \in SUBSET Nat
  OBVIOUS
<1> HIDE DEF S
<1>4. S = Nat
  BY <1>1, <1>2, <1>3, Upward
<1> QED
  BY <1>4 DEF S

\* The run before an index begins after the last break.
LEMMA RunIs ==
    ASSUME NEW w, NEW i \in Nat \ {0}, NEW b, LastBreak(w, b, i - 1)
    PROVE  RunBefore(w, i) = SubSeq(w, b + 1, i - 1)
<1> DEFINE breaks == {0} \cup {j \in 1..(i - 1) : w[j] \in {CR, LF}}
           c == CHOOSE j \in breaks : \A k \in breaks : k <= j
<1>1. b \in 0..(i - 1) /\ (b = 0 \/ w[b] \in Breaks) /\ \A j \in (b + 1)..(i - 1) : w[j] \notin Breaks
  BY DEF LastBreak
<1>2. b \in breaks /\ \A k \in breaks : k <= b /\ k \in Int
  <2>1. b \in breaks
    BY <1>1 DEF Breaks
  <2>2. ASSUME NEW k \in breaks PROVE k <= b /\ k \in Int
    <3>1. CASE k = 0
      BY <1>1, <3>1
    <3>2. CASE k \in 1..(i - 1) /\ w[k] \in Breaks
      BY <1>1, <3>2
    <3> QED
      BY <3>1, <3>2 DEF Breaks
  <2> QED
    BY <2>1, <2>2
<1>3. RunBefore(w, i) = SubSeq(w, 1 + c, i - 1)
  BY DEF RunBefore
<1> HIDE DEF breaks
<1>4. c = b
  <2>1. c \in breaks /\ \A k \in breaks : k <= c
    BY <1>2
  <2> HIDE DEF c
  <2> QED
    BY <1>2, <2>1
<1> HIDE DEF c
<1>5. b \in Int
  BY <1>1
<1>6. 1 + c = b + 1
  BY <1>4, <1>5
<1> QED
  BY <1>3, <1>6

LEMMA RunKept ==
    ASSUME NEW v \in Text, NEW w \in Text, NEW i \in 1..(Len(v) + 1), Len(v) <= Len(w),
           \A k \in 1..Len(v) : w[k] = v[k]
    PROVE  RunBefore(w, i) = RunBefore(v, i) /\ RunBefore(v, i) \in Text
<1>1. Len(v) \in Nat /\ Len(w) \in Nat /\ i \in Nat \ {0} /\ i - 1 \in Nat /\ i - 1 <= Len(v)
  BY LenProperties DEF Text
<1>2. PICK b : LastBreak(v, b, i - 1)
  BY <1>1, LastBreakExists
<1>3. b \in 0..(i - 1) /\ \A k \in 1..(i - 1) : w[k] = v[k]
  BY <1>1, <1>2 DEF LastBreak
<1>4. LastBreak(w, b, i - 1)
  <2>1. b = 0 \/ w[b] \in Breaks
    <3>1. CASE b # 0
      <4>1. b \in 1..(i - 1)
        BY <1>3, <3>1
      <4> QED
        BY <1>2, <1>3, <3>1, <4>1 DEF LastBreak
    <3> QED
      BY <3>1
  <2>2. ASSUME NEW j \in (b + 1)..(i - 1) PROVE w[j] \notin Breaks
    <3>1. j \in 1..(i - 1)
      BY <1>1, <1>3
    <3> QED
      BY <1>2, <1>3, <3>1 DEF LastBreak
  <2> QED
    BY <1>3, <2>1, <2>2 DEF LastBreak
<1> DEFINE s == SubSeq(v, b + 1, i - 1)
           t == SubSeq(w, b + 1, i - 1)
<1>5. RunBefore(v, i) = s /\ RunBefore(w, i) = t
  BY <1>1, <1>2, <1>4, RunIs
<1>6. b + 1 \in Int /\ i - 1 \in Int /\ \A k \in (b + 1)..(i - 1) : v[k] \in Chars /\ w[k] = v[k]
  <2>1. ASSUME NEW k \in (b + 1)..(i - 1) PROVE k \in 1..(i - 1) /\ k \in 1..Len(v)
    BY <1>1, <1>3
  <2> QED
    BY <1>1, <1>3, <2>1, ElementOfSeq DEF Text
<1>7. s \in Seq(Chars) /\ t \in Seq(Chars)
  BY <1>6, SubSeqProperties
<1>8. s = t
  <2>1. Len(s) = Len(t)
    BY <1>6, SubSeqProperties
  <2>2. ASSUME NEW k \in 1..Len(s) PROVE s[k] = t[k]
    <3>1. Len(s) = IF b + 1 <= i - 1 THEN (i - 1) - (b + 1) + 1 ELSE 0
      BY <1>6, SubSeqProperties
    <3>2. k \in 1..((i - 1) - (b + 1) + 1) /\ (b + 1) + k - 1 \in (b + 1)..(i - 1)
      BY <1>6, <3>1
    <3>3. s[k] = v[(b + 1) + k - 1] /\ t[k] = w[(b + 1) + k - 1]
      BY <1>6, <3>2, SubSeqProperties
    <3> QED
      BY <1>6, <3>2, <3>3
  <2> HIDE DEF s, t
  <2> QED
    BY <1>7, <2>1, <2>2, SeqEqual
<1> QED
  BY <1>5, <1>7, <1>8 DEF Text

LEMMA EndingsFinite ==
    ASSUME NEW w \in Text, NEW i \in Nat
    PROVE  IsFiniteSet(EndingsTo(w, i)) /\ Cardinality(EndingsTo(w, i)) \in Nat
<1>1. EndingsTo(w, i) \in SUBSET (1..Len(w))
  BY LenProperties DEF EndingsTo, Endings, Text
<1>2. IsFiniteSet(1..Len(w))
  BY LenProperties, FS_Interval DEF Text
<1> HIDE DEF Text
<1> QED
  BY <1>1, <1>2, FS_Subset, FS_CardinalityType

\* A place for every ending up to i.
LEMMA EndingPlace ==
    ASSUME NEW w \in Text, NEW i \in Nat, NEW j \in EndingsTo(w, i)
    PROVE  /\ j \in 1..Len(w) /\ j <= i
           /\ Cardinality(EndingsTo(w, j)) \in 1..Cardinality(EndingsTo(w, i))
<1>0. j \in Endings(w) /\ j \in 1..Len(w) /\ j \in Nat /\ j <= i
  BY LenProperties DEF EndingsTo, Endings, Text
<1> DEFINE S == EndingsTo(w, j)
           T == EndingsTo(w, i)
<1>1. S \in SUBSET T /\ j \in S
  <2>1. \A k \in Endings(w) : k \in Int
    BY LenProperties DEF Endings, Text
  <2>2. ASSUME NEW k \in S PROVE k \in T
    <3>1. k \in Endings(w) /\ k <= j /\ k \in Int
      BY <2>1 DEF EndingsTo
    <3>2. k <= i
      BY <1>0, <3>1
    <3> QED
      BY <3>1, <3>2 DEF EndingsTo
  <2>3. j \in S
    BY <1>0 DEF EndingsTo
  <2> QED
    BY <2>2, <2>3
<1>2. IsFiniteSet(S) /\ IsFiniteSet(T) /\ Cardinality(S) \in Nat /\ Cardinality(T) \in Nat
  BY <1>0, EndingsFinite
<1> HIDE DEF S, T
<1>3. Cardinality(S) <= Cardinality(T) /\ Cardinality(S) # 0
  BY <1>1, <1>2, FS_Subset, FS_EmptySet
<1> QED
  BY <1>0, <1>2, <1>3 DEF S, T

LEMMA EndingsNext ==
    ASSUME NEW w \in Text, NEW i \in Nat, i < Len(w)
    PROVE  /\ i + 1 \notin Endings(w) => EndingsTo(w, i + 1) = EndingsTo(w, i)
           /\ i + 1 \in Endings(w) =>
                /\ EndingsTo(w, i + 1) = EndingsTo(w, i) \cup {i + 1}
                /\ Cardinality(EndingsTo(w, i + 1)) = Cardinality(EndingsTo(w, i)) + 1
<1>1. \A k \in Endings(w) : k \in Int
  BY LenProperties DEF Endings, Text
<1>2. \A k \in Endings(w) : k <= i + 1 <=> (k <= i \/ k = i + 1)
  BY <1>1
<1>3. i + 1 \notin Endings(w) => EndingsTo(w, i + 1) = EndingsTo(w, i)
  BY <1>2 DEF EndingsTo
<1> DEFINE S == EndingsTo(w, i)
<1>4. i + 1 \in Endings(w) => EndingsTo(w, i + 1) = S \cup {i + 1}
  BY <1>2 DEF EndingsTo
<1>5. i + 1 \notin S
  BY DEF EndingsTo
<1>6. IsFiniteSet(S)
  BY EndingsFinite
<1> HIDE DEF S
<1>7. Cardinality(S \cup {i + 1}) = Cardinality(S) + 1
  BY <1>5, <1>6, FS_AddElement
<1> QED
  BY <1>3, <1>4, <1>7 DEF S

LEMMA LineMore ==
    ASSUME NEW w \in Text, NEW i \in Nat, i < Len(w), NEW ls, LinesTo(w, i, ls),
           i + 1 \in Endings(w), RunBefore(w, i + 1) \in Text
    PROVE  LinesTo(w, i + 1, Append(ls, RunBefore(w, i + 1)))
<1> DEFINE line == RunBefore(w, i + 1)
           l == Append(ls, line)
           n == Cardinality(EndingsTo(w, i))
<1>1. ls \in Seq(Text) /\ Len(ls) = n /\ \A j \in EndingsTo(w, i) : ls[Cardinality(EndingsTo(w, j))] = RunBefore(w, j)
  BY DEF LinesTo
<1>2. n \in Nat
  BY EndingsFinite
<1>3. /\ EndingsTo(w, i + 1) = EndingsTo(w, i) \cup {i + 1}
      /\ Cardinality(EndingsTo(w, i + 1)) = n + 1
  BY EndingsNext
<1> HIDE DEF n, line
<1>4. l \in Seq(Text) /\ Len(l) = n + 1 /\ (\A k \in 1..n : l[k] = ls[k]) /\ l[n + 1] = line
  <2>1. ls \in Seq(Text) /\ line \in Text
    BY <1>1 DEF line
  <2>2. Len(l) = Len(ls) + 1 /\ l \in Seq(Text) /\ (\A k \in 1..Len(ls) : l[k] = ls[k]) /\ l[Len(ls) + 1] = line
    BY <2>1, AppendProperties
  <2> HIDE DEF l
  <2> QED
    BY <1>1, <2>2
<1>5. ASSUME NEW j \in EndingsTo(w, i + 1)
      PROVE  l[Cardinality(EndingsTo(w, j))] = RunBefore(w, j)
  <2>1. CASE j = i + 1
    BY <1>3, <1>4, <2>1 DEF line
  <2>2. CASE j \in EndingsTo(w, i)
    <3>1. Cardinality(EndingsTo(w, j)) \in 1..n
      BY <2>2, EndingPlace DEF n
    <3> QED
      BY <1>1, <1>4, <2>2, <3>1
  <2> QED
    BY <1>3, <2>1, <2>2
<1> HIDE DEF l
<1> QED
  BY <1>3, <1>4, <1>5 DEF LinesTo, l, line

LEMMA LineSame ==
    ASSUME NEW w \in Text, NEW i \in Nat, i < Len(w), NEW ls, LinesTo(w, i, ls),
           i + 1 \notin Endings(w)
    PROVE  LinesTo(w, i + 1, ls)
BY EndingsNext DEF LinesTo

\* What is written later does not change the lines.
LEMMA LinesKept ==
    ASSUME NEW v \in Text, NEW w \in Text, Len(v) <= Len(w), NEW ls, LinesTo(v, Len(v), ls),
           \A k \in 1..Len(v) : w[k] = v[k]
    PROVE  LinesTo(w, Len(v), ls)
<1>1. Len(v) \in Nat /\ Len(w) \in Nat /\ DOMAIN v = 1..Len(v) /\ DOMAIN w = 1..Len(w)
  BY LenProperties DEF Text
<1>2. ASSUME NEW j \in Nat, j <= Len(v)
      PROVE  EndingsTo(w, j) = EndingsTo(v, j)
  <2>1. ASSUME NEW k \in 1..Len(v)
        PROVE  k \in 1..Len(w) /\ w[k] = v[k] /\ (k > 1 => w[k - 1] = v[k - 1])
    BY <1>1
  <2>2. ASSUME NEW k \in 1..Len(w), k <= j PROVE k \in 1..Len(v)
    BY <1>1, <1>2, <2>2
  <2> QED
    BY <1>1, <2>1, <2>2 DEF EndingsTo, Endings
<1>3. EndingsTo(w, Len(v)) = EndingsTo(v, Len(v))
  BY <1>1, <1>2
<1>4. ASSUME NEW j \in EndingsTo(v, Len(v))
      PROVE  EndingsTo(w, j) = EndingsTo(v, j) /\ RunBefore(w, j) = RunBefore(v, j)
  <2>1. j \in 1..Len(v)
    BY <1>1, EndingPlace
  <2>2. j \in Nat /\ j <= Len(v) /\ j \in 1..(Len(v) + 1)
    BY <1>1, <2>1
  <2> QED
    BY <1>2, <2>2, RunKept
<1> QED
  BY <1>3, <1>4 DEF LinesTo

-----------------------------------------------------------------------------
(* The loop of Write.                                                      *)

\* text is what w ends with, from o on, and no line ending is cut there.
Placed(w, o, text) ==
    /\ w \in Text /\ text \in Text /\ o \in Nat /\ Len(w) = o + Len(text)
    /\ \A k \in 1..Len(text) : w[o + k] = text[k]
    /\ o # 0 => w[o] \in Breaks
    /\ ~(o # 0 /\ w[o] = CR /\ Len(text) # 0 /\ text[1] = LF)
ScanState == [start : Nat, ring : Ring, reader : [Readers -> Reader], lines : Seq(Text)]
\* The ring and the readers have the lines of the log.
LogIs(s) ==
    /\ s \in ScanState
    /\ RingIs(s.ring, s.lines) /\ \A r \in Readers : ReaderIs(s.reader[r], Len(s.lines))
\* The log after i characters of text.
LoopInv(w, o, i, s) ==
    /\ LogIs(s) /\ s.start \in 1..(i + 1)
    /\ LastBreak(w, o + s.start - 1, o + i) /\ LinesTo(w, o + i, s.lines)

LEMMA Slice ==
    ASSUME NEW w, NEW o, NEW text, Placed(w, o, text),
           NEW b \in 0..Len(text), NEW a \in 1..(b + 1)
    PROVE  SubSeq(w, o + a, o + b) = SubSeq(text, a, b) /\ SubSeq(text, a, b) \in Text
<1> DEFINE s == SubSeq(text, a, b)
           t == SubSeq(w, o + a, o + b)
           n == Len(text)
<1>1. text \in Seq(Chars) /\ o \in Nat /\ n \in Nat /\ \A k \in 1..n : w[o + k] = text[k] /\ text[k] \in Chars
  BY LenProperties, ElementOfSeq DEF Placed, Text
<1>2. b \in 0..n
  OBVIOUS
<1> HIDE DEF n
<1>3. a \in Int /\ b \in Int /\ o + a \in Int /\ o + b \in Int
  BY <1>1, <1>2
<1>4. \A k \in a..b : text[k] \in Chars
  BY <1>1, <1>2
<1>5. \A k \in (o + a)..(o + b) : w[k] \in Chars
  <2> SUFFICES ASSUME NEW k \in (o + a)..(o + b) PROVE w[k] \in Chars
    OBVIOUS
  <2>1. k - o \in 1..n /\ o + (k - o) = k
    BY <1>1, <1>2
  <2> QED
    BY <1>1, <2>1
<1>6. /\ s \in Seq(Chars) /\ Len(s) = IF a <= b THEN b - a + 1 ELSE 0
      /\ \A k \in 1..(b - a + 1) : s[k] = text[a + k - 1]
  BY <1>3, <1>4, SubSeqProperties
<1>7. /\ t \in Seq(Chars) /\ Len(t) = IF o + a <= o + b THEN (o + b) - (o + a) + 1 ELSE 0
      /\ \A k \in 1..((o + b) - (o + a) + 1) : t[k] = w[(o + a) + k - 1]
  BY <1>3, <1>5, SubSeqProperties
<1> HIDE DEF s, t
<1>8. Len(s) = Len(t) /\ (o + b) - (o + a) + 1 = b - a + 1
  BY <1>1, <1>3, <1>6, <1>7
<1>9. ASSUME NEW k \in 1..Len(s) PROVE s[k] = t[k]
  <2>0. Len(s) = (IF a <= b THEN b - a + 1 ELSE 0) /\ o \in Nat /\ n \in Nat /\ b \in 0..n /\ a \in 1..(b + 1)
    BY <1>1, <1>2, <1>6
  <2>1. k \in 1..(b - a + 1) /\ a + k - 1 \in 1..n /\ (o + a) + k - 1 = o + (a + k - 1)
    BY <2>0
  <2> QED
    BY <1>1, <1>6, <1>7, <1>8, <2>1
<1>10. s = t
  BY <1>6, <1>7, <1>8, <1>9, SeqEqual
<1> QED
  BY <1>6, <1>10 DEF s, t, Text

\* A line ends, and the next one begins at i.
Cut(s, line, i) == [AppendLocked(s, line) EXCEPT !.start = i]

LEMMA LineAppended ==
    ASSUME NEW s, NEW line \in Text, NEW i \in Nat, LogIs(s)
    PROVE  /\ LogIs(Cut(s, line, i)) /\ Cut(s, line, i).start = i
           /\ Cut(s, line, i).lines = Append(s.lines, line)
<1> DEFINE ls == s.lines
           n == Len(ls)
           rg == Appended(s.ring, [n |-> n + 1, text |-> line])
           rd == [r \in Readers |-> Offered(s.reader[r], n + 1)]
           l == Append(ls, line)
           t == Cut(s, line, i)
<1>1. s \in ScanState /\ ls \in Seq(Text) /\ n \in Nat
  BY LenProperties DEF ScanState, LogIs
<1>2. RingIs(rg, l) /\ rg \in Ring
  BY <1>1, RingGrows DEF RingIs, LogIs
<1>3. \A r \in Readers : ReaderIs(rd[r], n + 1) /\ rd[r] \in Reader
  BY <1>1, ReaderOffered DEF ReaderIs, LogIs
<1>4. l \in Seq(Text) /\ Len(l) = n + 1
  BY <1>1, AppendProperties
<1>5. rd \in [Readers -> Reader]
  BY <1>3
<1>6. t = [[s EXCEPT !.ring = rg, !.reader = rd, !.lines = l] EXCEPT !.start = i]
  BY DEF AppendLocked, Cut
<1> HIDE DEF rg, rd, l, n, ls, t
<1>7. /\ t \in ScanState /\ t.start = i /\ t.lines = l /\ t.ring = rg /\ t.reader = rd
  BY <1>1, <1>2, <1>4, <1>5, <1>6 DEF ScanState
<1>8. LogIs(t)
  BY <1>2, <1>3, <1>4, <1>7 DEF LogIs
<1> QED
  BY <1>7, <1>8 DEF l, ls, t

LEMMA ScanStep ==
    ASSUME NEW w, NEW o, NEW text, Placed(w, o, text),
           NEW i \in Nat, i < Len(text), NEW s, LoopInv(w, o, i, s)
    PROVE  LoopInv(w, o, i + 1, Scanned(text, i + 1, s))
<1> DEFINE n == Len(text)
           a == s.start
           t == Scanned(text, i + 1, s)
           j == o + i
<1>1. /\ w \in Text /\ text \in Text /\ o \in Nat /\ n \in Nat /\ Len(w) = o + n
      /\ \A k \in 1..n : w[o + k] = text[k]
  BY LenProperties DEF Placed, Text
<1>2. /\ LogIs(s) /\ s \in ScanState /\ a \in 1..(i + 1) /\ LastBreak(w, o + a - 1, j)
      /\ LinesTo(w, j, s.lines)
  BY DEF LoopInv, LogIs
<1>3. i < n /\ i \in Nat
  OBVIOUS
<1>4. DOMAIN w = 1..Len(w)
  BY <1>1 DEF Text
<1> HIDE DEF n, a
<1>5. /\ j \in Nat /\ j + 1 = o + (i + 1) /\ i + 1 \in 1..n /\ i + 1 \in Nat /\ i + 2 \in Nat
      /\ j < Len(w) /\ (i + 1) - 1 = i /\ (j + 1) - 1 = j /\ j + 1 \in 1..Len(w) /\ j + 1 \in Nat \ {0}
      /\ a \in Nat /\ a \in 1..(i + 2) /\ (i + 1) + 1 = i + 2 /\ i + 2 \in 1..(i + 2)
      /\ o + (i + 2) - 1 = j + 1
  BY <1>1, <1>2, <1>3
<1>6. w[j + 1] = text[i + 1]
  BY <1>1, <1>5
<1>7. i # 0 => w[j] = text[i]
  <2>1. i # 0 => i \in 1..n
    BY <1>3, <1>1
  <2> QED
    BY <1>1, <2>1
<1>8. (j + 1 > 1 <=> j # 0) /\ (i + 1 > 1 <=> i # 0) /\ (i # 0 => j # 0) /\ (i = 0 => j = o)
  BY <1>1, <1>3
<1> HIDE DEF j
<1>9. /\ w[j + 1] \in Breaks => LastBreak(w, j + 1, j + 1)
      /\ w[j + 1] \notin Breaks => LastBreak(w, o + a - 1, j + 1)
  BY <1>2, <1>5, LastBreakNext
<1>10. CASE text[i + 1] = LF /\ i # 0 /\ text[i] = CR
  <2>1. t = [s EXCEPT !.start = i + 2]
    BY <1>5, <1>8, <1>10 DEF Scanned
  <2> HIDE DEF t
  <2>2. t \in ScanState /\ t.start = i + 2 /\ t.ring = s.ring /\ t.reader = s.reader /\ t.lines = s.lines
    BY <1>2, <1>5, <2>1 DEF ScanState
  <2>3. j + 1 \notin Endings(w)
    BY <1>5, <1>6, <1>7, <1>8, <1>10 DEF Endings, CR, LF
  <2>4. LinesTo(w, j + 1, s.lines)
    BY <1>1, <1>2, <1>5, <2>3, LineSame
  <2>5. LastBreak(w, j + 1, j + 1)
    BY <1>6, <1>9, <1>10 DEF Breaks
  <2> QED
    BY <1>2, <1>5, <2>2, <2>4, <2>5 DEF LoopInv, LogIs, t
<1>11. CASE text[i + 1] \in Breaks /\ ~(text[i + 1] = LF /\ i # 0 /\ text[i] = CR)
  <2> DEFINE line == SubSeq(text, a, i)
  <2>1. t = Cut(s, line, i + 2)
    BY <1>5, <1>8, <1>11 DEF Scanned, a, Breaks, Cut
  <2>2. i \in 0..n
    BY <1>1, <1>3
  <2>3. SubSeq(w, o + a, o + i) = line /\ line \in Text
    BY <1>2, <2>2, Slice DEF n
  <2>4. (o + a - 1) + 1 = o + a
    BY <1>1, <1>5
  <2>5. RunBefore(w, j + 1) = line
    <3>1. RunBefore(w, j + 1) = SubSeq(w, (o + a - 1) + 1, j)
      BY <1>2, <1>5, RunIs
    <3> QED
      BY <2>3, <2>4, <3>1 DEF j
  <2>6. j + 1 \in Endings(w)
    <3>1. CASE text[i + 1] = CR
      BY <1>4, <1>5, <1>6, <3>1 DEF Endings
    <3>2. CASE text[i + 1] = LF /\ i # 0
      BY <1>4, <1>5, <1>6, <1>7, <1>8, <1>11, <3>2 DEF Endings
    <3>3. CASE text[i + 1] = LF /\ i = 0
      <4>1. n # 0 /\ text[1] = LF
        BY <1>3, <1>1, <3>3
      <4>2. j # 0 => w[j] # CR
        BY <1>8, <3>3, <4>1 DEF Placed, n
      <4> QED
        BY <1>4, <1>5, <1>6, <1>8, <3>3, <4>2 DEF Endings
    <3> QED
      BY <1>11, <3>1, <3>2, <3>3 DEF Breaks
  <2> HIDE DEF line, t
  <2>7. LogIs(t) /\ t.start = i + 2 /\ t.lines = Append(s.lines, line)
    BY <1>2, <1>5, <2>1, <2>3, LineAppended
  <2>8. LinesTo(w, j + 1, t.lines)
    BY <1>1, <1>2, <1>5, <2>3, <2>5, <2>6, <2>7, LineMore
  <2>9. LastBreak(w, j + 1, j + 1)
    BY <1>6, <1>9, <1>11
  <2> QED
    BY <1>5, <2>7, <2>8, <2>9 DEF LoopInv, t
<1>12. CASE text[i + 1] \notin Breaks
  <2>1. t = s
    BY <1>12 DEF Scanned, Breaks
  <2>2. j + 1 \notin Endings(w)
    BY <1>6, <1>12 DEF Endings, Breaks
  <2>3. LinesTo(w, j + 1, s.lines)
    BY <1>1, <1>2, <1>5, <2>2, LineSame
  <2>4. LastBreak(w, o + a - 1, j + 1)
    BY <1>6, <1>9, <1>12
  <2> HIDE DEF t
  <2> QED
    BY <1>2, <1>5, <2>1, <2>3, <2>4 DEF LoopInv, t, a
<1> QED
  BY <1>10, <1>11, <1>12

\* f are the states of the loop, up to the n-th character.
ScanStart == [start |-> 1, ring |-> ring, reader |-> reader, lines |-> lines]
IsScan(f, text, n) ==
    f = [i \in 0..n |-> IF i = 0 THEN ScanStart ELSE Scanned(text, i, f[i - 1])]

LEMMA ScanExists ==
    ASSUME NEW text, NEW n \in Nat
    PROVE  \E f : IsScan(f, text, n)
<1> DEFINE S == {k \in Nat : \E f : IsScan(f, text, k)}
<1>1. 0 \in S
  <2>1. IsScan([i \in 0..0 |-> ScanStart], text, 0)
    BY DEF IsScan
  <2> QED
    BY <2>1
<1>2. ASSUME NEW k \in S PROVE k + 1 \in S
  <2>1. PICK f : IsScan(f, text, k)
    OBVIOUS
  <2> DEFINE g == [i \in 0..(k + 1) |-> IF i <= k THEN f[i] ELSE Scanned(text, k + 1, f[k])]
  <2>2. IsScan(g, text, k + 1)
    <3> SUFFICES ASSUME NEW i \in 0..(k + 1)
                 PROVE  g[i] = IF i = 0 THEN ScanStart ELSE Scanned(text, i, g[i - 1])
      BY DEF IsScan
    <3>1. CASE i = 0
      BY <2>1, <3>1 DEF IsScan
    <3>2. CASE i # 0 /\ i <= k
      BY <2>1, <3>2 DEF IsScan
    <3>3. CASE i = k + 1
      BY <2>1, <3>3 DEF IsScan
    <3> QED
      BY <3>1, <3>2, <3>3
  <2> QED
    BY <2>2
<1>3. S = Nat
  <2>1. S \in SUBSET Nat
    OBVIOUS
  <2> HIDE DEF S
  <2> QED
    BY <1>1, <1>2, <2>1, Upward
<1> QED
  BY <1>3

\* What the loop leaves.
LEMMA ScanIs ==
    ASSUME NEW w, NEW o, NEW text, Placed(w, o, text),
           LogIs(ScanStart), LinesTo(w, o, lines)
    PROVE  LoopInv(w, o, Len(text), Scan(text))
<1> DEFINE n == Len(text)
           f == CHOOSE g : IsScan(g, text, n)
<1>1. n \in Nat /\ o \in Nat
  BY LenProperties DEF Placed, Text
<1>2. IsScan(f, text, n)
  BY <1>1, ScanExists
<1>3. Scan(text) = f[n]
  BY DEF Scan, IsScan, ScanStart
<1> DEFINE S == {k \in Nat : k <= n => LoopInv(w, o, k, f[k])}
<1> HIDE DEF f, n
<1>4. 0 \in S
  <2>1. f[0] = ScanStart
    BY <1>1, <1>2 DEF IsScan
  <2>2. o + 1 - 1 = o /\ o + 0 = o /\ 1 \in 1..(0 + 1) /\ ScanStart.start = 1 /\ ScanStart.lines = lines
    BY <1>1 DEF ScanStart
  <2>3. LastBreak(w, o, o)
    BY <1>1 DEF Placed, LastBreak
  <2>4. LoopInv(w, o, 0, ScanStart)
    BY <2>2, <2>3 DEF LoopInv
  <2> QED
    BY <2>1, <2>4
<1>5. ASSUME NEW k \in S PROVE k + 1 \in S
  <2> SUFFICES ASSUME k + 1 <= n PROVE LoopInv(w, o, k + 1, f[k + 1])
    OBVIOUS
  <2>1. k \in Nat /\ k < n /\ k <= n /\ k + 1 \in 0..n /\ k + 1 # 0 /\ (k + 1) - 1 = k
    BY <1>1
  <2>2. f[k + 1] = Scanned(text, k + 1, f[k])
    BY <1>2, <2>1 DEF IsScan
  <2>3. LoopInv(w, o, k, f[k])
    BY <2>1
  <2>4. LoopInv(w, o, k + 1, Scanned(text, k + 1, f[k]))
    BY <2>1, <2>3, ScanStep DEF n
  <2> QED
    BY <2>2, <2>4
<1>6. S \in SUBSET Nat
  OBVIOUS
<1>7. n \in S
  <2> HIDE DEF S
  <2> QED
    BY <1>1, <1>4, <1>5, <1>6, Upward
<1>8. LoopInv(w, o, n, f[n])
  BY <1>1, <1>7
<1> QED
  BY <1>3, <1>8 DEF n

-----------------------------------------------------------------------------
(* Write.                                                                  *)

\* No line ends after the last break.
LEMMA LinesBack ==
    ASSUME NEW w \in Text, NEW m \in Nat, NEW b, LastBreak(w, b, m), NEW ls, LinesTo(w, m, ls)
    PROVE  LinesTo(w, b, ls)
<1>1. b \in 0..m /\ \A j \in (b + 1)..m : w[j] \notin Breaks
  BY DEF LastBreak
<1>2. ASSUME NEW j \in Endings(w), j <= m PROVE j <= b
  <2>1. j \in Int /\ w[j] \in Breaks
    BY LenProperties DEF Endings, Text, Breaks
  <2> QED
    BY <1>1, <1>2, <2>1
<1>3. \A j \in Endings(w) : j \in Int
  BY LenProperties DEF Endings, Text
<1>4. EndingsTo(w, b) = EndingsTo(w, m)
  BY <1>1, <1>2, <1>3 DEF EndingsTo
<1> QED
  BY <1>4 DEF LinesTo

\* The text Write goes through is the end of all that was written.
LEMMA WholePlaced ==
    ASSUME NEW p \in Text, Len(p) # 0, Held, LinesTo(written, Len(written), lines),
           ~(pendingCR /\ p[1] = LF)
    PROVE  LET o == Len(written) - Len(partial)
               w == written \o p
               text == partial \o p
           IN  Placed(w, o, text) /\ LinesTo(w, o, lines) /\ Len(text) # 0
<1> DEFINE W == Len(written)
           P == Len(partial)
           N == Len(p)
           o == W - P
           w == written \o p
           text == partial \o p
<1>1. /\ written \in Seq(Chars) /\ partial \in Seq(Chars) /\ p \in Seq(Chars)
      /\ W \in Nat /\ P \in Nat /\ N \in Nat
  BY LenProperties DEF Held, Text
<1>2. /\ P <= W /\ N # 0 /\ \A k \in 1..P : partial[k] = written[o + k]
      /\ LastBreak(written, o, W) /\ pendingCR = (written # << >> /\ written[W] = CR)
  BY DEF Held
<1>3. /\ w \in Seq(Chars) /\ Len(w) = W + N
      /\ \A k \in 1..(W + N) : w[k] = IF k <= W THEN written[k] ELSE p[k - W]
  BY <1>1, ConcatProperties
<1>4. /\ text \in Seq(Chars) /\ Len(text) = P + N
      /\ \A k \in 1..(P + N) : text[k] = IF k <= P THEN partial[k] ELSE p[k - P]
  BY <1>1, ConcatProperties
<1>5. LinesTo(written, W, lines) /\ ~(pendingCR /\ p[1] = LF) /\ (W # 0 => written # << >>)
  BY <1>1
<1> HIDE DEF W, P, N, w, text
<1>6. W \in Nat /\ P \in Nat /\ N \in Nat /\ P <= W /\ N # 0 /\ o \in 0..W
  BY <1>1, <1>2
<1>7. ASSUME NEW k \in 1..(P + N) PROVE w[o + k] = text[k]
  <2>1. CASE k <= P
    <3>1. o + k \in 1..(W + N) /\ o + k <= W /\ k \in 1..P
      BY <1>6, <2>1
    <3> QED
      BY <1>2, <1>3, <1>4, <2>1, <3>1
  <2>2. CASE ~(k <= P)
    <3>1. o + k \in 1..(W + N) /\ ~(o + k <= W) /\ (o + k) - W = k - P
      BY <1>6, <2>2
    <3> QED
      BY <1>3, <1>4, <2>2, <3>1
  <2> QED
    BY <2>1, <2>2
<1>8. \A k \in 1..W : w[k] = written[k]
  BY <1>3, <1>6
<1>9. o # 0 => w[o] = written[o] /\ w[o] \in Breaks
  <2>1. o # 0 => o \in 1..W
    BY <1>6
  <2> QED
    BY <1>2, <1>8, <2>1 DEF LastBreak
<1>10. ~(o # 0 /\ w[o] = CR /\ text[1] = LF)
  <2>1. CASE P = 0
    <3>1. o = W /\ 1 \in 1..(P + N) /\ ~(1 <= P) /\ 1 - P = 1
      BY <1>6, <2>1
    <3>2. text[1] = p[1]
      BY <1>4, <3>1
    <3> QED
      BY <1>2, <1>5, <1>9, <3>1, <3>2
  <2>2. CASE P # 0
    <3>1. 1 \in 1..P /\ 1 <= P /\ 1 \in 1..(P + N) /\ o + 1 \in (o + 1)..W
      BY <1>6, <2>2
    <3>2. text[1] = written[o + 1]
      BY <1>2, <1>4, <3>1
    <3>3. written[o + 1] \notin Breaks
      BY <1>2, <3>1 DEF LastBreak
    <3> QED
      BY <3>2, <3>3 DEF Breaks
  <2> QED
    BY <2>1, <2>2
<1>11. Len(w) = o + Len(text) /\ o \in Nat /\ Len(text) # 0
  BY <1>3, <1>4, <1>6
<1>12. Placed(w, o, text)
  BY <1>3, <1>4, <1>7, <1>9, <1>10, <1>11 DEF Placed, Text
<1>13. LinesTo(w, W, lines)
  <2>1. W <= Len(w)
    BY <1>3, <1>6
  <2> QED
    BY <1>1, <1>3, <1>5, <1>8, <2>1, LinesKept DEF Text, W
<1>14. LastBreak(w, o, W)
  <2>1. \A k \in (o + 1)..W : k \in 1..W
    BY <1>6
  <2> QED
    BY <1>2, <1>8, <1>9, <2>1 DEF LastBreak
<1>15. LinesTo(w, o, lines)
  BY <1>3, <1>6, <1>13, <1>14, LinesBack DEF Text
<1> QED
  BY <1>11, <1>12, <1>15 DEF w, text, W, P

\* A line feed that follows a carriage return of the last write is not in it.
LEMMA TrimmedPlaced ==
    ASSUME NEW p \in Text, Len(p) # 0, Held, LinesTo(written, Len(written), lines),
           pendingCR, p[1] = LF
    PROVE  LET o == Len(written) + 1
               w == written \o p
               text == partial \o Tail(p)
           IN  Placed(w, o, text) /\ LinesTo(w, o, lines) /\ w[o] = LF
<1> DEFINE W == Len(written)
           N == Len(p)
           w == written \o p
           t == Tail(p)
           o == W + 1
<1>1. /\ written \in Seq(Chars) /\ partial \in Seq(Chars) /\ p \in Seq(Chars)
      /\ W \in Nat /\ N \in Nat /\ p # << >> /\ N # 0
  BY LenProperties DEF Held, Text
<1>2. W # 0 /\ written[W] = CR
  <2>1. written # << >> /\ written[W] = CR
    BY Zenon DEF Held
  <2> QED
    BY <1>1, <2>1, EmptySeq
<1>3. partial \o t = t
  <2>1. LastBreak(written, W - Len(partial), W) /\ Len(partial) \in Nat
    BY <1>1, LenProperties DEF Held
  <2> HIDE DEF W
  <2>2. Len(partial) = 0
    <3>1. Len(partial) # 0 => W \in ((W - Len(partial)) + 1)..W
      BY <1>1, <2>1
    <3> QED
      BY <1>2, <2>1, <3>1 DEF LastBreak, Breaks
  <2>3. partial = << >>
    BY <1>1, <2>2, EmptySeq
  <2>4. t \in Seq(Chars)
    BY <1>1, HeadTailProperties
  <2> QED
    BY <2>3, <2>4, ConcatEmptySeq
<1>4. /\ w \in Seq(Chars) /\ Len(w) = W + N
      /\ \A k \in 1..(W + N) : w[k] = IF k <= W THEN written[k] ELSE p[k - W]
  BY <1>1, ConcatProperties
<1>5. t \in Seq(Chars) /\ Len(t) = N - 1 /\ \A k \in 1..(N - 1) : t[k] = p[k + 1]
  <2>1. t \in Seq(Chars) /\ Len(t) = N - 1 /\ \A k \in 1..Len(t) : t[k] = p[k + 1]
    BY <1>1, HeadTailProperties
  <2> QED
    BY <2>1
<1>6. LinesTo(written, W, lines)
  OBVIOUS
<1> HIDE DEF W, N, w, t
<1>7. /\ W \in Nat /\ N \in Nat /\ N # 0 /\ W # 0 /\ o \in Nat /\ o # 0
      /\ o \in 1..(W + N) /\ ~(o <= W) /\ o - W = 1 /\ W \in 1..(W + N) /\ W <= W
      /\ Len(w) = o + Len(t) /\ W < Len(w) /\ o > 1 /\ o - 1 = W
  BY <1>1, <1>2, <1>4, <1>5
<1>8. w[o] = LF
  BY <1>4, <1>7
<1>9. w[W] = CR
  BY <1>2, <1>4, <1>7
<1>10. ASSUME NEW k \in 1..Len(t) PROVE w[o + k] = t[k]
  <2>1. k \in 1..(N - 1) /\ o + k \in 1..(W + N) /\ ~(o + k <= W) /\ (o + k) - W = k + 1
    BY <1>5, <1>7
  <2> QED
    BY <1>4, <1>5, <2>1
<1>11. w[o] \in Breaks /\ w[o] # CR
  BY <1>8 DEF Breaks, CR, LF
<1>12. Placed(w, o, t)
  BY <1>4, <1>5, <1>7, <1>10, <1>11 DEF Placed, Text
<1>13. LinesTo(w, W, lines)
  <2>1. W <= Len(w) /\ \A k \in 1..W : w[k] = written[k]
    BY <1>4, <1>7
  <2> QED
    BY <1>1, <1>4, <1>6, <2>1, LinesKept DEF Text, W
<1>14. o \notin Endings(w)
  BY <1>7, <1>8, <1>9 DEF Endings, CR, LF
<1>15. LinesTo(w, o, lines)
  BY <1>4, <1>7, <1>13, <1>14, LineSame DEF Text
<1> QED
  BY <1>3, <1>8, <1>12, <1>15 DEF w, W, t

LEMMA LogIsStart ==
    ASSUME LogInv
    PROVE  LogIs(ScanStart)
<1> DEFINE s == ScanStart
<1>1. ring \in Ring /\ reader \in [Readers -> Reader] /\ lines \in Seq(Text)
  BY DEF LogInv, RingIs, LinesTo
<1>2. s.start = 1 /\ s.ring = ring /\ s.reader = reader /\ s.lines = lines /\ s \in ScanState
  BY <1>1 DEF ScanStart, ScanState
<1> HIDE DEF s
<1> QED
  BY <1>2 DEF LogIs, LogInv, s

\* The text of a write and where it begins in all that was written.
LEMMA WritePlaced ==
    ASSUME NEW p \in Text, Len(p) # 0, LogInv
    PROVE  \E o : /\ Placed(written \o p, o, partial \o Trimmed(p))
                  /\ LinesTo(written \o p, o, lines)
                  /\ Len(partial \o Trimmed(p)) = 0 => (written \o p)[o] # CR
<1>1. Held /\ LinesTo(written, Len(written), lines)
  BY DEF LogInv
<1>2. CASE pendingCR /\ p[1] = LF
  <2>1. Trimmed(p) = Tail(p)
    BY <1>2 DEF Trimmed
  <2>2. LF # CR
    BY DEF LF, CR
  <2> QED
    BY <1>1, <1>2, <2>1, <2>2, TrimmedPlaced
<1>3. CASE ~(pendingCR /\ p[1] = LF)
  <2>1. Trimmed(p) = p
    BY <1>3 DEF Trimmed
  <2> QED
    BY <1>1, <1>3, <2>1, WholePlaced
<1> QED
  BY <1>2, <1>3

LEMMA PieceIsText ==
    ASSUME NEW p \in Pieces
    PROVE  p \in Text /\ Len(p) # 0 /\ Len(p) \in Nat
<1>1. PICK k \in 1..MaxPiece : p \in [1..k -> Chars]
  BY DEF Pieces
<1>2. k \in Nat /\ k # 0
  BY LogAssumption
<1> QED
  BY <1>1, <1>2 DEF Text

LEMMA WriteKeeps ==
    ASSUME LogInv, NEW p \in Pieces, Write(p)
    PROVE  LogInv'
<1> DEFINE w == written \o p
           text == partial \o Trimmed(p)
           s == Scan(text)
           n == Len(text)
           a == s.start
           q == SubSeq(text, a, n)
<1>1. p \in Text /\ Len(p) # 0
  BY PieceIsText
<1>2. PICK o : Placed(w, o, text) /\ LinesTo(w, o, lines) /\ (n = 0 => w[o] # CR)
  BY <1>1, WritePlaced
<1>3. LoopInv(w, o, n, s)
  BY <1>2, LogIsStart, ScanIs
<1>4. /\ ring' = s.ring /\ reader' = s.reader /\ lines' = s.lines /\ written' = w
      /\ pendingCR' = (text # << >> /\ text[n] = CR) /\ partial' = q
  BY DEF Write
<1>5. w # << >>
  <2>1. written \in Seq(Chars) /\ p \in Seq(Chars)
    BY <1>1 DEF LogInv, Held, Text
  <2>2. Len(w) = Len(written) + Len(p) /\ Len(written) \in Nat /\ Len(p) \in Nat
    BY <2>1, ConcatProperties, LenProperties
  <2> HIDE DEF w
  <2>3. Len(w) # 0
    BY <1>1, <2>2
  <2> QED
    BY <2>3, EmptySeq
<1> HIDE DEF w, text, s
<1>6. /\ w \in Text /\ text \in Text /\ o \in Nat /\ Len(w) = o + n /\ n \in Nat
      /\ \A k \in 1..n : w[o + k] = text[k]
  BY <1>2, LenProperties DEF Placed, Text
<1>7. /\ LogIs(s) /\ a \in 1..(n + 1) /\ LastBreak(w, o + a - 1, o + n)
      /\ LinesTo(w, o + n, s.lines)
  BY <1>3 DEF LoopInv
<1>8. /\ q \in Text /\ Len(q) = n - a + 1 /\ \A k \in 1..(n - a + 1) : q[k] = text[a + k - 1]
  <2>1. text \in Seq(Chars) /\ \A k \in 1..n : text[k] \in Chars
    BY <1>6, ElementOfSeq DEF Text
  <2> HIDE DEF n, a
  <2>2. a \in Int /\ n \in Int /\ \A k \in a..n : text[k] \in Chars
    BY <1>6, <1>7, <2>1
  <2>3. /\ q \in Seq(Chars) /\ Len(q) = IF a <= n THEN n - a + 1 ELSE 0
        /\ \A k \in 1..(n - a + 1) : q[k] = text[a + k - 1]
    BY <2>2, SubSeqProperties
  <2>4. (IF a <= n THEN n - a + 1 ELSE 0) = n - a + 1
    BY <1>6, <1>7
  <2> QED
    BY <2>3, <2>4 DEF Text
<1> HIDE DEF n, a, q
<1>9. /\ Len(w) - Len(q) = o + a - 1 /\ Len(q) <= Len(w)
      /\ \A k \in 1..Len(q) : q[k] = w[(o + a - 1) + k]
  <2>1. Len(w) - Len(q) = o + a - 1 /\ Len(q) <= Len(w)
    BY <1>6, <1>7, <1>8
  <2>2. ASSUME NEW k \in 1..Len(q) PROVE q[k] = w[(o + a - 1) + k]
    <3>1. k \in 1..(n - a + 1) /\ a + k - 1 \in 1..n /\ (o + a - 1) + k = o + (a + k - 1)
      BY <1>6, <1>7, <1>8
    <3> QED
      BY <1>6, <1>8, <3>1
  <2> QED
    BY <2>1, <2>2
<1>10. (text # << >> /\ text[n] = CR) = (w # << >> /\ w[Len(w)] = CR)
  <2>1. CASE n = 0
    <3>1. text = << >> /\ Len(w) = o
      BY <1>6, <2>1, EmptySeq DEF n, Text
    <3> QED
      BY <1>2, <2>1, <3>1 DEF n
  <2>2. CASE n # 0
    <3>1. n \in 1..n
      BY <1>6, <2>2
    <3>2. text # << >> /\ w[Len(w)] = text[n]
      BY <1>6, <2>2, <3>1, EmptySeq DEF n
    <3> QED
      BY <1>5, <3>2
  <2> QED
    BY <2>1, <2>2
<1>11. Held'
  BY <1>4, <1>6, <1>7, <1>8, <1>9, <1>10 DEF Held
<1>12. /\ LinesTo(written, Len(written), lines)' /\ RingIs(ring, lines)'
       /\ reader' \in [Readers -> Reader] /\ \A r \in Readers : ReaderIs(reader[r], Len(lines))'
  BY <1>4, <1>6, <1>7 DEF LogIs, ScanState, LinesTo, RingIs, ReaderIs
<1> QED
  BY <1>11, <1>12 DEF LogInv

-----------------------------------------------------------------------------
(* The readers' steps.                                                     *)

\* A step of one reader.
LEMMA ReaderKeeps ==
    ASSUME LogInv, NEW r \in Readers, NEW s, ReaderIs(s, Len(lines)),
           reader' = [reader EXCEPT ![r] = s], ring' = ring, partial' = partial,
           pendingCR' = pendingCR, written' = written, lines' = lines
    PROVE  LogInv'
<1>1. s \in Reader
  BY DEF ReaderIs
<1>2. reader' \in [Readers -> Reader]
  BY <1>1 DEF LogInv
<1>3. \A t \in Readers : reader'[t] = IF t = r THEN s ELSE reader[t]
  BY DEF LogInv
<1>4. \A t \in Readers : ReaderIs(reader[t], Len(lines))'
  BY <1>3 DEF LogInv
<1>5. Held'
  BY DEF LogInv, Held
<1>6. LinesTo(written, Len(written), lines)' /\ RingIs(ring, lines)'
  BY DEF LogInv
<1> QED
  BY <1>2, <1>4, <1>5, <1>6 DEF LogInv

LEMMA GoneIs ==
    ASSUME NEW m
    PROVE  ReaderIs(Gone, m)
BY LogAssumption DEF ReaderIs, Reader, Gone

LEMMA SubscribeKeeps ==
    ASSUME LogInv, NEW r \in Readers, Subscribe(r)
    PROVE  LogInv'
<1> DEFINE z == ring.size
           h == [k \in DOMAIN Content |-> Content[k].n]
           m == Len(lines)
           e == << >>
           no == FALSE
           s == [Gone EXCEPT !.st = "replays", !.registered = TRUE, !.history = h]
<1>1. /\ ring \in Ring /\ m \in Nat /\ z \in 0..Capacity /\ z = IF m < Capacity THEN m ELSE Capacity
      /\ \A k \in 1..z : ring.slot[At(ring.head, k - 1)] = [n |-> m - z + k, text |-> lines[m - z + k]]
  BY LenProperties DEF LogInv, RingIs, Ring, LinesTo
<1>2. h = [k \in 1..z |-> m - z + k]
  <2>1. ASSUME NEW k \in 1..z PROVE Content[k].n = m - z + k
    <3>1. ring.head + k - 1 = ring.head + (k - 1)
      BY <1>1 DEF Ring
    <3>2. Content[k] = ring.slot[At(ring.head, k - 1)]
      BY <3>1 DEF Content, At
    <3>3. ring.slot[At(ring.head, k - 1)] = [n |-> m - z + k, text |-> lines[m - z + k]]
      BY <1>1
    <3> HIDE DEF m, z
    <3> QED
      BY <3>2, <3>3
  <2>2. DOMAIN Content = 1..z
    BY DEF Content
  <2> QED
    BY <2>1, <2>2
<1> HIDE DEF m, z, h
<1>3. h \in Seq(Nat) /\ Len(h) = z /\ (\A k \in 1..z : h[k] = m - z + k) /\ z \in Nat /\ z <= m
  <2>1. z \in Nat /\ z <= m
    BY <1>1, LogAssumption
  <2>2. \A k \in 1..z : m - z + k \in Nat
    BY <1>1, <2>1
  <2> QED
    BY <1>2, <2>1, <2>2
<1>4. h = << >> => m = 0
  <2>1. h = << >> => z = 0
    BY <1>3
  <2> QED
    BY <1>1, <2>1, LogAssumption
<1>5. GivenIs(h, m, no)
  <2>0. m \in Nat /\ z \in Nat /\ \A k \in 1..z : h[k] = m - z + k
    BY <1>1, <1>3
  <2>1. ASSUME NEW k \in 1..z PROVE h[k] <= m
    <3>1. h[k] = m - z + k
      BY <2>0
    <3> QED
      BY <2>0, <3>1
  <2>2. ASSUME NEW k \in 1..(z - 1) PROVE h[k] < h[k + 1]
    <3>1. k \in 1..z /\ k + 1 \in 1..z
      BY <2>0
    <3>2. h[k] = m - z + k /\ h[k + 1] = m - z + (k + 1)
      BY <2>0, <3>1
    <3> QED
      BY <2>0, <3>2
  <2> QED
    BY <1>3, <1>4, <2>1, <2>2 DEF GivenIs
<1>6. /\ s \in Reader /\ s.st = "replays" /\ s.registered = TRUE /\ s.closed = FALSE
      /\ s.history = h /\ s.queue = e /\ s.got = e /\ s.missed = no
  <2>1. Gone \in Reader /\ Gone.closed = FALSE /\ Gone.queue = e /\ Gone.got = e /\ Gone.missed = no
    BY DEF Gone, Reader
  <2> HIDE DEF e, no
  <2> QED
    BY <1>3, <2>1 DEF Reader
<1>7. e \in Seq(Nat) /\ Len(e) = 0 /\ e \o h = h /\ h \o e = h
  BY <1>3, ConcatEmptySeq, EmptySeq
<1>8. reader' = [reader EXCEPT ![r] = s]
  BY DEF Subscribe, h
<1> HIDE DEF s, e, no
<1>9. Given(s) = h
  BY <1>6, <1>7 DEF Given
<1>10. ReaderIs(s, m)
  BY <1>5, <1>6, <1>7, <1>9, LogAssumption DEF ReaderIs, e
<1> QED
  BY <1>8, <1>10, ReaderKeeps DEF Subscribe, m

LEMMA ReplaysKeeps ==
    ASSUME LogInv, NEW r \in Readers, Replays(r)
    PROVE  LogInv'
<1> DEFINE s == reader[r]
           e == << >>
           t == [s EXCEPT !.st = "live", !.got = s.history, !.history = e]
           m == Len(lines)
<1>1. ReaderIs(s, m) /\ s.st = "replays" /\ reader \in [Readers -> Reader]
  BY DEF LogInv, Replays
<1>2. reader' = [reader EXCEPT ![r] = t]
  BY <1>1 DEF Replays
<1> HIDE DEF s, m
<1>3. /\ s \in Reader /\ s.got = e /\ s.history \in Seq(Nat) /\ s.queue \in Seq(Nat)
  BY <1>1 DEF ReaderIs, Reader
<1>4. /\ t \in Reader /\ t.st = "live" /\ t.registered = s.registered /\ t.closed = s.closed
      /\ t.history = e /\ t.queue = s.queue /\ t.got = s.history /\ t.missed = s.missed
  BY <1>3 DEF Reader
<1>5. e \o s.history = s.history /\ s.history \o e = s.history
  BY <1>3, ConcatEmptySeq
<1> HIDE DEF t, e
<1>6. Given(t) = Given(s)
  BY <1>3, <1>4, <1>5 DEF Given
<1>7. ReaderIs(t, m)
  BY <1>1, <1>4, <1>6 DEF ReaderIs, e
<1> QED
  BY <1>2, <1>7, ReaderKeeps DEF Replays, m

LEMMA ReceivesKeeps ==
    ASSUME LogInv, NEW r \in Readers, Receives(r)
    PROVE  LogInv'
<1> DEFINE s == reader[r]
           e == << >>
           g == s.got
           q == s.queue
           a == Append(g, Head(q))
           b == Tail(q)
           t == [s EXCEPT !.got = a, !.queue = b]
           m == Len(lines)
<1>1. ReaderIs(s, m) /\ s.st = "live" /\ q # e /\ reader \in [Readers -> Reader]
  BY DEF LogInv, Receives
<1>2. reader' = [reader EXCEPT ![r] = t]
  BY <1>1 DEF Receives
<1> HIDE DEF s, m
<1>3. s \in Reader /\ s.history = e /\ g \in Seq(Nat) /\ q \in Seq(Nat) /\ Len(q) <= Buffer
  BY <1>1 DEF ReaderIs, Reader
<1> HIDE DEF g, q
<1>4. /\ Head(q) \in Nat /\ b \in Seq(Nat) /\ Len(b) <= Buffer /\ a \in Seq(Nat)
  BY <1>1, <1>3, HeadTailProperties, AppendProperties, LenProperties, LogAssumption
<1>5. a \o b = g \o q
  BY <1>1, <1>3, HeadMoved
<1>6. g \o e = g /\ a \o e = a
  BY <1>3, <1>4, ConcatEmptySeq
<1> HIDE DEF a, b, e
<1>7. /\ t \in Reader /\ t.st = s.st /\ t.registered = s.registered /\ t.closed = s.closed
      /\ t.history = s.history /\ t.queue = b /\ t.got = a /\ t.missed = s.missed
  BY <1>3, <1>4 DEF Reader
<1> HIDE DEF t
<1>8. Given(t) = Given(s)
  <2>1. Given(s) = (g \o e) \o q /\ Given(t) = (a \o e) \o b
    BY <1>3, <1>7 DEF Given, g, q
  <2> QED
    BY <1>5, <1>6, <2>1
<1>9. ReaderIs(t, m)
  BY <1>1, <1>4, <1>7, <1>8 DEF ReaderIs
<1> QED
  BY <1>2, <1>9, ReaderKeeps DEF Receives, m

LEMMA UnsubscribesKeeps ==
    ASSUME LogInv, NEW r \in Readers, Unsubscribes(r)
    PROVE  LogInv'
<1> DEFINE s == reader[r]
           t == [s EXCEPT !.st = "leaves", !.registered = FALSE]
           m == Len(lines)
<1>1. ReaderIs(s, m) /\ reader \in [Readers -> Reader]
  BY DEF LogInv
<1>2. reader' = [reader EXCEPT ![r] = t]
  BY <1>1 DEF Unsubscribes
<1> HIDE DEF s, m
<1>3. s \in Reader /\ Len(s.queue) <= Buffer
  BY <1>1 DEF ReaderIs
<1>4. t \in Reader /\ t.st = "leaves" /\ t.registered = FALSE /\ t.queue = s.queue
  BY <1>3 DEF Reader
<1> HIDE DEF t
<1>5. ReaderIs(t, m)
  BY <1>3, <1>4 DEF ReaderIs
<1> QED
  BY <1>2, <1>5, ReaderKeeps DEF Unsubscribes, m

LEMMA ClosesKeeps ==
    ASSUME LogInv, NEW r \in Readers, Closes(r)
    PROVE  LogInv'
BY GoneIs, ReaderKeeps DEF Closes

-----------------------------------------------------------------------------
(* The theorems.                                                           *)

LEMMA LogInitial ==
    ASSUME LogInit
    PROVE  LogInv
<1> DEFINE e == << >>
<1>1. e \in Text /\ e \in Seq(Text) /\ Len(e) = 0 /\ DOMAIN e = {}
  BY EmptySeq DEF Text
<1>2. written = e /\ partial = e /\ lines = e /\ pendingCR = FALSE /\ reader = [r \in Readers |-> Gone]
  BY DEF LogInit
<1>3. LastBreak(e, 0, 0)
  BY DEF LastBreak
<1>4. EndingsTo(e, 0) = {}
  BY <1>1 DEF EndingsTo, Endings
<1>5. ring \in Ring /\ ring.size = 0
  <2>1. NoLine \in [n : Nat, text : Text]
    BY <1>1 DEF NoLine
  <2> QED
    BY <2>1, LogAssumption DEF LogInit, Ring
<1>6. pendingCR = (written # << >> /\ written[Len(written)] = CR)
  BY <1>2
<1> HIDE DEF e
<1>7. Held
  <2>1. Len(written) = 0 /\ Len(partial) = 0
    BY <1>1, <1>2
  <2>2. LastBreak(written, Len(written) - Len(partial), Len(written))
    BY <1>2, <1>3, <2>1
  <2> QED
    BY <1>1, <1>2, <1>6, <2>1, <2>2 DEF Held
<1>8. LinesTo(written, Len(written), lines)
  BY <1>1, <1>2, <1>4, FS_EmptySet DEF LinesTo
<1>9. RingIs(ring, lines)
  BY <1>1, <1>2, <1>5, LogAssumption DEF RingIs
<1>10. \A r \in Readers : ReaderIs(reader[r], Len(lines)) /\ reader[r] \in Reader
  BY <1>2, GoneIs DEF ReaderIs
<1> QED
  BY <1>2, <1>7, <1>8, <1>9, <1>10 DEF LogInv

LEMMA LogStep ==
    ASSUME LogInv, [LogNext]_logVars
    PROVE  LogInv'
<1>1. ASSUME NEW p \in Pieces, Write(p) PROVE LogInv'
  BY <1>1, WriteKeeps
<1>2. ASSUME NEW r \in Readers, Subscribe(r) PROVE LogInv'
  BY <1>2, SubscribeKeeps
<1>3. ASSUME NEW r \in Readers, Replays(r) PROVE LogInv'
  BY <1>3, ReplaysKeeps
<1>4. ASSUME NEW r \in Readers, Receives(r) PROVE LogInv'
  BY <1>4, ReceivesKeeps
<1>5. ASSUME NEW r \in Readers, Unsubscribes(r) PROVE LogInv'
  BY <1>5, UnsubscribesKeeps
<1>6. ASSUME NEW r \in Readers, Closes(r) PROVE LogInv'
  BY <1>6, ClosesKeeps
<1>7. CASE UNCHANGED logVars
  BY <1>7 DEF LogInv, Held, logVars
<1> QED
  BY <1>1, <1>2, <1>3, <1>4, <1>5, <1>6, <1>7 DEF LogNext, Writes

LEMMA LogInvTypes ==
    ASSUME LogInv
    PROVE  LogTypes
BY Zenon DEF LogInv, LogTypes, Held, RingIs, ReaderIs, LinesTo

\* Whatever the cuts, the lines of the log are the lines of the text.
LEMMA LogInvCuts ==
    ASSUME LogInv
    PROVE  CutsDoNotShow
<1> DEFINE W == Len(written)
           P == Len(partial)
           o == W - P
<1>1. /\ written \in Seq(Chars) /\ partial \in Seq(Chars) /\ P \in Nat /\ W \in Nat /\ P <= W
      /\ LastBreak(written, o, W) /\ \A k \in 1..P : partial[k] = written[o + k]
  BY LenProperties DEF LogInv, Held, Text
<1>2. LinesTo(written, W, lines)
  BY DEF LogInv
<1>3. EndingsTo(written, W) = Endings(written)
  BY LenProperties, <1>1 DEF EndingsTo, Endings
<1>4. \A k \in 1..W : written[k] \in Chars
  BY <1>1, ElementOfSeq
<1> HIDE DEF W, P
<1>5. partial = RunBefore(written, W + 1)
  <2> DEFINE s == SubSeq(written, o + 1, W)
  <2>1. W + 1 \in Nat \ {0} /\ (W + 1) - 1 = W /\ o \in Int /\ o + 1 \in Int /\ W \in Int
    BY <1>1
  <2>2. RunBefore(written, W + 1) = s
    BY <1>1, <2>1, RunIs
  <2>3. \A k \in (o + 1)..W : written[k] \in Chars
    BY <1>1, <1>4
  <2>4. /\ s \in Seq(Chars) /\ Len(s) = IF o + 1 <= W THEN W - (o + 1) + 1 ELSE 0
        /\ \A k \in 1..(W - (o + 1) + 1) : s[k] = written[(o + 1) + k - 1]
    BY <2>1, <2>3, SubSeqProperties
  <2> HIDE DEF s
  <2>5. Len(s) = P /\ W - (o + 1) + 1 = P
    BY <1>1, <2>4
  <2>6. ASSUME NEW k \in 1..P PROVE partial[k] = s[k]
    <3>1. (o + 1) + k - 1 = o + k
      BY <1>1
    <3> QED
      BY <1>1, <2>4, <2>5, <3>1
  <2>7. partial = s
    BY <1>1, <2>4, <2>5, <2>6, SeqEqual DEF P
  <2> QED
    BY <2>2, <2>7
<1> QED
  BY <1>2, <1>3, <1>5 DEF CutsDoNotShow, LinesTo, W

LEMMA LogInvRing ==
    ASSUME LogInv
    PROVE  RingIsTail
<1> DEFINE z == ring.size
           m == Len(lines)
<1>1. ring \in Ring /\ \A k \in 1..z : ring.slot[At(ring.head, k - 1)] = [n |-> m - z + k, text |-> lines[m - z + k]]
  BY DEF LogInv, RingIs
<1>2. ASSUME NEW k \in 1..z PROVE Content[k] = ring.slot[At(ring.head, k - 1)]
  <2>1. ring.head + k - 1 = ring.head + (k - 1)
    BY <1>1 DEF Ring
  <2> QED
    BY <2>1 DEF Content, At
<1>3. Content = [k \in 1..z |-> Content[k]]
  BY DEF Content
<1> QED
  BY <1>1, <1>2, <1>3 DEF RingIsTail

LEMMA LogInvGap ==
    ASSUME LogInv
    PROVE  NoSilentGap
<1> SUFFICES ASSUME NEW r \in Readers, reader[r].registered
             PROVE  LET s == reader[r]
                        given == s.got \o s.history \o s.queue
                    IN  /\ \A k \in 1..(Len(given) - 1) : given[k] < given[k + 1]
                        /\ ~s.missed =>
                              /\ given = << >> => lines = << >>
                              /\ given = [k \in DOMAIN given |-> Len(lines) - Len(given) + k]
  BY Zenon DEF NoSilentGap
<1> DEFINE s == reader[r]
           g == s.got \o s.history \o s.queue
           m == Len(lines)
           x == s.missed
<1>1. GivenIs(g, m, x)
  BY DEF LogInv, ReaderIs, Given
<1>2. lines \in Seq(Text) /\ (m = 0 => lines = << >>)
  BY EmptySeq DEF LogInv, LinesTo
<1> HIDE DEF s, g, m, x
<1>3. g \in Seq(Nat) /\ DOMAIN g = 1..Len(g)
  BY <1>1, LenProperties DEF GivenIs
<1>4. g = [k \in DOMAIN g |-> g[k]]
  BY <1>3
<1>5. ~x => (g = << >> => lines = << >>)
  BY <1>1, <1>2 DEF GivenIs
<1>6. ~x => \A k \in DOMAIN g : g[k] = m - Len(g) + k
  BY <1>1, <1>3 DEF GivenIs
<1>7. ~x => g = [k \in DOMAIN g |-> m - Len(g) + k]
  BY <1>4, <1>6
<1>8. \A k \in 1..(Len(g) - 1) : g[k] < g[k + 1]
  BY <1>1 DEF GivenIs
<1> QED
  BY <1>5, <1>7, <1>8 DEF s, g, m, x

LEMMA LogInvTells ==
    ASSUME LogInv
    PROVE  LogTells
<1>1. NoSendOnClosed
  BY DEF LogInv, ReaderIs, NoSendOnClosed
<1> QED
  BY <1>1, LogInvCuts, LogInvRing, LogInvGap DEF LogTells

\* The log's inductive invariant.
THEOREM LogInvariance == LogSpec => []LogInv
<1>1. LogInit => LogInv
  BY LogInitial
<1>2. LogInv /\ [LogNext]_logVars => LogInv'
  BY LogStep
<1> QED
  BY <1>1, <1>2, PTL DEF LogSpec

\* The ring, the incomplete line and the readers' channels keep their types, and no
\* channel holds more than it can (agent/logs.go).
THEOREM LogTyped == LogSpec => []LogTypes
<1>1. LogInv => LogTypes
  BY LogInvTypes
<1> QED
  BY <1>1, LogInvariance, PTL

\* Whoever reads the agent's log reads what the game has written, for every capacity,
\* every set of readers and every cut of the output into writes (agent/logs.go, Write
\* and Subscribe).
THEOREM LogTellsAlways == LogSpec => []LogTells
<1>1. LogInv => LogTells
  BY LogInvTells
<1> QED
  BY <1>1, LogInvariance, PTL

-----------------------------------------------------------------------------
(***************************************************************************)
(* What Prepare says is so, for any number of instances and games, starts  *)
(* and readings of the clock.                                              *)
(*                                                                         *)
(* PrepareIsTrue is not inductive.  That an instance that goes on has its  *)
(* image and assets needs what each state of a job says of them (JobTells);*)
(* that a failure is a start's own needs the order of the times (Times);   *)
(* and that no failure is tried again without a start needs that a start   *)
(* which may still begin a job is one no job has been counted for (Spare). *)
(***************************************************************************)
OfGame(g) == {i \in Instances : Game[i] = g}

\* A job has an error only when it has ended, knows its assets only when it has ended
\* well, fetches them only when the image is there, and has ended well only with both.
JobTells ==
    \A g \in Games :
        /\ job[g].st = "none" => job[g] = NoJob
        /\ job[g].err => Ended(g)
        /\ job[g].assets => Ended(g) /\ ~job[g].err
        /\ job[g].st = "fetches" => g \in images /\ hasAssets
        /\ Ended(g) /\ ~job[g].err => g \in images /\ (hasAssets => job[g].assets)

\* No job and no start is of the future, and an instance Prepare is asked for was started.
Times ==
    /\ \A g \in Games : job[g].started <= now
    /\ \A i \in Instances :
         /\ instance[i].startedAt <= now
         /\ instance[i].st \in {"queued", "preparing"} => instance[i].starts >= 1

\* The start of i may still begin a job of its game.
MayBegin(i) ==
    instance[i].starts >= 1 /\ (job[Game[i]] = NoJob \/ Younger(i, job[Game[i]]))
\* A start that may still begin a job has not had one counted for it.
Spare ==
    \A g \in Games :
        /\ attempts[g] <= StartsOf(OfGame(g))
        /\ \A i \in OfGame(g) : MayBegin(i) => attempts[g] < StartsOf(OfGame(g))

PrepareInv == PrepareTypes /\ JobTells /\ Times /\ Spare /\ ReadyIsUsable /\ FailureIsOwn /\ OneAtATime

-----------------------------------------------------------------------------
(* The number of starts.                                                   *)

StartsIn(f, S) == {p \in S \X (1..MaxStarts) : p[2] <= f[p[1]].starts}

\* The starts of a set of instances are finitely many.
LEMMA StartsFinite ==
    ASSUME NEW f, NEW S \in SUBSET Instances
    PROVE  IsFiniteSet(StartsIn(f, S)) /\ Cardinality(StartsIn(f, S)) \in Nat
<1>1. IsFiniteSet(S)
  BY PrepareAssumption, FS_Subset
<1>2. IsFiniteSet(1..MaxStarts)
  BY PrepareAssumption, FS_Interval
<1>3. IsFiniteSet(S \X (1..MaxStarts))
  BY <1>1, <1>2, FS_Product
<1>4. StartsIn(f, S) \subseteq S \X (1..MaxStarts)
  BY DEF StartsIn
<1>5. IsFiniteSet(StartsIn(f, S))
  BY <1>3, <1>4, FS_Subset
<1> QED
  BY <1>5, FS_CardinalityType

\* An instance that was started as often as can be has used up all starts.
LEMMA RoomToStart ==
    ASSUME NEW f, NEW i \in Instances, f[i].starts \in 0..MaxStarts,
           Cardinality(StartsIn(f, Instances)) < MaxStarts
    PROVE  f[i].starts < MaxStarts
<1> SUFFICES ASSUME f[i].starts = MaxStarts PROVE FALSE
  BY PrepareAssumption
<1> DEFINE all == {i} \X (1..MaxStarts)
<1>1. all \subseteq StartsIn(f, Instances)
  BY PrepareAssumption DEF StartsIn
<1>2. IsFiniteSet({i}) /\ Cardinality({i}) = 1
  BY FS_Singleton
<1>3. IsFiniteSet(1..MaxStarts) /\ Cardinality(1..MaxStarts) = MaxStarts
  BY PrepareAssumption, FS_Interval
<1>4. IsFiniteSet(all) /\ Cardinality(all) = 1 * MaxStarts
  BY <1>2, <1>3, FS_Product
<1>5. Cardinality(all) <= Cardinality(StartsIn(f, Instances))
  BY <1>1, StartsFinite, FS_Subset
<1> HIDE DEF all
<1> QED
  BY <1>4, <1>5, StartsFinite, PrepareAssumption

\* One more start of i is one more of every set that i is in, and none of the others.
LEMMA OneMoreStart ==
    ASSUME NEW f, NEW h, NEW i \in Instances, NEW S \in SUBSET Instances,
           f[i].starts \in 0..MaxStarts, f[i].starts < MaxStarts,
           h[i].starts = f[i].starts + 1,
           \A j \in Instances \ {i} : h[j].starts = f[j].starts
    PROVE  Cardinality(StartsIn(h, S)) = Cardinality(StartsIn(f, S)) + (IF i \in S THEN 1 ELSE 0)
<1>1. CASE i \notin S
  <2>1. StartsIn(h, S) = StartsIn(f, S)
    BY <1>1 DEF StartsIn
  <2> QED
    BY <1>1, <2>1, StartsFinite
<1>2. CASE i \in S
  <2> DEFINE e == <<i, f[i].starts + 1>>
  <2>1. e \notin StartsIn(f, S)
    BY PrepareAssumption DEF StartsIn
  <2>2. StartsIn(h, S) = StartsIn(f, S) \cup {e}
    <3>1. ASSUME NEW p \in StartsIn(h, S) PROVE p \in StartsIn(f, S) \cup {e}
      <4>1. PICK j \in S, n \in 1..MaxStarts : p = <<j, n>> /\ n <= h[j].starts
        BY <3>1 DEF StartsIn
      <4>2. CASE j = i
        BY <4>1, <4>2, <1>2, PrepareAssumption DEF StartsIn
      <4>3. CASE j # i
        BY <4>1, <4>3 DEF StartsIn
      <4> QED
        BY <4>2, <4>3
    <3>2. ASSUME NEW p \in StartsIn(f, S) PROVE p \in StartsIn(h, S)
      <4>1. PICK j \in S, n \in 1..MaxStarts : p = <<j, n>> /\ n <= f[j].starts
        BY <3>2 DEF StartsIn
      <4>2. CASE j = i
        <5>1. n <= h[j].starts
          BY <4>1, <4>2, PrepareAssumption
        <5> QED
          BY <4>1, <5>1 DEF StartsIn
      <4>3. CASE j # i
        BY <4>1, <4>3 DEF StartsIn
      <4> QED
        BY <4>2, <4>3
    <3>3. e \in StartsIn(h, S)
      BY <1>2, PrepareAssumption DEF StartsIn
    <3> QED
      BY <3>1, <3>2, <3>3
  <2> HIDE DEF e
  <2>3. Cardinality(StartsIn(f, S) \cup {e}) = Cardinality(StartsIn(f, S)) + 1
    BY <2>1, StartsFinite, FS_AddElement
  <2> QED
    BY <1>2, <2>2, <2>3
<1> QED
  BY <1>1, <1>2

\* StartsOf counts the starts of the instances as they are.
LEMMA StartsOfNow ==
    ASSUME NEW S
    PROVE  /\ StartsOf(S) = Cardinality(StartsIn(instance, S))
           /\ StartsOf(S)' = Cardinality(StartsIn(instance', S))
BY DEF StartsOf, StartsIn

\* Where no instance is started the numbers of starts stay.
LEMMA SameStarts ==
    ASSUME NEW f, NEW h, NEW S \in SUBSET Instances,
           \A j \in Instances : h[j].starts = f[j].starts
    PROVE  Cardinality(StartsIn(h, S)) = Cardinality(StartsIn(f, S))
<1>1. StartsIn(h, S) = StartsIn(f, S)
  BY DEF StartsIn
<1> QED
  BY <1>1

-----------------------------------------------------------------------------
(* The steps of a job.                                                     *)

\* Every instance has a game.
LEMMA GameOf == ASSUME NEW i \in Instances PROVE Game[i] \in Games
BY DEF Games

\* What the goroutine of a job may do to it.
JobSteps(g) == TakesSlot(g) \/ Expires(g) \/ Looks(g) \/ Pulls(g) \/ Fetches(g)

\* A step of a job is of one that works; it stays the same job, the jobs of other games
\* are left alone, and no image is lost.
LEMMA JobMoves ==
    ASSUME PrepareTypes, NEW g \in Games, JobSteps(g)
    PROVE  /\ Working(g)
           /\ job' \in [Games -> Job] /\ images' \subseteq Games /\ images \subseteq images'
           /\ job'[g].started = job[g].started /\ job'[g].st # "none"
           /\ \A h \in Games \ {g} : job'[h] = job[h]
           /\ instance' = instance /\ now' = now /\ service' = service /\ attempts' = attempts
<1> USE DEF PrepareTypes, Working, Job
<1>1. CASE TakesSlot(g)
  BY <1>1 DEF TakesSlot
<1>2. CASE Expires(g)
  BY <1>2 DEF Expires, Fails
<1>3. CASE Looks(g)
  BY <1>3 DEF Looks, Onward
<1>4. CASE Pulls(g)
  <2>1. PICK p \in Pull :
          /\ images' = IF p.image THEN images \cup {g} ELSE images
          /\ job' = [job EXCEPT ![g] = IF p.err THEN Fails(g) ELSE Onward(g)]
    BY <1>4 DEF Pulls
  <2>2. images' \subseteq Games /\ images \subseteq images'
    BY <2>1
  <2>3. CASE p.err
    BY <1>4, <2>1, <2>2, <2>3 DEF Pulls, Fails
  <2>4. CASE ~p.err
    BY <1>4, <2>1, <2>2, <2>4 DEF Pulls, Onward
  <2> QED
    BY <2>3, <2>4
<1>5. CASE Fetches(g)
  BY <1>5 DEF Fetches
<1> QED
  BY <1>1, <1>2, <1>3, <1>4, <1>5 DEF JobSteps

\* And what a job says of its image and assets stays true.
LEMMA JobMovesTell ==
    ASSUME PrepareTypes, JobTells, hasAssets' = hasAssets, NEW g \in Games, JobSteps(g)
    PROVE  JobTells'
<1>1. \A h \in Games \ {g} : job'[h] = job[h]
  BY JobMoves
<1>2. images \subseteq images' /\ job'[g].st # "none" /\ Working(g)
  BY JobMoves
<1> DEFINE Tells == /\ job'[g].err => job'[g].st = "done"
                    /\ job'[g].assets => job'[g].st = "done" /\ ~job'[g].err
                    /\ job'[g].st = "fetches" => g \in images' /\ hasAssets
                    /\ job'[g].st = "done" /\ ~job'[g].err => g \in images' /\ (hasAssets => job'[g].assets)
<1>3. job[g] \in Job /\ ~job[g].err /\ ~job[g].assets
  BY <1>2 DEF JobTells, Working, Ended, PrepareTypes
<1>4. Tells
  <2> USE DEF PrepareTypes, Job
  <2>1. CASE TakesSlot(g)
    BY <2>1, <1>3 DEF TakesSlot
  <2>2. CASE Expires(g)
    BY <2>2, <1>3 DEF Expires, Fails
  <2>3. CASE Looks(g)
    BY <2>3, <1>3 DEF Looks, Onward
  <2>4. CASE Pulls(g)
    <3>1. PICK p \in Pull :
            /\ images' = IF p.image THEN images \cup {g} ELSE images
            /\ job' = [job EXCEPT ![g] = IF p.err THEN Fails(g) ELSE Onward(g)]
      BY <2>4 DEF Pulls
    <3>2. CASE p.err
      BY <3>1, <3>2, <1>3 DEF Fails
    <3>3. CASE ~p.err
      <4>1. p.image
        BY <3>3 DEF Pull
      <4> QED
        BY <3>1, <3>3, <4>1, <1>3 DEF Onward
    <3> QED
      BY <3>2, <3>3
  <2>5. CASE Fetches(g)
    BY <2>5, <1>3 DEF Fetches, JobTells
  <2> QED
    BY <2>1, <2>2, <2>3, <2>4, <2>5 DEF JobSteps
<1> HIDE DEF Tells
<1> SUFFICES ASSUME NEW h \in Games
             PROVE  /\ job'[h].st = "none" => job'[h] = NoJob
                    /\ job'[h].err => job'[h].st = "done"
                    /\ job'[h].assets => job'[h].st = "done" /\ ~job'[h].err
                    /\ job'[h].st = "fetches" => h \in images' /\ hasAssets'
                    /\ job'[h].st = "done" /\ ~job'[h].err =>
                          h \in images' /\ (hasAssets' => job'[h].assets)
  BY DEF JobTells, Ended, NoJob
<1>5. CASE h = g
  BY <1>2, <1>4, <1>5 DEF Tells
<1>6. CASE h # g
  BY <1>1, <1>2, <1>6 DEF JobTells, Ended
<1> QED
  BY <1>5, <1>6

-----------------------------------------------------------------------------
(* Each part of the invariant is kept.                                     *)

\* What the controller does with an instance.
InstanceSteps(i) ==
    \/ Stops(i) \/ PrepareIsReady(i) \/ PrepareFails(i) \/ PrepareWaits(i) \/ PrepareBegins(i)

\* All but a start leave the starts as they are, and only a first job or one after a
\* failure that is older than the start is begun.
LEMMA InstanceMoves ==
    ASSUME PrepareTypes, NEW i \in Instances, InstanceSteps(i)
    PROVE  /\ instance' \in [Instances -> Instance]
           /\ \A j \in Instances : /\ instance'[j].starts = instance[j].starts
                                   /\ instance'[j].startedAt = instance[j].startedAt
           /\ \A j \in Instances \ {i} : instance'[j] = instance[j]
           /\ instance[i].st \in {"queued", "preparing"}
           /\ images' = images /\ now' = now /\ service' = service
<1> USE DEF PrepareTypes, Instance, Job, Says, Asks
<1>1. CASE Stops(i)
  BY <1>1 DEF Stops
<1>2. CASE PrepareIsReady(i)
  BY <1>2 DEF PrepareIsReady
<1>3. CASE PrepareFails(i)
  <2>1. job[Game[i]].started \in 0..MaxTime /\ now \in 0..MaxTime
    BY GameOf
  <2>2. PICK t \in 0..MaxTime : instance' = [instance EXCEPT ![i].st = "failed", ![i].failed = t]
    BY <1>3, <2>1 DEF PrepareFails
  <2> QED
    BY <1>3, <2>2 DEF PrepareFails
<1>4. CASE PrepareWaits(i)
  BY <1>4 DEF PrepareWaits
<1>5. CASE PrepareBegins(i)
  BY <1>5 DEF PrepareBegins
<1> QED
  BY <1>1, <1>2, <1>3, <1>4, <1>5 DEF InstanceSteps

\* A job is begun or none is.
LEMMA JobBegins ==
    ASSUME PrepareTypes, NEW i \in Instances, InstanceSteps(i)
    PROVE  \/ job' = job /\ attempts' = attempts
           \/ /\ Asks(i) /\ PrepareBegins(i)
              /\ job[Game[i]] = NoJob \/ (Ended(Game[i]) /\ job[Game[i]].err /\ Younger(i, job[Game[i]]))
              /\ job' = [job EXCEPT ![Game[i]] =
                           [st |-> "waits", started |-> now, assets |-> FALSE, err |-> FALSE]]
              /\ attempts' = [attempts EXCEPT ![Game[i]] = @ + 1]
BY DEF InstanceSteps, Stops, PrepareIsReady, PrepareFails, PrepareWaits, PrepareBegins

\* Every step is one of these.
LEMMA PrepareSteps ==
    ASSUME PrepareNext
    PROVE  /\ hasAssets' = hasAssets
           /\ \/ \E i \in Instances : Starts(i)
              \/ \E i \in Instances : InstanceSteps(i)
              \/ \E g \in Games : JobSteps(g)
              \/ Close \/ Closed \/ Tick
BY DEF PrepareNext, InstanceSteps, JobSteps

\* A start starts the instance once more.
LEMMA StartMoves ==
    ASSUME PrepareTypes, NEW i \in Instances, Starts(i)
    PROVE  /\ instance' \in [Instances -> Instance]
           /\ instance[i].starts < MaxStarts /\ instance'[i].starts = instance[i].starts + 1
           /\ instance'[i].st = "queued" /\ instance'[i].startedAt = now
           /\ \A j \in Instances \ {i} : instance'[j] = instance[j]
           /\ job' = job /\ images' = images /\ now' = now /\ service' = service
           /\ attempts' = attempts
<1>1. instance[i].starts < MaxStarts
  BY RoomToStart, StartsOfNow DEF Starts, PrepareTypes, Instance
<1> QED
  BY <1>1, PrepareAssumption DEF Starts, PrepareTypes, Instance

LEMMA TypesKept == PrepareTypes /\ PrepareNext => PrepareTypes'
<1> SUFFICES ASSUME PrepareTypes, PrepareNext PROVE PrepareTypes'
  OBVIOUS
<1>0. hasAssets' = hasAssets
  BY PrepareSteps
<1>1. CASE \E i \in Instances : Starts(i)
  BY <1>0, <1>1, StartMoves DEF PrepareTypes
<1>2. ASSUME NEW i \in Instances, InstanceSteps(i) PROVE PrepareTypes'
  <2>1. instance' \in [Instances -> Instance] /\ images' = images /\ now' = now /\ service' = service
    BY <1>2, InstanceMoves
  <2>2. job' \in [Games -> Job] /\ attempts' \in [Games -> Nat]
    <3>1. [st |-> "waits", started |-> now, assets |-> FALSE, err |-> FALSE] \in Job
      BY DEF PrepareTypes, Job
    <3>2. job' \in [Games -> Job]
      BY <1>2, <3>1, JobBegins DEF PrepareTypes
    <3>3. attempts' \in [Games -> Nat]
      BY <1>2, GameOf, JobBegins DEF PrepareTypes
    <3> QED
      BY <3>2, <3>3
  <2> QED
    BY <1>0, <2>1, <2>2 DEF PrepareTypes
<1>3. CASE \E g \in Games : JobSteps(g)
  BY <1>0, <1>3, JobMoves DEF PrepareTypes
<1>4. CASE Close \/ Closed \/ Tick
  BY <1>0, <1>4, PrepareAssumption DEF PrepareTypes, Close, Closed, Tick
<1> QED
  BY <1>1, <1>2, <1>3, <1>4, PrepareSteps

LEMMA JobTellsKept == PrepareTypes /\ JobTells /\ PrepareNext => JobTells'
<1> SUFFICES ASSUME PrepareTypes, JobTells, PrepareNext PROVE JobTells'
  OBVIOUS
<1>0. hasAssets' = hasAssets
  BY PrepareSteps
<1>1. CASE job' = job /\ images' = images
  BY <1>0, <1>1 DEF JobTells, Ended
<1>2. ASSUME NEW i \in Instances, InstanceSteps(i) PROVE JobTells'
  <2>1. images' = images
    BY <1>2, InstanceMoves
  <2>2. CASE job' = job
    BY <1>1, <2>1, <2>2
  <2>3. CASE job' = [job EXCEPT ![Game[i]] =
                       [st |-> "waits", started |-> now, assets |-> FALSE, err |-> FALSE]]
    BY <1>0, <2>1, <2>3, GameOf DEF JobTells, Ended, PrepareTypes
  <2> QED
    BY <1>2, <2>2, <2>3, JobBegins
<1>3. CASE \E g \in Games : JobSteps(g)
  BY <1>0, <1>3, JobMovesTell
<1>4. CASE \E i \in Instances : Starts(i)
  BY <1>1, <1>4, StartMoves
<1>5. CASE Close \/ Closed \/ Tick
  BY <1>1, <1>5 DEF Close, Closed, Tick
<1> QED
  BY <1>2, <1>3, <1>4, <1>5, PrepareSteps

LEMMA TimesKept == PrepareTypes /\ Times /\ PrepareNext => Times'
<1> SUFFICES ASSUME PrepareTypes, Times, PrepareNext PROVE Times'
  OBVIOUS
<1>1. ASSUME NEW i \in Instances, Starts(i) PROVE Times'
  BY <1>1, StartMoves DEF Times, PrepareTypes, Instance
<1>2. ASSUME NEW i \in Instances, InstanceSteps(i) PROVE Times'
  <2>1. now' = now /\ now \in Nat /\ instance[i].starts >= 1
    BY <1>2, InstanceMoves DEF Times, PrepareTypes
  <2>2. \A j \in Instances : instance'[j].startedAt <= now
    BY <1>2, InstanceMoves DEF Times
  <2>3. \A j \in Instances : instance'[j].st \in {"queued", "preparing"} => instance'[j].starts >= 1
    BY <1>2, <2>1, InstanceMoves DEF Times
  <2>4. \A g \in Games : job'[g].started <= now
    BY <1>2, <2>1, JobBegins DEF Times, PrepareTypes
  <2> QED
    BY <2>1, <2>2, <2>3, <2>4 DEF Times
<1>3. ASSUME NEW g \in Games, JobSteps(g) PROVE Times'
  BY <1>3, JobMoves DEF Times
<1>4. CASE Close \/ Closed
  BY <1>4 DEF Times, Close, Closed
<1>5. CASE Tick
  BY <1>5 DEF Times, Tick, PrepareTypes, Job, Instance
<1> QED
  BY <1>1, <1>2, <1>3, <1>4, <1>5, PrepareSteps

LEMMA SpareKept ==
    PrepareTypes /\ JobTells /\ Times /\ Spare /\ PrepareNext => Spare'
<1> SUFFICES ASSUME PrepareTypes, JobTells, Times, Spare, PrepareNext PROVE Spare'
  OBVIOUS
<1> DEFINE N(g) == Cardinality(StartsIn(instance, OfGame(g)))
           M(g) == Cardinality(StartsIn(instance', OfGame(g)))
<1>0. \A g \in Games : /\ OfGame(g) \in SUBSET Instances /\ StartsOf(OfGame(g)) = N(g)
                       /\ StartsOf(OfGame(g))' = M(g)
                       /\ N(g) \in Nat /\ M(g) \in Nat /\ attempts[g] \in Nat
  BY StartsOfNow, StartsFinite DEF OfGame, StartsOf, StartsIn, PrepareTypes
<1>00. \A g \in Games : /\ attempts[g] <= N(g)
                        /\ \A i \in OfGame(g) : MayBegin(i) => attempts[g] < N(g)
  BY <1>0 DEF Spare
<1> SUFFICES ASSUME NEW g \in Games
             PROVE  /\ attempts'[g] <= M(g)
                    /\ \A i \in OfGame(g) : MayBegin(i)' => attempts'[g] < M(g)
  BY <1>0 DEF Spare, OfGame
<1> HIDE DEF N, M
<1>1. ASSUME NEW i \in Instances, Starts(i)
      PROVE  /\ attempts'[g] <= M(g)
             /\ \A j \in OfGame(g) : MayBegin(j)' => attempts'[g] < M(g)
  <2>1. /\ instance[i].starts \in 0..MaxStarts /\ instance[i].starts < MaxStarts
        /\ instance'[i].starts = instance[i].starts + 1
        /\ \A j \in Instances \ {i} : instance'[j] = instance[j]
    BY <1>1, StartMoves DEF PrepareTypes, Instance
  <2>2. M(g) = N(g) + (IF i \in OfGame(g) THEN 1 ELSE 0)
    BY <1>0, <2>1, OneMoreStart DEF N, M
  <2>3. CASE i \in OfGame(g)
    BY <1>0, <1>00, <1>1, <2>2, <2>3, StartMoves
  <2>4. CASE i \notin OfGame(g)
    <3>1. \A j \in OfGame(g) : MayBegin(j)' => MayBegin(j)
      BY <1>1, <2>1, <2>4, StartMoves DEF MayBegin, Younger, OfGame
    <3> QED
      BY <1>0, <1>00, <1>1, <2>2, <2>4, <3>1, StartMoves
  <2> QED
    BY <2>3, <2>4
<1>2. ASSUME instance' = instance \/
             \E i \in Instances : InstanceSteps(i)
      PROVE  M(g) = N(g)
  <2>1. \A j \in Instances : instance'[j].starts = instance[j].starts
    BY <1>2, InstanceMoves
  <2> QED
    BY <1>0, <2>1, SameStarts DEF M, N
<1>3. ASSUME NEW i \in Instances, InstanceSteps(i)
      PROVE  /\ attempts'[g] <= M(g)
             /\ \A j \in OfGame(g) : MayBegin(j)' => attempts'[g] < M(g)
  <2>0. \A j \in Instances : /\ instance'[j].starts = instance[j].starts
                             /\ instance'[j].startedAt = instance[j].startedAt
    BY <1>3, InstanceMoves
  <2>1. CASE job'[g] = job[g] /\ attempts'[g] = attempts[g]
    <3>1. \A j \in OfGame(g) : MayBegin(j)' => MayBegin(j)
      BY <2>0, <2>1 DEF MayBegin, Younger, OfGame, NoJob
    <3> QED
      BY <1>00, <1>2, <1>3, <2>1, <3>1
  <2>2. CASE g = Game[i] /\ PrepareBegins(i)
    <3>1. MayBegin(i) /\ i \in OfGame(g)
      BY <2>2, <1>3, InstanceMoves DEF Times, MayBegin, PrepareBegins, OfGame
    <3>2. attempts'[g] = attempts[g] + 1
      BY <2>2 DEF PrepareBegins, PrepareTypes
    <3>3. attempts'[g] <= M(g)
      BY <1>0, <1>00, <1>2, <1>3, <3>1, <3>2
    <3>4. job'[g].st = "waits" /\ job'[g].started = now
      BY <2>2 DEF PrepareBegins, PrepareTypes
    <3>5. ASSUME NEW j \in OfGame(g) PROVE ~MayBegin(j)'
      <4>1. j \in Instances /\ Game[j] = g
        BY DEF OfGame
      <4>2. instance'[j].startedAt <= now /\ instance'[j].startedAt \in Nat /\ now \in Nat
        BY <2>0, <4>1 DEF Times, PrepareTypes, Instance
      <4>3. job'[g] # NoJob
        BY <3>4 DEF NoJob
      <4> QED
        BY <3>4, <4>1, <4>2, <4>3 DEF MayBegin, Younger, NoJob
    <3> QED
      BY <3>3, <3>5
  <2> QED
    BY <1>3, <2>1, <2>2, GameOf, JobBegins DEF PrepareTypes
<1>4. ASSUME NEW h \in Games, JobSteps(h)
      PROVE  /\ attempts'[g] <= M(g)
             /\ \A j \in OfGame(g) : MayBegin(j)' => attempts'[g] < M(g)
  <2>1. instance' = instance /\ attempts' = attempts
    BY <1>4, JobMoves
  <2>2. job'[g].started = job[g].started /\ (job'[g] = NoJob => job[g] = NoJob)
    BY <1>4, JobMoves DEF NoJob
  <2>3. \A j \in OfGame(g) : MayBegin(j)' => MayBegin(j)
    BY <2>1, <2>2 DEF MayBegin, Younger, OfGame, NoJob
  <2> QED
    BY <1>00, <1>2, <2>1, <2>3
<1>5. CASE Close \/ Closed \/ Tick
  <2>1. instance' = instance /\ attempts' = attempts /\ job' = job
    BY <1>5 DEF Close, Closed, Tick
  <2>2. \A j \in OfGame(g) : MayBegin(j)' => MayBegin(j)
    BY <2>1 DEF MayBegin, Younger, OfGame, NoJob
  <2> QED
    BY <1>00, <1>2, <2>1, <2>2
<1> QED
  BY <1>1, <1>3, <1>4, <1>5, PrepareSteps

LEMMA ReadyKept ==
    PrepareTypes /\ JobTells /\ ReadyIsUsable /\ PrepareNext => ReadyIsUsable'
<1> SUFFICES ASSUME PrepareTypes, JobTells, ReadyIsUsable, PrepareNext,
                    NEW j \in Instances, instance'[j].st = "ready"
             PROVE  /\ Game[j] \in images'
                    /\ hasAssets' => job'[Game[j]].st = "done" /\ job'[Game[j]].assets
  BY DEF ReadyIsUsable, Ended
<1> DEFINE g == Game[j]
<1>0. g \in Games /\ hasAssets' = hasAssets
  BY GameOf, PrepareSteps
<1>1. CASE instance[j].st = "ready" /\ job'[g] = job[g] /\ images \subseteq images'
  BY <1>0, <1>1 DEF ReadyIsUsable, Ended
<1>2. ASSUME NEW i \in Instances, Starts(i)
      PROVE  instance[j].st = "ready" /\ job'[g] = job[g] /\ images \subseteq images'
  BY <1>2, StartMoves
<1>3. ASSUME NEW i \in Instances, InstanceSteps(i)
      PROVE  /\ Game[j] \in images'
             /\ hasAssets' => job'[Game[j]].st = "done" /\ job'[Game[j]].assets
  <2>1. images' = images
    BY <1>3, InstanceMoves
  <2>2. CASE instance[j].st = "ready"
    <3>1. job[g].assets => job[g].st = "done" /\ ~job[g].err
      BY <1>0 DEF JobTells, Ended
    <3>2. CASE job' = job
      BY <1>1, <2>1, <2>2, <3>2
    <3>3. CASE hasAssets
      <4>1. job[g].st = "done" /\ ~job[g].err /\ job[g] # NoJob
        BY <2>2, <3>1, <3>3 DEF ReadyIsUsable, Ended, NoJob
      <4>2. job'[g] = job[g]
        BY <1>0, <1>3, <4>1, GameOf, JobBegins DEF PrepareTypes
      <4> QED
        BY <1>1, <2>1, <2>2, <4>2
    <3>4. CASE ~hasAssets
      BY <1>0, <2>1, <2>2, <3>4 DEF ReadyIsUsable
    <3> QED
      BY <3>3, <3>4
  <2>3. CASE instance[j].st # "ready"
    <3>1. i = j
      BY <1>3, <2>3, InstanceMoves
    <3>2. PrepareIsReady(j)
      <4>1. instance[j].st \in {"queued", "preparing"}
        BY <1>3, <3>1, InstanceMoves
      <4> QED
        BY <1>3, <3>1 DEF InstanceSteps, Stops, PrepareFails, PrepareWaits, PrepareBegins, Says,
                          PrepareTypes, Instance
    <3>3. CASE Ended(g) /\ ~job[g].err
      BY <1>0, <2>1, <3>2, <3>3 DEF PrepareIsReady, JobTells, Ended
    <3>4. CASE job[g] = NoJob /\ ~hasAssets /\ g \in images
      BY <1>0, <2>1, <3>4
    <3> QED
      BY <3>2, <3>3, <3>4 DEF PrepareIsReady
  <2> QED
    BY <2>2, <2>3
<1>4. ASSUME NEW h \in Games, JobSteps(h)
      PROVE  /\ Game[j] \in images'
             /\ hasAssets' => job'[Game[j]].st = "done" /\ job'[Game[j]].assets
  <2>1. instance' = instance /\ images \subseteq images'
    BY <1>4, JobMoves
  <2>2. CASE h = g
    <3>1. ~Ended(g)
      BY <1>4, <2>2, JobMoves DEF Working, Ended
    <3> QED
      BY <1>0, <2>1, <3>1 DEF ReadyIsUsable
  <2>3. CASE h # g
    BY <1>0, <1>1, <1>4, <2>1, <2>3, JobMoves
  <2> QED
    BY <2>2, <2>3
<1>5. CASE Close \/ Closed \/ Tick
  BY <1>1, <1>5 DEF Close, Closed, Tick
<1> QED
  BY <1>1, <1>2, <1>3, <1>4, <1>5, PrepareSteps

LEMMA FailureKept ==
    PrepareTypes /\ Times /\ FailureIsOwn /\ PrepareNext => FailureIsOwn'
<1> SUFFICES ASSUME PrepareTypes, Times, FailureIsOwn, PrepareNext,
                    NEW j \in Instances, instance'[j].st = "failed"
             PROVE  instance'[j].failed >= instance'[j].startedAt
  BY DEF FailureIsOwn
<1>1. CASE instance'[j] = instance[j]
  BY <1>1 DEF FailureIsOwn
<1>2. ASSUME NEW i \in Instances, Starts(i) PROVE instance'[j] = instance[j]
  BY <1>2, StartMoves
<1>3. ASSUME NEW i \in Instances, InstanceSteps(i), instance'[j] # instance[j]
      PROVE  instance'[j].failed >= instance'[j].startedAt
  <2>1. i = j /\ instance[j].st # "failed"
    BY <1>3, InstanceMoves
  <2>2. PrepareFails(j)
    BY <1>3, <2>1 DEF InstanceSteps, Stops, PrepareIsReady, PrepareWaits, PrepareBegins, Says,
                      PrepareTypes, Instance
  <2>3. /\ instance[j].startedAt \in Nat /\ instance[j].startedAt <= now /\ now \in Nat
        /\ job[Game[j]].started \in Nat
    BY GameOf DEF Times, PrepareTypes, Instance, Job
  <2>4. \/ /\ instance' = [instance EXCEPT ![j].st = "failed", ![j].failed = job[Game[j]].started]
           /\ ~Younger(j, job[Game[j]])
        \/ instance' = [instance EXCEPT ![j].st = "failed", ![j].failed = now]
    BY <2>2 DEF PrepareFails
  <2> QED
    BY <2>3, <2>4 DEF Younger, PrepareTypes, Instance
<1>4. ASSUME NEW h \in Games, JobSteps(h) PROVE instance'[j] = instance[j]
  BY <1>4, JobMoves
<1>5. CASE Close \/ Closed \/ Tick
  BY <1>1, <1>5 DEF Close, Closed, Tick
<1> QED
  BY <1>1, <1>2, <1>3, <1>4, <1>5, PrepareSteps

LEMMA OneKept ==
    PrepareTypes /\ OneAtATime /\ PrepareNext => OneAtATime'
<1> SUFFICES ASSUME PrepareTypes, OneAtATime, PrepareNext PROVE OneAtATime'
  OBVIOUS
<1>1. CASE job' = job /\ (service' = "closed" => service = "closed")
  BY <1>1 DEF OneAtATime, HasSlot, Working
<1>2. ASSUME NEW i \in Instances, Starts(i) PROVE OneAtATime'
  BY <1>1, <1>2, StartMoves
<1>3. ASSUME NEW i \in Instances, InstanceSteps(i) PROVE OneAtATime'
  <2>1. service' = service
    BY <1>3, InstanceMoves
  <2>2. CASE PrepareBegins(i)
    <3>1. service = "open"
      BY <2>2 DEF PrepareBegins, Asks
    <3>2. \A g \in Games : job'[g] = job[g] \/ job'[g].st = "waits"
      BY <2>2 DEF PrepareBegins, PrepareTypes
    <3> QED
      BY <2>1, <3>1, <3>2 DEF OneAtATime, HasSlot
  <2> QED
    BY <1>1, <1>3, <2>1, <2>2, JobBegins
<1>4. ASSUME NEW g \in Games, JobSteps(g) PROVE OneAtATime'
  <2>1. Working(g) /\ service' = service /\ \A h \in Games \ {g} : job'[h] = job[h]
    BY <1>4, JobMoves
  <2>2. service # "closed"
    BY <2>1 DEF OneAtATime
  <2>3. ASSUME job'[g].st \in {"looks", "pulls", "fetches"}
        PROVE  \A h \in Games \ {g} : ~HasSlot(h)
    <3>1. CASE TakesSlot(g)
      BY <3>1 DEF TakesSlot
    <3>2. CASE Expires(g)
      BY <2>3, <3>2 DEF Expires, Fails, PrepareTypes, Job
    <3>3. CASE Looks(g) \/ Pulls(g) \/ Fetches(g)
      BY <3>3 DEF Looks, Pulls, Fetches, HasSlot, OneAtATime
    <3> QED
      BY <1>4, <3>1, <3>2, <3>3 DEF JobSteps
  <2> QED
    BY <2>1, <2>2, <2>3 DEF OneAtATime, HasSlot
<1>5. CASE Close \/ Tick
  BY <1>1, <1>5 DEF Close, Tick
<1>6. CASE Closed
  BY <1>6 DEF Closed, OneAtATime, HasSlot, Working
<1> QED
  BY <1>2, <1>3, <1>4, <1>5, <1>6, PrepareSteps

-----------------------------------------------------------------------------
(* The theorems.                                                           *)

\* The invariant holds at first and every step of Prepare, of its jobs and of the clock
\* keeps it.
THEOREM PrepareInvariance == PrepareSpec => []PrepareInv
<1>1. PrepareInit => PrepareInv
  <2> SUFFICES ASSUME PrepareInit PROVE PrepareInv
    OBVIOUS
  <2>1. PrepareTypes
    BY PrepareAssumption DEF PrepareInit, PrepareTypes, Job, NoJob, Instance
  <2>2. JobTells /\ ReadyIsUsable /\ FailureIsOwn /\ OneAtATime
    BY DEF PrepareInit, JobTells, ReadyIsUsable, FailureIsOwn, OneAtATime, NoJob, Ended, HasSlot, Working
  <2>3. Times
    BY DEF PrepareInit, Times, NoJob
  <2>4. Spare
    <3> SUFFICES ASSUME NEW g \in Games
                 PROVE  /\ attempts[g] <= StartsOf(OfGame(g))
                        /\ \A i \in OfGame(g) : ~MayBegin(i)
      BY DEF Spare
    <3>1. StartsOf(OfGame(g)) \in Nat
      BY StartsOfNow, StartsFinite DEF OfGame
    <3>2. attempts[g] = 0 /\ \A i \in Instances : instance[i].starts = 0
      BY DEF PrepareInit
    <3> QED
      BY <3>1, <3>2 DEF MayBegin, OfGame
  <2> QED
    BY <2>1, <2>2, <2>3, <2>4 DEF PrepareInv
<1>2. PrepareInv /\ [PrepareNext]_prepareVars => PrepareInv'
  <2> SUFFICES ASSUME PrepareInv, [PrepareNext]_prepareVars PROVE PrepareInv'
    OBVIOUS
  <2>1. CASE PrepareNext
    BY <2>1, TypesKept, JobTellsKept, TimesKept, SpareKept, ReadyKept, FailureKept, OneKept
    DEF PrepareInv
  <2>2. CASE UNCHANGED prepareVars
    <3>1. /\ hasAssets' = hasAssets /\ job' = job /\ images' = images /\ instance' = instance
          /\ now' = now /\ service' = service /\ attempts' = attempts
      BY <2>2 DEF prepareVars
    <3>2. PrepareTypes' /\ JobTells' /\ Times' /\ ReadyIsUsable' /\ FailureIsOwn' /\ OneAtATime'
      BY <3>1 DEF PrepareInv, PrepareTypes, JobTells, Times, ReadyIsUsable, FailureIsOwn,
                  OneAtATime, Ended, HasSlot, Working
    <3>3. Spare'
      BY <3>1 DEF PrepareInv, Spare, StartsOf, MayBegin, Younger, OfGame
    <3> QED
      BY <3>2, <3>3 DEF PrepareInv
  <2> QED
    BY <2>1, <2>2
<1> QED
  BY <1>1, <1>2, PTL DEF PrepareSpec

\* Whatever the Docker daemon and the asset store answer and whoever asks first: a start
\* that goes on has its image and assets, one that fails failed of an attempt that is not
\* older than it, a failure is tried again for a new start only, and games are prepared
\* one at a time and none after Close has returned (docker_prepare.go, Prepare).
THEOREM PrepareTells == PrepareSpec => []PrepareIsTrue
<1>1. PrepareInv => PrepareIsTrue
  BY DEF PrepareInv, PrepareIsTrue, Spare, NoRetryLoop, OfGame
<1> QED
  BY <1>1, PrepareInvariance, PTL

-----------------------------------------------------------------------------
(***************************************************************************)
(* The three as MCParts runs them.                                         *)
(***************************************************************************)

\* A behaviour of MCParts is one of each of its parts, so that what is proved of a part
\* holds of it.
THEOREM PartsAreTheirOwn == Spec => LogSpec /\ BZSpec /\ PrepareSpec
<1>1. Init => LogInit /\ BZInit /\ PrepareInit
  BY DEF Init
<1>2. [Next]_<<part, logVars, bzVars, prepareVars>> =>
        [LogNext]_logVars /\ [BZNext]_bzVars /\ [PrepareNext]_prepareVars
  BY DEF Next
<1> QED
  BY <1>1, <1>2, PTL DEF Spec, LogSpec, BZSpec, PrepareSpec

\* Every variable of the three parts holds a value of its kind, no channel of the log and
\* no queue of a session holds more than it can, and the sessions are counted as they are.
THEOREM PartsTyped == Spec => []TypeOK
<1>1. LogInv /\ BZInv /\ PrepareInv => TypeOK
  BY LogInvTypes DEF TypeOK, BZInv, PrepareInv
<1> QED
  BY <1>1, PartsAreTheirOwn, LogInvariance, BZFlagInvariance, PrepareInvariance, PTL
=============================================================================

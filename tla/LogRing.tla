------------------------------- MODULE LogRing -------------------------------
(***************************************************************************)
(* The agent's log of its game (internal/agent/logs.go): the last lines of *)
(* what the game has written, kept in a ring, and their delivery to the    *)
(* readers of the log (internal/agent/log_http.go).                        *)
(*                                                                         *)
(* The game writes in pieces that end anywhere, also between the two       *)
(* characters of a line ending.  A text is a sequence of characters; the   *)
(* ordinary ones are all alike.  Its standard output and standard error    *)
(* are copied by a goroutine each, whose writes the lock puts in an order: *)
(* the text is all of them in that order, and a line may have parts of     *)
(* both.                                                                   *)
(***************************************************************************)
EXTENDS Integers, Sequences, FiniteSets

CONSTANTS
    Capacity,     \* lines the ring keeps
    Buffer,       \* lines a reader may be behind
    Readers,
    MaxText,      \* bound: characters written
    MaxPiece      \* bound: characters of one write

ASSUME LogAssumption ==
    Capacity \in Nat \ {0} /\ Buffer \in Nat /\ MaxText \in Nat /\ MaxPiece \in Nat

VARIABLES
    ring,     \* the slots, the index of the oldest line and the number of lines
    partial,  \* the line that is not complete yet
    pendingCR,\* the last write has ended with a carriage return
    reader,   \* per reader, its subscription
    written,  \* history: all that was written
    lines     \* history: all lines that were appended

logVars == <<ring, partial, pendingCR, reader, written, lines>>

CR == "\r"
LF == "\n"
Chars == {"x", CR, LF}
Text == Seq(Chars)

\* A line is kept with its number, a history that tells equal lines apart.
NoLine == [n |-> 0, text |-> << >>]
Ring == [slot : [0..(Capacity - 1) -> [n : Nat, text : Text]],
         head : 0..(Capacity - 1), size : 0..Capacity]
\* registered: in the map of subscribers; closed: its channel is closed; history and
\* queue: the lines it has still to write; missed: a line found its channel full.
Reader == [st : {"none", "replays", "live", "leaves"}, registered : BOOLEAN, closed : BOOLEAN,
           history : Seq(Nat), queue : Seq(Nat), got : Seq(Nat), missed : BOOLEAN]
Gone == [st |-> "none", registered |-> FALSE, closed |-> FALSE,
         history |-> << >>, queue |-> << >>, got |-> << >>, missed |-> FALSE]

LogInit ==
    /\ ring = [slot |-> [k \in 0..(Capacity - 1) |-> NoLine], head |-> 0, size |-> 0]
    /\ partial = << >> /\ pendingCR = FALSE
    /\ reader = [r \in Readers |-> Gone]
    /\ written = << >> /\ lines = << >>

-----------------------------------------------------------------------------
(* Writing.                                                                *)

\* Mutant of Appended: the head stays where it is.
MutAppended(r, line) ==
    IF r.size < Capacity
    THEN [r EXCEPT !.slot[(r.head + r.size) % Capacity] = line, !.size = @ + 1]
    ELSE [r EXCEPT !.slot[r.head] = line]
\* appendLocked, as far as the ring goes.
Appended(r, line) ==
    IF r.size < Capacity
    THEN [r EXCEPT !.slot[(r.head + r.size) % Capacity] = line, !.size = @ + 1]
    ELSE [r EXCEPT !.slot[r.head] = line, !.head = (@ + 1) % Capacity]
\* Mutant of Offered: the oldest line makes room.
MutOffered(s, n) ==
    IF ~s.registered THEN s
    ELSE IF Len(s.queue) < Buffer THEN [s EXCEPT !.queue = Append(@, n)]
    ELSE [s EXCEPT !.queue = Append(Tail(@), n)]
\* and the channels: a line that finds its channel full is dropped.
Offered(s, n) ==
    IF ~s.registered THEN s
    ELSE IF Len(s.queue) < Buffer THEN [s EXCEPT !.queue = Append(@, n)]
    ELSE [s EXCEPT !.missed = TRUE]

\* The line goes to the ring and to the channels.
AppendLocked(s, line) ==
    LET n == Len(s.lines) + 1
    IN  [s EXCEPT !.ring = Appended(s.ring, [n |-> n, text |-> line]),
                  !.reader = [r \in Readers |-> Offered(s.reader[r], n)],
                  !.lines = Append(s.lines, line)]

\* The loop of Write over the text: what its i-th character does to the log and to
\* the start of the current line.  A line feed after a carriage return belongs to it.
Scanned(text, i, s) ==
    IF text[i] = LF /\ i > 1 /\ text[i - 1] = CR
    THEN [s EXCEPT !.start = i + 1]
    ELSE IF text[i] \in {CR, LF}
    THEN [AppendLocked(s, SubSeq(text, s.start, i - 1)) EXCEPT !.start = i + 1]
    ELSE s
Scan(text) ==
    LET step[i \in 0..Len(text)] ==
          IF i = 0 THEN [start |-> 1, ring |-> ring, reader |-> reader, lines |-> lines]
          ELSE Scanned(text, i, step[i - 1])
    IN  step[Len(text)]

\* Mutant of Trimmed: a line feed that follows in the next write ends a line.
MutTrimmed(p) == p
Trimmed(p) == IF pendingCR /\ p[1] = LF THEN Tail(p) ELSE p

Write(p) ==
    LET text == partial \o Trimmed(p)
        scan == Scan(text)
    IN  /\ ring' = scan.ring /\ reader' = scan.reader /\ lines' = scan.lines
        /\ pendingCR' = (text # << >> /\ text[Len(text)] = CR)
        /\ partial' = SubSeq(text, scan.start, Len(text))
        /\ written' = written \o p

-----------------------------------------------------------------------------
(* Reading.                                                                *)

Content == [k \in 1..ring.size |-> ring.slot[(ring.head + k - 1) % Capacity]]

Subscribe(r) ==
    /\ reader[r].st = "none"
    /\ reader' = [reader EXCEPT ![r] =
          [Gone EXCEPT !.st = "replays", !.registered = TRUE,
                       !.history = [k \in DOMAIN Content |-> Content[k].n]]]
    /\ UNCHANGED <<ring, partial, pendingCR, written, lines>>
\* The handler writes the history, and then what comes through the channel.
Replays(r) ==
    /\ reader[r].st = "replays"
    /\ reader' = [reader EXCEPT ![r].st = "live", ![r].got = reader[r].history,
                                ![r].history = << >>]
    /\ UNCHANGED <<ring, partial, pendingCR, written, lines>>
Receives(r) ==
    /\ reader[r].st = "live" /\ reader[r].queue # << >>
    /\ reader' = [reader EXCEPT ![r].got = Append(@, Head(reader[r].queue)),
                                ![r].queue = Tail(@)]
    /\ UNCHANGED <<ring, partial, pendingCR, written, lines>>
\* Mutant of Unsubscribes: the channel is closed before the reader is unregistered.
MutUnsubscribes(r) ==
    /\ reader[r].st \in {"replays", "live"}
    /\ reader' = [reader EXCEPT ![r].st = "leaves", ![r].closed = TRUE]
    /\ UNCHANGED <<ring, partial, pendingCR, written, lines>>
\* The client is gone: cancel unregisters the reader and then closes its channel.
Unsubscribes(r) ==
    /\ reader[r].st \in {"replays", "live"}
    /\ reader' = [reader EXCEPT ![r].st = "leaves", ![r].registered = FALSE]
    /\ UNCHANGED <<ring, partial, pendingCR, written, lines>>
Closes(r) ==
    /\ reader[r].st = "leaves"
    /\ reader' = [reader EXCEPT ![r] = Gone]
    /\ UNCHANGED <<ring, partial, pendingCR, written, lines>>

-----------------------------------------------------------------------------
Pieces == UNION {[1..k -> Chars] : k \in 1..MaxPiece}
Writes == \E p \in Pieces : Len(written) + Len(p) <= MaxText /\ Write(p)

LogNext ==
    \/ Writes
    \/ \E r \in Readers : Subscribe(r) \/ Replays(r) \/ Receives(r) \/ Unsubscribes(r) \/ Closes(r)

LogSpec == LogInit /\ [][LogNext]_logVars

-----------------------------------------------------------------------------
(* Properties.                                                             *)

\* Every variable holds a value of its kind, and no channel holds more than it can.
LogTypes ==
    /\ ring \in Ring
    /\ partial \in Text /\ written \in Text /\ pendingCR \in BOOLEAN
    /\ reader \in [Readers -> Reader]
    /\ \A r \in Readers : Len(reader[r].queue) <= Buffer
    /\ lines \in Seq(Text)

\* The lines of a whole text: one for each carriage return and each line feed that
\* does not follow one, with the characters since the last of either.
Endings(w) == {i \in DOMAIN w : w[i] = CR \/ (w[i] = LF /\ ~(i > 1 /\ w[i - 1] = CR))}
RunBefore(w, i) ==
    LET breaks == {0} \cup {j \in 1..(i - 1) : w[j] \in {CR, LF}}
    IN  SubSeq(w, 1 + CHOOSE j \in breaks : \A k \in breaks : k <= j, i - 1)
EndingsTo(w, i) == {j \in Endings(w) : j <= i}

\* How the game's output is cut into writes, also within a line ending, does not
\* show in the log: it has the lines of the whole text, and holds what follows them.
CutsDoNotShow ==
    /\ Len(lines) = Cardinality(Endings(written))
    /\ \A i \in Endings(written) :
         lines[Cardinality(EndingsTo(written, i))] = RunBefore(written, i)
    /\ partial = RunBefore(written, Len(written) + 1)

\* The ring holds the last lines, oldest first, at whatever index it begins.
RingIsTail ==
    Content = [k \in 1..ring.size |->
                 [n |-> Len(lines) - ring.size + k, text |-> lines[Len(lines) - ring.size + k]]]

\* A reader is given the lines in their order, none twice, from the oldest one the
\* ring had: between the history and the channel none is lost, and later ones are
\* only when the reader was a whole channel behind ("Subscribe captures history and
\* registers live delivery under one lock, so no lines fall between").
NoSilentGap ==
    \A r \in Readers :
        LET s == reader[r]
            given == s.got \o s.history \o s.queue
        IN  s.registered =>
              /\ \A k \in 1..(Len(given) - 1) : given[k] < given[k + 1]
              /\ ~s.missed =>
                    /\ given = << >> => lines = << >>
                    /\ given = [k \in DOMAIN given |-> Len(lines) - Len(given) + k]

\* The game's output is never sent to a closed channel, which would end the agent.
NoSendOnClosed == \A r \in Readers : reader[r].registered => ~reader[r].closed

\* Whoever reads the agent's log reads what the game has written, in the order of the
\* writes, be they of its output or of its errors: the ring has the last lines of that,
\* wherever it was cut into writes, and a reader is given them in order, none twice and
\* none lost between the history and the channel; nothing is sent to a reader who has
\* left (agent/logs.go, Write and Subscribe).
LogTells == CutsDoNotShow /\ RingIsTail /\ NoSilentGap /\ NoSendOnClosed
=============================================================================

---------------------------- MODULE GatewayProofs ----------------------------
(***************************************************************************)
(* What WakeGateway guarantees for any number of games, players and        *)
(* starts: one start of a game at a time, an address only on a fresh       *)
(* observation, blame only for what failed, and nothing left in the end.   *)
(*                                                                         *)
(* The argument: a start under way is the current one of its game, because *)
(* only an expired one is replaced and only an ended one expires.  Every   *)
(* start that exists is the current one of a game or is waited for, so     *)
(* that a free identity is found whenever one begins.                      *)
(***************************************************************************)
EXTENDS WakeGateway, FiniteSetTheorems, TLAPS

\* What a start is at each point of wakeGame.
Shape(n) ==
    /\ starts[n].pc = "free" => starts[n] = Free
    /\ starts[n].pc = "wake" => starts[n].observed = "none"
    /\ starts[n].expired => starts[n].pc = "done"
    /\ starts[n].outcome # "none" => starts[n].pc = "done"
    /\ starts[n].outcome = "cancelled" => cancelled

\* A start under way is the current one of its game.
Current(n) == InFlight(n) => starts[n].game \in Games /\ games[starts[n].game] = n

\* Who refers to a start, and that somebody does.
Referred(n) == (\E g \in Games : games[g] = n) \/ (\E r \in Routes : sessions[r].on = n)
Kept1(n) == starts[n].pc # "free" <=> Referred(n)

\* After an observation that followed the first answer, what the database says of
\* the game is what that observation said.
Fresh1(n) ==
    InFlight(n) /\ Fresh(starts[n]) /\ instance[starts[n].game].phase = "running" => starts[n].ready

\* A session waits for a start or refers to none, and nobody has been blamed in vain.
Waits(r) ==
    /\ sessions[r].on # None <=> sessions[r].st = "waits"
    /\ sessions[r].blamed = "cancelled" => cancelled

\* A session its reader is still accepting is the only one.
Accepting(r) ==
    sessions[r].st = "new" =>
        /\ readers[Game(r)] = "accepts"
        /\ \A q \in Routes : sessions[q].st = "new" /\ Game(q) = Game(r) => q = r

\* After Serve has returned nothing begins.
Ended == returned => cancelled /\ Joined

IInv ==
    /\ TypeOK
    /\ \A n \in Starts : Shape(n) /\ Current(n) /\ Kept1(n) /\ Fresh1(n)
    /\ \A r \in Routes : Waits(r) /\ Accepting(r)
    /\ Ended

-----------------------------------------------------------------------------
(* Steps of a start.                                                       *)

\* What becomes of a start in one step of wakeGame, with what happens to the database.
StartMoves(n, v) ==
    /\ starts' = [starts EXCEPT ![n] = v] /\ v \in Start
    /\ starts[n].pc # "free" /\ v.pc # "free" /\ v.game = starts[n].game
    /\ v.pc # "done" => InFlight(n)
    /\ v.pc = "wake" => v.observed = "none"
    /\ v.expired => v.pc = "done"
    /\ v.outcome # "none" => v.pc = "done"
    /\ v.outcome = "cancelled" => cancelled
    /\ v.pc # "done" /\ v.observed = "changed" /\ instance'[v.game].phase = "running" => v.ready
    /\ host' \in BOOLEAN /\ instance' \in [Games -> Instance]
    /\ \A g \in Games : instance'[g].phase = "running" => instance[g].phase = "running"
    /\ UNCHANGED <<games, sessions, clients, gatewayVars>>

\* Such a step keeps the invariant.
LEMMA StartStep ==
    ASSUME IInv, NEW n \in Starts, NEW v, StartMoves(n, v)
    PROVE  IInv'
<1>1. /\ starts' \in [Starts -> Start] /\ starts'[n] = v
      /\ \A m \in Starts \ {n} : starts'[m] = starts[m]
  BY DEF StartMoves, IInv, TypeOK
<1>2. UNCHANGED <<games, sessions, clients, late, readers, cancelled, returned>>
  BY DEF StartMoves, gatewayVars
<1>3. TypeOK'
  BY <1>1, <1>2 DEF StartMoves, IInv, TypeOK
<1>4. \A m \in Starts : Shape(m)'
  BY <1>1, <1>2 DEF StartMoves, IInv, Shape
<1>5. \A m \in Starts : InFlight(m)' => InFlight(m) /\ starts'[m].game = starts[m].game
  BY <1>1 DEF StartMoves, InFlight, IInv, TypeOK, Start
<1>6. \A m \in Starts : Current(m)'
  BY <1>2, <1>5 DEF IInv, Current
<1>7. \A m \in Starts : Kept1(m)'
  BY <1>1, <1>2 DEF StartMoves, IInv, Kept1, Referred
<1>8. \A m \in Starts : Fresh1(m)'
  <2> SUFFICES ASSUME NEW m \in Starts PROVE Fresh1(m)'
    OBVIOUS
  <2>1. CASE m = n
    BY <1>1, <2>1 DEF StartMoves, Fresh1, InFlight, Fresh
  <2>2. CASE m # n
    BY <1>1, <2>2 DEF StartMoves, Fresh1, InFlight, Fresh, IInv, Current
  <2> QED
    BY <2>1, <2>2
<1>9. \A r \in Routes : Waits(r)' /\ Accepting(r)'
  BY <1>2 DEF IInv, Waits, Accepting
<1>10. Ended'
  BY <1>2, <1>5 DEF IInv, Ended, Joined, NoWork
<1> QED
  BY <1>3, <1>4, <1>6, <1>7, <1>8, <1>9, <1>10 DEF IInv

\* What a start that is over looks like.
LEMMA DoneShape ==
    ASSUME NEW start \in Start, NEW outcome \in {"address", "failed", "cancelled"}
    PROVE  /\ Done(start, outcome) \in Start
           /\ Done(start, outcome).pc = "done" /\ Done(start, outcome).game = start.game
           /\ Done(start, outcome).outcome = outcome
           /\ Done(start, outcome).expired = start.expired
BY DEF Done, Start

\* The end of a start under way, for whatever reason but a cancellation nobody asked for.
LEMMA DoneStep ==
    ASSUME IInv, NEW n \in Starts, NEW outcome \in {"address", "failed", "cancelled"},
           InFlight(n), Goes(n, Done(starts[n], outcome)), outcome = "cancelled" => cancelled,
           UNCHANGED <<controllerVars, games, sessions, clients, gatewayVars>>
    PROVE  IInv'
<1>1. starts[n] \in Start
  BY DEF IInv, TypeOK
<1>2. StartMoves(n, Done(starts[n], outcome))
  BY <1>1, DoneShape
  DEF StartMoves, Goes, InFlight, IInv, TypeOK, Shape, controllerVars
<1> QED
  BY <1>2, StartStep

\* Fails and Abandons: the time of a start is over, or the gateway's.
LEMMA FailsStep ==
    ASSUME IInv, NEW n \in Starts, Fails(n) \/ Abandons(n)
    PROVE  IInv'
BY DoneStep DEF Fails, Abandons, Orphaned

\* Wakes: with the host down nothing that was observed counts.
LEMMA WakesStep ==
    ASSUME IInv, NEW n \in Starts, Wakes(n)
    PROVE  IInv'
<1>1. starts[n] \in Start /\ InFlight(n) /\ Shape(n) /\ starts[n].pc = "wake"
  BY DEF IInv, TypeOK, Wakes, InFlight
<1> DEFINE v == [starts[n] EXCEPT !.pc = "poll", !.ready = FALSE]
<1>2. CASE host' = TRUE /\ Goes(n, v)
  <2>1. v \in Start /\ v.pc = "poll" /\ v.game = starts[n].game /\ v.observed = starts[n].observed
        /\ v.expired = starts[n].expired /\ v.outcome = starts[n].outcome
    BY <1>1 DEF Start
  <2> HIDE DEF v
  <2>2. StartMoves(n, v)
    BY <1>1, <1>2, <2>1 DEF StartMoves, Goes, Shape, Wakes, IInv, TypeOK
  <2> QED
    BY <2>2, StartStep
<1>3. CASE UNCHANGED host /\ Goes(n, Done(starts[n], "failed"))
  BY <1>1, <1>3, DoneStep DEF Wakes, controllerVars
<1> QED
  BY <1>2, <1>3 DEF Wakes

\* Loses: the host is woken again and its observations are forgotten.
LEMMA LosesStep ==
    ASSUME IInv, NEW n \in Starts, Loses(n)
    PROVE  IInv'
<1> DEFINE v == Rewoken(starts[n])
<1>1. starts[n] \in Start /\ InFlight(n) /\ Shape(n) /\ starts[n].pc \in {"poll", "post"}
  BY DEF IInv, TypeOK, Loses, InFlight
<1>2. /\ v \in Start /\ v.pc = "wake" /\ v.game = starts[n].game /\ v.observed = "none"
      /\ v.expired = starts[n].expired /\ v.outcome = starts[n].outcome
  BY <1>1 DEF Start, Rewoken
<1> HIDE DEF v
<1>3. StartMoves(n, v)
  BY <1>1, <1>2 DEF StartMoves, Goes, Shape, Loses, IInv, TypeOK, controllerVars, v
<1> QED
  BY <1>3, StartStep

\* A start that goes on with what it has observed.
LEMMA GoesOn ==
    ASSUME IInv, NEW n \in Starts, NEW v \in Start, InFlight(n), Goes(n, v),
           v.pc \in {"poll", "post"}, v.game = starts[n].game, v.expired = starts[n].expired,
           v.outcome = starts[n].outcome, v.ready = starts[n].ready,
           v.observed = "changed" => starts[n].observed = "changed",
           host' = host, instance' \in [Games -> Instance],
           \A g \in Games : instance'[g].phase = "running" => instance[g].phase = "running",
           UNCHANGED <<games, sessions, clients, gatewayVars>>
    PROVE  IInv'
<1>1. starts[n].game \in Games /\ Shape(n) /\ Fresh1(n)
  BY DEF IInv, Current
<1>2. StartMoves(n, v)
  BY <1>1 DEF StartMoves, Goes, InFlight, Shape, Fresh1, Fresh, IInv, TypeOK
<1> QED
  BY <1>2, StartStep

LEMMA RetriesStep ==
    ASSUME IInv, NEW n \in Starts, Retries(n)
    PROVE  IInv'
<1> DEFINE v == [starts[n] EXCEPT !.pc = "poll"]
<1>1. starts[n] \in Start /\ InFlight(n) /\ Goes(n, v)
  BY DEF IInv, TypeOK, Retries, InFlight
<1>2. /\ v \in Start /\ v.pc = "poll" /\ v.game = starts[n].game /\ v.observed = starts[n].observed
      /\ v.expired = starts[n].expired /\ v.outcome = starts[n].outcome
      /\ v.ready = starts[n].ready
  BY <1>1 DEF Start
<1> HIDE DEF v
<1> QED
  BY <1>1, <1>2, GoesOn DEF Retries, controllerVars, IInv, TypeOK

\* Posts: an instance that is started anew is not running yet.
LEMMA PostsStep ==
    ASSUME IInv, NEW n \in Starts, Posts(n)
    PROVE  IInv'
<1>1. PICK answered \in BOOLEAN :
        Goes(n, [starts[n] EXCEPT !.pc = "poll", !.started = answered])
  BY DEF Posts
<1> DEFINE v == [starts[n] EXCEPT !.pc = "poll", !.started = answered]
<1>2. starts[n] \in Start /\ InFlight(n) /\ Goes(n, v) /\ instance \in [Games -> Instance]
  BY <1>1 DEF IInv, TypeOK, Posts, InFlight
<1>3. /\ v \in Start /\ v.pc = "poll" /\ v.game = starts[n].game /\ v.observed = starts[n].observed
      /\ v.expired = starts[n].expired /\ v.outcome = starts[n].outcome
      /\ v.ready = starts[n].ready
  BY <1>2 DEF Start
<1> HIDE DEF v
<1>4. [desired |-> "running", phase |-> "down"] \in Instance
  BY DEF Instance
<1>5. /\ instance' \in [Games -> Instance]
      /\ \A g \in Games : instance'[g].phase = "running" => instance[g].phase = "running"
  BY <1>2, <1>4 DEF Posts
<1> QED
  BY <1>2, <1>3, <1>5, GoesOn DEF Posts

\* Polls: the answer ends the start or it goes on.
LEMMA PollsStep ==
    ASSUME IInv, NEW n \in Starts, Polls(n)
    PROVE  IInv'
<1> DEFINE noted == [starts[n] EXCEPT !.observed = IF starts[n].observed = "none" THEN "same"
                                                   ELSE starts[n].observed]
           posts == [noted EXCEPT !.pc = "post"]
<1>1. /\ starts[n] \in Start /\ InFlight(n) /\ starts[n].pc = "poll"
      /\ UNCHANGED <<controllerVars, games, sessions, clients, gatewayVars>>
  BY DEF IInv, TypeOK, Polls, InFlight
<1>2. \/ Goes(n, Done(starts[n], "failed")) \/ Goes(n, Done(starts[n], "address"))
      \/ Goes(n, posts) \/ Goes(n, noted)
  BY DEF Polls
<1>3. CASE Goes(n, Done(starts[n], "failed")) \/ Goes(n, Done(starts[n], "address"))
  BY <1>1, <1>3, DoneStep
<1>4. /\ noted \in Start /\ noted.pc = "poll" /\ noted.game = starts[n].game
      /\ noted.expired = starts[n].expired /\ noted.outcome = starts[n].outcome
      /\ noted.ready = starts[n].ready
      /\ noted.observed = "changed" => starts[n].observed = "changed"
  BY <1>1 DEF Start
<1> HIDE DEF noted
<1>5. /\ posts \in Start /\ posts.pc = "post" /\ posts.game = noted.game
      /\ posts.expired = noted.expired /\ posts.outcome = noted.outcome
      /\ posts.ready = noted.ready /\ posts.observed = noted.observed
  BY <1>4 DEF Start
<1> HIDE DEF posts
<1>6. host' = host /\ instance' = instance /\ instance \in [Games -> Instance]
  BY <1>1 DEF controllerVars, IInv, TypeOK
<1>7. CASE Goes(n, noted)
  BY <1>1, <1>4, <1>6, <1>7, GoesOn
<1>8. CASE Goes(n, posts)
  BY <1>1, <1>4, <1>5, <1>6, <1>8, GoesOn
<1> QED
  BY <1>2, <1>3, <1>7, <1>8

\* Expires: only what is over.
LEMMA ExpiresStep ==
    ASSUME IInv, NEW n \in Starts, Expires(n)
    PROVE  IInv'
<1> DEFINE v == [starts[n] EXCEPT !.expired = TRUE]
<1>1. starts[n] \in Start /\ Shape(n) /\ starts[n].pc = "done" /\ Goes(n, v)
  BY DEF IInv, TypeOK, Expires
<1>2. v \in Start /\ v.pc = "done" /\ v.game = starts[n].game /\ v.outcome = starts[n].outcome
  BY <1>1 DEF Start
<1> HIDE DEF v
<1>3. StartMoves(n, v)
  BY <1>1, <1>2 DEF StartMoves, Goes, Shape, Expires, IInv, TypeOK, controllerVars
<1> QED
  BY <1>3, StartStep

-----------------------------------------------------------------------------
(* Steps of the controller.                                                *)

\* A start is its parts.
LEMMA SameStart ==
    ASSUME NEW v \in Start, NEW w \in Start,
           v.game = w.game, v.pc = w.pc, v.observed = w.observed, v.started = w.started,
           v.ready = w.ready, v.outcome = w.outcome, v.expired = w.expired
    PROVE  v = w
BY DEF Start

\* Observes: what is saved is what every start of the game now has seen.
LEMMA ObservesStep ==
    ASSUME IInv, NEW g \in Games, Observes(g)
    PROVE  IInv'
<1>1. PICK phase \in {"down", "running", "failed"}, idle \in BOOLEAN :
        /\ instance' = [instance EXCEPT
              ![g] = [desired |-> IF idle THEN "stopped" ELSE @.desired, phase |-> phase]]
        /\ starts' = [n \in Starts |->
              IF starts[n].game # g THEN starts[n]
              ELSE [starts[n] EXCEPT
                      !.observed = IF @ = "none" THEN @ ELSE "changed",
                      !.ready = InFlight(n) /\ phase = "running"]]
  BY DEF Observes, IInv, TypeOK, Instance
<1>2. UNCHANGED <<host, games, sessions, clients, late, readers, cancelled, returned>>
  BY DEF Observes, gatewayVars
<1>3. /\ instance' \in [Games -> Instance] /\ instance'[g].phase = phase
      /\ \A h \in Games \ {g} : instance'[h] = instance[h]
  BY <1>1 DEF IInv, TypeOK, Instance
<1>4. ASSUME NEW n \in Starts
      PROVE  /\ starts'[n] \in Start
             /\ starts'[n].pc = starts[n].pc /\ starts'[n].game = starts[n].game
             /\ starts'[n].expired = starts[n].expired
             /\ starts'[n].outcome = starts[n].outcome
             /\ starts[n].observed = "none" => starts'[n].observed = "none"
             /\ starts[n].game # g => starts'[n] = starts[n]
             /\ starts[n].game = g => starts'[n].ready = (InFlight(n) /\ phase = "running")
             /\ starts[n] = Free => starts'[n] = Free
  <2>1. starts[n] \in Start /\ (InFlight(n) /\ phase = "running") \in BOOLEAN
    BY DEF IInv, TypeOK, InFlight
  <2>2. CASE starts[n].game # g
    BY <1>1, <2>1, <2>2
  <2>3. CASE starts[n].game = g
    <3> DEFINE b == InFlight(n) /\ phase = "running"
               o == IF starts[n].observed = "none" THEN "none" ELSE "changed"
               v == [starts[n] EXCEPT !.observed = o, !.ready = b]
    <3>1. starts'[n] = v
      BY <1>1, <2>3
    <3>2. b \in BOOLEAN /\ o \in {"none", "changed"} /\ (starts[n].observed = "none" => o = "none")
      BY <2>1
    <3>3. starts[n] = Free => b = FALSE
      BY DEF InFlight, Free
    <3> HIDE DEF b, o
    <3>4. /\ v \in Start /\ v.pc = starts[n].pc /\ v.game = starts[n].game
          /\ v.expired = starts[n].expired /\ v.outcome = starts[n].outcome
          /\ v.observed = o /\ v.ready = b
      BY <2>1, <3>2 DEF Start
    <3>5. starts[n] = Free => v = Free
      <4> SUFFICES ASSUME starts[n] = Free PROVE v = Free
        OBVIOUS
      <4>1. o = "none" /\ b = FALSE
        BY <3>2, <3>3 DEF Free
      <4>2. /\ v.game = Free.game /\ v.pc = Free.pc /\ v.observed = Free.observed
            /\ v.started = Free.started /\ v.ready = Free.ready /\ v.outcome = Free.outcome
            /\ v.expired = Free.expired
        BY <2>1, <4>1 DEF Free, Start
      <4> HIDE DEF v
      <4> QED
        BY <3>4, <4>2, SameStart DEF Free, Start
    <3> QED
      BY <2>3, <3>1, <3>2, <3>4, <3>5 DEF b
  <2> QED
    BY <2>2, <2>3
<1>5. starts' \in [Starts -> Start]
  BY <1>1, <1>4
<1>6. TypeOK'
  BY <1>2, <1>3, <1>5 DEF IInv, TypeOK
<1>7. \A n \in Starts : InFlight(n)' <=> InFlight(n)
  BY <1>4 DEF InFlight
<1>8. \A n \in Starts : Shape(n)' /\ Current(n)' /\ Kept1(n)'
  BY <1>2, <1>4, <1>7 DEF IInv, Shape, Current, Kept1, Referred
<1>9. ASSUME NEW n \in Starts PROVE Fresh1(n)'
  <2>1. CASE starts[n].game = g
    BY <1>3, <1>4, <1>7, <2>1 DEF Fresh1
  <2>2. CASE starts[n].game # g
    <3>1. InFlight(n) => starts[n].game \in Games \ {g}
      BY <2>2 DEF IInv, Current
    <3> QED
      BY <1>3, <1>4, <1>7, <2>2, <3>1 DEF Fresh1, Fresh, IInv
  <2> QED
    BY <2>1, <2>2
<1>10. \A r \in Routes : Waits(r)' /\ Accepting(r)'
  BY <1>2 DEF IInv, Waits, Accepting
<1>11. Ended'
  BY <1>2, <1>7 DEF IInv, Ended, Joined, NoWork
<1> QED
  BY <1>6, <1>8, <1>9, <1>10, <1>11 DEF IInv

\* Stops, HostGoesDown: no start learns of it.
LEMMA StopsStep ==
    ASSUME IInv, NEW g \in Games, Stops(g)
    PROVE  IInv'
<1>1. UNCHANGED <<host, starts, games, sessions, clients, late, readers, cancelled, returned>>
  BY DEF Stops, gatewayVars
<1>2. /\ instance' \in [Games -> Instance]
      /\ \A h \in Games : instance'[h].phase = instance[h].phase
  BY DEF Stops, IInv, TypeOK, Instance
<1>3. TypeOK'
  BY <1>1, <1>2 DEF IInv, TypeOK
<1>4. \A n \in Starts : Fresh1(n)'
  BY <1>1, <1>2 DEF IInv, Fresh1, Current, InFlight, Fresh
<1> QED
  BY <1>1, <1>3, <1>4
  DEF IInv, Shape, Current, Kept1, Referred, InFlight, Waits, Accepting, Ended, Joined, NoWork

LEMMA HostGoesDownStep ==
    ASSUME IInv, HostGoesDown
    PROVE  IInv'
<1>1. /\ host' = FALSE
      /\ UNCHANGED <<instance, starts, games, sessions, clients, late, readers, cancelled, returned>>
  BY DEF HostGoesDown, gatewayVars
<1>2. TypeOK'
  BY <1>1 DEF IInv, TypeOK
<1> QED
  BY <1>1, <1>2
  DEF IInv, Shape, Current, Kept1, Referred, Fresh1, Fresh, InFlight, Waits, Accepting, Ended,
      Joined, NoWork

-----------------------------------------------------------------------------
(* Steps of a session.                                                     *)

\* What Kept keeps: every start but those that are over and not referred to.
LEMMA KeptIs ==
    ASSUME NEW ss, NEW gs, NEW se, NEW n \in Starts
    PROVE  LET k == Kept(ss, gs, se)[n]
               referred == (\E g \in Games : gs[g] = n) \/ (\E r \in Routes : se[r].on = n)
           IN  /\ ss[n].pc # "done" \/ referred => k = ss[n]
               /\ ss[n].pc = "done" /\ ~referred => k = Free
BY DEF Kept

LEMMA FreeShape ==
    /\ Free \in Start /\ Free.pc = "free" /\ Free.observed = "none" /\ ~Free.expired
    /\ Free.outcome = "none" /\ Free.game = None
BY DEF Free, Start

\* The routes are finitely many.
LEMMA RoutesFinite == IsFiniteSet(Routes)
BY GatewayAssumption, FS_Product DEF Routes

\* What becomes of a session that refers to no start it did not refer to.
SessionMoves(r, s) ==
    /\ Becomes(r, s) /\ s \in Session
    /\ s.on # None <=> s.st = "waits"
    /\ s.on # None => s.on = sessions[r].on
    /\ s.blamed = "cancelled" => cancelled
    /\ late' \subseteq Games
    /\ UNCHANGED <<controllerVars, games, cancelled, returned>>

\* It leaves the starts in order.
LEMMA SessionKeeps ==
    ASSUME IInv, NEW r \in Routes, NEW s, SessionMoves(r, s)
    PROVE  /\ sessions' \in [Routes -> Session] /\ sessions'[r] = s
           /\ \A q \in Routes \ {r} : sessions'[q] = sessions[q]
           /\ starts' \in [Starts -> Start]
           /\ \A n \in Starts :
                InFlight(n)' => InFlight(n) /\ starts'[n] = starts[n]
           /\ \A n \in Starts : Shape(n)' /\ Current(n)' /\ Kept1(n)' /\ Fresh1(n)'
           /\ late' \subseteq Games /\ \A q \in Routes : Waits(q)'
<1>1. /\ sessions' \in [Routes -> Session] /\ sessions'[r] = s
      /\ \A q \in Routes \ {r} : sessions'[q] = sessions[q]
  BY DEF SessionMoves, Becomes, IInv, TypeOK
<1>2. starts' = Kept(starts, games, sessions') /\ UNCHANGED <<instance, games, cancelled>>
  BY DEF SessionMoves, Becomes, controllerVars
<1>3. ASSUME NEW n \in Starts
      PROVE  /\ starts[n].pc # "done" \/ Referred(n)' => starts'[n] = starts[n]
             /\ starts[n].pc = "done" /\ ~Referred(n)' => starts'[n] = Free
  BY <1>2, KeptIs DEF Referred
<1>4. ASSUME NEW n \in Starts PROVE starts'[n] = starts[n] \/ starts'[n] = Free
  BY <1>3
<1>5. starts' \in [Starts -> Start]
  <2>1. starts' = [n \in Starts |-> starts'[n]]
    BY <1>2 DEF Kept
  <2> QED
    BY <1>4, <2>1, FreeShape DEF IInv, TypeOK
<1>6. ASSUME NEW n \in Starts PROVE InFlight(n)' => InFlight(n) /\ starts'[n] = starts[n]
  BY <1>4, FreeShape DEF InFlight
<1>7. ASSUME NEW n \in Starts PROVE Shape(n)' /\ Current(n)' /\ Fresh1(n)'
  BY <1>2, <1>4, <1>6, FreeShape DEF IInv, Shape, Current, Fresh1, Fresh, InFlight
<1>8. ASSUME NEW n \in Starts PROVE Kept1(n)'
  <2>1. Referred(n)' => Referred(n)
    BY <1>1, <1>2, GatewayAssumption DEF Referred, SessionMoves
  <2>2. CASE starts[n].pc = "free"
    BY <1>3, <2>1, <2>2 DEF IInv, Kept1
  <2>3. CASE starts[n].pc = "done"
    BY <1>3, <2>3, FreeShape DEF Kept1
  <2>4. CASE InFlight(n)
    <3>1. starts'[n] = starts[n] /\ starts[n].game \in Games /\ games[starts[n].game] = n
      BY <1>3, <2>4 DEF IInv, Current, InFlight
    <3> QED
      BY <1>2, <2>4, <3>1 DEF Kept1, Referred, InFlight
  <2> QED
    BY <2>2, <2>3, <2>4 DEF IInv, TypeOK, Start, InFlight
<1>9. ASSUME NEW q \in Routes PROVE Waits(q)'
  BY <1>1, <1>2 DEF IInv, Waits, SessionMoves
<1> QED
  BY <1>1, <1>5, <1>6, <1>7, <1>8, <1>9 DEF SessionMoves

\* A session that stays one, or one of its kind, changes no count.
LEMMA SessionGoesOn ==
    ASSUME IInv, NEW r \in Routes, NEW s, SessionMoves(r, s),
           s.st \notin {"none", "new"}, sessions[r].st \notin {"none", "new"},
           clients' = clients, readers' = readers
    PROVE  IInv'
<1>1. UNCHANGED <<host, instance, games, clients, readers, cancelled, returned>>
  BY DEF SessionMoves, controllerVars
<1>2. {q \in Routes : sessions'[q].st # "none"} = {q \in Routes : sessions[q].st # "none"}
  BY SessionKeeps
<1>3. TypeOK'
  BY <1>1, <1>2, SessionKeeps DEF IInv, TypeOK
<1>4. \A q \in Routes : Accepting(q)'
  BY <1>1, SessionKeeps DEF IInv, Accepting
<1>5. ~returned
  BY DEF IInv, Ended, Joined, NoWork
<1> QED
  BY <1>1, <1>3, <1>4, <1>5, SessionKeeps DEF IInv, Ended

\* The parts of a session.
LEMMA SessionEdits ==
    ASSUME NEW v \in Session,
           NEW st \in {"none", "new", "asks", "waits", "connects", "relays", "ended"},
           NEW blamed \in {"none", "failed", "cancelled"}
    PROVE  /\ [v EXCEPT !.st = st] \in Session
           /\ [v EXCEPT !.st = st].st = st /\ [v EXCEPT !.st = st].on = v.on
           /\ [v EXCEPT !.st = st].blamed = v.blamed
           /\ [v EXCEPT !.st = st, !.on = None] \in Session
           /\ [v EXCEPT !.st = st, !.on = None].st = st
           /\ [v EXCEPT !.st = st, !.on = None].on = None
           /\ [v EXCEPT !.st = st, !.on = None].blamed = v.blamed
           /\ [st |-> st, on |-> None, blamed |-> blamed] \in Session
BY DEF Session

\* Learns: the outcome is blamed only when there is one.
LEMMA LearnsStep ==
    ASSUME IInv, NEW r \in Routes, Learns(r)
    PROVE  IInv'
<1>1. sessions[r] \in Session /\ Waits(r) /\ sessions[r].st = "waits" /\ sessions[r].on \in Starts
  BY DEF Learns, IInv, TypeOK, Session, Waits
<1> DEFINE n == sessions[r].on
           outcome == starts[n].outcome
           goes == [sessions[r] EXCEPT !.st = "connects", !.on = None]
           ends == [st |-> "ended", on |-> None, blamed |-> outcome]
<1>2. outcome = "cancelled" => cancelled
  BY <1>1 DEF IInv, Shape
<1>3. CASE outcome = "address"
  <2>1. goes \in Session /\ goes.st = "connects" /\ goes.on = None /\ goes.blamed = sessions[r].blamed
    BY <1>1, SessionEdits
  <2>2. SessionMoves(r, goes)
    BY <1>1, <1>3, <2>1 DEF Learns, SessionMoves, gatewayVars, Waits, IInv, TypeOK
  <2>3. clients' = clients /\ readers' = readers
    BY DEF Learns, gatewayVars
  <2> QED
    BY <1>1, <2>1, <2>2, <2>3, SessionGoesOn
<1>4. CASE outcome # "address"
  <2>0. outcome \in {"none", "failed", "cancelled"}
    BY <1>1, <1>4 DEF IInv, TypeOK, Start
  <2>1. ends \in Session /\ ends.st = "ended" /\ ends.on = None /\ ends.blamed = outcome
    BY <2>0 DEF Session
  <2>2. Becomes(r, ends)
    BY <1>4 DEF Learns
  <2> HIDE DEF ends, outcome
  <2>3. SessionMoves(r, ends)
    BY <1>2, <2>1, <2>2 DEF Learns, SessionMoves, gatewayVars, IInv, TypeOK
  <2>4. clients' = clients /\ readers' = readers
    BY DEF Learns, gatewayVars
  <2> QED
    BY <1>1, <2>1, <2>3, <2>4, SessionGoesOn
<1> QED
  BY <1>3, <1>4

\* Relays, AsksAgain, Ends, Interrupted: the start is not referred to any more.
LEMMA GoesOnStep ==
    ASSUME IInv, NEW r \in Routes, Relays(r) \/ AsksAgain(r) \/ Ends(r) \/ Interrupted(r)
    PROVE  IInv'
<1>1. /\ sessions[r] \in Session /\ Waits(r)
      /\ sessions[r].st \in {"asks", "waits", "connects", "relays"}
  BY DEF Relays, AsksAgain, Ends, Interrupted, IInv, TypeOK
<1>2. CASE Relays(r) \/ AsksAgain(r)
  <2>0. sessions[r].st = "connects"
    BY <1>2 DEF Relays, AsksAgain
  <2>1. PICK st \in {"relays", "asks"} : Becomes(r, [sessions[r] EXCEPT !.st = st])
    BY <1>2 DEF Relays, AsksAgain
  <2> DEFINE s == [sessions[r] EXCEPT !.st = st]
  <2>2. s \in Session /\ s.st = st /\ s.on = sessions[r].on /\ s.blamed = sessions[r].blamed
    BY <1>1 DEF Session
  <2> HIDE DEF s
  <2>3. SessionMoves(r, s)
    BY <1>1, <1>2, <2>0, <2>1, <2>2 
    DEF SessionMoves, Waits, Relays, AsksAgain, gatewayVars, s, IInv, TypeOK
  <2>4. clients' = clients /\ readers' = readers
    BY <1>2 DEF Relays, AsksAgain, gatewayVars
  <2> QED
    BY <1>1, <2>2, <2>3, <2>4, SessionGoesOn
<1>3. CASE Ends(r) \/ Interrupted(r)
  <2> DEFINE s == [sessions[r] EXCEPT !.st = "ended", !.on = None]
  <2>0. Game(r) \in Games
    BY DEF Routes, Game
  <2>1. /\ Becomes(r, s) /\ late' \subseteq Games
        /\ UNCHANGED <<controllerVars, games, clients, readers, cancelled, returned>>
    BY <1>3, <2>0 DEF Ends, Interrupted, Leaves, IInv, TypeOK
  <2>2. s \in Session /\ s.st = "ended" /\ s.on = None /\ s.blamed = sessions[r].blamed
    BY <1>1, SessionEdits
  <2> HIDE DEF s
  <2>3. SessionMoves(r, s)
    BY <1>1, <2>1, <2>2 DEF SessionMoves, Waits
  <2>4. clients' = clients /\ readers' = readers
    BY <2>1
  <2> QED
    BY <1>1, <2>2, <2>3, <2>4, SessionGoesOn
<1> QED
  BY <1>2, <1>3

-----------------------------------------------------------------------------
(* Sessions that come and go.                                              *)

Used == {q \in Routes : sessions[q].st # "none"}

\* Accepting keeps its meaning when only the session r may become new or stop being so.
LEMMA AcceptingKeeps ==
    ASSUME IInv, NEW r \in Routes, NEW s, SessionMoves(r, s),
           s.st = "new" => readers[Game(r)] # "accepts" /\ readers'[Game(r)] = "accepts",
           sessions[r].st # "new" /\ s.st # "new" => readers' = readers,
           \A g \in Games \ {Game(r)} : readers'[g] = readers[g]
    PROVE  \A q \in Routes : Accepting(q)'
<1> SUFFICES ASSUME NEW q \in Routes, sessions'[q].st = "new"
             PROVE  /\ readers'[Game(q)] = "accepts"
                    /\ \A p \in Routes : sessions'[p].st = "new" /\ Game(p) = Game(q) => p = q
  BY DEF Accepting
<1>0. \A p \in Routes : Game(p) \in Games
  BY DEF Routes, Game
<1>1. /\ sessions'[r] = s /\ \A p \in Routes \ {r} : sessions'[p] = sessions[p]
      /\ \A p \in Routes : Accepting(p)
  BY SessionKeeps DEF IInv
<1>2. CASE s.st = "new"
  BY <1>0, <1>1, <1>2 DEF Accepting
<1>3. CASE s.st # "new"
  BY <1>0, <1>1, <1>3 DEF Accepting
<1> QED
  BY <1>2, <1>3

\* Connects: one session more.
LEMMA ConnectsStep ==
    ASSUME IInv, NEW r \in Routes, Connects(r)
    PROVE  IInv'
<1> DEFINE s == sessions'[r]
<1>0. Game(r) \in Games /\ sessions[r].st = "none" /\ ~cancelled /\ readers[Game(r)] = "reads"
      /\ r \notin Used
  BY DEF Connects, Routes, Game, Used
<1>1. PICK st \in {"new", "asks"} :
        /\ Becomes(r, [NoSession EXCEPT !.st = st])
        /\ st = "new" => readers' = [readers EXCEPT ![Game(r)] = "accepts"]
        /\ st = "asks" => readers' = readers
  BY DEF Connects
<1> DEFINE v == [NoSession EXCEPT !.st = st]
<1>2. v \in Session /\ v.st = st /\ v.on = None /\ v.blamed = "none"
  BY DEF NoSession, Session
<1> HIDE DEF v
<1>3. SessionMoves(r, v)
  BY <1>1, <1>2 DEF Connects, SessionMoves, v, IInv, TypeOK
<1>4. UNCHANGED <<host, instance, games, cancelled, returned>>
  BY DEF Connects, controllerVars
<1>5. readers' \in [Games -> {"reads", "accepts", "ended"}]
      /\ \A g \in Games \ {Game(r)} : readers'[g] = readers[g]
  BY <1>0, <1>1 DEF IInv, TypeOK
<1>6. \A q \in Routes : Accepting(q)'
  BY <1>0, <1>1, <1>2, <1>3, <1>5, AcceptingKeeps DEF IInv, TypeOK
<1>7. clients' = Cardinality(Used') /\ clients' <= MaxSessions
  <2>1. Used' = Used \cup {r}
    BY <1>2, <1>3, SessionKeeps DEF Used
  <2>2. IsFiniteSet(Used) /\ clients = Cardinality(Used)
    BY RoutesFinite, FS_Subset DEF IInv, TypeOK, Used
  <2>3. Cardinality(Used') = Cardinality(Used) + 1 /\ Cardinality(Used) \in Nat
    BY <1>0, <2>1, <2>2, FS_AddElement, FS_CardinalityType
  <2> QED
    BY <2>2, <2>3, GatewayAssumption DEF Connects
<1>8. TypeOK'
  BY <1>3, <1>4, <1>5, <1>7, SessionKeeps DEF IInv, TypeOK, Used
<1>9. Ended'
  BY <1>0, <1>4 DEF IInv, Ended
<1> QED
  BY <1>3, <1>6, <1>8, <1>9, SessionKeeps DEF IInv

\* Accepts: the reader goes on to read.
LEMMA AcceptsStep ==
    ASSUME IInv, NEW r \in Routes, Accepts(r)
    PROVE  IInv'
<1> DEFINE v == [sessions[r] EXCEPT !.st = "asks"]
<1>0. Game(r) \in Games /\ sessions[r].st = "new" /\ sessions[r] \in Session /\ Waits(r)
      /\ readers[Game(r)] = "accepts"
  BY DEF Accepts, Routes, Game, IInv, TypeOK, Accepting
<1>1. v \in Session /\ v.st = "asks" /\ v.on = sessions[r].on /\ v.blamed = sessions[r].blamed
  BY <1>0, SessionEdits
<1>2. Becomes(r, v)
  BY DEF Accepts
<1> HIDE DEF v
<1>3. SessionMoves(r, v)
  BY <1>0, <1>1, <1>2 DEF Accepts, SessionMoves, Waits, IInv, TypeOK
<1>4. UNCHANGED <<host, instance, games, clients, cancelled, returned>>
  BY DEF Accepts, controllerVars
<1>5. readers' \in [Games -> {"reads", "accepts", "ended"}]
      /\ \A g \in Games \ {Game(r)} : readers'[g] = readers[g]
  BY <1>0 DEF Accepts, IInv, TypeOK
<1>6. \A q \in Routes : Accepting(q)'
  BY <1>0, <1>1, <1>3, <1>5, AcceptingKeeps
<1>7. Used' = Used
  BY <1>0, <1>1, <1>3, SessionKeeps DEF Used
<1>8. TypeOK'
  BY <1>3, <1>4, <1>5, <1>7, SessionKeeps DEF IInv, TypeOK, Used
<1>9. Ended'
  BY <1>0, <1>4 DEF IInv, Ended, Joined
<1> QED
  BY <1>3, <1>6, <1>8, <1>9, SessionKeeps DEF IInv

\* AcceptFails, Removes: one session less.
LEMMA SessionGoes ==
    ASSUME IInv, NEW r \in Routes, AcceptFails(r) \/ Removes(r)
    PROVE  IInv'
<1>0. Game(r) \in Games /\ r \in Used /\ sessions[r].st \in {"new", "ended"}
  BY DEF AcceptFails, Removes, Routes, Game, Used
<1>1. NoSession \in Session /\ NoSession.st = "none" /\ NoSession.on = None
      /\ NoSession.blamed = "none"
  BY DEF NoSession, Session
<1>2. SessionMoves(r, NoSession) /\ clients' = clients - 1
  BY <1>1 DEF AcceptFails, Removes, SessionMoves, gatewayVars, IInv, TypeOK
<1>3. UNCHANGED <<host, instance, games, cancelled, returned>>
  BY DEF AcceptFails, Removes, controllerVars, gatewayVars
<1>4. /\ readers' \in [Games -> {"reads", "accepts", "ended"}]
      /\ \A g \in Games \ {Game(r)} : readers'[g] = readers[g]
      /\ sessions[r].st # "new" => readers' = readers
  BY <1>0 DEF AcceptFails, Removes, gatewayVars, IInv, TypeOK
<1>5. \A q \in Routes : Accepting(q)'
  BY <1>1, <1>2, <1>4, AcceptingKeeps
<1>6. clients' = Cardinality(Used') /\ clients' <= MaxSessions
  <2>1. Used' = Used \ {r}
    BY <1>1, <1>2, SessionKeeps DEF Used
  <2>2. IsFiniteSet(Used) /\ clients = Cardinality(Used) /\ clients <= MaxSessions
    BY RoutesFinite, FS_Subset DEF IInv, TypeOK, Used
  <2>3. Cardinality(Used') = Cardinality(Used) - 1 /\ Cardinality(Used) \in Nat
    BY <1>0, <2>1, <2>2, FS_RemoveElement, FS_CardinalityType
  <2> QED
    BY <1>2, <2>2, <2>3, GatewayAssumption
<1>7. TypeOK'
  BY <1>2, <1>3, <1>4, <1>6, SessionKeeps DEF IInv, TypeOK, Used
<1>8. Ended'
  <2>1. ~returned
    <3>1. sessions[r].st = "new" => readers[Game(r)] = "accepts"
      BY DEF IInv, Accepting
    <3> QED
      BY <1>0, <3>1 DEF IInv, Ended, Joined, NoWork
  <2> QED
    BY <1>3, <2>1 DEF Ended
<1> QED
  BY <1>2, <1>5, <1>7, <1>8, SessionKeeps DEF IInv

-----------------------------------------------------------------------------
(* A session that asks for its game.                                       *)

\* The values of a function on a finite set are not more than its arguments.
LEMMA ImageBound ==
    ASSUME NEW S, IsFiniteSet(S), NEW f, f = [x \in S |-> f[x]]
    PROVE  /\ IsFiniteSet({f[x] : x \in S})
           /\ Cardinality({f[x] : x \in S}) <= Cardinality(S)
<1> DEFINE T == {f[x] : x \in S}
<1>1. f \in Surjection(S, T)
  BY DEF Surjection
<1> QED
  BY <1>1, FS_Surjection

\* A free identity is there whenever one is needed: the others are referred to.
LEMMA FreeStart ==
    ASSUME IInv
    PROVE  \E n \in Starts : starts[n].pc = "free"
<1> SUFFICES ASSUME \A n \in Starts : starts[n].pc # "free" PROVE FALSE
  OBVIOUS
<1> DEFINE on == [q \in Routes |-> sessions[q].on]
           A == {games[g] : g \in Games}
           B == {on[q] : q \in Routes}
<1>2. Starts \subseteq A \cup B
  BY DEF IInv, Kept1, Referred
<1>3. IsFiniteSet(A) /\ Cardinality(A) <= Cardinality(Games) /\ Cardinality(Games) \in Nat
  BY GatewayAssumption, ImageBound, FS_CardinalityType DEF IInv, TypeOK
<1>4. Cardinality(Routes) \in Nat
  BY RoutesFinite, FS_CardinalityType
<1>5. IsFiniteSet(B) /\ Cardinality(B) <= Cardinality(Routes)
  BY RoutesFinite, ImageBound
<1> HIDE DEF A, B
<1>6. Cardinality(A) \in Nat /\ Cardinality(B) \in Nat /\ Cardinality(A \cap B) \in Nat
  <2>1. IsFiniteSet(A \cap B)
    BY <1>3, FS_Subset
  <2> QED
    BY <1>3, <1>5, <2>1, FS_CardinalityType
<1>7. IsFiniteSet(A \cup B) /\ Cardinality(A \cup B) <= Cardinality(A) + Cardinality(B)
  <2>1. /\ IsFiniteSet(A \cup B)
        /\ Cardinality(A \cup B) = Cardinality(A) + Cardinality(B) - Cardinality(A \cap B)
    BY <1>3, <1>5, FS_Union, Zenon
  <2> QED
    BY <1>6, <2>1
<1>8. Cardinality(Starts) <= Cardinality(A \cup B)
  BY <1>2, <1>7, FS_Subset
<1>9. Cardinality(Starts) \in Nat /\ Cardinality(A \cup B) \in Nat
  BY <1>7, GatewayAssumption, FS_CardinalityType
<1> QED
  BY <1>3, <1>4, <1>5, <1>6, <1>7, <1>8, <1>9, GatewayAssumption

\* resolve gives the current start of a game to whoever asks, or begins one with a free
\* identity.
LEMMA BeginsStep ==
    ASSUME IInv, NEW g \in Games, BeginsStart(g), ~returned,
           sessions' \in [Routes -> Session],
           \A q \in Routes :
              \/ sessions'[q] = sessions[q]
              \/ /\ sessions[q].st = "asks" /\ sessions'[q].st = "waits"
                 /\ sessions'[q].on = Chosen(g) /\ sessions'[q].blamed = sessions[q].blamed,
           late' \subseteq Games,
           UNCHANGED <<host, instance, clients, readers, cancelled, returned>>
    PROVE  IInv'
<1> DEFINE n == Chosen(g)
           begun == Begun(g)
           ss == IF NeedsStart(g) THEN [starts EXCEPT ![n] = begun] ELSE starts
<1>1. n \in Starts /\ (NeedsStart(g) => starts[n].pc = "free")
  <2>1. CASE NeedsStart(g)
    BY <2>1, FreeStart DEF Chosen
  <2>2. CASE ~NeedsStart(g)
    BY <2>2 DEF Chosen, NeedsStart, IInv, TypeOK
  <2> QED
    BY <2>1, <2>2
<1>2. games' = [games EXCEPT ![g] = n]
  BY DEF BeginsStart
<1>3. /\ begun \in Start /\ begun.game = g /\ begun.pc \in {"wake", "poll"}
      /\ begun.observed = "none" /\ ~begun.expired /\ begun.outcome = "none"
  BY GatewayAssumption DEF Begun, Free, Start
<1>4. /\ ss \in [Starts -> Start]
      /\ \A m \in Starts : ss[m] = starts[m] \/ (NeedsStart(g) /\ m = n /\ ss[m] = begun)
      /\ NeedsStart(g) => ss[n] = begun
  BY <1>1, <1>3 DEF IInv, TypeOK
<1>6. starts' = Kept(ss, games', sessions')
  BY DEF BeginsStart
<1>7. ~NeedsStart(g) => n = games[g]
  BY DEF Chosen
<1> HIDE DEF ss, begun, n
<1>8. /\ games' \in [Games -> Starts \cup {None}] /\ games'[g] = n
      /\ \A h \in Games \ {g} : games'[h] = games[h]
  BY <1>1, <1>2 DEF IInv, TypeOK
<1>9. ASSUME NEW m \in Starts
      PROVE  /\ ss[m].pc # "done" \/ Referred(m)' => starts'[m] = ss[m]
             /\ ss[m].pc = "done" /\ ~Referred(m)' => starts'[m] = Free
  BY <1>6, KeptIs DEF Referred
<1>10. starts' \in [Starts -> Start]
  <2>1. starts' = [m \in Starts |-> starts'[m]]
    BY <1>6 DEF Kept
  <2>2. \A m \in Starts : starts'[m] \in Start
    BY <1>4, <1>9, FreeShape
  <2> QED
    BY <2>1, <2>2
<1>11. TypeOK'
  <2>1. {q \in Routes : sessions'[q].st # "none"} = {q \in Routes : sessions[q].st # "none"}
    OBVIOUS
  <2> QED
    BY <1>8, <1>10, <2>1 DEF IInv, TypeOK
<1>12. ASSUME NEW m \in Starts PROVE Shape(m)' /\ Current(m)' /\ Fresh1(m)' /\ Kept1(m)'
  <2>1. CASE m = n /\ NeedsStart(g)
    <3>1. starts'[m] = begun /\ Referred(m)'
      BY <1>3, <1>4, <1>8, <1>9, <2>1 DEF Referred
    <3> QED
      BY <1>3, <1>8, <2>1, <3>1 DEF Shape, Current, Fresh1, Fresh, Kept1, InFlight
  <2>2. CASE ~(m = n /\ NeedsStart(g))
    <3>1. ss[m] = starts[m] /\ Shape(m) /\ Current(m) /\ Fresh1(m) /\ Kept1(m)
      BY <1>4, <2>2 DEF IInv
    <3>2. starts'[m] = starts[m] \/ starts'[m] = Free
      BY <1>9, <3>1
    <3>3. InFlight(m)' => InFlight(m) /\ starts'[m] = starts[m]
      BY <3>2, FreeShape DEF InFlight
    <3>4. InFlight(m) /\ starts[m].game = g => m = n
      <4> SUFFICES ASSUME InFlight(m), starts[m].game = g PROVE m = n
        OBVIOUS
      <4>1. games[g] = m /\ m # None
        BY <3>1, GatewayAssumption DEF Current
      <4>2. ~starts[m].expired
        BY <3>1 DEF Shape, InFlight
      <4> QED
        BY <1>7, <4>1, <4>2 DEF NeedsStart
    <3>5. Shape(m)' /\ Fresh1(m)'
      BY <3>1, <3>2, <3>3, FreeShape DEF Shape, Fresh1, Fresh, InFlight
    <3>6. InFlight(m) => games'[starts[m].game] = m
      BY <1>8, <3>1, <3>4 DEF Current
    <3>7. Current(m)'
      BY <3>1, <3>3, <3>6 DEF Current
    <3>8. m # n => (Referred(m)' => Referred(m))
      BY <1>8 DEF Referred, n
    <3>9. m = n => Referred(m)' /\ starts[m].pc # "free"
      <4> SUFFICES ASSUME m = n PROVE Referred(m)' /\ starts[m].pc # "free"
        OBVIOUS
      <4>1. games[g] = m
        BY <1>7, <2>2
      <4> QED
        BY <1>8, <3>1, <4>1 DEF Referred, Kept1
    <3>10. Kept1(m)'
      <4>1. CASE starts[m].pc = "free"
        BY <1>9, <3>1, <3>8, <3>9, <4>1 DEF Kept1
      <4>2. CASE starts[m].pc = "done"
        BY <1>9, <3>1, <4>2, FreeShape DEF Kept1
      <4>3. CASE InFlight(m)
        <5>1. starts'[m] = starts[m] /\ Referred(m)'
          BY <1>9, <3>1, <3>6, <4>3 DEF InFlight, Referred, Current
        <5> QED
          BY <4>3, <5>1 DEF Kept1, InFlight
      <4> QED
        BY <4>1, <4>2, <4>3 DEF IInv, TypeOK, Start, InFlight
    <3> QED
      BY <3>5, <3>7, <3>10
  <2> QED
    BY <2>1, <2>2
<1>13. ASSUME NEW q \in Routes PROVE Waits(q)' /\ Accepting(q)'
  BY <1>1, GatewayAssumption DEF IInv, Waits, Accepting, n
<1>14. Ended'
  BY DEF Ended
<1> QED
  BY <1>11, <1>12, <1>13, <1>14 DEF IInv

\* Resolves: the session waits for that start.
LEMMA ResolvesStep ==
    ASSUME IInv, NEW r \in Routes, Resolves(r)
    PROVE  IInv'
<1> DEFINE n == Chosen(Game(r))
           v == [sessions[r] EXCEPT !.st = "waits", !.on = n]
<1>1. /\ Game(r) \in Games /\ sessions[r].st = "asks" /\ sessions[r] \in Session
      /\ UNCHANGED <<host, instance, clients, late, readers, cancelled, returned>>
      /\ BeginsStart(Game(r)) /\ sessions' = [sessions EXCEPT ![r] = v]
  BY DEF Resolves, Routes, Game, IInv, TypeOK, controllerVars, gatewayVars
<1>2. n \in Starts
  BY <1>1, FreeStart DEF Chosen, NeedsStart, IInv, TypeOK
<1>3. v \in Session /\ v.st = "waits" /\ v.on = n /\ v.blamed = sessions[r].blamed
  BY <1>1, <1>2 DEF Session
<1> HIDE DEF v, n
<1>4. /\ sessions' \in [Routes -> Session] /\ sessions'[r] = v
      /\ \A q \in Routes \ {r} : sessions'[q] = sessions[q]
  BY <1>1, <1>3 DEF IInv, TypeOK
<1>5. ~returned
  BY <1>1 DEF IInv, Ended, Joined, NoWork
<1>6. late' \subseteq Games
  BY <1>1 DEF IInv, TypeOK
<1> QED
  BY <1>1, <1>3, <1>4, <1>5, <1>6, BeginsStep DEF n

\* LateResolves: nobody waits for it, and Serve waits for whoever has still to ask.
LEMMA LateResolvesStep ==
    ASSUME IInv, NEW g \in Games, LateResolves(g)
    PROVE  IInv'
<1>1. /\ g \in late /\ late' = late \ {g} /\ sessions' = sessions /\ BeginsStart(g)
      /\ UNCHANGED <<host, instance, clients, readers, cancelled, returned>>
  BY DEF LateResolves, controllerVars
<1>2. ~returned
  BY <1>1 DEF IInv, Ended, Joined, NoWork
<1>3. late' \subseteq Games /\ sessions' \in [Routes -> Session]
  BY <1>1 DEF IInv, TypeOK
<1> QED
  BY <1>1, <1>2, <1>3, BeginsStep

-----------------------------------------------------------------------------
(* The end, and the results.                                               *)

LEMMA ServeStep ==
    ASSUME IInv, Cancels \/ Returns \/ (\E g \in Games : ReaderEnds(g))
    PROVE  IInv'
<1>1. /\ UNCHANGED <<host, instance, starts, games, sessions, clients, late>>
      /\ cancelled' \in BOOLEAN /\ returned' \in BOOLEAN /\ (cancelled => cancelled')
      /\ readers' \in [Games -> {"reads", "accepts", "ended"}]
      /\ \A g \in Games : readers'[g] = readers[g] \/ (readers[g] = "reads" /\ readers'[g] = "ended")
      /\ returned' => returned \/ (cancelled /\ Joined /\ readers' = readers)
  <2>1. /\ readers \in [Games -> {"reads", "accepts", "ended"}]
        /\ cancelled \in BOOLEAN /\ returned \in BOOLEAN
    BY DEF IInv, TypeOK
  <2>2. CASE Cancels
    BY <2>1, <2>2 DEF Cancels, controllerVars
  <2>3. CASE Returns
    BY <2>1, <2>3 DEF Returns, controllerVars
  <2>4. ASSUME NEW g \in Games, ReaderEnds(g)
        PROVE  /\ UNCHANGED <<host, instance, starts, games, sessions, clients, late, cancelled,
                              returned>>
               /\ readers' \in [Games -> {"reads", "accepts", "ended"}]
               /\ \A h \in Games : readers'[h] = readers[h]
                                    \/ (readers[h] = "reads" /\ readers'[h] = "ended")
    BY <2>1, <2>4 DEF ReaderEnds, controllerVars
  <2>5. CASE \E g \in Games : ReaderEnds(g)
    BY <2>1, <2>4, <2>5
  <2> QED
    BY <2>2, <2>3, <2>5
<1>2. TypeOK'
  BY <1>1 DEF IInv, TypeOK
<1>3. \A n \in Starts : Shape(n)' /\ Current(n)' /\ Kept1(n)' /\ Fresh1(n)'
  BY <1>1 DEF IInv, Shape, Current, Kept1, Referred, Fresh1, Fresh, InFlight
<1>4. \A r \in Routes : Game(r) \in Games
  BY DEF Routes, Game
<1>5. \A r \in Routes : Waits(r)' /\ Accepting(r)'
  BY <1>1, <1>4 DEF IInv, Waits, Accepting
<1>6. Ended'
  BY <1>1 DEF IInv, Ended, Joined, NoWork, InFlight
<1> QED
  BY <1>2, <1>3, <1>5, <1>6 DEF IInv

LEMMA NextIInv == IInv /\ [Next]_vars => IInv'
<1> SUFFICES ASSUME IInv, [Next]_vars PROVE IInv'
  OBVIOUS
<1>1. CASE Controller
  BY <1>1, ObservesStep, StopsStep, HostGoesDownStep DEF Controller
<1>2. CASE Cancels \/ Returns \/ (\E g \in Games : ReaderEnds(g))
  BY <1>2, ServeStep
<1>3. ASSUME NEW n \in Starts, WakeGame(n) PROVE IInv'
  BY <1>3, WakesStep, LosesStep, RetriesStep, PollsStep, PostsStep, FailsStep, ExpiresStep
  DEF WakeGame
<1>4. ASSUME NEW r \in Routes, SessionStep(r) PROVE IInv'
  BY <1>4, ConnectsStep, AcceptsStep, SessionGoes, ResolvesStep, LearnsStep, GoesOnStep
  DEF SessionStep
<1>5. ASSUME NEW g \in Games, LateResolves(g) PROVE IInv'
  BY <1>5, LateResolvesStep
<1>6. CASE UNCHANGED vars
  BY <1>6
  DEF vars, IInv, TypeOK, Shape, Current, Kept1, Referred, Fresh1, Fresh, InFlight, Waits,
      Accepting, Ended, Joined, NoWork
<1> QED
  BY <1>1, <1>2, <1>3, <1>4, <1>5, <1>6 DEF Next

LEMMA InitIInv == Init => IInv
<1> SUFFICES ASSUME Init PROVE IInv
  OBVIOUS
<1>1. NoSession \in Session /\ NoSession.st = "none" /\ NoSession.on = None
      /\ NoSession.blamed = "none"
  BY DEF NoSession, Session
<1>2. /\ sessions \in [Routes -> Session] /\ \A r \in Routes : sessions[r] = NoSession
      /\ starts \in [Starts -> Start] /\ \A n \in Starts : starts[n] = Free
      /\ games \in [Games -> Starts \cup {None}] /\ \A g \in Games : games[g] = None
      /\ readers \in [Games -> {"reads", "accepts", "ended"}]
  BY <1>1, FreeShape DEF Init
<1>3. /\ host \in BOOLEAN /\ instance \in [Games -> Instance] /\ clients = 0 /\ late = {}
      /\ cancelled = FALSE /\ returned = FALSE
  BY DEF Init
<1>4. 0 = Cardinality({r \in Routes : sessions[r].st # "none"}) /\ 0 <= MaxSessions
  <2>1. {r \in Routes : sessions[r].st # "none"} = {}
    BY <1>1, <1>2
  <2> QED
    BY <2>1, FS_EmptySet, GatewayAssumption
<1>5. TypeOK
  BY <1>2, <1>3, <1>4 DEF TypeOK
<1>6. \A n \in Starts : Shape(n) /\ Current(n) /\ Kept1(n) /\ Fresh1(n)
  BY <1>1, <1>2, FreeShape, GatewayAssumption DEF Shape, Current, Kept1, Referred, Fresh1, InFlight
<1>7. \A r \in Routes : Waits(r) /\ Accepting(r)
  BY <1>1, <1>2 DEF Waits, Accepting
<1> QED
  BY <1>3, <1>5, <1>6, <1>7 DEF IInv, Ended

\* The gateway with any number of listeners and players: the clauses of IInv hold in
\* every state of it (wake/gateway.go).
THEOREM GatewayInvariance == Spec => []IInv
BY InitIInv, NextIInv, PTL DEF Spec

\* Every variable of the gateway keeps its type, and the count of sessions that is kept
\* apart from the maps of the listeners is theirs and within its limit (read, remove).
THEOREM GatewayTypes == Spec => []TypeOK
<1>1. IInv => TypeOK
  BY DEF IInv
<1> QED
  BY <1>1, GatewayInvariance, PTL

\* However many players come and leave, a game has one start under way at most, and
\* nobody is told of a failure that was another's leaving (resolve).
THEOREM StartsAreShared == Spec => []SharedStart
<1>1. IInv => SharedStart
  BY DEF IInv, Current, Waits, SharedStart, SingleFlight, LeavingIsHarmless
<1> QED
  BY <1>1, GatewayInvariance, PTL

\* An address is handed out only when the last observation, saved since the host was
\* woken for this start, was that the game runs (wakeGame).
THEOREM ReadinessIsFresh == Spec => ReadyIsFresh
<1>1. ASSUME IInv, Next, NEW n \in Starts,
             starts'[n].outcome = "address", starts[n].outcome # "address"
      PROVE  starts[n].ready
  <2>1. starts \in [Starts -> Start] /\ Fresh1(n)
    BY <1>1 DEF IInv, TypeOK
  <2>0. ASSUME NEW g, BeginsStart(g) PROVE starts[n].ready
    <3> DEFINE ss == IF NeedsStart(g) THEN [starts EXCEPT ![Chosen(g)] = Begun(g)] ELSE starts
    <3>1. starts' = Kept(ss, games', sessions')
      BY <2>0 DEF BeginsStart
    <3>2. Begun(g).outcome = "none"
      BY DEF Begun, Free
    <3>3. ss[n] = starts[n] \/ ss[n] = Begun(g)
      BY <2>1
    <3> HIDE DEF ss
    <3>4. starts'[n] = ss[n] \/ starts'[n] = Free
      BY <3>1, KeptIs
    <3> QED
      BY <1>1, <3>2, <3>3, <3>4, FreeShape
  <2>2. ASSUME NEW m \in Starts, WakeGame(m) PROVE starts[n].ready
    <3>1. PICK v : starts' = [starts EXCEPT ![m] = v]
      BY <2>2
      DEF WakeGame, Wakes, Loses, Retries, Polls, Posts, Fails, Abandons, Expires, Goes
    <3>2. m = n /\ starts'[n] = v
      BY <1>1, <2>1, <3>1
    <3>3. starts[n] \in Start
      BY <2>1
    <3>4. ASSUME NEW outcome \in {"failed", "cancelled"}
          PROVE  Done(starts[n], outcome).outcome # "address"
      BY <3>3, DoneShape
    <3>5. CASE Polls(n)
      <4> DEFINE i == instance[starts[n].game]
                 noted == [starts[n] EXCEPT !.observed = IF @ = "none" THEN "same" ELSE @]
      <4>1. noted.outcome = starts[n].outcome
            /\ [noted EXCEPT !.pc = "post"].outcome = starts[n].outcome
        BY <3>3 DEF Start
      <4>2. ~(Fresh(starts[n]) /\ i.phase = "running")
              => starts'[n] \in {Done(starts[n], "failed"), noted, [noted EXCEPT !.pc = "post"]}
        BY <2>1, <3>5 DEF Polls, Goes
      <4>3. Fresh(starts[n]) /\ i.phase = "running" /\ InFlight(n)
        BY <1>1, <3>4, <3>5, <4>1, <4>2 DEF Polls, InFlight
      <4> QED
        BY <2>1, <4>3 DEF Fresh1
    <3>6. CASE Wakes(n)
      BY <1>1, <2>1, <3>3, <3>4, <3>6 DEF Wakes, Goes, Start
    <3>7. CASE Loses(n) \/ Retries(n) \/ Posts(n) \/ Expires(n)
      <4>1. /\ Rewoken(starts[n]).outcome = starts[n].outcome
            /\ [starts[n] EXCEPT !.pc = "poll"].outcome = starts[n].outcome
            /\ [starts[n] EXCEPT !.expired = TRUE].outcome = starts[n].outcome
            /\ \A b \in BOOLEAN :
                 [starts[n] EXCEPT !.pc = "poll", !.started = b].outcome = starts[n].outcome
        BY <3>3 DEF Rewoken, Start
      <4>2. CASE Loses(n)
        BY <1>1, <2>1, <4>1, <4>2 DEF Loses, Goes
      <4>3. CASE Retries(n)
        BY <1>1, <2>1, <4>1, <4>3 DEF Retries, Goes
      <4>4. CASE Posts(n)
        BY <1>1, <2>1, <4>1, <4>4 DEF Posts, Goes
      <4>5. CASE Expires(n)
        BY <1>1, <2>1, <4>1, <4>5 DEF Expires, Goes
      <4> QED
        BY <3>7, <4>2, <4>3, <4>4, <4>5
    <3>8. CASE Fails(n) \/ Abandons(n)
      BY <1>1, <2>1, <3>4, <3>8 DEF Fails, Abandons, Goes
    <3> QED
      BY <2>2, <3>2, <3>5, <3>6, <3>7, <3>8 DEF WakeGame
  <2>3. ASSUME NEW g \in Games, Observes(g) PROVE starts[n].ready
    <3>1. PICK o \in [Starts -> {"none", "changed"}], b \in [Starts -> BOOLEAN] :
            starts' = [m \in Starts |->
               IF starts[m].game # g THEN starts[m]
               ELSE [starts[m] EXCEPT !.observed = o[m], !.ready = b[m]]]
      <4>1. PICK phase \in {"down", "running", "failed"} :
              starts' = [m \in Starts |->
                 IF starts[m].game # g THEN starts[m]
                 ELSE [starts[m] EXCEPT
                         !.observed = IF @ = "none" THEN @ ELSE "changed",
                         !.ready = InFlight(m) /\ phase = "running"]]
        BY <1>1, <2>3 DEF Observes, IInv, TypeOK, Instance
      <4> DEFINE oo == [m \in Starts |-> IF starts[m].observed = "none" THEN "none" ELSE "changed"]
                 bb == [m \in Starts |-> InFlight(m) /\ phase = "running"]
      <4>2. oo \in [Starts -> {"none", "changed"}] /\ bb \in [Starts -> BOOLEAN]
        <5>1. \A m \in Starts : (InFlight(m) /\ phase = "running") \in BOOLEAN
          BY DEF InFlight
        <5> QED
          BY <5>1
      <4>3. starts' = [m \in Starts |->
               IF starts[m].game # g THEN starts[m]
               ELSE [starts[m] EXCEPT !.observed = oo[m], !.ready = bb[m]]]
        BY <4>1
      <4> QED
        BY <4>2, <4>3
    <3>2. starts'[n].outcome = starts[n].outcome
      BY <2>1, <3>1 DEF Start
    <3> QED
      BY <1>1, <3>2
  <2>4. ASSUME NEW r \in Routes, SessionStep(r) PROVE starts[n].ready
    <3>1. CASE Resolves(r)
      BY <2>0, <3>1 DEF Resolves
    <3>2. CASE ~Resolves(r)
      <4>1. starts' = Kept(starts, games, sessions')
        BY <2>4, <3>2
        DEF SessionStep, Connects, Accepts, AcceptFails, Learns, Relays, AsksAgain, Ends,
            Interrupted, Leaves, Removes, Becomes
      <4>2. starts'[n] = starts[n] \/ starts'[n] = Free
        BY <4>1, KeptIs
      <4> QED
        BY <1>1, <4>2, FreeShape
    <3> QED
      BY <3>1, <3>2
  <2>5. ASSUME NEW g \in Games, LateResolves(g) PROVE starts[n].ready
    BY <2>0, <2>5 DEF LateResolves
  <2>6. CASE UNCHANGED starts
    BY <1>1, <2>6
  <2> QED
    BY <1>1, <2>2, <2>3, <2>4, <2>5, <2>6
    DEF Next, Controller, HostGoesDown, Stops, Cancels, Returns, ReaderEnds
<1>2. IInv /\ [Next]_vars =>
        [\A n \in Starts : starts'[n].outcome = "address" /\ starts[n].outcome # "address"
                             => starts[n].ready]_vars
  BY <1>1
<1> QED
  BY <1>2, GatewayInvariance, PTL DEF Spec, ReadyIsFresh

\* When Serve has returned no session, start or reader is left, and none begins any
\* more (serve, which closes the sockets and joins its goroutines).
THEOREM ReturnsEmpty == Spec => []NothingRemains
<1>1. IInv => NothingRemains
  <2> SUFFICES ASSUME IInv, returned PROVE NothingRemains
    BY DEF NothingRemains
  <2>1. NoWork /\ \A g \in Games : readers[g] = "ended"
    BY DEF IInv, Ended, Joined
  <2>2. \A r \in Routes : Game(r) \in Games
    BY DEF Routes, Game
  <2>3. {r \in Routes : sessions[r].st # "none"} = {}
    BY <2>1, <2>2 DEF NoWork, IInv, Accepting
  <2>4. clients = 0
    BY <2>3, FS_EmptySet DEF IInv, TypeOK
  <2> QED
    BY <2>1, <2>4 DEF NothingRemains
<1> QED
  BY <1>1, GatewayInvariance, PTL
=============================================================================

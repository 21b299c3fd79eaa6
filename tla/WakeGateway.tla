----------------------------- MODULE WakeGateway -----------------------------
(***************************************************************************)
(* The wake gateway (internal/wake/gateway.go, relay.go) and the start of  *)
(* a saved game it asks a controller for (internal/command/wake.go).       *)
(*                                                                         *)
(* Players connect to the listener of a game and are held.  The first one  *)
(* begins a start, which runs on its own; everybody who comes while it     *)
(* runs, and for a while after it, shares its outcome.  Then each session  *)
(* connects to the game and relays until its player leaves.  Durations are *)
(* left out: whatever waits for a time may happen at any time.  A "game"   *)
(* is what the gateway keeps its states by: a saved game that is reached   *)
(* through two ports is two of them, each with starts of its own.          *)
(***************************************************************************)
EXTENDS Integers, FiniteSets

CONSTANTS
    Games,        \* the saved games, each with a listener
    NetQuake,     \* those whose listener accepts a player before the game does
    Players,      \* the addresses players connect from
    Starts,       \* identities of the states of a start
    MaxSessions,  \* the limit of sessions, over all listeners
    HasHost,      \* the controller's host is an EC2 machine the gateway wakes
    None

Routes == Games \X Players
Game(r) == r[1]

ASSUME GatewayAssumption ==
    /\ NetQuake \subseteq Games
    /\ MaxSessions \in Nat
    /\ HasHost \in BOOLEAN
    /\ None \notin Starts
    /\ IsFiniteSet(Games) /\ IsFiniteSet(Players) /\ IsFiniteSet(Starts)
    /\ Cardinality(Starts) > Cardinality(Games) + Cardinality(Routes)

VARIABLES
    host,       \* the controller's host is up
    instance,   \* per game, what the controller's database says of it
    starts,     \* the gameState objects, each with the start it stands for
    games,      \* per game, the current one
    sessions,   \* per route, the session
    clients,    \* the number of sessions, as the gateway counts them
    late,       \* games a resolver of an ended session has still to ask for
    readers,    \* per game, what the reader of its listener does
    cancelled,  \* the gateway's context has ended
    returned    \* Serve has returned

vars ==
    <<host, instance, starts, games, sessions, clients, late, readers, cancelled, returned>>
controllerVars == <<host, instance>>
gatewayVars == <<late, readers, cancelled, returned>>

\* down: neither running and ready nor failed.
Instance == [desired : {"running", "stopped"}, phase : {"down", "running", "failed"}]
\* observed: the UpdatedAt of the first answer is not known, is the latest one,
\* or has been followed by another.  ready: history, the last observation saved
\* since the host was woken for this start was that the game is running.
Start == [game : Games \cup {None}, pc : {"free", "wake", "poll", "post", "done"},
          observed : {"none", "same", "changed"}, started : BOOLEAN, ready : BOOLEAN,
          outcome : {"none", "address", "failed", "cancelled"}, expired : BOOLEAN]
Free == [game |-> None, pc |-> "free", observed |-> "none", started |-> FALSE,
         ready |-> FALSE, outcome |-> "none", expired |-> FALSE]
\* blamed: history, the outcome of the start the player was told had failed.
Session == [st : {"none", "new", "asks", "waits", "connects", "relays", "ended"},
            on : Starts \cup {None}, blamed : {"none", "failed", "cancelled"}]
NoSession == [st |-> "none", on |-> None, blamed |-> "none"]

InFlight(n) == starts[n].pc \in {"wake", "poll", "post"}

Init ==
    /\ host \in BOOLEAN
    /\ instance \in [Games -> Instance]
    /\ starts = [n \in Starts |-> Free]
    /\ games = [g \in Games |-> None]
    /\ sessions = [r \in Routes |-> NoSession]
    /\ clients = 0 /\ late = {}
    /\ readers = [g \in Games |-> "reads"]
    /\ cancelled = FALSE /\ returned = FALSE

-----------------------------------------------------------------------------
(* The controller, as far as the gateway sees it.                          *)

\* A pass of the controller saves what it has observed of the game; a failure stays
\* when the pass itself fails.
Observes(g) ==
    /\ host
    /\ \E phase \in IF instance[g].desired = "running"
                    THEN {"down", "running", "failed"}
                    ELSE {"down", instance[g].phase} \ {"running"},
          idle \in BOOLEAN :
         /\ idle => phase = "running"
         /\ instance' = [instance EXCEPT
               ![g] = [desired |-> IF idle THEN "stopped" ELSE @.desired, phase |-> phase]]
         /\ starts' = [n \in Starts |->
               IF starts[n].game # g THEN starts[n]
               ELSE [starts[n] EXCEPT
                       !.observed = IF @ = "none" THEN @ ELSE "changed",
                       !.ready = InFlight(n) /\ phase = "running"]]
    /\ UNCHANGED <<host, games, sessions, clients, gatewayVars>>
\* Somebody else stops the game.
Stops(g) ==
    /\ host /\ instance[g].desired = "running"
    /\ instance' = [instance EXCEPT ![g].desired = "stopped"]
    /\ UNCHANGED <<host, starts, games, sessions, clients, gatewayVars>>
HostGoesDown ==
    /\ host /\ host' = FALSE
    /\ UNCHANGED <<instance, starts, games, sessions, clients, gatewayVars>>

-----------------------------------------------------------------------------
(* wakeGame, for the start n.                                              *)

Goes(n, start) == starts' = [starts EXCEPT ![n] = start]
\* The goroutine of resolve saves the outcome and closes the channel.
Done(start, outcome) ==
    [start EXCEPT !.pc = "done", !.outcome = outcome, !.observed = "none",
                  !.started = FALSE, !.ready = FALSE]

Wakes(n) ==
    /\ starts[n].pc = "wake"
    /\ \/ host' = TRUE /\ Goes(n, [starts[n] EXCEPT !.pc = "poll", !.ready = FALSE])
       \/ UNCHANGED host /\ Goes(n, Done(starts[n], "failed"))
    /\ UNCHANGED <<instance, games, sessions, clients, gatewayVars>>

\* Mutant of Rewoken: what was observed before the host went down still counts.
MutRewoken(start) == [start EXCEPT !.pc = "wake", !.started = FALSE]
Rewoken(start) == [start EXCEPT !.pc = "wake", !.observed = "none", !.started = FALSE]
\* A request fails, ten seconds or more after the host was woken.
Loses(n) ==
    /\ HasHost /\ starts[n].pc \in {"poll", "post"}
    /\ Goes(n, Rewoken(starts[n]))
    /\ UNCHANGED <<controllerVars, games, sessions, clients, gatewayVars>>
\* A request fails earlier, or there is no host to wake.
Retries(n) ==
    /\ starts[n].pc = "post"
    /\ Goes(n, [starts[n] EXCEPT !.pc = "poll"])
    /\ UNCHANGED <<controllerVars, games, sessions, clients, gatewayVars>>

Fresh(start) == start.observed = "changed"
\* GET, with what follows from the answer.
Polls(n) ==
    /\ starts[n].pc = "poll" /\ host
    /\ LET start == starts[n]
           i == instance[start.game]
           noted == [start EXCEPT !.observed = IF @ = "none" THEN "same" ELSE @]
       IN  Goes(n,
             IF Fresh(start) /\ i.phase = "failed" THEN Done(start, "failed")
             ELSE IF i.desired = "stopped" /\ ~start.started THEN [noted EXCEPT !.pc = "post"]
             ELSE IF Fresh(start) /\ i.phase = "running" /\ i.desired = "running"
             THEN Done(start, "address") ELSE noted)
    /\ UNCHANGED <<controllerVars, games, sessions, clients, gatewayVars>>
\* POST /start; its answer may get lost.
Posts(n) ==
    /\ starts[n].pc = "post" /\ host
    /\ instance' = [instance EXCEPT ![starts[n].game] =
          IF @.desired = "stopped" \/ @.phase = "failed"
          THEN [desired |-> "running", phase |-> "down"] ELSE @]
    /\ \E answered \in BOOLEAN :
         Goes(n, [starts[n] EXCEPT !.pc = "poll", !.started = answered])
    /\ UNCHANGED <<host, games, sessions, clients, gatewayVars>>

\* Three minutes have passed, or the game has no address that can be used.
Fails(n) ==
    /\ InFlight(n)
    /\ Goes(n, Done(starts[n], "failed"))
    /\ UNCHANGED <<controllerVars, games, sessions, clients, gatewayVars>>
\* Mutant of Orphaned: a player who leaves takes the start along.
MutOrphaned(n) ==
    cancelled \/ \E r \in Routes : Game(r) = starts[n].game /\ sessions[r].st = "ended"
Orphaned(n) == cancelled
Abandons(n) ==
    /\ InFlight(n) /\ Orphaned(n)
    /\ Goes(n, Done(starts[n], "cancelled"))
    /\ UNCHANGED <<controllerVars, games, sessions, clients, gatewayVars>>
\* The five seconds of an address, or the minute of a failure, have passed.
Expires(n) ==
    /\ starts[n].pc = "done" /\ ~starts[n].expired
    /\ Goes(n, [starts[n] EXCEPT !.expired = TRUE])
    /\ UNCHANGED <<controllerVars, games, sessions, clients, gatewayVars>>

-----------------------------------------------------------------------------
(* Sessions.                                                               *)

\* A state nobody refers to any more is gone.
Kept(ss, gs, se) ==
    [n \in Starts |->
       IF ss[n].pc # "done" \/ (\E g \in Games : gs[g] = n) \/ (\E r \in Routes : se[r].on = n)
       THEN ss[n] ELSE Free]
Becomes(r, s) ==
    /\ sessions' = [sessions EXCEPT ![r] = s]
    /\ starts' = Kept(starts, games, sessions')

\* The reader of a listener gets a connection request without a session.
Connects(r) ==
    /\ readers[Game(r)] = "reads" /\ ~cancelled
    /\ sessions[r].st = "none" /\ clients < MaxSessions
    /\ clients' = clients + 1
    /\ IF Game(r) \in NetQuake
       THEN /\ Becomes(r, [NoSession EXCEPT !.st = "new"])
            /\ readers' = [readers EXCEPT ![Game(r)] = "accepts"]
       ELSE /\ Becomes(r, [NoSession EXCEPT !.st = "asks"])
            /\ UNCHANGED readers
    /\ UNCHANGED <<controllerVars, games, late, cancelled, returned>>
Accepts(r) ==
    /\ sessions[r].st = "new"
    /\ Becomes(r, [sessions[r] EXCEPT !.st = "asks"])
    /\ readers' = [readers EXCEPT ![Game(r)] = "reads"]
    /\ UNCHANGED <<controllerVars, games, clients, late, cancelled, returned>>
\* Mutant of AcceptFails: the session stays in the map.
MutAcceptFails(r) ==
    /\ sessions[r].st = "new"
    /\ Becomes(r, NoSession)
    /\ readers' = [readers EXCEPT ![Game(r)] = "reads"]
    /\ UNCHANGED <<controllerVars, games, clients, late, cancelled, returned>>
AcceptFails(r) ==
    /\ sessions[r].st = "new"
    /\ Becomes(r, NoSession)
    /\ clients' = clients - 1
    /\ readers' = [readers EXCEPT ![Game(r)] = "reads"]
    /\ UNCHANGED <<controllerVars, games, late, cancelled, returned>>

\* Mutant of NeedsStart: a start that runs has no expiry yet, which is past.
MutNeedsStart(g) ==
    games[g] = None \/ (games[g] # None /\ (starts[games[g]].expired \/ InFlight(games[g])))
NeedsStart(g) == games[g] = None \/ (games[g] # None /\ starts[games[g]].expired)
\* resolve, up to the wait: the state of the game, or a new one with its start.
Chosen(g) == IF NeedsStart(g) THEN CHOOSE k \in Starts : starts[k].pc = "free" ELSE games[g]
Begun(g) == [Free EXCEPT !.game = g, !.pc = IF HasHost THEN "wake" ELSE "poll"]
BeginsStart(g) ==
    /\ games' = [games EXCEPT ![g] = Chosen(g)]
    /\ starts' = Kept(IF NeedsStart(g) THEN [starts EXCEPT ![Chosen(g)] = Begun(g)] ELSE starts,
                      games', sessions')
Resolves(r) ==
    /\ sessions[r].st = "asks"
    /\ sessions' = [sessions EXCEPT ![r] = [@ EXCEPT !.st = "waits", !.on = Chosen(Game(r))]]
    /\ BeginsStart(Game(r))
    /\ UNCHANGED <<controllerVars, clients, gatewayVars>>
\* The resolver of a session that has ended: resolve looks at its context only when it
\* comes to wait.
LateResolves(g) ==
    /\ g \in late /\ late' = late \ {g}
    /\ UNCHANGED sessions
    /\ BeginsStart(g)
    /\ UNCHANGED <<controllerVars, clients, readers, cancelled, returned>>

\* Mutant of Heard: only the address is announced.
MutHeard(n) == starts[n].outcome = "address"
Heard(n) == starts[n].pc = "done"
\* The session takes the outcome; a player whose game did not start is told so.
Learns(r) ==
    /\ sessions[r].st = "waits" /\ Heard(sessions[r].on)
    /\ LET outcome == starts[sessions[r].on].outcome
       IN  Becomes(r, IF outcome = "address"
                      THEN [sessions[r] EXCEPT !.st = "connects", !.on = None]
                      ELSE [st |-> "ended", on |-> None, blamed |-> outcome])
    /\ UNCHANGED <<controllerVars, games, clients, gatewayVars>>

\* The game takes the player.
Relays(r) ==
    /\ sessions[r].st = "connects"
    /\ Becomes(r, [sessions[r] EXCEPT !.st = "relays"])
    /\ UNCHANGED <<controllerVars, games, clients, gatewayVars>>
\* The handshake gets no answer: the address is asked for again.
AsksAgain(r) ==
    /\ sessions[r].st = "connects" /\ Game(r) \in NetQuake
    /\ Becomes(r, [sessions[r] EXCEPT !.st = "asks"])
    /\ UNCHANGED <<controllerVars, games, clients, gatewayVars>>

\* The session ends, and with the context it cancels the reader of its backend and a
\* resolver that waits.  One that has not come to ask for the game yet still will; one
\* of each game at a time, which is a bound.
Leaves(r) ==
    /\ Becomes(r, [sessions[r] EXCEPT !.st = "ended", !.on = None])
    /\ IF sessions[r].st = "asks" THEN Game(r) \notin late /\ late' = late \cup {Game(r)}
       ELSE UNCHANGED late
    /\ UNCHANGED <<controllerVars, games, clients, readers, cancelled, returned>>
\* The player disconnects or is silent for a minute, the game refuses it, the
\* start takes more than three minutes, or a socket fails.
Ends(r) == sessions[r].st \in {"asks", "waits", "connects", "relays"} /\ Leaves(r)
Interrupted(r) ==
    cancelled /\ sessions[r].st \in {"asks", "waits", "connects", "relays"} /\ Leaves(r)
Removes(r) ==
    /\ sessions[r].st = "ended"
    /\ Becomes(r, NoSession)
    /\ clients' = clients - 1
    /\ UNCHANGED <<controllerVars, games, gatewayVars>>

-----------------------------------------------------------------------------
(* Serve.                                                                  *)

\* The context ends, or a listener fails.
Cancels ==
    /\ ~cancelled /\ cancelled' = TRUE
    /\ UNCHANGED <<controllerVars, starts, games, sessions, clients, late, readers, returned>>
\* The listener is closed; its reader returns once it is done with a packet.
ReaderEnds(g) ==
    /\ cancelled /\ readers[g] = "reads"
    /\ readers' = [readers EXCEPT ![g] = "ended"]
    /\ UNCHANGED <<controllerVars, starts, games, sessions, clients, late, cancelled, returned>>
\* What work.Wait waits for.
NoWork ==
    /\ \A r \in Routes : sessions[r].st \in {"none", "new"}
    /\ \A n \in Starts : ~InFlight(n)
    /\ late = {}
\* Mutant of Joined: the readers are not awaited.
MutJoined == NoWork
Joined == NoWork /\ \A g \in Games : readers[g] = "ended"
Returns ==
    /\ cancelled /\ ~returned /\ Joined
    /\ returned' = TRUE
    /\ UNCHANGED <<controllerVars, starts, games, sessions, clients, late, readers, cancelled>>

-----------------------------------------------------------------------------
Controller == HostGoesDown \/ \E g \in Games : Observes(g) \/ Stops(g)
WakeGame(n) ==
    \/ Wakes(n) \/ Loses(n) \/ Retries(n) \/ Polls(n) \/ Posts(n)
    \/ Fails(n) \/ Abandons(n) \/ Expires(n)
SessionStep(r) ==
    \/ Connects(r) \/ Accepts(r) \/ AcceptFails(r) \/ Resolves(r) \/ Learns(r) \/ Relays(r)
    \/ AsksAgain(r) \/ Ends(r) \/ Interrupted(r) \/ Removes(r)

Next ==
    \/ Controller \/ Cancels \/ Returns
    \/ \E n \in Starts : WakeGame(n)
    \/ \E r \in Routes : SessionStep(r)
    \/ \E g \in Games : ReaderEnds(g) \/ LateResolves(g)

Spec == Init /\ [][Next]_vars

\* Goroutines run, and the three minutes of a start pass.  Nothing is asked of
\* the controller, the players, or the timeouts of a session.
LiveSpec ==
    /\ Spec
    /\ WF_vars(Returns)
    /\ \A n \in Starts : WF_vars(Fails(n))
    /\ \A g \in Games : WF_vars(ReaderEnds(g)) /\ WF_vars(LateResolves(g))
    /\ \A r \in Routes :
         /\ WF_vars(Accepts(r)) /\ WF_vars(Resolves(r)) /\ WF_vars(Learns(r))
         /\ WF_vars(Interrupted(r)) /\ WF_vars(Removes(r))

-----------------------------------------------------------------------------
(* Properties.                                                             *)

\* Every variable holds a value of its kind, and the count of sessions, which is
\* kept apart from the maps of the listeners, is theirs and within its limit.
TypeOK ==
    /\ host \in BOOLEAN /\ cancelled \in BOOLEAN /\ returned \in BOOLEAN
    /\ instance \in [Games -> Instance]
    /\ starts \in [Starts -> Start]
    /\ games \in [Games -> Starts \cup {None}]
    /\ sessions \in [Routes -> Session]
    /\ late \subseteq Games
    /\ readers \in [Games -> {"reads", "accepts", "ended"}]
    /\ clients = Cardinality({r \in Routes : sessions[r].st # "none"})
    /\ clients <= MaxSessions

\* However many players arrive, leave and come back, one start of a game is under
\* way at most: another begins only when the outcome of the last has expired
\* (docs/architecture.md, "Starts are shared by game ID").  It is about the key of the
\* gateway's map: the starts of a saved game that has two ports are two.
SingleFlight ==
    \A m, n \in Starts :
        InFlight(m) /\ InFlight(n) /\ starts[m].game = starts[n].game => m = n

\* Nobody is told that a start has failed because somebody else has left
\* ("one client leaving cannot cancel another's startup").
LeavingIsHarmless == \A r \in Routes : sessions[r].blamed = "cancelled" => cancelled

\* A start is shared by everybody who waits for its game, and is nobody's own
\* (resolve, whose start runs under the context of the gateway).
SharedStart == SingleFlight /\ LeavingIsHarmless

\* An address is handed out only on an observation of the controller that was
\* saved since the host was last woken for this start, never on what its database
\* kept from before the host went down ("Readiness requires a fresh authenticated
\* controller observation").
ReadyIsFresh ==
    [][\A n \in Starts :
         starts'[n].outcome = "address" /\ starts[n].outcome # "address" => starts[n].ready]_vars

\* When Serve returns, no session, start or other goroutine is left, and none is
\* begun any more ("Cancellation closes sockets and joins workers").
NothingRemains ==
    returned => NoWork /\ clients = 0 /\ \A g \in Games : readers[g] = "ended"

\* A player who waits for a start learns its outcome, whoever else shares it, and
\* a gateway that is cancelled returns, although its players stay, and then leaves
\* nothing behind (resolve, serve).
WaitingEnds ==
    /\ \A r \in Routes : []<>(sessions[r].st # "waits")
    /\ []<>(cancelled => returned)
    /\ []NothingRemains
=============================================================================

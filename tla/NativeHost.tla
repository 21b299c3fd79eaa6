------------------------------ MODULE NativeHost ------------------------------
(***************************************************************************)
(* One instance of the native provider (internal/control/native.go): its   *)
(* directory, the detached agents that were spawned for it and the lock    *)
(* that says whether one is alive (internal/agent/file.go), the game under *)
(* the agent (internal/agent/run.go, process.go) and the calls of the      *)
(* controller, one after the other.                                        *)
(*                                                                         *)
(* Agents outlive the controller, and a request outlives the client that   *)
(* gave up on it.  A machine that restarts ends every process and keeps    *)
(* the directory.  Ports, assets and configuration text are left out.      *)
(***************************************************************************)
EXTENDS Integers, FiniteSets

CONSTANTS
    Agents,     \* bound: processes of agents at a time
    Handlers,   \* bound: requests an agent works on at a time
    MaxBoots,   \* bound: starts of the machine
    MaxFaults,  \* bound: crashes, kills, timeouts and unlucky probes
    Absent

ASSUME NativeAssumption ==
    /\ MaxBoots \in Nat \ {0} /\ MaxFaults \in Nat
    /\ Absent \notin [started : BOOLEAN, boot : 0..MaxBoots]

VARIABLES
    dir,    \* the files of the instance that decide something
    agent,  \* the agents
    call,   \* the controller's call of the provider
    intent, \* what the controller wants: anything, a stop, or the deletion
    boot,   \* the boot ID of the machine
    ran,    \* history: an agent was spawned since the machine started
    faults

nativeVars == <<dir, agent, call, intent, boot, ran, faults>>

\* work: the copy of the assets, with everything written before state.json; owner: the
\* file with the token of the instance, "torn" when it was created and not written.
Directory == [owner : {"none", "torn", "own", "other"}, work : {"none", "part", "whole"},
              state : {Absent} \cup [started : BOOLEAN, boot : 0..MaxBoots]]
\* "locked": it prepares its files; "closing": its server takes no more requests;
\* "stops": the deferred stop of the game; "exits": the lock is released.
Agent == [st : {"none", "spawned", "locked", "serves", "closing", "stops", "exits"},
          game : {"none", "runs", "quits"},
          req : [Handlers -> {"none", "restarts", "starts", "stops", "done"}]]
NoAgent == [st |-> "none", game |-> "none", req |-> [h \in Handlers |-> "none"]]
Call == [op : {"none", "ensure", "start", "stop", "delete"},
         pc : {"none", "writes", "copies", "saves", "spawns", "waits", "asks", "answer", "polls",
               "removes", "gone"},
         to : {Absent} \cup (Agents \X Handlers), spawned : {Absent} \cup Agents]
Idle == [op |-> "none", pc |-> "none", to |-> Absent, spawned |-> Absent]

Empty == [owner |-> "none", work |-> "none", state |-> Absent]
Foreign == [owner |-> "other", work |-> "whole", state |-> Absent]
NativeInit ==
    /\ dir \in {Empty, Foreign}
    /\ agent = [a \in Agents |-> NoAgent]
    /\ call = Idle /\ intent = "any" /\ boot = 1 /\ ran = FALSE /\ faults = 0

\* A step nobody wants: a crash, a timeout, a probe at the wrong moment.
Fault == faults < MaxFaults /\ faults' = faults + 1
Begins(op) ==
    /\ call = Idle
    /\ intent = CASE op = "delete" -> "delete" [] op = "stop" -> "stop" [] OTHER -> "any"
CallGoes(pc) == call' = [call EXCEPT !.pc = pc]
CallReturns == call' = Idle

-----------------------------------------------------------------------------
(* The lock.                                                               *)

Holders == {a \in Agents : agent[a].st \in {"locked", "serves", "closing", "stops"}}
\* nativeAlive; its answer is wrong when another probe holds the lock just then.
Alive == Holders # {} /\ UNCHANGED faults
NotAlive == Holders = {} /\ UNCHANGED faults
LooksAlive == Holders = {} /\ Fault

\* What Inspect says of the start: one before the machine's last boot does not count.
Started ==
    /\ dir.state # Absent /\ dir.state.started
    /\ Holders # {} \/ dir.state.boot \in {0, boot}

-----------------------------------------------------------------------------
(* Ensure.                                                                 *)

\* Mutant of Owned: the owner file is created whether there is one or not.
MutOwned == "torn"
\* The owner file is created only where there is none, and is empty then.
Owned == IF dir.owner = "none" THEN "torn" ELSE dir.owner
\* A saved state is only inspected.  An owner file that does not have the token, be it
\* another's or one that was never written, is an error.
Ensure ==
    /\ Begins("ensure") /\ dir.state = Absent
    /\ dir' = [dir EXCEPT !.owner = Owned]
    /\ call' = CASE dir.owner = "none" -> [Idle EXCEPT !.op = "ensure", !.pc = "writes"]
                 [] dir.owner = "own" -> [Idle EXCEPT !.op = "ensure", !.pc = "copies"]
                 [] OTHER -> Idle
    /\ UNCHANGED <<agent, intent, boot, ran, faults>>
\* The token is written; a write that fails is a call that ends before it.
Writes ==
    /\ call.op = "ensure" /\ call.pc = "writes"
    /\ dir' = [dir EXCEPT !.owner = "own"] /\ CallGoes("copies")
    /\ UNCHANGED <<agent, intent, boot, ran, faults>>
\* Mutant of Copies: the state is saved first, with the ports.
MutCopies ==
    /\ call.op = "ensure" /\ call.pc = "copies"
    /\ dir' = [dir EXCEPT !.state = [started |-> FALSE, boot |-> 0]] /\ CallGoes("saves")
    /\ UNCHANGED <<agent, intent, boot, ran, faults>>
\* Every file is written anew, whatever a copy that was cut short has left.
copyAssets(work) == IF work = "part" THEN "whole" ELSE "part"
Copies ==
    /\ call.op = "ensure" /\ call.pc = "copies"
    /\ dir' = [dir EXCEPT !.work = copyAssets(@)]
    /\ IF dir'.work = "whole" THEN CallGoes("saves") ELSE UNCHANGED call
    /\ UNCHANGED <<agent, intent, boot, ran, faults>>
Saves ==
    /\ call.op = "ensure" /\ call.pc = "saves"
    /\ dir' = [dir EXCEPT !.state = [started |-> FALSE, boot |-> 0]] /\ CallReturns
    /\ UNCHANGED <<agent, intent, boot, ran, faults>>

-----------------------------------------------------------------------------
(* Start.                                                                  *)

\* A live agent is asked to restart the game; otherwise the start is saved before
\* an agent is spawned.
StartAsks ==
    /\ Begins("start") /\ dir.state # Absent /\ (Alive \/ LooksAlive)
    /\ call' = [Idle EXCEPT !.op = "start", !.pc = "asks"]
    /\ UNCHANGED <<dir, agent, intent, boot, ran>>
\* Mutant of StartSaves: the start is saved when the agent is alive.
MutStartSaves ==
    /\ Begins("start") /\ dir.state # Absent /\ NotAlive
    /\ call' = [Idle EXCEPT !.op = "start", !.pc = "spawns"]
    /\ UNCHANGED <<dir, agent, intent, boot, ran>>
StartSaves ==
    /\ Begins("start") /\ dir.state # Absent /\ NotAlive
    /\ dir' = [dir EXCEPT !.state = [started |-> TRUE, boot |-> boot]]
    /\ call' = [Idle EXCEPT !.op = "start", !.pc = "spawns"]
    /\ UNCHANGED <<agent, intent, boot, ran>>
Spawns(a) ==
    /\ call.op = "start" /\ call.pc = "spawns" /\ agent[a] = NoAgent
    /\ agent' = [agent EXCEPT ![a].st = "spawned"]
    /\ call' = [call EXCEPT !.pc = "waits", !.spawned = a]
    /\ ran' = TRUE
    /\ UNCHANGED <<dir, intent, boot, faults>>
\* Start polls the lock and watches the process it has spawned.
StartEnds ==
    /\ call.op = "start" /\ call.pc = "waits"
    /\ \/ Alive
       \/ LooksAlive
       \/ agent[call.spawned] = NoAgent /\ UNCHANGED faults
    /\ CallReturns
    /\ UNCHANGED <<dir, agent, intent, boot, ran>>

-----------------------------------------------------------------------------
(* Stop and Delete.                                                        *)

StopAsks ==
    /\ Begins("stop") /\ dir.state # Absent /\ (Alive \/ LooksAlive)
    /\ call' = [Idle EXCEPT !.op = "stop", !.pc = "asks"]
    /\ UNCHANGED <<dir, agent, intent, boot, ran>>

\* An agent that was spawned has come to its lock before the controller deletes: the
\* context of a start, or a restart of the controller, takes far longer than that.
Prompt == \A a \in Agents : agent[a].st # "spawned"
DeleteAsks ==
    /\ Begins("delete") /\ Prompt /\ dir.state # Absent /\ (Alive \/ LooksAlive)
    /\ call' = [Idle EXCEPT !.op = "delete", !.pc = "asks"]
    /\ UNCHANGED <<dir, agent, intent, boot, ran>>
\* Mutant of MayRemove: the agent has agreed to stop, which is taken for done.
MutMayRemove ==
    \/ call.op = "delete" /\ call.pc = "polls" /\ UNCHANGED faults
    \/ Begins("delete") /\ Prompt /\ dir.state # Absent /\ NotAlive
MayRemove ==
    /\ \/ call.op = "delete" /\ call.pc = "polls"
       \/ Begins("delete") /\ Prompt /\ dir.state # Absent
    /\ NotAlive
\* Without a state the owner file decides, and is refused when it does not have the
\* token; without that too there is nothing to do, whatever else is there.
DeleteRemoves ==
    /\ \/ MayRemove
       \/ Begins("delete") /\ Prompt /\ dir.state = Absent /\ dir.owner = "own" /\ UNCHANGED faults
    /\ call' = [Idle EXCEPT !.op = "delete", !.pc = "removes"]
    /\ UNCHANGED <<dir, agent, intent, boot, ran>>
DeleteFindsNothing ==
    /\ Begins("delete") /\ Prompt /\ dir.state = Absent /\ dir.owner = "none"
    /\ call' = [Idle EXCEPT !.op = "delete", !.pc = "gone"]
    /\ UNCHANGED <<dir, agent, intent, boot, ran, faults>>
\* os.RemoveAll takes the files in whatever order the directory lists them.
RemovesFile ==
    /\ call.op = "delete" /\ call.pc = "removes"
    /\ dir' \in {[dir EXCEPT !.owner = "none"], [dir EXCEPT !.state = Absent],
                 [dir EXCEPT !.work = "none"]} \ {dir}
    /\ UNCHANGED <<agent, call, intent, boot, ran, faults>>
Removed ==
    /\ call.op = "delete" /\ call.pc = "removes"
    /\ dir = Empty
    /\ CallGoes("gone")
    /\ UNCHANGED <<dir, agent, intent, boot, ran, faults>>

-----------------------------------------------------------------------------
(* A request to the agent.                                                 *)

\* Nobody listens: the agent prepares its files, it is closing, or there is none.
Refused ==
    /\ call.pc = "asks" /\ \A a \in Agents : agent[a].st # "serves"
    /\ CallReturns
    /\ UNCHANGED <<dir, agent, intent, boot, ran, faults>>
\* Process.Stop by a request: the game is told to quit, and waited for.
Request(a, h) ==
    /\ call.pc = "asks" /\ call.op \in {"start", "stop"}
    /\ agent[a].st = "serves" /\ agent[a].req[h] = "none"
    /\ agent' = [agent EXCEPT
          ![a].game = IF @ = "none" THEN "none" ELSE "quits",
          ![a].req[h] = CASE call.op = "start" /\ agent[a].game = "none" -> "starts"
                          [] call.op = "start" -> "restarts"
                          [] agent[a].game = "none" -> "done"
                          [] OTHER -> "stops"]
    /\ call' = [call EXCEPT !.pc = "answer", !.to = <<a, h>>]
    /\ UNCHANGED <<dir, intent, boot, ran, faults>>
\* Process.Start by a request to restart: another one may have been quicker.
Restarts(a, h) ==
    /\ agent[a].req[h] = "starts"
    /\ \E game \in {"none", "runs"} :
         agent' = [agent EXCEPT ![a].req[h] = "done",
                                ![a].game = IF @ = "none" THEN game ELSE @]
    /\ UNCHANGED <<dir, call, intent, boot, ran, faults>>
\* The answer reaches the caller, if it still waits.
Answers(a, h) ==
    /\ agent[a].req[h] = "done"
    /\ agent' = [agent EXCEPT ![a].req[h] = "none"]
    /\ IF call.to = <<a, h>> THEN CallReturns ELSE UNCHANGED call
    /\ UNCHANGED <<dir, intent, boot, ran, faults>>
\* Mutant of Shutdown: the game is stopped, the agent stays.
MutShutdown(a) ==
    /\ call.pc = "asks" /\ call.op = "delete" /\ agent[a].st = "serves"
    /\ agent' = [agent EXCEPT ![a].game = IF @ = "none" THEN "none" ELSE "quits"]
    /\ CallGoes("polls")
    /\ UNCHANGED <<dir, intent, boot, ran, faults>>
\* The request of a deletion is answered at once; the answer may not arrive.
Shutdown(a) ==
    /\ call.pc = "asks" /\ call.op = "delete" /\ agent[a].st = "serves"
    /\ agent' = [agent EXCEPT ![a].st = "closing"]
    /\ \/ CallGoes("polls") /\ UNCHANGED faults
       \/ CallReturns /\ Fault
    /\ UNCHANGED <<dir, intent, boot, ran>>
\* The agent a caller waits for has ended.
CutOff ==
    /\ call.pc = "answer" /\ agent[call.to[1]].req[call.to[2]] = "none"
    /\ CallReturns
    /\ UNCHANGED <<dir, agent, intent, boot, ran, faults>>

-----------------------------------------------------------------------------
(* The agent.                                                              *)

AgentBecomes(a, st) == agent' = [agent EXCEPT ![a].st = st]
\* Mutant of Lockable: the lock is not looked at.
MutLockable == dir.work # "none"
Lockable == dir.work # "none" /\ Holders = {}
\* RunFile: without the lock the agent exits, also when a probe has it just then.
Locks(a) ==
    /\ agent[a].st = "spawned"
    /\ \/ Lockable /\ AgentBecomes(a, "locked") /\ UNCHANGED faults
       \/ ~Lockable /\ AgentBecomes(a, "none") /\ UNCHANGED faults
       \/ AgentBecomes(a, "none") /\ Fault
    /\ UNCHANGED <<dir, call, intent, boot, ran>>
\* Run, up to its server: the files are prepared and the game is started, or not.
Launches(a) ==
    /\ agent[a].st = "locked"
    /\ \/ agent' = [agent EXCEPT ![a].st = "serves", ![a].game = "runs"] /\ UNCHANGED faults
       \/ AgentBecomes(a, "exits") /\ Fault
    /\ UNCHANGED <<dir, call, intent, boot, ran>>
\* Mutant of GameEnds: the agent keeps its game up, whoever has stopped it.
MutGameEnds(a) ==
    /\ agent[a].game # "none"
    /\ agent' = [agent EXCEPT
          ![a].game = "none",
          ![a].st = IF @ = "stops" THEN "exits" ELSE @,
          ![a].req = [h \in Handlers |-> IF @[h] \in {"restarts", "stops"} THEN "starts" ELSE @[h]]]
    /\ UNCHANGED <<dir, call, intent, boot, ran, faults>>
\* The game ends, by itself, because it was told to or because it was killed after
\* its time to quit.  Everybody who waits for it goes on.
GameEnds(a) ==
    /\ agent[a].game # "none"
    /\ agent' = [agent EXCEPT
          ![a].game = "none",
          ![a].st = IF @ = "stops" THEN "exits" ELSE @,
          ![a].req = [h \in Handlers |-> CASE @[h] = "restarts" -> "starts"
                                           [] @[h] = "stops" -> "done"
                                           [] OTHER -> @[h]]]
    /\ UNCHANGED <<dir, call, intent, boot, ran, faults>>
\* The end of Run: the server has waited for its requests, or for five seconds, and
\* the game is stopped.
Closes(a) ==
    /\ agent[a].st = "closing"
    /\ agent' = IF agent[a].game = "none" THEN [agent EXCEPT ![a].st = "exits"]
                ELSE [agent EXCEPT ![a].st = "stops", ![a].game = "quits"]
    /\ UNCHANGED <<dir, call, intent, boot, ran, faults>>
\* Mutant of Exits: the game outlives its agent.
MutExits(a) ==
    /\ agent[a].st = "exits"
    /\ agent' = [agent EXCEPT ![a] = [NoAgent EXCEPT !.game = agent[a].game]]
    /\ UNCHANGED <<dir, call, intent, boot, ran, faults>>
\* The process ends, and its game with it (the parent death signal).
Exits(a) ==
    /\ agent[a].st = "exits"
    /\ agent' = [agent EXCEPT ![a] = NoAgent]
    /\ UNCHANGED <<dir, call, intent, boot, ran, faults>>

-----------------------------------------------------------------------------
(* Faults, and what the controller wants.                                  *)

\* The controller is killed or gives up: the context of the call ends.
CallEnds ==
    /\ call # Idle /\ call.pc # "gone" /\ Fault
    /\ CallReturns
    /\ UNCHANGED <<dir, agent, intent, boot, ran>>
\* SIGTERM, or a server that cannot listen.
Terminated(a) ==
    /\ agent[a].st = "serves" /\ Fault
    /\ AgentBecomes(a, "closing")
    /\ UNCHANGED <<dir, call, intent, boot, ran>>
Killed(a) ==
    /\ agent[a].st # "none" /\ Fault
    /\ agent' = [agent EXCEPT ![a] = NoAgent]
    /\ UNCHANGED <<dir, call, intent, boot, ran>>
Reboots ==
    /\ boot < MaxBoots /\ boot' = boot + 1 /\ ran' = FALSE
    /\ agent' = [a \in Agents |-> NoAgent]
    /\ call' = IF call.pc = "gone" THEN call ELSE Idle
    /\ UNCHANGED <<dir, intent, faults>>
\* Deletion is final.
Wants(i) ==
    /\ <<intent, i>> \in {<<"any", "stop">>, <<"stop", "any">>, <<"any", "delete">>,
                          <<"stop", "delete">>}
    /\ intent' = i
    /\ UNCHANGED <<dir, agent, call, boot, ran, faults>>

-----------------------------------------------------------------------------
Provider ==
    \/ Ensure \/ Writes \/ Copies \/ Saves \/ StartAsks \/ StartSaves \/ StartEnds \/ StopAsks
    \/ DeleteAsks \/ DeleteRemoves \/ DeleteFindsNothing \/ RemovesFile \/ Removed
    \/ Refused \/ CutOff
    \/ \E a \in Agents : Spawns(a) \/ Shutdown(a) \/ \E h \in Handlers : Request(a, h)
Process(a) ==
    \/ Locks(a) \/ Launches(a) \/ Closes(a) \/ Exits(a)
    \/ \E h \in Handlers : Restarts(a, h) \/ Answers(a, h)
NativeNext ==
    \/ Provider
    \/ \E a \in Agents : Process(a) \/ GameEnds(a) \/ Terminated(a) \/ Killed(a)
    \/ CallEnds \/ Reboots
    \/ \E i \in {"any", "stop", "delete"} : Wants(i)

NativeSpec == NativeInit /\ [][NativeNext]_nativeVars

\* The controller's loop comes back to the instance, an agent that is alive goes on,
\* and a game that was told to quit ends or is killed.
NativeFairness ==
    /\ WF_nativeVars(Provider)
    /\ \A a \in Agents :
         /\ WF_nativeVars(Process(a))
         /\ WF_nativeVars(agent[a].game = "quits" /\ GameEnds(a))
NativeLiveSpec == NativeSpec /\ NativeFairness

-----------------------------------------------------------------------------
(* Properties.                                                             *)

\* Every variable holds a value of its kind, and a process that is gone or has not come
\* to its server has neither a game nor requests.
NativeTypes ==
    /\ \A a \in Agents : agent[a].st \in {"none", "spawned", "locked"} =>
          agent[a].game = "none" /\ \A h \in Handlers : agent[a].req[h] = "none"
    /\ dir \in Directory /\ agent \in [Agents -> Agent] /\ call \in Call
    /\ intent \in {"any", "stop", "delete"} /\ boot \in 1..MaxBoots
    /\ ran \in BOOLEAN /\ faults \in 0..MaxFaults

Running == {a \in Agents : agent[a].game # "none"}

\* Two games never run for one instance, whatever the controller has spawned, given
\* up on or asked twice: only an agent that is about to exit, and takes its game with
\* it, may have a game beside the one that has the lock (agent/file.go, "RunFile holds
\* an advisory lock for the lifetime of a detached native agent").
OneGame ==
    /\ Cardinality(Holders) <= 1
    /\ \A a \in Running : a \in Holders \/ agent[a].st = "exits"

\* A game that runs or has run since the machine started is seen as started, whenever
\* the controller was killed: its exit is not taken for a restart of the machine, after
\* which it would be started again ("Unexpected exits require explicit stop/start").
StartIsOnRecord == ran /\ intent # "delete" => Started

\* A directory that has a state is complete, although copying it may have been cut
\* short any number of times: nothing is started from half of the assets.
StateMeansWhole ==
    dir.state # Absent /\ intent # "delete" => dir.owner = "own" /\ dir.work = "whole"

\* The files of another instance are never touched.
ForeignUntouched == [][dir.owner = "other" => UNCHANGED dir]_nativeVars

\* Files are removed only when no agent can use them any more: the ones left are about
\* to exit ("delete stops the agent before removing files").
RemovedAfterAgents ==
    call.op = "delete" /\ call.pc \in {"removes", "gone"} =>
        \A a \in Agents : agent[a].st \in {"none", "exits"}

\* What is in a directory: nobody's files are touched but the instance's own, nothing
\* is started from half of them, and none is removed under an agent (Ensure, Delete).
FilesAreSafe == []StateMeansWhole /\ []RemovedAfterAgents /\ ForeignUntouched

\* A game that is to stop does, and stays stopped, although restarts that were given
\* up on still go on in the agent.
StopHappens == []<>(intent # "stop") \/ <>[](Running = {})

\* Ensure was ended between creating its owner file and writing it.
Torn == dir.owner = "torn" /\ call.op # "ensure"
\* A removal was ended when neither owner nor state were left, and files perhaps were:
\* nothing but that makes a call of Delete that has come so far return to nothing.
RemovalWasCut ==
    <>(call.pc = "removes" /\ dir.owner = "none" /\ dir.state = Absent /\ <>(call = Idle))
Deleting == intent = "delete" /\ dir.owner # "other"

\* A deletion comes to its end, however often the controller, the agents and the machine
\* are interrupted on the way: no game, no owner, no state and no files are left ("Deletion
\* removes owned resources and data", docs/architecture.md).  The code has two exceptions.
\* Delete refuses the empty owner file of an Ensure that was ended before it wrote its
\* token, every time, and with it whatever is there; and a removal that was ended after the
\* owner and the state, with other files left, counts as done.
DeleteHappens ==
    /\ []<>(Deleting => /\ Running = {}
                        /\ Torn \/ (call.pc = "gone" /\ dir.owner = "none" /\ dir.state = Absent))
    /\ RemovalWasCut \/ []<>(Deleting => Torn \/ dir = Empty)

\* A stop and a deletion happen, whatever the controller, the agents and the machine
\* were at when it was asked for (Stop, Delete, and the agent's Run).
EndsHappen == StopHappens /\ DeleteHappens
=============================================================================

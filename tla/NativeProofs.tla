---------------------------- MODULE NativeProofs ----------------------------
(***************************************************************************)
(* What NativeHost guarantees for any number of agents, requests, restarts *)
(* of the machine and faults: two games never run for one instance, a      *)
(* start is on record before anything runs, and files are copied whole and *)
(* removed last.                                                           *)
(*                                                                         *)
(* The argument: an agent is spawned only where a state is, a state is     *)
(* saved only where everything else is, and it is taken away only when no  *)
(* agent can use it any more.  So a directory without a state has no       *)
(* agents, and whatever finds it so may begin anew.                        *)
(***************************************************************************)
EXTENDS NativeHost, FiniteSetTheorems, TLAPS

\* The lock is exclusive.
OneHolder == \A a, b \in Agents : a \in Holders /\ b \in Holders => a = b

\* An agent that uses the files, or may come to use them.
Uses(a) == agent[a].st \notin {"none", "exits"}

\* A directory without a state is used by nobody.
StateWhileUsed == dir.state = Absent => \A a \in Agents : ~Uses(a)

\* A state is that of a whole copy of one's own, until it is to be deleted.
Whole == dir.state # Absent => intent = "delete" \/ (dir.owner = "own" /\ dir.work = "whole")
OthersHaveNone == dir.owner = "other" => dir.state = Absent /\ call = Idle

\* What each call knows of the directory and the agents.
Knows ==
    /\ call.op = "ensure" =>
         /\ dir.state = Absent /\ call.pc \in {"writes", "copies", "saves"}
         /\ dir.owner = IF call.pc = "writes" THEN "torn" ELSE "own"
         /\ call.pc = "saves" => dir.work = "whole"
    /\ call.op = "start" => dir.state # Absent
    /\ call.pc = "spawns" => dir.state.started /\ dir.state.boot = boot
    /\ call.op = "delete" =>
         /\ intent = "delete"
         /\ \A a \in Agents : agent[a].st # "spawned"
         /\ call.pc \in {"removes", "gone"} => \A a \in Agents : ~Uses(a)

\* A start since the machine's has its record, with the boot it was in.
OnRecord ==
    ran /\ intent # "delete" =>
        dir.state # Absent /\ dir.state.started /\ dir.state.boot = boot

IInv ==
    /\ NativeTypes /\ OneHolder /\ StateWhileUsed /\ Whole /\ OthersHaveNone /\ Knows /\ OnRecord

-----------------------------------------------------------------------------
(* Steps of the agents.                                                    *)

\* An agent that has not come to its server.
NotBegun(a) ==
    agent[a].st \in {"none", "spawned", "locked"} =>
        agent[a].game = "none" /\ \A h \in Handlers : agent[a].req[h] = "none"

\* What an agent may do by itself: it takes the lock only when it is free, and
\* once it has let go of the files it does not come back to them.
Moves(a) ==
    /\ agent' \in [Agents -> Agent]
    /\ \A b \in Agents \ {a} : agent'[b] = agent[b]
    /\ NotBegun(a)'
    /\ Uses(a)' => Uses(a)
    /\ agent'[a].st = "spawned" => agent[a].st = "spawned"
    /\ a \in Holders' => a \in Holders \/ Holders = {}

\* What its answer may do to the call.
Answered ==
    \/ call' = call
    \/ call' = Idle
    \/ /\ call' \in Call /\ call'.op = call.op /\ call.op \in {"start", "stop", "delete"}
       /\ call'.pc \in {"answer", "polls"}

\* Such a step keeps the invariant.
LEMMA AgentStep ==
    ASSUME IInv, NEW a \in Agents, Moves(a), Answered,
           dir' = dir, intent' = intent, boot' = boot, ran' = ran, faults' \in 0..MaxFaults
    PROVE  IInv'
<1>1. call' \in Call
  BY DEF IInv, NativeTypes, Answered, Idle, Call
<1>2. ASSUME NEW b \in Agents PROVE NotBegun(b)'
  BY DEF IInv, NativeTypes, NotBegun, Moves
<1>3. NativeTypes'
  BY <1>1, <1>2 DEF IInv, NativeTypes, NotBegun, Moves
<1>4. OneHolder'
  BY DEF IInv, OneHolder, Moves, Holders
<1>5. \A b \in Agents : Uses(b)' => Uses(b)
  BY DEF Moves, Uses
<1>6. StateWhileUsed'
  BY <1>5 DEF IInv, StateWhileUsed
<1>7. Whole' /\ OthersHaveNone' /\ OnRecord'
  BY DEF IInv, Whole, OthersHaveNone, OnRecord, Answered, Idle
<1>8. \A b \in Agents : agent'[b].st = "spawned" => agent[b].st = "spawned"
  BY DEF Moves
<1>9. Knows'
  BY <1>5, <1>8 DEF IInv, Knows, Answered, Idle
<1> QED
  BY <1>3, <1>4, <1>6, <1>7, <1>9 DEF IInv

\* A step of one agent moves it as Moves says if what becomes of it does.
LEMMA MovesTo ==
    ASSUME IInv, NEW a \in Agents, NEW v \in Agent, agent' = [agent EXCEPT ![a] = v],
           v.st \in {"none", "spawned", "locked"} =>
             v.game = "none" /\ \A h \in Handlers : v.req[h] = "none",
           v.st \notin {"none", "exits"} => Uses(a),
           v.st = "spawned" => agent[a].st = "spawned",
           v.st \in {"locked", "serves", "closing", "stops"} => a \in Holders \/ Holders = {}
    PROVE  Moves(a)
<1>1. agent \in [Agents -> Agent] /\ agent' \in [Agents -> Agent] /\ agent'[a] = v
  BY DEF IInv, NativeTypes
<1>2. \A b \in Agents \ {a} : agent'[b] = agent[b]
  BY <1>1
<1> QED
  BY <1>1, <1>2 DEF Moves, NotBegun, Uses, Holders

\* Locks: the lock is taken only when nobody has it.
LEMMA LocksStep ==
    ASSUME IInv, NEW a \in Agents, Locks(a)
    PROVE  IInv'
<1>1. faults' \in 0..MaxFaults
  BY NativeAssumption DEF IInv, NativeTypes, Locks, Fault
<1>2. PICK st \in {"locked", "none"} : AgentBecomes(a, st) /\ (st = "locked" => Holders = {})
  BY DEF Locks, Lockable
<1>3. Moves(a)
  BY <1>2 DEF Moves, AgentBecomes, Locks, IInv, NativeTypes, Agent, NotBegun, Uses, Holders
<1> QED
  BY <1>1, <1>3, AgentStep DEF Locks, Answered

\* Launches: the game runs under the lock, or the agent ends.
LEMMA LaunchesStep ==
    ASSUME IInv, NEW a \in Agents, Launches(a)
    PROVE  IInv'
<1>1. faults' \in 0..MaxFaults
  BY NativeAssumption DEF IInv, NativeTypes, Launches, Fault
<1>2. agent[a] \in Agent /\ a \in Holders
  BY DEF IInv, NativeTypes, Launches, Holders
<1> DEFINE up == [agent[a] EXCEPT !.st = "serves", !.game = "runs"]
           down == [agent[a] EXCEPT !.st = "exits"]
<1>3. agent' = [agent EXCEPT ![a] = up] \/ agent' = [agent EXCEPT ![a] = down]
  BY DEF Launches, AgentBecomes, IInv, NativeTypes
<1>4. up \in Agent /\ up.st = "serves" /\ down \in Agent /\ down.st = "exits"
  BY <1>2 DEF Agent
<1>5. Uses(a)
  BY DEF Launches, Uses
<1> HIDE DEF up, down
<1>6. Moves(a)
  BY <1>2, <1>3, <1>4, <1>5, MovesTo
<1> QED
  BY <1>1, <1>6, AgentStep DEF Launches, Answered

\* GameEnds: those who wait for it go on.
LEMMA GameEndsStep ==
    ASSUME IInv, NEW a \in Agents, GameEnds(a)
    PROVE  IInv'
<1>1. agent[a] \in Agent
  BY DEF IInv, NativeTypes
<1> DEFINE req == [h \in Handlers |-> CASE agent[a].req[h] = "restarts" -> "starts"
                                        [] agent[a].req[h] = "stops" -> "done"
                                        [] OTHER -> agent[a].req[h]]
           v == [agent[a] EXCEPT !.game = "none", !.req = req,
                                 !.st = IF agent[a].st = "stops" THEN "exits" ELSE agent[a].st]
<1>2. agent' = [agent EXCEPT ![a] = v]
  BY DEF GameEnds, IInv, NativeTypes
<1>3. req \in [Handlers -> {"none", "restarts", "starts", "stops", "done"}]
  BY <1>1 DEF Agent
<1> HIDE DEF req
<1>4. /\ v \in Agent /\ v.st \in {agent[a].st, "exits"}
      /\ v.st = "exits" \/ v.st = agent[a].st
  BY <1>1, <1>3 DEF Agent
<1>5. agent[a].st \notin {"none", "spawned", "locked"}
  BY DEF GameEnds, IInv, NativeTypes
<1>6. v.st \notin {"none", "exits"} => Uses(a)
  BY <1>4, <1>5 DEF Uses
<1>7. v.st \in {"locked", "serves", "closing", "stops"} => a \in Holders
  BY <1>4 DEF Holders
<1> HIDE DEF v
<1>8. Moves(a)
  BY <1>2, <1>4, <1>5, <1>6, <1>7, MovesTo
<1> QED
  BY <1>8, AgentStep DEF GameEnds, Answered, IInv, NativeTypes

\* Closes: the agent stops its game, if it has one, before it exits.
LEMMA ClosesStep ==
    ASSUME IInv, NEW a \in Agents, Closes(a)
    PROVE  IInv'
<1>1. agent[a] \in Agent /\ a \in Holders /\ Uses(a)
  BY DEF IInv, NativeTypes, Closes, Holders, Uses
<1> DEFINE ends == [agent[a] EXCEPT !.st = "exits"]
           stops == [agent[a] EXCEPT !.st = "stops", !.game = "quits"]
<1>2. agent' = [agent EXCEPT ![a] = ends] \/ agent' = [agent EXCEPT ![a] = stops]
  BY DEF Closes, IInv, NativeTypes
<1>3. ends \in Agent /\ ends.st = "exits" /\ stops \in Agent /\ stops.st = "stops"
  BY <1>1 DEF Agent
<1> HIDE DEF ends, stops
<1>4. Moves(a)
  BY <1>1, <1>2, <1>3, MovesTo
<1> QED
  BY <1>4, AgentStep DEF Closes, Answered, IInv, NativeTypes

\* An agent that is gone has let go of everything.
LEMMA GoneStep ==
    ASSUME IInv, NEW a \in Agents, agent' = [agent EXCEPT ![a] = NoAgent],
           UNCHANGED <<dir, call, intent, boot, ran>>, faults' \in 0..MaxFaults
    PROVE  IInv'
<1>1. Moves(a)
  BY DEF Moves, NoAgent, IInv, NativeTypes, Agent, NotBegun, Uses, Holders
<1> QED
  BY <1>1, AgentStep DEF Answered

\* Terminated: an agent that is told to end takes no more requests.
LEMMA TerminatedStep ==
    ASSUME IInv, NEW a \in Agents, Terminated(a)
    PROVE  IInv'
<1>1. faults' \in 0..MaxFaults
  BY NativeAssumption DEF IInv, NativeTypes, Terminated, Fault
<1>2. Moves(a)
  BY DEF Moves, AgentBecomes, Terminated, IInv, NativeTypes, Agent, NotBegun, Uses, Holders
<1> QED
  BY <1>1, <1>2, AgentStep DEF Terminated, Answered

\* Restarts: a request that was given up on may start the game of an agent that is
\* ending, and of no other that has let go of the lock.
LEMMA RestartsStep ==
    ASSUME IInv, NEW a \in Agents, NEW h \in Handlers, Restarts(a, h)
    PROVE  IInv'
<1>1. agent[a] \in Agent /\ agent[a].st \notin {"none", "spawned", "locked"}
  BY DEF Restarts, IInv, NativeTypes
<1>2. PICK game \in {"none", "runs"} :
        agent' = [agent EXCEPT ![a].req[h] = "done",
                               ![a].game = IF @ = "none" THEN game ELSE @]
  BY DEF Restarts
<1> DEFINE req == [agent[a].req EXCEPT ![h] = "done"]
           v == [agent[a] EXCEPT !.req = req,
                                 !.game = IF agent[a].game = "none" THEN game ELSE agent[a].game]
<1>3. agent' = [agent EXCEPT ![a] = v]
  BY <1>2 DEF IInv, NativeTypes
<1>4. req \in [Handlers -> {"none", "restarts", "starts", "stops", "done"}]
  BY <1>1 DEF Agent
<1> HIDE DEF req
<1>5. v \in Agent /\ v.st = agent[a].st
  BY <1>1, <1>4 DEF Agent
<1>6. v.st \notin {"none", "exits"} => Uses(a)
  BY <1>5 DEF Uses
<1>7. v.st \in {"locked", "serves", "closing", "stops"} => a \in Holders
  BY <1>5 DEF Holders
<1> HIDE DEF v
<1>8. Moves(a)
  BY <1>1, <1>3, <1>5, <1>6, <1>7, MovesTo
<1> QED
  BY <1>8, AgentStep DEF Restarts, Answered, IInv, NativeTypes

\* Answers: the caller, if it still waits, returns.
LEMMA AnswersStep ==
    ASSUME IInv, NEW a \in Agents, NEW h \in Handlers, Answers(a, h)
    PROVE  IInv'
<1>1. agent[a] \in Agent /\ agent[a].st \notin {"none", "spawned", "locked"}
  BY DEF Answers, IInv, NativeTypes
<1> DEFINE req == [agent[a].req EXCEPT ![h] = "none"]
           v == [agent[a] EXCEPT !.req = req]
<1>2. agent' = [agent EXCEPT ![a] = v]
  BY DEF Answers, IInv, NativeTypes
<1>3. req \in [Handlers -> {"none", "restarts", "starts", "stops", "done"}]
  BY <1>1 DEF Agent
<1> HIDE DEF req
<1>4. v \in Agent /\ v.st = agent[a].st
  BY <1>1, <1>3 DEF Agent
<1>5. v.st \notin {"none", "exits"} => Uses(a)
  BY <1>4 DEF Uses
<1>6. v.st \in {"locked", "serves", "closing", "stops"} => a \in Holders
  BY <1>4 DEF Holders
<1> HIDE DEF v
<1>7. Moves(a)
  BY <1>1, <1>2, <1>4, <1>5, <1>6, MovesTo
<1>8. Answered
  BY DEF Answers, Answered, CallReturns
<1> QED
  BY <1>7, <1>8, AgentStep DEF Answers, IInv, NativeTypes

\* Request: the agent that serves takes the request on.
LEMMA RequestStep ==
    ASSUME IInv, NEW a \in Agents, NEW h \in Handlers, Request(a, h)
    PROVE  IInv'
<1>1. Moves(a)
  BY DEF Moves, Request, IInv, NativeTypes, Agent, NotBegun, Uses, Holders
<1>2. Answered
  BY DEF Request, Answered, IInv, NativeTypes, Call
<1> QED
  BY <1>1, <1>2, AgentStep DEF Request, IInv, NativeTypes

\* Shutdown: the agent closes, whether the caller hears of it or not.
LEMMA ShutdownStep ==
    ASSUME IInv, NEW a \in Agents, Shutdown(a)
    PROVE  IInv'
<1>1. faults' \in 0..MaxFaults
  BY NativeAssumption DEF IInv, NativeTypes, Shutdown, Fault
<1>2. Moves(a)
  BY DEF Moves, Shutdown, IInv, NativeTypes, Agent, NotBegun, Uses, Holders
<1>3. Answered
  BY DEF Shutdown, Answered, CallGoes, CallReturns, IInv, NativeTypes, Call
<1> QED
  BY <1>1, <1>2, <1>3, AgentStep DEF Shutdown

-----------------------------------------------------------------------------
(* Steps of the controller.                                                *)

\* A call that ends, or goes on without files or agents.
LEMMA CallStep ==
    ASSUME IInv, agent' = agent, dir' = dir, intent' = intent, boot' = boot, ran' = ran,
           faults' \in 0..MaxFaults, call' \in Call, Knows',
           dir.owner = "other" => call' = Idle
    PROVE  IInv'
BY DEF IInv, NativeTypes, OneHolder, Holders, StateWhileUsed, Uses, Whole, OthersHaveNone, OnRecord

\* Idle knows nothing.
LEMMA ReturnStep ==
    ASSUME IInv, agent' = agent, dir' = dir, intent' = intent, boot' = boot, ran' = ran,
           faults' \in 0..MaxFaults, call' = Idle
    PROVE  IInv'
<1>1. Knows' /\ call' \in Call
  BY DEF Knows, Idle, Call
<1> QED
  BY <1>1, CallStep

\* A probe that meets another one counts as a fault.
LEMMA ProbeFaults ==
    ASSUME IInv, Alive \/ LooksAlive \/ NotAlive \/ UNCHANGED faults
    PROVE  faults' \in 0..MaxFaults
BY NativeAssumption DEF IInv, NativeTypes, Alive, LooksAlive, NotAlive, Fault

\* StartEnds, Refused, CutOff, CallEnds: the call returns.
LEMMA EndsStep ==
    ASSUME IInv, StartEnds \/ Refused \/ CutOff \/ CallEnds
    PROVE  IInv'
<1>1. faults' \in 0..MaxFaults
  BY NativeAssumption
  DEF IInv, NativeTypes, StartEnds, Refused, CutOff, CallEnds, Alive, LooksAlive, Fault
<1> QED
  BY <1>1, ReturnStep DEF StartEnds, Refused, CutOff, CallEnds, CallReturns

\* StartAsks, StopAsks, DeleteAsks: a saved instance's agent is asked.
LEMMA AsksStep ==
    ASSUME IInv, StartAsks \/ StopAsks \/ DeleteAsks
    PROVE  IInv'
<1>1. faults' \in 0..MaxFaults
  BY ProbeFaults DEF StartAsks, StopAsks, DeleteAsks
<1>2. call' \in Call
  BY DEF StartAsks, StopAsks, DeleteAsks, Idle, Call
<1>3. dir.state # Absent /\ UNCHANGED <<dir, agent, intent, boot, ran>>
  BY DEF StartAsks, StopAsks, DeleteAsks
<1>4. Knows'
  BY <1>3 DEF StartAsks, StopAsks, DeleteAsks, Knows, Idle, Begins, Prompt
<1> QED
  BY <1>1, <1>2, <1>3, <1>4, CallStep DEF IInv, OthersHaveNone

\* DeleteRemoves: nobody has the lock and nobody is on the way to it.  A directory
\* without a state is used by nobody as it is.
LEMMA DeleteRemovesStep ==
    ASSUME IInv, DeleteRemoves
    PROVE  IInv'
<1>1. faults' \in 0..MaxFaults
  BY ProbeFaults DEF DeleteRemoves, MayRemove
<1>2. call' \in Call
  BY DEF DeleteRemoves, Idle, Call
<1>3. intent = "delete" /\ dir.owner # "other"
  <2>1. call.op = "delete" => call # Idle
    BY DEF Idle
  <2> QED
    BY <2>1 DEF DeleteRemoves, MayRemove, Begins, IInv, Knows, OthersHaveNone
<1>4. \A a \in Agents : ~Uses(a)
  <2>1. CASE dir.state = Absent
    BY <2>1 DEF IInv, StateWhileUsed
  <2>2. CASE dir.state # Absent
    <3>1. Holders = {} /\ \A a \in Agents : agent[a].st # "spawned"
      BY <2>2 DEF DeleteRemoves, MayRemove, NotAlive, Prompt, IInv, Knows
    <3> QED
      BY <3>1 DEF Holders, Uses, IInv, NativeTypes, Agent
  <2> QED
    BY <2>1, <2>2
<1>5. Knows'
  BY <1>3, <1>4 DEF DeleteRemoves, Knows, Idle, Uses
<1> QED
  BY <1>1, <1>2, <1>3, <1>5, CallStep DEF DeleteRemoves

\* DeleteFindsNothing: neither owner nor state.
LEMMA DeleteFindsNothingStep ==
    ASSUME IInv, DeleteFindsNothing
    PROVE  IInv'
<1>1. call' \in Call
  BY DEF DeleteFindsNothing, Idle, Call
<1>2. \A a \in Agents : ~Uses(a)
  BY DEF DeleteFindsNothing, IInv, StateWhileUsed
<1>3. Knows'
  BY <1>2 DEF DeleteFindsNothing, Knows, Idle, Uses, Begins
<1> QED
  BY <1>1, <1>3, CallStep DEF DeleteFindsNothing, IInv, NativeTypes

\* Removed: what was known while files were removed holds on.
LEMMA RemovedStep ==
    ASSUME IInv, Removed
    PROVE  IInv'
<1>1. call' \in Call /\ call'.op = "delete" /\ call'.pc = "gone"
  BY DEF Removed, CallGoes, IInv, NativeTypes, Call
<1>2. Knows'
  BY <1>1 DEF Removed, IInv, Knows, Uses
<1>3. dir.owner # "other"
  BY DEF Removed, Empty
<1> QED
  BY <1>1, <1>2, <1>3, CallStep DEF Removed, IInv, NativeTypes

\* Steps of a preparation: a directory that is not another's, and that nobody uses.
LEMMA PreparesStep ==
    ASSUME IInv, UNCHANGED <<agent, intent, boot, ran, faults>>, dir.state = Absent,
           dir' \in Directory, dir'.state = Absent, dir'.owner = "other" => dir.owner = "other",
           call' \in Call, call' = Idle \/ (dir'.owner # "other" /\ Knows')
    PROVE  IInv'
<1>1. NativeTypes'
  BY DEF IInv, NativeTypes
<1>2. OneHolder' /\ StateWhileUsed'
  BY DEF IInv, OneHolder, StateWhileUsed, Uses, Holders
<1>3. Knows'
  BY DEF Knows, Idle
<1>4. Whole' /\ OthersHaveNone'
  BY DEF Whole, OthersHaveNone
<1>5. OnRecord'
  BY DEF IInv, OnRecord
<1> QED
  BY <1>1, <1>2, <1>3, <1>4, <1>5 DEF IInv

\* Ensure: an unowned directory gets an owner file, and one of one's own is copied to.
LEMMA EnsureStep ==
    ASSUME IInv, Ensure
    PROVE  IInv'
<1>1. UNCHANGED <<agent, intent, boot, ran, faults>> /\ dir.state = Absent /\ dir \in Directory
  BY DEF Ensure, IInv, NativeTypes
<1>2. /\ dir' \in Directory /\ dir'.state = Absent
      /\ dir'.owner = IF dir.owner = "none" THEN "torn" ELSE dir.owner
  BY <1>1 DEF Ensure, Owned, Directory
<1>3. /\ call' \in Call
      /\ \/ call' = Idle
         \/ call'.op = "ensure" /\ call'.pc = "writes" /\ dir.owner = "none"
         \/ call'.op = "ensure" /\ call'.pc = "copies" /\ dir.owner = "own"
  BY DEF Ensure, Idle, Call
<1>4. call' = Idle \/ (dir'.owner # "other" /\ Knows')
  BY <1>2, <1>3 DEF Knows
<1> QED
  BY <1>1, <1>2, <1>3, <1>4, PreparesStep

\* Writes: the owner file gets its token.
LEMMA WritesStep ==
    ASSUME IInv, Writes
    PROVE  IInv'
<1>1. /\ UNCHANGED <<agent, intent, boot, ran, faults>> /\ dir.state = Absent
      /\ dir \in Directory /\ call \in Call
  BY DEF Writes, IInv, NativeTypes, Knows
<1>2. dir' \in Directory /\ dir'.state = Absent /\ dir'.owner = "own"
  BY <1>1 DEF Writes, Directory
<1>3. call' \in Call /\ call'.op = "ensure" /\ call'.pc = "copies"
  BY <1>1 DEF Writes, CallGoes, Call
<1>4. Knows'
  BY <1>2, <1>3 DEF Knows
<1> QED
  BY <1>1, <1>2, <1>3, <1>4, PreparesStep

\* Copies, Saves: the state comes last.
LEMMA CopiesStep ==
    ASSUME IInv, Copies
    PROVE  IInv'
<1>1. /\ UNCHANGED <<agent, intent, boot, ran, faults>> /\ dir.state = Absent
      /\ dir.owner = "own" /\ dir \in Directory /\ call \in Call
  BY DEF Copies, IInv, NativeTypes, Knows
<1>2. dir' \in Directory /\ dir'.state = Absent /\ dir'.owner = "own"
  BY <1>1 DEF Copies, copyAssets, Directory
<1>3. /\ call' \in Call /\ call'.op = "ensure" /\ call'.pc \in {"copies", "saves"}
      /\ call'.pc = "saves" => dir'.work = "whole"
  BY <1>1 DEF Copies, CallGoes, Call
<1>4. Knows'
  BY <1>2, <1>3 DEF Knows
<1> QED
  BY <1>1, <1>2, <1>3, <1>4, PreparesStep

LEMMA SavesStep ==
    ASSUME IInv, Saves
    PROVE  IInv'
<1> DEFINE state == [started |-> FALSE, boot |-> 0]
<1>1. dir \in Directory /\ state \in [started : BOOLEAN, boot : 0..MaxBoots]
  BY NativeAssumption DEF IInv, NativeTypes
<1>2. /\ dir' \in Directory /\ dir'.state = state
      /\ dir'.owner = dir.owner /\ dir'.work = dir.work
  BY <1>1 DEF Saves, Directory
<1>3. state # Absent
  BY <1>1, NativeAssumption
<1>4. UNCHANGED <<agent, intent, boot, ran, faults>> /\ call.op = "ensure" /\ call.pc = "saves"
  BY DEF Saves
<1>5. dir.state = Absent /\ dir.owner = "own" /\ dir.work = "whole"
  BY <1>4 DEF IInv, Knows
<1>6. call' = Idle /\ call' \in Call
  BY DEF Saves, CallReturns, Idle, Call
<1>7. NativeTypes'
  BY <1>2, <1>4, <1>6 DEF IInv, NativeTypes
<1> HIDE DEF state
<1>8. OneHolder' /\ StateWhileUsed'
  BY <1>2, <1>3, <1>4 DEF IInv, OneHolder, StateWhileUsed, Uses, Holders
<1>9. Whole' /\ OthersHaveNone' /\ Knows' /\ OnRecord'
  BY <1>2, <1>4, <1>5, <1>6 DEF IInv, Whole, OthersHaveNone, Knows, OnRecord, Idle
<1> QED
  BY <1>7, <1>8, <1>9 DEF IInv

\* StartSaves: the start is on record before the agent is spawned.
LEMMA StartSavesStep ==
    ASSUME IInv, StartSaves
    PROVE  IInv'
<1> DEFINE state == [started |-> TRUE, boot |-> boot]
<1>1. dir \in Directory /\ state \in [started : BOOLEAN, boot : 0..MaxBoots]
  BY NativeAssumption DEF IInv, NativeTypes
<1>2. /\ dir' \in Directory /\ dir'.state = state
      /\ dir'.owner = dir.owner /\ dir'.work = dir.work
  BY <1>1 DEF StartSaves, Directory
<1>3. state # Absent /\ state.started /\ state.boot = boot
  BY <1>1, NativeAssumption
<1>4. UNCHANGED <<agent, intent, boot, ran>> /\ dir.state # Absent /\ intent # "delete"
  BY DEF StartSaves, Begins
<1>5. faults' \in 0..MaxFaults
  BY ProbeFaults DEF StartSaves
<1>6. call' \in Call /\ call'.op = "start" /\ call'.pc = "spawns"
  BY DEF StartSaves, Idle, Call
<1> HIDE DEF state
<1>7. NativeTypes'
  BY <1>2, <1>4, <1>5, <1>6 DEF IInv, NativeTypes
<1>8. OneHolder' /\ StateWhileUsed'
  BY <1>2, <1>3, <1>4 DEF IInv, OneHolder, StateWhileUsed, Uses, Holders
<1>9. Whole' /\ OthersHaveNone' /\ Knows' /\ OnRecord'
  BY <1>2, <1>3, <1>4, <1>6 DEF IInv, Whole, OthersHaveNone, Knows, OnRecord
<1> QED
  BY <1>7, <1>8, <1>9 DEF IInv

\* Spawns: the agent is spawned where a state is.
LEMMA SpawnsStep ==
    ASSUME IInv, NEW a \in Agents, Spawns(a)
    PROVE  IInv'
<1> DEFINE v == [NoAgent EXCEPT !.st = "spawned"]
<1>1. v \in Agent /\ v.st = "spawned" /\ v.game = "none" /\ \A h \in Handlers : v.req[h] = "none"
  BY DEF NoAgent, Agent
<1>2. agent' = [agent EXCEPT ![a] = v] /\ agent \in [Agents -> Agent]
  BY DEF Spawns, IInv, NativeTypes
<1> HIDE DEF v
<1>3. /\ agent' \in [Agents -> Agent] /\ agent'[a] = v
      /\ \A b \in Agents \ {a} : agent'[b] = agent[b]
  BY <1>1, <1>2
<1>4. call' \in Call /\ call'.op = "start" /\ call'.pc = "waits"
  BY DEF Spawns, IInv, NativeTypes, Call
<1>5. UNCHANGED <<dir, intent, boot, faults>> /\ ran' = TRUE
  BY DEF Spawns
<1>6. dir.state # Absent /\ dir.state.started /\ dir.state.boot = boot
  BY DEF Spawns, IInv, Knows
<1>7. NativeTypes'
  BY <1>1, <1>3, <1>4, <1>5 DEF IInv, NativeTypes
<1>8. Holders' = Holders
  BY <1>1, <1>3 DEF Holders, Spawns, NoAgent
<1>9. OneHolder' /\ StateWhileUsed' /\ Whole' /\ OthersHaveNone' /\ Knows' /\ OnRecord'
  BY <1>4, <1>5, <1>6, <1>8
  DEF IInv, OneHolder, StateWhileUsed, Whole, OthersHaveNone, Knows, OnRecord, Idle, Spawns
<1> QED
  BY <1>7, <1>9 DEF IInv

\* Removes: files go one by one, when no agent uses them.
LEMMA RemovesStep ==
    ASSUME IInv, RemovesFile
    PROVE  IInv'
<1>1. UNCHANGED <<agent, call, intent, boot, ran, faults>> /\ call.op = "delete" /\ call.pc = "removes"
  BY DEF RemovesFile
<1>2. intent = "delete" /\ \A a \in Agents : ~Uses(a)
  BY <1>1 DEF IInv, Knows
<1>3. dir \in Directory /\ dir.owner # "other"
  BY <1>1 DEF IInv, NativeTypes, OthersHaveNone, Idle
<1>4. dir' \in Directory /\ dir'.owner # "other"
  BY <1>3 DEF RemovesFile, Directory
<1>5. NativeTypes'
  BY <1>1, <1>4 DEF IInv, NativeTypes
<1>6. OneHolder' /\ StateWhileUsed' /\ Whole' /\ OthersHaveNone' /\ Knows' /\ OnRecord'
  BY <1>1, <1>2, <1>4
  DEF IInv, OneHolder, Holders, StateWhileUsed, Uses, Whole, OthersHaveNone, Knows, OnRecord
<1> QED
  BY <1>5, <1>6 DEF IInv

-----------------------------------------------------------------------------
(* The machine, and what is wanted.                                        *)

\* Reboots: no process is left, and nothing has been started since.
LEMMA RebootsStep ==
    ASSUME IInv, Reboots
    PROVE  IInv'
<1>1. agent' \in [Agents -> Agent] /\ \A a \in Agents : agent'[a] = NoAgent
  BY DEF Reboots, NoAgent, Agent
<1>2. NoAgent.st = "none" /\ NoAgent.game = "none" /\ \A h \in Handlers : NoAgent.req[h] = "none"
  BY DEF NoAgent
<1>3. call' \in Call /\ boot' \in 1..MaxBoots /\ call' \in {call, Idle}
  BY NativeAssumption DEF Reboots, IInv, NativeTypes, Idle, Call
<1>4. UNCHANGED <<dir, intent, faults>> /\ ran' = FALSE
  BY DEF Reboots
<1>5. NativeTypes'
  BY <1>1, <1>2, <1>3, <1>4 DEF IInv, NativeTypes
<1>6. \A a \in Agents : ~Uses(a)' /\ a \notin Holders' /\ agent'[a].st # "spawned"
  BY <1>1, <1>2 DEF Uses, Holders
<1>7. OneHolder' /\ StateWhileUsed' /\ Whole' /\ OthersHaveNone' /\ OnRecord'
  BY <1>3, <1>4, <1>6 DEF IInv, OneHolder, StateWhileUsed, Whole, OthersHaveNone, OnRecord
<1>8. call' = Idle \/ (call' = call /\ call.pc = "gone")
  BY DEF Reboots
<1>9. Knows'
  BY <1>4, <1>6, <1>8 DEF IInv, Knows, Idle
<1> QED
  BY <1>5, <1>7, <1>9 DEF IInv

\* Wants: a deletion is final.
LEMMA WantsStep ==
    ASSUME IInv, NEW i \in {"any", "stop", "delete"}, Wants(i)
    PROVE  IInv'
BY DEF Wants, IInv, NativeTypes, OneHolder, Holders, StateWhileUsed, Uses, Whole, OthersHaveNone,
       Knows, OnRecord

-----------------------------------------------------------------------------
(* The results.                                                            *)

LEMMA InitIInv == NativeInit => IInv
<1> SUFFICES ASSUME NativeInit PROVE IInv
  OBVIOUS
<1>1. agent \in [Agents -> Agent] /\ \A a \in Agents : agent[a] = NoAgent
  BY DEF NativeInit, NoAgent, Agent
<1>2. NoAgent.st = "none" /\ NoAgent.game = "none" /\ \A h \in Handlers : NoAgent.req[h] = "none"
  BY DEF NoAgent
<1>3. call \in Call /\ call = Idle
  BY DEF NativeInit, Idle, Call
<1>4. dir \in Directory /\ dir.state = Absent
  BY DEF NativeInit, Empty, Foreign, Directory
<1>0. /\ intent \in {"any", "stop", "delete"} /\ boot \in 1..MaxBoots
      /\ ran \in BOOLEAN /\ faults \in 0..MaxFaults
  <2>1. intent = "any" /\ boot = 1 /\ ran = FALSE /\ faults = 0
    BY DEF NativeInit
  <2>2. 1 \in 1..MaxBoots /\ 0 \in 0..MaxFaults
    BY NativeAssumption
  <2> QED
    BY <2>1, <2>2
<1>5. NativeTypes
  BY <1>0, <1>1, <1>2, <1>3, <1>4 DEF NativeTypes
<1>6. \A a \in Agents : ~Uses(a) /\ a \notin Holders
  BY <1>1, <1>2 DEF Uses, Holders
<1>7. OneHolder /\ StateWhileUsed /\ Whole /\ OthersHaveNone /\ Knows /\ OnRecord
  BY <1>3, <1>4, <1>6
  DEF NativeInit, OneHolder, StateWhileUsed, Whole, OthersHaveNone, Knows, OnRecord, Idle
<1> QED
  BY <1>5, <1>7 DEF IInv

LEMMA ControllerStep ==
    ASSUME IInv, Provider
    PROVE  IInv'
BY EndsStep, AsksStep, DeleteRemovesStep, DeleteFindsNothingStep, RemovedStep, EnsureStep,
   WritesStep, CopiesStep, SavesStep, StartSavesStep, SpawnsStep, RemovesStep, ShutdownStep,
   RequestStep
DEF Provider

LEMMA ProcessStep ==
    ASSUME IInv, NEW a \in Agents, Process(a)
    PROVE  IInv'
<1>1. CASE Exits(a)
  BY <1>1, GoneStep DEF Exits, IInv, NativeTypes
<1>2. CASE ~Exits(a)
  BY <1>2, LocksStep, LaunchesStep, ClosesStep, RestartsStep, AnswersStep DEF Process
<1> QED
  BY <1>1, <1>2

LEMMA NextIInv == IInv /\ [NativeNext]_nativeVars => IInv'
<1> SUFFICES ASSUME IInv, [NativeNext]_nativeVars PROVE IInv'
  OBVIOUS
<1>1. CASE Provider
  BY <1>1, ControllerStep
<1>2. ASSUME NEW a \in Agents, Process(a) \/ GameEnds(a) \/ Terminated(a) PROVE IInv'
  BY <1>2, ProcessStep, GameEndsStep, TerminatedStep
<1>3. ASSUME NEW a \in Agents, Killed(a) PROVE IInv'
  <2>1. faults' \in 0..MaxFaults
    BY <1>3, NativeAssumption DEF Killed, Fault, IInv, NativeTypes
  <2> QED
    BY <1>3, <2>1, GoneStep DEF Killed
<1>4. CASE CallEnds
  BY <1>4, EndsStep
<1>5. CASE Reboots
  BY <1>5, RebootsStep
<1>6. ASSUME NEW i \in {"any", "stop", "delete"}, Wants(i) PROVE IInv'
  BY <1>6, WantsStep
<1>7. CASE UNCHANGED nativeVars
  BY <1>7 DEF nativeVars, IInv, NativeTypes, OneHolder, Holders, StateWhileUsed, Uses, Whole,
              OthersHaveNone, Knows, OnRecord
<1> QED
  BY <1>1, <1>2, <1>3, <1>4, <1>5, <1>6, <1>7 DEF NativeNext

\* Native instances, however many agents were spawned for one: the clauses of IInv
\* hold in every state of the provider (control/native.go).
THEOREM NativeInvariance == NativeSpec => []IInv
BY InitIInv, NextIInv, PTL DEF NativeSpec

\* A set any two members of which are equal has one at most.
LEMMA AtMostOne ==
    ASSUME NEW S, \A x, y \in S : x = y
    PROVE  Cardinality(S) <= 1
<1>1. CASE S = {}
  BY <1>1, FS_EmptySet
<1>2. CASE S # {}
  <2>1. PICK x \in S : TRUE
    BY <1>2
  <2>2. S = {x}
    BY <2>1
  <2> QED
    BY <2>2, FS_Singleton
<1> QED
  BY <1>1, <1>2

\* Two games never run for one instance: whoever has a game has the lock or is about
\* to exit with it (RunFile and Run of the agent).
THEOREM GamesAreExclusive == NativeSpec => []OneGame
<1>1. IInv => OneGame
  <2> SUFFICES ASSUME IInv PROVE OneGame
    OBVIOUS
  <2>1. Cardinality(Holders) <= 1
    BY AtMostOne DEF IInv, OneHolder, Holders
  <2>2. \A a \in Running : a \in Holders \/ agent[a].st = "exits"
    BY DEF IInv, NativeTypes, Agent, Running, Holders
  <2> QED
    BY <2>1, <2>2 DEF OneGame
<1> QED
  BY <1>1, NativeInvariance, PTL

\* A game that has run since the machine started is on record as started, wherever
\* the controller was killed (Start, which saves before it spawns).
THEOREM StartsAreRecorded == NativeSpec => []StartIsOnRecord
<1>1. IInv => StartIsOnRecord
  BY DEF IInv, OnRecord, StartIsOnRecord, Started
<1> QED
  BY <1>1, NativeInvariance, PTL

\* Nobody's files are touched but the instance's own, nothing is started from half a
\* copy, and no file is removed under an agent (Ensure, Delete).
THEOREM FilesStaySafe == NativeSpec => FilesAreSafe
<1>1. IInv => StateMeansWhole
  BY DEF IInv, Whole, StateMeansWhole
<1>2. IInv => RemovedAfterAgents
  BY DEF IInv, Knows, Uses, RemovedAfterAgents
<1>3. IInv /\ [NativeNext]_nativeVars => [dir.owner = "other" => UNCHANGED dir]_nativeVars
  <2> SUFFICES ASSUME IInv, NativeNext, dir.owner = "other" PROVE dir' = dir
    BY DEF nativeVars
  <2>1. dir.state = Absent /\ call = Idle
    BY DEF IInv, OthersHaveNone
  <2>2. CASE Provider
    <3>1. CASE Ensure
      BY <3>1 DEF Ensure, Owned, IInv, NativeTypes, Directory
    <3>2. CASE ~Ensure
      BY <2>1, <2>2, <3>2
      DEF Provider, Writes, Copies, Saves, StartAsks, StartSaves, StartEnds, StopAsks,
          DeleteAsks, DeleteRemoves, DeleteFindsNothing, RemovesFile, Removed, Refused, CutOff,
          Spawns, Shutdown, Request, Idle
    <3> QED
      BY <3>1, <3>2
  <2>3. CASE ~Provider
    BY <2>3
    DEF NativeNext, Process, Locks, Launches, Closes, Exits, Restarts, Answers, GameEnds, Terminated,
        Killed, CallEnds, Reboots, Wants
  <2> QED
    BY <2>2, <2>3
<1> QED
  BY <1>1, <1>2, <1>3, NativeInvariance, PTL DEF NativeSpec, FilesAreSafe, ForeignUntouched
=============================================================================

------------------------- MODULE InstanceController -------------------------
(***************************************************************************)
(* The controller of one machine (internal/control/controller.go) with its *)
(* bbolt database (store.go) and the Docker provider (docker.go).          *)
(*                                                                         *)
(* Intents (SetDesired, RequestDesired, CreateRequested) commit to the     *)
(* database at any time.  Reconcile lists the database once, then handles  *)
(* the listed instances concurrently, at most Slots at a time; every       *)
(* provider call, agent request and database transaction is a step of its  *)
(* own, so an instance may be handled from a listing its user has since    *)
(* superseded.  The next pass starts when the last instance is done.       *)
(***************************************************************************)
EXTENDS Integers, FiniteSets

CONSTANTS
    Instances,    \* instance IDs
    Slots,        \* instances reconciled concurrently (4)
    MaxIntents,   \* bound: intents users and the fleet express per instance
    MaxFaults,    \* bound: failed calls, crashes and reboots
    UserIntents,  \* desired states asked for through the API
    FleetIntents, \* desired states asked for by numbered fleet requests
    HasMaxMinutes,\* whether the instances have a maximum runtime
    None

ASSUME ControllerAssumption ==
    /\ Slots \in Nat \ {0} /\ MaxIntents \in Nat /\ MaxFaults \in Nat
    /\ UserIntents \subseteq {"running", "stopped", "deleted"}
    /\ FleetIntents \subseteq {"running", "stopped", "deleted"}
    /\ HasMaxMinutes \in BOOLEAN

VARIABLES
    store,     \* the database: instance records
    wish,      \* the fleet's latest request for each instance
    closing,   \* shuttingDown: the host has committed to power off
    box,       \* Docker: the instance's container
    task,      \* the pass: how far reconcileInstance has come with each instance
    intents,   \* intents expressed so far
    starts,    \* history: successful container starts per generation
    faults

vars == <<store, wish, closing, box, task, intents, starts, faults>>

Desired == {"running", "stopped", "deleted"}
Phases == {"queued", "preparing", "starting", "running", "stopping", "stopped",
           "failed", "deleted"}

InstanceRec == [gen : Nat, desired : Desired, phase : Phases, error : BOOLEAN, req : Nat]
WishRec == [req : Nat, desired : Desired]

ASSUME NoInstanceAssumption == None \notin InstanceRec /\ None \notin WishRec

\* A container exits with code 0 or not; "cold" has not run since the host booted.
Box == {"none", "created", "running", "exited", "crashed", "cold"}

\* What Docker.Inspect makes of a container.
Observation == [exists : BOOLEAN, started : BOOLEAN, running : BOOLEAN, failure : BOOLEAN]
Nothing == [exists |-> FALSE, started |-> FALSE, running |-> FALSE, failure |-> FALSE]
Inspect(b) ==
    [exists |-> b # "none", started |-> b \in {"running", "exited", "crashed"},
     running |-> b = "running", failure |-> b = "crashed"]

Off == [at |-> "off", was |-> None, obs |-> Nothing, phase |-> "queued", error |-> FALSE]
At == {"off", "listed", "inspected", "prepared", "stop", "start", "agent", "failed", "save"}

TaskRec == [at : At, was : InstanceRec \cup {None}, obs : Observation, phase : Phases,
            error : BOOLEAN]

Init ==
    /\ store = [i \in Instances |-> None]
    /\ wish = [i \in Instances |-> None]
    /\ closing = FALSE
    /\ box = [i \in Instances |-> "none"]
    /\ task = [i \in Instances |-> Off]
    /\ intents = [i \in Instances |-> 0]
    /\ starts = [i \in Instances |-> [gen |-> 0, count |-> 0]]
    /\ faults = 0

-----------------------------------------------------------------------------
(* Intents, each one transaction under intentMu.                           *)

\* Mutant of setDesired: a start keeps the phase of the finished stop.
MutSetDesired(i, d) ==
    IF i.desired = "deleted"
    THEN IF i.phase # "deleted" /\ i.error
         THEN [i EXCEPT !.gen = @ + 1, !.error = FALSE] ELSE i
    ELSE IF i.desired = d
    THEN IF d = "running" /\ i.phase = "failed"
         THEN [i EXCEPT !.gen = @ + 1, !.error = FALSE, !.phase = "queued"] ELSE i
    ELSE [i EXCEPT !.gen = @ + 1, !.desired = d, !.error = FALSE]

\* Deletion is final; repeating it after an error, or a start of a failed game,
\* is a new attempt; a repeated intent is none.
setDesired(i, d) ==
    IF i.desired = "deleted"
    THEN IF i.phase # "deleted" /\ i.error
         THEN [i EXCEPT !.gen = @ + 1, !.error = FALSE] ELSE i
    ELSE IF i.desired = d
    THEN IF d = "running" /\ i.phase = "failed"
         THEN [i EXCEPT !.gen = @ + 1, !.error = FALSE, !.phase = "queued"] ELSE i
    ELSE [i EXCEPT !.gen = @ + 1, !.desired = d, !.error = FALSE,
                   !.phase = IF d = "running" THEN "queued" ELSE @]

Allowed(i, d) == store[i] # None /\ (store[i].desired = "deleted" => d = "deleted")

\* Every new intent is counted; the count bounds the model.
Express(i) ==
    /\ intents[i] < MaxIntents
    /\ intents' = [intents EXCEPT ![i] = @ + 1]

SetDesired(i, d) ==
    /\ ~closing /\ Allowed(i, d)
    /\ setDesired(store[i], d) # store[i]
    /\ Express(i)
    /\ store' = [store EXCEPT ![i] = setDesired(@, d)]
    /\ UNCHANGED <<wish, closing, box, task, starts, faults>>

\* Mutant of Fresh: the phase is left unset.
MutFresh(r) == [gen |-> 1, desired |-> "running", phase |-> "", error |-> FALSE, req |-> r]
\* CreateRequested; an ID that exists is returned as it is.
Fresh(r) == [gen |-> 1, desired |-> "running", phase |-> "queued", error |-> FALSE, req |-> r]
Create(i) ==
    /\ ~closing /\ store[i] = None /\ wish[i] = None
    /\ Express(i)
    /\ store' = [store EXCEPT ![i] = Fresh(0)]
    /\ UNCHANGED <<wish, closing, box, task, starts, faults>>

\* The fleet registry draws a new request ID for a new intent (external) ...
Wish(i, d) ==
    /\ Express(i)
    /\ IF wish[i] = None THEN d = "running" ELSE wish[i].desired = "deleted" => d = "deleted"
    /\ wish' = [wish EXCEPT ![i] = [req |-> intents[i] + 1, desired |-> d]]
    /\ UNCHANGED <<store, closing, box, task, starts, faults>>

\* Mutant of RequestDesired: the accepted request is not remembered.
MutRequestDesired(i) ==
    /\ ~closing /\ wish[i] # None /\ store[i] # None
    /\ Allowed(i, wish[i].desired)
    /\ store' = [store EXCEPT ![i] = [setDesired(@, wish[i].desired) EXCEPT !.req = wish[i].req]]
    /\ UNCHANGED <<wish, closing, box, task, intents, starts, faults>>

\* ... and its worker presents the latest one again and again.
RequestDesired(i) ==
    /\ ~closing /\ wish[i] # None /\ store[i] # None
    /\ store[i].req # wish[i].req /\ Allowed(i, wish[i].desired)
    /\ store' = [store EXCEPT ![i] = [setDesired(@, wish[i].desired) EXCEPT !.req = wish[i].req]]
    /\ UNCHANGED <<wish, closing, box, task, intents, starts, faults>>
CreateRequested(i) ==
    /\ ~closing /\ store[i] = None
    /\ wish[i] # None /\ wish[i].desired = "running"
    /\ store' = [store EXCEPT ![i] = Fresh(wish[i].req)]
    /\ UNCHANGED <<wish, closing, box, task, intents, starts, faults>>

\* BeginIdleShutdown closes admission with the final idle check.
\* Mutant of InstancesIdle: an asked-for stop counts as a finished one.
MutInstancesIdle ==
    \A i \in Instances : store[i] # None => store[i].desired # "running" /\ ~store[i].error
InstancesIdle ==
    \A i \in Instances : store[i] # None =>
        /\ store[i].desired = store[i].phase /\ store[i].desired # "running"
        /\ ~store[i].error
BeginIdleShutdown ==
    /\ ~closing /\ InstancesIdle
    /\ closing' = TRUE
    /\ UNCHANGED <<store, wish, box, task, intents, starts, faults>>

-----------------------------------------------------------------------------
(* Reconcile: one pass over the instances of one listing.                  *)

Listed(i) == store[i] # None /\ store[i].phase # "deleted"
PassBegins ==
    /\ \A i \in Instances : task[i].at = "off"
    /\ \E i \in Instances : Listed(i)
    /\ task' = [i \in Instances |->
                  IF Listed(i) THEN [Off EXCEPT !.at = "listed", !.was = store[i]] ELSE Off]
    /\ UNCHANGED <<store, wish, closing, box, intents, starts, faults>>

\* A listed instance is taken up when one of the slots is free.
Takes(i) ==
    /\ task[i].at = "listed"
    /\ Cardinality({j \in Instances : task[j].at \notin {"off", "listed"}}) < Slots

Goto(i, label) == task' = [task EXCEPT ![i].at = label]
\* What reconcile returns for the instance: its phase and its failure.
Result(i, phase, failure) ==
    task' = [task EXCEPT ![i].at = "save", ![i].phase = phase, ![i].error = failure]

\* A provider call that fails, before or after Docker has acted on it.
Fault == faults < MaxFaults /\ faults' = faults + 1
Errs(i) == Fault /\ Goto(i, "failed")

\* Mutant of Deletes: the error of provider.Delete is dropped.
MutDeletes(i) ==
    /\ Takes(i) /\ task[i].was.desired = "deleted"
    /\ \/ Result(i, "deleted", FALSE) /\ box' = [box EXCEPT ![i] = "none"] /\ UNCHANGED faults
       \/ Result(i, "deleted", FALSE) /\ Fault /\ UNCHANGED box
    /\ UNCHANGED <<store, wish, closing, intents, starts>>

Deletes(i) ==
    /\ Takes(i) /\ task[i].was.desired = "deleted"
    /\ \/ Result(i, "deleted", FALSE) /\ box' = [box EXCEPT ![i] = "none"] /\ UNCHANGED faults
       \/ Errs(i) /\ (box' = box \/ box' = [box EXCEPT ![i] = "none"])
    /\ UNCHANGED <<store, wish, closing, intents, starts>>

\* The maximum runtime has passed: the intent becomes stopped, in its generation.
Same(i) == store[i].gen = task[i].was.gen
MaxRuntime(i) ==
    /\ HasMaxMinutes /\ Takes(i) /\ task[i].was.desired = "running"
    /\ \/ /\ store' = IF store[i].desired = "running" /\ Same(i)
                      THEN [store EXCEPT ![i].desired = "stopped"] ELSE store
          /\ Result(i, "stopping", FALSE)
          /\ UNCHANGED faults
       \/ Errs(i) /\ UNCHANGED store
    /\ UNCHANGED <<wish, closing, box, intents, starts>>

Inspects(i) ==
    /\ Takes(i) /\ task[i].was.desired # "deleted"
    /\ \/ /\ task' = [task EXCEPT ![i].at = "inspected", ![i].obs = Inspect(box[i])]
          /\ UNCHANGED faults
       \/ Errs(i)
    /\ UNCHANGED <<store, wish, closing, box, intents, starts>>

\* Mutant of Confirms: a failed game is left alone, as it is when it should run.
MutConfirms(i) ==
    /\ task[i].at = "inspected" /\ task[i].was.desired = "stopped"
    /\ IF task[i].was.phase = "failed" THEN Result(i, "failed", task[i].was.error)
       ELSE IF task[i].obs.running THEN Goto(i, "stop")
       ELSE Result(i, "stopped", task[i].obs.failure)
    /\ UNCHANGED <<store, wish, closing, box, intents, starts, faults>>

\* A stopped instance: stop a running container, or confirm that it is stopped.
Confirms(i) ==
    /\ task[i].at = "inspected" /\ task[i].was.desired = "stopped"
    /\ IF task[i].obs.running THEN Goto(i, "stop")
       ELSE Result(i, "stopped", task[i].obs.failure)
    /\ UNCHANGED <<store, wish, closing, box, intents, starts, faults>>

\* With exit code 0, or not (killed after the stop timeout, out of memory, ...).
Exits == {"exited", "crashed"}
\* A container that has exited meanwhile answers 304, which counts as an error.
StopsLate(i) ==
    /\ task[i].at = "stop" /\ box[i] # "running"
    /\ Goto(i, "failed")
    /\ UNCHANGED <<store, wish, closing, box, intents, starts, faults>>
Stops(i) ==
    /\ task[i].at = "stop" /\ box[i] = "running"
    /\ \E b \in Exits :
         \/ Result(i, "stopping", task[i].obs.failure) /\ box' = [box EXCEPT ![i] = b] /\ UNCHANGED faults
         \/ Errs(i) /\ (box' = box \/ box' = [box EXCEPT ![i] = b])
    /\ UNCHANGED <<store, wish, closing, intents, starts>>

\* A missing container: prepare the image (in the background, see docker_prepare.go).
Wanted(i) == task[i].at = "inspected" /\ task[i].was.desired = "running"
Missing(i) == Wanted(i) /\ ~task[i].obs.exists
StaysFailed(i) ==
    /\ Missing(i) /\ task[i].was.phase = "failed"
    /\ Result(i, "failed", task[i].was.error)
    /\ UNCHANGED <<store, wish, closing, box, intents, starts, faults>>
Prepares(i) ==
    /\ Missing(i) /\ task[i].was.phase # "failed"
    /\ \/ Result(i, "preparing", FALSE) /\ UNCHANGED faults
       \/ Result(i, "failed", TRUE) /\ Fault
    /\ UNCHANGED <<store, wish, closing, box, intents, starts>>
Prepared(i) ==
    /\ Missing(i) /\ task[i].was.phase # "failed"
    /\ Goto(i, "prepared")
    /\ UNCHANGED <<store, wish, closing, box, intents, starts, faults>>
Ensures(i) ==
    /\ task[i].at = "prepared"
    /\ LET b == IF box[i] = "none" THEN "created" ELSE box[i]
       IN  \/ /\ box' = [box EXCEPT ![i] = b]
              /\ task' = [task EXCEPT ![i].at = "inspected", ![i].obs = Inspect(b)]
              /\ UNCHANGED faults
           \/ Errs(i) /\ (box' = box \/ box' = [box EXCEPT ![i] = b])
    /\ UNCHANGED <<store, wish, closing, intents, starts>>

\* Mutant of Decides: a container that exited is started again.
MutDecides(i) ==
    /\ Wanted(i) /\ task[i].obs.exists
    /\ IF task[i].obs.running THEN Goto(i, "agent") ELSE Goto(i, "start")
    /\ UNCHANGED <<store, wish, closing, box, intents, starts, faults>>
\* Mutant of Decides: a container that has exited before is a failure of a new start.
MutDecidesOnce(i) ==
    /\ Wanted(i) /\ task[i].obs.exists
    /\ IF task[i].obs.running THEN Goto(i, "agent")
       ELSE IF task[i].obs.started THEN Result(i, "failed", TRUE) ELSE Goto(i, "start")
    /\ UNCHANGED <<store, wish, closing, box, intents, starts, faults>>

\* "A crashed game needs an explicit stop/start, not an endless restart loop."
Decides(i) ==
    /\ Wanted(i) /\ task[i].obs.exists
    /\ IF task[i].obs.running THEN Goto(i, "agent")
       ELSE IF task[i].was.phase # "queued" /\ task[i].obs.started
       THEN Result(i, "failed", TRUE)
       ELSE Goto(i, "start")
    /\ UNCHANGED <<store, wish, closing, box, intents, starts, faults>>

Starts(i) ==
    /\ task[i].at = "start"
    /\ LET started == /\ box' = [box EXCEPT ![i] = "running"]
                      /\ starts' = [starts EXCEPT ![i] =
                             [gen |-> task[i].was.gen,
                              count |-> IF @.gen = task[i].was.gen THEN @.count + 1 ELSE 1]]
       IN  \/ Result(i, "starting", task[i].obs.failure) /\ started /\ UNCHANGED faults
           \/ Errs(i) /\ (started \/ UNCHANGED <<box, starts>>)
    /\ UNCHANGED <<store, wish, closing, intents>>

-----------------------------------------------------------------------------
(* The agent's answer, and the transaction that saves what was observed.   *)

\* Mutant of Save: observations of a superseded intent are kept.
MutSave(i, new) == store' = [store EXCEPT ![i] = new]
\* An observation of a superseded generation is dropped.
Save(i, new) == store' = IF Same(i) THEN [store EXCEPT ![i] = new] ELSE store
Done(i) == task' = [task EXCEPT ![i] = Off]

SavesResult(i) ==
    /\ task[i].at = "save"
    /\ Save(i, [store[i] EXCEPT !.phase = task[i].phase, !.error = task[i].error])
    /\ Done(i)
    /\ UNCHANGED <<wish, closing, box, intents, starts, faults>>

\* A provider error keeps the phase.
SavesError(i) ==
    /\ task[i].at = "failed"
    /\ Save(i, [store[i] EXCEPT !.error = TRUE])
    /\ Done(i)
    /\ UNCHANGED <<wish, closing, box, intents, starts, faults>>

\* applyAgentStatus: no answer, game exited, not ready, ready, or empty for too long.
Status == {"unreachable", "exited", "unready", "ready", "empty"}
applyAgentStatus(v, status) ==
    [v EXCEPT
        !.phase = CASE status \in {"unreachable", "unready"} -> "starting"
                    [] status = "exited" -> "failed"
                    [] OTHER -> "running",
        !.error = status \in {"unreachable", "exited"},
        !.desired = IF status = "empty" THEN "stopped" ELSE @]
SavesStatus(i) ==
    /\ task[i].at = "agent"
    /\ \E status \in IF box[i] = "running" THEN Status ELSE {"unreachable"} :
         Save(i, applyAgentStatus(store[i], status))
    /\ Done(i)
    /\ UNCHANGED <<wish, closing, box, intents, starts, faults>>

\* The transaction fails; the observation is lost.
SaveFails(i) ==
    /\ task[i].at \in {"save", "failed", "agent"} /\ Fault
    /\ Done(i)
    /\ UNCHANGED <<store, wish, closing, box, intents, starts>>

-----------------------------------------------------------------------------
(* The world: containers exit, the controller crashes, the host reboots.   *)

ContainerExits(i) ==
    /\ box[i] = "running"
    /\ \E b \in Exits : box' = [box EXCEPT ![i] = b]
    /\ UNCHANGED <<store, wish, closing, task, intents, starts, faults>>
Restarted == task' = [i \in Instances |-> Off] /\ closing' = FALSE
Crash ==
    /\ Fault /\ Restarted
    /\ UNCHANGED <<store, wish, box, intents, starts>>
\* The host loses power, or was powered off and is booted again.  Docker restarts no container ("RestartPolicy": "no").
Reboot ==
    /\ (closing /\ UNCHANGED faults) \/ Fault
    /\ Restarted
    /\ box' = [i \in Instances |-> IF box[i] \in {"none", "created"} THEN box[i] ELSE "cold"]
    /\ UNCHANGED <<store, wish, intents, starts>>

-----------------------------------------------------------------------------
Intent(i) ==
    \/ \E d \in UserIntents : SetDesired(i, d)
    \/ "running" \in UserIntents /\ Create(i)
    \/ \E d \in FleetIntents : Wish(i, d)
Accept(i) == RequestDesired(i) \/ CreateRequested(i)
Handle(i) ==
    \/ Deletes(i) \/ MaxRuntime(i) \/ Inspects(i) \/ Confirms(i) \/ Stops(i) \/ StopsLate(i)
    \/ StaysFailed(i) \/ Prepares(i) \/ Prepared(i) \/ Ensures(i) \/ Decides(i) \/ Starts(i)
    \/ SavesResult(i) \/ SavesError(i) \/ SavesStatus(i) \/ SaveFails(i)

Next ==
    \/ \E i \in Instances : Intent(i) \/ Accept(i) \/ Handle(i) \/ ContainerExits(i)
    \/ PassBegins \/ BeginIdleShutdown \/ Crash \/ Reboot

Spec == Init /\ [][Next]_vars

\* Run reconciles every two seconds, every call has a deadline, an image pull
\* ends within twenty minutes, and poweroffWhenIdle polls every second.
LiveSpec ==
    /\ Spec
    /\ WF_vars(PassBegins) /\ WF_vars(BeginIdleShutdown)
    /\ \A i \in Instances : WF_vars(Handle(i)) /\ SF_vars(Prepared(i))

-----------------------------------------------------------------------------
(* Properties.                                                             *)

\* Every variable holds a value of its kind.
TypeOK ==
    /\ store \in [Instances -> InstanceRec \cup {None}]
    /\ wish \in [Instances -> WishRec \cup {None}]
    /\ closing \in BOOLEAN
    /\ box \in [Instances -> Box]
    /\ task \in [Instances -> TaskRec]
    /\ intents \in [Instances -> 0..MaxIntents]
    /\ starts \in [Instances -> [gen : Nat, count : Nat]]
    /\ faults \in 0..MaxFaults

\* "stopped" means stopped: when an instance is wanted stopped and reported so,
\* its container does not run, although a start of an earlier intent may have
\* been in flight when the stop was asked for (reconcileInstance, setDesired).
StoppedIsStopped ==
    \A i \in Instances :
        store[i] # None /\ store[i].desired = "stopped" /\ store[i].phase = "stopped"
            => box[i] # "running"

\* The host never powers off under a game: once BeginIdleShutdown has committed,
\* no container runs and none will be started by a call in flight.
QuietShutdown ==
    closing => \A i \in Instances : box[i] # "running" /\ task[i].at # "start"

\* A deleted instance left nothing behind: from then on no pass looks at it, so
\* a container created late would never be removed.
DeletedIsGone ==
    \A i \in Instances :
        store[i] # None /\ store[i].phase = "deleted" => store[i].desired = "deleted" /\ box[i] = "none"

\* What the database says of an instance at rest is true of its container, whatever
\* was in flight when the rest was asked for (reconcileInstance, setDesired).
RestIsReal == StoppedIsStopped /\ DeletedIsGone

\* A game that exits is not restarted in a loop: one intent starts a container
\* once, and once more only for a fault (controller.go: "A crashed game needs an
\* explicit stop/start, not an endless restart loop").
NoRestartLoop == \A i \in Instances : starts[i].count <= 1 + faults

\* A retried request cannot undo a later stop: generations count intents, so the
\* worker repeating an accepted request is never taken for a new one.
RetriesAreIdle == \A i \in Instances : store[i] # None => store[i].gen <= intents[i]

\* A start is never lost: a queued start of a stopped game, even one asked for
\* while a pass over an earlier intent is under way, starts the container, unless
\* its user or a policy changes the intent or the image cannot be prepared
\* (reconcileInstance, "a user may have changed intent while an infrastructure
\* request was in flight").
Pursued(i, g) == store[i] # None /\ store[i].gen = g /\ store[i].desired = "running"
Queued(i, g) ==
    /\ Pursued(i, g) /\ store[i].phase = "queued" /\ box[i] # "running"
    /\ task[i].was # None => task[i].was.gen # g
StartHappens ==
    \A i \in Instances, g \in 1..MaxIntents :
        Queued(i, g) ~> \/ ~Pursued(i, g)
                        \/ box[i] = "running" \/ starts[i].gen = g
                        \/ box[i] = "none" /\ store[i].phase = "failed"

\* A stop or a removal completes, whatever state it found the instance in.
Unsettled(i, d) == store[i] # None /\ store[i].desired = d /\ store[i].phase # d
Settles ==
    \A i \in Instances, d \in {"stopped", "deleted"} : Unsettled(i, d) ~> ~Unsettled(i, d)

\* Every intent is met: a queued game is started and a stop or a removal completes,
\* although earlier passes still work for earlier intents (Reconcile, "A user may
\* have changed intent while an infrastructure request was in flight").
IntentsAreMet == StartHappens /\ Settles

\* "The controller stops empty games according to their idle policies, then
\* powers off the host after all games have stopped" (docs/running.md).
AllStopped ==
    \A i \in Instances : store[i] # None =>
        store[i].desired = store[i].phase /\ store[i].desired # "running"
StoppedHostPowersOff == AllStopped ~> closing \/ ~AllStopped
=============================================================================

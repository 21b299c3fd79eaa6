----------------------------- MODULE LaunchPage -----------------------------
(***************************************************************************)
(* The launch page of a single game host (internal/lobby): Lambda          *)
(* invocations that queue requests in a DynamoDB table and wake the host,  *)
(* and the worker on the host that passes them to the controller and       *)
(* publishes what became of them.                                          *)
(*                                                                         *)
(* Every call to the table or to EC2 is a step of its own.  Time is what   *)
(* it decides: whether a request has "expired" (10 minutes), and, where    *)
(* the same action is queued again, whether 30 seconds have passed.  The   *)
(* controller is what InstanceController promises; its transactions are    *)
(* atomic.                                                                 *)
(***************************************************************************)
EXTENDS Integers, FiniteSets

CONSTANTS
    Presets,      \* the approved instance IDs
    Extras,       \* IDs browsers draw for servers created from a preset
    Lambdas,      \* concurrent invocations of the page and of the event rule
    Asked,        \* the IDs browsers ask about
    Actions,      \* what they ask for
    AdminIntents, \* what the administrator asks the controller for
    MaxRequests,  \* bound: requests ever queued
    Expiring,     \* bound: the requests that may expire
    MaxFaults,    \* bound: failed calls, crashes and failing games
    None

IDs == Presets \cup Extras
Desired == {"running", "stopped", "deleted"}
Phases == {"queued", "running", "stopped", "failed", "deleted"}  \* "queued": until ready
Requests == 0..MaxRequests     \* 0: no request

ASSUME LaunchAssumption ==
    /\ Presets \cap Extras = {} /\ Asked \subseteq IDs
    /\ Actions \subseteq {"start", "stop", "remove"} /\ AdminIntents \subseteq Desired
    /\ MaxRequests \in Nat /\ MaxFaults \in Nat /\ Expiring \subseteq 1..MaxRequests
    /\ None \notin IDs

VARIABLES
    row,       \* the table
    issued,    \* requests queued so far
    lam,       \* invocations of the page
    host,      \* EC2's state of the host; "closing": it has committed to power off
    inst,      \* the controller's database
    up,        \* games seen ready by a pass of this boot
    sync,      \* the worker's pass
    check,     \* rows the power-off check has yet to read, or None
    faults

vars == <<row, issued, lam, host, inst, up, sync, check, faults>>

\* What the page's handlers look at in a published snapshot: its phase is
\* "unavailable", its desired state is "deleted", or neither.
Snapshots == {"unavailable", "deleted", "live"}
RowRec == [snap : Snapshots \cup {None}, template : Presets \cup {None},
           action : {"start", "stop", "remove", None}, req : Requests,
           accepted : Requests, completed : Requests, failure : BOOLEAN,
           expired : BOOLEAN]
\* fresh: found running or failed since the worker started.
InstanceRec == [desired : Desired, phase : Phases, req : Requests, fresh : BOOLEAN]
ASSUME NoneAssumption ==
    None \notin InstanceRec /\ None \notin Snapshots /\ None \notin {"start", "stop", "remove"}

\* What Read makes of a row that is not there; every row there is has a snapshot.
NoRow == [snap |-> None, template |-> None, action |-> None, req |-> 0, accepted |-> 0,
          completed |-> 0, failure |-> FALSE, expired |-> FALSE]

Idle == [at |-> "idle", id |-> None, action |-> None, template |-> None, req |-> 0, todo |-> {}]
LambdaRec == [at : {"idle", "queue", "put", "wake", "scan", "expire"}, id : IDs \cup {None},
              action : {"start", "stop", "remove", None}, template : Presets \cup {None},
              req : Requests, todo : SUBSET IDs]

\* The worker between two passes; "next" takes the next instance.
Resting == [at |-> "rest", todo |-> {}, id |-> None, row |-> NoRow, pending |-> FALSE,
            stage |-> None, failure |-> FALSE, then |-> "next", snap |-> None]
SyncRec == [at : {"rest", "next", "local", "mark", "get", "publish"}, todo : SUBSET IDs,
            id : IDs \cup {None}, row : RowRec, pending : BOOLEAN,
            stage : {"accepted", "completed", None}, failure : BOOLEAN,
            then : {"next", "get", "publish"}, snap : Snapshots \cup {None}]

Up == {"running", "closing"}

Init ==
    /\ row = [i \in IDs |-> NoRow]
    /\ issued = 0
    /\ lam = [p \in Lambdas |-> Idle]
    /\ host \in {"running", "stopped"}
    /\ inst \in [IDs -> {None, [desired |-> "stopped", phase |-> "stopped", req |-> 0, fresh |-> FALSE]}]
    /\ \A i \in Extras : inst[i] = None
    /\ up = {}
    /\ sync = Resting
    /\ check = None
    /\ faults = 0

Fault == faults < MaxFaults /\ faults' = faults + 1

-----------------------------------------------------------------------------
(* The table (lobby/store.go).                                             *)

Open(r) == r.req # 0 /\ r.req # r.completed
Pending(r) == Open(r) /\ ~r.expired

managedIDs == Presets \cup {i \in IDs : row[i].template \in Presets}

\* The condition of Queue; cooled: the row's last request is 30 seconds old.
Vacant(r, action, cooled) ==
    /\ r.snap # None
    /\ r.req = 0 \/ r.expired \/ r.req = r.completed
    /\ r.req = 0 \/ r.expired \/ cooled \/ r.action # action

Queued(r, action, req) ==
    [r EXCEPT !.action = action, !.req = req, !.expired = FALSE, !.failure = FALSE]

\* The row Create puts where there is none.
Created(t, req) == [Queued(NoRow, "start", req) EXCEPT !.template = t, !.snap = "live"]

\* Mutant of Mark: the write is not conditioned on the request.
MutMark(i, req, stage, failure) ==
    row' = [row EXCEPT ![i] =
              IF stage = "accepted" THEN [@ EXCEPT !.accepted = req]
              ELSE [@ EXCEPT !.completed = req, !.failure = failure]]
\* Mark counts only for the request that is still the row's own.
Mark(i, req, stage, failure) ==
    row' = IF row[i].req # req THEN row
           ELSE [row EXCEPT ![i] =
                   IF stage = "accepted" THEN [@ EXCEPT !.accepted = req]
                   ELSE [@ EXCEPT !.completed = req, !.failure = failure]]

RequestExpires(i) ==
    /\ row[i].req \in Expiring /\ ~row[i].expired
    /\ row' = [row EXCEPT ![i].expired = TRUE]
    /\ UNCHANGED <<issued, lam, host, inst, up, sync, check, faults>>

-----------------------------------------------------------------------------
(* The page and the event rule (lobby/http.go, host.go).                   *)

\* POST /api/games/{id}/{action}: the row is checked, then the request queued.
ActionRead(p, i, action) ==
    /\ lam[p].at = "idle"
    /\ i \in Presets \/ row[i].template \in Presets
    /\ ~(i \in Presets /\ action = "remove")
    /\ row[i].snap \notin {None, "unavailable"}
    /\ row[i].snap = "deleted" => action = "remove"
    /\ lam' = [lam EXCEPT ![p] = [Idle EXCEPT !.at = "queue", !.id = i, !.action = action]]
    /\ UNCHANGED <<row, issued, host, inst, up, sync, check, faults>>
ActionQueue(p) ==
    LET i == lam[p].id
    IN  /\ lam[p].at = "queue"
        /\ \/ /\ \E cooled \in BOOLEAN : Vacant(row[i], lam[p].action, cooled)
              /\ issued < MaxRequests
              /\ issued' = issued + 1
              /\ row' = [row EXCEPT ![i] = Queued(@, lam[p].action, issued')]
              /\ lam' = [lam EXCEPT ![p] = [Idle EXCEPT !.at = "wake"]]
           \/ /\ (\E cooled \in BOOLEAN : ~Vacant(row[i], lam[p].action, cooled)) \/ issued = MaxRequests
              /\ lam' = [lam EXCEPT ![p] = Idle]
              /\ UNCHANGED <<row, issued>>
        /\ UNCHANGED <<host, inst, up, sync, check, faults>>

\* POST /api/games: the preset is checked, then the new row put.
CreateRead(p, i, t) ==
    /\ lam[p].at = "idle" /\ i \in Extras
    /\ row[t].snap \notin {None, "unavailable"}
    /\ lam' = [lam EXCEPT ![p] = [Idle EXCEPT !.at = "put", !.id = i, !.template = t]]
    /\ UNCHANGED <<row, issued, host, inst, up, sync, check, faults>>
\* A row that exists is taken for this request's own if its template is the same.
CreatePut(p) ==
    LET i == lam[p].id  t == lam[p].template
    IN  /\ lam[p].at = "put"
        /\ \/ /\ row[i].snap = None /\ issued < MaxRequests
              /\ issued' = issued + 1
              /\ row' = [row EXCEPT ![i] = Created(t, issued')]
              /\ lam' = [lam EXCEPT ![p] = [Idle EXCEPT !.at = "wake"]]
           \/ /\ row[i].snap # None \/ issued = MaxRequests
              /\ lam' = [lam EXCEPT ![p] = IF row[i].template = t THEN [Idle EXCEPT !.at = "wake"] ELSE Idle]
              /\ UNCHANGED <<row, issued>>
        /\ UNCHANGED <<host, inst, up, sync, check, faults>>

\* Host.Wake: a host that is stopping is left to the next retry.
Wake(p) ==
    /\ lam[p].at = "wake"
    /\ host' = IF host = "stopped" THEN "pending" ELSE host
    /\ lam' = [lam EXCEPT ![p] = Idle]
    /\ UNCHANGED <<row, issued, inst, up, sync, check, faults>>

\* Service.Reconcile, every minute: close expired requests, wake for a pending one.
ScanBegins(p) ==
    /\ lam[p].at = "idle"
    /\ lam' = [lam EXCEPT ![p] = [Idle EXCEPT !.at = "scan", !.todo = managedIDs]]
    /\ UNCHANGED <<row, issued, host, inst, up, sync, check, faults>>
\* Mutant of ScanRow: the first wake is not retried.
MutScanRow(p, i) ==
    /\ lam[p].at = "scan" /\ i \in lam[p].todo
    /\ lam' = [lam EXCEPT ![p] =
         IF Open(row[i]) /\ row[i].expired THEN [@ EXCEPT !.at = "expire", !.id = i, !.req = row[i].req]
         ELSE [@ EXCEPT !.todo = @ \ {i}]]
    /\ UNCHANGED <<row, issued, host, inst, up, sync, check, faults>>
ScanRow(p, i) ==
    /\ lam[p].at = "scan" /\ i \in lam[p].todo
    /\ lam' = [lam EXCEPT ![p] =
         IF Pending(row[i]) THEN [Idle EXCEPT !.at = "wake"]
         ELSE IF Open(row[i]) THEN [@ EXCEPT !.at = "expire", !.id = i, !.req = row[i].req]
         ELSE [@ EXCEPT !.todo = lam[p].todo \ {i}]]
    /\ UNCHANGED <<row, issued, host, inst, up, sync, check, faults>>
ScanExpire(p) ==
    LET i == lam[p].id
    IN  /\ lam[p].at = "expire"
        /\ Mark(i, lam[p].req, "completed", TRUE)
        /\ lam' = [lam EXCEPT ![p] = [Idle EXCEPT !.at = "scan", !.todo = lam[p].todo \ {i}]]
        /\ UNCHANGED <<issued, host, inst, up, sync, check, faults>>
ScanEnds(p) ==
    /\ lam[p].at = "scan" /\ lam[p].todo = {}
    /\ lam' = [lam EXCEPT ![p] = Idle]
    /\ UNCHANGED <<row, issued, host, inst, up, sync, check, faults>>
LambdaFails(p) ==
    /\ lam[p].at # "idle" /\ Fault
    /\ lam' = [lam EXCEPT ![p] = Idle]
    /\ UNCHANGED <<row, issued, host, inst, up, sync, check>>

-----------------------------------------------------------------------------
(* The worker (lobby/worker.go).                                           *)

Want == [start |-> "running", stop |-> "stopped", remove |-> "deleted"]

\* Mutant of setDesired: a start leaves the phase unset.
MutSetDesired(n, d) ==
    IF n.desired \in {"deleted", d} THEN n
    ELSE [n EXCEPT !.desired = d, !.phase = IF d = "running" THEN "" ELSE @]
\* setDesired of the controller, as far as this module tells phases apart.
setDesired(n, d) ==
    IF n.desired = "deleted" THEN n
    ELSE IF n.desired = d
    THEN IF d = "running" /\ n.phase = "failed" THEN [n EXCEPT !.phase = "queued"] ELSE n
    ELSE [n EXCEPT !.desired = d, !.phase = IF d = "running" THEN "queued" ELSE @]

SyncBegins ==
    /\ host \in Up /\ sync.at = "rest"
    /\ sync' = [Resting EXCEPT !.at = "next", !.todo = managedIDs]
    /\ UNCHANGED <<row, issued, lam, host, inst, up, check, faults>>
SyncEnds ==
    /\ sync.at = "next" /\ sync.todo = {}
    /\ sync' = Resting
    /\ UNCHANGED <<row, issued, lam, host, inst, up, check, faults>>
\* The pass judges expiry by the time it began, so a request that has expired
\* may still look pending.
SyncRead(i) ==
    /\ sync.at = "next" /\ i \in sync.todo
    /\ \E late \in BOOLEAN :
         sync' = [sync EXCEPT !.at = "local", !.todo = @ \ {i}, !.id = i, !.row = row[i],
                              !.pending = Pending(row[i]) \/ (Open(row[i]) /\ late)]
    /\ UNCHANGED <<row, issued, lam, host, inst, up, check, faults>>

\* What the pass does next with its instance: mark a stage of the request, or not.
Continue(then) ==
    sync' = IF then = "next" THEN [Resting EXCEPT !.at = "next", !.todo = sync.todo]
            ELSE [sync EXCEPT !.at = then, !.row = NoRow, !.stage = None, !.failure = FALSE,
                              !.pending = FALSE, !.then = "next"]
Marks(stage, failure, then) ==
    sync' = [sync EXCEPT !.at = "mark", !.stage = stage, !.failure = failure, !.then = then]

Here == inst[sync.id]
Creates == /\ Here = None /\ sync.row.template # None
           /\ sync.pending /\ sync.row.action = "start"
TemplateGone == inst[sync.row.template] = None \/ inst[sync.row.template].desired = "deleted"

\* A row of a preset that is gone; nothing is published.
SyncNoTemplate ==
    /\ sync.at = "local" /\ Creates /\ TemplateGone
    /\ Marks("completed", TRUE, "next")
    /\ UNCHANGED <<row, issued, lam, host, inst, up, check, faults>>
\* CreateRequested and, with the same request, RequestDesired.
SyncCreates ==
    /\ sync.at = "local" /\ Creates /\ ~TemplateGone /\ host = "running"
    /\ inst' = [inst EXCEPT ![sync.id] =
                  [desired |-> "running", phase |-> "queued", req |-> sync.row.req, fresh |-> FALSE]]
    /\ Marks("accepted", FALSE, "get")
    /\ UNCHANGED <<row, issued, lam, host, up, check, faults>>

\* A saved game that is not there: its request is closed and the row says so.
Substitute ==
    IF sync.row.template = None THEN "unavailable"
    ELSE IF sync.row.action = "remove" THEN "deleted" ELSE "live"
SyncMissing ==
    /\ sync.at = "local" /\ Here = None /\ ~Creates
    /\ sync' = [sync EXCEPT !.snap = Substitute,
                    !.at = IF sync.pending THEN "mark" ELSE "publish",
                    !.stage = "completed", !.failure = sync.row.action # "remove",
                    !.then = "publish"]
    /\ UNCHANGED <<row, issued, lam, host, inst, up, check, faults>>

Unanswered == sync.at = "local" /\ Here # None /\ Open(sync.row) /\ sync.pending
Unaccepted == Unanswered /\ sync.row.accepted # sync.row.req
Refuses == Here.req # sync.row.req /\ Here.desired = "deleted" /\ sync.row.action # "remove"

\* Mutant of SyncAccepts: the request ID is not stored with the intent.
MutSyncAccepts ==
    /\ Unaccepted /\ host = "running" /\ ~Refuses
    /\ inst' = [inst EXCEPT ![sync.id] = setDesired(@, Want[sync.row.action])]
    /\ Marks("accepted", FALSE, "get")
    /\ UNCHANGED <<row, issued, lam, host, up, check, faults>>
SyncAccepts ==
    /\ Unaccepted /\ host = "running" /\ ~Refuses
    /\ inst' = [inst EXCEPT ![sync.id] =
                  IF @.req = sync.row.req THEN @
                  ELSE [setDesired(@, Want[sync.row.action]) EXCEPT !.req = sync.row.req]]
    /\ Marks("accepted", FALSE, "get")
    /\ UNCHANGED <<row, issued, lam, host, up, check, faults>>
\* ErrShuttingDown: nothing is marked or published; the request waits for the next boot.
SyncShutdown ==
    /\ host = "closing"
    /\ Unaccepted \/ (sync.at = "local" /\ Creates /\ ~TemplateGone)
    /\ Continue("next")
    /\ UNCHANGED <<row, issued, lam, host, inst, up, check, faults>>
\* "instance has been deleted": the error ends the whole pass.
SyncRefused ==
    /\ Unaccepted /\ host = "running" /\ Refuses
    /\ sync' = Resting
    /\ UNCHANGED <<row, issued, lam, host, inst, up, check, faults>>

\* Mutant of Achieved: an observation of an earlier boot counts as ready.
MutAchieved(n, action) ==
    \/ action = "stop" /\ n.phase = "stopped"
    \/ action = "remove" /\ n.phase = "deleted"
    \/ action = "start" /\ n.phase = "running" /\ n.desired = "running"
Achieved(n, action) ==
    \/ action = "stop" /\ n.phase = "stopped"
    \/ action = "remove" /\ n.phase = "deleted"
    \/ action = "start" /\ n.phase = "running" /\ n.desired = "running" /\ n.fresh
Missed(n, action) ==
    (n.phase = "failed" /\ n.fresh) \/ (action = "start" /\ n.desired # "running")

SyncAnswers ==
    LET done == Achieved(Here, sync.row.action)
        missed == Missed(Here, sync.row.action)
    IN  /\ sync.at = "local" /\ Here # None /\ ~Unaccepted
        /\ IF Open(sync.row) /\ ~sync.pending THEN Marks("completed", TRUE, "get")
           ELSE IF Open(sync.row) /\ (done \/ missed) THEN Marks("completed", ~done, "get")
           ELSE Continue("get")
        /\ UNCHANGED <<row, issued, lam, host, inst, up, check, faults>>

SyncMark ==
    /\ sync.at = "mark"
    /\ Mark(sync.id, sync.row.req, sync.stage, sync.failure)
    /\ Continue(sync.then)
    /\ UNCHANGED <<issued, lam, host, inst, up, check, faults>>
\* "Re-read after accepting intent; never publish the pre-start state as current."
SyncGet ==
    /\ sync.at = "get"
    /\ sync' = [sync EXCEPT !.at = "publish",
                   !.snap = IF Here.desired = "deleted" THEN "deleted" ELSE "live"]
    /\ UNCHANGED <<row, issued, lam, host, inst, up, check, faults>>
Publish ==
    /\ sync.at = "publish"
    /\ row' = [row EXCEPT ![sync.id].snap = sync.snap]
    /\ Continue("next")
    /\ UNCHANGED <<issued, lam, host, inst, up, check, faults>>
SyncFails ==
    /\ sync.at # "rest" /\ Fault
    /\ sync' = Resting
    /\ UNCHANGED <<row, issued, lam, host, inst, up, check>>

-----------------------------------------------------------------------------
(* The controller (InstanceController): passes observe and drive the game. *)

Saves(i, phase) == inst' = [inst EXCEPT ![i].phase = phase, ![i].fresh = phase \in {"running", "failed"}]
Reconciles(i, d) == host \in Up /\ inst[i] # None /\ inst[i].desired = d
\* A failed game stays failed, except that a reboot clears its exit code.
PassReady(i) ==
    /\ Reconciles(i, "running") /\ (inst[i].phase = "failed" => ~inst[i].fresh)
    /\ Saves(i, "running") /\ up' = up \cup {i}
    /\ UNCHANGED <<row, issued, lam, host, sync, check, faults>>
PassStarting(i) ==
    /\ Reconciles(i, "running") /\ (inst[i].phase = "failed" => ~inst[i].fresh)
    /\ Saves(i, "queued")
    /\ UNCHANGED <<row, issued, lam, host, up, sync, check, faults>>
PassFailed(i) ==
    /\ Reconciles(i, "running")
    /\ Saves(i, "failed")
    /\ IF inst[i].phase = "failed" THEN UNCHANGED faults ELSE Fault
    /\ UNCHANGED <<row, issued, lam, host, up, sync, check>>
PassSettles(i) ==
    /\ \E d \in {"stopped", "deleted"} : Reconciles(i, d) /\ Saves(i, d)
    /\ UNCHANGED <<row, issued, lam, host, up, sync, check, faults>>
IdleStop(i) ==
    /\ Reconciles(i, "running") /\ inst[i].phase = "running"
    /\ inst' = [inst EXCEPT ![i].desired = "stopped"]
    /\ UNCHANGED <<row, issued, lam, host, up, sync, check, faults>>
\* The administrator's API; refused while the host shuts down.
AdminSets(i, d) ==
    /\ host = "running" /\ inst[i] # None
    /\ inst[i].desired = "deleted" => d = "deleted"
    /\ inst' = [inst EXCEPT ![i] = setDesired(@, d)]
    /\ inst' # inst
    /\ UNCHANGED <<row, issued, lam, host, up, sync, check, faults>>

-----------------------------------------------------------------------------
(* The host (command/command.go, idle.go) and EC2.                         *)

InstancesIdle ==
    \A i \in IDs : inst[i] # None => inst[i].desired = inst[i].phase /\ inst[i].desired # "running"

\* Worker.Pending reads the rows one by one, then the controller commits.
CheckBegins ==
    /\ host = "running" /\ check = None /\ InstancesIdle
    /\ check' = managedIDs
    /\ UNCHANGED <<row, issued, lam, host, inst, up, sync, faults>>
CheckRow(i) ==
    /\ check # None /\ i \in check
    /\ check' = IF Pending(row[i]) THEN None ELSE check \ {i}
    /\ UNCHANGED <<row, issued, lam, host, inst, up, sync, faults>>
BeginIdleShutdown ==
    /\ check = {} /\ check' = None
    /\ host' = IF InstancesIdle THEN "closing" ELSE host
    /\ UNCHANGED <<row, issued, lam, inst, up, sync, faults>>

\* A new boot, or a new controller: what was observed before is no longer fresh.
Stale == inst' = [i \in IDs |-> IF inst[i] = None THEN None ELSE [inst[i] EXCEPT !.fresh = FALSE]]
HostDown == sync' = Resting /\ check' = None /\ Stale /\ up' = {}
HostStops ==
    /\ \/ host = "closing" /\ UNCHANGED faults
       \/ host = "running" /\ Fault
    /\ host' = "stopping" /\ HostDown
    /\ UNCHANGED <<row, issued, lam>>
HostStopped ==
    /\ host = "stopping" /\ host' = "stopped"
    /\ UNCHANGED <<row, issued, lam, inst, up, sync, check, faults>>
HostBoots ==
    /\ host = "pending" /\ host' = "running"
    /\ UNCHANGED <<row, issued, lam, inst, up, sync, check, faults>>

-----------------------------------------------------------------------------
Page(p) ==
    \/ \E i \in Asked, a \in Actions : ActionRead(p, i, a)
    \/ \E i \in Extras, t \in Presets : CreateRead(p, i, t)
    \/ ActionQueue(p) \/ CreatePut(p)
Scan(p) ==
    \/ ScanBegins(p) \/ (\E i \in IDs : ScanRow(p, i)) \/ ScanExpire(p) \/ ScanEnds(p) \/ Wake(p)
Sync ==
    \/ SyncBegins \/ SyncEnds \/ (\E i \in IDs : SyncRead(i))
    \/ SyncNoTemplate \/ SyncCreates \/ SyncMissing \/ SyncAccepts \/ SyncShutdown \/ SyncRefused
    \/ SyncAnswers \/ SyncMark \/ SyncGet \/ Publish
Pass(i) == PassReady(i) \/ PassStarting(i) \/ PassFailed(i) \/ PassSettles(i)
PowerOff == CheckBegins \/ (\E i \in IDs : CheckRow(i)) \/ BeginIdleShutdown
EC2 == HostStops \/ HostStopped \/ HostBoots

Next ==
    \/ \E p \in Lambdas : Page(p) \/ Scan(p) \/ LambdaFails(p)
    \/ \E i \in IDs : Pass(i) \/ IdleStop(i) \/ RequestExpires(i)
    \/ \E i \in IDs, d \in AdminIntents : AdminSets(i, d)
    \/ Sync \/ SyncFails \/ PowerOff \/ EC2

Spec == Init /\ [][Next]_vars

\* The event rule scans every minute and an invocation gets to its end; a host
\* that shuts down or boots completes that; its worker polls while it runs.
LiveSpec ==
    /\ Spec
    /\ \A p \in Lambdas :
         /\ SF_vars(ScanBegins(p))
         /\ WF_vars(lam[p].at # "idle" /\ (Page(p) \/ Scan(p)))
    /\ WF_vars(Sync)
    /\ WF_vars(host = "closing" /\ HostStops) /\ WF_vars(HostStopped) /\ WF_vars(HostBoots)

-----------------------------------------------------------------------------
(* Properties.                                                             *)

\* Every variable holds a value of its kind.
TypeOK ==
    /\ row \in [IDs -> RowRec]
    /\ issued \in Requests
    /\ lam \in [Lambdas -> LambdaRec]
    /\ host \in {"stopped", "pending", "running", "closing", "stopping"}
    /\ inst \in [IDs -> InstanceRec \cup {None}]
    /\ up \subseteq IDs
    /\ sync \in SyncRec
    /\ check \in (SUBSET IDs) \cup {None}
    /\ faults \in 0..MaxFaults

\* The page never shows the failure of one request as that of another: a failure
\* in a row is that of its latest request, which is completed, however late the
\* worker or the event rule marks an earlier one (Table.Mark, Table.Queue).
OutcomeIsOwn ==
    \A i \in IDs : row[i].failure => row[i].completed = row[i].req /\ row[i].req # 0

\* A request is reported as done only if it was: the controller has accepted
\* that very request (or, for a removal, has no such server), a started game was
\* seen ready by a pass of the running boot, and a removed one is deleted
\* (docs/architecture.md, "Completion requires fresh readiness").
CompletionMoves ==
    \A i \in IDs :
        LET r == row'[i]
        IN  r.completed # row[i].completed /\ ~r.failure =>
                IF inst[i] = None THEN r.action = "remove"
                ELSE /\ inst[i].req = r.req
                     /\ r.action = "start" => i \in up
                     /\ r.action = "remove" => inst[i].phase = "deleted"
CompletionIsReal == [][CompletionMoves]_row

\* A retried request cannot undo a later intent: the controller takes every
\* request at most once and never goes back to an earlier one, although the
\* worker repeats a request until its acceptance is marked, and marks get lost
\* (docs/architecture.md, "retrying after a lost remote acknowledgement cannot
\* undo a later stop").
IntentMoves ==
    \A i \in IDs :
        inst[i] # None /\ inst'[i] # None =>
            /\ inst'[i].req >= inst[i].req
            /\ sync' # sync /\ inst'[i].desired # inst[i].desired => inst'[i].req > inst[i].req
RetriesKeepIntent == [][IntentMoves]_inst

\* A request is never stranded: one that does not expire is accepted by the
\* host or answered, although it may arrive between the last look at its row and
\* the power-off, and the first wake may find the host still stopping.  (A
\* request for a deleted server ends the worker's pass before later rows.)
Blocked ==
    \E i \in IDs :
        /\ Pending(row[i]) /\ inst[i] # None /\ inst[i].req # row[i].req
        /\ inst[i].desired = "deleted" /\ row[i].action # "remove"
Waits(i, r) ==
    /\ Pending(row[i]) /\ row[i].req = r /\ row[i].accepted # r
    /\ ~Blocked
RequestIsTaken == \A i \in IDs, r \in 1..MaxRequests : Waits(i, r) ~> ~Waits(i, r)

\* Removed servers stay deleted (lobby_test.go, "removed server reappeared"): the
\* worker never creates a server that the page shows as deleted.
RevivalMoves ==
    \A i \in IDs : inst[i] = None /\ inst'[i] # None => row[i].snap # "deleted"
RemovedStaysRemoved == [][RevivalMoves]_inst
=============================================================================

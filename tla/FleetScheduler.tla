--------------------------- MODULE FleetScheduler ---------------------------
(***************************************************************************)
(* The fleet scheduler (internal/fleet/scheduler.go) as its concurrent     *)
(* Lambda invocations run it, over the DynamoDB table (table.go), the EC2  *)
(* machines (ec2.go) and the fleet worker of every host (worker.go).       *)
(*                                                                         *)
(* Every call that leaves the process - a Load, a report read, a Save, a   *)
(* machine operation - is a step of its own, so what an invocation read    *)
(* may be stale when it acts.  The retry loops of the code start the same  *)
(* operation again from its Load; here the invocation returns to "idle",   *)
(* from where any operation may start.  A failed call or a timed-out       *)
(* Lambda ends the invocation (Crash).                                     *)
(***************************************************************************)
EXTENDS FleetRegistry

CONSTANTS
    Lambdas,      \* concurrent scheduler invocations
    MaxFaults,    \* bound: EC2 calls that fail or lose their answer, machines
                  \* lost and games that exit
    CrashCost,    \* 1 if a crashed invocation counts as a fault, 0 if they are free
    MaxAged,      \* bound: requests that may reach StartupTimeout
    Intents,      \* the actions users take: the desired states they ask for
    Workers,      \* hosts whose worker gets to run
    Purgeable,    \* hosts whose terminated machine EC2 may stop listing
    HasDeadline,  \* whether Config.Deadline is set
    MayDestroy    \* whether the operator may tear the deployment down

ASSUME BoundsAssumption ==
    /\ MaxFaults \in Nat /\ CrashCost \in {0, 1} /\ MaxAged \in Nat /\ Intents \subseteq Desired
    /\ Purgeable \subseteq Hosts

VARIABLES
    \* the DynamoDB table
    reg,          \* item fleet/state
    tomb,         \* items tombstone/<id>
    reports,      \* items report/<id>
    \* EC2, one machine per launch token
    machine, disk,
    \* time
    aged,         \* requests up to this one are older than StartupTimeout
    deadline,     \* Config.Deadline has passed
    \* generators and bounds
    issued,       \* request IDs drawn so far
    drawn,        \* host IDs that ever entered the registry
    faults,
    \* scheduler invocations
    pc, snap, seen, target, ask, want, host, todo, view,
    \* hosts: the worker's loaded servers and the controller's instances
    wview, local

table == <<reg, tomb, reports>>
ec2 == <<machine, disk>>
clock == <<aged, deadline>>
ids == <<issued, drawn>>
calls == <<pc, snap, seen, target, ask, want, host, todo, view>>
worker == <<wview, local>>
vars == <<table, ec2, clock, ids, faults, calls, worker>>

MachineState == {"new", "launching", "pending", "running", "closing", "stopping", "stopped",
                 "shutting-down", "terminated", "purged"}
InstanceRec == [host : Hosts, req : Requests, desired : Desired, phase : Phases, error : BOOLEAN]
Ask == [game : Games, release : Releases]

PC == {"idle", "tombstoned", "choose", "createSave", "actionReports", "actionSave",
       "destroySave", "reports", "plan", "hosts", "stop", "updateLoad", "updateSave",
       "forgetLoad", "forgetSave"}

NoReports == [s \in Servers |-> None]

Init ==
    /\ reg = EmptyState
    /\ tomb = {}
    /\ reports = NoReports
    /\ machine = [h \in Hosts |-> "new"]
    /\ disk = [h \in Hosts |-> FALSE]
    /\ aged = 0 /\ deadline = FALSE
    /\ issued = 0 /\ drawn = {} /\ faults = 0
    /\ pc = [p \in Lambdas |-> "idle"]
    /\ snap = [p \in Lambdas |-> EmptyState]
    /\ seen = [p \in Lambdas |-> NoReports]
    /\ target = [p \in Lambdas |-> None]
    /\ ask = [p \in Lambdas |-> None]
    /\ want = [p \in Lambdas |-> None]
    /\ host = [p \in Lambdas |-> None]
    /\ todo = [p \in Lambdas |-> {}]
    /\ view = [p \in Lambdas |-> EmptyState]
    /\ wview = [h \in Hosts |-> NoReports]
    /\ local = [s \in Servers |-> None]

Goto(p, label) == pc' = [pc EXCEPT ![p] = label]

\* The invocation (or this attempt of its retry loop) is over.
Return(p) ==
    /\ pc' = [pc EXCEPT ![p] = "idle"]
    /\ snap' = [snap EXCEPT ![p] = EmptyState]
    /\ view' = [view EXCEPT ![p] = EmptyState]
    /\ seen' = [seen EXCEPT ![p] = NoReports]
    /\ target' = [target EXCEPT ![p] = None]
    /\ ask' = [ask EXCEPT ![p] = None]
    /\ want' = [want EXCEPT ![p] = None]
    /\ host' = [host EXCEPT ![p] = None]
    /\ todo' = [todo EXCEPT ![p] = {}]

-----------------------------------------------------------------------------
(* The table.  Save and Forget commit st against the revision it was       *)
(* loaded at; a conflict leaves the table alone.                           *)

Current(st) == st.rev = reg.rev

Put(st) == reg' = [st EXCEPT !.rev = st.rev + 1]

Save(st) ==
    \/ Current(st) /\ Put(st)
    \/ ~Current(st) /\ UNCHANGED reg

Forget(st, s) ==
    \/ /\ Current(st)
       /\ Put([st EXCEPT !.servers[s] = None])
       /\ tomb' = tomb \cup {s}
       /\ reports' = [reports EXCEPT ![s] = None]
    \/ ~Current(st) /\ UNCHANGED <<reg, tomb, reports>>

Reports == [s \in Servers |-> IF reg.servers[s] # None THEN reports[s] ELSE None]

\* Mutant of Publish: the put is not conditioned on the tombstone.
MutPublish(s, r) ==
    reports' = IF reports[s] = None \/ reports[s].host = r.host
               THEN [reports EXCEPT ![s] = r] ELSE reports

\* A tombstoned ID drops the report silently; another host's report is kept.
Publish(s, r) ==
    reports' = IF s \notin tomb /\ (reports[s] = None \/ reports[s].host = r.host)
               THEN [reports EXCEPT ![s] = r]
               ELSE reports

Ended(st) == st.deleting \/ deadline

-----------------------------------------------------------------------------
(* EC2 (external).  A launch token starts at most one machine, ever: a     *)
(* second RunInstances returns the first one's ID, or fails once that      *)
(* machine is terminated.  A machine just launched may not be listed yet.  *)

\* A "closing" machine has committed to power itself off; EC2 still lists it running.
Alive == {"launching", "pending", "running", "closing", "stopping", "stopped"}
Up == {"running", "closing", "stopping", "shutting-down"}   \* its processes still run

\* find returns nothing: never launched, not listed yet, or no longer listed.
Unlisted(h) == machine[h] \in {"new", "launching", "purged"}

Inspect(h, rec) ==
    IF Unlisted(h) THEN (IF rec.instance THEN "terminated" ELSE "new")
    ELSE IF machine[h] = "closing" THEN "running" ELSE machine[h]

\* Whether Wake returns an instance ID, and the state it leaves the machine in.
WakeSucceeds(h, rec) ==
    IF Unlisted(h) THEN ~rec.instance /\ machine[h] # "purged" ELSE machine[h] \in Alive
\* Mutant of Woken: a stopped machine is left stopped.
MutWoken(h) == IF machine[h] = "new" THEN "launching" ELSE machine[h]
Woken(h) ==
    IF machine[h] = "new" THEN "launching"
    ELSE IF machine[h] = "stopped" THEN "pending" ELSE machine[h]

\* Mutant of DeleteSucceeds: a machine that is not listed counts as gone.
MutDeleteSucceeds(h, rec) == machine[h] = "terminated" \/ Unlisted(h)

\* Delete reports success only once the machine and its disks are gone.
DeleteSucceeds(h, rec) ==
    /\ machine[h] = "terminated" \/ (Unlisted(h) /\ rec.instance)
    /\ ~disk[h]

\* A Delete that finds no machine launches it first, so that a RunInstances
\* whose answer was lost is found again; it terminates it when it is listed.
Terminations(h) ==
    IF machine[h] = "new" THEN {"launching", "shutting-down"}
    ELSE IF machine[h] \in Alive \ {"launching"} THEN {"shutting-down"} ELSE {machine[h]}

-----------------------------------------------------------------------------
(* Scheduler.Create.                                                       *)

\* Mutant of CreateLoad: the saved servers are not searched for the ID.
MutCreateLoad(p, s, a) ==
    /\ pc[p] = "idle" /\ issued < MaxRequests
    /\ ~Ended(reg)
    /\ Goto(p, "tombstoned")
    /\ snap' = [snap EXCEPT ![p] = reg]
    /\ target' = [target EXCEPT ![p] = s]
    /\ ask' = [ask EXCEPT ![p] = a]
    /\ UNCHANGED <<table, ec2, clock, ids, faults, seen, want, host, todo, view, worker>>

CreateLoad(p, s, a) ==
    /\ pc[p] = "idle" /\ issued < MaxRequests   \* bound
    /\ ~Ended(reg) /\ reg.servers[s] = None
    /\ Goto(p, "tombstoned")
    /\ snap' = [snap EXCEPT ![p] = reg]
    /\ target' = [target EXCEPT ![p] = s]
    /\ ask' = [ask EXCEPT ![p] = a]
    /\ UNCHANGED <<table, ec2, clock, ids, faults, seen, want, host, todo, view, worker>>

CreateTombstoned(p) ==
    /\ pc[p] = "tombstoned"
    /\ IF target[p] \in tomb \/ Cardinality(ServerIDs(snap[p])) >= MaxServers
       THEN Return(p)
       ELSE Goto(p, "choose") /\ UNCHANGED <<snap, seen, target, ask, want, host, todo, view>>
    /\ UNCHANGED <<table, ec2, clock, ids, faults, worker>>

\* Inspect fails for the hosts in "failed".
CreateChoose(p) ==
    /\ pc[p] = "choose"
    /\ \E failed \in SUBSET HostIDs(snap[p]) :
         LET inspect == [h \in Hosts |->
                 IF h \in failed \/ snap[p].hosts[h] = None THEN "unknown"
                 ELSE Inspect(h, snap[p].hosts[h])]
             best == BestHosts(snap[p], ask[p].release, ask[p].game, inspect)
         IN  /\ faults + Cardinality(failed) <= MaxFaults
             /\ faults' = faults + Cardinality(failed)
             /\ \/ /\ best = {} /\ Cardinality(HostIDs(snap[p])) >= MaxHosts
                   /\ Return(p)
                \/ /\ best # {} \/ Cardinality(HostIDs(snap[p])) < MaxHosts
                   /\ \E h \in IF best # {} THEN best ELSE Hosts \ drawn :
                        host' = [host EXCEPT ![p] = h]
                   /\ Goto(p, "createSave")
                   /\ UNCHANGED <<snap, seen, target, ask, want, todo, view>>
    /\ UNCHANGED <<table, ec2, clock, ids, worker>>

NewHost(r) == [release |-> r, instance |-> FALSE, retiring |-> FALSE, error |-> FALSE]
\* Mutant of NewServer: no request ID is drawn.
MutNewServer(g, h, req) == [game |-> g, host |-> h, desired |-> "running", req |-> 0,
                            ready |-> FALSE, error |-> FALSE]
NewServer(g, h, req) == [game |-> g, host |-> h, desired |-> "running", req |-> req,
                         ready |-> FALSE, error |-> FALSE]

Created(p) ==
    [snap[p] EXCEPT
        !.hosts[host[p]] = IF @ = None THEN NewHost(ask[p].release) ELSE @,
        !.servers[target[p]] = NewServer(ask[p].game, host[p], issued + 1)]

CreateSave(p) ==
    /\ pc[p] = "createSave" /\ issued < MaxRequests   \* bound
    /\ Save(Created(p))
    /\ issued' = issued + (IF Current(snap[p]) THEN 1 ELSE 0)
    /\ drawn' = drawn \cup (IF Current(snap[p]) THEN {host[p]} ELSE {})
    /\ Return(p)
    /\ UNCHANGED <<tomb, reports, ec2, clock, faults, worker>>

-----------------------------------------------------------------------------
(* Scheduler.Action: start, stop or remove a saved server.                 *)

ActionLoad(p, s, d) ==
    /\ pc[p] = "idle" /\ issued < MaxRequests   \* bound
    /\ ~Ended(reg) /\ reg.servers[s] # None
    /\ reg.servers[s].desired = "deleted" => d = "deleted"
    /\ Goto(p, IF reg.servers[s].desired = d THEN "actionReports" ELSE "actionSave")
    /\ snap' = [snap EXCEPT ![p] = reg]
    /\ target' = [target EXCEPT ![p] = s]
    /\ want' = [want EXCEPT ![p] = d]
    /\ UNCHANGED <<table, ec2, clock, ids, faults, seen, ask, host, todo, view, worker>>

\* Repeating an intent is a new request only if the last one timed out or the
\* host has meanwhile stopped or failed the game on its own.
Restarts(v, r) ==
    \/ requestExpired(v, aged) /\ (v.desired = "running" \/ v.error)
    \/ Matches(v, r) /\ v.desired = "running" /\ (r.desired = "stopped" \/ r.phase = "failed")

ActionReports(p) ==
    /\ pc[p] = "actionReports"
    /\ IF Restarts(snap[p].servers[target[p]], Reports[target[p]])
       THEN Goto(p, "actionSave") /\ UNCHANGED <<snap, seen, target, ask, want, host, todo, view>>
       ELSE Return(p)
    /\ UNCHANGED <<table, ec2, clock, ids, faults, worker>>

ActionSave(p) ==
    /\ pc[p] = "actionSave" /\ issued < MaxRequests   \* bound
    /\ Save([snap[p] EXCEPT !.servers[target[p]] =
                [@ EXCEPT !.desired = want[p], !.req = issued + 1,
                          !.ready = FALSE, !.error = FALSE]])
    /\ issued' = issued + (IF Current(snap[p]) THEN 1 ELSE 0)
    /\ Return(p)
    /\ UNCHANGED <<tomb, reports, ec2, clock, drawn, faults, worker>>

-----------------------------------------------------------------------------
(* destroyFleetHosts: close the deployment; reconciling it away follows.   *)

DestroyLoad(p) ==
    /\ MayDestroy /\ pc[p] = "idle"
    /\ ~reg.deleting   \* bound: repeated, it only raises the revision
    /\ Goto(p, "destroySave")
    /\ snap' = [snap EXCEPT ![p] = reg]
    /\ UNCHANGED <<table, ec2, clock, ids, faults, seen, target, ask, want, host, todo, view, worker>>

DestroySave(p) ==
    /\ pc[p] = "destroySave"
    /\ Save([snap[p] EXCEPT !.deleting = TRUE])
    /\ Return(p)
    /\ UNCHANGED <<tomb, reports, ec2, clock, ids, faults, worker>>

-----------------------------------------------------------------------------
(* Scheduler.Reconcile: copy what the hosts reported, retire empty hosts,  *)
(* then drive every machine.                                               *)

ReconcileLoad(p) ==
    /\ pc[p] = "idle"
    /\ Goto(p, "reports")
    /\ snap' = [snap EXCEPT ![p] = reg]
    /\ UNCHANGED <<table, ec2, clock, ids, faults, seen, target, ask, want, host, todo, view, worker>>

ReconcileReports(p) ==
    /\ pc[p] = "reports"
    /\ Goto(p, "plan")
    /\ seen' = [seen EXCEPT ![p] = Reports]
    /\ UNCHANGED <<table, ec2, clock, ids, faults, snap, target, ask, want, host, todo, view, worker>>

\* Mutant of Dated: the deadline only closes admission.
MutDated(p) == snap[p]
\* A passed deadline is recorded as deletion of the whole deployment.
Dated(p) == [snap[p] EXCEPT !.deleting = @ \/ deadline]

Acknowledged(p) ==
    {s \in ServerIDs(snap[p]) : RemovalAcknowledged(Dated(p), snap[p].servers[s], seen[p][s])}

\* Reports with a player count no older than 45 seconds.
MaybeFresh(p) == {s \in Servers : seen[p][s] # None /\ seen[p][s].phase = "running"}

\* The walk over the servers ends at the first acknowledged removal s, after
\* having updated the servers before it.
ReconcileForget(p, s) ==
    /\ pc[p] = "plan"
    /\ s \in Acknowledged(p)
    /\ \E fresh \in SUBSET MaybeFresh(p), before \in SUBSET (ServerIDs(snap[p]) \ Acknowledged(p)) :
         Forget([Dated(p) EXCEPT !.servers = ObserveSome(Dated(p), seen[p], aged, fresh, before)], s)
    /\ Return(p)
    /\ UNCHANGED <<ec2, clock, ids, faults, worker>>

\* Retirement closes admission in the CAS that checked every deletion intent.
Planned(p, fresh) ==
    LET observed == [Dated(p) EXCEPT !.servers =
                        ObserveSome(Dated(p), seen[p], aged, fresh, Servers)]
    IN  [observed EXCEPT !.hosts = Retire(observed)]

ReconcileSave(p) ==
    /\ pc[p] = "plan" /\ Acknowledged(p) = {}
    /\ \E fresh \in SUBSET MaybeFresh(p) :
         \/ /\ Planned(p, fresh) = snap[p] \/ Current(snap[p])
            /\ IF Planned(p, fresh) = snap[p]
               THEN UNCHANGED <<reg, snap>>
               ELSE Put(Planned(p, fresh)) /\ snap' = [snap EXCEPT ![p] = reg']
            /\ todo' = [todo EXCEPT ![p] = HostIDs(snap[p])]
            /\ Goto(p, "hosts")
            /\ UNCHANGED <<seen, target, ask, want, host, view>>
         \/ /\ Planned(p, fresh) # snap[p] /\ ~Current(snap[p])
            /\ Return(p) /\ UNCHANGED reg
    /\ UNCHANGED <<tomb, reports, ec2, clock, ids, faults, worker>>

\* The loop over the hosts of the planned state, in any order.
Visit(p, h) ==
    /\ pc[p] = "hosts" /\ h \in todo[p]
    /\ todo' = [todo EXCEPT ![p] = @ \ {h}]
Needed(p, h) == ~snap[p].hosts[h].retiring /\ needed(snap[p], seen[p], aged, h)
Expired(p, h) ==
    ~snap[p].hosts[h].retiring /\ ~Needed(p, h) /\ hasExpired(snap[p], seen[p], aged, h)
\* reconcile refuses to retire a host that still has saved servers.
Retires(p, h) ==
    snap[p].hosts[h].retiring /\ (snap[p].deleting \/ ~Retained(snap[p], h))

RetireHost(p, h) ==
    /\ Visit(p, h) /\ Retires(p, h)
    /\ \/ /\ DeleteSucceeds(h, snap[p].hosts[h])
          /\ Goto(p, "forgetLoad")
          /\ host' = [host EXCEPT ![p] = h]
          /\ UNCHANGED ec2
       \/ /\ ~DeleteSucceeds(h, snap[p].hosts[h])
          /\ \E m \in Terminations(h) : machine' = [machine EXCEPT ![h] = m]
          /\ disk' = [disk EXCEPT ![h] = @ \/ machine[h] = "new"]
          /\ UNCHANGED <<pc, host>>
    /\ UNCHANGED <<table, clock, ids, faults, snap, seen, target, ask, want, view, worker>>

\* A successful Wake records the instance; a failed one marks the host.
Record(p, h, what) ==
    /\ Goto(p, "updateLoad")
    /\ host' = [host EXCEPT ![p] = h]
    /\ want' = [want EXCEPT ![p] = what]
NoteWake(p, h, ok) ==
    LET rec == snap[p].hosts[h]
    IN  IF ok /\ (~rec.instance \/ rec.error) THEN Record(p, h, "instance")
        ELSE IF ~ok /\ ~rec.error THEN Record(p, h, "error")
        ELSE UNCHANGED <<pc, host, want>>

Launch(h) ==
    /\ machine' = [machine EXCEPT ![h] = Woken(h)]
    /\ disk' = [disk EXCEPT ![h] = @ \/ machine[h] = "new"]

WakeHost(p, h) ==
    /\ Visit(p, h) /\ Needed(p, h)
    /\ LET ok == WakeSucceeds(h, snap[p].hosts[h])
       IN  /\ IF ok THEN Launch(h) ELSE UNCHANGED ec2
           /\ NoteWake(p, h, ok)
    /\ UNCHANGED <<table, clock, ids, faults, snap, seen, target, ask, view, worker>>

\* The call fails, before or after EC2 has acted on it.
WakeFails(p, h) ==
    /\ Visit(p, h) /\ Needed(p, h)
    /\ faults < MaxFaults /\ faults' = faults + 1
    /\ \/ UNCHANGED ec2
       \/ WakeSucceeds(h, snap[p].hosts[h]) /\ Launch(h)
    /\ NoteWake(p, h, FALSE)
    /\ UNCHANGED <<table, clock, ids, snap, seen, target, ask, view, worker>>

\* An unanswered start stops its host, unless the registry moved on.
ExpireHost(p, h) ==
    /\ pc[p] = "hosts" /\ h \in todo[p] /\ Expired(p, h)
    /\ IF Current(snap[p])
       THEN /\ Goto(p, "stop")
            /\ host' = [host EXCEPT ![p] = h]
            /\ todo' = [todo EXCEPT ![p] = @ \ {h}]
            /\ UNCHANGED <<snap, seen, target, ask, want, view>>
       ELSE Return(p)
    /\ UNCHANGED <<table, ec2, clock, ids, faults, worker>>

StopHost(p) ==
    /\ pc[p] = "stop"
    /\ machine' = [machine EXCEPT ![host[p]] = IF @ \in {"running", "closing", "pending"}
                                                  THEN "stopping" ELSE @]
    /\ Goto(p, "hosts")
    /\ host' = [host EXCEPT ![p] = None]
    /\ UNCHANGED <<table, disk, clock, ids, faults, snap, seen, target, ask, want, todo, view, worker>>

ReconcileDone(p) ==
    /\ pc[p] = "hosts"
    /\ \A h \in todo[p] : ~Retires(p, h) /\ ~Needed(p, h) /\ ~Expired(p, h)
    /\ Return(p)
    /\ UNCHANGED <<table, ec2, clock, ids, faults, worker>>

\* Back to the host loop, with nothing left of the nested call.
Resume(p) ==
    /\ Goto(p, "hosts")
    /\ host' = [host EXCEPT ![p] = None]
    /\ want' = [want EXCEPT ![p] = None]
    /\ view' = [view EXCEPT ![p] = EmptyState]

-----------------------------------------------------------------------------
(* Scheduler.updateHost and Scheduler.forgetHost.                          *)

UpdateLoad(p) ==
    /\ pc[p] = "updateLoad"
    /\ IF reg.hosts[host[p]] = None
       THEN Resume(p)
       ELSE /\ Goto(p, "updateSave")
            /\ view' = [view EXCEPT ![p] = reg]
            /\ UNCHANGED <<host, want>>
    /\ UNCHANGED <<table, ec2, clock, ids, faults, snap, seen, target, ask, todo, worker>>

UpdateSave(p) ==
    /\ pc[p] = "updateSave"
    /\ Save([view[p] EXCEPT !.hosts[host[p]] =
                IF want[p] = "instance" THEN [@ EXCEPT !.instance = TRUE, !.error = FALSE]
                ELSE [@ EXCEPT !.error = TRUE]])
    /\ IF Current(view[p]) THEN Resume(p) ELSE Goto(p, "updateLoad") /\ UNCHANGED <<host, want, view>>
    /\ UNCHANGED <<tomb, reports, ec2, clock, ids, faults, snap, seen, target, ask, todo, worker>>

\* Runs only after Delete observed the machine and its disks gone.
ForgetLoad(p) ==
    /\ pc[p] = "forgetLoad"
    /\ IF reg.hosts[host[p]] = None
       THEN Resume(p)
       ELSE /\ reg.hosts[host[p]].retiring
            /\ Goto(p, "forgetSave")
            /\ view' = [view EXCEPT ![p] = reg]
            /\ UNCHANGED <<host, want>>
    /\ UNCHANGED <<table, ec2, clock, ids, faults, snap, seen, target, ask, todo, worker>>

\* One server of the host leaves with its tombstone ...
ForgetServer(p, s) ==
    /\ pc[p] = "forgetSave"
    /\ s \in OnHost(view[p], host[p])
    /\ view[p].deleting \/ view[p].servers[s].desired = "deleted"
    /\ Forget(view[p], s)
    /\ IF Current(view[p])
       THEN Goto(p, "forgetLoad") /\ UNCHANGED <<snap, seen, target, ask, want, host, todo, view>>
       ELSE Return(p)
    /\ UNCHANGED <<ec2, clock, ids, faults, worker>>

\* ... and the host itself once it has none left.
ForgetHost(p) ==
    /\ pc[p] = "forgetSave"
    /\ OnHost(view[p], host[p]) = {}
    /\ Save([view[p] EXCEPT !.hosts[host[p]] = None])
    /\ IF Current(view[p]) THEN Resume(p) /\ UNCHANGED <<snap, seen, target, ask, todo>>
       ELSE Return(p)
    /\ UNCHANGED <<tomb, reports, ec2, clock, ids, faults, worker>>

\* A failed store call, a Lambda timeout or an exhausted retry loop.
Crash(p) ==
    /\ pc[p] # "idle"
    /\ faults + CrashCost <= MaxFaults /\ faults' = faults + CrashCost
    /\ Return(p)
    /\ UNCHANGED <<table, ec2, clock, ids, worker>>

-----------------------------------------------------------------------------
(* The worker of host h.  Sync loads the registry once, then handles its   *)
(* servers one by one against the local controller and publishes a report  *)
(* for each.  local[s] is the controller's instance of server s, kept on   *)
(* the disk of the host that holds it.                                     *)

Holds(h) == {s \in Servers : local[s] # None /\ local[s].host = h}

WorkerLoad(h) ==
    /\ h \in Workers /\ machine[h] \in Up
    /\ wview[h] = NoReports /\ OnHost(reg, h) # {}
    /\ reg.hosts[h] # None /\ ~reg.hosts[h].retiring /\ ~reg.deleting
    /\ wview' = [wview EXCEPT ![h] =
            [s \in Servers |-> IF s \in OnHost(reg, h) THEN reg.servers[s] ELSE None]]
    /\ UNCHANGED <<table, ec2, clock, ids, faults, calls, local>>

Report(h, v, phase, desired, error) ==
    [host |-> h, req |-> v.req, phase |-> phase, desired |-> desired, error |-> error]
\* An error while the game is still starting up is not reported; a game that
\* should run counts as starting until this worker has seen news of it.
ReportOf(h, v, i, news) ==
    Report(h, v, IF i.desired = "running" /\ ~news THEN "starting" ELSE i.phase, i.desired,
           i.error /\ (v.ready \/ i.phase # "starting"))

\* syncServer takes the next loaded server.
Takes(h, s) ==
    /\ machine[h] \in Up /\ wview[h][s] # None
    /\ wview' = [wview EXCEPT ![h][s] = None]
    /\ UNCHANGED <<reg, tomb, ec2, clock, ids, calls>>

\* BeginIdleShutdown committed: the controller refuses every further intent.
Closing(h) == machine[h] = "closing"

\* The start timed out and the game is not up: stop it and report failure.
\* (A game observed within 45 seconds counts as up.)
SyncTimeout(h, s) ==
    LET v == wview[h][s]
    IN  /\ Takes(h, s)
        /\ startupExpired(v, aged)
        /\ local[s] # None => local[s].desired # "deleted"
        /\ local' = IF local[s] = None \/ Closing(h) \/ local[s].desired = "stopped" THEN local
                    ELSE [local EXCEPT ![s].desired = "stopped", ![s].error = FALSE]
        /\ Publish(s, Report(h, v, "failed", "stopped", TRUE))

LocallyReady(v, i) ==
    i # None /\ i.req = v.req /\ i.phase = "running" /\ i.desired = "running" /\ ~i.error
SyncProceeds(v, i) == startupExpired(v, aged) => LocallyReady(v, i)

\* Nothing here to stop or remove.
SyncAbsent(h, s) ==
    LET v == wview[h][s]
    IN  /\ Takes(h, s)
        /\ local[s] = None /\ v.desired # "running"
        /\ Publish(s, Report(h, v, v.desired, v.desired, FALSE))
        /\ UNCHANGED local

\* CreateRequested / RequestDesired: accept the request with its intent.
Accepted(h, v, i) ==
    IF i = None
    THEN [host |-> h, req |-> v.req, desired |-> "running", phase |-> "starting", error |-> FALSE]
    ELSE [i EXCEPT !.req = v.req, !.desired = v.desired,
                   !.phase = IF v.desired = "running" /\ (i.desired # "running" \/ @ = "failed")
                             THEN "starting" ELSE @,
                   !.error = @ /\ i.desired = v.desired /\ v.desired = "stopped"]

\* Whether the server's request is news to the controller.
Asks(v, i) ==
    IF i = None THEN v.desired = "running"
    ELSE i.req # v.req /\ (i.desired = "deleted" => v.desired = "deleted")

\* The worker may end before it has reported what it accepted.
SyncAccept(h, s) ==
    LET v == wview[h][s]
    IN  /\ Takes(h, s) /\ SyncProceeds(v, local[s])
        /\ Asks(v, local[s]) /\ ~Closing(h)
        /\ local' = [local EXCEPT ![s] = Accepted(h, v, local[s])]
        /\ Publish(s, ReportOf(h, v, local'[s], TRUE)) \/ UNCHANGED reports

\* The controller's database fails: the request is reported as failed.
SyncFails(h, s) ==
    LET v == wview[h][s]
    IN  /\ Takes(h, s) /\ SyncProceeds(v, local[s])
        /\ Asks(v, local[s]) /\ ~Closing(h)
        /\ faults < MaxFaults /\ faults' = faults + 1
        /\ Publish(s, Report(h, v, "failed", v.desired, TRUE))
        /\ UNCHANGED local

\* ErrShuttingDown: the request waits for the next boot, nothing is reported.
SyncRefused(h, s) ==
    LET v == wview[h][s]
    IN  /\ Takes(h, s) /\ SyncProceeds(v, local[s])
        /\ Asks(v, local[s]) /\ Closing(h)
        /\ UNCHANGED <<reports, local>>

\* Report an accepted request.  (Whether a running game's observation is recent
\* enough to count as ready is decided where the report is read.)
SyncReport(h, s) ==
    LET v == wview[h][s]
    IN  /\ Takes(h, s) /\ SyncProceeds(v, local[s])
        /\ local[s] # None /\ local[s].req = v.req
        /\ \E news \in BOOLEAN : Publish(s, ReportOf(h, v, local[s], news))
        /\ UNCHANGED local

WorkerSync(h, s) ==
    \/ /\ \/ SyncTimeout(h, s) \/ SyncAbsent(h, s) \/ SyncAccept(h, s)
          \/ SyncRefused(h, s) \/ SyncReport(h, s)
       /\ UNCHANGED faults
    \/ SyncFails(h, s)

\* What the local controller promises (InstanceController): it drives the
\* instance to its desired state, stops by itself a game that is idle or has run
\* for its maximum time, and reports a game that exits; a game stopped with a
\* failing exit code keeps its error, and a failed one runs again when its agent
\* restarts it or, after a boot, its container is started anew.
Runs(s) == local[s] # None /\ machine[local[s].host] = "running"
Unsettled(s) ==
    /\ Runs(s) /\ local[s].phase # local[s].desired
    /\ ~(local[s].phase = "failed" /\ local[s].desired = "running")
ControllerSettles(s) ==
    /\ Unsettled(s)
    /\ local' = [local EXCEPT ![s].phase = local[s].desired, ![s].error = FALSE]
    /\ UNCHANGED <<table, ec2, clock, ids, faults, calls, wview>>
ControllerStopsBadly(s) ==
    /\ Unsettled(s) /\ local[s].desired = "stopped"
    /\ faults < MaxFaults /\ faults' = faults + 1
    /\ local' = [local EXCEPT ![s].phase = "stopped", ![s].error = TRUE]
    /\ UNCHANGED <<table, ec2, clock, ids, calls, wview>>
ControllerIdleStop(s) ==
    /\ Runs(s) /\ local[s].desired = "running"
    /\ local' = [local EXCEPT ![s].desired = "stopped"]
    /\ UNCHANGED <<table, ec2, clock, ids, faults, calls, wview>>
ControllerFails(s) ==
    /\ Runs(s) /\ local[s].phase \in {"starting", "running"} /\ local[s].desired = "running"
    /\ faults < MaxFaults /\ faults' = faults + 1
    /\ local' = [local EXCEPT ![s].phase = "failed", ![s].error = TRUE]
    /\ UNCHANGED <<table, ec2, clock, ids, calls, wview>>
ControllerRecovers(s) ==
    /\ Runs(s) /\ local[s].phase = "failed" /\ local[s].desired = "running"
    /\ local' = [local EXCEPT ![s].phase = "running", ![s].error = FALSE]
    /\ UNCHANGED <<table, ec2, clock, ids, faults, calls, wview>>

-----------------------------------------------------------------------------
(* Machines change state by themselves, and time passes.                   *)

Becomes(h, state) == machine' = [machine EXCEPT ![h] = state]
WorkerDies(h) == wview' = [wview EXCEPT ![h] = NoReports]

MachineListed(h) ==
    /\ machine[h] = "launching" /\ Becomes(h, "pending")
    /\ UNCHANGED <<table, disk, clock, ids, faults, calls, worker>>
\* The exit code of a container that last ran before this boot no longer counts.
MachineBoots(h) ==
    /\ machine[h] = "pending" /\ Becomes(h, "running")
    /\ local' = [s \in Servers |-> IF s \in Holds(h) /\ local[s].phase = "stopped"
                                   THEN [local[s] EXCEPT !.error = FALSE] ELSE local[s]]
    /\ UNCHANGED <<table, disk, clock, ids, faults, calls, wview>>

\* poweroffWhenIdle: every instance is at rest, and no request is waiting.
AtRest(h) ==
    \A s \in Holds(h) :
        local[s].phase = local[s].desired /\ local[s].desired # "running" /\ ~local[s].error
Pending(h) ==
    /\ ~reg.deleting
    /\ \E s \in OnHost(reg, h) :
         IF local[s] = None THEN reg.servers[s].desired = "running"
         ELSE local[s].req # reg.servers[s].req
MachinePowersOff(h) ==
    /\ machine[h] = "running" /\ AtRest(h) /\ ~Pending(h) /\ Becomes(h, "closing")
    /\ UNCHANGED <<table, disk, clock, ids, faults, calls, worker>>
MachineStops(h) ==
    /\ machine[h] \in {"stopping", "closing"} /\ Becomes(h, "stopped") /\ WorkerDies(h)
    /\ UNCHANGED <<table, disk, clock, ids, faults, calls, local>>
MachineTerminates(h) ==
    /\ machine[h] = "shutting-down" /\ Becomes(h, "terminated") /\ WorkerDies(h)
    /\ UNCHANGED <<table, disk, clock, ids, faults, calls, local>>
\* Terminated from outside, by the operator or by EC2.
MachineLost(h) ==
    /\ machine[h] \in Alive /\ Becomes(h, "terminated") /\ WorkerDies(h)
    /\ faults < MaxFaults /\ faults' = faults + 1
    /\ UNCHANGED <<table, disk, clock, ids, calls, local>>
DiskDeleted(h) ==
    /\ machine[h] \in {"terminated", "purged"} /\ disk[h]
    /\ disk' = [disk EXCEPT ![h] = FALSE]
    /\ local' = [s \in Servers |-> IF s \in Holds(h) THEN None ELSE local[s]]
    /\ UNCHANGED <<table, machine, clock, ids, faults, calls, wview>>
MachinePurged(h) ==
    /\ machine[h] = "terminated" /\ h \in Purgeable /\ Becomes(h, "purged")
    /\ UNCHANGED <<table, disk, clock, ids, faults, calls, worker>>

RequestAges ==
    /\ aged < issued /\ aged < MaxAged /\ aged' = aged + 1
    /\ UNCHANGED <<table, ec2, deadline, ids, faults, calls, worker>>
DeadlinePasses ==
    /\ HasDeadline /\ ~deadline /\ deadline' = TRUE
    /\ UNCHANGED <<table, ec2, aged, ids, faults, calls, worker>>

-----------------------------------------------------------------------------
Create(p) ==
    \/ \E s \in Servers, a \in Ask : CreateLoad(p, s, a)
    \/ CreateTombstoned(p) \/ CreateChoose(p) \/ CreateSave(p)
Action(p) ==
    \/ \E s \in Servers, d \in Intents : ActionLoad(p, s, d)
    \/ ActionReports(p) \/ ActionSave(p)
Destroy(p) == DestroyLoad(p) \/ DestroySave(p)
ReconcileHost(p) ==
    \/ \E h \in Hosts : RetireHost(p, h) \/ WakeHost(p, h) \/ ExpireHost(p, h)
    \/ StopHost(p) \/ UpdateLoad(p) \/ UpdateSave(p)
    \/ ForgetLoad(p) \/ (\E s \in Servers : ForgetServer(p, s)) \/ ForgetHost(p)
Reconcile(p) ==
    \/ ReconcileLoad(p) \/ ReconcileReports(p)
    \/ (\E s \in Servers : ReconcileForget(p, s)) \/ ReconcileSave(p)
    \/ ReconcileHost(p) \/ ReconcileDone(p)
Controller(s) ==
    \/ ControllerSettles(s) \/ ControllerStopsBadly(s) \/ ControllerIdleStop(s)
    \/ ControllerFails(s) \/ ControllerRecovers(s)
Worker(h) == WorkerLoad(h) \/ \E s \in Servers : WorkerSync(h, s)
Machine(h) ==
    MachineListed(h) \/ MachineBoots(h) \/ MachineStops(h) \/ MachineTerminates(h) \/ DiskDeleted(h)

Next ==
    \/ \E p \in Lambdas : Create(p) \/ Action(p) \/ Destroy(p) \/ Reconcile(p) \/ Crash(p)
    \/ \E p \in Lambdas, h \in Hosts : WakeFails(p, h)
    \/ \E h \in Hosts : Worker(h) \/ Machine(h) \/ MachinePowersOff(h) \/ MachineLost(h) \/ MachinePurged(h)
    \/ \E s \in Servers : Controller(s)
    \/ RequestAges \/ DeadlinePasses

Spec == Init /\ [][Next]_vars

\* The scheduled reconciler is invoked again and again and gets past every call
\* that does not crash; a request of a browser runs to its end.  Machines,
\* workers and controllers make progress while their machine runs.
Finishing(p) == pc[p] # "idle" /\ (Create(p) \/ Action(p) \/ Destroy(p))
ReconcilerFairness ==
    \A p \in Lambdas : SF_vars(Reconcile(p)) /\ WF_vars(Finishing(p))
HostFairness ==
    /\ \A h \in Hosts : WF_vars(Machine(h)) /\ WF_vars(Worker(h))
    /\ \A s \in Servers : WF_vars(ControllerSettles(s))
\* Invocations end early any number of times, but not for ever.  (A step that ends one
\* early may be one that ends it anyway.)
CrashesEnd ==
    <>[][\A p \in Lambdas : Crash(p) => Create(p) \/ Action(p) \/ Destroy(p) \/ Reconcile(p)]_vars
LiveSpec == Spec /\ ReconcilerFairness /\ HostFairness /\ CrashesEnd

-----------------------------------------------------------------------------
(* Properties.                                                             *)

TableType ==
    /\ reg \in State
    /\ tomb \subseteq Servers
    /\ reports \in [Servers -> ReportRec \cup {None}]
Ec2Type ==
    /\ machine \in [Hosts -> MachineState]
    /\ disk \in [Hosts -> BOOLEAN]
CountType ==
    /\ aged \in 0..MaxRequests /\ deadline \in BOOLEAN
    /\ issued \in 0..MaxRequests /\ drawn \subseteq Hosts /\ faults \in 0..MaxFaults
CallType ==
    /\ pc \in [Lambdas -> PC]
    /\ snap \in [Lambdas -> State]
    /\ seen \in [Lambdas -> [Servers -> ReportRec \cup {None}]]
    /\ target \in [Lambdas -> Servers \cup {None}]
    /\ ask \in [Lambdas -> Ask \cup {None}]
    /\ want \in [Lambdas -> Desired \cup {"instance", "error", None}]
    /\ host \in [Lambdas -> Hosts \cup {None}]
    /\ todo \in [Lambdas -> SUBSET Hosts]
    /\ view \in [Lambdas -> State]
WorkerType ==
    /\ wview \in [Hosts -> [Servers -> ServerRec \cup {None}]]
    /\ local \in [Servers -> InstanceRec \cup {None}]

\* Every variable holds a value of its kind.
TypeOK == TableType /\ Ec2Type /\ CountType /\ CallType /\ WorkerType

\* Saved data is never destroyed without consent: a machine the scheduler
\* terminates belongs to a host that has left the registry or is retiring, and
\* a retiring host has no server its user still wants, unless the whole
\* deployment is being deleted (reconcile, "Retirement closes admission in the
\* same CAS that checked deletion intent"; forgetHost).
NoDataLoss ==
    \A h \in HostIDs(reg) :
        /\ machine[h] = "shutting-down" => reg.hosts[h].retiring
        /\ reg.hosts[h].retiring =>
             \A s \in OnHost(reg, h) : reg.deleting \/ reg.servers[s].desired = "deleted"

\* A removed server never comes back: once its tombstone is written its ID is
\* not in the registry and no report of it is kept, however late a worker
\* publishes or a Create commits (Table.Forget, Table.Publish, Create).
NoResurrection ==
    \A s \in tomb : reg.servers[s] = None /\ reports[s] = None

\* A host leaves the registry only after its machine, even one whose launch
\* was never acknowledged, is terminated for good and its disks are deleted;
\* nobody can start it again (EC2.Delete, forgetHost).
NoLeakedMachine ==
    \A h \in drawn \ HostIDs(reg) : machine[h] \in {"terminated", "purged"} /\ ~disk[h]

\* A forgotten server left no data behind: its host removed the instance, or
\* the host's disk is gone or going.
NoOrphanedData ==
    \A s \in tomb :
        local[s] # None =>
            \/ local[s].phase = "deleted"
            \/ machine[local[s].host] \in {"shutting-down", "terminated", "purged"}

Housed == \A s \in ServerIDs(reg) : reg.servers[s].host \in HostIDs(reg)
WithinCapacity ==
    \A h \in HostIDs(reg), d \in Dims : used(reg, h)[d] <= Capacity[reg.hosts[h].release][d]
WithinLimits == Cardinality(HostIDs(reg)) <= MaxHosts /\ Cardinality(ServerIDs(reg)) <= MaxServers
\* Every saved server lives on a host of the registry, within that host's
\* capacity in every dimension, and the fleet within its configured limits,
\* whatever Creates and retirements race (Create, choose, forgetHost).
Placement == Housed /\ WithinCapacity /\ WithinLimits

\* What a write of the registry may never do to a server it keeps: move it to
\* another host, take back a removal, reuse or step back to an older request.
IntentMoves ==
    \A s \in Servers :
        LET old == reg.servers[s] new == reg.servers'[s]
        IN  old # None /\ new # None =>
                /\ new.host = old.host /\ new.game = old.game
                /\ old.desired = "deleted" => new.desired = "deleted"
                /\ new.req >= old.req
IntentIsDurable == [][IntentMoves]_reg

\* A request the user did not repeat changes from running to stopped only if
\* its own host accepted that very request and has since stopped the game: the
\* report of an earlier request never stops a later start (reconcile).
IdleStopMoves ==
    \A s \in Servers :
        LET old == reg.servers[s] new == reg.servers'[s]
        IN  old # None /\ new # None /\ old.req = new.req /\ old.desired # new.desired =>
                /\ local[s] # None => local[s].req = old.req /\ local[s].desired = "stopped"
                /\ local[s] = None => machine[old.host] \in {"terminated", "purged"}
IdleStopIsOwn == [][IdleStopMoves]_reg

\* A request to run the server that its host has not accepted, which is neither timed
\* out nor given to a machine that is lost for good.
Waits(s) ==
    /\ reg.servers[s] # None /\ reg.servers[s].desired = "running"
    /\ reg.servers[s].req > aged /\ machine[reg.servers[s].host] # "terminated"
    /\ local[s] = None \/ local[s].req # reg.servers[s].req
\* A start is never lost between the registry and its host: it does not wait for ever,
\* although hosts power themselves off when idle, reconcile stops the host of a start that
\* timed out while its user starts again, and invocations end anywhere on the way
\* (Reconcile, EC2.Wake, Sync).
StartIsServed == \A s \in Servers : []<>~Waits(s)

\* A removal that is under way: one that timed out on a host with servers to keep has
\* failed and needs the user's retry; on a host with none it goes on.
Going(s) ==
    /\ reg.servers[s] # None /\ reg.servers[s].desired = "deleted"
    /\ ~(requestExpired(reg.servers[s], aged) /\ Retained(reg, reg.servers[s].host))

\* The deadline ends the deployment for good: whatever was being created, woken
\* or retired when it passed, in the end every machine is terminated with its
\* disk, the registry holds no host, and nothing comes back (reconcile, Create).
Over == HostIDs(reg) = {} /\ \A h \in Hosts : machine[h] \in {"new", "terminated", "purged"} /\ ~disk[h]
DeadlineEnds == <>[](deadline => Over)
=============================================================================

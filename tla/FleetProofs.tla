---------------------------- MODULE FleetProofs -----------------------------
(***************************************************************************)
(* The safety of FleetScheduler, for every set of servers, hosts, games,   *)
(* releases and concurrent invocations and for every bound: its types, then*)
(* NoDataLoss, NoResurrection and NoLeakedMachine, and last Placement,     *)
(* IntentIsDurable, NoOrphanedData and IdleStopIsOwn.  Each part rests on  *)
(* the invariant of the one before it.                                     *)
(***************************************************************************)
EXTENDS FleetScheduler, FiniteSetTheorems, TLAPS

-----------------------------------------------------------------------------
(***************************************************************************)
(* Type correctness of FleetScheduler, for every set of servers, hosts,    *)
(* games, releases and concurrent invocations and for every bound.         *)
(*                                                                         *)
(* TypeOK alone is not inductive: a Save writes what an invocation has put *)
(* into its own variables, so CallOK says which of them are set at which   *)
(* point of which operation.                                               *)
(***************************************************************************)

HostLoop == {"hosts", "stop", "updateLoad", "updateSave", "forgetLoad", "forgetSave"}

\* What each point of an invocation knows of its own arguments.
CallOK ==
    \A p \in Lambdas :
        /\ pc[p] \in {"tombstoned", "choose", "createSave"} =>
             /\ target[p] \in Servers /\ ask[p] \in Ask
             /\ snap[p].servers[target[p]] = None
        /\ pc[p] \in {"actionReports", "actionSave"} =>
             /\ target[p] \in Servers /\ want[p] \in Desired
             /\ snap[p].servers[target[p]] # None
             /\ snap[p].servers[target[p]].desired = "deleted" => want[p] = "deleted"
        /\ pc[p] \in {"createSave", "stop", "updateLoad", "updateSave", "forgetLoad", "forgetSave"} =>
             host[p] \in Hosts
        /\ pc[p] = "updateSave" => view[p].hosts[host[p]] # None
        /\ IF pc[p] \in HostLoop THEN todo[p] \subseteq HostIDs(snap[p]) ELSE todo[p] = {}

-----------------------------------------------------------------------------
(* The registry operators keep the registry well typed.                    *)

\* The zero State is a State.
LEMMA EmptyStateType == EmptyState \in State
BY DEF EmptyState, State

\* Replacing one server or one host, ending the deployment and bumping the
\* revision keep a State a State (the edits Create, Action, updateHost, ... make).
LEMMA EditTypes ==
    ASSUME NEW st \in State
    PROVE  /\ \A s \in Servers, v \in ServerRec \cup {None} : [st EXCEPT !.servers[s] = v] \in State
           /\ \A h \in Hosts, v \in HostRec \cup {None} : [st EXCEPT !.hosts[h] = v] \in State
           /\ \A b \in BOOLEAN : [st EXCEPT !.deleting = b] \in State
           /\ [st EXCEPT !.rev = st.rev + 1] \in State
BY DEF State

\* What reconcile makes of a server is a server.
LEMMA ObserveType ==
    ASSUME NEW st \in State, NEW v \in ServerRec, NEW r \in ReportRec \cup {None},
           NEW n \in Nat, NEW fresh \in BOOLEAN
    PROVE  /\ Observe(st, v, r, n, fresh) \in ServerRec
           /\ Observe(st, v, r, n, fresh).host = v.host
           /\ Observe(st, v, r, n, fresh).desired # v.desired => ~st.deleting /\ v.desired = "running"
<1> DEFINE ready == \/ v.ready
                    \/ /\ v.desired = "running" /\ fresh
                       /\ Matches(v, r) /\ ~r.error
                       /\ r.desired = "running" /\ r.phase = "running"
           seenReady == [v EXCEPT !.ready = ready]
           idled == /\ ~st.deleting
                    /\ Matches(v, r) /\ ~r.error
                    /\ v.desired = "running" /\ r.desired = "stopped" /\ r.phase = "stopped"
           failed == Failed(seenReady, r, n)
<1>1. ready \in BOOLEAN /\ idled \in BOOLEAN /\ failed \in BOOLEAN /\ st.deleting \in BOOLEAN
  BY DEF State, ServerRec, Matches, Failed, startupExpired
<1>2. Observe(st, v, r, n, fresh) =
        [seenReady EXCEPT !.error = IF st.deleting THEN v.error ELSE failed,
                          !.desired = IF idled THEN "stopped" ELSE v.desired]
  BY DEF Observe
<1> HIDE DEF ready, idled, failed
<1>3. seenReady \in ServerRec /\ seenReady.host = v.host /\ seenReady.desired = v.desired
  BY <1>1 DEF ServerRec
<1>4. idled => ~st.deleting /\ v.desired = "running"
  BY DEF idled
<1> HIDE DEF seenReady
<1> QED
  BY <1>1, <1>2, <1>3, <1>4 DEF ServerRec, Desired

\* What reconcile makes of any part of the servers is well typed.
LEMMA ObserveSomeType ==
    ASSUME NEW st \in State, NEW sn \in [Servers -> ReportRec \cup {None}],
           NEW n \in Nat, NEW fresh, NEW some
    PROVE  /\ ObserveSome(st, sn, n, fresh, some) \in [Servers -> ServerRec \cup {None}]
           /\ \A s \in Servers :
                LET old == st.servers[s] new == ObserveSome(st, sn, n, fresh, some)[s]
                IN  /\ old = None <=> new = None
                    /\ old # None => new.host = old.host
                    /\ old # None /\ new.desired # old.desired => ~st.deleting /\ old.desired = "running"
<1> DEFINE f == ObserveSome(st, sn, n, fresh, some)
<1> SUFFICES ASSUME NEW s \in Servers
    PROVE  LET old == st.servers[s] new == f[s]
           IN  /\ new \in ServerRec \cup {None}
               /\ old = None <=> new = None
               /\ old # None => new.host = old.host
               /\ old # None /\ new.desired # old.desired => ~st.deleting /\ old.desired = "running"
  BY DEF ObserveSome
<1>1. f[s] = IF st.servers[s] # None /\ s \in some
             THEN Observe(st, st.servers[s], sn[s], n, s \in fresh) ELSE st.servers[s]
  BY DEF ObserveSome
<1>2. st.servers[s] \in ServerRec \cup {None}
  BY DEF State
<1> HIDE DEF f
<1>3. CASE st.servers[s] # None /\ s \in some
  <2> DEFINE new(b) == Observe(st, st.servers[s], sn[s], n, b)
  <2>1. st.servers[s] \in ServerRec /\ sn[s] \in ReportRec \cup {None}
    BY <1>2, <1>3
  <2>3. \A b \in BOOLEAN :
        /\ new(b) \in ServerRec
        /\ new(b).host = st.servers[s].host
        /\ new(b).desired # st.servers[s].desired => ~st.deleting /\ st.servers[s].desired = "running"
    BY <2>1, ObserveType
  <2>4. f[s] = new(s \in fresh)
    BY <1>1, <1>3
  <2> HIDE DEF new
  <2>2. /\ f[s] \in ServerRec
        /\ f[s].host = st.servers[s].host
        /\ f[s].desired # st.servers[s].desired => ~st.deleting /\ st.servers[s].desired = "running"
    BY <2>3, <2>4, (s \in fresh) \in BOOLEAN
  <2> QED
    BY <1>3, <2>1, <2>2, NoneAssumption
<1>4. CASE ~(st.servers[s] # None /\ s \in some)
  BY <1>1, <1>2, <1>4
<1> QED
  BY <1>3, <1>4

-----------------------------------------------------------------------------
(* Type correctness.                                                       *)

\* Ending an invocation leaves its variables well typed.
LEMMA ReturnType ==
    ASSUME CallType, NEW p \in Lambdas, Return(p)
    PROVE  CallType'
BY EmptyStateType DEF CallType, Return, PC, NoReports

Typed == TypeOK /\ CallOK

\* The empty registry, no machine and idle invocations are well typed.
LEMMA TypedInit == Init => Typed
<1> SUFFICES ASSUME Init PROVE Typed
  OBVIOUS
<1>1. TypeOK
  <2>1. TableType /\ Ec2Type /\ WorkerType
    BY EmptyStateType DEF Init, TableType, Ec2Type, WorkerType, NoReports, MachineState
  <2>2. CountType
    <3>1. 0 \in 0..MaxRequests /\ 0 \in 0..MaxFaults
      BY ConfigAssumption, BoundsAssumption
    <3> QED
      BY <3>1, Zenon DEF Init, CountType
  <2>3. CallType
    BY EmptyStateType DEF Init, CallType, NoReports, PC
  <2> QED
    BY <2>1, <2>2, <2>3 DEF TypeOK
<1>2. CallOK
  BY DEF Init, CallOK, HostLoop
<1> QED
  BY <1>1, <1>2 DEF Typed

\* The steps of Create.
LEMMA CreateTyped ==
    ASSUME Typed, NEW p \in Lambdas, Create(p)
    PROVE  Typed'
<1> USE DEF Typed, TypeOK
<1>1. ASSUME NEW s \in Servers, NEW a \in Ask, CreateLoad(p, s, a) PROVE Typed'
  <2> USE <1>1 DEF CreateLoad, table, ec2, clock, ids, worker
  <2>1. TableType' /\ Ec2Type' /\ CountType' /\ WorkerType'
    BY DEF TableType, Ec2Type, CountType, WorkerType
  <2>2. CallType'
    BY DEF CallType, TableType, Goto, PC
  <2>3. CallOK'
    BY DEF CallOK, CallType, Goto, PC, HostLoop
  <2> QED
    BY <2>1, <2>2, <2>3
<1>2. ASSUME CreateTombstoned(p) PROVE Typed'
  <2> USE <1>2 DEF CreateTombstoned, table, ec2, clock, ids, worker
  <2>1. TableType' /\ Ec2Type' /\ CountType' /\ WorkerType'
    BY DEF TableType, Ec2Type, CountType, WorkerType
  <2>2. CallType'
    BY ReturnType DEF CallType, TableType, Goto, PC
  <2>3. CallOK'
    BY DEF CallOK, CallType, Goto, Return, PC, HostLoop
  <2> QED
    BY <2>1, <2>2, <2>3
<1>3. ASSUME CreateChoose(p) PROVE Typed'
  <2> USE <1>3 DEF CreateChoose, table, ec2, clock, ids, worker
  <2>1. TableType' /\ Ec2Type' /\ WorkerType'
    BY DEF TableType, Ec2Type, WorkerType
  <2>4. CountType'
    <3>1. PICK failed \in SUBSET HostIDs(snap[p]) :
            faults + Cardinality(failed) <= MaxFaults /\ faults' = faults + Cardinality(failed)
      OBVIOUS
    <3>2. Cardinality(failed) \in Nat
      BY <3>1, ConfigAssumption, FS_Subset, FS_CardinalityType DEF HostIDs
    <3> QED
      BY <3>1, <3>2 DEF CountType
  <2>6. pc[p] = "choose"
    OBVIOUS
  <2>5. \/ Return(p)
        \/ /\ \E h \in Hosts : host' = [host EXCEPT ![p] = h]
           /\ Goto(p, "createSave")
           /\ UNCHANGED <<snap, seen, target, ask, want, todo, view>>
    BY DEF BestHosts, Candidates, HostIDs
  <2> HIDE <1>3 DEF CreateChoose
  <2>2. CallType'
    BY <2>5, ReturnType DEF CallType, Goto, PC
  <2>3. CallOK'
    BY <2>5, <2>6 DEF CallOK, CallType, Goto, Return, PC, HostLoop
  <2> QED
    BY <2>1, <2>2, <2>3, <2>4
<1>4. ASSUME CreateSave(p) PROVE Typed'
  <2> USE <1>4 DEF CreateSave, table, ec2, clock, ids, worker
  <2>1. Ec2Type' /\ WorkerType'
    BY DEF Ec2Type, WorkerType
  <2>2. CountType'
    <3>1. issued' \in 0..MaxRequests
      BY ConfigAssumption DEF CountType
    <3>2. drawn' \subseteq Hosts
      BY DEF CountType, CallOK
    <3> QED
      BY <3>1, <3>2 DEF CountType
  <2>3. CallType'
    BY ReturnType
  <2>4. CallOK'
    BY DEF CallOK, CallType, Return, PC, HostLoop
  <2>5. TableType'
    <3>1. Created(p) \in State
      <4>1. snap[p] \in State /\ host[p] \in Hosts /\ target[p] \in Servers /\ ask[p] \in Ask
        BY DEF CallOK, CallType
      <4>2. NewHost(ask[p].release) \in HostRec /\ NewServer(ask[p].game, host[p], issued + 1) \in ServerRec
        BY <4>1, ConfigAssumption DEF NewHost, NewServer, HostRec, ServerRec, Ask, CountType, Requests, Desired
      <4> QED
        BY <4>1, <4>2 DEF Created, State
    <3> QED
      BY <3>1, EditTypes DEF TableType, Save, Put
  <2> QED
    BY <2>1, <2>2, <2>3, <2>4, <2>5
<1> QED
  BY <1>1, <1>2, <1>3, <1>4 DEF Create

\* What a server walk of reconcile leaves in place, and what it may change.
Observed(old, new) ==
    \A s \in Servers :
        /\ old.servers[s] = None <=> new.servers[s] = None
        /\ old.servers[s] # None =>
             /\ new.servers[s].host = old.servers[s].host
             /\ new.servers[s].desired # old.servers[s].desired =>
                    ~new.deleting /\ old.servers[s].desired = "running"

\* The server walk over any part of the servers: a State with the same hosts.
LEMMA WalkType ==
    ASSUME Typed, NEW p \in Lambdas, NEW fresh, NEW some
    PROVE  LET st == [Dated(p) EXCEPT !.servers = ObserveSome(Dated(p), seen[p], aged, fresh, some)]
           IN  /\ st \in State
               /\ Observed(snap[p], st)
               /\ st.rev = snap[p].rev /\ st.hosts = snap[p].hosts
               /\ snap[p].deleting => st.deleting
<1>1. /\ snap[p] \in State /\ seen[p] \in [Servers -> ReportRec \cup {None}]
      /\ aged \in Nat /\ deadline \in BOOLEAN
  BY ConfigAssumption DEF Typed, TypeOK, CallType, CountType
<1> DEFINE ended == snap[p].deleting \/ deadline
           d == Dated(p)
           sv == ObserveSome(d, seen[p], aged, fresh, some)
<1>2. ended \in BOOLEAN /\ (snap[p].deleting => ended)
  BY <1>1 DEF State
<1>3. d = [snap[p] EXCEPT !.deleting = ended]
  BY <1>1 DEF Dated, State
<1> HIDE DEF ended, d
<1>4. d \in State /\ d.rev = snap[p].rev /\ d.hosts = snap[p].hosts /\ d.servers = snap[p].servers
      /\ (snap[p].deleting => d.deleting)
  BY <1>1, <1>2, <1>3 DEF State
<1>5. /\ sv \in [Servers -> ServerRec \cup {None}]
      /\ \A s \in Servers :
            /\ d.servers[s] = None <=> sv[s] = None
            /\ d.servers[s] # None => sv[s].host = d.servers[s].host
            /\ d.servers[s] # None /\ sv[s].desired # d.servers[s].desired =>
                 ~d.deleting /\ d.servers[s].desired = "running"
  BY <1>1, <1>4, ObserveSomeType
<1> HIDE DEF sv
<1>6. LET st == [d EXCEPT !.servers = sv]
      IN  /\ st \in State
          /\ Observed(snap[p], st)
          /\ st.rev = snap[p].rev /\ st.hosts = snap[p].hosts
          /\ snap[p].deleting => st.deleting
  BY <1>4, <1>5 DEF State, Observed
<1> QED
  BY <1>6 DEF sv, d

\* Retire only marks hosts, exactly those with no server left to keep.
LEMMA RetireType ==
    ASSUME NEW st \in State
    PROVE  /\ Retire(st) \in [Hosts -> HostRec \cup {None}]
           /\ \A h \in Hosts :
                /\ Retire(st)[h] = None <=> st.hosts[h] = None
                /\ st.hosts[h] # None =>
                     /\ Retire(st)[h].instance = st.hosts[h].instance
                     /\ Retire(st)[h].retiring <=>
                          st.hosts[h].retiring \/ st.deleting \/ ~Retained(st, h)
BY NoneAssumption DEF Retire, State, HostRec

\* The state reconcile saves before it drives the machines: the hosts of the
\* snapshot, those retiring that were or that no server keeps.
LEMMA PlannedType ==
    ASSUME Typed, NEW p \in Lambdas, NEW fresh
    PROVE  LET st == Planned(p, fresh)
           IN  /\ st \in State
               /\ Observed(snap[p], st)
               /\ st.rev = snap[p].rev /\ HostIDs(st) = HostIDs(snap[p])
               /\ snap[p].deleting => st.deleting
               /\ \A h \in HostIDs(st) :
                    /\ st.hosts[h].instance = snap[p].hosts[h].instance
                    /\ st.hosts[h].retiring <=>
                         snap[p].hosts[h].retiring \/ st.deleting \/ ~Retained(st, h)
<1> DEFINE o == [Dated(p) EXCEPT !.servers = ObserveSome(Dated(p), seen[p], aged, fresh, Servers)]
           st == [o EXCEPT !.hosts = Retire(o)]
<1>1. /\ o \in State /\ Observed(snap[p], o) /\ o.rev = snap[p].rev /\ o.hosts = snap[p].hosts
      /\ snap[p].deleting => o.deleting
  BY WalkType
<1>2. Planned(p, fresh) = st
  BY DEF Planned
<1> HIDE DEF o
<1>3. /\ Retire(o) \in [Hosts -> HostRec \cup {None}]
      /\ \A h \in Hosts :
           /\ Retire(o)[h] = None <=> o.hosts[h] = None
           /\ o.hosts[h] # None =>
                /\ Retire(o)[h].instance = o.hosts[h].instance
                /\ Retire(o)[h].retiring <=> o.hosts[h].retiring \/ o.deleting \/ ~Retained(o, h)
  BY <1>1, RetireType
<1>4. st \in State /\ st.rev = o.rev /\ st.deleting = o.deleting /\ st.servers = o.servers /\ st.hosts = Retire(o)
  BY <1>1, <1>3 DEF State
<1>5. \A h \in Hosts : Retained(o, h) <=> Retained(st, h)
  BY <1>4 DEF Retained, OnHost, ServerIDs
<1>6. Observed(snap[p], st)
  BY <1>1, <1>4 DEF Observed
<1> HIDE DEF st
<1>7. HostIDs(st) = HostIDs(snap[p])
  BY <1>1, <1>3, <1>4 DEF HostIDs
<1>8. \A h \in HostIDs(st) :
        /\ st.hosts[h].instance = snap[p].hosts[h].instance
        /\ st.hosts[h].retiring <=> snap[p].hosts[h].retiring \/ st.deleting \/ ~Retained(st, h)
  BY <1>1, <1>3, <1>4, <1>5 DEF HostIDs
<1> QED
  BY <1>1, <1>2, <1>4, <1>6, <1>7, <1>8

\* The steps of Action and destroyFleetHosts.
LEMMA ActionTyped ==
    ASSUME Typed, NEW p \in Lambdas, Action(p) \/ Destroy(p) \/ Crash(p)
    PROVE  Typed'
<1> USE DEF Typed, TypeOK, table, ec2, clock, ids, worker
<1>1. ASSUME NEW s \in Servers, NEW d \in Intents, ActionLoad(p, s, d) PROVE Typed'
  <2> USE <1>1 DEF ActionLoad
  <2>1. TableType' /\ Ec2Type' /\ CountType' /\ WorkerType'
    BY DEF TableType, Ec2Type, CountType, WorkerType
  <2>2. CallType'
    BY BoundsAssumption DEF CallType, TableType, Goto, PC
  <2>3. CallOK'
    BY BoundsAssumption DEF CallOK, CallType, Goto, PC, HostLoop
  <2> QED
    BY <2>1, <2>2, <2>3
<1>2. ASSUME ActionReports(p) PROVE Typed'
  <2> USE <1>2 DEF ActionReports
  <2>1. TableType' /\ Ec2Type' /\ CountType' /\ WorkerType'
    BY DEF TableType, Ec2Type, CountType, WorkerType
  <2>2. CallType'
    BY ReturnType DEF CallType, Goto, PC
  <2>3. CallOK'
    BY DEF CallOK, CallType, Goto, Return, PC, HostLoop
  <2> QED
    BY <2>1, <2>2, <2>3
<1>3. ASSUME ActionSave(p) PROVE Typed'
  <2> USE <1>3 DEF ActionSave
  <2>1. Ec2Type' /\ WorkerType'
    BY DEF Ec2Type, WorkerType
  <2>2. CountType'
    <3>1. issued' \in 0..MaxRequests
      BY ConfigAssumption DEF CountType
    <3> QED
      BY <3>1 DEF CountType
  <2>3. CallType'
    BY ReturnType
  <2>4. CallOK'
    BY DEF CallOK, CallType, Return, PC, HostLoop
  <2>5. TableType'
    <3> DEFINE v == [snap[p].servers[target[p]] EXCEPT
                        !.desired = want[p], !.req = issued + 1, !.ready = FALSE, !.error = FALSE]
               st == [snap[p] EXCEPT !.servers[target[p]] = v]
    <3>1. snap[p] \in State /\ target[p] \in Servers /\ want[p] \in Desired
          /\ snap[p].servers[target[p]] \in ServerRec
      BY DEF CallOK, CallType, State
    <3>2. issued + 1 \in Requests
      BY ConfigAssumption DEF CountType, Requests
    <3>3. v \in ServerRec
      BY <3>1, <3>2 DEF ServerRec
    <3>4. Save(st)
      BY DEF State
    <3> HIDE DEF v
    <3>5. st \in State
      BY <3>1, <3>3, EditTypes
    <3> QED
      BY <3>4, <3>5, EditTypes DEF TableType, Save, Put
  <2> QED
    BY <2>1, <2>2, <2>3, <2>4, <2>5
<1>4. ASSUME DestroyLoad(p) PROVE Typed'
  <2> USE <1>4 DEF DestroyLoad
  <2>1. TableType' /\ Ec2Type' /\ CountType' /\ WorkerType'
    BY DEF TableType, Ec2Type, CountType, WorkerType
  <2>2. CallType'
    BY DEF CallType, TableType, Goto, PC
  <2>3. CallOK'
    BY DEF CallOK, CallType, Goto, PC, HostLoop
  <2> QED
    BY <2>1, <2>2, <2>3
<1>5. ASSUME DestroySave(p) PROVE Typed'
  <2> USE <1>5 DEF DestroySave
  <2>1. Ec2Type' /\ CountType' /\ WorkerType'
    BY DEF Ec2Type, CountType, WorkerType
  <2>2. CallType'
    BY ReturnType
  <2>3. CallOK'
    BY DEF CallOK, CallType, Return, PC, HostLoop
  <2>4. TableType'
    <3>1. [snap[p] EXCEPT !.deleting = TRUE] \in State
      BY EditTypes DEF CallType
    <3> QED
      BY <3>1, EditTypes DEF TableType, Save, Put
  <2> QED
    BY <2>1, <2>2, <2>3, <2>4
<1>6. ASSUME Crash(p) PROVE Typed'
  <2> USE <1>6 DEF Crash
  <2>1. TableType' /\ Ec2Type' /\ WorkerType'
    BY DEF TableType, Ec2Type, WorkerType
  <2>2. CountType'
    <3>1. faults' \in 0..MaxFaults
      BY BoundsAssumption DEF CountType
    <3> QED
      BY <3>1 DEF CountType
  <2>3. CallType'
    BY ReturnType
  <2>4. CallOK'
    BY DEF CallOK, CallType, Return, PC, HostLoop
  <2> QED
    BY <2>1, <2>2, <2>3, <2>4
<1> QED
  BY <1>1, <1>2, <1>3, <1>4, <1>5, <1>6 DEF Action, Destroy

\* Loading, copying reports, forgetting and saving in reconcile.
LEMMA PlanTyped ==
    ASSUME Typed, NEW p \in Lambdas,
           \/ ReconcileLoad(p) \/ ReconcileReports(p)
           \/ (\E s \in Servers : ReconcileForget(p, s)) \/ ReconcileSave(p) \/ ReconcileDone(p)
    PROVE  Typed'
<1> USE DEF Typed, TypeOK, table, ec2, clock, ids, worker
<1>1. ASSUME ReconcileLoad(p) PROVE Typed'
  <2> USE <1>1 DEF ReconcileLoad
  <2>1. TableType' /\ Ec2Type' /\ CountType' /\ WorkerType'
    BY DEF TableType, Ec2Type, CountType, WorkerType
  <2>2. CallType'
    BY DEF CallType, TableType, Goto, PC
  <2>3. CallOK'
    BY DEF CallOK, CallType, Goto, PC, HostLoop
  <2> QED
    BY <2>1, <2>2, <2>3
<1>2. ASSUME ReconcileReports(p) PROVE Typed'
  <2> USE <1>2 DEF ReconcileReports
  <2>1. TableType' /\ Ec2Type' /\ CountType' /\ WorkerType'
    BY DEF TableType, Ec2Type, CountType, WorkerType
  <2>2. Reports \in [Servers -> ReportRec \cup {None}]
    BY DEF Reports, TableType
  <2>3. CallType'
    BY <2>2 DEF CallType, Goto, PC
  <2>4. CallOK'
    BY DEF CallOK, CallType, Goto, PC, HostLoop
  <2> QED
    BY <2>1, <2>3, <2>4
<1>3. ASSUME NEW s \in Servers, ReconcileForget(p, s) PROVE Typed'
  <2> USE <1>3 DEF ReconcileForget
  <2>1. Ec2Type' /\ CountType' /\ WorkerType'
    BY DEF Ec2Type, CountType, WorkerType
  <2>2. CallType'
    BY ReturnType
  <2>3. CallOK'
    BY DEF CallOK, CallType, Return, PC, HostLoop
  <2>4. PICK fresh, before :
          Forget([Dated(p) EXCEPT !.servers = ObserveSome(Dated(p), seen[p], aged, fresh, before)], s)
    OBVIOUS
  <2> DEFINE st == [Dated(p) EXCEPT !.servers = ObserveSome(Dated(p), seen[p], aged, fresh, before)]
             cut == [st EXCEPT !.servers[s] = None]
  <2>5. st \in State
    BY WalkType
  <2> HIDE DEF st
  <2>6. cut \in State
    BY <2>5, EditTypes
  <2>7. TableType'
    <3>1. Forget(st, s)
      BY <2>4 DEF st
    <3> QED
      BY <2>6, <3>1, EditTypes DEF TableType, Forget, Put
  <2> QED
    BY <2>1, <2>2, <2>3, <2>7
<1>4. ASSUME ReconcileSave(p) PROVE Typed'
  <2>1. Ec2Type' /\ CountType' /\ WorkerType' /\ UNCHANGED <<tomb, reports>> /\ pc[p] = "plan"
    BY <1>4 DEF ReconcileSave, Ec2Type, CountType, WorkerType
  <2>2. PICK fresh :
         \/ /\ Planned(p, fresh) = snap[p] \/ Current(snap[p])
            /\ IF Planned(p, fresh) = snap[p]
               THEN UNCHANGED <<reg, snap>>
               ELSE Put(Planned(p, fresh)) /\ snap' = [snap EXCEPT ![p] = reg']
            /\ todo' = [todo EXCEPT ![p] = HostIDs(snap[p])]
            /\ Goto(p, "hosts")
            /\ UNCHANGED <<seen, target, ask, want, host, view>>
         \/ /\ Planned(p, fresh) # snap[p] /\ ~Current(snap[p])
            /\ Return(p) /\ UNCHANGED reg
    BY <1>4 DEF ReconcileSave
  <2> DEFINE st == Planned(p, fresh)
             put == [st EXCEPT !.rev = st.rev + 1]
  <2>3. st \in State /\ HostIDs(st) = HostIDs(snap[p])
    BY PlannedType
  <2> HIDE DEF st
  <2>4. put \in State /\ HostIDs(put) = HostIDs(snap[p])
    BY <2>3, EditTypes DEF HostIDs, State
  <2>5. \/ reg' = reg
        \/ reg' = put
    BY <2>2 DEF Put, st
  <2>6. TableType'
    BY <2>1, <2>4, <2>5 DEF TableType
  <2>7. CASE Return(p)
    <3>1. CallType'
      BY <2>7, ReturnType
    <3>2. CallOK'
      BY <2>7 DEF CallOK, CallType, Return, PC, HostLoop
    <3> QED
      BY <2>1, <2>6, <3>1, <3>2
  <2>8. CASE /\ (snap' = snap \/ (reg' = put /\ snap' = [snap EXCEPT ![p] = put]))
             /\ todo' = [todo EXCEPT ![p] = HostIDs(snap[p])]
             /\ Goto(p, "hosts")
             /\ UNCHANGED <<seen, target, ask, want, host, view>>
    <3> HIDE DEF put
    <3>1. HostIDs(snap[p]) \subseteq Hosts
      BY DEF HostIDs
    <3>2. CallType'
      BY <2>4, <2>8, <3>1 DEF CallType, Goto, PC
    <3>3. CallOK'
      <4> SUFFICES ASSUME NEW q \in Lambdas, q = p
                   PROVE  HostIDs(snap[p]) \subseteq HostIDs(snap'[p])
        BY <2>8 DEF CallOK, CallType, Goto, PC, HostLoop
      <4> QED
        BY <2>4, <2>8 DEF CallType
    <3> QED
      BY <2>1, <2>6, <3>2, <3>3
  <2> QED
    BY <2>2, <2>7, <2>8 DEF st, Put
<1>5. ASSUME ReconcileDone(p) PROVE Typed'
  <2> USE <1>5 DEF ReconcileDone
  <2>1. TableType' /\ Ec2Type' /\ CountType' /\ WorkerType'
    BY DEF TableType, Ec2Type, CountType, WorkerType
  <2>2. CallType'
    BY ReturnType
  <2>3. CallOK'
    BY DEF CallOK, CallType, Return, PC, HostLoop
  <2> QED
    BY <2>1, <2>2, <2>3
<1> QED
  BY <1>1, <1>2, <1>3, <1>4, <1>5

\* Visiting a host takes it off the list of hosts to visit.
LEMMA VisitType ==
    ASSUME CallType, NEW p \in Lambdas, NEW h, todo' = [todo EXCEPT ![p] = @ \ {h}]
    PROVE  todo' \in [Lambdas -> SUBSET Hosts]
<1>1. todo[p] \ {h} \in SUBSET Hosts
  BY DEF CallType
<1> QED
  BY <1>1 DEF CallType

\* The machine calls of reconcile's host loop.
LEMMA DriveTyped ==
    ASSUME Typed, NEW p \in Lambdas,
           \/ \E h \in Hosts : RetireHost(p, h) \/ WakeHost(p, h) \/ ExpireHost(p, h) \/ WakeFails(p, h)
           \/ StopHost(p)
    PROVE  Typed'
<1> USE DEF Typed, TypeOK, table, ec2, clock, ids, worker
<1>1. ASSUME NEW h \in Hosts, RetireHost(p, h) PROVE Typed'
  <2> USE <1>1 DEF RetireHost, Visit
  <2>1. TableType' /\ CountType' /\ WorkerType'
    BY DEF TableType, CountType, WorkerType
  <2>2. Ec2Type'
    <3>1. Terminations(h) \subseteq MachineState
      BY DEF Terminations, MachineState, Ec2Type
    <3> HIDE DEF MachineState
    <3> QED
      BY <3>1 DEF Ec2Type
  <2>3. CallType'
    BY VisitType DEF CallType, Goto, PC
  <2>4. CallOK'
    BY DEF CallOK, CallType, Goto, PC, HostLoop
  <2> QED
    BY <2>1, <2>2, <2>3, <2>4
<1>2. ASSUME NEW h \in Hosts, WakeHost(p, h) \/ WakeFails(p, h) PROVE Typed'
  <2> USE <1>2 DEF WakeHost, WakeFails, Visit
  <2>1. TableType' /\ WorkerType'
    BY DEF TableType, WorkerType
  <2>2. CountType'
    <3>2. UNCHANGED <<clock, ids>> /\ (faults' = faults \/ (faults < MaxFaults /\ faults' = faults + 1))
      OBVIOUS
    <3> HIDE <1>2 DEF WakeHost, WakeFails, Visit
    <3>1. faults' \in 0..MaxFaults
      BY <3>2, BoundsAssumption DEF CountType
    <3> QED
      BY <3>1, <3>2 DEF CountType
  <2>3. Ec2Type'
    <3>1. Woken(h) \in MachineState
      BY DEF Woken, MachineState, Ec2Type
    <3>2. Launch(h) \/ UNCHANGED ec2
      OBVIOUS
    <3> HIDE <1>2 DEF WakeHost, WakeFails, Visit
    <3> QED
      BY <3>1, <3>2 DEF Ec2Type, Launch
  <2>4. /\ pc[p] = "hosts"
        /\ todo' = [todo EXCEPT ![p] = @ \ {h}]
        /\ UNCHANGED <<snap, seen, target, ask, view>>
        /\ \/ UNCHANGED <<pc, host, want>>
           \/ \E what \in {"instance", "error"} : Record(p, h, what)
    BY DEF NoteWake
  <2> HIDE <1>2 DEF WakeHost, WakeFails, Visit
  <2>5. CallType'
    <3>1. todo' \in [Lambdas -> SUBSET Hosts]
      BY <2>4, VisitType
    <3>2. CASE UNCHANGED <<pc, host, want>>
      BY <2>4, <3>1, <3>2 DEF CallType
    <3>3. ASSUME NEW what \in {"instance", "error"}, Record(p, h, what) PROVE CallType'
      BY <2>4, <3>1, <3>3 DEF CallType, Record, Goto, PC
    <3> QED
      BY <2>4, <3>2, <3>3
  <2>6. CallOK'
    BY <2>4 DEF CallOK, CallType, Record, Goto, PC, HostLoop
  <2> QED
    BY <2>1, <2>2, <2>3, <2>5, <2>6
<1>3. ASSUME NEW h \in Hosts, ExpireHost(p, h) PROVE Typed'
  <2> USE <1>3 DEF ExpireHost
  <2>1. TableType' /\ Ec2Type' /\ CountType' /\ WorkerType'
    BY DEF TableType, Ec2Type, CountType, WorkerType
  <2>2. CallType'
    <3>1. CASE Return(p)
      BY <3>1, ReturnType
    <3>2. CASE /\ Goto(p, "stop")
               /\ host' = [host EXCEPT ![p] = h]
               /\ todo' = [todo EXCEPT ![p] = @ \ {h}]
               /\ UNCHANGED <<snap, seen, target, ask, want, view>>
      <4>1. todo' \in [Lambdas -> SUBSET Hosts]
        BY <3>2, VisitType
      <4> QED
        BY <3>2, <4>1 DEF CallType, Goto, PC
    <3> QED
      BY <3>1, <3>2
  <2>3. CallOK'
    BY DEF CallOK, CallType, Return, Goto, PC, HostLoop
  <2> QED
    BY <2>1, <2>2, <2>3
<1>4. ASSUME StopHost(p) PROVE Typed'
  <2> USE <1>4 DEF StopHost
  <2>1. TableType' /\ CountType' /\ WorkerType'
    BY DEF TableType, CountType, WorkerType
  <2>2. Ec2Type'
    BY DEF Ec2Type, MachineState
  <2>3. CallType'
    BY DEF CallType, Goto, PC
  <2>4. CallOK'
    BY DEF CallOK, CallType, Goto, PC, HostLoop
  <2> QED
    BY <2>1, <2>2, <2>3, <2>4
<1> QED
  BY <1>1, <1>2, <1>3, <1>4

\* Returning from updateHost or forgetHost to the host loop.
LEMMA ResumeTyped ==
    ASSUME Typed, NEW p \in Lambdas, pc[p] \in HostLoop, Resume(p),
           UNCHANGED <<snap, seen, target, ask, todo>>
    PROVE  CallType' /\ CallOK'
<1> USE DEF Typed, TypeOK, Resume, Goto
<1>1. CallType'
  BY EmptyStateType DEF CallType, PC
<1>2. CallOK'
  BY DEF CallOK, CallType, PC, HostLoop
<1> QED
  BY <1>1, <1>2

\* updateHost and forgetHost.
LEMMA HostRecordTyped ==
    ASSUME Typed, NEW p \in Lambdas,
           \/ UpdateLoad(p) \/ UpdateSave(p) \/ ForgetLoad(p)
           \/ (\E s \in Servers : ForgetServer(p, s)) \/ ForgetHost(p)
    PROVE  Typed'
<1> USE DEF Typed, TypeOK, table, ec2, clock, ids, worker
<1>1. ASSUME UpdateLoad(p) \/ ForgetLoad(p) PROVE Typed'
  <2>1. TableType' /\ Ec2Type' /\ CountType' /\ WorkerType'
    BY <1>1 DEF UpdateLoad, ForgetLoad, TableType, Ec2Type, CountType, WorkerType
  <2>2. /\ pc[p] \in {"updateLoad", "forgetLoad"}
        /\ UNCHANGED <<snap, seen, target, ask, todo>>
        /\ \/ Resume(p)
           \/ /\ reg.hosts[host[p]] # None
              /\ \E l \in {"updateSave", "forgetSave"} : Goto(p, l)
              /\ view' = [view EXCEPT ![p] = reg]
              /\ UNCHANGED <<host, want>>
    BY <1>1 DEF UpdateLoad, ForgetLoad
  <2>3. CallType' /\ CallOK'
    <3>1. CASE Resume(p)
      BY <2>2, <3>1, ResumeTyped DEF HostLoop
    <3>2. CASE /\ reg.hosts[host[p]] # None
               /\ \E l \in {"updateSave", "forgetSave"} : Goto(p, l)
               /\ view' = [view EXCEPT ![p] = reg]
               /\ UNCHANGED <<host, want>>
      <4>1. CallType'
        BY <2>2, <3>2 DEF CallType, TableType, Goto, PC
      <4>2. CallOK'
        BY <2>2, <3>2 DEF CallOK, CallType, Goto, PC, HostLoop
      <4> QED
        BY <4>1, <4>2
    <3> QED
      BY <2>2, <3>1, <3>2
  <2> QED
    BY <2>1, <2>3
<1>2. ASSUME UpdateSave(p) PROVE Typed'
  <2> USE <1>2 DEF UpdateSave
  <2>1. Ec2Type' /\ CountType' /\ WorkerType'
    BY DEF Ec2Type, CountType, WorkerType
  <2>2. CallType' /\ CallOK'
    <3>1. CASE Resume(p)
      BY <3>1, ResumeTyped DEF HostLoop
    <3>2. CASE Goto(p, "updateLoad") /\ UNCHANGED <<host, want, view>>
      <4>1. CallType'
        BY <3>2 DEF CallType, Goto, PC
      <4>2. CallOK'
        BY <3>2 DEF CallOK, CallType, Goto, PC, HostLoop
      <4> QED
        BY <4>1, <4>2
    <3> QED
      BY <3>1, <3>2
  <2>3. TableType'
    <3> DEFINE old == view[p].hosts[host[p]]
               new == IF want[p] = "instance" THEN [old EXCEPT !.instance = TRUE, !.error = FALSE]
                      ELSE [old EXCEPT !.error = TRUE]
               st == [view[p] EXCEPT !.hosts[host[p]] = new]
    <3>1. view[p] \in State /\ host[p] \in Hosts /\ old \in HostRec
      BY DEF CallOK, CallType, State
    <3>2. Save(st)
      BY <3>1 DEF State
    <3>3. new \in HostRec
      BY <3>1 DEF HostRec
    <3> HIDE DEF new
    <3>4. st \in State
      BY <3>1, <3>3, EditTypes
    <3> QED
      BY <3>2, <3>4, EditTypes DEF TableType, Save, Put
  <2> QED
    BY <2>1, <2>2, <2>3
<1>3. ASSUME NEW s \in Servers, ForgetServer(p, s) PROVE Typed'
  <2> USE <1>3 DEF ForgetServer
  <2>1. Ec2Type' /\ CountType' /\ WorkerType'
    BY DEF Ec2Type, CountType, WorkerType
  <2>2. CallType'
    BY ReturnType DEF CallType, Goto, PC
  <2>3. CallOK'
    BY DEF CallOK, CallType, Return, Goto, PC, HostLoop
  <2>4. TableType'
    <3>1. [view[p] EXCEPT !.servers[s] = None] \in State
      BY EditTypes DEF CallType
    <3> QED
      BY <3>1, EditTypes DEF TableType, Forget, Put
  <2> QED
    BY <2>1, <2>2, <2>3, <2>4
<1>4. ASSUME ForgetHost(p) PROVE Typed'
  <2> USE <1>4 DEF ForgetHost
  <2>1. Ec2Type' /\ CountType' /\ WorkerType'
    BY DEF Ec2Type, CountType, WorkerType
  <2>2. CallType' /\ CallOK'
    <3>1. CASE Resume(p) /\ UNCHANGED <<snap, seen, target, ask, todo>>
      BY <3>1, ResumeTyped DEF HostLoop
    <3>2. CASE Return(p)
      <4>1. CallType'
        BY <3>2, ReturnType
      <4>2. CallOK'
        BY <3>2 DEF CallOK, CallType, Return, PC, HostLoop
      <4> QED
        BY <4>1, <4>2
    <3> QED
      BY <3>1, <3>2
  <2>3. TableType'
    <3>1. [view[p] EXCEPT !.hosts[host[p]] = None] \in State
      BY EditTypes DEF CallType, CallOK
    <3> QED
      BY <3>1, EditTypes DEF TableType, Save, Put
  <2> QED
    BY <2>1, <2>2, <2>3
<1> QED
  BY <1>1, <1>2, <1>3, <1>4

\* The steps of the hosts, of EC2 and of time: no invocation moves.
HostSide ==
    \/ \E h \in Hosts : Worker(h) \/ Machine(h) \/ MachinePowersOff(h) \/ MachineLost(h) \/ MachinePurged(h)
    \/ \E s \in Servers : Controller(s)
    \/ RequestAges \/ DeadlinePasses

\* A report published by the worker of h.
LEMMA PublishType ==
    ASSUME Typed, NEW s \in Servers, NEW r \in ReportRec, Publish(s, r)
    PROVE  reports' \in [Servers -> ReportRec \cup {None}] /\ \A x \in tomb : reports'[x] = reports[x]
BY DEF Publish, Typed, TypeOK, TableType

\* One server handled by syncServer.
LEMMA SyncTyped ==
    ASSUME Typed, NEW h \in Hosts, NEW s \in Servers, WorkerSync(h, s)
    PROVE  /\ TableType' /\ WorkerType'
           /\ \A x \in tomb : reports'[x] = reports[x]
           /\ UNCHANGED <<reg, tomb, ec2, clock, ids, calls>>
           /\ faults' = faults \/ (faults < MaxFaults /\ faults' = faults + 1)
<1> DEFINE v == wview[h][s]
<1>1. Takes(h, s) /\ (faults' = faults \/ (faults < MaxFaults /\ faults' = faults + 1))
  BY DEF WorkerSync, SyncTimeout, SyncAbsent, SyncAccept, SyncFails, SyncRefused, SyncReport
<1>2. /\ v \in ServerRec
      /\ wview' \in [Hosts -> [Servers -> ServerRec \cup {None}]]
      /\ UNCHANGED <<reg, tomb, ec2, clock, ids, calls>>
  BY <1>1 DEF Takes, Typed, TypeOK, WorkerType
<1>3. \A ph \in Phases, d \in Desired, e \in BOOLEAN : Report(h, v, ph, d, e) \in ReportRec
  BY <1>2 DEF Report, ReportRec, ServerRec
<1>31. ASSUME NEW i \in InstanceRec, NEW news \in BOOLEAN PROVE ReportOf(h, v, i, news) \in ReportRec
  <2>1. (i.error /\ (v.ready \/ i.phase # "starting")) \in BOOLEAN
    OBVIOUS
  <2>2. i.desired \in Desired /\ (IF i.desired = "running" /\ ~news THEN "starting" ELSE i.phase) \in Phases
    BY DEF InstanceRec, Phases
  <2> QED
    BY <1>3, <2>1, <2>2 DEF ReportOf
<1>4. local[s] \in InstanceRec \cup {None}
  BY DEF Typed, TypeOK, WorkerType
<1> SUFFICES /\ local' \in [Servers -> InstanceRec \cup {None}]
             /\ (\E r \in ReportRec : Publish(s, r)) \/ UNCHANGED reports
  BY <1>1, <1>2, PublishType DEF TableType, WorkerType, Typed, TypeOK
<1>5. CASE SyncTimeout(h, s)
  <2>1. "failed" \in Phases /\ "stopped" \in Desired
    BY DEF Phases, Desired
  <2>2. local' \in [Servers -> InstanceRec \cup {None}]
    BY <1>4, <1>5 DEF SyncTimeout, Typed, TypeOK, WorkerType, InstanceRec, Desired
  <2> QED
    BY <1>3, <1>5, <2>1, <2>2 DEF SyncTimeout
<1>6. CASE SyncAbsent(h, s)
  <2>1. v.desired \in Phases /\ v.desired \in Desired
    BY <1>2, <1>6 DEF SyncAbsent, ServerRec, Desired, Phases
  <2> QED
    BY <1>3, <1>6, <2>1 DEF SyncAbsent, Typed, TypeOK, WorkerType
<1>7. CASE SyncAccept(h, s)
  <2>0. (local[s].error /\ local[s].desired = v.desired /\ v.desired = "stopped") \in BOOLEAN
    OBVIOUS
  <2>1. Accepted(h, v, local[s]) \in InstanceRec
    BY <1>2, <1>4, <2>0 DEF Accepted, InstanceRec, ServerRec, Desired, Phases
  <2>2. /\ local' = [local EXCEPT ![s] = Accepted(h, v, local[s])]
        /\ Publish(s, ReportOf(h, v, local'[s], TRUE)) \/ UNCHANGED reports
    BY <1>7 DEF SyncAccept
  <2>3. local' \in [Servers -> InstanceRec \cup {None}] /\ local'[s] \in InstanceRec
    BY <2>1, <2>2 DEF Typed, TypeOK, WorkerType
  <2>4. ReportOf(h, v, local'[s], TRUE) \in ReportRec
    BY <1>31, <2>3, TRUE \in BOOLEAN, Zenon
  <2> QED
    BY <2>2, <2>3, <2>4
<1>8. CASE SyncReport(h, s)
  <2>1. /\ local[s] \in InstanceRec /\ UNCHANGED local
        /\ \E news \in BOOLEAN : Publish(s, ReportOf(h, v, local[s], news))
    BY <1>4, <1>8 DEF SyncReport
  <2> QED
    BY <1>31, <2>1 DEF Typed, TypeOK, WorkerType
<1>9. CASE SyncRefused(h, s)
  BY <1>9 DEF SyncRefused, Typed, TypeOK, WorkerType
<1>10. CASE SyncFails(h, s)
  <2>1. "failed" \in Phases /\ v.desired \in Desired /\ TRUE \in BOOLEAN
    BY <1>2 DEF Phases, ServerRec
  <2>2. Publish(s, Report(h, v, "failed", v.desired, TRUE)) /\ UNCHANGED local
    BY <1>10 DEF SyncFails
  <2>3. \E r \in ReportRec : Publish(s, r)
    BY <1>3, <2>1, <2>2, Zenon
  <2> QED
    BY <2>2, <2>3 DEF Typed, TypeOK, WorkerType
<1> QED
  BY <1>5, <1>6, <1>7, <1>8, <1>9, <1>10 DEF WorkerSync

\* What any step of the hosts, EC2 or time leaves alone, and its types.
LEMMA HostSideTyped ==
    ASSUME Typed, HostSide
    PROVE  /\ Typed'
           /\ UNCHANGED <<reg, tomb, issued, drawn, calls>>
           /\ \A x \in tomb : reports'[x] = reports[x]
<1> USE DEF Typed, TypeOK, table, ec2, clock, ids, worker
<1>0. ASSUME UNCHANGED calls PROVE CallType' /\ CallOK'
  BY <1>0 DEF calls, CallType, CallOK
<1>1. ASSUME NEW h \in Hosts, WorkerLoad(h)
      PROVE  TypeOK' /\ UNCHANGED <<reg, tomb, reports, issued, drawn, calls>>
  <2>1. UNCHANGED <<table, ec2, clock, ids, faults, calls, local>>
    BY <1>1 DEF WorkerLoad
  <2>2. WorkerType'
    BY <1>1 DEF WorkerLoad, WorkerType, TableType, State
  <2> QED
    BY <1>0, <2>1, <2>2 DEF TableType, Ec2Type, CountType
<1>2. ASSUME NEW h \in Hosts, NEW s \in Servers, WorkerSync(h, s)
      PROVE  TypeOK' /\ UNCHANGED <<reg, tomb, issued, drawn, calls>> /\ \A x \in tomb : reports'[x] = reports[x]
  BY <1>0, <1>2, SyncTyped, BoundsAssumption DEF Ec2Type, CountType
<1>3. ASSUME NEW h \in Hosts,
             Machine(h) \/ MachinePowersOff(h) \/ MachineLost(h) \/ MachinePurged(h)
      PROVE  TypeOK' /\ UNCHANGED <<reg, tomb, reports, issued, drawn, calls>>
  <2> USE <1>3 DEF Machine, MachinePowersOff, MachineLost, MachinePurged, MachineListed, MachineBoots,
                   MachineStops, MachineTerminates, DiskDeleted
  <2>1. UNCHANGED <<table, clock, ids, calls>> /\ (faults' = faults \/ (faults < MaxFaults /\ faults' = faults + 1))
    OBVIOUS
  <2>2. Ec2Type'
    BY DEF Ec2Type, MachineState, Becomes
  <2>3. WorkerType'
    <3>1. CASE MachineBoots(h)
      <4>1. \A s \in Servers : local[s] \in InstanceRec =>
                [local[s] EXCEPT !.error = FALSE] \in InstanceRec
        BY DEF InstanceRec
      <4>2. \A s \in Servers : s \in Holds(h) => local[s] \in InstanceRec
        BY DEF WorkerType, Holds
      <4>3. /\ wview' = wview
            /\ local' = [s \in Servers |-> IF s \in Holds(h) /\ local[s].phase = "stopped"
                                           THEN [local[s] EXCEPT !.error = FALSE] ELSE local[s]]
        BY <3>1
      <4> HIDE <1>3
      <4> QED
        BY <4>1, <4>2, <4>3 DEF WorkerType
    <3>2. CASE ~MachineBoots(h)
      <4>1. \/ UNCHANGED local
            \/ local' = [s \in Servers |-> IF s \in Holds(h) THEN None ELSE local[s]]
        BY <3>2
      <4>2. UNCHANGED wview \/ wview' = [wview EXCEPT ![h] = NoReports]
        BY <3>2 DEF WorkerDies
      <4> HIDE <1>3
      <4> QED
        BY <4>1, <4>2 DEF WorkerType, NoReports
    <3> QED
      BY <3>1, <3>2
  <2> HIDE <1>3
  <2>4. CountType'
    <3>1. faults' \in 0..MaxFaults
      BY <2>1, BoundsAssumption DEF CountType
    <3> QED
      BY <2>1, <3>1 DEF CountType
  <2> QED
    BY <1>0, <2>1, <2>2, <2>3, <2>4 DEF TableType
<1>4. ASSUME NEW s \in Servers, Controller(s)
      PROVE  TypeOK' /\ UNCHANGED <<reg, tomb, reports, issued, drawn, calls>>
  <2> USE <1>4 DEF Controller, ControllerSettles, ControllerStopsBadly, ControllerIdleStop, ControllerFails, ControllerRecovers
  <2>1. /\ UNCHANGED <<table, ec2, clock, ids, calls, wview>>
        /\ faults' = faults \/ (faults < MaxFaults /\ faults' = faults + 1)
    OBVIOUS
  <2>2. WorkerType'
    <3>1. local[s] \in InstanceRec
      BY DEF Runs, Unsettled, WorkerType
    <3> QED
      BY <3>1 DEF WorkerType, InstanceRec, Desired, Phases
  <2> HIDE <1>4
  <2>4. CountType'
    <3>1. faults' \in 0..MaxFaults
      BY <2>1, BoundsAssumption DEF CountType
    <3> QED
      BY <2>1, <3>1 DEF CountType
  <2> QED
    BY <1>0, <2>1, <2>2, <2>4 DEF TableType, Ec2Type
<1>5. ASSUME RequestAges \/ DeadlinePasses
      PROVE  TypeOK' /\ UNCHANGED <<reg, tomb, reports, issued, drawn, calls>>
  <2>1. /\ UNCHANGED <<table, ec2, ids, faults, calls, worker>>
        /\ \/ aged < issued /\ aged' = aged + 1 /\ UNCHANGED deadline
           \/ deadline' = TRUE /\ UNCHANGED aged
    BY <1>5 DEF RequestAges, DeadlinePasses
  <2>2. aged' \in 0..MaxRequests
    BY <2>1, ConfigAssumption DEF CountType
  <2>3. deadline' \in BOOLEAN
    BY <2>1 DEF CountType
  <2> QED
    BY <1>0, <2>1, <2>2, <2>3 DEF TableType, Ec2Type, CountType, WorkerType
<1> QED
  BY <1>0, <1>1, <1>2, <1>3, <1>4, <1>5 DEF HostSide, Worker

\* Every step keeps every variable well typed.
LEMMA TypedNext == Typed /\ [Next]_vars => Typed'
<1> SUFFICES ASSUME Typed, [Next]_vars PROVE Typed'
  OBVIOUS
<1>1. CASE UNCHANGED vars
  BY <1>1 DEF vars, table, ec2, clock, ids, calls, worker, Typed, TypeOK, TableType, Ec2Type, CountType,
              CallType, WorkerType, CallOK
<1>2. CASE Next
  BY <1>2, CreateTyped, ActionTyped, PlanTyped, DriveTyped, HostRecordTyped, HostSideTyped
  DEF Next, Reconcile, ReconcileHost, HostSide
<1> QED
  BY <1>1, <1>2

\* Type correctness of the scheduler, its table, EC2 and the hosts.
THEOREM TypeCorrect == Spec => []TypeOK
<1>1. Spec => []Typed
  BY TypedInit, TypedNext, PTL DEF Spec
<1>2. Typed => TypeOK
  BY DEF Typed
<1> QED
  BY <1>1, <1>2, PTL

-----------------------------------------------------------------------------
(***************************************************************************)
(* NoDataLoss, NoResurrection and NoLeakedMachine of FleetScheduler, for   *)
(* every set of servers, hosts, games, releases and concurrent invocations *)
(* and for every bound.                                                    *)
(*                                                                         *)
(* The argument.  A write succeeds only if the writer's snapshot still is  *)
(* the registry (Fresh), so what the writer concluded from its snapshot is *)
(* true of the registry it replaces.  What an invocation concludes without *)
(* writing - that a host retires, that its machine is gone - must survive  *)
(* the writes of others: a host never stops retiring and never returns     *)
(* (Retired, DrawnOK), a launched machine stays launched (Launched), a     *)
(* terminated one whose disks are gone stays so (Gone).                    *)
(*                                                                         *)
(* Every step of the scheduler, of EC2 and of the hosts is first shown to  *)
(* be a combination of four small relations (Moves); that those preserve   *)
(* the invariant is proved once.                                           *)
(***************************************************************************)
\* A snapshot taken at the registry's revision is the registry.
FreshAt(st) == st.rev <= reg.rev /\ (st.rev = reg.rev => st = reg)
Fresh ==
    \A p \in Lambdas :
        /\ pc[p] # "idle" => FreshAt(snap[p])
        /\ pc[p] \in {"updateSave", "forgetSave"} => FreshAt(view[p])

\* Hosts enter the registry once.  Those of an old snapshot were there.
DrawnOK ==
    /\ HostIDs(reg) \subseteq drawn
    /\ \A p \in Lambdas : HostIDs(snap[p]) \subseteq drawn /\ HostIDs(view[p]) \subseteq drawn
    /\ \A p \in Lambdas :
         pc[p] = "createSave" /\ snap[p].rev = reg.rev /\ snap[p].hosts[host[p]] = None => host[p] \notin drawn
    /\ \A h \in Hosts \ drawn : machine[h] = "new"

\* Nothing on a retiring host is wanted any more.
Closed(st) ==
    \A h \in HostIDs(st) : st.hosts[h].retiring =>
        \A s \in OnHost(st, h) : st.deleting \/ st.servers[s].desired = "deleted"

\* Retirement is for good, and admission to a retiring host is closed.
Retired ==
    /\ Closed(reg)
    /\ \A p \in Lambdas : \A h \in HostIDs(snap[p]) :
         snap[p].hosts[h].retiring /\ reg.hosts[h] # None => reg.hosts[h].retiring
    /\ \A p \in Lambdas : pc[p] = "createSave" /\ snap[p].hosts[host[p]] # None => ~snap[p].hosts[host[p]].retiring
    /\ \A h \in HostIDs(reg) : machine[h] = "shutting-down" => reg.hosts[h].retiring

\* An instance ID is recorded only for a machine that was launched.
Launched ==
    /\ \A h \in HostIDs(reg) : reg.hosts[h].instance => machine[h] # "new"
    /\ \A p \in Lambdas : \A h \in HostIDs(snap[p]) : snap[p].hosts[h].instance => machine[h] # "new"
    /\ \A p \in Lambdas : pc[p] \in {"updateLoad", "updateSave"} /\ want[p] = "instance" => machine[host[p]] # "new"
    /\ \A h \in Hosts : machine[h] \in Alive \cup {"shutting-down"} => disk[h]

\* forgetHost runs, and a host is forgotten, only when its machine is gone.
GoneAt(h) == machine[h] \in {"terminated", "purged"} /\ ~disk[h]
Gone ==
    /\ \A p \in Lambdas : pc[p] \in {"forgetLoad", "forgetSave"} => GoneAt(host[p])
    /\ \A h \in drawn \ HostIDs(reg) : GoneAt(h)

\* A Create past its tombstone check holds a snapshot older than any tombstone
\* of its ID.
Buried ==
    /\ \A s \in tomb : reg.servers[s] = None /\ reports[s] = None
    /\ \A p \in Lambdas : pc[p] \in {"choose", "createSave"} /\ snap[p].rev = reg.rev => target[p] \notin tomb

IInv == Typed /\ Fresh /\ DrawnOK /\ Retired /\ Launched /\ Gone /\ Buried


-----------------------------------------------------------------------------
(* What any step does to the registry, to EC2, to the removed servers and  *)
(* to one invocation.                                                      *)

\* A write of the registry.
RegWrite ==
    /\ reg'.rev = reg.rev + 1
    /\ Closed(reg')
    /\ \A h \in HostIDs(reg') :
         \/ /\ h \in HostIDs(reg)
            /\ reg.hosts[h].retiring => reg'.hosts[h].retiring
            /\ reg'.hosts[h].instance => reg.hosts[h].instance \/ machine[h] # "new"
         \/ h \notin drawn /\ h \in drawn' /\ ~reg'.hosts[h].instance
    /\ \A h \in HostIDs(reg) \ HostIDs(reg') : GoneAt(h)
    /\ drawn \subseteq drawn' /\ drawn' \subseteq drawn \cup HostIDs(reg')
RegMoves == UNCHANGED <<reg, tomb, drawn>> \/ RegWrite

Ec2Moves ==
    \A h \in Hosts :
        /\ machine[h] # "new" => machine'[h] # "new"
        /\ machine[h] = "new" /\ machine'[h] # "new" => h \in drawn
        /\ machine'[h] \in Alive \cup {"shutting-down"} => disk'[h]
        /\ GoneAt(h) => GoneAt(h)'
        /\ machine'[h] = "shutting-down" =>
             machine[h] = "shutting-down" \/ (h \in HostIDs(reg) => reg.hosts[h].retiring)

TombMoves == \A s \in tomb' : reg'.servers[s] = None /\ reports'[s] = None

CallMoves(q) ==
    /\ snap'[q] \in {EmptyState, snap[q], reg'}
    /\ view'[q] \in {EmptyState, view[q], reg'}
    /\ pc'[q] # "idle" => snap'[q] = reg' \/ (snap'[q] = snap[q] /\ pc[q] # "idle")
    /\ pc'[q] \in {"updateSave", "forgetSave"} =>
         view'[q] = reg' \/ (view'[q] = view[q] /\ pc[q] \in {"updateSave", "forgetSave"})
    /\ pc'[q] \in {"choose", "createSave"} =>
         /\ snap'[q] = snap[q] /\ target'[q] = target[q] /\ pc[q] # "idle"
         /\ pc[q] \in {"choose", "createSave"} \/ target[q] \notin tomb'
    /\ pc'[q] = "createSave" =>
         \/ pc[q] = "createSave" /\ host'[q] = host[q]
         \/ snap[q].hosts[host'[q]] = None /\ host'[q] \notin drawn'
         \/ snap[q].hosts[host'[q]] # None /\ ~snap[q].hosts[host'[q]].retiring
    /\ pc'[q] \in {"updateLoad", "updateSave"} /\ want'[q] = "instance" =>
         \/ pc[q] \in {"updateLoad", "updateSave"} /\ host'[q] = host[q] /\ want'[q] = want[q]
         \/ machine'[host'[q]] # "new"
    /\ pc'[q] \in {"forgetLoad", "forgetSave"} =>
         \/ pc[q] \in {"forgetLoad", "forgetSave"} /\ host'[q] = host[q]
         \/ machine'[host'[q]] \in {"terminated", "purged"} /\ ~disk'[host'[q]]

Moves == RegMoves /\ Ec2Moves /\ TombMoves /\ \A q \in Lambdas : CallMoves(q)

-----------------------------------------------------------------------------
(* The moves preserve every part of the invariant.                         *)

\* The empty registry names no host.
LEMMA EmptyHosts == HostIDs(EmptyState) = {}
BY DEF HostIDs, EmptyState

\* A write leaves older snapshots behind.
LEMMA StaleAfterWrite ==
    ASSUME IInv, Typed', RegWrite, NEW q \in Lambdas, pc[q] # "idle"
    PROVE  snap[q].rev < reg'.rev
BY DEF IInv, Fresh, FreshAt, RegWrite, Typed, TypeOK, TableType, CallType, State

\* Snapshots stay no newer than the registry, and equal to it at equal revisions.
LEMMA FreshMoves == ASSUME IInv, Typed', Moves PROVE Fresh'
<1> SUFFICES ASSUME NEW q \in Lambdas
             PROVE  /\ pc'[q] # "idle" => FreshAt(snap[q])'
                    /\ pc'[q] \in {"updateSave", "forgetSave"} => FreshAt(view[q])'
  BY DEF Fresh, FreshAt
<1>1. /\ reg.rev \in Nat /\ reg'.rev \in Nat /\ snap[q].rev \in Nat /\ view[q].rev \in Nat
  BY DEF IInv, Typed, TypeOK, TableType, CallType, State
<1>2. CallMoves(q) /\ RegMoves
  BY DEF Moves
<1>3. reg' = reg \/ reg'.rev = reg.rev + 1
  BY <1>2 DEF RegMoves, RegWrite
<1>4. /\ pc[q] # "idle" => FreshAt(snap[q])
      /\ pc[q] \in {"updateSave", "forgetSave"} => FreshAt(view[q])
  BY DEF IInv, Fresh
<1>5. /\ pc[q] # "idle" /\ snap'[q] = snap[q] => FreshAt(snap[q])'
      /\ pc[q] \in {"updateSave", "forgetSave"} /\ view'[q] = view[q] => FreshAt(view[q])'
  BY <1>1, <1>3, <1>4 DEF FreshAt
<1>6. /\ snap'[q] = reg' => FreshAt(snap[q])'
      /\ view'[q] = reg' => FreshAt(view[q])'
  BY <1>1 DEF FreshAt
<1> QED
  BY <1>2, <1>5, <1>6 DEF CallMoves

\* Every host named anywhere stays one that was drawn.
LEMMA DrawnMoves == ASSUME IInv, Typed', Moves PROVE DrawnOK'
<1>1. HostIDs(reg') \subseteq drawn' /\ drawn \subseteq drawn'
  BY DEF IInv, DrawnOK, Moves, RegMoves, RegWrite
<1>2. ASSUME NEW q \in Lambdas
      PROVE  HostIDs(snap'[q]) \subseteq drawn' /\ HostIDs(view'[q]) \subseteq drawn'
  <2>1. /\ snap'[q] \in {EmptyState, snap[q], reg'} /\ view'[q] \in {EmptyState, view[q], reg'}
    BY DEF Moves, CallMoves
  <2>2. HostIDs(snap[q]) \subseteq drawn /\ HostIDs(view[q]) \subseteq drawn
    BY DEF IInv, DrawnOK
  <2> QED
    BY <1>1, <2>1, <2>2, EmptyHosts
<1>3. ASSUME NEW q \in Lambdas, pc'[q] = "createSave", snap'[q].rev = reg'.rev, snap'[q].hosts[host'[q]] = None
      PROVE  host'[q] \notin drawn'
  <2>1. snap'[q] = snap[q] /\ pc[q] # "idle"
    BY <1>3 DEF Moves, CallMoves
  <2>2. CASE RegWrite
    <3>1. snap[q].rev < reg'.rev /\ snap[q].rev \in Nat
      BY <2>1, <2>2, StaleAfterWrite DEF IInv, Typed, TypeOK, CallType, State
    <3> QED
      BY <1>3, <2>1, <3>1
  <2>3. CASE UNCHANGED <<reg, tomb, drawn>>
    BY <1>3, <2>1, <2>3 DEF Moves, CallMoves, IInv, DrawnOK
  <2> QED
    BY <2>2, <2>3 DEF Moves, RegMoves
<1>4. ASSUME NEW h \in Hosts \ drawn' PROVE machine'[h] = "new"
  BY <1>1, <1>4 DEF Moves, Ec2Moves, IInv, DrawnOK
<1> QED
  BY <1>1, <1>2, <1>3, <1>4 DEF DrawnOK

\* A terminating machine stays one of a host that retires with consent.
LEMMA RetiredMoves == ASSUME IInv, Typed', Moves PROVE Retired'
<1>1. Closed(reg')
  BY DEF IInv, Retired, Moves, RegMoves, RegWrite
<1>2. ASSUME NEW h \in HostIDs(reg'), h \in drawn
      PROVE  h \in HostIDs(reg) /\ (reg.hosts[h].retiring => reg'.hosts[h].retiring)
  BY <1>2 DEF Moves, RegMoves, RegWrite
<1>3. ASSUME NEW q \in Lambdas, NEW h \in HostIDs(snap'[q]), snap'[q].hosts[h].retiring, reg'.hosts[h] # None
      PROVE  reg'.hosts[h].retiring
  <2>1. snap'[q] \in {EmptyState, snap[q], reg'}
    BY DEF Moves, CallMoves
  <2>2. CASE snap'[q] = snap[q]
    <3>1. h \in drawn /\ h \in HostIDs(reg')
      BY <1>3, <2>2 DEF IInv, DrawnOK, HostIDs
    <3>2. h \in HostIDs(reg) /\ (reg.hosts[h].retiring => reg'.hosts[h].retiring)
      BY <1>2, <3>1
    <3> QED
      BY <1>3, <2>2, <3>2 DEF IInv, Retired, HostIDs
  <2> QED
    BY <1>3, <2>1, <2>2, EmptyHosts
<1>4. ASSUME NEW q \in Lambdas, pc'[q] = "createSave", snap'[q].hosts[host'[q]] # None
      PROVE  ~snap'[q].hosts[host'[q]].retiring
  BY <1>4 DEF Moves, CallMoves, IInv, Retired
<1>5. ASSUME NEW h \in HostIDs(reg'), machine'[h] = "shutting-down" PROVE reg'.hosts[h].retiring
  <2>1. h \in Hosts
    BY DEF HostIDs
  <2>2. h \in drawn
    BY <1>5, <2>1 DEF Moves, Ec2Moves, IInv, DrawnOK
  <2>3. h \in HostIDs(reg) /\ (reg.hosts[h].retiring => reg'.hosts[h].retiring)
    BY <1>2, <2>2
  <2> QED
    BY <1>5, <2>1, <2>3 DEF Moves, Ec2Moves, IInv, Retired
<1> QED
  BY <1>1, <1>3, <1>4, <1>5 DEF Retired, Closed, HostIDs, OnHost, ServerIDs

\* A recorded instance stays one that was launched, with its disk.
LEMMA LaunchedMoves == ASSUME IInv, Typed', Moves PROVE Launched'
<1>0. \A h \in Hosts : machine[h] # "new" => machine'[h] # "new"
  BY DEF Moves, Ec2Moves
<1>1. ASSUME NEW h \in HostIDs(reg'), reg'.hosts[h].instance PROVE machine'[h] # "new"
  <2>1. h \in Hosts
    BY DEF HostIDs
  <2> QED
    BY <1>0, <1>1, <2>1 DEF Moves, RegMoves, RegWrite, IInv, Launched
<1>2. ASSUME NEW q \in Lambdas, NEW h \in HostIDs(snap'[q]), snap'[q].hosts[h].instance
      PROVE  machine'[h] # "new"
  <2>1. snap'[q] \in {EmptyState, snap[q], reg'} /\ h \in Hosts
    BY DEF Moves, CallMoves, HostIDs
  <2>2. CASE snap'[q] = snap[q]
    BY <1>0, <1>2, <2>1, <2>2 DEF IInv, Launched
  <2> QED
    BY <1>1, <1>2, <2>1, <2>2, EmptyHosts
<1>3. ASSUME NEW q \in Lambdas, pc'[q] \in {"updateLoad", "updateSave"}, want'[q] = "instance"
      PROVE  machine'[host'[q]] # "new"
  <2>1. host'[q] \in Hosts
    BY <1>3 DEF Typed, CallOK
  <2>2. CASE pc[q] \in {"updateLoad", "updateSave"} /\ host'[q] = host[q] /\ want'[q] = want[q]
    BY <1>0, <1>3, <2>1, <2>2 DEF IInv, Launched
  <2> QED
    BY <1>3, <2>2 DEF Moves, CallMoves
<1>4. \A h \in Hosts : machine'[h] \in Alive \cup {"shutting-down"} => disk'[h]
  BY DEF Moves, Ec2Moves
<1> QED
  BY <1>1, <1>2, <1>3, <1>4 DEF Launched, Alive

\* A host that left the registry, or is about to, stays gone.
LEMMA GoneMoves == ASSUME IInv, Typed', Moves PROVE Gone'
<1>0. \A h \in Hosts : GoneAt(h) => GoneAt(h)'
  BY DEF Moves, Ec2Moves
<1>1. ASSUME NEW q \in Lambdas, pc'[q] \in {"forgetLoad", "forgetSave"}
      PROVE  machine'[host'[q]] \in {"terminated", "purged"} /\ ~disk'[host'[q]]
  <2>1. host'[q] \in Hosts
    BY <1>1 DEF Typed, CallOK
  <2>2. CASE pc[q] \in {"forgetLoad", "forgetSave"} /\ host'[q] = host[q]
    <3>1. GoneAt(host[q])
      BY <2>2 DEF IInv, Gone
    <3> QED
      BY <1>0, <2>1, <2>2, <3>1 DEF GoneAt
  <2> QED
    BY <1>1, <2>2 DEF Moves, CallMoves
<1>2. ASSUME NEW h \in drawn' \ HostIDs(reg') PROVE GoneAt(h)'
  <2>1. h \in Hosts
    BY DEF Typed, TypeOK, CountType
  <2>2. h \in drawn /\ GoneAt(h)
    BY DEF Moves, RegMoves, RegWrite, IInv, Gone
  <2> QED
    BY <1>0, <2>1, <2>2
<1> QED
  BY <1>1, <1>2 DEF Gone, GoneAt, HostIDs

\* A tombstoned server stays out of the registry and of every current snapshot.
LEMMA BuriedMoves == ASSUME IInv, Typed', Moves PROVE Buried'
<1>1. \A s \in tomb' : reg'.servers[s] = None /\ reports'[s] = None
  BY DEF Moves, TombMoves
<1>2. ASSUME NEW q \in Lambdas, pc'[q] \in {"choose", "createSave"}, snap'[q].rev = reg'.rev
      PROVE  target'[q] \notin tomb'
  <2>1. /\ snap'[q] = snap[q] /\ pc[q] # "idle" /\ target'[q] = target[q]
        /\ pc[q] \in {"choose", "createSave"} \/ target[q] \notin tomb'
    BY <1>2 DEF Moves, CallMoves
  <2>2. CASE RegWrite
    <3>1. snap[q].rev < reg'.rev /\ snap[q].rev \in Nat
      BY <2>1, <2>2, StaleAfterWrite DEF IInv, Typed, TypeOK, CallType, State
    <3> QED
      BY <1>2, <2>1, <3>1
  <2>3. CASE UNCHANGED <<reg, tomb, drawn>>
    BY <1>2, <2>1, <2>3 DEF IInv, Buried
  <2> QED
    BY <2>2, <2>3 DEF Moves, RegMoves
<1> QED
  BY <1>1, <1>2 DEF Buried

\* A step that moves every part as allowed keeps the invariant.
LEMMA MovesKeep == ASSUME IInv, Typed', Moves PROVE IInv'
BY FreshMoves, DrawnMoves, RetiredMoves, LaunchedMoves, GoneMoves, BuriedMoves DEF IInv

-----------------------------------------------------------------------------
(* Frames: what a step that leaves a part alone does to it.                *)

Kept(q) ==
    /\ pc'[q] = pc[q] /\ snap'[q] = snap[q] /\ view'[q] = view[q]
    /\ target'[q] = target[q] /\ host'[q] = host[q] /\ want'[q] = want[q]

\* An invocation that does nothing moves as allowed.
LEMMA KeptMoves == ASSUME NEW q \in Lambdas, Kept(q) PROVE CallMoves(q)
BY DEF Kept, CallMoves

\* An invocation that ends, and the others beside it.
LEMMA ReturnMoves ==
    ASSUME Typed, NEW p \in Lambdas, Return(p)
    PROVE  \A q \in Lambdas : CallMoves(q)
<1>1. pc'[p] = "idle" /\ snap'[p] = EmptyState /\ view'[p] = EmptyState
  BY DEF Return, Typed, TypeOK, CallType
<1>2. CallMoves(p)
  BY <1>1 DEF CallMoves
<1>3. ASSUME NEW q \in Lambdas \ {p} PROVE CallMoves(q)
  BY KeptMoves DEF Kept, Return, Typed, TypeOK, CallType
<1> QED
  BY <1>2, <1>3

\* A step that calls no machine moves EC2 as allowed.
LEMMA Ec2Same == ASSUME IInv, UNCHANGED ec2 PROVE Ec2Moves
BY DEF ec2, Ec2Moves, GoneAt, IInv, Launched, Alive

\* A step that writes nothing moves the table as allowed.
LEMMA TableSame ==
    ASSUME IInv, UNCHANGED <<reg, tomb, drawn>>, \A s \in tomb : reports'[s] = reports[s]
    PROVE  RegMoves /\ TombMoves
BY DEF RegMoves, TombMoves, IInv, Buried

\* A snapshot that passes the compare-and-swap is the registry.
LEMMA CurrentSnap ==
    ASSUME IInv, NEW p \in Lambdas
    PROVE  /\ pc[p] # "idle" /\ Current(snap[p]) => snap[p] = reg
           /\ pc[p] \in {"updateSave", "forgetSave"} /\ Current(view[p]) => view[p] = reg
BY DEF IInv, Fresh, FreshAt, Current

\* A write that draws no host.
Edits(new) ==
    /\ new \in State /\ new.rev = reg.rev
    /\ HostIDs(new) \subseteq HostIDs(reg)
    /\ \A h \in HostIDs(new) :
         /\ reg.hosts[h].retiring => new.hosts[h].retiring
         /\ new.hosts[h].instance => reg.hosts[h].instance \/ machine[h] # "new"
    /\ \A h \in HostIDs(reg) \ HostIDs(new) : GoneAt(h)
    /\ Closed(new)

\* One committed write of the registry moves the table as allowed.
LEMMA EditMoves ==
    ASSUME NEW new, Edits(new), Put(new), UNCHANGED drawn
    PROVE  RegWrite
<1>1. reg'.rev = reg.rev + 1 /\ reg'.hosts = new.hosts /\ reg'.servers = new.servers /\ reg'.deleting = new.deleting
  BY DEF Edits, Put, State
<1>2. HostIDs(reg') = HostIDs(new)
  BY <1>1 DEF HostIDs
<1>3. Closed(reg')
  BY <1>1 DEF Edits, Closed, HostIDs, OnHost, ServerIDs
<1> QED
  BY <1>1, <1>2, <1>3 DEF Edits, RegWrite

-----------------------------------------------------------------------------
(* The steps of Create.                                                    *)

\* Every step of Create moves all parts as allowed.
LEMMA CreateMoves ==
    ASSUME IInv, NEW p \in Lambdas, Create(p)
    PROVE  Moves
<1> USE DEF table, ec2, clock, ids, worker
<1>0. Typed
  BY DEF IInv
<1>1. ASSUME NEW s \in Servers, NEW a \in Ask, CreateLoad(p, s, a) PROVE Moves
  <2>1. RegMoves /\ TombMoves /\ Ec2Moves
    BY <1>1, TableSame, Ec2Same DEF CreateLoad
  <2>2. CallMoves(p)
    BY <1>0, <1>1 DEF CreateLoad, Goto, CallMoves, Typed, TypeOK, CallType
  <2>3. ASSUME NEW q \in Lambdas \ {p} PROVE CallMoves(q)
    BY <1>0, <1>1, KeptMoves DEF CreateLoad, Goto, Kept, Typed, TypeOK, CallType
  <2> QED
    BY <2>1, <2>2, <2>3 DEF Moves
<1>2. ASSUME CreateTombstoned(p) PROVE Moves
  <2>1. RegMoves /\ TombMoves /\ Ec2Moves
    BY <1>2, TableSame, Ec2Same DEF CreateTombstoned
  <2>2. CASE Return(p)
    BY <1>0, <2>1, <2>2, ReturnMoves DEF Moves
  <2>3. CASE ~Return(p)
    <3>1. /\ pc[p] = "tombstoned" /\ target[p] \notin tomb' /\ Goto(p, "choose")
          /\ UNCHANGED <<snap, seen, target, ask, want, host, todo, view>>
      BY <1>2, <2>3 DEF CreateTombstoned
    <3>2. CallMoves(p)
      BY <1>0, <3>1 DEF Goto, CallMoves, Typed, TypeOK, CallType
    <3>3. ASSUME NEW q \in Lambdas \ {p} PROVE CallMoves(q)
      BY <1>0, <3>1, KeptMoves DEF Goto, Kept, Typed, TypeOK, CallType
    <3> QED
      BY <2>1, <3>2, <3>3 DEF Moves
  <2> QED
    BY <2>2, <2>3
<1>3. ASSUME CreateChoose(p) PROVE Moves
  <2>1. RegMoves /\ TombMoves /\ Ec2Moves
    BY <1>3, TableSame, Ec2Same DEF CreateChoose
  <2>2. CASE Return(p)
    BY <1>0, <2>1, <2>2, ReturnMoves DEF Moves
  <2>3. CASE ~Return(p)
    <3>1. /\ pc[p] = "choose" /\ Goto(p, "createSave")
          /\ UNCHANGED <<snap, seen, target, ask, want, todo, view, drawn>>
          /\ \E h \in Hosts :
               /\ host' = [host EXCEPT ![p] = h]
               /\ h \notin drawn \/ (h \in HostIDs(snap[p]) /\ ~snap[p].hosts[h].retiring)
      BY <1>3, <2>3 DEF CreateChoose, BestHosts, Candidates, HostIDs
    <3>2. HostIDs(snap[p]) \subseteq drawn
      BY DEF IInv, DrawnOK
    <3>3. CallMoves(p)
      BY <1>0, <3>1, <3>2 DEF Goto, CallMoves, Typed, TypeOK, CallType, HostIDs
    <3>4. ASSUME NEW q \in Lambdas \ {p} PROVE CallMoves(q)
      BY <1>0, <3>1, KeptMoves DEF Goto, Kept, Typed, TypeOK, CallType
    <3> QED
      BY <2>1, <3>3, <3>4 DEF Moves
  <2> QED
    BY <2>2, <2>3
<1>4. ASSUME CreateSave(p) PROVE Moves
  <2>1. Ec2Moves /\ \A q \in Lambdas : CallMoves(q)
    BY <1>0, <1>4, Ec2Same, ReturnMoves DEF CreateSave
  <2>2. CASE ~Current(snap[p])
    <3>1. UNCHANGED <<reg, tomb, reports, drawn>>
      BY <1>0, <1>4, <2>2 DEF CreateSave, Save, Current, Created, Typed, TypeOK, CallType, State
    <3> QED
      BY <2>1, <3>1, TableSame DEF Moves
  <2>3. CASE Current(snap[p])
    <3> DEFINE new == Created(p)
               h == host[p]
               s == target[p]
    <3>1. pc[p] = "createSave" /\ snap[p] = reg
      BY <1>4, <2>3, CurrentSnap DEF CreateSave
    <3>2. /\ h \in Hosts /\ s \in Servers /\ reg.servers[s] = None /\ reg \in State
      BY <1>0, <3>1 DEF Typed, TypeOK, TableType, CallOK
    <3>3. /\ reg.hosts[h] = None => h \notin drawn
          /\ reg.hosts[h] # None => ~reg.hosts[h].retiring
          /\ s \notin tomb
      BY <3>1 DEF IInv, DrawnOK, Retired, Buried
    <3>4. /\ new.rev = reg.rev /\ new.deleting = reg.deleting
          /\ new.hosts = [reg.hosts EXCEPT ![h] = IF @ = None THEN NewHost(ask[p].release) ELSE @]
          /\ new.servers = [reg.servers EXCEPT ![s] = NewServer(ask[p].game, h, issued + 1)]
      BY <3>1, <3>2 DEF Created, State
    <3>5. reg'.rev = reg.rev + 1 /\ reg'.hosts = new.hosts /\ reg'.servers = new.servers
          /\ reg'.deleting = new.deleting /\ drawn' = drawn \cup {h} /\ UNCHANGED <<tomb, reports>>
      <4>1. Current(new)
        BY <2>3, <3>1, <3>4 DEF Current
      <4>2. reg' = [new EXCEPT !.rev = new.rev + 1] /\ drawn' = drawn \cup {h} /\ UNCHANGED <<tomb, reports>>
        BY <1>4, <2>3, <4>1 DEF CreateSave, Save, Put
      <4>3. new = [snap[p] EXCEPT
                     !.hosts[h] = IF @ = None THEN NewHost(ask[p].release) ELSE @,
                     !.servers[s] = NewServer(ask[p].game, h, issued + 1)]
        BY DEF Created
      <4> QED
        BY <3>1, <3>2, <3>4, <4>2, <4>3 DEF State
    <3> HIDE DEF new
    <3>6. /\ HostIDs(reg') = HostIDs(reg) \cup {h}
          /\ reg'.hosts[h] = IF reg.hosts[h] = None THEN NewHost(ask[p].release) ELSE reg.hosts[h]
          /\ \A x \in Hosts \ {h} : reg'.hosts[x] = reg.hosts[x]
      <4>1. NewHost(ask[p].release) # None
        <5>1. ask[p] \in Ask
          BY <1>0, <3>1 DEF Typed, CallOK
        <5>2. NewHost(ask[p].release) \in HostRec
          BY <5>1 DEF NewHost, HostRec, Ask
        <5> QED
          BY <5>2, NoneAssumption
      <4> QED
        BY <3>2, <3>4, <3>5, <4>1 DEF HostIDs, State
    <3>7. ~reg'.hosts[h].retiring /\ (reg.hosts[h] = None => ~reg'.hosts[h].instance)
      BY <3>3, <3>6 DEF NewHost
    <3>8. /\ reg'.servers[s].host = h
          /\ \A x \in Servers \ {s} : reg'.servers[x] = reg.servers[x]
      BY <3>2, <3>4, <3>5 DEF State, NewServer
    <3>9. Closed(reg')
      <4> SUFFICES ASSUME NEW x \in HostIDs(reg'), reg'.hosts[x].retiring, NEW y \in OnHost(reg', x)
                   PROVE  reg'.deleting \/ reg'.servers[y].desired = "deleted"
        BY DEF Closed
      <4>1. x # h /\ x \in HostIDs(reg) /\ reg.hosts[x].retiring /\ x \in Hosts
        BY <3>6, <3>7 DEF HostIDs
      <4>2. y # s /\ y \in Servers
        BY <3>8, <4>1 DEF OnHost, ServerIDs
      <4>3. y \in OnHost(reg, x)
        BY <3>8, <4>2 DEF OnHost, ServerIDs
      <4> QED
        BY <3>4, <3>5, <3>8, <4>1, <4>2, <4>3 DEF IInv, Retired, Closed
    <3>10. RegWrite
      BY <3>2, <3>3, <3>5, <3>6, <3>7, <3>9 DEF RegWrite, HostIDs
    <3>11. TombMoves
      BY <1>0, <3>3, <3>5, <3>8 DEF TombMoves, IInv, Buried, Typed, TypeOK, TableType
    <3> QED
      BY <2>1, <3>10, <3>11 DEF Moves, RegMoves
  <2> QED
    BY <2>2, <2>3
<1> QED
  BY <1>1, <1>2, <1>3, <1>4 DEF Create

-----------------------------------------------------------------------------
(* The steps of Action and Destroy, and a crash.                           *)

\* An invocation that loads the registry and goes on.
LEMMA LoadMoves ==
    ASSUME Typed, NEW p \in Lambdas, NEW label \in {"tombstoned", "actionReports", "actionSave", "destroySave", "reports"},
           Goto(p, label), snap' = [snap EXCEPT ![p] = reg], UNCHANGED <<reg, view>>,
           \A q \in Lambdas \ {p} : target'[q] = target[q] /\ host'[q] = host[q] /\ want'[q] = want[q]
    PROVE  \A q \in Lambdas : CallMoves(q)
<1>1. CallMoves(p)
  BY DEF Goto, CallMoves, Typed, TypeOK, CallType
<1>2. ASSUME NEW q \in Lambdas \ {p} PROVE CallMoves(q)
  BY KeptMoves DEF Goto, Kept, Typed, TypeOK, CallType
<1> QED
  BY <1>1, <1>2

\* Every step of Action moves all parts as allowed.
LEMMA ActionMoves ==
    ASSUME IInv, NEW p \in Lambdas, Action(p)
    PROVE  Moves
<1> USE DEF table, ec2, clock, ids, worker
<1>0. Typed
  BY DEF IInv
<1>1. ASSUME NEW s \in Servers, NEW d \in Intents, ActionLoad(p, s, d) PROVE Moves
  <2>1. RegMoves /\ TombMoves /\ Ec2Moves
    BY <1>1, TableSame, Ec2Same DEF ActionLoad
  <2>2. \A q \in Lambdas \ {p} : target'[q] = target[q] /\ host'[q] = host[q] /\ want'[q] = want[q]
    BY <1>0, <1>1 DEF ActionLoad, Typed, TypeOK, CallType
  <2>3. \A q \in Lambdas : CallMoves(q)
    BY <1>0, <1>1, <2>2, LoadMoves DEF ActionLoad
  <2> QED
    BY <2>1, <2>3 DEF Moves
<1>2. ASSUME ActionReports(p) PROVE Moves
  <2>1. RegMoves /\ TombMoves /\ Ec2Moves
    BY <1>2, TableSame, Ec2Same DEF ActionReports
  <2>2. CASE Return(p)
    BY <1>0, <2>1, <2>2, ReturnMoves DEF Moves
  <2>3. CASE ~Return(p)
    <3>1. /\ pc[p] = "actionReports" /\ Goto(p, "actionSave")
          /\ UNCHANGED <<snap, seen, target, ask, want, host, todo, view>>
      BY <1>2, <2>3 DEF ActionReports
    <3>2. CallMoves(p)
      BY <1>0, <3>1 DEF Goto, CallMoves, Typed, TypeOK, CallType
    <3>3. ASSUME NEW q \in Lambdas \ {p} PROVE CallMoves(q)
      BY <1>0, <3>1, KeptMoves DEF Goto, Kept, Typed, TypeOK, CallType
    <3> QED
      BY <2>1, <3>2, <3>3 DEF Moves
  <2> QED
    BY <2>2, <2>3
<1>3. ASSUME ActionSave(p) PROVE Moves
  <2>1. Ec2Moves /\ \A q \in Lambdas : CallMoves(q)
    BY <1>0, <1>3, Ec2Same, ReturnMoves DEF ActionSave
  <2> DEFINE s == target[p]
             v == [snap[p].servers[s] EXCEPT
                      !.desired = want[p], !.req = issued + 1, !.ready = FALSE, !.error = FALSE]
             new == [snap[p] EXCEPT !.servers[s] = v]
  <2>2. /\ pc[p] = "actionSave" /\ snap[p] \in State /\ s \in Servers /\ snap[p].servers[s] \in ServerRec
        /\ want[p] \in Desired
        /\ snap[p].servers[s].desired = "deleted" => want[p] = "deleted"
    BY <1>0, <1>3 DEF ActionSave, Typed, TypeOK, CallType, CallOK, State
  <2>3. issued + 1 \in Requests
    BY <1>0, <1>3, ConfigAssumption DEF ActionSave, Typed, TypeOK, CountType, Requests
  <2>4. /\ v \in ServerRec /\ v.host = snap[p].servers[s].host /\ v.desired = want[p]
    BY <2>2, <2>3 DEF ServerRec
  <2>5. Save(new) /\ UNCHANGED <<tomb, reports, drawn>>
    BY <1>3 DEF ActionSave, State
  <2> HIDE DEF v
  <2>6. new \in State /\ new.rev = snap[p].rev /\ new.hosts = snap[p].hosts /\ new.deleting = snap[p].deleting
        /\ new.servers = [snap[p].servers EXCEPT ![s] = v]
    BY <2>2, <2>4, EditTypes DEF State
  <2> HIDE DEF new
  <2>7. CASE ~Current(new)
    <3>1. UNCHANGED <<reg, tomb, reports, drawn>>
      BY <2>5, <2>7 DEF Save
    <3> QED
      BY <2>1, <3>1, TableSame DEF Moves
  <2>8. CASE Current(new)
    <3>1. snap[p] = reg /\ Put(new)
      BY <2>2, <2>5, <2>6, <2>8, CurrentSnap DEF Current, Save
    <3>2. Closed(new)
      <4> SUFFICES ASSUME NEW x \in HostIDs(new), new.hosts[x].retiring, NEW y \in OnHost(new, x)
                   PROVE  new.deleting \/ new.servers[y].desired = "deleted"
        BY DEF Closed
      <4>1. y \in Servers /\ y \in OnHost(reg, x) /\ x \in HostIDs(reg) /\ reg.hosts[x].retiring
        BY <2>2, <2>4, <2>6, <3>1, NoneAssumption DEF OnHost, ServerIDs, HostIDs, State
      <4>2. reg.deleting \/ reg.servers[y].desired = "deleted"
        BY <4>1 DEF IInv, Retired, Closed
      <4> QED
        BY <2>2, <2>4, <2>6, <3>1, <4>1, <4>2 DEF State
    <3>3. Edits(new)
      BY <2>6, <3>1, <3>2 DEF Edits, HostIDs
    <3>4. RegWrite
      BY <2>5, <3>1, <3>3, EditMoves
    <3>5. TombMoves
      <4>1. reg'.servers = new.servers /\ s \notin tomb
        BY <2>2, <2>6, <3>1, NoneAssumption DEF Put, State, IInv, Buried
      <4> QED
        BY <1>0, <2>5, <2>6, <3>1, <4>1 DEF TombMoves, IInv, Buried, Typed, TypeOK, TableType, State
    <3> QED
      BY <2>1, <3>4, <3>5 DEF Moves, RegMoves
  <2> QED
    BY <2>7, <2>8
<1> QED
  BY <1>1, <1>2, <1>3 DEF Action

\* Every step of destroyFleetHosts moves all parts as allowed.
LEMMA DestroyMoves ==
    ASSUME IInv, NEW p \in Lambdas, Destroy(p) \/ Crash(p) \/ ReconcileLoad(p) \/ ReconcileReports(p) \/ ReconcileDone(p)
    PROVE  Moves
<1> USE DEF table, ec2, clock, ids, worker
<1>0. Typed
  BY DEF IInv
<1>1. ASSUME DestroyLoad(p) \/ ReconcileLoad(p) PROVE Moves
  <2>1. RegMoves /\ TombMoves /\ Ec2Moves
    BY <1>1, TableSame, Ec2Same DEF DestroyLoad, ReconcileLoad
  <2>2. \A q \in Lambdas : CallMoves(q)
    <3>1. /\ Goto(p, "destroySave") \/ Goto(p, "reports")
          /\ snap' = [snap EXCEPT ![p] = reg]
          /\ UNCHANGED <<reg, view>>
          /\ target' = target /\ host' = host /\ want' = want
      BY <1>1 DEF DestroyLoad, ReconcileLoad
    <3>2. \A q \in Lambdas \ {p} : target'[q] = target[q] /\ host'[q] = host[q] /\ want'[q] = want[q]
      BY <3>1
    <3>3. CASE Goto(p, "destroySave")
      BY <1>0, <3>1, <3>2, <3>3, LoadMoves
    <3>4. CASE Goto(p, "reports")
      BY <1>0, <3>1, <3>2, <3>4, LoadMoves
    <3> QED
      BY <3>1, <3>3, <3>4
  <2> QED
    BY <2>1, <2>2 DEF Moves
<1>2. ASSUME DestroySave(p) PROVE Moves
  <2>1. Ec2Moves /\ \A q \in Lambdas : CallMoves(q)
    BY <1>0, <1>2, Ec2Same, ReturnMoves DEF DestroySave
  <2> DEFINE new == [snap[p] EXCEPT !.deleting = TRUE]
  <2>2. pc[p] = "destroySave" /\ Save(new) /\ UNCHANGED <<tomb, reports, drawn>>
    BY <1>2 DEF DestroySave
  <2>3. new \in State /\ new.rev = snap[p].rev /\ new.hosts = snap[p].hosts /\ new.deleting
        /\ new.servers = snap[p].servers
    <3>1. snap[p] \in State
      BY <1>0 DEF Typed, TypeOK, CallType
    <3> QED
      BY <3>1 DEF State
  <2> HIDE DEF new
  <2>4. CASE ~Current(new)
    <3>1. UNCHANGED <<reg, tomb, reports, drawn>>
      BY <2>2, <2>4 DEF Save
    <3> QED
      BY <2>1, <3>1, TableSame DEF Moves
  <2>5. CASE Current(new)
    <3>1. snap[p] = reg /\ Put(new)
      BY <2>2, <2>3, <2>5, CurrentSnap DEF Current, Save
    <3>2. Edits(new)
      BY <2>3, <3>1 DEF Edits, HostIDs, Closed
    <3>3. RegWrite
      BY <2>2, <3>1, <3>2, EditMoves
    <3>4. TombMoves
      BY <2>2, <2>3, <3>1 DEF TombMoves, IInv, Buried, Put, State
    <3> QED
      BY <2>1, <3>3, <3>4 DEF Moves, RegMoves
  <2> QED
    BY <2>4, <2>5
<1>3. ASSUME Crash(p) \/ ReconcileDone(p) PROVE Moves
  <2>1. RegMoves /\ TombMoves /\ Ec2Moves
    BY <1>3, TableSame, Ec2Same DEF Crash, ReconcileDone
  <2>2. \A q \in Lambdas : CallMoves(q)
    BY <1>0, <1>3, ReturnMoves DEF Crash, ReconcileDone
  <2> QED
    BY <2>1, <2>2 DEF Moves
<1>4. ASSUME ReconcileReports(p) PROVE Moves
  <2>1. RegMoves /\ TombMoves /\ Ec2Moves
    BY <1>4, TableSame, Ec2Same DEF ReconcileReports
  <2>2. CallMoves(p)
    BY <1>0, <1>4 DEF ReconcileReports, Goto, CallMoves, Typed, TypeOK, CallType
  <2>3. ASSUME NEW q \in Lambdas \ {p} PROVE CallMoves(q)
    BY <1>0, <1>4, KeptMoves DEF ReconcileReports, Goto, Kept, Typed, TypeOK, CallType
  <2> QED
    BY <2>1, <2>2, <2>3 DEF Moves
<1> QED
  BY <1>1, <1>2, <1>3, <1>4 DEF Destroy

-----------------------------------------------------------------------------
(* The writes of reconcile.                                                *)

\* The server walk keeps admission to retiring hosts closed.
LEMMA ObservedClosed ==
    ASSUME NEW old \in State, NEW new \in State, Closed(old), Observed(old, new), old.deleting => new.deleting,
           HostIDs(new) = HostIDs(old),
           \A h \in HostIDs(new) : new.hosts[h].retiring =>
                old.hosts[h].retiring \/ new.deleting \/ ~Retained(new, h)
    PROVE  Closed(new)
<1> SUFFICES ASSUME NEW h \in HostIDs(new), new.hosts[h].retiring, NEW s \in OnHost(new, h), ~new.deleting
             PROVE  new.servers[s].desired = "deleted"
  BY DEF Closed
<1>1. s \in Servers /\ new.servers[s] # None /\ new.servers[s].host = h
  BY DEF OnHost, ServerIDs
<1>2. CASE ~Retained(new, h)
  BY <1>2 DEF Retained
<1>3. CASE old.hosts[h].retiring
  <2>1. old.servers[s] # None /\ old.servers[s].host = h
    BY <1>1 DEF Observed
  <2>2. old.servers[s].desired = "deleted"
    BY <1>1, <1>3, <2>1 DEF Closed, OnHost, ServerIDs
  <2> QED
    BY <1>1, <2>1, <2>2 DEF Observed
<1> QED
  BY <1>2, <1>3

\* Forgetting an acknowledged removal moves all parts as allowed.
LEMMA ReconcileForgetMoves ==
    ASSUME IInv, NEW p \in Lambdas, NEW s \in Servers, ReconcileForget(p, s)
    PROVE  Moves
<1> USE DEF ec2, ids
<1>0. Typed /\ pc[p] = "plan"
  BY DEF IInv, ReconcileForget
<1>1. Ec2Moves /\ \A q \in Lambdas : CallMoves(q)
  BY <1>0, Ec2Same, ReturnMoves DEF ReconcileForget
<1>2. PICK fresh, before :
        Forget([Dated(p) EXCEPT !.servers = ObserveSome(Dated(p), seen[p], aged, fresh, before)], s)
  BY DEF ReconcileForget
<1> DEFINE st == [Dated(p) EXCEPT !.servers = ObserveSome(Dated(p), seen[p], aged, fresh, before)]
           new == [st EXCEPT !.servers[s] = None]
<1>3. /\ st \in State /\ Observed(snap[p], st)
      /\ st.rev = snap[p].rev /\ st.hosts = snap[p].hosts /\ (snap[p].deleting => st.deleting)
  BY <1>0, WalkType
<1>4. Forget(st, s) /\ UNCHANGED drawn
  BY <1>2 DEF ReconcileForget
<1> HIDE DEF st
<1>5. CASE ~Current(st)
  <2>1. UNCHANGED <<reg, tomb, reports, drawn>>
    BY <1>4, <1>5 DEF Forget
  <2> QED
    BY <1>1, <2>1, TableSame DEF Moves
<1>6. CASE Current(st)
  <2>1. snap[p] = reg
    BY <1>0, <1>3, <1>6, CurrentSnap DEF Current
  <2>2. Put(new) /\ tomb' = tomb \cup {s} /\ reports' = [reports EXCEPT ![s] = None]
    BY <1>4, <1>6 DEF Forget
  <2>3. Closed(st)
    <3>1. snap[p] \in State /\ Closed(snap[p]) /\ HostIDs(st) = HostIDs(snap[p])
      BY <1>0, <1>3, <2>1 DEF IInv, Retired, Typed, TypeOK, CallType, HostIDs
    <3> QED
      BY <1>3, <3>1, ObservedClosed
  <2>4. /\ new \in State /\ new.rev = reg.rev /\ new.hosts = reg.hosts /\ new.deleting = st.deleting
        /\ new.servers = [st.servers EXCEPT ![s] = None]
    BY <1>3, <2>1, EditTypes DEF State
  <2> HIDE DEF new
  <2>5. Closed(new)
    BY <1>3, <2>1, <2>3, <2>4 DEF Closed, HostIDs, OnHost, ServerIDs, State
  <2>6. Edits(new)
    BY <2>4, <2>5 DEF Edits, HostIDs
  <2>7. RegWrite
    BY <1>4, <2>2, <2>6, EditMoves
  <2>8. TombMoves
    <3>1. reg'.servers = [st.servers EXCEPT ![s] = None]
      BY <2>2, <2>4 DEF Put, State
    <3>2. \A x \in tomb : st.servers[x] = None /\ x \in Servers
      BY <1>0, <1>3, <2>1 DEF Observed, IInv, Buried, Typed, TypeOK, TableType
    <3> QED
      BY <1>0, <1>3, <2>2, <3>1, <3>2 DEF TombMoves, IInv, Buried, Typed, TypeOK, TableType, State
  <2> QED
    BY <1>1, <2>7, <2>8 DEF Moves, RegMoves
<1> QED
  BY <1>5, <1>6

\* Saving the planned state moves all parts as allowed.
LEMMA ReconcileSaveMoves ==
    ASSUME IInv, NEW p \in Lambdas, ReconcileSave(p)
    PROVE  Moves
<1>0. Typed /\ pc[p] = "plan" /\ UNCHANGED <<tomb, reports, ec2, drawn>>
  BY DEF IInv, ReconcileSave, ids
<1>1. PICK fresh :
         \/ /\ Planned(p, fresh) = snap[p] \/ Current(snap[p])
            /\ IF Planned(p, fresh) = snap[p]
               THEN UNCHANGED <<reg, snap>>
               ELSE Put(Planned(p, fresh)) /\ snap' = [snap EXCEPT ![p] = reg']
            /\ todo' = [todo EXCEPT ![p] = HostIDs(snap[p])]
            /\ Goto(p, "hosts")
            /\ UNCHANGED <<seen, target, ask, want, host, view>>
         \/ /\ Planned(p, fresh) # snap[p] /\ ~Current(snap[p])
            /\ Return(p) /\ UNCHANGED reg
  BY DEF ReconcileSave
<1> DEFINE new == Planned(p, fresh)
<1>2. Ec2Moves
  BY <1>0, Ec2Same
<1>3. CASE Return(p) /\ UNCHANGED reg
  BY <1>0, <1>2, <1>3, TableSame, ReturnMoves DEF Moves
<1>4. CASE UNCHANGED <<reg, snap, view, target, host, want>> /\ Goto(p, "hosts")
  <2>1. CallMoves(p)
    BY <1>0, <1>4 DEF Goto, CallMoves, Typed, TypeOK, CallType
  <2>2. ASSUME NEW q \in Lambdas \ {p} PROVE CallMoves(q)
    BY <1>0, <1>4, KeptMoves DEF Goto, Kept, Typed, TypeOK, CallType
  <2> QED
    BY <1>0, <1>2, <1>4, <2>1, <2>2, TableSame DEF Moves
<1>5. CASE /\ Current(snap[p]) /\ Put(new) /\ snap' = [snap EXCEPT ![p] = reg'] /\ Goto(p, "hosts")
           /\ UNCHANGED <<view, target, host, want>>
  <2>1. CallMoves(p)
    BY <1>0, <1>5 DEF Goto, CallMoves, Typed, TypeOK, CallType
  <2>2. ASSUME NEW q \in Lambdas \ {p} PROVE CallMoves(q)
    BY <1>0, <1>5, KeptMoves DEF Goto, Kept, Typed, TypeOK, CallType
  <2>3. snap[p] = reg /\ reg \in State /\ Closed(reg)
    BY <1>0, <1>5, CurrentSnap DEF IInv, Retired, Typed, TypeOK, TableType
  <2>4. /\ new \in State /\ Observed(reg, new) /\ new.rev = reg.rev /\ HostIDs(new) = HostIDs(reg)
        /\ reg.deleting => new.deleting
        /\ \A h \in HostIDs(new) :
             /\ new.hosts[h].instance = reg.hosts[h].instance
             /\ new.hosts[h].retiring <=> reg.hosts[h].retiring \/ new.deleting \/ ~Retained(new, h)
    BY <1>0, <2>3, PlannedType
  <2> HIDE DEF new
  <2>5. Closed(new)
    BY <2>3, <2>4, ObservedClosed
  <2>6. Edits(new)
    BY <2>4, <2>5 DEF Edits
  <2>7. RegWrite
    BY <1>0, <1>5, <2>6, EditMoves
  <2>8. TombMoves
    <3>1. reg'.servers = new.servers
      BY <1>5, <2>4 DEF Put, State
    <3>2. \A x \in tomb : new.servers[x] = None
      BY <1>0, <2>4 DEF Observed, IInv, Buried, Typed, TypeOK, TableType
    <3> QED
      BY <1>0, <3>1, <3>2 DEF TombMoves, IInv, Buried
  <2> QED
    BY <1>2, <2>1, <2>2, <2>7, <2>8 DEF Moves, RegMoves
<1> QED
  BY <1>1, <1>3, <1>4, <1>5

-----------------------------------------------------------------------------
(* The machine calls of reconcile.                                         *)

\* The host an invocation visits was drawn; it retires only for good, and a
\* recorded instance was launched.
LEMMA Visited ==
    ASSUME IInv, NEW p \in Lambdas, pc[p] = "hosts", NEW h \in todo[p]
    PROVE  /\ h \in Hosts /\ h \in drawn /\ h \in HostIDs(snap[p])
           /\ snap[p].hosts[h].instance => machine[h] # "new"
           /\ snap[p].hosts[h].retiring /\ h \in HostIDs(reg) => reg.hosts[h].retiring
<1>1. h \in HostIDs(snap[p]) /\ h \in Hosts
  BY DEF IInv, Typed, CallOK, HostLoop, HostIDs
<1> QED
  BY <1>1 DEF IInv, DrawnOK, Launched, Retired, HostIDs

\* A machine call at one host.
LEMMA OneMachine ==
    ASSUME IInv, NEW h \in Hosts, NEW m, h \in drawn,
           machine' = [machine EXCEPT ![h] = m], disk' = [disk EXCEPT ![h] = @ \/ machine[h] = "new"],
           m # "new" \/ machine[h] = "new",
           m \in Alive \cup {"shutting-down"} => disk[h] \/ machine[h] = "new",
           machine[h] \in {"terminated", "purged"} => m = machine[h],
           m = "shutting-down" => machine[h] = "shutting-down" \/ (h \in HostIDs(reg) => reg.hosts[h].retiring)
    PROVE  Ec2Moves
<1>1. machine \in [Hosts -> MachineState] /\ disk \in [Hosts -> BOOLEAN]
  BY DEF IInv, Typed, TypeOK, Ec2Type
<1>2. \A x \in Hosts : machine[x] \in Alive \cup {"shutting-down"} => disk[x]
  BY DEF IInv, Launched
<1>3. machine'[h] = m /\ disk'[h] = (disk[h] \/ machine[h] = "new")
  BY <1>1
<1>4. \A x \in Hosts \ {h} : machine'[x] = machine[x] /\ disk'[x] = disk[x]
  BY <1>1
<1>5. ASSUME NEW x \in Hosts \ {h}
      PROVE  /\ machine[x] # "new" => machine'[x] # "new"
             /\ machine[x] = "new" /\ machine'[x] # "new" => x \in drawn
             /\ machine'[x] \in Alive \cup {"shutting-down"} => disk'[x]
             /\ GoneAt(x) => GoneAt(x)'
             /\ machine'[x] = "shutting-down" =>
                  machine[x] = "shutting-down" \/ (x \in HostIDs(reg) => reg.hosts[x].retiring)
  BY <1>2, <1>4 DEF GoneAt
<1>6. /\ machine[h] # "new" => machine'[h] # "new"
      /\ machine[h] = "new" /\ machine'[h] # "new" => h \in drawn
      /\ machine'[h] \in Alive \cup {"shutting-down"} => disk'[h]
      /\ GoneAt(h) => GoneAt(h)'
      /\ machine'[h] = "shutting-down" =>
           machine[h] = "shutting-down" \/ (h \in HostIDs(reg) => reg.hosts[h].retiring)
  BY <1>3 DEF GoneAt
<1> QED
  BY <1>5, <1>6 DEF Ec2Moves

\* Retiring a machine moves all parts as allowed.
LEMMA RetireHostMoves ==
    ASSUME IInv, NEW p \in Lambdas, NEW h \in Hosts, RetireHost(p, h)
    PROVE  Moves
<1> USE DEF table, clock, ids, worker
<1>0. /\ Typed /\ pc[p] = "hosts" /\ h \in todo[p] /\ snap[p].hosts[h].retiring
      /\ UNCHANGED <<reg, tomb, reports, drawn, snap, view, target, want>>
  BY DEF IInv, RetireHost, Visit, Retires
<1>1. RegMoves /\ TombMoves
  BY <1>0, TableSame
<1>2. /\ h \in drawn /\ h \in HostIDs(snap[p])
      /\ snap[p].hosts[h].instance => machine[h] # "new"
      /\ h \in HostIDs(reg) => reg.hosts[h].retiring
  BY <1>0, Visited
<1>3. CASE DeleteSucceeds(h, snap[p].hosts[h])
  <2>1. Goto(p, "forgetLoad") /\ host' = [host EXCEPT ![p] = h] /\ UNCHANGED ec2
    BY <1>3 DEF RetireHost
  <2>2. machine[h] \in {"terminated", "purged"} /\ ~disk[h]
    BY <1>2, <1>3 DEF DeleteSucceeds, Unlisted, IInv, Launched, Alive
  <2>3. Ec2Moves
    BY <2>1, Ec2Same
  <2>4. CallMoves(p)
    BY <1>0, <2>1, <2>2 DEF ec2, Goto, CallMoves, Typed, TypeOK, CallType
  <2>5. ASSUME NEW q \in Lambdas \ {p} PROVE CallMoves(q)
    BY <1>0, <2>1, KeptMoves DEF Goto, Kept, Typed, TypeOK, CallType
  <2> QED
    BY <1>1, <2>3, <2>4, <2>5 DEF Moves
<1>4. CASE ~DeleteSucceeds(h, snap[p].hosts[h])
  <2>1. /\ \E m \in Terminations(h) : machine' = [machine EXCEPT ![h] = m]
        /\ disk' = [disk EXCEPT ![h] = @ \/ machine[h] = "new"]
        /\ UNCHANGED <<pc, host>>
    BY <1>4 DEF RetireHost
  <2>2. PICK m \in Terminations(h) : machine' = [machine EXCEPT ![h] = m]
    BY <2>1
  <2>3. /\ m # "new"
        /\ m \in Alive \cup {"shutting-down"} => disk[h] \/ machine[h] = "new"
        /\ machine[h] \in {"terminated", "purged"} => m = machine[h]
    BY DEF Terminations, Alive, IInv, Launched
  <2>4. Ec2Moves
    BY <1>2, <2>1, <2>2, <2>3, OneMachine
  <2>5. \A q \in Lambdas : CallMoves(q)
    BY <1>0, <2>1, KeptMoves DEF Kept
  <2> QED
    BY <1>1, <2>4, <2>5 DEF Moves
<1> QED
  BY <1>3, <1>4

\* Waking a machine, whether the answer arrives or not, moves all parts as allowed.
LEMMA WakeMoves ==
    ASSUME IInv, NEW p \in Lambdas, NEW h \in Hosts, WakeHost(p, h) \/ WakeFails(p, h)
    PROVE  Moves
<1> USE DEF table, clock, ids, worker
<1>0. /\ Typed /\ pc[p] = "hosts" /\ h \in todo[p]
      /\ UNCHANGED <<reg, tomb, reports, drawn, snap, view, target>>
  BY DEF IInv, WakeHost, WakeFails, Visit
<1>1. RegMoves /\ TombMoves
  BY <1>0, TableSame
<1>2. h \in drawn
  BY <1>0, Visited
<1>3. /\ \/ UNCHANGED ec2
         \/ WakeSucceeds(h, snap[p].hosts[h]) /\ Launch(h)
      /\ \/ UNCHANGED <<pc, host, want>>
         \/ Record(p, h, "instance") /\ WakeSucceeds(h, snap[p].hosts[h]) /\ Launch(h)
         \/ Record(p, h, "error")
  BY DEF WakeHost, WakeFails, NoteWake
<1>4. Ec2Moves
  <2>1. CASE UNCHANGED ec2
    BY <2>1, Ec2Same
  <2>2. CASE WakeSucceeds(h, snap[p].hosts[h]) /\ Launch(h)
    <3>1. /\ Woken(h) # "new" /\ Woken(h) # "shutting-down"
          /\ Woken(h) \in Alive \cup {"shutting-down"} => disk[h] \/ machine[h] = "new"
          /\ machine[h] \in {"terminated", "purged"} => Woken(h) = machine[h]
      BY <2>2 DEF WakeSucceeds, Unlisted, Woken, Alive, IInv, Launched
    <3> QED
      BY <1>2, <2>2, <3>1, OneMachine DEF Launch
  <2> QED
    BY <1>3, <2>1, <2>2
<1>5. CASE UNCHANGED <<pc, host, want>>
  <2>1. \A q \in Lambdas : CallMoves(q)
    BY <1>0, <1>5, KeptMoves DEF Kept
  <2> QED
    BY <1>1, <1>4, <2>1 DEF Moves
<1>6. ASSUME NEW what \in {"instance", "error"}, Record(p, h, what),
             what = "instance" => Launch(h)
      PROVE  Moves
  <2>1. what = "instance" => machine'[h] # "new"
    BY <1>0, <1>6 DEF Launch, Woken, Typed, TypeOK, Ec2Type
  <2>2. CallMoves(p)
    BY <1>0, <1>6, <2>1 DEF Record, Goto, CallMoves, Typed, TypeOK, CallType
  <2>3. ASSUME NEW q \in Lambdas \ {p} PROVE CallMoves(q)
    BY <1>0, <1>6, KeptMoves DEF Record, Goto, Kept, Typed, TypeOK, CallType
  <2> QED
    BY <1>1, <1>4, <2>2, <2>3 DEF Moves
<1> QED
  BY <1>3, <1>5, <1>6

\* Stopping the host of an expired start moves all parts as allowed.
LEMMA StopMoves ==
    ASSUME IInv, NEW p \in Lambdas, (\E h \in Hosts : ExpireHost(p, h)) \/ StopHost(p)
    PROVE  Moves
<1> USE DEF table, clock, ids, worker
<1>0. Typed
  BY DEF IInv
<1>1. ASSUME NEW h \in Hosts, ExpireHost(p, h) PROVE Moves
  <2>1. RegMoves /\ TombMoves /\ Ec2Moves
    BY <1>1, TableSame, Ec2Same DEF ExpireHost
  <2>2. CASE Return(p)
    BY <1>0, <2>1, <2>2, ReturnMoves DEF Moves
  <2>3. CASE ~Return(p)
    <3>1. /\ pc[p] = "hosts" /\ Goto(p, "stop") /\ host' = [host EXCEPT ![p] = h]
          /\ UNCHANGED <<snap, seen, target, ask, want, view>>
      BY <1>1, <2>3 DEF ExpireHost
    <3>2. CallMoves(p)
      BY <1>0, <3>1 DEF Goto, CallMoves, Typed, TypeOK, CallType
    <3>3. ASSUME NEW q \in Lambdas \ {p} PROVE CallMoves(q)
      BY <1>0, <3>1, KeptMoves DEF Goto, Kept, Typed, TypeOK, CallType
    <3> QED
      BY <2>1, <3>2, <3>3 DEF Moves
  <2> QED
    BY <2>2, <2>3
<1>2. ASSUME StopHost(p) PROVE Moves
  <2>1. RegMoves /\ TombMoves
    BY <1>2, TableSame DEF StopHost
  <2>2. Ec2Moves
    BY <1>0, <1>2 DEF StopHost, Ec2Moves, GoneAt, Alive, IInv, Launched, Typed, TypeOK, Ec2Type
  <2>3. CallMoves(p)
    BY <1>0, <1>2 DEF StopHost, Goto, CallMoves, Typed, TypeOK, CallType
  <2>4. ASSUME NEW q \in Lambdas \ {p} PROVE CallMoves(q)
    BY <1>0, <1>2, KeptMoves DEF StopHost, Goto, Kept, Typed, TypeOK, CallType
  <2> QED
    BY <2>1, <2>2, <2>3, <2>4 DEF Moves
<1> QED
  BY <1>1, <1>2

-----------------------------------------------------------------------------
(* updateHost and forgetHost.                                              *)

\* Back in the host loop.
LEMMA ResumeMoves ==
    ASSUME Typed, NEW p \in Lambdas, pc[p] # "idle", Resume(p), UNCHANGED <<snap, target>>
    PROVE  \A q \in Lambdas : CallMoves(q)
<1>1. CallMoves(p)
  BY DEF Resume, Goto, CallMoves, Typed, TypeOK, CallType
<1>2. ASSUME NEW q \in Lambdas \ {p} PROVE CallMoves(q)
  BY KeptMoves DEF Resume, Goto, Kept, Typed, TypeOK, CallType
<1> QED
  BY <1>1, <1>2

\* The reload of updateHost and forgetHost moves all parts as allowed.
LEMMA HostLoadMoves ==
    ASSUME IInv, NEW p \in Lambdas, UpdateLoad(p) \/ ForgetLoad(p)
    PROVE  Moves
<1> USE DEF table, clock, ids, worker
<1>0. Typed /\ UNCHANGED <<reg, tomb, reports, drawn, ec2, snap, target>>
  BY DEF IInv, UpdateLoad, ForgetLoad
<1>1. RegMoves /\ TombMoves /\ Ec2Moves
  BY <1>0, TableSame, Ec2Same
<1>2. CASE Resume(p)
  <2>1. pc[p] # "idle"
    BY DEF UpdateLoad, ForgetLoad
  <2> QED
    BY <1>0, <1>1, <1>2, <2>1, ResumeMoves DEF Moves
<1>3. CASE ~Resume(p)
  <2>1. /\ \/ pc[p] = "updateLoad" /\ Goto(p, "updateSave")
           \/ pc[p] = "forgetLoad" /\ Goto(p, "forgetSave")
        /\ view' = [view EXCEPT ![p] = reg] /\ UNCHANGED <<host, want>>
    BY <1>3 DEF UpdateLoad, ForgetLoad
  <2>2. CallMoves(p)
    BY <1>0, <2>1 DEF Goto, CallMoves, Typed, TypeOK, CallType
  <2>3. ASSUME NEW q \in Lambdas \ {p} PROVE CallMoves(q)
    BY <1>0, <2>1, KeptMoves DEF Goto, Kept, Typed, TypeOK, CallType
  <2> QED
    BY <1>1, <2>2, <2>3 DEF Moves
<1> QED
  BY <1>2, <1>3

\* The write of updateHost moves all parts as allowed.
LEMMA UpdateSaveMoves ==
    ASSUME IInv, NEW p \in Lambdas, UpdateSave(p)
    PROVE  Moves
<1>0. Typed /\ UNCHANGED <<tomb, reports, drawn, ec2, snap, target>> /\ pc[p] = "updateSave"
  BY DEF IInv, UpdateSave, ids
<1>1. Ec2Moves
  BY <1>0, Ec2Same
<1>2. \A q \in Lambdas : CallMoves(q)
  <2>1. CASE Resume(p)
    BY <1>0, <2>1, ResumeMoves
  <2>2. CASE ~Resume(p)
    <3>1. Goto(p, "updateLoad") /\ UNCHANGED <<host, want, view>>
      BY <2>2 DEF UpdateSave
    <3>2. CallMoves(p)
      BY <1>0, <3>1 DEF Goto, CallMoves, Typed, TypeOK, CallType
    <3>3. ASSUME NEW q \in Lambdas \ {p} PROVE CallMoves(q)
      BY <1>0, <3>1, KeptMoves DEF Goto, Kept, Typed, TypeOK, CallType
    <3> QED
      BY <3>2, <3>3
  <2> QED
    BY <2>1, <2>2
<1> DEFINE h == host[p]
           old == view[p].hosts[h]
           rec == IF want[p] = "instance" THEN [old EXCEPT !.instance = TRUE, !.error = FALSE]
                  ELSE [old EXCEPT !.error = TRUE]
           new == [view[p] EXCEPT !.hosts[h] = rec]
<1>3. view[p] \in State /\ h \in Hosts /\ old \in HostRec
  BY <1>0 DEF Typed, TypeOK, CallOK, CallType, State
<1>4. Save(new)
  BY <1>3 DEF UpdateSave, State
<1>5. /\ rec \in HostRec /\ rec.retiring = old.retiring
      /\ rec.instance => old.instance \/ want[p] = "instance"
  BY <1>3 DEF HostRec
<1> HIDE DEF rec
<1>6. /\ new \in State /\ new.rev = view[p].rev /\ new.deleting = view[p].deleting
      /\ new.servers = view[p].servers /\ new.hosts = [view[p].hosts EXCEPT ![h] = rec]
  BY <1>3, <1>5, EditTypes DEF State
<1> HIDE DEF new
<1>7. CASE ~Current(new)
  <2>1. UNCHANGED <<reg, tomb, reports, drawn>>
    BY <1>0, <1>4, <1>7 DEF Save
  <2> QED
    BY <1>1, <1>2, <2>1, TableSame DEF Moves
<1>8. CASE Current(new)
  <2>1. view[p] = reg /\ Put(new)
    BY <1>0, <1>4, <1>6, <1>8, CurrentSnap DEF Current, Save
  <2>2. want[p] = "instance" => machine[h] # "new"
    BY <1>0 DEF IInv, Launched
  <2>3. /\ HostIDs(new) = HostIDs(reg)
        /\ \A x \in HostIDs(new) :
             /\ new.hosts[x].retiring = reg.hosts[x].retiring
             /\ new.hosts[x].instance => reg.hosts[x].instance \/ machine[x] # "new"
    BY <1>3, <1>5, <1>6, <2>1, <2>2, NoneAssumption DEF HostIDs, State
  <2>4. Closed(new)
    BY <1>6, <2>1, <2>3 DEF Closed, OnHost, ServerIDs, IInv, Retired
  <2>5. Edits(new)
    BY <1>6, <2>1, <2>3, <2>4 DEF Edits
  <2>6. RegWrite
    BY <1>0, <2>1, <2>5, EditMoves
  <2>7. TombMoves
    BY <1>0, <1>6, <2>1 DEF TombMoves, Put, State, IInv, Buried
  <2> QED
    BY <1>1, <1>2, <2>6, <2>7 DEF Moves, RegMoves
<1> QED
  BY <1>7, <1>8

\* Forgetting a server of a gone host moves all parts as allowed.
LEMMA ForgetServerMoves ==
    ASSUME IInv, NEW p \in Lambdas, NEW s \in Servers, ForgetServer(p, s)
    PROVE  Moves
<1>0. Typed /\ UNCHANGED <<drawn, ec2>> /\ pc[p] = "forgetSave" /\ Forget(view[p], s)
  BY DEF IInv, ForgetServer, ids
<1>1. Ec2Moves
  BY <1>0, Ec2Same
<1>2. \A q \in Lambdas : CallMoves(q)
  <2>1. CASE Return(p)
    BY <1>0, <2>1, ReturnMoves
  <2>2. CASE ~Return(p)
    <3>1. Goto(p, "forgetLoad") /\ UNCHANGED <<snap, target, want, host, view>>
      BY <2>2 DEF ForgetServer
    <3>2. CallMoves(p)
      BY <1>0, <3>1 DEF Goto, CallMoves, Typed, TypeOK, CallType
    <3>3. ASSUME NEW q \in Lambdas \ {p} PROVE CallMoves(q)
      BY <1>0, <3>1, KeptMoves DEF Goto, Kept, Typed, TypeOK, CallType
    <3> QED
      BY <3>2, <3>3
  <2> QED
    BY <2>1, <2>2
<1>3. CASE ~Current(view[p])
  <2>1. UNCHANGED <<reg, tomb, reports, drawn>>
    BY <1>0, <1>3 DEF Forget
  <2> QED
    BY <1>1, <1>2, <2>1, TableSame DEF Moves
<1>4. CASE Current(view[p])
  <2> DEFINE new == [view[p] EXCEPT !.servers[s] = None]
  <2>1. view[p] = reg /\ Put(new) /\ tomb' = tomb \cup {s} /\ reports' = [reports EXCEPT ![s] = None]
    BY <1>0, <1>4, CurrentSnap DEF Forget
  <2>2. reg \in State
    BY <1>0 DEF Typed, TypeOK, TableType
  <2>3. /\ new \in State /\ new.rev = reg.rev /\ new.hosts = reg.hosts /\ new.deleting = reg.deleting
        /\ new.servers = [reg.servers EXCEPT ![s] = None]
    BY <2>1, <2>2, EditTypes DEF State
  <2> HIDE DEF new
  <2>4. Closed(new)
    BY <2>2, <2>3 DEF Closed, HostIDs, OnHost, ServerIDs, State, IInv, Retired
  <2>5. Edits(new)
    BY <2>3, <2>4 DEF Edits, HostIDs
  <2>6. RegWrite
    BY <1>0, <2>1, <2>5, EditMoves
  <2>7. TombMoves
    <3>1. reg'.servers = [reg.servers EXCEPT ![s] = None]
      BY <2>1, <2>3 DEF Put, State
    <3> QED
      BY <1>0, <2>1, <2>2, <3>1 DEF TombMoves, IInv, Buried, Typed, TypeOK, TableType, State
  <2> QED
    BY <1>1, <1>2, <2>6, <2>7 DEF Moves, RegMoves
<1> QED
  BY <1>3, <1>4

\* Forgetting a gone host moves all parts as allowed.
LEMMA ForgetHostMoves ==
    ASSUME IInv, NEW p \in Lambdas, ForgetHost(p)
    PROVE  Moves
<1> DEFINE h == host[p]
           new == [view[p] EXCEPT !.hosts[h] = None]
<1>0. Typed /\ UNCHANGED <<tomb, reports, drawn, ec2>> /\ pc[p] = "forgetSave" /\ Save(new)
  BY DEF IInv, ForgetHost, ids
<1>1. Ec2Moves
  BY <1>0, Ec2Same
<1>2. \A q \in Lambdas : CallMoves(q)
  BY <1>0, ReturnMoves, ResumeMoves DEF ForgetHost
<1>3. view[p] \in State /\ h \in Hosts /\ GoneAt(h)
  BY <1>0 DEF Typed, TypeOK, CallOK, CallType, IInv, Gone
<1>4. /\ new \in State /\ new.rev = view[p].rev /\ new.deleting = view[p].deleting
      /\ new.servers = view[p].servers /\ new.hosts = [view[p].hosts EXCEPT ![h] = None]
  BY <1>3, EditTypes DEF State
<1> HIDE DEF new
<1>5. CASE ~Current(new)
  <2>1. UNCHANGED <<reg, tomb, reports, drawn>>
    BY <1>0, <1>5 DEF Save
  <2> QED
    BY <1>1, <1>2, <2>1, TableSame DEF Moves
<1>6. CASE Current(new)
  <2>1. view[p] = reg /\ Put(new)
    BY <1>0, <1>4, <1>6, CurrentSnap DEF Current, Save
  <2>2. /\ HostIDs(new) = HostIDs(reg) \ {h}
        /\ \A x \in HostIDs(new) : new.hosts[x] = reg.hosts[x]
    BY <1>3, <1>4, <2>1 DEF HostIDs, State
  <2>3. Closed(new)
    BY <1>4, <2>1, <2>2 DEF Closed, OnHost, ServerIDs, IInv, Retired
  <2>4. Edits(new)
    BY <1>3, <1>4, <2>1, <2>2, <2>3 DEF Edits
  <2>5. RegWrite
    BY <1>0, <2>1, <2>4, EditMoves
  <2>6. TombMoves
    BY <1>0, <1>4, <2>1 DEF TombMoves, Put, State, IInv, Buried
  <2> QED
    BY <1>1, <1>2, <2>5, <2>6 DEF Moves, RegMoves
<1> QED
  BY <1>5, <1>6

-----------------------------------------------------------------------------
(* The steps of the hosts, of EC2 and of time.                             *)

\* Every step of a worker, a controller, EC2 or time moves all parts as allowed.
LEMMA HostSideMoves ==
    ASSUME IInv, HostSide
    PROVE  Moves
<1>0. Typed
  BY DEF IInv
<1>1. UNCHANGED <<reg, tomb, drawn, calls>> /\ \A x \in tomb : reports'[x] = reports[x]
  BY <1>0, HostSideTyped
<1>2. RegMoves /\ TombMoves
  BY <1>1, TableSame
<1>3. \A q \in Lambdas : CallMoves(q)
  BY <1>1, KeptMoves DEF calls, Kept
<1>4. Ec2Moves
  <2>1. ASSUME NEW h \in Hosts,
               Machine(h) \/ MachinePowersOff(h) \/ MachineLost(h) \/ MachinePurged(h)
        PROVE  Ec2Moves
    <3>1. machine \in [Hosts -> MachineState] /\ disk \in [Hosts -> BOOLEAN]
      BY <1>0 DEF Typed, TypeOK, Ec2Type
    <3>2. \A x \in Hosts : machine[x] \in Alive \cup {"shutting-down"} => disk[x]
      BY DEF IInv, Launched
    <3>3. CASE DiskDeleted(h)
      BY <3>1, <3>2, <3>3 DEF DiskDeleted, Ec2Moves, GoneAt, Alive
    <3>4. CASE ~DiskDeleted(h)
      <4>1. PICK m : /\ machine' = [machine EXCEPT ![h] = m] /\ UNCHANGED disk
                     /\ m \notin {"new", "shutting-down"} /\ machine[h] # "new"
                     /\ m \in Alive => machine[h] \in Alive
                     /\ machine[h] \in {"terminated", "purged"} => m \in {"terminated", "purged"}
        BY <2>1, <3>4 DEF Machine, MachinePowersOff, MachineLost, MachinePurged, MachineListed, MachineBoots,
                          MachineStops, MachineTerminates, Becomes, Alive
      <4>2. machine'[h] = m /\ \A x \in Hosts \ {h} : machine'[x] = machine[x]
        BY <3>1, <4>1
      <4>3. ASSUME NEW x \in Hosts
            PROVE  /\ machine[x] # "new" => machine'[x] # "new"
                   /\ machine[x] = "new" => machine'[x] = "new"
                   /\ machine'[x] \in Alive \cup {"shutting-down"} => disk'[x]
                   /\ machine'[x] = "shutting-down" => machine[x] = "shutting-down"
        BY <3>2, <4>1, <4>2
      <4>4. \A x \in Hosts : GoneAt(x) => GoneAt(x)'
        BY <4>1, <4>2 DEF GoneAt
      <4> QED
        BY <4>3, <4>4 DEF Ec2Moves
    <3> QED
      BY <3>3, <3>4
  <2>2. ASSUME UNCHANGED ec2 PROVE Ec2Moves
    BY <2>2, Ec2Same
  <2>3. ASSUME NEW h \in Hosts, Worker(h) PROVE UNCHANGED ec2
    BY <2>3 DEF Worker, WorkerLoad, WorkerSync, SyncTimeout, SyncAbsent, SyncAccept,
             SyncFails, SyncRefused, SyncReport, Takes
  <2>4. ASSUME NEW s \in Servers, Controller(s) PROVE UNCHANGED ec2
    BY <2>4 DEF Controller, ControllerSettles, ControllerStopsBadly, ControllerIdleStop, ControllerFails, ControllerRecovers
  <2>5. ASSUME RequestAges \/ DeadlinePasses PROVE UNCHANGED ec2
    BY <2>5 DEF RequestAges, DeadlinePasses
  <2> QED
    BY <2>1, <2>2, <2>3, <2>4, <2>5 DEF HostSide
<1> QED
  BY <1>2, <1>3, <1>4 DEF Moves

-----------------------------------------------------------------------------
(* The invariant, and what follows from it.                                *)

\* The invariant holds before the first request.
LEMMA IInvInit == Init => IInv
<1> SUFFICES ASSUME Init PROVE IInv
  OBVIOUS
<1>1. Typed
  BY TypedInit
<1>2. /\ HostIDs(reg) = {} /\ drawn = {} /\ tomb = {}
      /\ \A p \in Lambdas : pc[p] = "idle" /\ HostIDs(snap[p]) = {} /\ HostIDs(view[p]) = {}
      /\ \A h \in Hosts : machine[h] = "new"
  BY EmptyHosts DEF Init
<1>3. Fresh /\ DrawnOK /\ Gone /\ Buried
  BY <1>2 DEF Fresh, DrawnOK, Gone, Buried
<1>4. Retired /\ Launched
  BY <1>2 DEF Retired, Closed, Launched, Alive
<1> QED
  BY <1>1, <1>3, <1>4 DEF IInv

\* Every step preserves the invariant.
LEMMA IInvNext == IInv /\ [Next]_vars => IInv'
<1> SUFFICES ASSUME IInv, [Next]_vars PROVE IInv'
  OBVIOUS
<1>1. Typed'
  BY TypedNext DEF IInv
<1>2. CASE UNCHANGED vars
  <2>1. RegMoves /\ TombMoves
    BY <1>2, TableSame DEF vars, table, ids
  <2>2. Ec2Moves
    BY <1>2, Ec2Same DEF vars
  <2>3. \A q \in Lambdas : CallMoves(q)
    BY <1>2, KeptMoves DEF vars, calls, Kept
  <2> QED
    BY <1>1, <2>1, <2>2, <2>3, MovesKeep DEF Moves
<1>3. CASE Next
  <2>1. Moves
    BY <1>3, CreateMoves, ActionMoves, DestroyMoves, ReconcileForgetMoves, ReconcileSaveMoves,
       RetireHostMoves, WakeMoves, StopMoves, HostLoadMoves, UpdateSaveMoves, ForgetServerMoves,
       ForgetHostMoves, HostSideMoves
    DEF Next, Reconcile, ReconcileHost, HostSide
  <2> QED
    BY <1>1, <2>1, MovesKeep
<1> QED
  BY <1>2, <1>3

\* The inductive invariant holds in every reachable state.
THEOREM Invariance == Spec => []IInv
BY IInvInit, IInvNext, PTL DEF Spec

\* Saved data is never destroyed without consent, however Creates, removals,
\* retirements and machine calls of any number of invocations interleave.
THEOREM DataIsSafe == Spec => []NoDataLoss
<1>1. IInv => NoDataLoss
  BY DEF IInv, Retired, Closed, NoDataLoss
<1> QED
  BY <1>1, Invariance, PTL

\* A removed server never comes back, whatever Create or late report races
\* with its removal.
THEOREM RemovalIsFinal == Spec => []NoResurrection
<1>1. IInv => NoResurrection
  BY DEF IInv, Buried, NoResurrection
<1> QED
  BY <1>1, Invariance, PTL

\* A host leaves the registry only when its machine and disks are gone for good,
\* whatever call fails, loses its answer or crashes on the way.
THEOREM NoMachineLeaks == Spec => []NoLeakedMachine
<1>1. IInv => NoLeakedMachine
  BY DEF IInv, Gone, GoneAt, NoLeakedMachine
<1> QED
  BY <1>1, Invariance, PTL

-----------------------------------------------------------------------------
(***************************************************************************)
(* Placement, IntentIsDurable, NoOrphanedData and IdleStopIsOwn of         *)
(* FleetScheduler, for every set of servers, hosts, games, releases and    *)
(* concurrent invocations and for every bound.                             *)
(*                                                                         *)
(* The argument.  Whatever an invocation has read, a write that succeeds   *)
(* edits the registry as it is (Fresh), so every write is one              *)
(* of two kinds: it adds a server, with the room its invocation has found  *)
(* in its snapshot (Adds, Room), or it changes and removes servers, each   *)
(* for a reason of its own (Amends).                                       *)
(*                                                                         *)
(* What hosts know lags behind the registry, in one direction only: an     *)
(* instance holds a request no later than the view of the worker, the view *)
(* one no later than the registry, and the three agree on the host         *)
(* (LocalOK, ViewOK).  A report is a claim about the instance that stays   *)
(* true while it can be acted on: a finished removal is final, and a       *)
(* stopped game of the current request is not started by an earlier one    *)
(* (ReportOK).                                                             *)
(***************************************************************************)
-----------------------------------------------------------------------------
(* The invariants.                                                         *)

\* A Create past its checks has room in its snapshot for the server it will save.
Room(p) ==
    /\ pc[p] \in {"choose", "createSave"} => Cardinality(ServerIDs(snap[p])) < MaxServers
    /\ pc[p] = "createSave" /\ snap[p].hosts[host[p]] = None =>
         Cardinality(HostIDs(snap[p])) < MaxHosts
    /\ pc[p] = "createSave" /\ snap[p].hosts[host[p]] # None =>
         fits(Capacity[snap[p].hosts[host[p]].release], used(snap[p], host[p]), Need[ask[p].game])

Finite == IsFiniteSet(ServerIDs(reg)) /\ \A h \in Hosts, d \in Dims : IsFiniteSet(Units(reg, h, d))
PInv == Placement /\ Finite /\ \A p \in Lambdas : Room(p) /\ IsFiniteSet(ServerIDs(snap[p]))

\* Requests are numbered as they are issued.
Numbered == \A s \in Servers : reg.servers[s] # None => reg.servers[s].req <= issued

\* The machine will never run again.
Ending(h) == machine[h] \in {"shutting-down", "terminated", "purged"}

Known(s) == s \in tomb \/ reg.servers[s] # None

\* The instance of a server is the one of its host, for a request that was made.
LocalOK(s) ==
    local[s] # None =>
        /\ Known(s) /\ local[s].req <= issued
        /\ reg.servers[s] # None =>
             /\ local[s].host = reg.servers[s].host /\ local[s].req <= reg.servers[s].req
             /\ local[s].desired = "deleted" => reg.servers[s].desired = "deleted"

\* What a worker has loaded was the registry, and is no older than its instance.
ViewOK(h, s) ==
    LET v == wview[h][s]
    IN  v # None =>
        /\ Known(s) /\ v.req <= issued
        /\ reg.servers[s] # None =>
             /\ reg.servers[s].host = h /\ v.req <= reg.servers[s].req
             /\ v.desired = "deleted" => reg.servers[s].desired = "deleted"
             /\ v.req = reg.servers[s].req =>
                  \/ reg.servers[s].desired = v.desired
                  \/ v.desired = "running" /\ reg.servers[s].desired = "stopped"
        /\ \A k \in Hosts \ {h} : wview[k][s] = None
        /\ local[s] # None => local[s].host = h /\ local[s].req <= v.req

\* Nothing of the server is left, or comes back, on a machine that goes on.
Cleared(s) ==
    /\ local[s] # None =>
         \/ local[s].phase = "deleted" /\ local[s].desired = "deleted"
         \/ Ending(local[s].host)
    /\ \A h \in Hosts : wview[h][s] # None => wview[h][s].desired = "deleted" \/ Ending(h)

\* The host has stopped the game by itself, for the request the registry holds.
StoppedItself(s) ==
    IF local[s] = None THEN machine[reg.servers[s].host] \in {"terminated", "purged"}
    ELSE local[s].req = reg.servers[s].req /\ local[s].desired = "stopped"

\* What a report claims, kept in the table or in the hands of an invocation.
ReportOK(r, s) ==
    r # None =>
        /\ Known(s) /\ r.req <= issued
        /\ r.desired = "deleted" /\ r.phase = "deleted" /\ ~r.error =>
             /\ reg.servers[s] # None => reg.servers[s].desired = "deleted"
             /\ Cleared(s)
        /\ r.desired = "stopped" /\ r.phase = "stopped" /\ ~r.error =>
             (reg.servers[s] # None /\ r.req = reg.servers[s].req
                /\ reg.servers[s].desired = "running" => StoppedItself(s))

Heard(s) ==
    /\ LocalOK(s) /\ (\A h \in Hosts : ViewOK(h, s)) /\ (s \in tomb => Cleared(s))
    /\ ReportOK(reports[s], s) /\ \A p \in Lambdas : ReportOK(seen[p][s], s)
HInv == IInv /\ Numbered /\ \A s \in Servers : Heard(s)

-----------------------------------------------------------------------------
(* What a step of an invocation does to the registry.                      *)

\* The invocation has read that the host finished a removal, or stopped a game
\* of the current request.
Confirms(p, s) ==
    LET r == seen[p][s]
    IN  r # None /\ ~r.error /\ r.desired = "deleted" /\ r.phase = "deleted"
Idles(p, s) ==
    LET r == seen[p][s]
    IN  /\ r # None /\ ~r.error /\ r.desired = "stopped" /\ r.phase = "stopped"
        /\ r.req = reg.servers[s].req

\* A server leaves for a reason, stays with its request, or gets a new one.
ServerAmended(p, s) ==
    LET old == reg.servers[s] new == reg'.servers[s]
    IN  IF old = None THEN new = None /\ (s \in tomb' => s \in tomb)
        ELSE \/ new = None /\ s \in tomb' /\ (Confirms(p, s) \/ GoneAt(old.host))
             \/ /\ new # None /\ new.host = old.host /\ new.game = old.game
                /\ \/ new.req = old.req /\ new.desired = old.desired
                   \/ /\ new.req = old.req /\ Idles(p, s)
                      /\ old.desired = "running" /\ new.desired = "stopped"
                   \/ /\ new.req = issued + 1 /\ issued' = issued + 1
                      /\ old.desired = "deleted" => new.desired = "deleted"

Amends(p) ==
    /\ issued' \in {issued, issued + 1} /\ tomb \subseteq tomb'
    /\ \A s \in Servers : ServerAmended(p, s)
    /\ HostIDs(reg') \subseteq HostIDs(reg)
    /\ \A h \in HostIDs(reg') : reg'.hosts[h].release = reg.hosts[h].release
    /\ \A h \in HostIDs(reg) \ HostIDs(reg') : OnHost(reg', h) = {}

Adds(p) == CreateSave(p) /\ Current(snap[p])
RegSteps(p) == UNCHANGED <<reg, tomb, issued>> \/ Adds(p) \/ Amends(p)

\* What reconcile makes of a server is the same server with the same request;
\* only a report of that request stops it.
LEMMA ObserveKeeps ==
    ASSUME NEW st \in State, NEW v \in ServerRec, NEW r \in ReportRec \cup {None},
           NEW n \in Nat, NEW fresh \in BOOLEAN
    PROVE  LET new == Observe(st, v, r, n, fresh)
           IN  /\ new.game = v.game /\ new.host = v.host /\ new.req = v.req
               /\ \/ new.desired = v.desired
                  \/ /\ v.desired = "running" /\ new.desired = "stopped"
                     /\ Matches(v, r) /\ ~r.error /\ r.desired = "stopped" /\ r.phase = "stopped"
<1> DEFINE ready == \/ v.ready
                    \/ /\ v.desired = "running" /\ fresh
                       /\ Matches(v, r) /\ ~r.error
                       /\ r.desired = "running" /\ r.phase = "running"
           seenReady == [v EXCEPT !.ready = ready]
           idled == /\ ~st.deleting
                    /\ Matches(v, r) /\ ~r.error
                    /\ v.desired = "running" /\ r.desired = "stopped" /\ r.phase = "stopped"
           failed == Failed(seenReady, r, n)
<1>1. Observe(st, v, r, n, fresh) =
        [seenReady EXCEPT !.error = IF st.deleting THEN v.error ELSE failed,
                          !.desired = IF idled THEN "stopped" ELSE v.desired]
  BY DEF Observe
<1>2. idled => /\ v.desired = "running" /\ Matches(v, r) /\ ~r.error
               /\ r.desired = "stopped" /\ r.phase = "stopped"
  OBVIOUS
<1> HIDE DEF ready, idled, failed
<1>3. /\ DOMAIN seenReady = DOMAIN v /\ seenReady.game = v.game /\ seenReady.host = v.host
      /\ seenReady.req = v.req
  BY DEF ServerRec
<1> HIDE DEF seenReady
<1> DEFINE new == Observe(st, v, r, n, fresh)
<1>4. /\ new.game = v.game /\ new.host = v.host /\ new.req = v.req
      /\ new.desired = IF idled THEN "stopped" ELSE v.desired
  BY <1>1, <1>3 DEF ServerRec
<1> QED
  BY <1>2, <1>4

\* The walk of an invocation over its servers.
Watched(p, old, new) ==
    \A s \in Servers :
        LET v == old.servers[s] w == new.servers[s] r == seen[p][s]
        IN  /\ v = None <=> w = None
            /\ v # None =>
                 /\ w.game = v.game /\ w.host = v.host /\ w.req = v.req
                 /\ \/ w.desired = v.desired
                    \/ /\ v.desired = "running" /\ w.desired = "stopped"
                       /\ r # None /\ ~r.error /\ r.desired = "stopped" /\ r.phase = "stopped"
                       /\ r.req = v.req

\* The walk over any part of the servers keeps the others as they are.
LEMMA WalkWatched ==
    ASSUME Typed, NEW p \in Lambdas, NEW fresh, NEW some
    PROVE  Watched(p, snap[p], [Dated(p) EXCEPT !.servers = ObserveSome(Dated(p), seen[p], aged, fresh, some)])
<1> DEFINE d == Dated(p)
           sv == ObserveSome(d, seen[p], aged, fresh, some)
           st == [d EXCEPT !.servers = sv]
<1>1. /\ snap[p] \in State /\ seen[p] \in [Servers -> ReportRec \cup {None}]
      /\ aged \in Nat /\ deadline \in BOOLEAN
  BY ConfigAssumption DEF Typed, TypeOK, CallType, CountType
<1>2. d \in State /\ d.servers = snap[p].servers
  <2>1. (snap[p].deleting \/ deadline) \in BOOLEAN
    BY <1>1 DEF State
  <2>2. d = [snap[p] EXCEPT !.deleting = snap[p].deleting \/ deadline]
    BY <1>1 DEF Dated, State
  <2> QED
    BY <1>1, <2>1, <2>2 DEF State
<1> HIDE DEF d
<1>3. st.servers = sv
  BY <1>2 DEF State
<1>4. ASSUME NEW s \in Servers
      PROVE  LET v == snap[p].servers[s] w == st.servers[s] r == seen[p][s]
             IN  /\ v = None <=> w = None
                 /\ v # None =>
                      /\ w.game = v.game /\ w.host = v.host /\ w.req = v.req
                      /\ \/ w.desired = v.desired
                         \/ /\ v.desired = "running" /\ w.desired = "stopped"
                            /\ r # None /\ ~r.error /\ r.desired = "stopped" /\ r.phase = "stopped"
                            /\ r.req = v.req
  <2> DEFINE v == snap[p].servers[s]
             new(b) == Observe(d, v, seen[p][s], aged, b)
  <2>1. st.servers[s] = IF v # None /\ s \in some THEN new(s \in fresh) ELSE v
    BY <1>2, <1>3 DEF ObserveSome
  <2>2. v \in ServerRec \cup {None} /\ seen[p][s] \in ReportRec \cup {None}
    BY <1>1 DEF State
  <2>3. CASE v # None /\ s \in some
    <3>1. \A b \in BOOLEAN :
            /\ new(b) \in ServerRec
            /\ new(b).game = v.game /\ new(b).host = v.host /\ new(b).req = v.req
            /\ \/ new(b).desired = v.desired
               \/ /\ v.desired = "running" /\ new(b).desired = "stopped"
                  /\ Matches(v, seen[p][s]) /\ ~seen[p][s].error
                  /\ seen[p][s].desired = "stopped" /\ seen[p][s].phase = "stopped"
      <4> SUFFICES ASSUME NEW b \in BOOLEAN
                   PROVE  /\ new(b) \in ServerRec
                          /\ new(b).game = v.game /\ new(b).host = v.host /\ new(b).req = v.req
                          /\ \/ new(b).desired = v.desired
                             \/ /\ v.desired = "running" /\ new(b).desired = "stopped"
                                /\ Matches(v, seen[p][s]) /\ ~seen[p][s].error
                                /\ seen[p][s].desired = "stopped" /\ seen[p][s].phase = "stopped"
        OBVIOUS
      <4>1. v \in ServerRec
        BY <2>2, <2>3
      <4> HIDE DEF v
      <4>2. new(b) \in ServerRec
        BY <1>1, <1>2, <2>2, <4>1, ObserveType
      <4> QED
        BY <1>1, <1>2, <2>2, <4>1, <4>2, ObserveKeeps
    <3>2. st.servers[s] = new(s \in fresh) /\ (s \in fresh) \in BOOLEAN
      BY <2>1, <2>3
    <3> HIDE DEF new, st, v
    <3> QED
      BY <2>3, <3>1, <3>2, NoneAssumption DEF Matches, v
  <2>4. CASE ~(v # None /\ s \in some)
    BY <2>1, <2>4
  <2> QED
    BY <2>3, <2>4
<1> QED
  BY <1>4 DEF Watched, d

\* A committed write that issues no request and names the hosts of the registry.
LEMMA PutAmends ==
    ASSUME NEW p \in Lambdas, NEW new \in State, Put(new), UNCHANGED issued,
           HostIDs(new) \subseteq HostIDs(reg),
           \A h \in HostIDs(new) : new.hosts[h].release = reg.hosts[h].release,
           \A h \in HostIDs(reg) \ HostIDs(new) : OnHost(new, h) = {},
           tomb \subseteq tomb',
           \A s \in Servers : reg'.servers[s] = new.servers[s] => ServerAmended(p, s)
    PROVE  Amends(p)
<1>1. reg'.hosts = new.hosts /\ reg'.servers = new.servers
  BY DEF Put, State
<1>2. HostIDs(reg') = HostIDs(new) /\ \A h \in Hosts : OnHost(reg', h) = OnHost(new, h)
  BY <1>1 DEF HostIDs, OnHost, ServerIDs
<1>3. \A h \in HostIDs(reg) : h \in Hosts
  BY DEF HostIDs
<1> QED
  BY <1>1, <1>2, <1>3 DEF Amends

\* A start, stop or remove request.
LEMMA ActionSaveAmends ==
    ASSUME IInv, NEW p \in Lambdas, ActionSave(p)
    PROVE  RegSteps(p)
<1> DEFINE s == target[p]
           v == [snap[p].servers[s] EXCEPT
                    !.desired = want[p], !.req = issued + 1, !.ready = FALSE, !.error = FALSE]
           new == [snap[p] EXCEPT !.servers[s] = v]
<1>1. /\ pc[p] = "actionSave" /\ snap[p] \in State /\ s \in Servers /\ snap[p].servers[s] \in ServerRec
      /\ want[p] \in Desired
      /\ snap[p].servers[s].desired = "deleted" => want[p] = "deleted"
  BY DEF IInv, ActionSave, Typed, TypeOK, CallType, CallOK, State
<1>2. /\ issued \in Nat /\ issued + 1 \in Requests
  BY ConfigAssumption DEF IInv, ActionSave, Typed, TypeOK, CountType, Requests
<1>3. /\ v \in ServerRec /\ v.host = snap[p].servers[s].host /\ v.game = snap[p].servers[s].game
      /\ v.desired = want[p] /\ v.req = issued + 1
  BY <1>1, <1>2 DEF ServerRec
<1>4. Save(new) /\ UNCHANGED tomb /\ issued' = issued + (IF Current(snap[p]) THEN 1 ELSE 0)
  BY DEF ActionSave, State
<1> HIDE DEF v
<1>5. /\ new \in State /\ new.rev = snap[p].rev /\ new.hosts = snap[p].hosts
      /\ new.servers = [snap[p].servers EXCEPT ![s] = v]
  BY <1>1, <1>3, EditTypes DEF State
<1> HIDE DEF new
<1>6. CASE ~Current(new)
  BY <1>2, <1>4, <1>5, <1>6 DEF Save, Current, RegSteps
<1>7. CASE Current(new)
  <2>1. snap[p] = reg /\ Put(new) /\ issued' = issued + 1
    BY <1>1, <1>4, <1>5, <1>7, CurrentSnap DEF Current, Save
  <2>2. /\ reg'.hosts = reg.hosts /\ reg'.servers = [reg.servers EXCEPT ![s] = v] /\ reg \in State
    BY <1>1, <1>5, <2>1 DEF Put, State
  <2>3. HostIDs(reg') = HostIDs(reg)
    BY <2>2 DEF HostIDs
  <2>4. ASSUME NEW x \in Servers PROVE ServerAmended(p, x)
    <3>1. CASE x = s
      <4>1. reg'.servers[x] = v /\ reg.servers[x] \in ServerRec
        BY <1>1, <2>1, <2>2, <3>1 DEF State
      <4> QED
        BY <1>1, <1>3, <2>1, <3>1, <4>1, NoneAssumption DEF ServerAmended
    <3>2. CASE x # s
      <4>1. reg'.servers[x] = reg.servers[x]
        BY <2>2, <3>2 DEF State
      <4> QED
        BY <1>4, <4>1 DEF ServerAmended
    <3> QED
      BY <3>1, <3>2
  <2> QED
    BY <1>4, <2>1, <2>2, <2>3, <2>4 DEF RegSteps, Amends
<1> QED
  BY <1>6, <1>7

\* Closing the deployment.
LEMMA DestroySaveAmends ==
    ASSUME IInv, NEW p \in Lambdas, DestroySave(p)
    PROVE  RegSteps(p)
<1> DEFINE new == [snap[p] EXCEPT !.deleting = TRUE]
<1>1. pc[p] = "destroySave" /\ Save(new) /\ UNCHANGED <<tomb, issued>>
  BY DEF DestroySave, ids
<1>2. snap[p] \in State
  BY DEF IInv, Typed, TypeOK, CallType
<1>3. new \in State /\ new.rev = snap[p].rev /\ new.hosts = snap[p].hosts /\ new.servers = snap[p].servers
  BY <1>2 DEF State
<1> HIDE DEF new
<1>4. CASE ~Current(new)
  BY <1>1, <1>4 DEF Save, RegSteps
<1>5. CASE Current(new)
  <2>1. snap[p] = reg /\ Put(new)
    BY <1>1, <1>3, <1>5, CurrentSnap DEF Current, Save
  <2>2. HostIDs(new) = HostIDs(reg)
    BY <1>3, <2>1 DEF HostIDs
  <2>3. \A s \in Servers : reg'.servers[s] = new.servers[s] => ServerAmended(p, s)
    BY <1>1, <1>3, <2>1 DEF ServerAmended
  <2> QED
    BY <1>1, <1>3, <2>1, <2>2, <2>3, PutAmends DEF RegSteps
<1> QED
  BY <1>4, <1>5

\* Forgetting a server whose host acknowledged the removal.
LEMMA ReconcileForgetAmends ==
    ASSUME IInv, NEW p \in Lambdas, NEW s \in Servers, ReconcileForget(p, s)
    PROVE  RegSteps(p)
<1>0. Typed /\ pc[p] = "plan" /\ UNCHANGED issued
  BY DEF IInv, ReconcileForget, ids
<1>1. s \in ServerIDs(snap[p]) /\ Confirms(p, s)
  BY DEF ReconcileForget, Acknowledged, RemovalAcknowledged, Matches, Confirms
<1>2. PICK fresh, before :
        Forget([Dated(p) EXCEPT !.servers = ObserveSome(Dated(p), seen[p], aged, fresh, before)], s)
  BY DEF ReconcileForget
<1> DEFINE st == [Dated(p) EXCEPT !.servers = ObserveSome(Dated(p), seen[p], aged, fresh, before)]
           new == [st EXCEPT !.servers[s] = None]
<1>3. st \in State /\ st.rev = snap[p].rev /\ st.hosts = snap[p].hosts
  BY <1>0, WalkType
<1>4. Watched(p, snap[p], st)
  BY <1>0, WalkWatched
<1>5. Forget(st, s)
  BY <1>2
<1> HIDE DEF st
<1>6. CASE ~Current(st)
  BY <1>0, <1>5, <1>6 DEF Forget, RegSteps
<1>7. CASE Current(st)
  <2>1. snap[p] = reg
    BY <1>0, <1>3, <1>7, CurrentSnap DEF Current
  <2>2. Put(new) /\ tomb' = tomb \cup {s}
    BY <1>5, <1>7 DEF Forget
  <2>3. new \in State /\ new.hosts = reg.hosts /\ new.servers = [st.servers EXCEPT ![s] = None]
    BY <1>3, <2>1, EditTypes DEF State
  <2> HIDE DEF new
  <2>4. HostIDs(new) = HostIDs(reg)
    BY <2>3 DEF HostIDs
  <2>5. ASSUME NEW x \in Servers, reg'.servers[x] = new.servers[x] PROVE ServerAmended(p, x)
    <3>1. CASE x = s
      BY <1>1, <1>3, <2>1, <2>2, <2>3, <2>5, <3>1 DEF ServerAmended, State, ServerIDs
    <3>2. CASE x # s
      <4>1. reg'.servers[x] = st.servers[x] /\ (x \in tomb' => x \in tomb)
        BY <1>3, <2>2, <2>3, <2>5, <3>2 DEF State
      <4> QED
        BY <1>4, <2>1, <4>1 DEF ServerAmended, Watched, Idles
    <3> QED
      BY <3>1, <3>2
  <2> QED
    BY <1>0, <2>2, <2>3, <2>4, <2>5, PutAmends DEF RegSteps
<1> QED
  BY <1>6, <1>7

\* Retirement keeps the release of every host.
LEMMA RetireKeeps ==
    ASSUME NEW st \in State
    PROVE  \A h \in Hosts : st.hosts[h] # None => Retire(st)[h].release = st.hosts[h].release
BY DEF Retire, State, HostRec

\* Saving the planned state.
LEMMA ReconcileSaveAmends ==
    ASSUME IInv, NEW p \in Lambdas, ReconcileSave(p)
    PROVE  RegSteps(p)
<1>0. Typed /\ pc[p] = "plan" /\ UNCHANGED <<tomb, issued>>
  BY DEF IInv, ReconcileSave, ids
<1>1. PICK fresh : UNCHANGED reg \/ (Current(snap[p]) /\ Put(Planned(p, fresh)))
  BY DEF ReconcileSave
<1> DEFINE new == Planned(p, fresh)
           o == [Dated(p) EXCEPT !.servers = ObserveSome(Dated(p), seen[p], aged, fresh, Servers)]
<1>2. CASE UNCHANGED reg
  BY <1>0, <1>2 DEF RegSteps
<1>3. CASE Current(snap[p]) /\ Put(new)
  <2>1. snap[p] = reg
    BY <1>0, <1>3, CurrentSnap
  <2>2. new \in State /\ HostIDs(new) = HostIDs(reg)
    BY <1>0, <2>1, PlannedType
  <2>3. o \in State /\ o.hosts = reg.hosts /\ Watched(p, reg, o)
    BY <1>0, <2>1, WalkType, WalkWatched
  <2>4. new = [o EXCEPT !.hosts = Retire(o)]
    BY DEF Planned
  <2> HIDE DEF new, o
  <2>5. new.hosts = Retire(o) /\ new.servers = o.servers
    BY <2>3, <2>4 DEF State
  <2>6. \A h \in HostIDs(new) : new.hosts[h].release = reg.hosts[h].release
    BY <2>2, <2>3, <2>5, RetireKeeps DEF HostIDs
  <2>7. \A s \in Servers : reg'.servers[s] = new.servers[s] => ServerAmended(p, s)
    BY <1>0, <2>3, <2>5 DEF ServerAmended, Watched, Idles
  <2> QED
    BY <1>0, <1>3, <2>2, <2>6, <2>7, PutAmends DEF RegSteps
<1> QED
  BY <1>1, <1>2, <1>3

\* Recording the outcome of a Wake.
LEMMA UpdateSaveAmends ==
    ASSUME IInv, NEW p \in Lambdas, UpdateSave(p)
    PROVE  RegSteps(p)
<1> DEFINE h == host[p]
           old == view[p].hosts[h]
           rec == IF want[p] = "instance" THEN [old EXCEPT !.instance = TRUE, !.error = FALSE]
                  ELSE [old EXCEPT !.error = TRUE]
           new == [view[p] EXCEPT !.hosts[h] = rec]
<1>0. Typed /\ UNCHANGED <<tomb, issued>> /\ pc[p] = "updateSave"
  BY DEF IInv, UpdateSave, ids
<1>1. view[p] \in State /\ h \in Hosts /\ old \in HostRec
  BY <1>0 DEF Typed, TypeOK, CallOK, CallType, State
<1>2. Save(new)
  BY <1>1 DEF UpdateSave, State
<1>3. rec \in HostRec /\ rec.release = old.release
  BY <1>1 DEF HostRec
<1> HIDE DEF rec
<1>4. /\ new \in State /\ new.rev = view[p].rev
      /\ new.servers = view[p].servers /\ new.hosts = [view[p].hosts EXCEPT ![h] = rec]
  BY <1>1, <1>3, EditTypes DEF State
<1> HIDE DEF new
<1>5. CASE ~Current(new)
  BY <1>0, <1>2, <1>5 DEF Save, RegSteps
<1>6. CASE Current(new)
  <2>1. view[p] = reg /\ Put(new)
    BY <1>0, <1>2, <1>4, <1>6, CurrentSnap DEF Current, Save
  <2>2. /\ HostIDs(new) = HostIDs(reg)
        /\ \A x \in HostIDs(new) : new.hosts[x].release = reg.hosts[x].release
    BY <1>1, <1>3, <1>4, <2>1, NoneAssumption DEF HostIDs, State
  <2>3. \A s \in Servers : reg'.servers[s] = new.servers[s] => ServerAmended(p, s)
    BY <1>0, <1>4, <2>1 DEF ServerAmended
  <2> QED
    BY <1>0, <1>4, <2>1, <2>2, <2>3, PutAmends DEF RegSteps
<1> QED
  BY <1>5, <1>6

\* Forgetting a server of a host that is gone.
LEMMA ForgetServerAmends ==
    ASSUME IInv, NEW p \in Lambdas, NEW s \in Servers, ForgetServer(p, s)
    PROVE  RegSteps(p)
<1>0. Typed /\ UNCHANGED issued /\ pc[p] = "forgetSave" /\ Forget(view[p], s) /\ s \in OnHost(view[p], host[p])
  BY DEF IInv, ForgetServer, ids
<1>1. GoneAt(host[p])
  BY <1>0 DEF IInv, Gone
<1>2. CASE ~Current(view[p])
  BY <1>0, <1>2 DEF Forget, RegSteps
<1>3. CASE Current(view[p])
  <2> DEFINE new == [view[p] EXCEPT !.servers[s] = None]
  <2>1. view[p] = reg /\ Put(new) /\ tomb' = tomb \cup {s} /\ reg \in State
    BY <1>0, <1>3, CurrentSnap DEF Forget, Typed, TypeOK, TableType
  <2>2. new \in State /\ new.hosts = reg.hosts /\ new.servers = [reg.servers EXCEPT ![s] = None]
    BY <2>1, EditTypes DEF State
  <2> HIDE DEF new
  <2>3. HostIDs(new) = HostIDs(reg)
    BY <2>2 DEF HostIDs
  <2>4. ASSUME NEW x \in Servers, reg'.servers[x] = new.servers[x] PROVE ServerAmended(p, x)
    <3>1. CASE x = s
      BY <1>0, <1>1, <2>1, <2>2, <2>4, <3>1 DEF ServerAmended, State, ServerIDs, OnHost
    <3>2. CASE x # s
      BY <2>1, <2>2, <2>4, <3>2 DEF ServerAmended, State
    <3> QED
      BY <3>1, <3>2
  <2> QED
    BY <1>0, <2>1, <2>2, <2>3, <2>4, PutAmends DEF RegSteps
<1> QED
  BY <1>2, <1>3

\* Forgetting a host that is gone and has no server left.
LEMMA ForgetHostAmends ==
    ASSUME IInv, NEW p \in Lambdas, ForgetHost(p)
    PROVE  RegSteps(p)
<1> DEFINE h == host[p]
           new == [view[p] EXCEPT !.hosts[h] = None]
<1>0. /\ Typed /\ UNCHANGED <<tomb, issued>> /\ pc[p] = "forgetSave" /\ Save(new)
      /\ OnHost(view[p], h) = {}
  BY DEF IInv, ForgetHost, ids
<1>1. view[p] \in State /\ h \in Hosts
  BY <1>0 DEF Typed, TypeOK, CallOK, CallType
<1>2. /\ new \in State /\ new.rev = view[p].rev
      /\ new.servers = view[p].servers /\ new.hosts = [view[p].hosts EXCEPT ![h] = None]
  BY <1>1, EditTypes DEF State
<1> HIDE DEF new
<1>3. CASE ~Current(new)
  BY <1>0, <1>3 DEF Save, RegSteps
<1>4. CASE Current(new)
  <2>1. view[p] = reg /\ Put(new)
    BY <1>0, <1>2, <1>4, CurrentSnap DEF Current, Save
  <2>2. /\ HostIDs(new) = HostIDs(reg) \ {h}
        /\ \A x \in HostIDs(new) : new.hosts[x] = reg.hosts[x]
    BY <1>1, <1>2, <2>1 DEF HostIDs, State
  <2>3. OnHost(new, h) = {}
    BY <1>0, <1>2 DEF OnHost, ServerIDs
  <2>4. \A s \in Servers : reg'.servers[s] = new.servers[s] => ServerAmended(p, s)
    BY <1>0, <1>2, <2>1 DEF ServerAmended
  <2> QED
    BY <1>0, <1>2, <2>1, <2>2, <2>3, <2>4, PutAmends DEF RegSteps
<1> QED
  BY <1>3, <1>4

\* A step of an invocation of the scheduler.
Scheduler(p) ==
    Create(p) \/ Action(p) \/ Destroy(p) \/ Reconcile(p) \/ Crash(p) \/ \E h \in Hosts : WakeFails(p, h)

\* Every step of an invocation leaves the registry alone, adds a server to it
\* or amends it.
LEMMA SchedulerReg ==
    ASSUME IInv, NEW p \in Lambdas, Scheduler(p)
    PROVE  RegSteps(p)
<1> USE DEF table, ids
<1>1. ASSUME Create(p) PROVE RegSteps(p)
  <2>1. CASE CreateSave(p)
    <3>1. CASE ~Current(snap[p])
      <4>1. ~Current(Created(p)) /\ issued \in Nat
        BY <3>1 DEF Current, Created, IInv, Typed, TypeOK, CallType, CountType, State
      <4> QED
        BY <2>1, <3>1, <4>1 DEF CreateSave, Save, RegSteps
    <3> QED
      BY <2>1, <3>1 DEF RegSteps, Adds
  <2> QED
    BY <1>1, <2>1 DEF Create, CreateLoad, CreateTombstoned, CreateChoose, RegSteps
<1>2. ASSUME Action(p) PROVE RegSteps(p)
  BY <1>2, ActionSaveAmends DEF Action, ActionLoad, ActionReports, RegSteps
<1>3. ASSUME Destroy(p) PROVE RegSteps(p)
  BY <1>3, DestroySaveAmends DEF Destroy, DestroyLoad, RegSteps
<1>4. ASSUME NEW h \in Hosts, RetireHost(p, h) \/ WakeHost(p, h) \/ ExpireHost(p, h) \/ WakeFails(p, h)
      PROVE  RegSteps(p)
  BY <1>4 DEF RetireHost, WakeHost, ExpireHost, WakeFails, RegSteps
<1>5. ASSUME StopHost(p) \/ UpdateLoad(p) \/ ForgetLoad(p) \/ ReconcileLoad(p) \/ ReconcileReports(p)
             \/ ReconcileDone(p) \/ Crash(p)
      PROVE  RegSteps(p)
  BY <1>5 DEF StopHost, UpdateLoad, ForgetLoad, ReconcileLoad, ReconcileReports, ReconcileDone, Crash, RegSteps
<1>6. ASSUME ReconcileHost(p) PROVE RegSteps(p)
  BY <1>4, <1>5, <1>6, UpdateSaveAmends, ForgetServerAmends, ForgetHostAmends DEF ReconcileHost
<1>7. ASSUME Reconcile(p) PROVE RegSteps(p)
  BY <1>5, <1>6, <1>7, ReconcileForgetAmends, ReconcileSaveAmends DEF Reconcile
<1> QED
  BY <1>1, <1>2, <1>3, <1>4, <1>5, <1>7 DEF Scheduler

\* An invocation changes nothing on a host, publishes no report, reads only the
\* reports that are kept, and brings no machine back.
Keeps ==
    /\ UNCHANGED worker
    /\ \A s \in Servers : reports'[s] \in {reports[s], None}
    /\ \A q \in Lambdas, s \in Servers : seen'[q][s] \in {seen[q][s], reports[s], None}
    /\ \A h \in Hosts :
         /\ machine[h] \in {"terminated", "purged"} => machine'[h] \in {"terminated", "purged"}
         /\ Ending(h) => Ending(h)'

\* The end of an invocation drops what it has read.
LEMMA ReturnSeen ==
    ASSUME Typed, NEW p \in Lambdas, Return(p)
    PROVE  \A q \in Lambdas, s \in Servers : seen'[q][s] \in {seen[q][s], None}
BY DEF Return, NoReports, Typed, TypeOK, CallType

\* A step that calls no machine, publishes nothing and reads no report.
LEMMA QuietKeeps ==
    ASSUME Typed, UNCHANGED worker, UNCHANGED reports, UNCHANGED machine, NEW p \in Lambdas,
           UNCHANGED seen \/ Return(p)
    PROVE  Keeps
BY ReturnSeen DEF Keeps, Ending

\* A write that forgets a server drops its report.
LEMMA ForgetKeeps ==
    ASSUME Typed, UNCHANGED worker, UNCHANGED machine, NEW p \in Lambdas, UNCHANGED seen \/ Return(p),
           NEW st, NEW s \in Servers, Forget(st, s)
    PROVE  Keeps
<1>1. \A x \in Servers : reports'[x] \in {reports[x], None}
  BY DEF Forget, Typed, TypeOK, TableType
<1> QED
  BY <1>1, ReturnSeen DEF Keeps, Ending

\* The machine calls of reconcile.
LEMMA DriveKeeps ==
    ASSUME IInv, NEW p \in Lambdas, NEW h \in Hosts,
           RetireHost(p, h) \/ WakeHost(p, h) \/ ExpireHost(p, h) \/ WakeFails(p, h)
    PROVE  Keeps
<1>0. Typed
  BY DEF IInv
<1> USE DEF table, ec2
<1>1. CASE ExpireHost(p, h)
  BY <1>0, <1>1, QuietKeeps DEF ExpireHost
<1>2. CASE RetireHost(p, h) \/ WakeHost(p, h) \/ WakeFails(p, h)
  <2>1. UNCHANGED <<worker, reports, seen>>
    BY <1>2 DEF RetireHost, WakeHost, WakeFails
  <2>2. UNCHANGED machine \/ \E m \in Terminations(h) \cup {Woken(h)} : machine' = [machine EXCEPT ![h] = m]
    BY <1>2 DEF RetireHost, WakeHost, WakeFails, Launch
  <2>3. \A m \in Terminations(h) \cup {Woken(h)} :
          /\ machine[h] \in {"terminated", "purged"} => m \in {"terminated", "purged"}
          /\ Ending(h) => m \in {"shutting-down", "terminated", "purged"}
    BY DEF Terminations, Woken, Ending, Alive
  <2>4. machine \in [Hosts -> MachineState]
    BY <1>0 DEF Typed, TypeOK, Ec2Type
  <2> QED
    BY <2>1, <2>2, <2>3, <2>4 DEF Keeps, Ending
<1> QED
  BY <1>1, <1>2

\* Every step of an invocation keeps these things.
LEMMA SchedulerKeeps ==
    ASSUME IInv, NEW p \in Lambdas, Scheduler(p)
    PROVE  Keeps
<1>0. Typed
  BY DEF IInv
<1> USE DEF table, ec2
<1>1. ASSUME Create(p) PROVE Keeps
  BY <1>0, <1>1, QuietKeeps DEF Create, CreateLoad, CreateTombstoned, CreateChoose, CreateSave
<1>2. ASSUME Action(p) PROVE Keeps
  BY <1>0, <1>2, QuietKeeps DEF Action, ActionLoad, ActionReports, ActionSave
<1>3. ASSUME Destroy(p) PROVE Keeps
  BY <1>0, <1>3, QuietKeeps DEF Destroy, DestroyLoad, DestroySave
<1>4. ASSUME UpdateLoad(p) \/ UpdateSave(p) \/ ForgetLoad(p) \/ ForgetHost(p) PROVE Keeps
  BY <1>0, <1>4, QuietKeeps DEF UpdateLoad, UpdateSave, ForgetLoad, ForgetHost
<1>5. ASSUME NEW s \in Servers, ForgetServer(p, s) PROVE Keeps
  BY <1>0, <1>5, ForgetKeeps DEF ForgetServer
<1>6. ASSUME StopHost(p) PROVE Keeps
  <2>1. UNCHANGED <<worker, reports, seen>>
    BY <1>6 DEF StopHost
  <2>2. /\ machine' = [machine EXCEPT ![host[p]] = IF @ \in {"running", "closing", "pending"}
                                                   THEN "stopping" ELSE @]
        /\ machine \in [Hosts -> MachineState]
    BY <1>0, <1>6 DEF StopHost, Typed, TypeOK, Ec2Type
  <2> QED
    BY <2>1, <2>2 DEF Keeps, Ending
<1>7. ASSUME ReconcileHost(p) PROVE Keeps
  BY <1>4, <1>5, <1>6, <1>7, DriveKeeps DEF ReconcileHost
<1>8. ASSUME ReconcileReports(p) PROVE Keeps
  <2>1. /\ UNCHANGED <<worker, reports, machine>> /\ seen' = [seen EXCEPT ![p] = Reports]
    BY <1>8 DEF ReconcileReports
  <2>2. \A q \in Lambdas, s \in Servers : seen'[q][s] \in {seen[q][s], reports[s], None}
    BY <1>0, <2>1 DEF Reports, Typed, TypeOK, CallType
  <2> QED
    BY <2>1, <2>2 DEF Keeps, Ending
<1>9. ASSUME NEW s \in Servers, ReconcileForget(p, s) PROVE Keeps
  <2>1. UNCHANGED <<worker, machine>> /\ Return(p) /\ \E st : Forget(st, s)
    BY <1>9 DEF ReconcileForget
  <2> QED
    BY <1>0, <2>1, ForgetKeeps
<1>10. ASSUME ReconcileLoad(p) \/ ReconcileSave(p) \/ ReconcileDone(p) \/ Crash(p) PROVE Keeps
  BY <1>0, <1>10, QuietKeeps DEF ReconcileLoad, ReconcileSave, ReconcileDone, Crash
<1> QED
  BY <1>1, <1>2, <1>3, <1>7, <1>8, <1>9, <1>10, DriveKeeps DEF Scheduler, Reconcile

-----------------------------------------------------------------------------
(* What the hosts know stays true while invocations write the registry.    *)

\* Nothing known of a server: nothing of it is anywhere.
LEMMA Unknown ==
    ASSUME HInv, NEW s \in Servers, ~Known(s)
    PROVE  /\ local[s] = None /\ reports[s] = None
           /\ \A h \in Hosts : wview[h][s] = None
           /\ \A q \in Lambdas : seen[q][s] = None
BY DEF HInv, Heard, LocalOK, ViewOK, ReportOK

\* A number of a request, or none.
LEMMA RequestNumbers ==
    ASSUME Typed
    PROVE  /\ issued \in Nat
           /\ \A s \in Servers : reg.servers[s] # None =>
                reg.servers[s].req \in Nat /\ reg.servers[s].host \in Hosts
           /\ \A s \in Servers : local[s] # None => local[s].req \in Nat /\ local[s].host \in Hosts
           /\ \A h \in Hosts, s \in Servers : wview[h][s] # None => wview[h][s].req \in Nat
           /\ \A s \in Servers : reports[s] # None => reports[s].req \in Nat
           /\ \A q \in Lambdas, s \in Servers : seen[q][s] # None => seen[q][s].req \in Nat
<1> USE DEF Typed, TypeOK, Requests
<1>1. issued \in Nat
  BY ConfigAssumption DEF CountType
<1>2. \A s \in Servers : reg.servers[s] # None => reg.servers[s].req \in Nat /\ reg.servers[s].host \in Hosts
  BY ConfigAssumption DEF TableType, State, ServerRec
<1>3. \A s \in Servers : local[s] # None => local[s].req \in Nat /\ local[s].host \in Hosts
  BY ConfigAssumption DEF WorkerType, InstanceRec
<1>4. \A h \in Hosts, s \in Servers : wview[h][s] # None => wview[h][s].req \in Nat
  BY ConfigAssumption DEF WorkerType, ServerRec
<1>5. \A s \in Servers : reports[s] # None => reports[s].req \in Nat
  BY ConfigAssumption DEF TableType, ReportRec
<1>6. \A q \in Lambdas, s \in Servers : seen[q][s] # None => seen[q][s].req \in Nat
  BY ConfigAssumption DEF CallType, ReportRec
<1> QED
  BY <1>1, <1>2, <1>3, <1>4, <1>5, <1>6

\* What is cleared stays so, and a report keeps its claim, under a step that
\* leaves the hosts alone and the server as it was or amended.
LEMMA AmendedHeard ==
    ASSUME HInv, IInv', NEW p \in Lambdas, Keeps, issued' \in {issued, issued + 1}, tomb \subseteq tomb',
           NEW s \in Servers, ServerAmended(p, s)
    PROVE  Heard(s)' /\ (reg'.servers[s] # None => reg'.servers[s].req <= issued')
<1> DEFINE old == reg.servers[s]
           new == reg'.servers[s]
<1>1. /\ issued \in Nat /\ issued' \in Nat /\ issued <= issued'
      /\ old # None => old.req \in Nat /\ old.req <= issued /\ old.host \in Hosts
      /\ new # None => new.req \in Nat
      /\ local[s] # None => local[s].req \in Nat /\ local[s].host \in Hosts
  BY RequestNumbers DEF HInv, IInv, Numbered, Typed, TypeOK, TableType, State, ServerRec, Requests
<1>2. /\ UNCHANGED <<wview, local>>
      /\ \A h \in Hosts : /\ machine[h] \in {"terminated", "purged"} => machine'[h] \in {"terminated", "purged"}
                          /\ Ending(h) => Ending(h)'
  BY DEF Keeps, worker
<1>3. /\ Known(s) => Known(s)'
      /\ new # None =>
           /\ old # None /\ new.host = old.host /\ new.req >= old.req
           /\ old.desired = "deleted" => new.desired = "deleted"
           /\ \/ new.req = old.req /\ new.desired = old.desired
              \/ new.req = old.req /\ old.desired = "running" /\ new.desired = "stopped"
              \/ new.req > issued
  BY <1>1 DEF ServerAmended, Known
<1>4. LocalOK(s) /\ (\A h \in Hosts : ViewOK(h, s))
  BY DEF HInv, Heard
<1>5. Cleared(s) => Cleared(s)'
  BY <1>1, <1>2 DEF Cleared, Ending
<1>6. LocalOK(s)'
  BY <1>1, <1>2, <1>3, <1>4 DEF LocalOK, Known
<1>7. ASSUME NEW h \in Hosts PROVE ViewOK(h, s)'
  <2>1. wview[h][s] # None => wview[h][s].req \in Nat
    BY RequestNumbers DEF HInv, IInv
  <2> QED
    BY <1>1, <1>2, <1>3, <1>4, <2>1 DEF ViewOK, Known
<1>8. ASSUME NEW r, ReportOK(r, s), r # None => r.req \in Nat
      PROVE  r # None =>
                /\ Known(s)' /\ r.req <= issued'
                /\ r.desired = "deleted" /\ r.phase = "deleted" /\ ~r.error =>
                     /\ new # None => new.desired = "deleted"
                     /\ Cleared(s)'
                /\ r.desired = "stopped" /\ r.phase = "stopped" /\ ~r.error =>
                     (new # None /\ r.req = new.req /\ new.desired = "running" => StoppedItself(s)')
  <2>1. ASSUME r # None, r.desired = "stopped", r.phase = "stopped", ~r.error,
               new # None, r.req = new.req, new.desired = "running"
        PROVE  StoppedItself(s)'
    <3>1. old # None /\ new.req = old.req /\ new.host = old.host /\ old.desired = "running" /\ r.req = old.req
      BY <1>1, <1>3, <1>8, <2>1 DEF ReportOK
    <3>2. StoppedItself(s)
      BY <1>8, <2>1, <3>1 DEF ReportOK
    <3> QED
      BY <1>1, <1>2, <3>1, <3>2 DEF StoppedItself
  <2> QED
    BY <1>1, <1>3, <1>5, <1>8, <2>1 DEF ReportOK
<1>9. /\ ReportOK(reports[s], s) /\ (reports[s] # None => reports[s].req \in Nat)
      /\ \A q \in Lambdas : ReportOK(seen[q][s], s) /\ (seen[q][s] # None => seen[q][s].req \in Nat)
  BY RequestNumbers DEF HInv, Heard, IInv
<1>10. ReportOK(reports[s], s)'
  BY <1>8, <1>9 DEF Keeps, ReportOK
<1>11. ASSUME NEW q \in Lambdas PROVE ReportOK(seen[q][s], s)'
  <2>1. seen'[q][s] \in {seen[q][s], reports[s], None}
    BY DEF Keeps
  <2> QED
    BY <1>8, <1>9, <2>1 DEF ReportOK
<1>12. s \in tomb' => Cleared(s)'
  <2>1. CASE s \in tomb
    BY <1>5, <2>1 DEF HInv, Heard
  <2>2. CASE s \in tomb' /\ s \notin tomb
    <3>1. new = None /\ old # None /\ (Confirms(p, s) \/ GoneAt(old.host))
      BY <2>2 DEF ServerAmended, IInv, Buried
    <3>2. CASE Confirms(p, s)
      BY <1>5, <1>9, <3>2 DEF Confirms, ReportOK
    <3>3. CASE GoneAt(old.host)
      BY <1>4, <1>5, <3>1, <3>3 DEF GoneAt, Cleared, Ending, LocalOK, ViewOK
    <3> QED
      BY <3>1, <3>2, <3>3
  <2> QED
    BY <2>1, <2>2
<1>13. new # None => new.req <= issued'
  BY <1>1 DEF ServerAmended
<1> QED
  BY <1>6, <1>7, <1>10, <1>11, <1>12, <1>13 DEF Heard

\* What the Save of a Create adds.
LEMMA AddsOne ==
    ASSUME IInv, NEW p \in Lambdas, Adds(p)
    PROVE  /\ pc[p] = "createSave" /\ snap[p] = reg
           /\ target[p] \in Servers /\ host[p] \in Hosts /\ ask[p] \in Ask
           /\ reg.servers[target[p]] = None /\ target[p] \notin tomb
           /\ reg'.servers = [reg.servers EXCEPT ![target[p]] = NewServer(ask[p].game, host[p], issued + 1)]
           /\ reg'.hosts = [reg.hosts EXCEPT ![host[p]] = IF @ = None THEN NewHost(ask[p].release) ELSE @]
           /\ NewServer(ask[p].game, host[p], issued + 1) \in ServerRec
           /\ NewHost(ask[p].release) \in HostRec
           /\ issued' = issued + 1 /\ UNCHANGED <<tomb, reports>>
<1> DEFINE new == Created(p)
           h == host[p]
           s == target[p]
<1>1. pc[p] = "createSave" /\ snap[p] = reg /\ issued' = issued + 1 /\ UNCHANGED <<tomb, reports>>
  BY CurrentSnap DEF Adds, CreateSave
<1>2. /\ h \in Hosts /\ s \in Servers /\ ask[p] \in Ask /\ reg.servers[s] = None /\ reg \in State
  BY <1>1 DEF IInv, Typed, TypeOK, TableType, CallOK
<1>3. s \notin tomb
  BY <1>1 DEF IInv, Buried
<1>4. new = [reg EXCEPT !.hosts[h] = IF @ = None THEN NewHost(ask[p].release) ELSE @,
                        !.servers[s] = NewServer(ask[p].game, h, issued + 1)]
  BY <1>1 DEF Created
<1>5. Current(new) /\ Save(new)
  BY <1>1, <1>2, <1>4 DEF Current, State, Adds, CreateSave
<1>6. reg' = [new EXCEPT !.rev = new.rev + 1]
  BY <1>5 DEF Save, Put
<1>7. /\ reg'.servers = [reg.servers EXCEPT ![s] = NewServer(ask[p].game, h, issued + 1)]
      /\ reg'.hosts = [reg.hosts EXCEPT ![h] = IF @ = None THEN NewHost(ask[p].release) ELSE @]
  BY <1>2, <1>4, <1>6 DEF State
<1>8. issued + 1 \in Requests
  BY ConfigAssumption DEF Adds, CreateSave, IInv, Typed, TypeOK, CountType, Requests
<1>9. NewServer(ask[p].game, h, issued + 1) \in ServerRec /\ NewHost(ask[p].release) \in HostRec
  BY <1>2, <1>8 DEF NewServer, NewHost, ServerRec, HostRec, Ask, Desired
<1> QED
  BY <1>1, <1>2, <1>3, <1>7, <1>9

\* A new server has an ID nobody knew, so nothing is claimed of it yet.
LEMMA AddedHeard ==
    ASSUME HInv, IInv', NEW p \in Lambdas, Keeps, Adds(p)
    PROVE  Numbered' /\ \A s \in Servers : Heard(s)'
<1>0. IInv
  BY DEF HInv
<1> DEFINE v == NewServer(ask[p].game, host[p], issued + 1)
<1>1. /\ target[p] \in Servers /\ reg.servers[target[p]] = None /\ target[p] \notin tomb
      /\ reg'.servers = [reg.servers EXCEPT ![target[p]] = v] /\ v \in ServerRec
      /\ issued' = issued + 1 /\ UNCHANGED <<tomb, reports>>
  BY <1>0, AddsOne
<1>2. reg.servers \in [Servers -> ServerRec \cup {None}] /\ v.req = issued + 1
  BY <1>0 DEF IInv, Typed, TypeOK, TableType, State, NewServer
<1> HIDE DEF v
<1>3. ASSUME NEW s \in Servers
      PROVE  Heard(s)' /\ (reg'.servers[s] # None => reg'.servers[s].req <= issued')
  <2>1. CASE s # target[p]
    <3>1. reg'.servers[s] = reg.servers[s]
      BY <1>1, <1>2, <2>1
    <3>2. ServerAmended(p, s)
      BY <1>1, <3>1 DEF ServerAmended
    <3> QED
      BY <1>1, <3>2, AmendedHeard
  <2>2. CASE s = target[p]
    <3>1. /\ local[s] = None /\ reports[s] = None
          /\ \A h \in Hosts : wview[h][s] = None
          /\ \A q \in Lambdas : seen[q][s] = None
      BY <1>1, <2>2, Unknown DEF Known
    <3>2. /\ local'[s] = None /\ reports'[s] = None
          /\ \A h \in Hosts : wview'[h][s] = None
          /\ \A q \in Lambdas : seen'[q][s] = None
      BY <1>1, <3>1 DEF Keeps, worker
    <3>3. Heard(s)'
      BY <1>1, <2>2, <3>2 DEF Heard, LocalOK, ViewOK, ReportOK
    <3>4. reg'.servers[s].req <= issued'
      BY <1>0, <1>1, <1>2, <2>2, RequestNumbers DEF IInv
    <3> QED
      BY <3>3, <3>4
  <2> QED
    BY <2>1, <2>2
<1> QED
  BY <1>3 DEF Numbered

\* A step of an invocation.
LEMMA SchedulerHeard ==
    ASSUME HInv, IInv', NEW p \in Lambdas, Scheduler(p)
    PROVE  HInv'
<1>0. IInv
  BY DEF HInv
<1>1. Keeps /\ RegSteps(p)
  BY <1>0, SchedulerKeeps, SchedulerReg
<1>2. CASE Adds(p)
  BY <1>1, <1>2, AddedHeard DEF HInv
<1>3. CASE ~Adds(p)
  <2>1. /\ issued' \in {issued, issued + 1} /\ tomb \subseteq tomb'
        /\ \A s \in Servers : ServerAmended(p, s)
    BY <1>1, <1>3 DEF RegSteps, Amends, ServerAmended
  <2>2. \A s \in Servers : Heard(s)' /\ (reg'.servers[s] # None => reg'.servers[s].req <= issued')
    BY <1>1, <2>1, AmendedHeard
  <2> QED
    BY <2>2 DEF HInv, Numbered
<1> QED
  BY <1>2, <1>3

-----------------------------------------------------------------------------
(* The steps of the hosts, of EC2 and of time.                             *)

\* What such a step leaves alone.
Beside == UNCHANGED <<reg, tomb, issued, calls>>

\* The same instance, but for an error it has forgotten.
SameInstance(s) ==
    LET i == local[s] j == local'[s]
    IN  /\ i = None <=> j = None
        /\ i # None => j.host = i.host /\ j.req = i.req /\ j.desired = i.desired /\ j.phase = i.phase

\* A server nobody touches: same instance, same loaded record or none, same
\* report, on a machine that does not come back.
LEMMA UntouchedHeard ==
    ASSUME HInv, Beside, NEW s \in Servers, SameInstance(s), reports'[s] = reports[s],
           \A h \in Hosts : wview'[h][s] \in {wview[h][s], None},
           \A h \in Hosts :
                /\ machine[h] \in {"terminated", "purged"} => machine'[h] \in {"terminated", "purged"}
                /\ Ending(h) => Ending(h)'
    PROVE  Heard(s)'
<1>1. UNCHANGED <<reg, tomb, issued, seen>> /\ IInv /\ Heard(s)
  BY DEF Beside, calls, HInv
<1>2. /\ local[s] # None => local[s].host \in Hosts
      /\ reg.servers[s] # None => reg.servers[s].host \in Hosts
  BY <1>1, RequestNumbers DEF IInv
<1>3. Cleared(s) => Cleared(s)'
  BY <1>2 DEF Cleared, Ending, SameInstance
<1>4. reg.servers[s] # None /\ StoppedItself(s) => StoppedItself(s)'
  BY <1>1, <1>2 DEF StoppedItself, SameInstance
<1>5. LocalOK(s)'
  BY <1>1 DEF Heard, LocalOK, Known, SameInstance
<1>6. ASSUME NEW h \in Hosts PROVE ViewOK(h, s)'
  <2>1. ViewOK(h, s) /\ wview'[h][s] \in {wview[h][s], None}
    BY <1>1 DEF Heard
  <2> QED
    BY <1>1, <2>1 DEF ViewOK, Known, SameInstance
<1>7. ReportOK(reports[s], s)' /\ \A q \in Lambdas : ReportOK(seen[q][s], s)'
  BY <1>1, <1>3, <1>4 DEF Heard, ReportOK, Known
<1> QED
  BY <1>1, <1>3, <1>5, <1>6, <1>7 DEF Heard

\* A worker loads the servers of its host.
LEMMA LoadHeard ==
    ASSUME HInv, Beside, NEW h \in Hosts, WorkerLoad(h), NEW s \in Servers
    PROVE  Heard(s)'
<1>1. UNCHANGED <<reg, tomb, issued, seen, reports, local, machine>> /\ IInv /\ Heard(s)
  BY DEF WorkerLoad, Beside, calls, HInv, table, ec2
<1> DEFINE v == reg.servers[s]
<1>2. /\ wview'[h][s] = IF v # None /\ v.host = h THEN v ELSE None
      /\ \A k \in Hosts \ {h} : wview'[k][s] = wview[k][s]
  BY <1>1 DEF WorkerLoad, OnHost, ServerIDs, IInv, Typed, TypeOK, WorkerType
<1>3. /\ v # None => v.req \in Nat /\ v.req <= issued
      /\ s \in tomb => v = None
  BY <1>1, RequestNumbers DEF HInv, Numbered, IInv, Buried
<1>4. ASSUME NEW k \in Hosts, wview'[k][s] # None, k # h \/ v = None \/ v.host # h
      PROVE  k # h /\ ViewOK(k, s)'
  <2>1. k # h /\ wview'[k][s] = wview[k][s]
    BY <1>2, <1>4
  <2>2. ViewOK(k, s)
    BY <1>1 DEF Heard
  <2>3. v # None => v.host = k
    BY <1>4, <2>1, <2>2 DEF ViewOK
  <2>4. wview'[h][s] = None
    BY <1>2, <2>1, <2>3
  <2> QED
    BY <1>1, <1>2, <1>4, <2>1, <2>2, <2>4 DEF ViewOK, Known
<1>5. ASSUME v # None, v.host = h PROVE ViewOK(h, s)'
  <2>1. ASSUME NEW k \in Hosts \ {h} PROVE wview'[k][s] = None
    <3>1. ViewOK(k, s) /\ wview'[k][s] = wview[k][s]
      BY <1>1, <1>2 DEF Heard
    <3> QED
      BY <1>5, <3>1 DEF ViewOK
  <2>2. wview'[h][s] = v
    BY <1>2, <1>5
  <2> QED
    BY <1>1, <1>3, <1>5, <2>1, <2>2 DEF ViewOK, Known, Heard, LocalOK
<1>6. ASSUME NEW k \in Hosts PROVE ViewOK(k, s)'
  <2>1. CASE wview'[k][s] = None
    BY <2>1 DEF ViewOK
  <2> QED
    BY <1>4, <1>5, <2>1
<1>7. ASSUME Cleared(s), v # None => v.desired = "deleted" PROVE Cleared(s)'
  BY <1>1, <1>2, <1>7 DEF Cleared, Ending
<1>8. LocalOK(s)' /\ (reg.servers[s] # None /\ StoppedItself(s) => StoppedItself(s)')
  BY <1>1 DEF Heard, LocalOK, Known, StoppedItself
<1>9. ReportOK(reports[s], s)' /\ \A q \in Lambdas : ReportOK(seen[q][s], s)'
  BY <1>1, <1>7, <1>8 DEF Heard, ReportOK, Known
<1> QED
  BY <1>1, <1>3, <1>6, <1>7, <1>8, <1>9 DEF Heard

\* One server handled by a worker.
LEMMA SyncHeard ==
    ASSUME HInv, Beside, Typed', NEW h \in Hosts, NEW s \in Servers, WorkerSync(h, s)
    PROVE  Heard(s)'
<1> DEFINE v == wview[h][s]
           i == local[s]
           j == local'[s]
           cur == reg.servers[s]
<1>1. Takes(h, s) /\ UNCHANGED <<reg, tomb, issued, seen, machine>> /\ IInv /\ Heard(s)
  BY DEF WorkerSync, SyncTimeout, SyncAbsent, SyncAccept, SyncFails, SyncRefused, SyncReport,
         Beside, calls, HInv, Takes, ec2
<1>2. /\ v # None /\ machine[h] \in Up
      /\ wview'[h][s] = None /\ \A k \in Hosts : wview'[k][s] \in {wview[k][s], None}
  BY <1>1 DEF Takes, IInv, Typed, TypeOK, WorkerType
<1>3. LocalOK(s) /\ ViewOK(h, s) /\ \A k \in Hosts : wview'[k][s] = None
  <2>1. LocalOK(s) /\ ViewOK(h, s)
    BY <1>1 DEF Heard
  <2> QED
    BY <1>2, <2>1 DEF ViewOK
<1>4. /\ v.req \in Nat /\ v.req <= issued /\ issued \in Nat /\ Known(s)
      /\ i # None => i.req \in Nat /\ i.host = h /\ i.req <= v.req
      /\ cur # None => /\ cur.req \in Nat /\ cur.host = h /\ v.req <= cur.req
                       /\ v.desired = "deleted" => cur.desired = "deleted"
                       /\ v.req = cur.req /\ cur.desired = "running" => v.desired = "running"
  BY <1>1, <1>2, <1>3, RequestNumbers DEF IInv, ViewOK
<1>5. \/ /\ j = i
      \/ /\ i # None /\ i.desired \notin {"deleted", "stopped"} /\ v.desired = "running"
         /\ j.host = i.host /\ j.req = i.req /\ j.desired = "stopped"
      \/ /\ Asks(v, i) /\ j = Accepted(h, v, i)
  <2>1. CASE SyncTimeout(h, s)
    <3>1. local \in [Servers -> InstanceRec \cup {None}] /\ v.desired = "running" /\ (i # None => i.desired # "deleted")
      BY <1>1, <2>1 DEF SyncTimeout, startupExpired, IInv, Typed, TypeOK, WorkerType
    <3>2. \/ local' = local
          \/ /\ i # None /\ i.desired # "stopped"
             /\ local' = [local EXCEPT ![s].desired = "stopped", ![s].error = FALSE]
      BY <2>1 DEF SyncTimeout
    <3>3. CASE local' = [local EXCEPT ![s].desired = "stopped", ![s].error = FALSE] /\ i # None
      <4>1. i \in InstanceRec
        BY <3>1, <3>3
      <4>2. j.host = i.host /\ j.req = i.req /\ j.desired = "stopped"
        BY <3>1, <3>3, <4>1 DEF InstanceRec
      <4> QED
        BY <3>1, <3>2, <4>2
    <3> QED
      BY <3>2, <3>3
  <2>2. CASE SyncAccept(h, s)
    BY <1>1, <2>2 DEF SyncAccept, IInv, Typed, TypeOK, WorkerType
  <2>3. CASE SyncAbsent(h, s) \/ SyncFails(h, s) \/ SyncRefused(h, s) \/ SyncReport(h, s)
    BY <2>3 DEF SyncAbsent, SyncFails, SyncRefused, SyncReport
  <2> QED
    BY <2>1, <2>2, <2>3 DEF WorkerSync
<1>6. ASSUME Asks(v, i), j = Accepted(h, v, i)
      PROVE  /\ j.host = h /\ j.req = v.req /\ j.desired = v.desired
             /\ i # None => i.req # v.req /\ (v.desired = "deleted" => j.phase = i.phase)
             /\ i = None => v.desired = "running"
  <2>1. CASE i = None
    BY <1>6, <2>1 DEF Asks, Accepted
  <2>2. CASE i # None
    <3>1. i \in InstanceRec
      BY <1>1, <2>2 DEF IInv, Typed, TypeOK, WorkerType
    <3> QED
      BY <1>4, <1>6, <2>2, <3>1 DEF Asks, Accepted, InstanceRec
  <2> QED
    BY <2>1, <2>2
<1>7. LocalOK(s)'
  BY <1>1, <1>3, <1>4, <1>5, <1>6 DEF LocalOK, Known
<1>8. ASSUME Cleared(s) PROVE Cleared(s)'
  <2>1. CASE Ending(h)
    <3>1. j # None => j.host = h
      BY <1>4, <1>5, <1>6
    <3> QED
      BY <1>1, <1>3, <2>1, <3>1 DEF Cleared, Ending
  <2>2. CASE ~Ending(h)
    <3>1. v.desired = "deleted" /\ (i # None => i.phase = "deleted" /\ i.desired = "deleted")
      BY <1>2, <1>4, <1>8, <2>2 DEF Cleared
    <3>2. j # None => j.phase = "deleted" /\ j.desired = "deleted"
      BY <1>5, <1>6, <3>1
    <3> QED
      BY <1>3, <3>2 DEF Cleared
  <2> QED
    BY <2>1, <2>2
<1>9. ASSUME cur # None, StoppedItself(s) PROVE StoppedItself(s)'
  <2>1. i # None /\ i.req = cur.req /\ i.desired = "stopped"
    BY <1>2, <1>4, <1>9 DEF StoppedItself, Up
  <2>2. j = i
    BY <1>4, <1>5, <1>6, <1>9, <2>1
  <2> QED
    BY <1>1, <2>1, <2>2 DEF StoppedItself
<1>10. \A q \in Lambdas : ReportOK(seen[q][s], s)'
  BY <1>1, <1>8, <1>9 DEF Heard, ReportOK, Known
<1>11. \/ reports'[s] = reports[s]
       \/ LET r == reports'[s]
          IN  /\ s \notin tomb /\ r.req = v.req
              /\ \/ r.error
                 \/ j = None /\ r.desired = v.desired /\ v.desired # "running"
                 \/ /\ r.desired = j.desired /\ (r.phase = "deleted" => j.phase = "deleted")
                    /\ j.req = v.req
                    /\ j.desired = v.desired \/ (j = i /\ i # None)
  <2>1. ASSUME NEW r, Publish(s, r) PROVE reports'[s] = reports[s] \/ (s \notin tomb /\ reports'[s] = r)
    BY <1>1, <2>1 DEF Publish, IInv, Typed, TypeOK, TableType
  <2>2. CASE SyncTimeout(h, s)
    BY <2>1, <2>2 DEF SyncTimeout, Report
  <2>3. CASE SyncFails(h, s)
    BY <2>1, <2>3 DEF SyncFails, Report
  <2>4. CASE SyncAbsent(h, s)
    BY <2>1, <2>4 DEF SyncAbsent, Report
  <2>5. CASE SyncRefused(h, s)
    BY <2>5 DEF SyncRefused
  <2>6. CASE SyncAccept(h, s)
    <3>1. Asks(v, i) /\ j = Accepted(h, v, i)
      BY <1>1, <2>6 DEF SyncAccept, IInv, Typed, TypeOK, WorkerType
    <3>2. j.req = v.req /\ j.desired = v.desired
      BY <1>6, <3>1
    <3>3. Publish(s, ReportOf(h, v, j, TRUE)) \/ UNCHANGED reports
      BY <2>6 DEF SyncAccept
    <3> QED
      BY <2>1, <3>2, <3>3 DEF ReportOf, Report
  <2>7. CASE SyncReport(h, s)
    <3>1. /\ i # None /\ j = i /\ i.req = v.req
          /\ \E news \in BOOLEAN : Publish(s, ReportOf(h, v, i, news))
      BY <2>7 DEF SyncReport
    <3> QED
      BY <2>1, <3>1 DEF ReportOf, Report
  <2> QED
    BY <2>2, <2>3, <2>4, <2>5, <2>6, <2>7 DEF WorkerSync
<1>12. ReportOK(reports[s], s)'
  <2>1. CASE reports'[s] = reports[s]
    BY <1>1, <1>8, <1>9, <2>1 DEF Heard, ReportOK, Known
  <2>2. CASE reports'[s] # reports[s]
    <3> DEFINE r == reports'[s]
    <3>1. /\ s \notin tomb /\ r.req = v.req /\ cur # None
          /\ \/ r.error
             \/ j = None /\ r.desired = v.desired /\ v.desired # "running"
             \/ /\ r.desired = j.desired /\ (r.phase = "deleted" => j.phase = "deleted")
                /\ j.req = v.req
                /\ j.desired = v.desired \/ (j = i /\ i # None)
      BY <1>4, <1>11, <2>2 DEF Known
    <3>2. ASSUME r.desired = "deleted", r.phase = "deleted", ~r.error
          PROVE  cur.desired = "deleted" /\ Cleared(s)'
      <4>1. cur.desired = "deleted"
        BY <1>3, <1>4, <3>1, <3>2 DEF LocalOK
      <4>2. j # None => j.phase = "deleted" /\ j.desired = "deleted"
        BY <3>1, <3>2
      <4> QED
        BY <1>3, <4>1, <4>2 DEF Cleared
    <3>3. ASSUME r.desired = "stopped", ~r.error, r.req = cur.req, cur.desired = "running"
          PROVE  StoppedItself(s)'
      <4>1. j # None /\ j.req = cur.req /\ j.desired = "stopped"
        BY <1>4, <3>1, <3>3
      <4> QED
        BY <1>1, <4>1 DEF StoppedItself
    <3> QED
      BY <1>1, <1>4, <3>1, <3>2, <3>3 DEF ReportOK, Known
  <2> QED
    BY <2>1, <2>2
<1> QED
  BY <1>1, <1>3, <1>7, <1>8, <1>10, <1>12 DEF Heard, ViewOK

\* An instance has the fields of a report, and neither is None.
LEMMA NoInstance == None \notin InstanceRec
BY NoneAssumption DEF InstanceRec, ReportRec

\* The controller of a running machine: an instance that is cleared, or stopped
\* for the current request, is settled.
LEMMA ControllerHeard ==
    ASSUME HInv, Beside, NEW s \in Servers, Controller(s)
    PROVE  Heard(s)'
<1> DEFINE i == local[s]
           j == local'[s]
<1>1. UNCHANGED <<reg, tomb, issued, seen, reports, wview, machine>> /\ IInv /\ Heard(s)
  BY DEF Controller, ControllerSettles, ControllerStopsBadly, ControllerIdleStop, ControllerFails, ControllerRecovers,
         Beside, calls, HInv, table, ec2
<1>2. i # None /\ i \in InstanceRec /\ local \in [Servers -> InstanceRec \cup {None}] /\ machine[i.host] = "running"
  BY <1>1 DEF Controller, ControllerSettles, ControllerStopsBadly, ControllerIdleStop, ControllerFails, ControllerRecovers,
              Unsettled, Runs, IInv, Typed, TypeOK, WorkerType
<1>3. /\ j \in InstanceRec /\ j.host = i.host /\ j.req = i.req
      /\ j.desired = i.desired \/ (i.desired = "running" /\ j.desired = "stopped")
      /\ i.phase # i.desired \/ i.desired = "running"
  <2>1. CASE ControllerSettles(s)
    <3> DEFINE w == [i EXCEPT !.phase = i.desired, !.error = FALSE]
    <3>1. j = w
      BY <1>2, <2>1 DEF ControllerSettles
    <3>2. w \in InstanceRec /\ w.host = i.host /\ w.req = i.req
          /\ w.desired = i.desired
      BY <1>2, <2>1 DEF ControllerSettles, InstanceRec, Desired, Phases
    <3> QED
      BY <1>2, <2>1, <3>1, <3>2 DEF ControllerSettles, Unsettled
  <2>2. CASE ControllerStopsBadly(s)
    <3> DEFINE w == [i EXCEPT !.phase = "stopped", !.error = TRUE]
    <3>1. j = w
      BY <1>2, <2>2 DEF ControllerStopsBadly
    <3>2. w \in InstanceRec /\ w.host = i.host /\ w.req = i.req
          /\ w.desired = i.desired
      BY <1>2, <2>2 DEF ControllerStopsBadly, InstanceRec, Desired, Phases
    <3> QED
      BY <1>2, <2>2, <3>1, <3>2 DEF ControllerStopsBadly, Unsettled
  <2>3. CASE ControllerIdleStop(s)
    <3> DEFINE w == [i EXCEPT !.desired = "stopped"]
    <3>1. j = w
      BY <1>2, <2>3 DEF ControllerIdleStop
    <3>2. w \in InstanceRec /\ w.host = i.host /\ w.req = i.req
          /\ w.desired = "stopped"
      BY <1>2, <2>3 DEF ControllerIdleStop, InstanceRec, Desired, Phases
    <3> QED
      BY <1>2, <2>3, <3>1, <3>2 DEF ControllerIdleStop, Unsettled
  <2>4. CASE ControllerFails(s)
    <3> DEFINE w == [i EXCEPT !.phase = "failed", !.error = TRUE]
    <3>1. j = w
      BY <1>2, <2>4 DEF ControllerFails
    <3>2. w \in InstanceRec /\ w.host = i.host /\ w.req = i.req
          /\ w.desired = i.desired
      BY <1>2, <2>4 DEF ControllerFails, InstanceRec, Desired, Phases
    <3> QED
      BY <1>2, <2>4, <3>1, <3>2 DEF ControllerFails, Unsettled
  <2>5. CASE ControllerRecovers(s)
    <3> DEFINE w == [i EXCEPT !.phase = "running", !.error = FALSE]
    <3>1. j = w
      BY <1>2, <2>5 DEF ControllerRecovers
    <3>2. w \in InstanceRec /\ w.host = i.host /\ w.req = i.req
          /\ w.desired = i.desired
      BY <1>2, <2>5 DEF ControllerRecovers, InstanceRec, Desired, Phases
    <3> QED
      BY <1>2, <2>5, <3>1, <3>2 DEF ControllerRecovers
  <2> QED
    BY <2>1, <2>2, <2>3, <2>4, <2>5 DEF Controller
<1>4. j # None
  BY <1>3, NoInstance
<1>5. ~Cleared(s)
  BY <1>2, <1>3 DEF Cleared, Ending
<1>6. StoppedItself(s) => StoppedItself(s)'
  BY <1>1, <1>2, <1>3, <1>4 DEF StoppedItself
<1>8. LocalOK(s)'
  BY <1>1, <1>2, <1>3 DEF Heard, LocalOK, Known
<1>9. ASSUME NEW h \in Hosts PROVE ViewOK(h, s)'
  <2>1. ViewOK(h, s)
    BY <1>1 DEF Heard
  <2> QED
    BY <1>1, <1>2, <1>3, <2>1 DEF ViewOK, Known
<1>10. ReportOK(reports[s], s)' /\ \A q \in Lambdas : ReportOK(seen[q][s], s)'
  BY <1>1, <1>5, <1>6 DEF Heard, ReportOK, Known
<1> QED
  BY <1>1, <1>5, <1>8, <1>9, <1>10 DEF Heard

\* A machine changes state, perhaps taking its worker or its disk with it.
LEMMA MachineHeard ==
    ASSUME HInv, Beside, NEW h \in Hosts, NEW s \in Servers,
           Machine(h) \/ MachinePowersOff(h) \/ MachineLost(h) \/ MachinePurged(h)
    PROVE  Heard(s)'
<1> USE DEF table
<1>1. /\ UNCHANGED <<reg, tomb, issued, seen, reports>> /\ IInv /\ Heard(s)
      /\ machine \in [Hosts -> MachineState] /\ local \in [Servers -> InstanceRec \cup {None}]
      /\ wview \in [Hosts -> [Servers -> ServerRec \cup {None}]]
  BY DEF Machine, MachineListed, MachineBoots, MachineStops, MachineTerminates, DiskDeleted,
         MachinePowersOff, MachineLost, MachinePurged, Beside, calls, HInv, IInv, Typed, TypeOK, Ec2Type, WorkerType
<1>2. ASSUME NEW x \in Hosts
      PROVE  /\ machine[x] \in {"terminated", "purged"} => machine'[x] \in {"terminated", "purged"}
             /\ Ending(x) => Ending(x)'
  BY <1>1 DEF Machine, MachineListed, MachineBoots, MachineStops, MachineTerminates, DiskDeleted,
              MachinePowersOff, MachineLost, MachinePurged, Becomes, Alive, Ending
<1>3. \A x \in Hosts : wview'[x][s] \in {wview[x][s], None}
  BY <1>1 DEF Machine, MachineListed, MachineBoots, MachineStops, MachineTerminates, DiskDeleted,
              MachinePowersOff, MachineLost, MachinePurged, WorkerDies, NoReports, worker
<1>4. CASE MachineBoots(h)
  <2>1. CASE local'[s] = local[s]
    BY <1>1, <1>2, <1>3, <2>1, UntouchedHeard DEF SameInstance
  <2>2. CASE local'[s] # local[s]
    <3>1. local[s] # None /\ local[s] \in InstanceRec /\ local'[s] = [local[s] EXCEPT !.error = FALSE]
      BY <1>1, <1>4, <2>2 DEF MachineBoots, Holds
    <3>2. local'[s] \in InstanceRec
      BY <3>1 DEF InstanceRec
    <3>3. SameInstance(s)
      BY <3>1, <3>2, NoInstance DEF SameInstance, InstanceRec
    <3> QED
      BY <1>1, <1>2, <1>3, <3>3, UntouchedHeard
  <2> QED
    BY <2>1, <2>2
<1>5. CASE DiskDeleted(h) /\ s \in Holds(h)
  <2>1. /\ local[s] # None /\ local[s].host = h /\ local'[s] = None
        /\ machine[h] \in {"terminated", "purged"} /\ UNCHANGED <<machine, wview>>
    BY <1>5 DEF DiskDeleted, Holds
  <2>2. LocalOK(s)' /\ (Cleared(s) => Cleared(s)')
    BY <2>1 DEF LocalOK, Cleared, Ending
  <2>3. reg.servers[s] # None => StoppedItself(s)'
    BY <1>1, <2>1 DEF StoppedItself, Heard, LocalOK
  <2>4. ASSUME NEW k \in Hosts PROVE ViewOK(k, s)'
    <3>1. ViewOK(k, s)
      BY <1>1 DEF Heard
    <3> QED
      BY <1>1, <2>1, <3>1 DEF ViewOK, Known
  <2>5. ReportOK(reports[s], s)' /\ \A q \in Lambdas : ReportOK(seen[q][s], s)'
    BY <1>1, <2>2, <2>3 DEF Heard, ReportOK, Known
  <2> QED
    BY <1>1, <2>2, <2>4, <2>5 DEF Heard
<1>6. CASE ~MachineBoots(h) /\ ~(DiskDeleted(h) /\ s \in Holds(h))
  <2>1. local'[s] = local[s]
    BY <1>6 DEF Machine, MachineListed, MachineStops, MachineTerminates, DiskDeleted,
                MachinePowersOff, MachineLost, MachinePurged, worker
  <2> QED
    BY <1>1, <1>2, <1>3, <2>1, UntouchedHeard DEF SameInstance
<1> QED
  BY <1>4, <1>5, <1>6

\* A step of a host, of EC2 or of time.
LEMMA HostSideHeard ==
    ASSUME HInv, IInv', HostSide
    PROVE  HInv'
<1>1. IInv /\ Typed /\ Typed'
  BY DEF HInv, IInv
<1>2. Beside
  BY <1>1, HostSideTyped DEF Beside
<1>3. Numbered'
  BY <1>2 DEF Beside, HInv, Numbered
<1>4. ASSUME NEW s \in Servers PROVE Heard(s)'
  <2>1. ASSUME NEW h \in Hosts, WorkerLoad(h) PROVE Heard(s)'
    BY <1>2, <2>1, LoadHeard
  <2>2. ASSUME NEW h \in Hosts, NEW x \in Servers, WorkerSync(h, x) PROVE Heard(s)'
    <3>1. CASE x = s
      BY <1>1, <1>2, <2>2, <3>1, SyncHeard
    <3>2. CASE x # s
      <4>1. Takes(h, x) /\ UNCHANGED machine
        BY <2>2 DEF WorkerSync, SyncTimeout, SyncAbsent, SyncAccept, SyncFails, SyncRefused, SyncReport,
                    Takes, ec2
      <4>2. \A k \in Hosts : wview'[k][s] = wview[k][s]
        BY <1>1, <3>2, <4>1 DEF Takes, Typed, TypeOK, WorkerType
      <4>3. ASSUME NEW r, Publish(x, r) PROVE reports'[s] = reports[s]
        BY <1>1, <3>2, <4>3 DEF Publish, Typed, TypeOK, TableType
      <4>4. reports'[s] = reports[s]
        BY <2>2, <4>3 DEF WorkerSync, SyncTimeout, SyncAbsent, SyncAccept, SyncFails, SyncRefused, SyncReport
      <4>5. local'[s] = local[s]
        BY <1>1, <2>2, <3>2 DEF WorkerSync, SyncTimeout, SyncAbsent, SyncAccept, SyncFails, SyncRefused,
                                SyncReport, Typed, TypeOK, WorkerType
      <4> QED
        BY <1>2, <4>1, <4>2, <4>4, <4>5, UntouchedHeard DEF SameInstance, Ending
    <3> QED
      BY <3>1, <3>2
  <2>3. ASSUME NEW h \in Hosts, Machine(h) \/ MachinePowersOff(h) \/ MachineLost(h) \/ MachinePurged(h)
        PROVE  Heard(s)'
    BY <1>2, <2>3, MachineHeard
  <2>4. ASSUME NEW x \in Servers, Controller(x) PROVE Heard(s)'
    <3>1. CASE x = s
      BY <1>2, <2>4, <3>1, ControllerHeard
    <3>2. CASE x # s
      <4>1. UNCHANGED <<wview, machine, reports>> /\ local'[s] = local[s]
        BY <1>1, <2>4, <3>2 DEF Controller, ControllerSettles, ControllerStopsBadly, ControllerIdleStop,
                                ControllerFails, ControllerRecovers, table, ec2, Typed, TypeOK, WorkerType
      <4> QED
        BY <1>2, <4>1, UntouchedHeard DEF SameInstance, Ending
    <3> QED
      BY <3>1, <3>2
  <2>5. ASSUME RequestAges \/ DeadlinePasses PROVE Heard(s)'
    <3>1. UNCHANGED <<wview, local, machine, reports>>
      BY <2>5 DEF RequestAges, DeadlinePasses, table, ec2, worker
    <3> QED
      BY <1>2, <3>1, UntouchedHeard DEF SameInstance, Ending
  <2> QED
    BY <2>1, <2>2, <2>3, <2>4, <2>5 DEF HostSide, Worker
<1> QED
  BY <1>3, <1>4 DEF HInv

-----------------------------------------------------------------------------
(* The invariant of the hosts' knowledge, and what follows from it.        *)

\* Nothing is known before the first request.
LEMMA HInvInit == Init => HInv
<1> SUFFICES ASSUME Init PROVE HInv
  OBVIOUS
<1>1. IInv
  BY IInvInit
<1>2. /\ tomb = {} /\ \A s \in Servers : reg.servers[s] = None /\ reports[s] = None /\ local[s] = None
      /\ \A h \in Hosts, s \in Servers : wview[h][s] = None
      /\ \A q \in Lambdas, s \in Servers : seen[q][s] = None
  BY DEF Init, EmptyState, NoReports
<1> QED
  BY <1>1, <1>2 DEF HInv, Numbered, Heard, LocalOK, ViewOK, ReportOK

\* Every step is one of an invocation, or one beside them.
LEMMA NextCases == Next => (\E p \in Lambdas : Scheduler(p)) \/ HostSide
BY DEF Next, Scheduler, HostSide

\* Every step preserves the invariant.
LEMMA HInvNext == HInv /\ [Next]_vars => HInv'
<1> SUFFICES ASSUME HInv, [Next]_vars PROVE HInv'
  OBVIOUS
<1>1. IInv'
  BY IInvNext DEF HInv
<1>2. CASE UNCHANGED vars
  <2>1. UNCHANGED <<reg, tomb, issued, reports, machine, wview, local>> /\ Beside
    BY <1>2 DEF vars, table, ec2, ids, calls, worker, Beside
  <2>2. \A s \in Servers : Heard(s)'
    BY <2>1, UntouchedHeard DEF SameInstance, Ending
  <2> QED
    BY <1>1, <2>1, <2>2 DEF HInv, Numbered
<1>3. CASE Next
  BY <1>1, <1>3, NextCases, SchedulerHeard, HostSideHeard
<1> QED
  BY <1>2, <1>3

\* What hosts know of the registry, and what their reports claim, holds in
\* every reachable state.
THEOREM HeardInvariance == Spec => []HInv
BY HInvInit, HInvNext, PTL DEF Spec

\* A server that was forgotten left no data behind: its host had removed the
\* instance and does not bring it back, or the host's disk is gone or going,
\* however late a worker acts on what it loaded before.
THEOREM ForgottenIsRemoved == Spec => []NoOrphanedData
<1>1. HInv => NoOrphanedData
  <2> SUFFICES ASSUME HInv, NEW s \in tomb, local[s] # None
               PROVE  \/ local[s].phase = "deleted"
                      \/ machine[local[s].host] \in {"shutting-down", "terminated", "purged"}
    BY DEF NoOrphanedData
  <2>1. s \in Servers
    BY DEF HInv, IInv, Typed, TypeOK, TableType
  <2> QED
    BY <2>1 DEF HInv, Heard, Cleared, Ending
<1> QED
  BY <1>1, HeardInvariance, PTL

\* What a step may do to the servers that stay.
LEMMA RegKinds ==
    ASSUME HInv, [Next]_vars
    PROVE  UNCHANGED reg \/ \E p \in Lambdas : Adds(p) \/ Amends(p)
<1>1. CASE UNCHANGED vars
  BY <1>1 DEF vars, table
<1>2. CASE HostSide
  BY <1>2, HostSideTyped DEF HInv, IInv
<1>3. CASE \E p \in Lambdas : Scheduler(p)
  BY <1>3, SchedulerReg DEF HInv, RegSteps
<1> QED
  BY <1>1, <1>2, <1>3, NextCases

\* A server of the registry that another one is added to keeps its record.
LEMMA AddedKeeps ==
    ASSUME IInv, NEW p \in Lambdas, Adds(p), NEW s \in Servers, reg.servers[s] # None
    PROVE  reg'.servers[s] = reg.servers[s]
<1>1. /\ reg.servers[target[p]] = None
      /\ reg'.servers = [reg.servers EXCEPT ![target[p]] = NewServer(ask[p].game, host[p], issued + 1)]
  BY AddsOne
<1>2. reg.servers \in [Servers -> ServerRec \cup {None}]
  BY DEF IInv, Typed, TypeOK, TableType, State
<1> QED
  BY <1>1, <1>2

\* No write of the registry moves a server to another host, takes back a
\* removal or steps back to an older request, whatever its writer had read.
THEOREM IntentLasts == Spec => IntentIsDurable
<1>1. HInv /\ [Next]_vars => [IntentMoves]_reg
  <2> SUFFICES ASSUME HInv, [Next]_vars, reg' # reg, NEW s \in Servers, reg.servers[s] # None, reg'.servers[s] # None
               PROVE  LET old == reg.servers[s] new == reg'.servers[s]
                      IN  /\ new.host = old.host /\ new.game = old.game
                          /\ old.desired = "deleted" => new.desired = "deleted"
                          /\ new.req >= old.req
    BY DEF IntentMoves
  <2>1. PICK p \in Lambdas : Adds(p) \/ Amends(p)
    BY RegKinds
  <2>2. /\ issued \in Nat /\ reg.servers[s].req \in Nat /\ reg.servers[s].req <= issued
    BY RequestNumbers DEF HInv, IInv, Numbered
  <2>3. CASE Adds(p)
    BY <2>2, <2>3, AddedKeeps DEF HInv
  <2>4. CASE Amends(p)
    BY <2>2, <2>4 DEF Amends, ServerAmended
  <2> QED
    BY <2>1, <2>3, <2>4
<1> QED
  BY <1>1, HeardInvariance, PTL DEF Spec, IntentIsDurable

\* Reconcile turns a running server into a stopped one only when that server's
\* host has stopped the game of that very request: no late report of an earlier
\* request does it.
THEOREM StopsAreOwn == Spec => IdleStopIsOwn
<1>1. HInv /\ [Next]_vars => [IdleStopMoves]_reg
  <2> SUFFICES ASSUME HInv, [Next]_vars, reg' # reg, NEW s \in Servers, reg.servers[s] # None, reg'.servers[s] # None,
                      reg.servers[s].req = reg'.servers[s].req,
                      reg.servers[s].desired # reg'.servers[s].desired
               PROVE  /\ local[s] # None => local[s].req = reg.servers[s].req /\ local[s].desired = "stopped"
                      /\ local[s] = None => machine[reg.servers[s].host] \in {"terminated", "purged"}
    BY DEF IdleStopMoves
  <2>1. PICK p \in Lambdas : Adds(p) \/ Amends(p)
    BY RegKinds
  <2>2. /\ issued \in Nat /\ reg.servers[s].req \in Nat /\ reg.servers[s].req <= issued
    BY RequestNumbers DEF HInv, IInv, Numbered
  <2>3. ~Adds(p)
    BY AddedKeeps DEF HInv
  <2>4. Idles(p, s) /\ reg.servers[s].desired = "running"
    BY <2>1, <2>2, <2>3 DEF Amends, ServerAmended
  <2>5. ReportOK(seen[p][s], s)
    BY DEF HInv, Heard
  <2>6. StoppedItself(s)
    BY <2>4, <2>5 DEF Idles, ReportOK
  <2> QED
    BY <2>6 DEF StoppedItself
<1> QED
  BY <1>1, HeardInvariance, PTL DEF Spec, IdleStopIsOwn

-----------------------------------------------------------------------------
(* Placement: the room a Create was granted is still there when it saves.  *)

\* The units a server reserves in one dimension.
LEMMA UnitCount ==
    ASSUME NEW s, NEW n \in Nat
    PROVE  IsFiniteSet({s} \X (1..n)) /\ Cardinality({s} \X (1..n)) = n
<1>1. IsFiniteSet({s}) /\ Cardinality({s}) = 1
  BY FS_Singleton
<1>2. IsFiniteSet(1..n) /\ Cardinality(1..n) = n
  BY FS_Interval
<1>3. /\ IsFiniteSet({s} \X (1..n))
      /\ Cardinality({s} \X (1..n)) = Cardinality({s}) * Cardinality(1..n)
  BY <1>1, <1>2, FS_Product
<1> QED
  BY <1>1, <1>2, <1>3

\* The units of a host are those of its servers.
LEMMA UnitOf ==
    ASSUME NEW st, NEW h, NEW d, NEW u
    PROVE  u \in Units(st, h, d) <=>
             \E s \in OnHost(st, h) : u \in {s} \X (1..Need[st.servers[s].game][d])
BY DEF Units

\* Servers that leave, or that stay with their game, make room only.
LEMMA AmendedUnits ==
    ASSUME NEW p \in Lambdas, Amends(p), NEW h \in Hosts, NEW d \in Dims
    PROVE  Units(reg', h, d) \subseteq Units(reg, h, d)
<1> SUFFICES ASSUME NEW u \in Units(reg', h, d) PROVE u \in Units(reg, h, d)
  OBVIOUS
<1>1. PICK s \in OnHost(reg', h) : u \in {s} \X (1..Need[reg'.servers[s].game][d])
  BY UnitOf
<1>2. s \in Servers /\ reg'.servers[s] # None /\ reg'.servers[s].host = h
  BY DEF OnHost, ServerIDs
<1>3. reg.servers[s] # None /\ reg.servers[s].host = h /\ reg.servers[s].game = reg'.servers[s].game
  BY <1>2 DEF Amends, ServerAmended
<1>4. s \in OnHost(reg, h)
  BY <1>2, <1>3 DEF OnHost, ServerIDs
<1> QED
  BY <1>1, <1>3, <1>4, UnitOf

\* A write that adds no server keeps the placement.
LEMMA AmendedPlacement ==
    ASSUME Placement, Finite, IInv, IInv', NEW p \in Lambdas, Amends(p)
    PROVE  Placement' /\ Finite'
<1>1. Housed'
  <2> SUFFICES ASSUME NEW s \in ServerIDs(reg') PROVE reg'.servers[s].host \in HostIDs(reg')
    BY DEF Housed, ServerIDs, HostIDs
  <2>1. s \in Servers /\ reg'.servers[s] # None
    BY DEF ServerIDs
  <2>2. reg.servers[s] # None /\ reg'.servers[s].host = reg.servers[s].host
    BY <2>1 DEF Amends, ServerAmended
  <2>3. reg.servers[s].host \in HostIDs(reg)
    BY <2>1, <2>2 DEF Placement, Housed, ServerIDs
  <2>4. s \in OnHost(reg', reg'.servers[s].host)
    BY <2>1 DEF OnHost, ServerIDs
  <2> QED
    BY <2>2, <2>3, <2>4 DEF Amends
<1>2. ASSUME NEW h \in Hosts, NEW d \in Dims
      PROVE  /\ IsFiniteSet(Units(reg', h, d))
             /\ Cardinality(Units(reg', h, d)) \in Nat /\ Cardinality(Units(reg, h, d)) \in Nat
             /\ Cardinality(Units(reg', h, d)) <= Cardinality(Units(reg, h, d))
  <2>1. IsFiniteSet(Units(reg, h, d)) /\ Units(reg', h, d) \in SUBSET Units(reg, h, d)
    BY AmendedUnits DEF Finite
  <2>2. /\ IsFiniteSet(Units(reg', h, d))
        /\ Cardinality(Units(reg', h, d)) <= Cardinality(Units(reg, h, d))
    BY <2>1, FS_Subset
  <2> QED
    BY <2>1, <2>2, FS_CardinalityType
<1>3. WithinCapacity'
  <2> SUFFICES ASSUME NEW h \in HostIDs(reg'), NEW d \in Dims
               PROVE  used(reg', h)[d] <= Capacity[reg'.hosts[h].release][d]
    BY DEF WithinCapacity, used, HostIDs
  <2>1. h \in Hosts /\ h \in HostIDs(reg) /\ reg'.hosts[h].release = reg.hosts[h].release
    BY DEF Amends, HostIDs
  <2>2. used(reg, h)[d] = Cardinality(Units(reg, h, d)) /\ used(reg', h)[d] = Cardinality(Units(reg', h, d))
    BY DEF used
  <2>3. used(reg, h)[d] <= Capacity[reg.hosts[h].release][d]
    BY <2>1 DEF Placement, WithinCapacity
  <2>4. reg.hosts[h].release \in Releases
    BY <2>1 DEF IInv, Typed, TypeOK, TableType, State, HostRec, HostIDs
  <2>5. Capacity[reg.hosts[h].release][d] \in Nat
    BY <2>4, ConfigAssumption
  <2> QED
    BY <1>2, <2>1, <2>2, <2>3, <2>5
<1>4. WithinLimits' /\ IsFiniteSet(ServerIDs(reg'))
  <2>1. ServerIDs(reg') \in SUBSET ServerIDs(reg)
    BY DEF Amends, ServerAmended, ServerIDs
  <2>2. IsFiniteSet(HostIDs(reg)) /\ HostIDs(reg') \in SUBSET HostIDs(reg)
    BY ConfigAssumption, FS_Subset DEF Amends, HostIDs
  <2>3. /\ Cardinality(HostIDs(reg')) <= Cardinality(HostIDs(reg)) /\ IsFiniteSet(HostIDs(reg'))
        /\ Cardinality(HostIDs(reg')) \in Nat /\ Cardinality(HostIDs(reg)) \in Nat
    BY <2>2, FS_Subset, FS_CardinalityType
  <2>4. /\ Cardinality(ServerIDs(reg')) <= Cardinality(ServerIDs(reg)) /\ IsFiniteSet(ServerIDs(reg'))
    BY <2>1, FS_Subset DEF Finite
  <2>5. Cardinality(ServerIDs(reg')) \in Nat /\ Cardinality(ServerIDs(reg)) \in Nat
    BY <2>4, FS_CardinalityType DEF Finite
  <2> QED
    BY <2>3, <2>4, <2>5, ConfigAssumption DEF Placement, WithinLimits, HostIDs, ServerIDs
<1>5. Finite'
  BY <1>2, <1>4 DEF Finite, Units, OnHost, ServerIDs
<1> QED
  BY <1>1, <1>3, <1>4, <1>5 DEF Placement

\* The units of a host once a server is added to the fleet.
LEMMA AddedUnits ==
    ASSUME IInv, NEW p \in Lambdas, Adds(p), NEW h \in Hosts, NEW d \in Dims
    PROVE  Units(reg', h, d) =
             Units(reg, h, d) \cup (IF h = host[p] THEN {target[p]} \X (1..Need[ask[p].game][d]) ELSE {})
<1> DEFINE s == target[p]
           v == NewServer(ask[p].game, host[p], issued + 1)
<1>1. /\ s \in Servers /\ reg.servers[s] = None /\ reg'.servers = [reg.servers EXCEPT ![s] = v] /\ v \in ServerRec
  BY AddsOne
<1>2. v.game = ask[p].game /\ v.host = host[p] /\ v # None
  BY <1>1, NoneAssumption DEF NewServer
<1> HIDE DEF v
<1>3. reg'.servers[s] = v /\ \A x \in Servers \ {s} : reg'.servers[x] = reg.servers[x]
  BY <1>1 DEF IInv, Typed, TypeOK, TableType, State
<1>4. OnHost(reg', h) = OnHost(reg, h) \cup (IF h = host[p] THEN {s} ELSE {})
  BY <1>1, <1>2, <1>3 DEF OnHost, ServerIDs
<1>5. \A x \in OnHost(reg, h) : x # s /\ x \in Servers
  BY <1>1 DEF OnHost, ServerIDs
<1>6. ASSUME NEW u PROVE u \in Units(reg', h, d) <=>
          u \in Units(reg, h, d) \/ (h = host[p] /\ u \in {s} \X (1..Need[ask[p].game][d]))
  <2>1. u \in Units(reg', h, d) <=> \E x \in OnHost(reg', h) : u \in {x} \X (1..Need[reg'.servers[x].game][d])
    BY UnitOf
  <2>2. u \in Units(reg, h, d) <=> \E x \in OnHost(reg, h) : u \in {x} \X (1..Need[reg.servers[x].game][d])
    BY UnitOf
  <2> QED
    BY <1>2, <1>3, <1>4, <1>5, <2>1, <2>2
<1> QED
  BY <1>6

\* A Create that finds its room unchanged fits the server into it.
LEMMA AddedPlacement ==
    ASSUME PInv, IInv, NEW p \in Lambdas, Adds(p)
    PROVE  Placement' /\ Finite'
<1> DEFINE s == target[p]
           h == host[p]
           g == ask[p].game
<1>1. /\ pc[p] = "createSave" /\ snap[p] = reg /\ s \in Servers /\ h \in Hosts /\ ask[p] \in Ask
      /\ reg.servers[s] = None
      /\ reg'.servers = [reg.servers EXCEPT ![s] = NewServer(g, h, issued + 1)]
      /\ reg'.hosts = [reg.hosts EXCEPT ![h] = IF @ = None THEN NewHost(ask[p].release) ELSE @]
      /\ NewServer(g, h, issued + 1) \in ServerRec /\ NewHost(ask[p].release) \in HostRec
  BY AddsOne
<1>2. /\ reg.servers \in [Servers -> ServerRec \cup {None}] /\ reg.hosts \in [Hosts -> HostRec \cup {None}]
      /\ g \in Games /\ ask[p].release \in Releases
  BY <1>1 DEF IInv, Typed, TypeOK, TableType, State, Ask
<1>3. /\ NewServer(g, h, issued + 1) # None /\ NewServer(g, h, issued + 1).host = h
      /\ NewHost(ask[p].release) # None /\ NewHost(ask[p].release).release = ask[p].release
  BY <1>1, NoneAssumption DEF NewServer, NewHost
<1>4. /\ HostIDs(reg') = HostIDs(reg) \cup {h} /\ ServerIDs(reg') = ServerIDs(reg) \cup {s}
      /\ s \notin ServerIDs(reg)
      /\ reg.hosts[h] = None => reg'.hosts[h].release = ask[p].release
      /\ \A x \in HostIDs(reg) : reg'.hosts[x].release = reg.hosts[x].release
  BY <1>1, <1>2, <1>3 DEF HostIDs, ServerIDs
<1>5. Housed'
  <2> SUFFICES ASSUME NEW x \in ServerIDs(reg') PROVE reg'.servers[x].host \in HostIDs(reg')
    BY DEF Housed, ServerIDs, HostIDs
  <2>1. CASE x = s
    BY <1>1, <1>2, <1>3, <1>4, <2>1
  <2>2. CASE x # s
    <3>1. x \in ServerIDs(reg) /\ reg'.servers[x] = reg.servers[x]
      BY <1>1, <1>2, <1>4, <2>2 DEF ServerIDs
    <3> QED
      BY <1>4, <3>1 DEF PInv, Placement, Housed
  <2> QED
    BY <2>1, <2>2
<1>6. ASSUME NEW k \in Hosts, NEW d \in Dims
      PROVE  /\ IsFiniteSet(Units(reg', k, d))
             /\ Cardinality(Units(reg', k, d)) = Cardinality(Units(reg, k, d)) + (IF k = h THEN Need[g][d] ELSE 0)
             /\ Cardinality(Units(reg, k, d)) \in Nat
  <2> DEFINE U == Units(reg, k, d)
             A == {s} \X (1..Need[g][d])
  <2>1. IsFiniteSet(U) /\ Cardinality(U) \in Nat
    BY FS_CardinalityType DEF PInv, Finite
  <2>2. Need[g][d] \in Nat
    BY <1>2, ConfigAssumption
  <2>3. IsFiniteSet(A) /\ Cardinality(A) = Need[g][d]
    BY <2>2, UnitCount
  <2>4. U \cap A = {}
    <3> SUFFICES ASSUME NEW u \in U, u \in A PROVE FALSE
      OBVIOUS
    <3>1. PICK x \in OnHost(reg, k) : u \in {x} \X (1..Need[reg.servers[x].game][d])
      BY UnitOf
    <3>2. x # s
      BY <1>1 DEF OnHost, ServerIDs
    <3> QED
      BY <3>1, <3>2
  <2>5. IsFiniteSet(U \cup A) /\ Cardinality(U \cup A) = Cardinality(U) + Cardinality(A) - Cardinality(U \cap A)
    BY <2>1, <2>3, FS_Union
  <2>6. Units(reg', k, d) = U \cup (IF k = h THEN A ELSE {})
    BY AddedUnits, Zenon
  <2> HIDE DEF U, A
  <2>7. Cardinality(U \cup A) = Cardinality(U) + Need[g][d]
    <3>1. Cardinality(U \cap A) = 0
      BY <2>4, FS_EmptySet
    <3> QED
      BY <2>1, <2>2, <2>3, <2>5, <3>1
  <2>8. CASE k = h
    BY <2>1, <2>5, <2>6, <2>7, <2>8 DEF U
  <2>9. CASE k # h
    <3>1. Units(reg', k, d) = U
      BY <2>6, <2>9
    <3> QED
      BY <2>1, <2>9, <3>1 DEF U
  <2> QED
    BY <2>8, <2>9
<1>7. WithinCapacity'
  <2> SUFFICES ASSUME NEW k \in HostIDs(reg'), NEW d \in Dims
               PROVE  used(reg', k)[d] <= Capacity[reg'.hosts[k].release][d]
    BY DEF WithinCapacity, used, HostIDs
  <2>1. k \in Hosts
    BY DEF HostIDs
  <2>2. used(reg, k)[d] = Cardinality(Units(reg, k, d)) /\ used(reg', k)[d] = Cardinality(Units(reg', k, d))
    BY DEF used
  <2>3. CASE k # h
    <3>1. k \in HostIDs(reg)
      BY <1>4, <2>3
    <3> QED
      BY <1>4, <1>6, <2>1, <2>2, <2>3, <3>1 DEF PInv, Placement, WithinCapacity
  <2>4. CASE k = h /\ reg.hosts[h] # None
    <3>1. fits(Capacity[reg.hosts[h].release], used(reg, h), Need[g])
      BY <1>1, <2>4 DEF PInv, Room
    <3>2. used(reg, h)[d] + Need[g][d] <= Capacity[reg.hosts[h].release][d]
      BY <3>1 DEF fits
    <3>3. h \in HostIDs(reg)
      BY <1>1, <2>4 DEF HostIDs
    <3> QED
      BY <1>4, <1>6, <2>1, <2>2, <2>4, <3>2, <3>3
  <2>5. CASE k = h /\ reg.hosts[h] = None
    <3>1. OnHost(reg, h) = {}
      BY <2>5 DEF OnHost, PInv, Placement, Housed, HostIDs
    <3>2. Units(reg, h, d) = {}
      BY <3>1 DEF Units
    <3>3. Cardinality(Units(reg, h, d)) = 0
      BY <3>2, FS_EmptySet
    <3>4. Need[g][d] <= Capacity[ask[p].release][d] /\ Need[g][d] \in Nat
      BY <1>2, CatalogAssumption, ConfigAssumption
    <3>5. used(reg', k)[d] = 0 + Need[g][d]
      BY <1>6, <2>1, <2>2, <2>5, <3>3
    <3>6. reg'.hosts[k].release = ask[p].release
      BY <1>4, <2>5
    <3> QED
      BY <3>4, <3>5, <3>6
  <2> QED
    BY <2>3, <2>4, <2>5
<1>8. WithinLimits' /\ IsFiniteSet(ServerIDs(reg'))
  <2>1. IsFiniteSet(HostIDs(reg)) /\ Cardinality(HostIDs(reg)) \in Nat
    BY ConfigAssumption, FS_Subset, FS_CardinalityType DEF HostIDs
  <2>2. IsFiniteSet(ServerIDs(reg)) /\ Cardinality(ServerIDs(reg)) \in Nat
    BY FS_CardinalityType DEF PInv, Finite
  <2>3. Cardinality(HostIDs(reg) \cup {h}) = IF h \in HostIDs(reg) THEN Cardinality(HostIDs(reg))
                                             ELSE Cardinality(HostIDs(reg)) + 1
    BY <2>1, FS_AddElement
  <2>4. /\ IsFiniteSet(ServerIDs(reg) \cup {s})
        /\ Cardinality(ServerIDs(reg) \cup {s}) = Cardinality(ServerIDs(reg)) + 1
    BY <1>4, <2>2, FS_AddElement
  <2>5. /\ Cardinality(ServerIDs(reg)) < MaxServers
        /\ h \notin HostIDs(reg) => Cardinality(HostIDs(reg)) < MaxHosts
    BY <1>1 DEF PInv, Room, HostIDs
  <2>6. Cardinality(HostIDs(reg')) <= MaxHosts /\ Cardinality(ServerIDs(reg')) <= MaxServers
    BY <1>4, <2>1, <2>2, <2>3, <2>4, <2>5, ConfigAssumption DEF PInv, Placement, WithinLimits
  <2> QED
    BY <1>4, <2>4, <2>6 DEF WithinLimits, HostIDs, ServerIDs
<1>9. Finite'
  BY <1>6, <1>8 DEF Finite, Units, OnHost, ServerIDs
<1> QED
  BY <1>5, <1>7, <1>8, <1>9 DEF Placement

\* Whatever a step does, an invocation that is about to choose or to save has
\* its snapshot, host and request from before, unless it has just checked them.
RoomMoves(q) ==
    \/ pc'[q] \notin {"choose", "createSave"}
    \/ pc'[q] = pc[q] /\ snap'[q] = snap[q] /\ host'[q] = host[q] /\ ask'[q] = ask[q]
    \/ Room(q)'

\* The end of an invocation, and the others beside it.
LEMMA ReturnRoom ==
    ASSUME Typed, NEW p \in Lambdas, Return(p)
    PROVE  \A q \in Lambdas : RoomMoves(q)
BY DEF RoomMoves, Return, Typed, TypeOK, CallType

\* An invocation that goes on elsewhere, and the others beside it.
LEMMA GotoRoom ==
    ASSUME Typed, NEW p \in Lambdas, NEW label \in PC \ {"choose", "createSave"}, Goto(p, label),
           \A q \in Lambdas \ {p} : snap'[q] = snap[q] /\ host'[q] = host[q] /\ ask'[q] = ask[q]
    PROVE  \A q \in Lambdas : RoomMoves(q)
BY DEF RoomMoves, Goto, Typed, TypeOK, CallType

\* The check of the tombstone and of the number of servers.
LEMMA TombstonedRoom ==
    ASSUME PInv, IInv, NEW p \in Lambdas, CreateTombstoned(p)
    PROVE  \A q \in Lambdas : RoomMoves(q)
<1>0. Typed
  BY DEF IInv
<1>1. CASE Return(p)
  BY <1>0, <1>1, ReturnRoom
<1>2. CASE ~Return(p)
  <2>1. /\ Goto(p, "choose") /\ UNCHANGED <<snap, host, ask>>
        /\ ~(Cardinality(ServerIDs(snap[p])) >= MaxServers)
    BY <1>2 DEF CreateTombstoned
  <2>2. Cardinality(ServerIDs(snap[p])) < MaxServers
    <3>1. Cardinality(ServerIDs(snap[p])) \in Nat
      BY FS_CardinalityType DEF PInv
    <3> QED
      BY <2>1, <3>1, ConfigAssumption
  <2>3. RoomMoves(p)
    BY <1>0, <2>1, <2>2 DEF RoomMoves, Room, Goto, Typed, TypeOK, CallType
  <2>4. \A q \in Lambdas \ {p} : RoomMoves(q)
    BY <1>0, <2>1 DEF RoomMoves, Goto, Typed, TypeOK, CallType
  <2> QED
    BY <2>3, <2>4
<1> QED
  BY <1>1, <1>2

\* The choice of a host: one that fits, or a new one within the limit.
LEMMA ChooseRoom ==
    ASSUME PInv, IInv, NEW p \in Lambdas, CreateChoose(p)
    PROVE  \A q \in Lambdas : RoomMoves(q)
<1>0. Typed
  BY DEF IInv
<1>1. CASE Return(p)
  BY <1>0, <1>1, ReturnRoom
<1>2. CASE ~Return(p)
  <2>1. PICK best \in SUBSET HostIDs(snap[p]) :
          /\ \A h \in best : fits(Capacity[snap[p].hosts[h].release], used(snap[p], h), Need[ask[p].game])
          /\ best # {} \/ Cardinality(HostIDs(snap[p])) < MaxHosts
          /\ \E h \in IF best # {} THEN best ELSE Hosts \ drawn : host' = [host EXCEPT ![p] = h]
    BY <1>2 DEF CreateChoose, BestHosts, Candidates
  <2>2. pc[p] = "choose" /\ Goto(p, "createSave") /\ UNCHANGED <<snap, ask>>
    BY <1>2 DEF CreateChoose
  <2>3. PICK h \in Hosts :
          /\ host' = [host EXCEPT ![p] = h]
          /\ \/ /\ snap[p].hosts[h] # None
                /\ fits(Capacity[snap[p].hosts[h].release], used(snap[p], h), Need[ask[p].game])
             \/ snap[p].hosts[h] = None /\ Cardinality(HostIDs(snap[p])) < MaxHosts
    <3>1. CASE best # {}
      BY <2>1, <3>1 DEF HostIDs
    <3>2. CASE best = {}
      <4>1. HostIDs(snap[p]) \subseteq drawn
        BY DEF IInv, DrawnOK
      <4> QED
        BY <2>1, <3>2, <4>1 DEF HostIDs
    <3> QED
      BY <3>1, <3>2
  <2>4. pc'[p] = "createSave" /\ host'[p] = h /\ snap'[p] = snap[p] /\ ask'[p] = ask[p]
    BY <1>0, <2>2, <2>3 DEF Goto, Typed, TypeOK, CallType
  <2>5. Cardinality(ServerIDs(snap[p])) < MaxServers
    BY <2>2 DEF PInv, Room
  <2>6. Room(p)'
    BY <2>3, <2>4, <2>5 DEF Room, used, Units, OnHost, ServerIDs, HostIDs
  <2>7. \A q \in Lambdas \ {p} : RoomMoves(q)
    BY <1>0, <2>2, <2>3 DEF RoomMoves, Goto, Typed, TypeOK, CallType
  <2> QED
    BY <2>6, <2>7 DEF RoomMoves
<1> QED
  BY <1>1, <1>2

\* Every step of an invocation moves the room of Creates as allowed.
LEMMA SchedulerRoom ==
    ASSUME PInv, IInv, NEW p \in Lambdas, Scheduler(p)
    PROVE  \A q \in Lambdas : RoomMoves(q)
<1>0. Typed
  BY DEF IInv
<1> DEFINE Roomy == \A q \in Lambdas : RoomMoves(q)
<1>1. ASSUME NEW label \in PC \ {"choose", "createSave"}, Goto(p, label),
             UNCHANGED snap \/ \E st : snap' = [snap EXCEPT ![p] = st],
             UNCHANGED host \/ \E h : host' = [host EXCEPT ![p] = h],
             UNCHANGED ask \/ \E a : ask' = [ask EXCEPT ![p] = a]
      PROVE  Roomy
  <2>1. \A q \in Lambdas \ {p} : snap'[q] = snap[q] /\ host'[q] = host[q] /\ ask'[q] = ask[q]
    BY <1>0, <1>1 DEF Typed, TypeOK, CallType
  <2> QED
    BY <1>0, <1>1, <2>1, GotoRoom
<1>2. ASSUME UNCHANGED pc, UNCHANGED snap, UNCHANGED ask, pc[p] \notin {"choose", "createSave"},
             UNCHANGED host \/ \E h : host' = [host EXCEPT ![p] = h]
      PROVE  Roomy
  BY <1>0, <1>2 DEF RoomMoves, Typed, TypeOK, CallType
<1>3. ASSUME Create(p) PROVE Roomy
  <2>1. ASSUME NEW s \in Servers, NEW a \in Ask, CreateLoad(p, s, a) PROVE Roomy
    BY <1>1, <2>1 DEF CreateLoad, PC
  <2> QED
    BY <1>0, <1>3, <2>1, TombstonedRoom, ChooseRoom, ReturnRoom DEF Create, CreateSave
<1>4. ASSUME Action(p) PROVE Roomy
  <2>1. ASSUME NEW s \in Servers, NEW d \in Intents, ActionLoad(p, s, d) PROVE Roomy
    BY <1>1, <2>1 DEF ActionLoad, PC
  <2>2. ASSUME ActionReports(p) PROVE Roomy
    BY <1>0, <1>1, <2>2, ReturnRoom DEF ActionReports, PC
  <2> QED
    BY <1>0, <1>4, <2>1, <2>2, ReturnRoom DEF Action, ActionSave
<1>5. ASSUME Destroy(p) \/ ReconcileLoad(p) \/ ReconcileReports(p) PROVE Roomy
  BY <1>0, <1>1, <1>5, ReturnRoom DEF Destroy, DestroyLoad, DestroySave, ReconcileLoad, ReconcileReports, PC
<1>6. ASSUME NEW h \in Hosts, RetireHost(p, h) \/ WakeHost(p, h) \/ ExpireHost(p, h) \/ WakeFails(p, h) PROVE Roomy
  <2>1. CASE ExpireHost(p, h)
    BY <1>0, <1>1, <2>1, ReturnRoom DEF ExpireHost, PC
  <2>2. CASE RetireHost(p, h)
    BY <1>1, <1>2, <2>2 DEF RetireHost, Visit, PC
  <2>3. CASE WakeHost(p, h) \/ WakeFails(p, h)
    <3>1. /\ pc[p] = "hosts" /\ UNCHANGED <<snap, ask>>
          /\ \/ UNCHANGED <<pc, host>>
             \/ Goto(p, "updateLoad") /\ host' = [host EXCEPT ![p] = h]
      BY <2>3 DEF WakeHost, WakeFails, Visit, NoteWake, Record
    <3> QED
      BY <1>1, <1>2, <3>1 DEF PC
  <2> QED
    BY <1>6, <2>1, <2>2, <2>3
<1>7. ASSUME StopHost(p) \/ UpdateLoad(p) \/ UpdateSave(p) \/ ForgetLoad(p) PROVE Roomy
  BY <1>1, <1>7 DEF StopHost, UpdateLoad, UpdateSave, ForgetLoad, Resume, PC
<1>8. ASSUME ForgetHost(p) \/ \E s \in Servers : ForgetServer(p, s) PROVE Roomy
  BY <1>0, <1>1, <1>8, ReturnRoom DEF ForgetHost, ForgetServer, Resume, PC
<1>9. ASSUME ReconcileSave(p) PROVE Roomy
  <2>1. \/ Return(p)
        \/ /\ Goto(p, "hosts") /\ UNCHANGED <<host, ask>>
           /\ UNCHANGED snap \/ snap' = [snap EXCEPT ![p] = reg']
    BY <1>9 DEF ReconcileSave
  <2> QED
    BY <1>0, <1>1, <2>1, ReturnRoom DEF PC
<1>10. ASSUME ReconcileDone(p) \/ Crash(p) \/ \E s \in Servers : ReconcileForget(p, s) PROVE Roomy
  BY <1>0, <1>10, ReturnRoom DEF ReconcileDone, Crash, ReconcileForget
<1> HIDE DEF Roomy
<1>11. Roomy
  BY <1>3, <1>4, <1>5, <1>6, <1>7, <1>8, <1>9, <1>10 DEF Scheduler, Reconcile, ReconcileHost
<1> QED
  BY <1>11 DEF Roomy

\* Snapshots are taken of the registry, so they stay as finite as it is.
LEMMA SnapshotsFinite ==
    ASSUME PInv, IInv, Next, IsFiniteSet(ServerIDs(reg'))
    PROVE  \A q \in Lambdas : IsFiniteSet(ServerIDs(snap'[q]))
<1>1. Moves
  BY CreateMoves, ActionMoves, DestroyMoves, ReconcileForgetMoves, ReconcileSaveMoves,
     RetireHostMoves, WakeMoves, StopMoves, HostLoadMoves, UpdateSaveMoves, ForgetServerMoves,
     ForgetHostMoves, HostSideMoves
  DEF Next, Reconcile, ReconcileHost, HostSide
<1>2. ASSUME NEW q \in Lambdas PROVE IsFiniteSet(ServerIDs(snap'[q]))
  <2>1. snap'[q] \in {EmptyState, snap[q], reg'}
    BY <1>1 DEF Moves, CallMoves
  <2>2. ServerIDs(EmptyState) = {}
    BY DEF ServerIDs, EmptyState
  <2> QED
    BY <2>1, <2>2, FS_EmptySet DEF PInv
<1> QED
  BY <1>2

\* An invocation that moves as allowed keeps its room.
LEMMA RoomKept ==
    ASSUME PInv, NEW q \in Lambdas, RoomMoves(q)
    PROVE  Room(q)'
<1>1. CASE pc'[q] \notin {"choose", "createSave"}
  BY <1>1 DEF Room
<1>2. CASE pc'[q] = pc[q] /\ snap'[q] = snap[q] /\ host'[q] = host[q] /\ ask'[q] = ask[q]
  <2>1. Room(q)
    BY DEF PInv
  <2> QED
    BY <1>2, <2>1 DEF Room, used, Units, OnHost, ServerIDs, HostIDs
<1> QED
  BY <1>1, <1>2 DEF RoomMoves

\* A registry that is not written keeps its placement.
LEMMA KeptPlacement ==
    ASSUME Placement, Finite, UNCHANGED reg
    PROVE  Placement' /\ Finite'
<1>1. Placement'
  BY DEF Placement, Housed, WithinCapacity, WithinLimits, used, Units, OnHost, ServerIDs, HostIDs
<1>2. Finite'
  BY DEF Finite, Units, OnHost, ServerIDs
<1> QED
  BY <1>1, <1>2

PlacedInv == IInv /\ PInv

\* An empty fleet is within its limits.
LEMMA PlacedInit == Init => PlacedInv
<1> SUFFICES ASSUME Init PROVE PlacedInv
  OBVIOUS
<1>1. IInv
  BY IInvInit
<1>2. /\ HostIDs(reg) = {} /\ ServerIDs(reg) = {}
      /\ \A p \in Lambdas : pc[p] = "idle" /\ ServerIDs(snap[p]) = {}
  BY DEF Init, EmptyState, HostIDs, ServerIDs
<1>3. \A h \in Hosts, d \in Dims : Units(reg, h, d) = {}
  BY <1>2 DEF Units, OnHost
<1>4. IsFiniteSet({}) /\ Cardinality({}) = 0
  BY FS_EmptySet
<1>5. Placement
  BY <1>2, <1>4, ConfigAssumption DEF Placement, Housed, WithinCapacity, WithinLimits
<1>6. Finite /\ \A p \in Lambdas : Room(p) /\ IsFiniteSet(ServerIDs(snap[p]))
  BY <1>2, <1>3, <1>4 DEF Finite, Room
<1> QED
  BY <1>1, <1>5, <1>6 DEF PlacedInv, PInv

\* Every step keeps every server placed and every Create's room.
LEMMA PlacedNext == PlacedInv /\ [Next]_vars => PlacedInv'
<1> SUFFICES ASSUME IInv, PInv, [Next]_vars PROVE IInv' /\ PInv'
  BY DEF PlacedInv
<1>1. IInv'
  BY IInvNext
<1>2. CASE UNCHANGED vars
  <2>1. UNCHANGED <<reg, calls>>
    BY <1>2 DEF vars, table
  <2>2. Placement' /\ Finite'
    BY <2>1, KeptPlacement DEF PInv
  <2>3. \A q \in Lambdas : Room(q)' /\ IsFiniteSet(ServerIDs(snap'[q]))
    BY <2>1, RoomKept DEF calls, RoomMoves, PInv
  <2> QED
    BY <1>1, <2>2, <2>3 DEF PInv, ServerIDs
<1>3. CASE Next
  <2>1. Placement' /\ Finite' /\ \A q \in Lambdas : RoomMoves(q)
    <3>1. ASSUME NEW p \in Lambdas, Scheduler(p) PROVE Placement' /\ Finite' /\ \A q \in Lambdas : RoomMoves(q)
      <4>1. RegSteps(p) /\ \A q \in Lambdas : RoomMoves(q)
        BY <3>1, SchedulerReg, SchedulerRoom
      <4>2. Placement /\ Finite
        BY DEF PInv
      <4> QED
        BY <1>1, <4>1, <4>2, AddedPlacement, AmendedPlacement, KeptPlacement DEF RegSteps
    <3>2. ASSUME HostSide PROVE Placement' /\ Finite' /\ \A q \in Lambdas : RoomMoves(q)
      <4>1. UNCHANGED <<reg, calls>>
        BY <3>2, HostSideTyped DEF IInv
      <4> QED
        BY <4>1, KeptPlacement DEF PInv, calls, RoomMoves
    <3> QED
      BY <1>3, <3>1, <3>2, NextCases
  <2>2. \A q \in Lambdas : Room(q)'
    BY <2>1, RoomKept
  <2>3. IsFiniteSet(ServerIDs(reg'))
    BY <2>1 DEF Finite, ServerIDs
  <2>4. \A q \in Lambdas : IsFiniteSet(ServerIDs(snap'[q]))
    BY <1>3, <2>3, SnapshotsFinite
  <2> QED
    BY <1>1, <2>1, <2>2, <2>4 DEF PInv, ServerIDs
<1> QED
  BY <1>2, <1>3

\* Every saved server lives on a host of the registry, within its capacity, and
\* the fleet within its limits, whatever Creates, removals and retirements race.
THEOREM ServersAreHoused == Spec => []Placement
<1>1. Spec => []PlacedInv
  BY PlacedInit, PlacedNext, PTL DEF Spec
<1>2. PlacedInv => Placement
  BY DEF PlacedInv, PInv
<1> QED
  BY <1>1, <1>2, PTL
=============================================================================

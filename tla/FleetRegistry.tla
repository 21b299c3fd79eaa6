---------------------------- MODULE FleetRegistry ----------------------------
(***************************************************************************)
(* The data the fleet scheduler, its hosts and its store share             *)
(* (internal/fleet/state.go, table.go) and the pure functions the          *)
(* scheduler computes over it (internal/fleet/scheduler.go).               *)
(*                                                                         *)
(* A State is one DynamoDB item: it is read whole and replaced whole under *)
(* a compare-and-swap on its revision.  Slices indexed by ID in the code   *)
(* are functions from IDs to a record or None here; the order of a slice   *)
(* is abstracted (an action that walks one may visit it in any order).     *)
(***************************************************************************)
EXTENDS Integers, FiniteSets

CONSTANTS
    Servers,      \* server IDs browsers may submit
    Hosts,        \* host IDs the scheduler may draw
    Games,        \* the catalog
    Releases,     \* deployed fleet releases; each scheduler runs one of them
    Workload,     \* Workload[r]: content hash of release r, None when unset
    Capacity,     \* Capacity[r][d]: what a host of release r offers
    Dims,         \* resource dimensions (CPU, memory, disk)
    Memory,       \* the dimension that ranks candidate hosts
    Need,         \* Need[g][d]: what game g reserves
    MaxHosts, MaxServers,   \* Config limits
    MaxRequests,  \* bound: request IDs ever issued
    None

Desired == {"running", "stopped", "deleted"}
Phases == {"starting", "running", "stopped", "failed", "deleted"}
Requests == 1..MaxRequests

HostRec == [release : Releases, instance : BOOLEAN, retiring : BOOLEAN,
            error : BOOLEAN]
ServerRec == [game : Games, host : Hosts, desired : Desired, req : Requests,
              ready : BOOLEAN, error : BOOLEAN]
ReportRec == [host : Hosts, req : Requests, phase : Phases, desired : Desired,
              error : BOOLEAN]
State == [rev : Nat, deleting : BOOLEAN,
          hosts : [Hosts -> HostRec \cup {None}],
          servers : [Servers -> ServerRec \cup {None}]]

ASSUME NoneAssumption ==
    /\ None \notin HostRec /\ None \notin ServerRec /\ None \notin ReportRec
    /\ None \notin Hosts /\ None \notin Servers
ASSUME ConfigAssumption ==
    /\ Memory \in Dims
    /\ Capacity \in [Releases -> [Dims -> Nat]]
    /\ Need \in [Games -> [Dims -> Nat]]
    /\ MaxHosts \in Nat \ {0} /\ MaxServers \in Nat \ {0}
    /\ MaxRequests \in Nat
    /\ IsFiniteSet(Hosts)
\* Config.Validate: every game of the catalog fits an empty host.
ASSUME CatalogAssumption ==
    \A g \in Games, r \in Releases, d \in Dims : Need[g][d] <= Capacity[r][d]

\* The registry before its first Save: Load returns the zero State.
EmptyState == [rev |-> 0, deleting |-> FALSE,
               hosts |-> [h \in Hosts |-> None],
               servers |-> [s \in Servers |-> None]]

HostIDs(st) == {h \in Hosts : st.hosts[h] # None}
ServerIDs(st) == {s \in Servers : st.servers[s] # None}
OnHost(st, h) == {s \in ServerIDs(st) : st.servers[s].host = h}

-----------------------------------------------------------------------------
(* Capacity.                                                               *)

\* What the servers of a host reserve, unit by unit, and how much that is.
Units(st, h, d) == UNION {{s} \X (1..Need[st.servers[s].game][d]) : s \in OnHost(st, h)}
used(st, h) == [d \in Dims |-> Cardinality(Units(st, h, d))]

\* Mutant of fits: placement ignores what the host already runs.
MutFits(capacity, load, required) == \A d \in Dims : required[d] <= capacity[d]

fits(capacity, load, required) ==
    \A d \in Dims : load[d] + required[d] <= capacity[d]

\* A host serves release r when it was launched by it or holds the same workload.
Serves(host, r) ==
    \/ host.release = r
    \/ Workload[host.release] # None /\ Workload[host.release] = Workload[r]

\* Inspect states that choose accepts, best first.
Rank == [running |-> 0, pending |-> 1, new |-> 1, stopped |-> 2, stopping |-> 2]

\* Mutant of Candidates: a retiring host still admits servers.
MutCandidates(st, r, g, inspect) ==
    {h \in HostIDs(st) :
        /\ Serves(st.hosts[h], r)
        /\ fits(Capacity[st.hosts[h].release], used(st, h), Need[g])
        /\ inspect[h] \in DOMAIN Rank}

\* The hosts choose considers, given the states Inspect returned.
Candidates(st, r, g, inspect) ==
    {h \in HostIDs(st) :
        /\ ~st.hosts[h].retiring
        /\ Serves(st.hosts[h], r)
        /\ fits(Capacity[st.hosts[h].release], used(st, h), Need[g])
        /\ inspect[h] \in DOMAIN Rank}

Remaining(st, h) == Capacity[st.hosts[h].release][Memory] - used(st, h)[Memory]

Better(st, inspect, a, b) ==
    \/ Rank[inspect[a]] < Rank[inspect[b]]
    \/ /\ Rank[inspect[a]] = Rank[inspect[b]]
       /\ Remaining(st, a) < Remaining(st, b)

\* choose returns a best candidate (ties are broken by the random host ID).
BestHosts(st, r, g, inspect) ==
    LET c == Candidates(st, r, g, inspect)
    IN  {h \in c : ~\E other \in c : Better(st, inspect, other, h)}

-----------------------------------------------------------------------------
(* Requests, their timeout and the reports that answer them.  Requests are *)
(* numbered as they are issued, so those issued at least StartupTimeout    *)
(* ago are the ones up to some number, "aged".                             *)

requestExpired(v, aged) == ~v.ready /\ v.req <= aged
startupExpired(v, aged) == v.desired = "running" /\ requestExpired(v, aged)

\* Mutant of Matches: a report of any earlier request of the server counts.
MutMatches(v, r) == r # None /\ r.host = v.host

Matches(v, r) == r # None /\ r.host = v.host /\ r.req = v.req

requestComplete(v, r) ==
    Matches(v, r) /\ ~r.error /\ r.desired = v.desired /\ r.phase = v.desired

\* The reconcile loop fails an expired request, or keeps its host awake.
Failed(v, r, aged) ==
    startupExpired(v, aged) \/ (requestExpired(v, aged) /\ ~requestComplete(v, r))
Wanted(v, r) == v.desired = "running" \/ ~requestComplete(v, r)

needed(st, seen, aged, h) ==
    \E s \in OnHost(st, h) : ~Failed(st.servers[s], seen[s], aged) /\ Wanted(st.servers[s], seen[s])
hasExpired(st, seen, aged, h) ==
    \E s \in OnHost(st, h) : Failed(st.servers[s], seen[s], aged)

\* Mutant of RemovalAcknowledged: an accepted removal counts as a finished one.
MutRemovalAcknowledged(st, v, r) ==
    /\ ~st.deleting
    /\ Matches(v, r) /\ ~r.error
    /\ v.desired = "deleted" /\ r.desired = "deleted"

\* The host acknowledged this removal, so reconcile forgets the server.
RemovalAcknowledged(st, v, r) ==
    /\ ~st.deleting
    /\ Matches(v, r) /\ ~r.error
    /\ v.desired = "deleted" /\ r.desired = "deleted" /\ r.phase = "deleted"

\* What one pass of reconcile makes of server v and its report r; fresh says
\* the report carries a player count observed within 45 seconds.
Observe(st, v, r, aged, fresh) ==
    LET ready == \/ v.ready
                 \/ /\ v.desired = "running" /\ fresh
                    /\ Matches(v, r) /\ ~r.error
                    /\ r.desired = "running" /\ r.phase = "running"
        seenReady == [v EXCEPT !.ready = ready]
        idled == /\ ~st.deleting
                 /\ Matches(v, r) /\ ~r.error
                 /\ v.desired = "running" /\ r.desired = "stopped" /\ r.phase = "stopped"
    IN  [seenReady EXCEPT
            !.error = IF st.deleting THEN v.error ELSE Failed(seenReady, r, aged),
            !.desired = IF idled THEN "stopped" ELSE v.desired]

ObserveSome(st, seen, aged, fresh, some) ==
    [s \in Servers |->
        IF st.servers[s] # None /\ s \in some
        THEN Observe(st, st.servers[s], seen[s], aged, s \in fresh)
        ELSE st.servers[s]]

\* A host with no retained server, or any host of an ending deployment, retires.
Retained(st, h) == \E s \in OnHost(st, h) : st.servers[s].desired # "deleted"
Retire(st) ==
    [h \in Hosts |->
        IF st.hosts[h] # None /\ (st.deleting \/ ~Retained(st, h))
        THEN [st.hosts[h] EXCEPT !.retiring = TRUE]
        ELSE st.hosts[h]]
=============================================================================

---------------------------- MODULE LaunchProofs ----------------------------
(***************************************************************************)
(* What LaunchPage guarantees for any number of presets, created servers,  *)
(* invocations, requests and faults: an outcome in a row is that of its    *)
(* own request, a completion is real, and no request is taken twice.       *)
(*                                                                         *)
(* The argument: requests are numbered as they are queued, so a row whose  *)
(* number is the one the worker has read is about the same action.  What   *)
(* the worker has read of a row, and what the controller has taken, are    *)
(* never ahead of the row; and only the worker itself changes what the     *)
(* controller has taken and what the row says of that, so both stay as     *)
(* they are between its steps.                                             *)
(***************************************************************************)
EXTENDS LaunchPage, TLAPS

\* What the fields of a row say of each other.
RowOK(r) ==
    /\ r.snap = None => r.req = 0 /\ r.accepted = 0 /\ r.completed = 0
    /\ r.req # 0 => r.action # None
    /\ r.accepted <= r.req
    /\ r.failure => r.completed = r.req /\ r.req # 0
Rows == \A i \in IDs : RowOK(row[i]) /\ row[i].req <= issued

\* An instance has taken no request its row does not have yet; a deleted one was
\* to be deleted, and one found running in this boot is up.
InstanceOK(n, i) ==
    /\ n.req <= row[i].req
    /\ n.phase = "deleted" => n.desired = "deleted"
    /\ n.phase = "running" /\ n.fresh => i \in up
Instances == \A i \in IDs : inst[i] # None => InstanceOK(inst[i], i)

\* A request that is marked accepted is the last one the controller has taken.
Taken(r, i) == r.accepted = r.req /\ r.req # 0 => inst[i] # None /\ inst[i].req = r.req
Accepts == \A i \in IDs : Taken(row[i], i)

\* What an invocation carries along.
Carries(p) ==
    /\ lam[p].at \in {"queue", "put", "expire"} => lam[p].id \in IDs
    /\ lam[p].at = "queue" => lam[p].action # None
    /\ lam[p].at = "expire" => lam[p].req # 0

\* The row the worker has read is an earlier one, or about the same request.
Reads ==
    sync.at \in {"local", "mark"} =>
        /\ sync.id \in IDs
        /\ sync.row.req <= row[sync.id].req
        /\ sync.row.req = row[sync.id].req => sync.row.action = row[sync.id].action
        /\ sync.row.req # 0 => sync.row.action # None

\* What it still knows where it decides.
Decides ==
    sync.at = "local" =>
        /\ sync.pending => Open(sync.row)
        /\ sync.row.accepted = row[sync.id].accepted
        /\ Taken(sync.row, sync.id)
        /\ inst[sync.id] # None => inst[sync.id].req <= sync.row.req

\* What makes a completion real, up to the write of it.
Done ==
    IF inst[sync.id] = None THEN sync.row.action = "remove"
    ELSE /\ inst[sync.id].req = sync.row.req
         /\ sync.row.action = "start" => sync.id \in up
         /\ sync.row.action = "remove" => inst[sync.id].phase = "deleted"
Marking ==
    sync.at = "mark" =>
        /\ sync.row.req # 0
        /\ sync.stage = "accepted" => inst[sync.id] # None /\ inst[sync.id].req = sync.row.req
        /\ sync.stage # "accepted" /\ sync.failure = FALSE => Done
        /\ sync.then = "publish" => sync.snap # None
Publishing ==
    /\ sync.at \in {"get", "publish"} => sync.id \in IDs
    /\ sync.at = "publish" => sync.snap # None

Worker == Reads /\ Decides /\ Marking /\ Publishing

IInv ==
    /\ TypeOK
    /\ Rows /\ Instances /\ Accepts
    /\ \A p \in Lambdas : Carries(p)
    /\ Worker

-----------------------------------------------------------------------------
(* Steps of an invocation that leave the table alone.                      *)

\* What such a step, or one of the host's, leaves to show.
LEMMA AsideStep ==
    ASSUME IInv, lam' \in [Lambdas -> LambdaRec], \A p \in Lambdas : Carries(p)',
           host' \in {"stopped", "pending", "running", "closing", "stopping"},
           check' \in (SUBSET IDs) \cup {None}, faults' \in 0..MaxFaults,
           row' = row, issued' = issued, inst' = inst, up' = up, sync' = sync
    PROVE  IInv'
<1>1. TypeOK'
  BY DEF IInv, TypeOK
<1>2. Rows' /\ Instances' /\ Accepts'
  BY DEF IInv, Rows, Instances, Accepts, InstanceOK, Taken
<1>3. Worker'
  BY DEF IInv, Worker, Reads, Decides, Marking, Publishing, Taken, Done
<1> QED
  BY <1>1, <1>2, <1>3 DEF IInv

\* An invocation's record is replaced by another that carries enough.
LEMMA LambdaStep ==
    ASSUME IInv, NEW p \in Lambdas, NEW v \in LambdaRec, lam' = [lam EXCEPT ![p] = v],
           v.at \in {"queue", "put", "expire"} => v.id \in IDs,
           v.at = "queue" => v.action # None, v.at = "expire" => v.req # 0
    PROVE  lam' \in [Lambdas -> LambdaRec] /\ \A q \in Lambdas : Carries(q)'
<1>1. lam \in [Lambdas -> LambdaRec]
  BY DEF IInv, TypeOK
<1>2. lam' \in [Lambdas -> LambdaRec] /\ lam'[p] = v /\ \A q \in Lambdas \ {p} : lam'[q] = lam[q]
  BY <1>1
<1>3. Carries(p)'
  BY <1>2 DEF Carries
<1>4. \A q \in Lambdas \ {p} : Carries(q)'
  BY <1>2 DEF IInv, Carries
<1> QED
  BY <1>2, <1>3, <1>4

LEMMA IdleRecord ==
    /\ Idle \in LambdaRec /\ Idle.at = "idle" /\ Idle.id = None /\ Idle.req = 0
    /\ [Idle EXCEPT !.at = "wake"] \in LambdaRec
    /\ [Idle EXCEPT !.at = "wake"].at = "wake"
BY LaunchAssumption DEF Idle, LambdaRec, Requests

\* What the table says of its own servers.
LEMMA Managed == managedIDs \subseteq IDs
BY DEF managedIDs, IDs

LEMMA ActionReadStep ==
    ASSUME IInv, NEW p \in Lambdas, NEW i \in Asked, NEW a \in Actions, ActionRead(p, i, a)
    PROVE  IInv'
<1> DEFINE v == [Idle EXCEPT !.at = "queue", !.id = i, !.action = a]
<1>1. i \in IDs /\ a \in {"start", "stop", "remove"} /\ a # None
  BY LaunchAssumption, NoneAssumption
<1>2. v \in LambdaRec /\ v.at = "queue" /\ v.id = i /\ v.action = a
  BY <1>1, IdleRecord DEF Idle, LambdaRec
<1>3. lam' = [lam EXCEPT ![p] = v] /\ UNCHANGED <<row, issued, host, inst, up, sync, check, faults>>
  BY DEF ActionRead
<1> HIDE DEF v
<1>4. lam' \in [Lambdas -> LambdaRec] /\ \A q \in Lambdas : Carries(q)'
  BY <1>1, <1>2, <1>3, LambdaStep
<1> QED
  BY <1>3, <1>4, AsideStep DEF IInv, TypeOK

LEMMA CreateReadStep ==
    ASSUME IInv, NEW p \in Lambdas, NEW i \in Extras, NEW t \in Presets, CreateRead(p, i, t)
    PROVE  IInv'
<1> DEFINE v == [Idle EXCEPT !.at = "put", !.id = i, !.template = t]
<1>1. i \in IDs
  BY DEF IDs
<1>2. v \in LambdaRec /\ v.at = "put" /\ v.id = i
  BY <1>1, IdleRecord DEF Idle, LambdaRec
<1>3. lam' = [lam EXCEPT ![p] = v] /\ UNCHANGED <<row, issued, host, inst, up, sync, check, faults>>
  BY DEF CreateRead
<1> HIDE DEF v
<1>4. lam' \in [Lambdas -> LambdaRec] /\ \A q \in Lambdas : Carries(q)'
  BY <1>1, <1>2, <1>3, LambdaStep
<1> QED
  BY <1>3, <1>4, AsideStep DEF IInv, TypeOK

\* The ends of an invocation, its wake-up call included.
LEMMA WakeStep ==
    ASSUME IInv, NEW p \in Lambdas, Wake(p) \/ ScanEnds(p) \/ LambdaFails(p)
    PROVE  IInv'
<1>1. /\ lam' = [lam EXCEPT ![p] = Idle]
      /\ UNCHANGED <<row, issued, inst, up, sync, check>>
  BY DEF Wake, ScanEnds, LambdaFails
<1>2. host' \in {"stopped", "pending", "running", "closing", "stopping"}
  BY DEF Wake, ScanEnds, LambdaFails, IInv, TypeOK
<1>3. faults' \in 0..MaxFaults
  BY LaunchAssumption DEF Wake, ScanEnds, LambdaFails, Fault, IInv, TypeOK
<1>4. lam' \in [Lambdas -> LambdaRec] /\ \A q \in Lambdas : Carries(q)'
  BY <1>1, IdleRecord, LambdaStep
<1> QED
  BY <1>1, <1>2, <1>3, <1>4, AsideStep DEF IInv, TypeOK

LEMMA ScanBeginsStep ==
    ASSUME IInv, NEW p \in Lambdas, ScanBegins(p)
    PROVE  IInv'
<1> DEFINE v == [Idle EXCEPT !.at = "scan", !.todo = managedIDs]
<1>2. v \in LambdaRec /\ v.at = "scan"
  BY Managed, IdleRecord DEF Idle, LambdaRec
<1>3. lam' = [lam EXCEPT ![p] = v] /\ UNCHANGED <<row, issued, host, inst, up, sync, check, faults>>
  BY DEF ScanBegins
<1> HIDE DEF v
<1>4. lam' \in [Lambdas -> LambdaRec] /\ \A q \in Lambdas : Carries(q)'
  BY <1>2, <1>3, LambdaStep
<1> QED
  BY <1>3, <1>4, AsideStep DEF IInv, TypeOK

LEMMA ScanRowStep ==
    ASSUME IInv, NEW p \in Lambdas, NEW i \in IDs, ScanRow(p, i)
    PROVE  IInv'
<1> DEFINE l == lam[p]
           x == [l EXCEPT !.at = "expire", !.id = i, !.req = row[i].req]
           t == [l EXCEPT !.todo = lam[p].todo \ {i}]
           v == IF Pending(row[i]) THEN [Idle EXCEPT !.at = "wake"] ELSE IF Open(row[i]) THEN x ELSE t
<1>1. l \in LambdaRec /\ l.at = "scan" /\ row[i].req \in Requests
  BY DEF IInv, TypeOK, ScanRow, RowRec
<1>2. x \in LambdaRec /\ x.at = "expire" /\ x.id = i /\ x.req = row[i].req
  BY <1>1 DEF LambdaRec
<1>3. t \in LambdaRec /\ t.at = "scan"
  BY <1>1 DEF LambdaRec
<1>4. Open(row[i]) => row[i].req # 0
  BY DEF Open
<1>5. lam' = [lam EXCEPT ![p] = v] /\ UNCHANGED <<row, issued, host, inst, up, sync, check, faults>>
  BY DEF ScanRow
<1>6. /\ v \in LambdaRec /\ v.at # "queue" /\ (v.at \in {"put", "expire"} => v.id \in IDs)
      /\ v.at = "expire" => v.req # 0
  <2> HIDE DEF x, t
  <2> QED
    BY <1>2, <1>3, <1>4, IdleRecord
<1> HIDE DEF v
<1>7. lam' \in [Lambdas -> LambdaRec] /\ \A q \in Lambdas : Carries(q)'
  BY <1>5, <1>6, LambdaStep
<1> QED
  BY <1>5, <1>7, AsideStep DEF IInv, TypeOK

-----------------------------------------------------------------------------
(* Writes to the table.                                                    *)

\* A write to row i: of the same request, or of a new one with the next number.
\* It leaves the accepted request, or marks the one the controller has taken.
Writes(i, v) ==
    /\ row' = [row EXCEPT ![i] = v] /\ v \in RowRec /\ RowOK(v)
    /\ \/ v.accepted = row[i].accepted
       \/ v.accepted = v.req /\ v.req = row[i].req /\ inst[i] # None /\ inst[i].req = v.req
    /\ \/ v.req = row[i].req /\ v.action = row[i].action /\ issued' = issued
       \/ v.req = issued' /\ issued' = issued + 1 /\ issued < MaxRequests

\* Numbers of requests are natural numbers.
LEMMA Numbered ==
    ASSUME IInv
    PROVE  /\ issued \in Nat /\ MaxRequests \in Nat
           /\ \A i \in IDs : row[i] \in RowRec /\ row[i].req \in Nat /\ row[i].accepted \in Nat
           /\ \A i \in IDs : inst[i] # None => inst[i] \in InstanceRec /\ inst[i].req \in Nat
           /\ sync \in SyncRec /\ sync.row \in RowRec /\ sync.row.req \in Nat
<1>1. Requests \subseteq Nat /\ MaxRequests \in Nat
  BY LaunchAssumption DEF Requests
<1>2. \A r \in RowRec : r.req \in Requests /\ r.accepted \in Requests
  BY DEF RowRec
<1>3. \A n \in InstanceRec : n.req \in Requests
  BY DEF InstanceRec
<1>4. row \in [IDs -> RowRec] /\ issued \in Requests /\ inst \in [IDs -> InstanceRec \cup {None}]
  BY DEF IInv, TypeOK
<1>5. sync \in SyncRec /\ sync.row \in RowRec
  BY DEF IInv, TypeOK, SyncRec
<1> QED
  BY <1>1, <1>2, <1>3, <1>4, <1>5

\* Such a write keeps what the invariant says of the table, the instances and, if
\* it is not the worker's own, the worker: an old number is not given again.
LEMMA WriteStep ==
    ASSUME IInv, NEW i \in IDs, NEW v, Writes(i, v), inst' = inst, up' = up
    PROVE  /\ row' \in [IDs -> RowRec] /\ issued' \in Requests
           /\ Rows' /\ Instances' /\ Accepts'
           /\ sync' = sync /\ v.accepted = row[i].accepted => Worker'
<1>1. /\ row' \in [IDs -> RowRec] /\ row'[i] = v /\ \A j \in IDs \ {i} : row'[j] = row[j]
  BY DEF Writes, IInv, TypeOK
<1>2. v.req \in Nat /\ v.accepted \in Nat
  BY LaunchAssumption DEF Writes, RowRec, Requests
<1>3. issued' \in Requests /\ issued' \in Nat /\ issued <= issued' /\ v.req <= issued'
  BY Numbered DEF Writes, IInv, TypeOK, Requests, Rows
<1>4. Rows'
  <2>1. \A j \in IDs : RowOK(row'[j])
    BY <1>1 DEF Writes, IInv, Rows
  <2>2. \A j \in IDs : row'[j].req <= issued'
    BY <1>1, <1>3, Numbered DEF IInv, Rows
  <2>3. \A j \in IDs : RowOK(row[j])'
    BY <2>1 DEF RowOK
  <2> QED
    BY <2>2, <2>3 DEF Rows
<1>5. \A j \in IDs : row[j].req <= row'[j].req
  BY <1>1, Numbered DEF Writes, IInv, Rows
<1>6. Instances'
  <2> SUFFICES ASSUME NEW j \in IDs, inst[j] # None PROVE InstanceOK(inst[j], j)'
    BY DEF Instances
  <2>1. InstanceOK(inst[j], j) /\ inst[j].req \in Nat /\ row'[j].req \in Nat
    BY <1>1, <1>2, Numbered DEF IInv, Instances
  <2> QED
    BY <1>5, <2>1, Numbered DEF InstanceOK
<1>7. \A j \in IDs : row[j].accepted <= row[j].req /\ row[j].req <= issued
  BY DEF IInv, Rows, RowOK
<1>8. \A j \in IDs : Taken(row[j], j)
  BY DEF IInv, Accepts
<1>9. Accepts'
  <2>1. Taken(v, i)
    <3>1. CASE v.req = row[i].req
      BY <1>8, <3>1 DEF Taken, Writes
    <3>2. CASE v.req # row[i].req
      <4>1. v.req = issued + 1 /\ v.accepted = row[i].accepted
        BY <3>2 DEF Writes
      <4>2. row[i].accepted <= row[i].req /\ row[i].req <= issued
        BY <1>7
      <4>3. v.accepted # v.req
        BY <4>1, <4>2, Numbered
      <4> QED
        BY <4>3 DEF Taken
    <3> QED
      BY <3>1, <3>2
  <2> QED
    BY <1>1, <1>8, <2>1 DEF Accepts, Taken
<1>10. ASSUME sync' = sync, v.accepted = row[i].accepted PROVE Worker'
  <2>1. Reads'
    <3> SUFFICES ASSUME sync.at \in {"local", "mark"}
                 PROVE  /\ sync.id \in IDs
                        /\ sync.row.req <= row'[sync.id].req
                        /\ sync.row.req = row'[sync.id].req => sync.row.action = row'[sync.id].action
                        /\ sync.row.req # 0 => sync.row.action # None
      BY <1>10 DEF Reads
    <3>1. /\ sync.id \in IDs /\ sync.row.req <= row[sync.id].req
          /\ sync.row.req = row[sync.id].req => sync.row.action = row[sync.id].action
          /\ sync.row.req # 0 => sync.row.action # None
      BY DEF IInv, Worker, Reads
    <3>2. sync.row.req <= row'[sync.id].req
      BY <3>1, <1>1, <1>2, <1>5, Numbered
    <3>3. CASE sync.id # i
      BY <3>1, <3>2, <3>3, <1>1
    <3>4. CASE sync.id = i /\ v.req = row[i].req /\ v.action = row[i].action
      BY <3>1, <3>2, <3>4, <1>1
    <3>5. CASE sync.id = i /\ v.req = issued + 1
      BY <3>1, <3>2, <3>5, <1>1, <1>7, Numbered
    <3> QED
      BY <3>3, <3>4, <3>5 DEF Writes
  <2>2. Decides'
    <3>1. sync.at = "local" => sync.id \in IDs /\ sync.row.accepted = row[sync.id].accepted
      BY DEF IInv, Worker, Reads, Decides
    <3>2. sync.at = "local" => sync.row.accepted = row'[sync.id].accepted
      BY <3>1, <1>1, <1>10 DEF Writes
    <3> QED
      BY <1>10, <3>2 DEF IInv, Worker, Decides, Taken
  <2>3. Marking' /\ Publishing'
    BY <1>10 DEF IInv, Worker, Marking, Publishing, Done
  <2> QED
    BY <2>1, <2>2, <2>3 DEF Worker
<1> QED
  BY <1>1, <1>3, <1>4, <1>6, <1>9, <1>10

\* The invariant after a write of an invocation.
LEMMA PageStep ==
    ASSUME IInv, NEW i \in IDs, NEW v, Writes(i, v), v.accepted = row[i].accepted,
           lam' \in [Lambdas -> LambdaRec], \A p \in Lambdas : Carries(p)',
           UNCHANGED <<host, inst, up, sync, check, faults>>
    PROVE  IInv'
<1>1. /\ row' \in [IDs -> RowRec] /\ issued' \in Requests
      /\ Rows' /\ Instances' /\ Accepts' /\ Worker'
  BY WriteStep
<1>2. TypeOK'
  BY <1>1 DEF IInv, TypeOK
<1> QED
  BY <1>1, <1>2 DEF IInv

\* What queueing makes of a row, and what Create makes of none.
LEMMA QueuedShape ==
    ASSUME NEW r \in RowRec, RowOK(r), r.snap # None, NEW a \in {"start", "stop", "remove"},
           NEW n \in Requests, r.req < n
    PROVE  /\ Queued(r, a, n) \in RowRec /\ RowOK(Queued(r, a, n))
           /\ Queued(r, a, n).accepted = r.accepted /\ Queued(r, a, n).req = n
           /\ Queued(r, a, n).completed = r.completed
<1> DEFINE q == Queued(r, a, n)
<1>1. /\ q \in RowRec /\ q.snap = r.snap /\ q.req = n /\ q.action = a /\ q.accepted = r.accepted
      /\ q.completed = r.completed /\ q.failure = FALSE
  BY DEF Queued, RowRec
<1>2. r.accepted \in Nat /\ r.req \in Nat /\ n \in Nat /\ r.accepted <= r.req
  BY LaunchAssumption DEF RowRec, Requests, RowOK
<1> HIDE DEF q
<1>3. RowOK(q)
  BY <1>1, <1>2, NoneAssumption DEF RowOK
<1> QED
  BY <1>1, <1>3 DEF q
LEMMA CreatedShape ==
    ASSUME NEW t \in Presets \cup {None}, NEW n \in Requests, 0 < n
    PROVE  /\ Created(t, n) \in RowRec /\ RowOK(Created(t, n))
           /\ Created(t, n).accepted = 0 /\ Created(t, n).req = n /\ Created(t, n).completed = 0
<1> DEFINE c == Created(t, n)
<1>0. 0 \in Requests /\ n \in Nat
  BY LaunchAssumption DEF Requests
<1>1. /\ c \in RowRec /\ c.snap = "live" /\ c.req = n /\ c.action = "start" /\ c.accepted = 0
      /\ c.completed = 0 /\ c.failure = FALSE
  BY <1>0 DEF Created, Queued, NoRow, RowRec, Snapshots
<1> HIDE DEF c
<1>2. "live" # None /\ "start" # None
  BY NoneAssumption DEF Snapshots
<1>3. RowOK(c)
  BY <1>0, <1>1, <1>2 DEF RowOK
<1> QED
  BY <1>1, <1>3 DEF c

LEMMA ActionQueueStep ==
    ASSUME IInv, NEW p \in Lambdas, ActionQueue(p)
    PROVE  IInv'
<1> DEFINE i == lam[p].id  a == lam[p].action
<1>1. i \in IDs /\ a \in {"start", "stop", "remove"}
  BY DEF ActionQueue, IInv, TypeOK, Carries, LambdaRec
<1>2. UNCHANGED <<host, inst, up, sync, check, faults>>
  BY DEF ActionQueue
<1>3. CASE lam' = [lam EXCEPT ![p] = Idle] /\ UNCHANGED <<row, issued>>
  <2>1. lam' \in [Lambdas -> LambdaRec] /\ \A q \in Lambdas : Carries(q)'
    BY <1>3, IdleRecord, LambdaStep
  <2> QED
    BY <1>2, <1>3, <2>1, AsideStep DEF IInv, TypeOK
<1>4. CASE /\ \E cooled \in BOOLEAN : Vacant(row[i], a, cooled)
           /\ issued < MaxRequests /\ issued' = issued + 1
           /\ row' = [row EXCEPT ![i] = Queued(@, a, issued')]
           /\ lam' = [lam EXCEPT ![p] = [Idle EXCEPT !.at = "wake"]]
  <2>1. lam' \in [Lambdas -> LambdaRec] /\ \A q \in Lambdas : Carries(q)'
    BY <1>4, IdleRecord, LambdaStep
  <2>2. row[i].snap # None /\ RowOK(row[i]) /\ row[i].req <= issued
    BY <1>1, <1>4 DEF Vacant, IInv, Rows
  <2>3. issued + 1 \in Requests /\ row[i].req < issued + 1 /\ row[i] \in RowRec
    BY <1>1, <1>4, <2>2, Numbered DEF Requests
  <2> DEFINE v == Queued(row[i], a, issued + 1)
  <2>4. v \in RowRec /\ RowOK(v) /\ v.accepted = row[i].accepted /\ v.req = issued + 1
    BY <1>1, <2>2, <2>3, QueuedShape
  <2>5. row' = [row EXCEPT ![i] = v]
    BY <1>4
  <2> HIDE DEF v, i
  <2>6. Writes(i, v)
    BY <1>4, <2>4, <2>5 DEF Writes
  <2> QED
    BY <1>1, <1>2, <2>1, <2>4, <2>6, PageStep
<1> QED
  BY <1>3, <1>4 DEF ActionQueue

LEMMA CreatePutStep ==
    ASSUME IInv, NEW p \in Lambdas, CreatePut(p)
    PROVE  IInv'
<1> DEFINE i == lam[p].id  t == lam[p].template
<1>1. i \in IDs /\ t \in Presets \cup {None}
  BY DEF CreatePut, IInv, TypeOK, Carries, LambdaRec
<1>2. UNCHANGED <<host, inst, up, sync, check, faults>>
  BY DEF CreatePut
<1>3. CASE /\ lam' = [lam EXCEPT ![p] = IF row[i].template = t THEN [Idle EXCEPT !.at = "wake"] ELSE Idle]
           /\ UNCHANGED <<row, issued>>
  <2>1. lam' \in [Lambdas -> LambdaRec] /\ \A q \in Lambdas : Carries(q)'
    BY <1>3, IdleRecord, LambdaStep
  <2> QED
    BY <1>2, <1>3, <2>1, AsideStep DEF IInv, TypeOK
<1>4. CASE /\ row[i].snap = None
           /\ issued < MaxRequests /\ issued' = issued + 1
           /\ row' = [row EXCEPT ![i] = Created(t, issued')]
           /\ lam' = [lam EXCEPT ![p] = [Idle EXCEPT !.at = "wake"]]
  <2>1. lam' \in [Lambdas -> LambdaRec] /\ \A q \in Lambdas : Carries(q)'
    BY <1>4, IdleRecord, LambdaStep
  <2>2. row[i].accepted = 0
    BY <1>1, <1>4 DEF IInv, Rows, RowOK
  <2>3. issued + 1 \in Requests /\ 0 < issued + 1
    BY <1>4, Numbered DEF Requests
  <2> DEFINE v == Created(t, issued + 1)
  <2>4. v \in RowRec /\ RowOK(v) /\ v.accepted = 0 /\ v.req = issued + 1
    BY <1>1, <2>3, CreatedShape
  <2>5. row' = [row EXCEPT ![i] = v]
    BY <1>4
  <2> HIDE DEF v, i
  <2>6. Writes(i, v)
    BY <1>4, <2>2, <2>4, <2>5 DEF Writes
  <2> QED
    BY <1>1, <1>2, <2>1, <2>2, <2>4, <2>6, PageStep
<1> QED
  BY <1>3, <1>4 DEF CreatePut

LEMMA RequestExpiresStep ==
    ASSUME IInv, NEW i \in IDs, RequestExpires(i)
    PROVE  IInv'
<1> DEFINE r == row[i]  v == [r EXCEPT !.expired = TRUE]
<1>1. r \in RowRec /\ RowOK(r)
  BY DEF IInv, TypeOK, Rows
<1>2. /\ v \in RowRec /\ v.snap = r.snap /\ v.req = r.req /\ v.action = r.action
      /\ v.accepted = r.accepted /\ v.completed = r.completed /\ v.failure = r.failure
  BY <1>1 DEF RowRec
<1>3. row' = [row EXCEPT ![i] = v]
  BY DEF RequestExpires
<1>4. UNCHANGED <<issued, lam, host, inst, up, sync, check, faults>>
  BY DEF RequestExpires
<1> HIDE DEF v
<1>5. RowOK(v)
  BY <1>1, <1>2, Zenon DEF RowOK
<1>6. Writes(i, v)
  BY <1>2, <1>3, <1>4, <1>5 DEF Writes
<1>7. lam' \in [Lambdas -> LambdaRec] /\ \A p \in Lambdas : Carries(p)'
  BY <1>4 DEF IInv, TypeOK, Carries
<1> QED
  BY <1>2, <1>4, <1>6, <1>7, PageStep

\* Mark, of a request and an outcome that are right, is such a write or none.
LEMMA MarkWrites ==
    ASSUME IInv, NEW i \in IDs, NEW req \in Requests, req # 0, NEW stage, NEW failure \in BOOLEAN,
           Mark(i, req, stage, failure), issued' = issued,
           stage = "accepted" => inst[i] # None /\ inst[i].req = req
    PROVE  \E v : Writes(i, v) /\ (stage # "accepted" => v.accepted = row[i].accepted)
<1> DEFINE r == row[i]
           a == [r EXCEPT !.accepted = req]
           c == [r EXCEPT !.completed = req, !.failure = failure]
<1>1. r \in RowRec /\ RowOK(r) /\ row \in [IDs -> RowRec]
  BY DEF IInv, TypeOK, Rows
<1>2. req \in Nat /\ r.req \in Nat /\ r.accepted \in Nat
  BY <1>1, LaunchAssumption DEF RowRec, Requests
<1>3. CASE row' = row
  <2>1. row' = [row EXCEPT ![i] = r]
    BY <1>1, <1>3
  <2>2. Writes(i, r)
    BY <1>1, <2>1 DEF Writes
  <2> QED
    BY <2>2
<1>4. CASE r.req = req /\ stage = "accepted" /\ row' = [row EXCEPT ![i] = a]
  <2>1. /\ a \in RowRec /\ a.accepted = req /\ a.req = r.req /\ a.action = r.action
        /\ a.snap = r.snap /\ a.completed = r.completed /\ a.failure = r.failure
    BY <1>1 DEF RowRec
  <2> HIDE DEF a
  <2>2. RowOK(a)
    <3>1. r.snap # None
      BY <1>1, <1>4 DEF RowOK
    <3>2. a.req # 0 => a.action # None
      BY <1>1, <2>1 DEF RowOK
    <3>3. a.accepted <= a.req
      BY <1>2, <1>4, <2>1
    <3>4. a.failure => a.completed = a.req /\ a.req # 0
      BY <1>1, <2>1, Zenon DEF RowOK
    <3> QED
      BY <2>1, <3>1, <3>2, <3>3, <3>4, Zenon DEF RowOK
  <2>3. Writes(i, a)
    BY <1>4, <2>1, <2>2 DEF Writes
  <2> QED
    BY <1>4, <2>3
<1>5. CASE r.req = req /\ stage # "accepted" /\ row' = [row EXCEPT ![i] = c]
  <2>1. /\ c \in RowRec /\ c.accepted = r.accepted /\ c.req = r.req /\ c.action = r.action
        /\ c.snap = r.snap /\ c.completed = req
    BY <1>1 DEF RowRec
  <2> HIDE DEF c
  <2>2. RowOK(c)
    BY <1>1, <1>5, <2>1 DEF RowOK
  <2>3. Writes(i, c)
    BY <1>5, <2>1, <2>2 DEF Writes
  <2> QED
    BY <1>5, <2>1, <2>3
<1> QED
  BY <1>3, <1>4, <1>5 DEF Mark

LEMMA ScanExpireStep ==
    ASSUME IInv, NEW p \in Lambdas, ScanExpire(p)
    PROVE  IInv'
<1> DEFINE i == lam[p].id  n == [Idle EXCEPT !.at = "scan", !.todo = lam[p].todo \ {i}]
<1>1. i \in IDs /\ lam[p].req \in Requests /\ lam[p].req # 0 /\ lam[p].todo \subseteq IDs
  BY DEF ScanExpire, IInv, TypeOK, Carries, LambdaRec
<1>2. /\ Mark(i, lam[p].req, "completed", TRUE) /\ lam' = [lam EXCEPT ![p] = n]
      /\ UNCHANGED <<issued, host, inst, up, sync, check, faults>>
  BY DEF ScanExpire
<1>3. n \in LambdaRec /\ n.at = "scan"
  BY <1>1, IdleRecord DEF Idle, LambdaRec
<1> HIDE DEF n
<1>4. lam' \in [Lambdas -> LambdaRec] /\ \A q \in Lambdas : Carries(q)'
  BY <1>2, <1>3, LambdaStep
<1> HIDE DEF i
<1>5. PICK v : Writes(i, v) /\ v.accepted = row[i].accepted
  <2> DEFINE f == TRUE
  <2>1. f \in BOOLEAN /\ Mark(i, lam[p].req, "completed", f)
    BY <1>2
  <2> HIDE DEF f
  <2> QED
    BY <1>1, <1>2, <2>1, MarkWrites
<1> QED
  BY <1>1, <1>2, <1>4, <1>5, PageStep

-----------------------------------------------------------------------------
(* The worker's pass.                                                      *)

\* What is left to show of a step that changes only what the worker has in hand.
LEMMA SyncStep ==
    ASSUME IInv, sync' \in SyncRec, Worker', faults' \in 0..MaxFaults,
           UNCHANGED <<row, issued, lam, host, inst, up, check>>
    PROVE  IInv'
<1>1. TypeOK'
  BY DEF IInv, TypeOK
<1>2. Rows' /\ Instances' /\ Accepts' /\ \A p \in Lambdas : Carries(p)'
  BY DEF IInv, Rows, Instances, Accepts, InstanceOK, Taken, Carries
<1> QED
  BY <1>1, <1>2 DEF IInv

\* A worker that rests or takes its next instance holds nothing.
LEMMA RestShape ==
    /\ Resting \in SyncRec /\ Resting.at = "rest"
    /\ \A S \in SUBSET IDs : /\ [Resting EXCEPT !.at = "next", !.todo = S] \in SyncRec
                             /\ [Resting EXCEPT !.at = "next", !.todo = S].at = "next"
<1>1. NoRow \in RowRec
  BY LaunchAssumption DEF NoRow, RowRec, Requests
<1> QED
  BY <1>1 DEF Resting, SyncRec
LEMMA RestWorker ==
    ASSUME sync'.at \in {"rest", "next"}
    PROVE  Worker'
BY DEF Worker, Reads, Decides, Marking, Publishing

LEMMA ContinueShape ==
    ASSUME IInv, NEW then \in {"next", "get", "publish"}, Continue(then),
           then # "next" => sync.id \in IDs, then = "publish" => sync.snap # None
    PROVE  sync' \in SyncRec /\ Worker'
<1>0. sync \in SyncRec /\ sync.todo \in SUBSET IDs
  BY DEF IInv, TypeOK, SyncRec
<1>1. CASE then = "next"
  <2>1. sync' = [Resting EXCEPT !.at = "next", !.todo = sync.todo]
    BY <1>1 DEF Continue
  <2> QED
    BY <1>0, <2>1, RestShape, RestWorker
<1>2. CASE then # "next"
  <2> DEFINE v == [sync EXCEPT !.at = then, !.row = NoRow, !.stage = None, !.failure = FALSE,
                               !.pending = FALSE, !.then = "next"]
  <2>0. NoRow \in RowRec
    BY LaunchAssumption DEF NoRow, RowRec, Requests
  <2>1. v \in SyncRec /\ v.at = then /\ v.id = sync.id /\ v.snap = sync.snap
    BY <1>0, <1>2, <2>0 DEF SyncRec
  <2>2. sync' = v
    BY <1>2 DEF Continue
  <2> HIDE DEF v
  <2> QED
    BY <1>2, <2>1, <2>2 DEF Worker, Reads, Decides, Marking, Publishing
<1> QED
  BY <1>1, <1>2

\* The steps after which the worker has nothing in hand.
LEMMA RestStep ==
    ASSUME IInv, SyncBegins \/ SyncEnds \/ SyncRefused \/ SyncFails \/ SyncShutdown
    PROVE  IInv'
<1>1. sync.todo \in SUBSET IDs
  BY DEF IInv, TypeOK, SyncRec
<1>2. sync' \in SyncRec /\ sync'.at \in {"rest", "next"}
  BY <1>1, RestShape, Managed DEF SyncBegins, SyncEnds, SyncRefused, SyncFails, SyncShutdown, Continue
<1>3. faults' \in 0..MaxFaults
  BY LaunchAssumption
  DEF SyncBegins, SyncEnds, SyncRefused, SyncFails, SyncShutdown, Fault, IInv, TypeOK
<1>4. UNCHANGED <<row, issued, lam, host, inst, up, check>>
  BY DEF SyncBegins, SyncEnds, SyncRefused, SyncFails, SyncShutdown
<1> QED
  BY <1>2, <1>3, <1>4, RestWorker, SyncStep

LEMMA SyncReadStep ==
    ASSUME IInv, NEW i \in IDs, SyncRead(i)
    PROVE  IInv'
<1> DEFINE V(b) == [sync EXCEPT !.at = "local", !.todo = sync.todo \ {i}, !.id = i, !.row = row[i],
                                !.pending = b]
<1>1. PICK late \in BOOLEAN : sync' = V(Pending(row[i]) \/ (Open(row[i]) /\ late))
  BY DEF SyncRead
<1> DEFINE b == Pending(row[i]) \/ (Open(row[i]) /\ late)
<1>2. b \in BOOLEAN /\ (b => Open(row[i])) /\ sync' = V(b)
  BY <1>1 DEF Pending, Open
<1> HIDE DEF b
<1>3. /\ V(b) \in SyncRec /\ V(b).at = "local" /\ V(b).id = i /\ V(b).row = row[i]
      /\ V(b).pending = b
  BY <1>2 DEF IInv, TypeOK, SyncRec
<1> HIDE DEF V
<1>4. UNCHANGED <<row, issued, lam, host, inst, up, check, faults>>
  BY DEF SyncRead
<1>5. /\ RowOK(row[i]) /\ row[i].req \in Nat /\ Taken(row[i], i)
      /\ inst[i] # None => inst[i].req <= row[i].req
  BY Numbered DEF IInv, Rows, Accepts, Instances, InstanceOK
<1>6. Reads'
  BY <1>2, <1>3, <1>4, <1>5 DEF Reads, RowOK
<1>7. Decides'
  <2>1. sync'.pending => Open(sync'.row)
    BY <1>2, <1>3, Zenon
  <2>2. Taken(sync.row, sync.id)'
    BY <1>2, <1>3, <1>4, <1>5 DEF Taken
  <2> QED
    BY <1>2, <1>3, <1>4, <1>5, <2>1, <2>2 DEF Decides, Taken, Open
<1>8. Worker'
  BY <1>2, <1>3, <1>6, <1>7 DEF Worker, Marking, Publishing
<1>9. faults' \in 0..MaxFaults /\ sync' \in SyncRec
  BY <1>2, <1>3, <1>4 DEF IInv, TypeOK
<1> QED
  BY <1>4, <1>8, <1>9, SyncStep

\* What the worker has in hand once it is to mark a stage.
LEMMA MarksShape ==
    ASSUME IInv, NEW stage \in {"accepted", "completed"}, NEW failure \in BOOLEAN,
           NEW then \in {"next", "get", "publish"}, Marks(stage, failure, then)
    PROVE  /\ sync' \in SyncRec /\ sync'.at = "mark" /\ sync'.id = sync.id /\ sync'.row = sync.row
           /\ sync'.stage = stage /\ sync'.failure = failure /\ sync'.then = then
BY DEF IInv, TypeOK, Marks, SyncRec

\* Where it decides to mark, it knows enough for the mark.
LEMMA MarkingStarts ==
    ASSUME IInv, sync.at = "local", sync'.at = "mark", sync'.id = sync.id, sync'.row = sync.row,
           sync.row.req # 0, row' = row,
           sync'.stage = "accepted" => inst'[sync.id] # None /\ inst'[sync.id].req = sync.row.req,
           sync'.stage # "accepted" /\ sync'.failure = FALSE => Done /\ inst' = inst /\ up' = up,
           sync'.then = "publish" => sync'.snap # None
    PROVE  Worker'
<1>1. Reads'
  BY DEF IInv, Worker, Reads
<1>2. Decides' /\ Publishing'
  BY DEF Decides, Publishing
<1>3. Marking'
  BY DEF Marking, Done
<1> QED
  BY <1>1, <1>2, <1>3 DEF Worker

\* A request that still waits is there.
LEMMA WaitingIsOpen ==
    ASSUME IInv, sync.at = "local", sync.pending
    PROVE  sync.row.req # 0
BY DEF IInv, Worker, Decides, Open

LEMMA SyncNoTemplateStep ==
    ASSUME IInv, SyncNoTemplate
    PROVE  IInv'
<1> DEFINE f == TRUE
<1>1. /\ sync.at = "local" /\ Marks("completed", f, "next")
      /\ UNCHANGED <<row, issued, lam, host, inst, up, check, faults>>
  BY DEF SyncNoTemplate
<1>2. sync.row.req # 0
  BY WaitingIsOpen DEF SyncNoTemplate, Creates
<1>3. f \in BOOLEAN /\ f # FALSE
  OBVIOUS
<1> HIDE DEF f
<1>4. /\ sync' \in SyncRec /\ sync'.at = "mark" /\ sync'.id = sync.id /\ sync'.row = sync.row
      /\ sync'.stage = "completed" /\ sync'.failure = f /\ sync'.then = "next"
  BY <1>1, <1>3, MarksShape
<1>5. Worker'
  BY <1>1, <1>2, <1>3, <1>4, MarkingStarts
<1>6. faults' \in 0..MaxFaults
  BY <1>1 DEF IInv, TypeOK
<1> QED
  BY <1>1, <1>4, <1>5, <1>6, SyncStep

LEMMA SyncMissingStep ==
    ASSUME IInv, SyncMissing
    PROVE  IInv'
<1> DEFINE f == sync.row.action # "remove"
           at == IF sync.pending THEN "mark" ELSE "publish"
           v == [sync EXCEPT !.snap = Substitute, !.at = at, !.stage = "completed", !.failure = f,
                             !.then = "publish"]
<1>1. /\ sync.at = "local" /\ inst[sync.id] = None /\ sync' = v
      /\ UNCHANGED <<row, issued, lam, host, inst, up, check, faults>>
  BY DEF SyncMissing, Here
<1>2. f \in BOOLEAN /\ (f = FALSE => sync.row.action = "remove")
  OBVIOUS
<1>3. Substitute \in Snapshots
  BY DEF Substitute, Snapshots
<1>4. at \in {"mark", "publish"} /\ (at = "mark" => sync.pending)
  OBVIOUS
<1>5. sync \in SyncRec /\ sync.id \in IDs
  BY <1>1 DEF IInv, TypeOK, Worker, Reads
<1> HIDE DEF f, at
<1>6. /\ v \in SyncRec /\ v.at = at /\ v.id = sync.id /\ v.row = sync.row /\ v.snap = Substitute
      /\ v.stage = "completed" /\ v.failure = f
  BY <1>2, <1>3, <1>4, <1>5 DEF SyncRec
<1> HIDE DEF v
<1>7. Substitute # None
  BY <1>3, NoneAssumption
<1>8. CASE at = "mark"
  <2>1. sync.row.req # 0
    BY <1>1, <1>4, <1>8, WaitingIsOpen
  <2>2. sync'.stage # "accepted" /\ sync'.failure = FALSE => Done
    BY <1>1, <1>2, <1>6 DEF Done
  <2>3. Worker'
    BY <1>1, <1>6, <1>7, <1>8, <2>1, <2>2, MarkingStarts
  <2> QED
    BY <1>1, <1>6, <2>3, SyncStep DEF IInv, TypeOK
<1>9. CASE at = "publish"
  <2>1. Worker'
    BY <1>1, <1>5, <1>6, <1>7, <1>9 DEF Worker, Reads, Decides, Marking, Publishing
  <2> QED
    BY <1>1, <1>6, <2>1, SyncStep DEF IInv, TypeOK
<1> QED
  BY <1>4, <1>8, <1>9

\* An achieved action, of the request the controller has taken, is really done.
LEMMA AchievedIsDone ==
    ASSUME IInv, sync.at = "local", inst[sync.id] # None, inst[sync.id].req = sync.row.req,
           Achieved(inst[sync.id], sync.row.action)
    PROVE  Done
<1>1. sync.id \in IDs
  BY DEF IInv, Worker, Reads
<1>2. InstanceOK(inst[sync.id], sync.id)
  BY <1>1 DEF IInv, Instances
<1> QED
  BY <1>2 DEF Done, Achieved, InstanceOK

LEMMA SyncAnswersStep ==
    ASSUME IInv, SyncAnswers
    PROVE  IInv'
<1> DEFINE done == Achieved(Here, sync.row.action)
           missed == Missed(Here, sync.row.action)
           f == ~done
<1>1. /\ sync.at = "local" /\ inst[sync.id] # None /\ ~Unaccepted /\ sync.id \in IDs
      /\ UNCHANGED <<row, issued, lam, host, inst, up, check, faults>>
  BY DEF SyncAnswers, Here, IInv, Worker, Reads
<1>2. f \in BOOLEAN /\ (f = FALSE => done)
  OBVIOUS
<1>3. CASE Open(sync.row) /\ ~sync.pending /\ Marks("completed", TRUE, "get")
  <2> DEFINE t == TRUE
  <2>1. t \in BOOLEAN /\ t # FALSE /\ Marks("completed", t, "get")
    BY <1>3
  <2> HIDE DEF t
  <2>2. /\ sync' \in SyncRec /\ sync'.at = "mark" /\ sync'.id = sync.id /\ sync'.row = sync.row
        /\ sync'.stage = "completed" /\ sync'.failure = t /\ sync'.then = "get"
    BY <2>1, MarksShape
  <2>3. Worker'
    BY <1>1, <1>3, <2>1, <2>2, MarkingStarts DEF Open
  <2> QED
    BY <1>1, <2>2, <2>3, SyncStep DEF IInv, TypeOK
<1>4. CASE Open(sync.row) /\ sync.pending /\ Marks("completed", f, "get")
  <2>1. sync.row.accepted = sync.row.req
    BY <1>1, <1>4 DEF Unaccepted, Unanswered, Here
  <2>2. sync.row.req # 0 /\ Taken(sync.row, sync.id)
    BY <1>1, <1>4 DEF Open, IInv, Worker, Decides
  <2>3. done => Done
    BY <1>1, <2>1, <2>2, AchievedIsDone DEF Here, Taken
  <2>4. f = FALSE => Done
    BY <1>2, <2>3
  <2> HIDE DEF f
  <2>5. /\ sync' \in SyncRec /\ sync'.at = "mark" /\ sync'.id = sync.id /\ sync'.row = sync.row
        /\ sync'.stage = "completed" /\ sync'.failure = f /\ sync'.then = "get"
    BY <1>2, <1>4, MarksShape
  <2>6. Worker'
    BY <1>1, <2>2, <2>4, <2>5, MarkingStarts
  <2> QED
    BY <1>1, <2>5, <2>6, SyncStep DEF IInv, TypeOK
<1>5. CASE Continue("get")
  <2>1. sync' \in SyncRec /\ Worker'
    BY <1>1, <1>5, ContinueShape
  <2> QED
    BY <1>1, <2>1, SyncStep DEF IInv, TypeOK
<1> QED
  <2>1. \/ Open(sync.row) /\ ~sync.pending /\ Marks("completed", TRUE, "get")
        \/ Open(sync.row) /\ sync.pending /\ Marks("completed", f, "get")
        \/ Continue("get")
    BY DEF SyncAnswers
  <2> QED
    BY <2>1, <1>3, <1>4, <1>5

LEMMA SyncGetStep ==
    ASSUME IInv, SyncGet
    PROVE  IInv'
<1> DEFINE s == IF Here.desired = "deleted" THEN "deleted" ELSE "live"
           v == [sync EXCEPT !.at = "publish", !.snap = s]
<1>1. /\ sync.at = "get" /\ sync' = v
      /\ UNCHANGED <<row, issued, lam, host, inst, up, check, faults>>
  BY DEF SyncGet
<1>2. s \in Snapshots
  BY DEF Snapshots
<1> HIDE DEF s
<1>3. sync \in SyncRec /\ sync.id \in IDs
  BY <1>1 DEF IInv, TypeOK, Worker, Publishing
<1>4. v \in SyncRec /\ v.at = "publish" /\ v.id = sync.id /\ v.snap = s
  BY <1>2, <1>3 DEF SyncRec
<1> HIDE DEF v
<1>5. s # None
  BY <1>2, NoneAssumption
<1>6. Worker'
  BY <1>1, <1>3, <1>4, <1>5 DEF Worker, Reads, Decides, Marking, Publishing
<1> QED
  BY <1>1, <1>4, <1>6, SyncStep DEF IInv, TypeOK

\* The controller takes the request the worker has in hand: not an earlier one than
\* it has taken before, and not one that is marked as taken.
LEMMA TakeStep ==
    ASSUME IInv, sync.at = "local", NEW n \in InstanceRec, n.req = sync.row.req, sync.row.req # 0,
           n.phase = "deleted" => n.desired = "deleted",
           n.phase = "running" /\ n.fresh => sync.id \in up,
           inst[sync.id] # None => sync.row.accepted # sync.row.req,
           inst' = [inst EXCEPT ![sync.id] = n], Marks("accepted", FALSE, "get"),
           UNCHANGED <<row, issued, lam, host, up, check, faults>>
    PROVE  IInv'
<1>0. PICK i \in IDs : i = sync.id
  BY DEF IInv, Worker, Reads
<1>1. /\ i \in IDs /\ sync.row.req <= row[i].req /\ sync.row.accepted = row[i].accepted
      /\ inst[i] # None => inst[i].req <= sync.row.req
  BY <1>0 DEF IInv, Worker, Reads, Decides
<1>2. /\ inst' \in [IDs -> InstanceRec \cup {None}] /\ inst'[i] = n
      /\ \A j \in IDs \ {i} : inst'[j] = inst[j]
  BY <1>0 DEF IInv, TypeOK
<1>3. n # None
  BY NoneAssumption
<1> DEFINE f == FALSE
<1>4. f \in BOOLEAN /\ Marks("accepted", f, "get")
  OBVIOUS
<1> HIDE DEF f
<1>5. /\ sync' \in SyncRec /\ sync'.at = "mark" /\ sync'.id = sync.id /\ sync'.row = sync.row
      /\ sync'.stage = "accepted" /\ sync'.then = "get"
  BY <1>4, MarksShape
<1>6. Worker'
  BY <1>0, <1>2, <1>3, <1>5, MarkingStarts
<1>7. Instances'
  <2>1. InstanceOK(n, i)'
    BY <1>0, <1>1 DEF InstanceOK
  <2>2. \A j \in IDs \ {i} : inst[j] # None => InstanceOK(inst[j], j)'
    BY <1>2 DEF IInv, Instances, InstanceOK
  <2> QED
    BY <1>2, <2>1, <2>2 DEF Instances, InstanceOK
<1>8. Accepts'
  <2>1. \A j \in IDs : Taken(row[j], j)
    BY DEF IInv, Accepts
  <2>2. Taken(row[i], i)'
    <3>1. SUFFICES ASSUME row[i].accepted = row[i].req, row[i].req # 0 PROVE n.req = row[i].req
      BY <1>2, <1>3 DEF Taken
    <3>2. inst[i] # None /\ inst[i].req = row[i].req
      BY <1>1, <2>1, <3>1 DEF Taken
    <3>3. inst[i].req <= sync.row.req /\ sync.row.req <= row[i].req
      BY <1>1, <3>2
    <3>4. sync.row.req = row[i].req
      BY <1>1, <3>2, <3>3, Numbered
    <3> QED
      BY <3>4
  <2>3. \A j \in IDs \ {i} : Taken(row[j], j)'
    BY <1>2, <2>1 DEF Taken
  <2> QED
    BY <2>2, <2>3 DEF Accepts
<1>9. Rows' /\ \A p \in Lambdas : Carries(p)'
  BY DEF IInv, Rows, Carries
<1>10. TypeOK'
  BY <1>2, <1>5 DEF IInv, TypeOK
<1> QED
  BY <1>6, <1>7, <1>8, <1>9, <1>10 DEF IInv

LEMMA SyncCreatesStep ==
    ASSUME IInv, SyncCreates
    PROVE  IInv'
<1> DEFINE n == [desired |-> "running", phase |-> "queued", req |-> sync.row.req, fresh |-> FALSE]
<1>1. /\ sync.at = "local" /\ inst[sync.id] = None /\ sync.pending
      /\ inst' = [inst EXCEPT ![sync.id] = n] /\ Marks("accepted", FALSE, "get")
      /\ UNCHANGED <<row, issued, lam, host, up, check, faults>>
  BY DEF SyncCreates, Creates, Here
<1>2. sync.row.req \in Requests /\ sync.row.req # 0
  BY <1>1, WaitingIsOpen DEF IInv, TypeOK, SyncRec, RowRec
<1>3. n \in InstanceRec /\ n.req = sync.row.req /\ n.phase = "queued"
  BY <1>2 DEF InstanceRec, Desired, Phases
<1> HIDE DEF n
<1> QED
  BY <1>1, <1>2, <1>3, TakeStep

\* What an intent makes of an instance.
LEMMA DesiredShape ==
    ASSUME NEW n \in InstanceRec, NEW d \in Desired
    PROVE  /\ setDesired(n, d) \in InstanceRec
           /\ setDesired(n, d).req = n.req /\ setDesired(n, d).fresh = n.fresh
           /\ setDesired(n, d).phase \in {n.phase, "queued"}
           /\ n.desired = "deleted" => setDesired(n, d) = n
<1> DEFINE a == [n EXCEPT !.phase = "queued"]
           b == [n EXCEPT !.desired = d, !.phase = IF d = "running" THEN "queued" ELSE n.phase]
<1>1. a \in InstanceRec /\ a.req = n.req /\ a.fresh = n.fresh /\ a.phase = "queued"
  BY DEF InstanceRec, Phases
<1>2. b \in InstanceRec /\ b.req = n.req /\ b.fresh = n.fresh /\ b.phase \in {n.phase, "queued"}
  BY DEF InstanceRec, Phases
<1>3. setDesired(n, d) \in {n, a, b} /\ (n.desired = "deleted" => setDesired(n, d) = n)
  BY DEF setDesired
<1> HIDE DEF a, b
<1> QED
  BY <1>1, <1>2, <1>3

LEMMA SyncAcceptsStep ==
    ASSUME IInv, SyncAccepts
    PROVE  IInv'
<1> DEFINE h == inst[sync.id]
           d == Want[sync.row.action]
           s == setDesired(h, d)
           w == [s EXCEPT !.req = sync.row.req]
           n == IF h.req = sync.row.req THEN h ELSE w
<1>1. /\ sync.at = "local" /\ h # None /\ sync.row.accepted # sync.row.req
      /\ inst' = [inst EXCEPT ![sync.id] = n] /\ Marks("accepted", FALSE, "get")
      /\ UNCHANGED <<row, issued, lam, host, up, check, faults>>
  BY DEF SyncAccepts, Unaccepted, Unanswered, Here
<1>2. sync.row.req \in Requests /\ sync.row.req # 0 /\ sync.id \in IDs
  BY DEF SyncAccepts, Unaccepted, Unanswered, Open, IInv, TypeOK, SyncRec, RowRec, Worker, Reads
<1>3. sync.row.action \in {"start", "stop", "remove"}
  BY <1>1, <1>2 DEF IInv, Worker, Reads, TypeOK, SyncRec, RowRec
<1>4. d \in Desired
  BY <1>3 DEF Want, Desired
<1>5. h \in InstanceRec /\ InstanceOK(h, sync.id)
  BY <1>1, <1>2 DEF IInv, TypeOK, Instances
<1> HIDE DEF d
<1>6. /\ s \in InstanceRec /\ s.fresh = h.fresh /\ s.phase \in {h.phase, "queued"}
      /\ h.desired = "deleted" => s = h
  BY <1>4, <1>5, DesiredShape
<1> HIDE DEF s
<1>7. /\ w \in InstanceRec /\ w.req = sync.row.req /\ w.phase = s.phase /\ w.fresh = s.fresh
      /\ w.desired = s.desired
  BY <1>2, <1>6 DEF InstanceRec
<1> HIDE DEF w
<1>8. /\ n \in InstanceRec /\ n.req = sync.row.req /\ n.fresh = h.fresh
      /\ n.phase \in {h.phase, "queued"} /\ (h.desired = "deleted" => n.desired = "deleted")
  BY <1>5, <1>6, <1>7
<1> HIDE DEF n
<1>9. n.phase = "deleted" => n.desired = "deleted"
  BY <1>5, <1>8 DEF InstanceOK
<1>10. n.phase = "running" /\ n.fresh => sync.id \in up
  BY <1>5, <1>8 DEF InstanceOK
<1> QED
  BY <1>1, <1>2, <1>8, <1>9, <1>10, TakeStep

LEMMA SyncMarkStep ==
    ASSUME IInv, SyncMark
    PROVE  IInv'
<1> DEFINE i == sync.id
<1>1. /\ sync.at = "mark" /\ Mark(i, sync.row.req, sync.stage, sync.failure) /\ Continue(sync.then)
      /\ UNCHANGED <<issued, lam, host, inst, up, check, faults>>
  BY DEF SyncMark
<1>2. /\ i \in IDs /\ sync.row.req # 0
      /\ sync.stage = "accepted" => inst[i] # None /\ inst[i].req = sync.row.req
      /\ sync.then = "publish" => sync.snap # None
  BY <1>1 DEF IInv, Worker, Reads, Marking
<1>3. sync.row.req \in Requests /\ sync.failure \in BOOLEAN /\ sync.then \in {"next", "get", "publish"}
  BY DEF IInv, TypeOK, SyncRec, RowRec
<1>4. PICK v : Writes(i, v)
  BY <1>1, <1>2, <1>3, MarkWrites
<1>5. /\ row' \in [IDs -> RowRec] /\ issued' \in Requests /\ Rows' /\ Instances' /\ Accepts'
  BY <1>1, <1>2, <1>4, WriteStep
<1>6. sync' \in SyncRec /\ Worker'
  BY <1>1, <1>2, <1>3, ContinueShape
<1>7. TypeOK' /\ \A p \in Lambdas : Carries(p)'
  BY <1>1, <1>5, <1>6 DEF IInv, TypeOK, Carries
<1> QED
  BY <1>5, <1>6, <1>7 DEF IInv

LEMMA PublishStep ==
    ASSUME IInv, Publish
    PROVE  IInv'
<1> DEFINE i == sync.id  r == row[i]  v == [r EXCEPT !.snap = sync.snap]
<1>1. /\ sync.at = "publish" /\ row' = [row EXCEPT ![i] = v] /\ Continue("next")
      /\ UNCHANGED <<issued, lam, host, inst, up, check, faults>>
  BY DEF Publish
<1>2. i \in IDs /\ sync.snap # None /\ sync.snap \in Snapshots \cup {None}
  BY <1>1 DEF IInv, Worker, Publishing, TypeOK, SyncRec
<1>3. r \in RowRec /\ RowOK(r)
  BY <1>2 DEF IInv, TypeOK, Rows
<1>4. /\ v \in RowRec /\ v.snap # None /\ v.req = r.req /\ v.action = r.action
      /\ v.accepted = r.accepted /\ v.completed = r.completed /\ v.failure = r.failure
  BY <1>2, <1>3 DEF RowRec
<1> HIDE DEF v
<1>5. RowOK(v)
  BY <1>3, <1>4, Zenon DEF RowOK
<1>6. Writes(i, v)
  BY <1>1, <1>4, <1>5 DEF Writes
<1>7. /\ row' \in [IDs -> RowRec] /\ issued' \in Requests /\ Rows' /\ Instances' /\ Accepts'
  BY <1>1, <1>2, <1>6, WriteStep
<1>8. sync' \in SyncRec /\ Worker'
  BY <1>1, ContinueShape
<1>9. TypeOK' /\ \A p \in Lambdas : Carries(p)'
  BY <1>1, <1>7, <1>8 DEF IInv, TypeOK, Carries
<1> QED
  BY <1>7, <1>8, <1>9 DEF IInv

-----------------------------------------------------------------------------
(* The controller and the host.                                            *)

\* A step of the controller's own: it takes no request, and what is deleted stays so.
LEMMA DriveStep ==
    ASSUME IInv, NEW i \in IDs, inst[i] # None, NEW n \in InstanceRec, inst' = [inst EXCEPT ![i] = n],
           n.req = inst[i].req, inst[i].phase = "deleted" => n.phase = "deleted",
           n.phase = "deleted" => n.desired = "deleted",
           n.phase = "running" /\ n.fresh => i \in up',
           up \subseteq up', up' \subseteq IDs, faults' \in 0..MaxFaults,
           UNCHANGED <<row, issued, lam, host, sync, check>>
    PROVE  IInv'
<1>1. /\ inst' \in [IDs -> InstanceRec \cup {None}] /\ inst'[i] = n /\ n # None
      /\ \A j \in IDs \ {i} : inst'[j] = inst[j]
  BY NoneAssumption DEF IInv, TypeOK
<1>2. TypeOK' /\ Rows' /\ \A p \in Lambdas : Carries(p)'
  BY <1>1 DEF IInv, TypeOK, Rows, Carries
<1>3. Instances'
  <2>1. InstanceOK(n, i)'
    BY DEF IInv, Instances, InstanceOK
  <2>2. \A j \in IDs \ {i} : inst[j] # None => InstanceOK(inst[j], j)'
    BY <1>1 DEF IInv, Instances, InstanceOK
  <2> QED
    BY <1>1, <2>1, <2>2 DEF Instances, InstanceOK
<1>4. \A j \in IDs : (inst'[j] = None <=> inst[j] = None) /\ (inst[j] # None => inst'[j].req = inst[j].req)
  BY <1>1
<1>5. Accepts'
  BY <1>4 DEF IInv, Accepts, Taken
<1>6. Reads' /\ Publishing'
  BY DEF IInv, Worker, Reads, Publishing
<1>7. Decides'
  BY <1>4 DEF IInv, Worker, Reads, Decides, Taken
<1>8. Marking'
  <2>1. sync.at = "mark" => sync.id \in IDs
    BY DEF IInv, Worker, Reads
  <2>2. sync.at = "mark" /\ Done => Done'
    BY <1>1, <1>4, <2>1 DEF Done
  <2> QED
    BY <1>4, <2>1, <2>2 DEF IInv, Worker, Marking
<1> QED
  BY <1>2, <1>3, <1>5, <1>6, <1>7, <1>8 DEF IInv, Worker

\* A pass that saves what it has found.
LEMMA SavesStep ==
    ASSUME IInv, NEW i \in IDs, inst[i] # None, NEW phase \in Phases, Saves(i, phase),
           inst[i].phase = "deleted" => phase = "deleted",
           phase = "deleted" => inst[i].desired = "deleted",
           phase = "running" => i \in up',
           up \subseteq up', up' \subseteq IDs, faults' \in 0..MaxFaults,
           UNCHANGED <<row, issued, lam, host, sync, check>>
    PROVE  IInv'
<1> DEFINE o == inst[i]
           b == phase \in {"running", "failed"}
           n == [o EXCEPT !.phase = phase, !.fresh = b]
<1>1. o \in InstanceRec /\ b \in BOOLEAN
  BY DEF IInv, TypeOK
<1>2. inst' = [inst EXCEPT ![i] = n]
  BY DEF Saves, IInv, TypeOK
<1> HIDE DEF b
<1>3. n \in InstanceRec /\ n.req = o.req /\ n.phase = phase /\ n.desired = o.desired
  BY <1>1 DEF InstanceRec
<1> HIDE DEF n
<1> QED
  BY <1>2, <1>3, DriveStep

LEMMA PassStep ==
    ASSUME IInv, NEW i \in IDs, Pass(i)
    PROVE  IInv'
<1>1. /\ inst[i] # None => InstanceOK(inst[i], i)
      /\ up \subseteq IDs /\ faults \in 0..MaxFaults
  BY DEF IInv, TypeOK, Instances
<1>2. {"queued", "running", "stopped", "failed", "deleted"} = Phases
  BY DEF Phases
<1>3. CASE PassReady(i)
  BY <1>1, <1>2, <1>3, SavesStep DEF PassReady, Reconciles, InstanceOK
<1>4. CASE PassStarting(i)
  BY <1>1, <1>2, <1>4, SavesStep DEF PassStarting, Reconciles, InstanceOK
<1>5. CASE PassFailed(i)
  <2>1. faults' \in 0..MaxFaults
    BY <1>1, <1>5, LaunchAssumption DEF PassFailed, Fault
  <2> QED
    BY <1>1, <1>2, <1>5, <2>1, SavesStep DEF PassFailed, Reconciles, InstanceOK
<1>6. CASE PassSettles(i)
  <2>1. PICK d \in {"stopped", "deleted"} : Reconciles(i, d) /\ Saves(i, d)
    BY <1>6 DEF PassSettles
  <2> QED
    BY <1>1, <1>2, <1>6, <2>1, SavesStep DEF PassSettles, Reconciles, InstanceOK
<1> QED
  BY <1>3, <1>4, <1>5, <1>6 DEF Pass

LEMMA IdleStopStep ==
    ASSUME IInv, NEW i \in IDs, IdleStop(i)
    PROVE  IInv'
<1> DEFINE o == inst[i]  n == [o EXCEPT !.desired = "stopped"]
<1>1. /\ o # None /\ o \in InstanceRec /\ o.phase = "running" /\ InstanceOK(o, i)
      /\ up \subseteq IDs /\ faults \in 0..MaxFaults
  BY DEF IdleStop, Reconciles, IInv, TypeOK, Instances
<1>2. n \in InstanceRec /\ n.req = o.req /\ n.phase = o.phase /\ n.fresh = o.fresh
  BY <1>1 DEF InstanceRec, Desired
<1>3. /\ inst' = [inst EXCEPT ![i] = n]
      /\ UNCHANGED <<row, issued, lam, host, up, sync, check, faults>>
  BY DEF IdleStop
<1> HIDE DEF n
<1> QED
  BY <1>1, <1>2, <1>3, DriveStep DEF InstanceOK

LEMMA AdminSetsStep ==
    ASSUME IInv, NEW i \in IDs, NEW d \in AdminIntents, AdminSets(i, d)
    PROVE  IInv'
<1> DEFINE o == inst[i]  n == setDesired(o, d)
<1>1. /\ o # None /\ o \in InstanceRec /\ InstanceOK(o, i)
      /\ up \subseteq IDs /\ faults \in 0..MaxFaults
  BY DEF AdminSets, IInv, TypeOK, Instances
<1>2. d \in Desired
  BY LaunchAssumption
<1>3. /\ n \in InstanceRec /\ n.req = o.req /\ n.fresh = o.fresh /\ n.phase \in {o.phase, "queued"}
      /\ o.desired = "deleted" => n = o
  BY <1>1, <1>2, DesiredShape
<1>4. /\ inst' = [inst EXCEPT ![i] = n]
      /\ UNCHANGED <<row, issued, lam, host, up, sync, check, faults>>
  BY DEF AdminSets
<1> HIDE DEF n
<1> QED
  BY <1>1, <1>3, <1>4, DriveStep DEF InstanceOK

\* The host goes down: nothing is fresh, and the worker has nothing in hand.
LEMMA HostStopsStep ==
    ASSUME IInv, HostStops
    PROVE  IInv'
<1> DEFINE S(n) == [n EXCEPT !.fresh = FALSE]
<1>1. /\ host' = "stopping" /\ sync' = Resting /\ check' = None /\ up' = {}
      /\ inst' = [i \in IDs |-> IF inst[i] = None THEN None ELSE S(inst[i])]
      /\ row' = row /\ issued' = issued /\ lam' = lam
  BY DEF HostStops, HostDown, Stale
<1>2. faults' \in 0..MaxFaults
  BY LaunchAssumption DEF HostStops, Fault, IInv, TypeOK
<1>3. \A n \in InstanceRec : /\ S(n) \in InstanceRec /\ S(n).req = n.req /\ S(n).phase = n.phase
                             /\ S(n).desired = n.desired /\ S(n).fresh = FALSE
  BY DEF InstanceRec
<1> HIDE DEF S
<1>4. inst \in [IDs -> InstanceRec \cup {None}]
  BY DEF IInv, TypeOK
<1>5. inst' \in [IDs -> InstanceRec \cup {None}]
  BY <1>1, <1>3, <1>4
<1>6. \A i \in IDs : /\ inst'[i] = None <=> inst[i] = None
                     /\ inst[i] # None => inst'[i] = S(inst[i]) /\ inst[i] \in InstanceRec
  BY <1>1, <1>3, <1>4, NoneAssumption
<1>7. TypeOK'
  <2>1. sync' \in SyncRec /\ check' \in (SUBSET IDs) \cup {None} /\ up' \subseteq IDs
    BY <1>1, RestShape
  <2>2. row' \in [IDs -> RowRec] /\ issued' \in Requests /\ lam' \in [Lambdas -> LambdaRec]
    BY <1>1 DEF IInv, TypeOK
  <2> QED
    BY <1>1, <1>2, <1>5, <2>1, <2>2 DEF TypeOK
<1>8. Rows' /\ \A p \in Lambdas : Carries(p)'
  BY <1>1 DEF IInv, Rows, Carries
<1>9. Instances'
  <2> SUFFICES ASSUME NEW i \in IDs, inst'[i] # None PROVE InstanceOK(inst[i], i)'
    BY DEF Instances, InstanceOK
  <2>1. /\ inst'[i].req = inst[i].req /\ inst'[i].phase = inst[i].phase
        /\ inst'[i].desired = inst[i].desired /\ inst'[i].fresh = FALSE /\ InstanceOK(inst[i], i)
    BY <1>3, <1>6 DEF IInv, Instances
  <2> QED
    BY <1>1, <2>1 DEF InstanceOK
<1>10. Accepts'
  BY <1>1, <1>3, <1>6 DEF IInv, Accepts, Taken
<1>11. Worker'
  BY <1>1, RestShape, RestWorker
<1> QED
  BY <1>7, <1>8, <1>9, <1>10, <1>11 DEF IInv

\* The other steps of the host, and the look at the rows before it powers off.
LEMMA HostStep ==
    ASSUME IInv, HostStopped \/ HostBoots \/ PowerOff
    PROVE  IInv'
<1>1. /\ row' = row /\ issued' = issued /\ lam' = lam /\ inst' = inst /\ up' = up /\ sync' = sync
      /\ faults' = faults
  BY DEF HostStopped, HostBoots, PowerOff, CheckBegins, CheckRow, BeginIdleShutdown
<1>2. host' \in {"stopped", "pending", "running", "closing", "stopping"}
  BY DEF HostStopped, HostBoots, PowerOff, CheckBegins, CheckRow, BeginIdleShutdown, IInv, TypeOK
<1>3. check' \in (SUBSET IDs) \cup {None}
  <2>1. check = None \/ check \in SUBSET IDs
    BY DEF IInv, TypeOK
  <2>2. CASE check' = check \/ check' = None
    BY <2>1, <2>2
  <2>3. CASE CheckBegins
    BY <2>3, Managed DEF CheckBegins
  <2>4. ASSUME NEW i \in IDs, CheckRow(i) PROVE check' = None \/ check' \in SUBSET IDs
    BY <2>1, <2>4 DEF CheckRow
  <2> QED
    BY <2>2, <2>3, <2>4 DEF HostStopped, HostBoots, PowerOff, BeginIdleShutdown
<1>4. lam' \in [Lambdas -> LambdaRec] /\ \A p \in Lambdas : Carries(p)'
  BY <1>1 DEF IInv, TypeOK, Carries
<1> QED
  BY <1>1, <1>2, <1>3, <1>4, AsideStep DEF IInv, TypeOK

-----------------------------------------------------------------------------
(* The invariant of the specification, and what it shows.                  *)

LEMMA InitIInv == Init => IInv
<1> SUFFICES ASSUME Init PROVE IInv
  OBVIOUS
<1>1. NoRow \in RowRec /\ 0 \in Requests /\ 0 \in 0..MaxFaults
  BY LaunchAssumption DEF NoRow, RowRec, Requests
<1>2. RowOK(NoRow) /\ NoRow.req = 0
  BY DEF NoRow, RowOK
<1> DEFINE n == [desired |-> "stopped", phase |-> "stopped", req |-> 0, fresh |-> FALSE]
<1>3. n \in InstanceRec /\ n.req = 0 /\ n.phase = "stopped"
  BY <1>1 DEF InstanceRec, Desired, Phases
<1>4. inst \in [IDs -> {None, n}]
  BY DEF Init
<1> HIDE DEF n
<1>5. inst \in [IDs -> InstanceRec \cup {None}]
  BY <1>3, <1>4
<1>6. row \in [IDs -> RowRec] /\ \A i \in IDs : row[i] = NoRow
  BY <1>1 DEF Init
<1>7. lam \in [Lambdas -> LambdaRec] /\ \A p \in Lambdas : lam[p] = Idle
  BY IdleRecord DEF Init
<1>8. TypeOK
  BY <1>1, <1>5, <1>6, <1>7, RestShape DEF Init, TypeOK
<1>9. Rows
  BY <1>2, <1>6 DEF Init, Rows
<1>10. Instances
  BY <1>2, <1>3, <1>4, <1>6 DEF Instances, InstanceOK
<1>11. Accepts
  BY <1>2, <1>6 DEF Accepts, Taken
<1>12. \A p \in Lambdas : Carries(p)
  BY <1>7, IdleRecord DEF Carries
<1>13. Worker
  BY RestShape DEF Init, Worker, Reads, Decides, Marking, Publishing
<1> QED
  BY <1>8, <1>9, <1>10, <1>11, <1>12, <1>13 DEF IInv

LEMMA WorkerStep ==
    ASSUME IInv, Sync
    PROVE  IInv'
<1>1. ASSUME NEW i \in IDs, SyncRead(i) PROVE IInv'
  BY <1>1, SyncReadStep
<1> QED
  BY <1>1, RestStep, SyncNoTemplateStep, SyncCreatesStep, SyncMissingStep, SyncAcceptsStep,
     SyncAnswersStep, SyncMarkStep, SyncGetStep, PublishStep
  DEF Sync

LEMMA NextIInv == IInv /\ [Next]_vars => IInv'
<1> SUFFICES ASSUME IInv, [Next]_vars PROVE IInv'
  OBVIOUS
<1>1. ASSUME NEW p \in Lambdas, Page(p) PROVE IInv'
  <2>1. ASSUME NEW i \in Asked, NEW a \in Actions, ActionRead(p, i, a) PROVE IInv'
    BY <2>1, ActionReadStep
  <2>2. ASSUME NEW i \in Extras, NEW t \in Presets, CreateRead(p, i, t) PROVE IInv'
    BY <2>2, CreateReadStep
  <2> QED
    BY <1>1, <2>1, <2>2, ActionQueueStep, CreatePutStep DEF Page
<1>2. ASSUME NEW p \in Lambdas, Scan(p) PROVE IInv'
  <2>1. ASSUME NEW i \in IDs, ScanRow(p, i) PROVE IInv'
    BY <2>1, ScanRowStep
  <2> QED
    BY <1>2, <2>1, ScanBeginsStep, ScanExpireStep, WakeStep DEF Scan
<1>3. ASSUME NEW p \in Lambdas, LambdaFails(p) PROVE IInv'
  BY <1>3, WakeStep
<1>4. ASSUME NEW i \in IDs, Pass(i) PROVE IInv'
  BY <1>4, PassStep
<1>5. ASSUME NEW i \in IDs, IdleStop(i) PROVE IInv'
  BY <1>5, IdleStopStep
<1>6. ASSUME NEW i \in IDs, RequestExpires(i) PROVE IInv'
  BY <1>6, RequestExpiresStep
<1>7. ASSUME NEW i \in IDs, NEW d \in AdminIntents, AdminSets(i, d) PROVE IInv'
  BY <1>7, AdminSetsStep
<1>8. CASE Sync
  BY <1>8, WorkerStep
<1>9. CASE SyncFails
  BY <1>9, RestStep
<1>10. CASE PowerOff
  BY <1>10, HostStep
<1>11. CASE EC2
  BY <1>11, HostStep, HostStopsStep DEF EC2
<1>12. CASE UNCHANGED vars
  <2>1. /\ row' = row /\ issued' = issued /\ lam' = lam /\ host' = host /\ inst' = inst /\ up' = up
        /\ sync' = sync /\ check' = check /\ faults' = faults
    BY <1>12 DEF vars
  <2>2. lam' \in [Lambdas -> LambdaRec] /\ \A p \in Lambdas : Carries(p)'
    BY <2>1 DEF IInv, TypeOK, Carries
  <2> QED
    BY <2>1, <2>2, AsideStep DEF IInv, TypeOK
<1> QED
  BY <1>1, <1>2, <1>3, <1>4, <1>5, <1>6, <1>7, <1>8, <1>9, <1>10, <1>11, <1>12 DEF Next

\* The inductive invariant: what the worker has read of a row, and what the
\* controller has taken, is never ahead of the table (lobby/worker.go, store.go).
THEOREM LaunchInvariance == Spec => []IInv
BY InitIInv, NextIInv, PTL DEF Spec

\* Every variable of the launch page keeps its type: the worker and the event rule
\* write to a row of the table only what a row may hold.
THEOREM LaunchTypes == Spec => []TypeOK
<1>1. IInv => TypeOK
  BY DEF IInv
<1> QED
  BY <1>1, LaunchInvariance, PTL

\* A failure in a row is that of its latest request, however late an earlier one is
\* marked (Table.Mark, Table.Queue).
THEOREM OutcomesAreOwn == Spec => []OutcomeIsOwn
<1>1. IInv => OutcomeIsOwn
  BY DEF IInv, Rows, RowOK, OutcomeIsOwn
<1> QED
  BY <1>1, LaunchInvariance, PTL

-----------------------------------------------------------------------------
(* What a step may never do.                                               *)

\* A step that changes one instance.
LEMMA OneInstance ==
    ASSUME IInv, NEW k \in IDs, NEW n, inst' = [inst EXCEPT ![k] = n],
           inst[k] # None => /\ n.req >= inst[k].req
                             /\ sync' # sync /\ n.desired # inst[k].desired => n.req > inst[k].req
    PROVE  IntentMoves
<1>1. inst'[k] = n /\ \A j \in IDs \ {k} : inst'[j] = inst[j]
  BY DEF IInv, TypeOK
<1>2. \A j \in IDs \ {k} : inst[j] # None => inst'[j].req >= inst[j].req
  BY <1>1, Numbered
<1> QED
  BY <1>1, <1>2 DEF IntentMoves

\* Among the steps of the worker only the acceptance moves an intent.
LEMMA AcceptKeepsIntent ==
    ASSUME IInv, SyncAccepts
    PROVE  IntentMoves
<1> DEFINE h == inst[sync.id]
           d == Want[sync.row.action]
           s == setDesired(h, d)
           w == [s EXCEPT !.req = sync.row.req]
           n == IF h.req = sync.row.req THEN h ELSE w
<1>1. /\ sync.at = "local" /\ h # None /\ sync.id \in IDs
      /\ inst' = [inst EXCEPT ![sync.id] = n]
  BY DEF SyncAccepts, Unaccepted, Unanswered, Here, IInv, Worker, Reads
<1>2. h.req <= sync.row.req /\ h.req \in Nat /\ sync.row.req \in Nat /\ h \in InstanceRec
  BY <1>1, Numbered DEF IInv, Worker, Decides
<1>3. sync.row.action \in {"start", "stop", "remove"}
  BY <1>1 DEF SyncAccepts, Unaccepted, Unanswered, Open, IInv, Worker, Reads, TypeOK, SyncRec, RowRec
<1>4. s \in InstanceRec
  <2>1. d \in Desired
    BY <1>3 DEF Want, Desired
  <2> HIDE DEF d
  <2> QED
    BY <1>2, <2>1, DesiredShape
<1> HIDE DEF s
<1>5. w.req = sync.row.req
  BY <1>4 DEF InstanceRec
<1> HIDE DEF w
<1>6. n = h \/ (n.req = sync.row.req /\ h.req # sync.row.req)
  BY <1>5
<1>7. n.req >= h.req /\ (n.desired # h.desired => n.req > h.req)
  BY <1>2, <1>6
<1> HIDE DEF n
<1> QED
  BY <1>1, <1>7, OneInstance

\* Neither do the controller's own steps take a request.
LEMMA DriveKeepsIntent ==
    ASSUME IInv, NEW i \in IDs, NEW d \in AdminIntents \cup {"stopped"},
           Pass(i) \/ IdleStop(i) \/ (d \in AdminIntents /\ AdminSets(i, d))
    PROVE  IntentMoves
<1>1. sync' = sync /\ inst[i] # None
  BY DEF Pass, PassReady, PassStarting, PassFailed, PassSettles, IdleStop, AdminSets, Reconciles
<1>2. inst[i] \in InstanceRec /\ inst[i].req \in Nat
  BY <1>1, Numbered
<1>3. \E n : inst' = [inst EXCEPT ![i] = n] /\ n.req = inst[i].req
  <2>1. ASSUME NEW phase, Saves(i, phase)
        PROVE  \E n : inst' = [inst EXCEPT ![i] = n] /\ n.req = inst[i].req
    <3> DEFINE b == phase \in {"running", "failed"}
               n == [inst[i] EXCEPT !.phase = phase, !.fresh = b]
    <3>1. inst' = [inst EXCEPT ![i] = n]
      BY <2>1 DEF Saves, IInv, TypeOK
    <3>2. n.req = inst[i].req
      BY <1>2 DEF InstanceRec
    <3> QED
      BY <3>1, <3>2
  <2>2. CASE Pass(i)
    BY <2>1, <2>2 DEF Pass, PassReady, PassStarting, PassFailed, PassSettles
  <2>3. CASE IdleStop(i)
    <3> DEFINE n == [inst[i] EXCEPT !.desired = "stopped"]
    <3>1. inst' = [inst EXCEPT ![i] = n] /\ n.req = inst[i].req
      BY <1>2, <2>3 DEF IdleStop, InstanceRec
    <3> QED
      BY <3>1
  <2>4. CASE d \in AdminIntents /\ AdminSets(i, d)
    <3>1. inst' = [inst EXCEPT ![i] = setDesired(inst[i], d)]
      BY <2>4 DEF AdminSets
    <3>2. setDesired(inst[i], d).req = inst[i].req
      BY <1>2, <2>4, DesiredShape, LaunchAssumption
    <3> QED
      BY <3>1, <3>2
  <2> QED
    BY <2>2, <2>3, <2>4
<1>4. PICK n : inst' = [inst EXCEPT ![i] = n] /\ n.req = inst[i].req
  BY <1>3
<1>5. n.req >= inst[i].req
  BY <1>2, <1>4
<1> QED
  BY <1>1, <1>4, <1>5, OneInstance

LEMMA HostKeepsIntent ==
    ASSUME IInv, HostStops
    PROVE  IntentMoves
<1>1. inst' = [i \in IDs |-> IF inst[i] = None THEN None ELSE [inst[i] EXCEPT !.fresh = FALSE]]
  BY DEF HostStops, HostDown, Stale
<1>2. \A n \in InstanceRec : [n EXCEPT !.fresh = FALSE].req = n.req /\ [n EXCEPT !.fresh = FALSE].desired = n.desired
  BY DEF InstanceRec
<1>3. \A i \in IDs : inst[i] # None => inst'[i].req = inst[i].req /\ inst'[i].desired = inst[i].desired
  BY <1>1, <1>2, Numbered
<1> QED
  BY <1>3, Numbered DEF IntentMoves

\* A retried request cannot undo a later intent (Worker.syncInstance, RequestDesired).
THEOREM IntentsAreKept == Spec => RetriesKeepIntent
<1>1. ASSUME IInv, Next PROVE inst' = inst \/ IntentMoves
  <2>1. ASSUME NEW p \in Lambdas, Page(p) \/ Scan(p) \/ LambdaFails(p) PROVE inst' = inst
    BY <2>1 DEF Page, Scan, ActionRead, CreateRead, ActionQueue, CreatePut, ScanBegins, ScanRow,
       ScanExpire, ScanEnds, Wake, LambdaFails
  <2>2. ASSUME NEW i \in IDs, Pass(i) \/ IdleStop(i) PROVE IntentMoves
    BY <1>1, <2>2, DriveKeepsIntent
  <2>3. ASSUME NEW i \in IDs, RequestExpires(i) PROVE inst' = inst
    BY <2>3 DEF RequestExpires
  <2>4. ASSUME NEW i \in IDs, NEW d \in AdminIntents, AdminSets(i, d) PROVE IntentMoves
    BY <1>1, <2>4, DriveKeepsIntent
  <2>5. CASE SyncCreates
    <3>1. inst[sync.id] = None /\ sync.id \in IDs
      BY <1>1, <2>5 DEF SyncCreates, Creates, Here, IInv, Worker, Reads
    <3>2. \E n : inst' = [inst EXCEPT ![sync.id] = n]
      BY <2>5 DEF SyncCreates
    <3> QED
      BY <1>1, <3>1, <3>2, OneInstance
  <2>6. CASE Sync /\ ~SyncCreates /\ ~SyncAccepts
    BY <2>6 DEF Sync, SyncBegins, SyncEnds, SyncRead, SyncNoTemplate, SyncMissing, SyncShutdown,
       SyncRefused, SyncAnswers, SyncMark, SyncGet, Publish
  <2>7. CASE SyncAccepts
    BY <1>1, <2>7, AcceptKeepsIntent
  <2>8. CASE SyncFails \/ PowerOff \/ HostStopped \/ HostBoots
    BY <2>8 DEF SyncFails, PowerOff, CheckBegins, CheckRow, BeginIdleShutdown, HostStopped, HostBoots
  <2>9. CASE HostStops
    BY <1>1, <2>9, HostKeepsIntent
  <2> QED
    BY <1>1, <2>1, <2>2, <2>3, <2>4, <2>5, <2>6, <2>7, <2>8, <2>9 DEF Next, EC2
<1>2. ASSUME IInv, [Next]_vars PROVE [IntentMoves]_inst
  BY <1>1, <1>2 DEF vars
<1> QED
  BY <1>2, LaunchInvariance, PTL DEF Spec, RetriesKeepIntent

\* A step that writes one row, without a new completion or with a failure.
LEMMA OneRow ==
    ASSUME IInv, NEW k \in IDs, NEW v, row' = [row EXCEPT ![k] = v],
           v.completed = row[k].completed \/ v.failure = TRUE
    PROVE  CompletionMoves
<1>1. row'[k] = v /\ \A j \in IDs \ {k} : row'[j] = row[j]
  BY DEF IInv, TypeOK
<1> QED
  BY <1>1 DEF CompletionMoves

\* What the handlers of the page and the event rule write completes nothing but
\* an expired request, as a failure.
LEMMA PageCompletes ==
    ASSUME IInv, NEW p \in Lambdas, ActionQueue(p) \/ CreatePut(p) \/ ScanExpire(p)
    PROVE  row' = row \/ CompletionMoves
<1>1. /\ lam[p].id \in IDs /\ row[lam[p].id] \in RowRec
      /\ row[lam[p].id].snap = None => row[lam[p].id].completed = 0
  BY DEF ActionQueue, CreatePut, ScanExpire, IInv, TypeOK, Carries, Rows, RowOK
<1> DEFINE i == lam[p].id
<1>2. CASE ActionQueue(p)
  <2>1. CASE row' = [row EXCEPT ![i] = Queued(row[i], lam[p].action, issued + 1)]
    <3> DEFINE v == Queued(row[i], lam[p].action, issued + 1)
    <3>1. v.completed = row[i].completed
      BY <1>1 DEF Queued, RowRec
    <3> HIDE DEF v
    <3>2. row' = [row EXCEPT ![i] = v]
      BY <2>1 DEF v
    <3> QED
      BY <1>1, <3>1, <3>2, OneRow
  <2> QED
    BY <1>2, <2>1 DEF ActionQueue
<1>3. CASE CreatePut(p)
  <2>1. CASE row[i].snap = None /\ row' = [row EXCEPT ![i] = Created(lam[p].template, issued + 1)]
    <3> DEFINE v == Created(lam[p].template, issued + 1)
    <3>1. v.completed = 0
      BY DEF Created, Queued, NoRow
    <3> HIDE DEF v
    <3>2. row' = [row EXCEPT ![i] = v]
      BY <2>1 DEF v
    <3> QED
      BY <1>1, <2>1, <3>1, <3>2, OneRow
  <2> QED
    BY <1>3, <2>1 DEF CreatePut
<1>4. CASE ScanExpire(p)
  <2> DEFINE t == TRUE
             v == [row[i] EXCEPT !.completed = lam[p].req, !.failure = t]
  <2>1. row' = row \/ row' = [row EXCEPT ![i] = v]
    BY <1>4 DEF ScanExpire, Mark
  <2>2. t = TRUE
    OBVIOUS
  <2> HIDE DEF t
  <2>3. v.failure = t
    BY <1>1 DEF RowRec
  <2> HIDE DEF v
  <2> QED
    BY <1>1, <2>1, <2>2, <2>3, OneRow
<1> QED
  BY <1>2, <1>3, <1>4

\* The worker's mark completes what Done says is done.
LEMMA MarkCompletes ==
    ASSUME IInv, SyncMark
    PROVE  row' = row \/ CompletionMoves
<1> DEFINE i == sync.id
           r == row[i]
           a == [r EXCEPT !.accepted = sync.row.req]
           c == [r EXCEPT !.completed = sync.row.req, !.failure = sync.failure]
<1>1. /\ sync.at = "mark" /\ i \in IDs /\ row \in [IDs -> RowRec] /\ r \in RowRec
      /\ sync.row.req = r.req => sync.row.action = r.action
      /\ sync.stage # "accepted" /\ sync.failure = FALSE => Done
      /\ sync.failure \in BOOLEAN
  BY DEF SyncMark, IInv, TypeOK, SyncRec, Worker, Reads, Marking
<1>2. \/ row' = row
      \/ row' = [row EXCEPT ![i] = a]
      \/ r.req = sync.row.req /\ sync.stage # "accepted" /\ row' = [row EXCEPT ![i] = c]
  BY DEF SyncMark, Mark
<1>3. CASE row' = [row EXCEPT ![i] = a]
  <2>1. a.completed = r.completed
    BY <1>1 DEF RowRec
  <2> HIDE DEF a
  <2> QED
    BY <1>1, <1>3, <2>1, OneRow
<1>4. CASE r.req = sync.row.req /\ sync.stage # "accepted" /\ row' = [row EXCEPT ![i] = c]
  <2>1. c.failure = sync.failure /\ c.req = r.req /\ c.action = r.action
    BY <1>1 DEF RowRec
  <2> HIDE DEF c
  <2>2. CASE sync.failure = TRUE
    BY <1>1, <1>4, <2>1, <2>2, OneRow
  <2>3. CASE sync.failure = FALSE
    <3>1. row'[i] = c /\ \A j \in IDs \ {i} : row'[j] = row[j]
      BY <1>1, <1>4
    <3>2. IF inst[i] = None THEN c.action = "remove"
          ELSE /\ inst[i].req = c.req
               /\ c.action = "start" => i \in up
               /\ c.action = "remove" => inst[i].phase = "deleted"
      BY <1>1, <1>4, <2>1, <2>3 DEF Done
    <3> HIDE DEF i
    <3> QED
      BY <3>1, <3>2 DEF CompletionMoves
  <2> QED
    BY <1>1, <2>2, <2>3
<1> QED
  BY <1>2, <1>3, <1>4

\* A request is reported as done only if it was (Worker.syncInstance, achieved).
THEOREM CompletionsAreReal == Spec => CompletionIsReal
<1>1. ASSUME IInv, Next PROVE row' = row \/ CompletionMoves
  <2>1. ASSUME NEW p \in Lambdas, ActionQueue(p) \/ CreatePut(p) \/ ScanExpire(p)
        PROVE  row' = row \/ CompletionMoves
    BY <1>1, <2>1, PageCompletes
  <2>2. ASSUME NEW p \in Lambdas, Page(p) \/ Scan(p) \/ LambdaFails(p)
        PROVE  row' = row \/ CompletionMoves
    BY <2>1, <2>2 DEF Page, Scan, ActionRead, CreateRead, ScanBegins, ScanRow, ScanEnds, Wake, LambdaFails
  <2>3. ASSUME NEW i \in IDs, Pass(i) \/ IdleStop(i) PROVE row' = row
    BY <2>3 DEF Pass, PassReady, PassStarting, PassFailed, PassSettles, IdleStop
  <2>4. ASSUME NEW i \in IDs, NEW d \in AdminIntents, AdminSets(i, d) PROVE row' = row
    BY <2>4 DEF AdminSets
  <2>5. ASSUME NEW i \in IDs, RequestExpires(i) PROVE CompletionMoves
    <3> DEFINE v == [row[i] EXCEPT !.expired = TRUE]
    <3>1. row' = [row EXCEPT ![i] = v] /\ v.completed = row[i].completed
      BY <1>1, <2>5 DEF RequestExpires, IInv, TypeOK, RowRec
    <3> HIDE DEF v
    <3> QED
      BY <1>1, <3>1, OneRow
  <2>6. CASE SyncMark
    BY <1>1, <2>6, MarkCompletes
  <2>7. CASE Publish
    <3> DEFINE v == [row[sync.id] EXCEPT !.snap = sync.snap]
    <3>1. row' = [row EXCEPT ![sync.id] = v] /\ sync.id \in IDs /\ v.completed = row[sync.id].completed
      BY <1>1, <2>7 DEF Publish, IInv, TypeOK, RowRec, Worker, Publishing
    <3> HIDE DEF v
    <3> QED
      BY <1>1, <3>1, OneRow
  <2>8. CASE Sync /\ ~SyncMark /\ ~Publish
    BY <2>8 DEF Sync, SyncBegins, SyncEnds, SyncRead, SyncNoTemplate, SyncCreates, SyncMissing,
       SyncAccepts, SyncShutdown, SyncRefused, SyncAnswers, SyncGet
  <2>9. CASE SyncFails \/ PowerOff \/ EC2
    BY <2>9 DEF SyncFails, PowerOff, CheckBegins, CheckRow, BeginIdleShutdown, EC2, HostStops,
       HostStopped, HostBoots
  <2> QED
    BY <1>1, <2>2, <2>3, <2>4, <2>5, <2>6, <2>7, <2>8, <2>9 DEF Next
<1>2. ASSUME IInv, [Next]_vars PROVE [CompletionMoves]_row
  BY <1>1, <1>2 DEF vars
<1> QED
  BY <1>2, LaunchInvariance, PTL DEF Spec, CompletionIsReal
=============================================================================

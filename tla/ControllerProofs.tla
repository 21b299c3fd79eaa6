-------------------------- MODULE ControllerProofs --------------------------
(***************************************************************************)
(* What InstanceController guarantees for any number of instances, slots,  *)
(* intents and faults: a stopped instance is stopped, a deleted one is     *)
(* gone, the host never powers off under a game, a retried request never   *)
(* counts as a new intent and a game that exits is not restarted in a      *)
(* loop.                                                                   *)
(*                                                                         *)
(* The argument: only the pass touches containers, and it handles an       *)
(* instance at most once at a time.  A task listed with the intent to run  *)
(* therefore sees no "stopped" or "deleted" phase for as long as it lasts, *)
(* because only the task itself could save one; and a task listed in the   *)
(* current generation saves a phase its instance's intent allows.          *)
(***************************************************************************)
EXTENDS InstanceController, TLAPS

On(j) == task[j].at # "off"

\* What a task knows: its listing is not newer than the database, and within one
\* generation only a policy changes the intent, from running to stopped.
Lists(j) ==
    On(j) =>
        /\ task[j].was # None
        /\ store[j] # None
        /\ task[j].was.gen <= store[j].gen
        /\ task[j].was.gen = store[j].gen =>
             \/ store[j].desired = task[j].was.desired
             \/ task[j].was.desired = "running" /\ store[j].desired = "stopped"
        /\ task[j].was.desired = "deleted" => store[j].desired = "deleted"
        /\ task[j].was.desired = "running" => store[j].phase # "stopped"
        /\ store[j].phase # "deleted"

\* What a task is about to do or to save.
Acts(j) ==
    /\ task[j].at \in {"prepared", "start", "agent"} => task[j].was.desired = "running"
    /\ task[j].at = "inspected" /\ task[j].was.desired = "stopped" =>
         task[j].obs.running \/ box[j] # "running"
    /\ task[j].at = "save" /\ task[j].phase = "stopped" =>
         task[j].was.desired = "stopped" /\ box[j] # "running"
    /\ task[j].at = "save" /\ task[j].phase = "deleted" =>
         task[j].was.desired = "deleted" /\ box[j] = "none"

\* What the database says of a container.
Tells(j) ==
    /\ store[j] = None => box[j] = "none"
    /\ store[j] # None =>
         /\ store[j].desired = "running" => store[j].phase \notin {"stopped", "deleted"}
         /\ store[j].phase = "stopped" => box[j] # "running"
         /\ store[j].phase = "deleted" => store[j].desired = "deleted" /\ box[j] = "none"

\* What is closed off once the host has committed to power off.
Quiet(j) ==
    closing =>
        /\ box[j] # "running"
        /\ store[j] # None => store[j].desired # "running"
        /\ On(j) => task[j].was.desired # "running"

\* How many intents a generation stands for.
Counts(j) ==
    /\ wish[j] # None => 1 <= intents[j]
    /\ store[j] # None => store[j].gen <= intents[j]
    /\ store[j] # None /\ wish[j] # None /\ wish[j].req # store[j].req =>
         store[j].gen + 1 <= intents[j]

Safe(j) == Lists(j) /\ Acts(j) /\ Tells(j) /\ Quiet(j) /\ Counts(j)
IInv == TypeOK /\ \A j \in Instances : Safe(j)

-----------------------------------------------------------------------------
(* The shape of a step: one instance moves, or the pass and the host do.   *)

\* An instance nothing happens to stays safe.
LEMMA Frame ==
    ASSUME NEW j \in Instances, Safe(j),
           store'[j] = store[j], wish'[j] = wish[j], box'[j] = box[j], task'[j] = task[j],
           intents'[j] = intents[j], closing' = closing
    PROVE  Safe(j)'
BY DEF Safe, Lists, Acts, Tells, Quiet, Counts, On

\* The steps of instance i touch no other.
Only(i) ==
    /\ closing' = closing
    /\ \A j \in Instances \ {i} :
         /\ store'[j] = store[j] /\ wish'[j] = wish[j] /\ box'[j] = box[j]
         /\ task'[j] = task[j] /\ intents'[j] = intents[j]

\* So such a step keeps the invariant if it keeps it for i.
LEMMA OneInstance ==
    ASSUME IInv, TypeOK', NEW i \in Instances, Only(i), Safe(i)'
    PROVE  IInv'
BY Frame DEF IInv, Only

\* A raised fault count stays within its bound.
LEMMA FaultType ==
    ASSUME TypeOK, faults' = faults \/ Fault
    PROVE  faults' \in 0..MaxFaults
BY ControllerAssumption DEF TypeOK, Fault

\* The edits of an instance record stay instance records.
LEMMA EditTypes ==
    ASSUME NEW v \in InstanceRec, NEW n \in Nat, NEW d \in Desired, NEW ph \in Phases, NEW e \in BOOLEAN
    PROVE  /\ [v EXCEPT !.gen = n, !.error = e] \in InstanceRec
           /\ [v EXCEPT !.gen = n, !.error = e, !.phase = ph] \in InstanceRec
           /\ [v EXCEPT !.gen = n, !.desired = d, !.error = e, !.phase = ph] \in InstanceRec
           /\ [v EXCEPT !.phase = ph, !.error = e] \in InstanceRec
           /\ [v EXCEPT !.phase = ph, !.error = e, !.desired = d] \in InstanceRec
           /\ [v EXCEPT !.error = e] \in InstanceRec
BY DEF InstanceRec

\* What setDesired makes of an instance: a new generation, or no change.
LEMMA SetDesiredType ==
    ASSUME NEW v \in InstanceRec, NEW d \in Desired, v.desired = "deleted" => d = "deleted"
    PROVE  /\ setDesired(v, d) \in InstanceRec
           /\ setDesired(v, d).req = v.req
           /\ setDesired(v, d).desired = d
           /\ \/ setDesired(v, d) = v
              \/ setDesired(v, d).gen = v.gen + 1
           /\ \/ setDesired(v, d).phase = v.phase /\ (d = "running" => v.desired = "running")
              \/ setDesired(v, d).phase = "queued" /\ d = "running"
<1> DEFINE again == [v EXCEPT !.gen = v.gen + 1, !.error = FALSE]
           retry == [v EXCEPT !.gen = v.gen + 1, !.error = FALSE, !.phase = "queued"]
           moved == [v EXCEPT !.gen = v.gen + 1, !.desired = d, !.error = FALSE,
                              !.phase = IF d = "running" THEN "queued" ELSE v.phase]
<1>0. v.gen \in Nat /\ v.desired \in Desired /\ v.phase \in Phases /\ v.req \in Nat /\ "queued" \in Phases
  BY DEF InstanceRec, Phases
<1>00. v.gen + 1 \in Nat /\ (IF d = "running" THEN "queued" ELSE v.phase) \in Phases
  BY <1>0
<1>1. CASE v.desired = "deleted"
  <2>1. setDesired(v, d) = v \/ setDesired(v, d) = again
    BY <1>1 DEF setDesired
  <2>0. again \in InstanceRec
    BY <1>0, <1>00, EditTypes, FALSE \in BOOLEAN, Zenon
  <2>2. again.gen = v.gen + 1 /\ again.req = v.req /\ again.desired = v.desired
        /\ again.phase = v.phase
    BY <1>0 DEF InstanceRec
  <2> HIDE DEF again
  <2> QED
    BY <1>1, <2>0, <2>1, <2>2
<1>2. CASE v.desired # "deleted" /\ v.desired = d
  <2>1. setDesired(v, d) = v \/ (setDesired(v, d) = retry /\ d = "running")
    BY <1>2 DEF setDesired
  <2>0. retry \in InstanceRec
    BY <1>0, <1>00, EditTypes, FALSE \in BOOLEAN, Zenon
  <2>2. retry.gen = v.gen + 1 /\ retry.req = v.req /\ retry.desired = v.desired
        /\ retry.phase = "queued"
    BY <1>0 DEF InstanceRec
  <2> HIDE DEF retry
  <2> QED
    BY <1>2, <2>0, <2>1, <2>2
<1>3. CASE v.desired # "deleted" /\ v.desired # d
  <2>1. setDesired(v, d) = moved
    BY <1>3 DEF setDesired
  <2>0. moved \in InstanceRec
    BY <1>0, <1>00, EditTypes, FALSE \in BOOLEAN, Zenon
  <2>2. moved.gen = v.gen + 1 /\ moved.req = v.req /\ moved.desired = d
        /\ moved.phase = IF d = "running" THEN "queued" ELSE v.phase
    BY <1>0 DEF InstanceRec
  <2> HIDE DEF moved
  <2> QED
    BY <1>3, <2>0, <2>1, <2>2
<1> QED
  BY <1>1, <1>2, <1>3

-----------------------------------------------------------------------------
(* Intents.                                                                *)

\* A new intent for an instance whose containers and task stay as they are.
LEMMA IntentSafe ==
    ASSUME TypeOK, NEW i \in Instances, Safe(i), store[i] # None, ~closing,
           closing' = closing, box'[i] = box[i], task'[i] = task[i],
           NEW d \in Desired, store[i].desired = "deleted" => d = "deleted",
           store'[i] # None,
           store'[i].gen = setDesired(store[i], d).gen,
           store'[i].desired = setDesired(store[i], d).desired,
           store'[i].phase = setDesired(store[i], d).phase
    PROVE  (Lists(i) /\ Acts(i) /\ Tells(i) /\ Quiet(i))'
<1>1. store[i] \in InstanceRec
  BY DEF TypeOK
<1>2. /\ store'[i].desired = d
      /\ \/ store'[i].gen = store[i].gen /\ d = store[i].desired /\ store'[i].phase = store[i].phase
         \/ store'[i].gen = store[i].gen + 1
      /\ \/ store'[i].phase = store[i].phase /\ (d = "running" => store[i].desired = "running")
         \/ store'[i].phase = "queued" /\ d = "running"
  BY <1>1, SetDesiredType
<1>3. store[i].gen \in Nat /\ (task[i].was # None => task[i].was.gen \in Nat)
  BY <1>1 DEF TypeOK, TaskRec, InstanceRec
<1>4. Lists(i)'
  BY <1>2, <1>3 DEF Safe, Lists, Tells, On
<1>5. Acts(i)'
  BY DEF Safe, Acts
<1>6. Tells(i)'
  BY <1>2 DEF Safe, Tells, Lists
<1>7. Quiet(i)'
  BY DEF Quiet
<1> QED
  BY <1>4, <1>5, <1>6, <1>7

\* SetDesired, Create, Wish, RequestDesired and CreateRequested.
LEMMA IntentKeeps ==
    ASSUME IInv, NEW i \in Instances, Intent(i) \/ Accept(i)
    PROVE  IInv'
<1>0. TypeOK /\ Safe(i)
  BY DEF IInv
<1>1. ASSUME NEW d \in Desired, SetDesired(i, d) PROVE IInv'
  <2>1. /\ store[i] # None /\ ~closing /\ (store[i].desired = "deleted" => d = "deleted")
        /\ store' = [store EXCEPT ![i] = setDesired(store[i], d)]
        /\ intents' = [intents EXCEPT ![i] = intents[i] + 1] /\ intents[i] < MaxIntents
        /\ UNCHANGED <<wish, closing, box, task, starts, faults>>
        /\ store[i] \in InstanceRec
    BY <1>0, <1>1 DEF SetDesired, Allowed, Express, TypeOK
  <2>2. setDesired(store[i], d) \in InstanceRec
    BY <2>1, SetDesiredType
  <2>3. TypeOK'
    BY <1>0, <2>1, <2>2, ControllerAssumption DEF TypeOK
  <2>4. store'[i] = setDesired(store[i], d) /\ intents'[i] = intents[i] + 1 /\ store'[i] # None
    BY <1>0, <2>1, <2>2, NoInstanceAssumption DEF TypeOK
  <2>5. (Lists(i) /\ Acts(i) /\ Tells(i) /\ Quiet(i))'
    BY <1>0, <2>1, <2>4, IntentSafe
  <2>6. Counts(i)'
    <3>1. store'[i].gen <= store[i].gen + 1 /\ store'[i].req = store[i].req
      BY <2>1, <2>4, SetDesiredType DEF InstanceRec
    <3> QED
      BY <1>0, <2>1, <2>2, <2>4, <3>1 DEF Safe, Counts, TypeOK, InstanceRec
  <2>7. Only(i)
    BY <1>0, <2>1 DEF Only, TypeOK
  <2> QED
    BY <2>3, <2>5, <2>6, <2>7, OneInstance DEF Safe
<1>2. CASE Create(i) \/ CreateRequested(i)
  <2>1. PICK r \in Nat :
          /\ store[i] = None /\ ~closing
          /\ store' = [store EXCEPT ![i] = Fresh(r)]
          /\ UNCHANGED <<wish, closing, box, task, starts, faults>>
          /\ \/ r = 0 /\ wish[i] = None /\ intents' = [intents EXCEPT ![i] = intents[i] + 1]
                /\ intents[i] < MaxIntents
             \/ wish[i] # None /\ r = wish[i].req /\ UNCHANGED intents
    BY <1>0, <1>2 DEF Create, CreateRequested, Express, TypeOK, WishRec
  <2>2. Fresh(r) \in InstanceRec /\ Fresh(r).gen = 1 /\ Fresh(r).desired = "running" /\ Fresh(r).phase = "queued"
        /\ Fresh(r).req = r
    BY DEF Fresh, InstanceRec, Desired, Phases
  <2>3. TypeOK'
    BY <1>0, <2>1, <2>2, ControllerAssumption DEF TypeOK
  <2>4. store'[i] = Fresh(r) /\ store'[i] # None
    BY <1>0, <2>1, <2>2, NoInstanceAssumption DEF TypeOK
  <2>5. Safe(i)'
    <3>1. task'[i].at = "off" /\ box'[i] = "none" /\ ~closing'
      BY <1>0, <2>1 DEF Safe, Lists, Tells, On
    <3>2. Counts(i)'
      BY <1>0, <2>1, <2>2, <2>4 DEF Safe, Counts, TypeOK
    <3> QED
      BY <2>2, <2>4, <3>1, <3>2 DEF Safe, Lists, Acts, Tells, Quiet, On
  <2>6. Only(i)
    BY <1>0, <2>1 DEF Only, TypeOK
  <2> QED
    BY <2>3, <2>5, <2>6, OneInstance
<1>3. ASSUME NEW d \in Desired, Wish(i, d) PROVE IInv'
  <2>1. /\ wish' = [wish EXCEPT ![i] = [req |-> intents[i] + 1, desired |-> d]]
        /\ intents' = [intents EXCEPT ![i] = intents[i] + 1] /\ intents[i] < MaxIntents
        /\ UNCHANGED <<store, closing, box, task, starts, faults>>
    BY <1>3 DEF Wish, Express
  <2>2. [req |-> intents[i] + 1, desired |-> d] \in WishRec
    BY <1>0 DEF WishRec, TypeOK
  <2>3. TypeOK'
    BY <1>0, <2>1, <2>2, ControllerAssumption DEF TypeOK
  <2>4. Counts(i)'
    BY <1>0, <2>1 DEF Safe, Counts, TypeOK, InstanceRec
  <2>5. Safe(i)'
    BY <1>0, <2>1, <2>4 DEF Safe, Lists, Acts, Tells, Quiet, On
  <2>6. Only(i)
    BY <1>0, <2>1 DEF Only, TypeOK
  <2> QED
    BY <2>3, <2>5, <2>6, OneInstance
<1>4. CASE RequestDesired(i)
  <2> DEFINE d == wish[i].desired
             new == [setDesired(store[i], d) EXCEPT !.req = wish[i].req]
  <2>1. /\ store[i] # None /\ ~closing /\ (store[i].desired = "deleted" => d = "deleted")
        /\ wish[i] # None /\ wish[i].req # store[i].req
        /\ store' = [store EXCEPT ![i] = new]
        /\ UNCHANGED <<wish, closing, box, task, intents, starts, faults>>
        /\ store[i] \in InstanceRec /\ d \in Desired /\ wish[i].req \in Nat
    BY <1>0, <1>4 DEF RequestDesired, Allowed, TypeOK, WishRec
  <2>2. setDesired(store[i], d) \in InstanceRec
    BY <2>1, SetDesiredType
  <2>3. /\ new \in InstanceRec /\ new.req = wish[i].req
        /\ new.gen = setDesired(store[i], d).gen
        /\ new.desired = setDesired(store[i], d).desired
        /\ new.phase = setDesired(store[i], d).phase
    BY <2>1, <2>2 DEF InstanceRec
  <2>4. store'[i] = new /\ store'[i] # None
    BY <1>0, <2>1, <2>3, NoInstanceAssumption DEF TypeOK
  <2>5. TypeOK'
    BY <1>0, <2>1, <2>3 DEF TypeOK
  <2>6. (Lists(i) /\ Acts(i) /\ Tells(i) /\ Quiet(i))'
    BY <1>0, <2>1, <2>3, <2>4, IntentSafe
  <2>7. Counts(i)'
    <3>1. store'[i].gen <= store[i].gen + 1 /\ store'[i].req = wish'[i].req
      BY <2>1, <2>3, <2>4, SetDesiredType DEF InstanceRec
    <3> QED
      BY <1>0, <2>1, <2>2, <2>3, <2>4, <3>1 DEF Safe, Counts, TypeOK, InstanceRec
  <2>8. Only(i)
    BY <1>0, <2>1 DEF Only, TypeOK
  <2> QED
    BY <2>5, <2>6, <2>7, <2>8, OneInstance DEF Safe
<1>5. UserIntents \subseteq Desired /\ FleetIntents \subseteq Desired
  BY ControllerAssumption DEF Desired
<1> QED
  BY <1>1, <1>2, <1>3, <1>4, <1>5 DEF Intent, Accept

-----------------------------------------------------------------------------
(* The steps of a pass.                                                    *)

\* A new pass lists the database.
LEMMA PassKeeps == ASSUME IInv, PassBegins PROVE IInv'
<1>1. /\ task' = [i \in Instances |->
                    IF Listed(i) THEN [Off EXCEPT !.at = "listed", !.was = store[i]] ELSE Off]
      /\ UNCHANGED <<store, wish, closing, box, intents, starts, faults>>
  BY DEF PassBegins
<1>2. Off \in TaskRec
  BY DEF Off, TaskRec, At, Observation, Nothing, Phases
<1>3. ASSUME NEW j \in Instances
      PROVE  /\ task'[j] \in TaskRec
             /\ Listed(j) => task'[j].at = "listed" /\ task'[j].was = store[j]
             /\ ~Listed(j) => task'[j].at = "off"
  BY <1>1, <1>2 DEF Listed, Off, TaskRec, At, IInv, TypeOK
<1>4. TypeOK'
  BY <1>1, <1>3 DEF IInv, TypeOK
<1>5. ASSUME NEW j \in Instances PROVE Safe(j)'
  <2>1. Safe(j) /\ (Listed(j) => store[j] \in InstanceRec)
    BY DEF IInv, TypeOK, Listed
  <2>2. Lists(j)'
    <3>1. CASE Listed(j)
      <4>1. task'[j].was = store'[j] /\ store'[j] = store[j] /\ store[j] # None
            /\ store[j].gen \in Nat /\ store[j].phase # "deleted"
            /\ (store[j].desired = "running" => store[j].phase # "stopped")
        BY <1>1, <1>3, <2>1, <3>1 DEF Listed, Safe, Tells, InstanceRec
      <4> QED
        BY <4>1 DEF Lists
    <3>2. CASE ~Listed(j)
      BY <1>3, <3>2 DEF Lists, On
    <3> QED
      BY <3>1, <3>2
  <2>3. Acts(j)' /\ Tells(j)' /\ Counts(j)'
    BY <1>1, <1>3, <2>1 DEF Acts, Tells, Counts, Safe
  <2>4. Quiet(j)'
    BY <1>1, <1>3, <2>1 DEF Quiet, On, Safe, Listed
  <2> QED
    BY <2>2, <2>3, <2>4 DEF Safe
<1> QED
  BY <1>4, <1>5 DEF IInv

\* The task of i moves on; the database, the intents and the host stay.
Moves(i) ==
    /\ UNCHANGED <<store, wish, closing, intents>>
    /\ faults' = faults \/ Fault
    /\ starts' \in [Instances -> [gen : Nat, count : Nat]]
    /\ box' \in [Instances -> Box] /\ \A j \in Instances \ {i} : box'[j] = box[j]
    /\ task' \in [Instances -> TaskRec] /\ \A j \in Instances \ {i} : task'[j] = task[j]
    /\ task[i].at # "off" /\ task'[i].at # "off" /\ task'[i].was = task[i].was

\* Such a step keeps the invariant if it acts within the listed intent.
LEMMA TaskMoves ==
    ASSUME IInv, NEW i \in Instances, Moves(i), Acts(i)',
           box'[i] = "running" => box[i] = "running" \/ task[i].was.desired = "running",
           box[i] = "none" => box'[i] = "none" \/ task[i].was.desired = "running"
    PROVE  IInv'
<1>0. TypeOK /\ Safe(i)
  BY DEF IInv
<1>1. TypeOK'
  BY <1>0, FaultType DEF Moves, TypeOK
<1>2. Lists(i)' /\ Counts(i)' /\ Quiet(i)'
  BY <1>0 DEF Moves, Safe, Lists, Counts, Quiet, On
<1>3. Tells(i)'
  BY <1>0 DEF Moves, Safe, Lists, Tells, On
<1>4. Only(i)
  BY DEF Only, Moves
<1> QED
  BY <1>1, <1>2, <1>3, <1>4, OneInstance DEF Safe

\* Going to a label, with the box as it is, within the listed intent.
LEMMA GotoMoves ==
    ASSUME IInv, NEW i \in Instances, NEW label \in At \ {"off"}, task[i].at # "off",
           Goto(i, label),
           UNCHANGED <<store, wish, closing, intents, starts>>,
           faults' = faults \/ Fault,
           box' \in [Instances -> Box], \A j \in Instances \ {i} : box'[j] = box[j]
    PROVE  Moves(i) /\ task'[i].at = label /\ task'[i].was = task[i].was
BY DEF Goto, Moves, IInv, TypeOK, TaskRec

\* The same for a result to be saved.
LEMMA ResultMoves ==
    ASSUME IInv, NEW i \in Instances, NEW phase \in Phases, NEW failure \in BOOLEAN,
           task[i].at # "off", Result(i, phase, failure),
           UNCHANGED <<store, wish, closing, intents>>,
           starts' \in [Instances -> [gen : Nat, count : Nat]],
           faults' = faults \/ Fault,
           box' \in [Instances -> Box], \A j \in Instances \ {i} : box'[j] = box[j]
    PROVE  /\ Moves(i) /\ task'[i].at = "save" /\ task'[i].was = task[i].was
           /\ task'[i].phase = phase
<1> DEFINE new == [task[i] EXCEPT !.at = "save", !.phase = phase, !.error = failure]
<1>1. task[i] \in TaskRec /\ TypeOK
  BY DEF IInv, TypeOK
<1>2. task' = [task EXCEPT ![i] = new]
  BY DEF Result
<1>3. new \in TaskRec /\ new.at = "save" /\ new.was = task[i].was /\ new.phase = phase
  BY <1>1 DEF TaskRec, At
<1> HIDE DEF new
<1>4. task' \in [Instances -> TaskRec] /\ task'[i] = new /\ \A j \in Instances \ {i} : task'[j] = task[j]
  BY <1>1, <1>2, <1>3 DEF TypeOK
<1> QED
  BY <1>3, <1>4 DEF Moves

\* A call that fails keeps the invariant, whether or not it had its effect.
LEMMA ErrKeeps ==
    ASSUME IInv, NEW i \in Instances, task[i].at # "off", Errs(i),
           UNCHANGED <<store, wish, closing, intents>>,
           starts' \in [Instances -> [gen : Nat, count : Nat]],
           NEW b \in Box, box' = box \/ box' = [box EXCEPT ![i] = b],
           b = "running" => box[i] = "running" \/ task[i].was.desired = "running",
           box[i] = "none" => b = "none" \/ task[i].was.desired = "running"
    PROVE  IInv'
<1>1. TypeOK /\ task[i] \in TaskRec
  BY DEF IInv, TypeOK
<1>2. box' \in [Instances -> Box] /\ (\A j \in Instances \ {i} : box'[j] = box[j]) /\ box'[i] \in {box[i], b}
  BY <1>1 DEF TypeOK
<1>3. Moves(i) /\ task'[i].at = "failed"
  BY <1>1, <1>2 DEF Moves, Errs, Goto, TypeOK, TaskRec, At
<1>4. Acts(i)'
  BY <1>3 DEF Acts
<1> QED
  BY <1>2, <1>3, <1>4, TaskMoves

\* A result that claims neither a stop nor a removal keeps the invariant.
LEMMA ResultKeeps ==
    ASSUME IInv, NEW i \in Instances, task[i].at # "off",
           NEW phase \in Phases \ {"stopped", "deleted"}, NEW failure \in BOOLEAN,
           Result(i, phase, failure),
           UNCHANGED <<store, wish, closing, intents>>,
           starts' \in [Instances -> [gen : Nat, count : Nat]],
           faults' = faults \/ Fault,
           NEW b \in Box, box' = box \/ box' = [box EXCEPT ![i] = b],
           b = "running" => box[i] = "running" \/ task[i].was.desired = "running",
           box[i] = "none" => b = "none" \/ task[i].was.desired = "running"
    PROVE  IInv'
<1>1. TypeOK
  BY DEF IInv
<1>2. box' \in [Instances -> Box] /\ (\A j \in Instances \ {i} : box'[j] = box[j]) /\ box'[i] \in {box[i], b}
  BY <1>1 DEF TypeOK
<1>3. Moves(i) /\ task'[i].at = "save" /\ task'[i].phase = phase
  BY <1>2, ResultMoves
<1>4. Acts(i)'
  BY <1>3 DEF Acts
<1> QED
  BY <1>2, <1>3, <1>4, TaskMoves

\* Going on with an instance that should run keeps the invariant.
LEMMA GotoKeeps ==
    ASSUME IInv, NEW i \in Instances, task[i].at # "off",
           NEW label \in {"prepared", "start", "agent", "stop", "failed"}, Goto(i, label),
           label \in {"prepared", "start", "agent"} => task[i].was.desired = "running",
           UNCHANGED <<store, wish, closing, box, intents, starts, faults>>
    PROVE  IInv'
<1>1. TypeOK
  BY DEF IInv
<1>2. Moves(i) /\ task'[i].at = label /\ task'[i].was = task[i].was
  BY <1>1, GotoMoves DEF TypeOK, At
<1>3. Acts(i)'
  BY <1>2 DEF Acts
<1> QED
  BY <1>2, <1>3, TaskMoves

\* The provider calls of one instance, up to the result they return.
LEMMA CallKeeps ==
    ASSUME IInv, NEW i \in Instances,
           \/ Deletes(i) \/ Inspects(i) \/ Confirms(i) \/ Stops(i) \/ StopsLate(i)
           \/ StaysFailed(i) \/ Prepares(i) \/ Prepared(i) \/ Ensures(i) \/ Decides(i) \/ Starts(i)
    PROVE  IInv'
<1>0. /\ TypeOK /\ Safe(i) /\ task[i] \in TaskRec /\ box[i] \in Box
      /\ task[i].obs.failure \in BOOLEAN
      /\ task[i].was # None => task[i].was \in InstanceRec
  BY DEF IInv, TypeOK, TaskRec, Observation
<1>1. CASE Deletes(i)
  <2>1. /\ task[i].at = "listed" /\ task[i].was.desired = "deleted"
        /\ UNCHANGED <<store, wish, closing, intents, starts>>
        /\ \/ Result(i, "deleted", FALSE) /\ box' = [box EXCEPT ![i] = "none"] /\ UNCHANGED faults
           \/ Errs(i) /\ (box' = box \/ box' = [box EXCEPT ![i] = "none"])
    BY <1>1 DEF Deletes, Takes
  <2>2. CASE Result(i, "deleted", FALSE) /\ box' = [box EXCEPT ![i] = "none"] /\ UNCHANGED faults
    <3>1. box' \in [Instances -> Box] /\ box'[i] = "none" /\ \A j \in Instances \ {i} : box'[j] = box[j]
      BY <1>0, <2>2 DEF TypeOK, Box
    <3>0. /\ "deleted" \in Phases /\ FALSE \in BOOLEAN /\ task[i].at # "off"
          /\ starts' \in [Instances -> [gen : Nat, count : Nat]]
          /\ UNCHANGED <<store, wish, closing, intents>> /\ (faults' = faults \/ Fault)
      BY <1>0, <2>1, <2>2 DEF Phases, TypeOK
    <3>2. Moves(i) /\ task'[i].at = "save" /\ task'[i].was = task[i].was /\ task'[i].phase = "deleted"
      BY <2>1, <2>2, <3>0, <3>1, ResultMoves, Zenon
    <3>3. Acts(i)'
      BY <2>1, <3>1, <3>2 DEF Acts
    <3> QED
      BY <3>1, <3>2, <3>3, TaskMoves
  <2>3. CASE Errs(i) /\ (box' = box \/ box' = [box EXCEPT ![i] = "none"])
    BY <1>0, <2>1, <2>3, ErrKeeps DEF Box, TypeOK
  <2> QED
    BY <2>1, <2>2, <2>3
<1>2. CASE Inspects(i)
  <2>1. /\ task[i].at = "listed"
        /\ UNCHANGED <<store, wish, closing, box, intents, starts>>
        /\ \/ task' = [task EXCEPT ![i].at = "inspected", ![i].obs = Inspect(box[i])] /\ UNCHANGED faults
           \/ Errs(i)
    BY <1>2 DEF Inspects, Takes
  <2>2. CASE task' = [task EXCEPT ![i].at = "inspected", ![i].obs = Inspect(box[i])] /\ UNCHANGED faults
    <3>1. Inspect(box[i]) \in Observation
      BY DEF Inspect, Observation
    <3>2. Moves(i) /\ task'[i].at = "inspected"
      BY <1>0, <2>1, <2>2, <3>1 DEF Moves, TypeOK, TaskRec, At
    <3>4. task'[i].obs.running = (box[i] = "running")
      BY <1>0, <2>1, <2>2 DEF TypeOK, TaskRec, Inspect
    <3>3. Acts(i)'
      BY <2>1, <3>2, <3>4 DEF Acts
    <3> QED
      BY <2>1, <3>2, <3>3, TaskMoves
  <2>3. CASE Errs(i)
    BY <1>0, <2>1, <2>3, ErrKeeps DEF TypeOK
  <2> QED
    BY <2>1, <2>2, <2>3
<1>3. CASE Confirms(i)
  <2>1. /\ task[i].at = "inspected" /\ task[i].was.desired = "stopped"
        /\ UNCHANGED <<store, wish, closing, box, intents, starts, faults>>
        /\ Goto(i, "stop") \/ (~task[i].obs.running /\ Result(i, "stopped", task[i].obs.failure))
    BY <1>3 DEF Confirms
  <2>2. CASE Goto(i, "stop")
    BY <2>1, <2>2, GotoKeeps
  <2>3. CASE ~task[i].obs.running /\ Result(i, "stopped", task[i].obs.failure)
    <3>1. /\ Moves(i) /\ task'[i].at = "save" /\ task'[i].was = task[i].was
          /\ task'[i].phase = "stopped"
      BY <1>0, <2>1, <2>3, ResultMoves DEF Phases, TypeOK
    <3>2. Acts(i)'
      BY <1>0, <2>1, <2>3, <3>1 DEF Acts, Safe
    <3> QED
      BY <2>1, <3>1, <3>2, TaskMoves
  <2> QED
    BY <2>1, <2>2, <2>3
<1>4. CASE Stops(i)
  <2>1. PICK b \in Exits :
          \/ Result(i, "stopping", task[i].obs.failure) /\ box' = [box EXCEPT ![i] = b] /\ UNCHANGED faults
          \/ Errs(i) /\ (box' = box \/ box' = [box EXCEPT ![i] = b])
    BY <1>4 DEF Stops
  <2>2. /\ task[i].at # "off" /\ box[i] = "running" /\ b \in Box /\ b # "running"
        /\ UNCHANGED <<store, wish, closing, intents, starts>>
        /\ starts' \in [Instances -> [gen : Nat, count : Nat]]
        /\ "stopping" \in Phases \ {"stopped", "deleted"}
    BY <1>0, <1>4 DEF Stops, Exits, Box, TypeOK, Phases
  <2>3. CASE Result(i, "stopping", task[i].obs.failure) /\ box' = [box EXCEPT ![i] = b] /\ UNCHANGED faults
    BY <1>0, <2>2, <2>3, ResultKeeps
  <2>4. CASE Errs(i) /\ (box' = box \/ box' = [box EXCEPT ![i] = b])
    BY <2>2, <2>4, ErrKeeps
  <2> QED
    BY <2>1, <2>3, <2>4
<1>5. CASE StopsLate(i)
  BY <1>5, GotoKeeps DEF StopsLate
<1>6. CASE Prepared(i)
  BY <1>6, GotoKeeps DEF Prepared, Missing, Wanted
<1>7. CASE StaysFailed(i)
  <2>1. /\ task[i].at # "off" /\ Result(i, "failed", task[i].was.error)
        /\ UNCHANGED <<store, wish, closing, box, intents, starts, faults>>
        /\ starts' \in [Instances -> [gen : Nat, count : Nat]]
        /\ "failed" \in Phases \ {"stopped", "deleted"}
    BY <1>0, <1>7 DEF StaysFailed, Missing, Wanted, TypeOK, Phases
  <2>2. task[i].was.error \in BOOLEAN
    BY <1>0, <2>1 DEF Safe, Lists, On, InstanceRec
  <2> QED
    BY <1>0, <2>1, <2>2, ResultKeeps
<1>8. CASE Prepares(i)
  <2>1. /\ task[i].at # "off"
        /\ UNCHANGED <<store, wish, closing, box, intents, starts>>
        /\ starts' \in [Instances -> [gen : Nat, count : Nat]]
        /\ "failed" \in Phases \ {"stopped", "deleted"} /\ "preparing" \in Phases \ {"stopped", "deleted"}
        /\ faults' = faults \/ Fault
        /\ TRUE \in BOOLEAN /\ FALSE \in BOOLEAN
    BY <1>0, <1>8 DEF Prepares, Missing, Wanted, TypeOK, Phases
  <2>2. PICK phase \in Phases \ {"stopped", "deleted"}, failure \in BOOLEAN : Result(i, phase, failure)
    BY <1>8, <2>1, Zenon DEF Prepares
  <2> QED
    BY <1>0, <2>1, <2>2, ResultKeeps
<1>9. CASE Ensures(i)
  <2> DEFINE b == IF box[i] = "none" THEN "created" ELSE box[i]
  <2>1. /\ task[i].at = "prepared" /\ task[i].was.desired = "running"
        /\ UNCHANGED <<store, wish, closing, intents, starts>>
        /\ b \in Box /\ (b = "running" => box[i] = "running")
        /\ \/ /\ box' = [box EXCEPT ![i] = b]
              /\ task' = [task EXCEPT ![i].at = "inspected", ![i].obs = Inspect(b)]
              /\ UNCHANGED faults
           \/ Errs(i) /\ (box' = box \/ box' = [box EXCEPT ![i] = b])
    BY <1>0, <1>9 DEF Ensures, Safe, Acts, Box
  <2> HIDE DEF b
  <2>2. CASE box' = [box EXCEPT ![i] = b] /\ UNCHANGED faults
             /\ task' = [task EXCEPT ![i].at = "inspected", ![i].obs = Inspect(b)]
    <3>1. Inspect(b) \in Observation
      BY DEF Inspect, Observation
    <3>2. Moves(i) /\ task'[i].at = "inspected" /\ box'[i] = b
      BY <1>0, <2>1, <2>2, <3>1 DEF Moves, TypeOK, TaskRec, At
    <3>3. task'[i].was = task[i].was
      BY <3>2 DEF Moves
    <3>4. Acts(i)'
      BY <2>1, <3>2, <3>3 DEF Acts
    <3> QED
      BY <2>1, <3>2, <3>4, TaskMoves
  <2>3. CASE Errs(i) /\ (box' = box \/ box' = [box EXCEPT ![i] = b])
    BY <1>0, <2>1, <2>3, ErrKeeps DEF TypeOK
  <2> QED
    BY <2>1, <2>2, <2>3
<1>10. CASE Decides(i)
  <2>1. /\ task[i].at # "off" /\ task[i].was.desired = "running"
        /\ UNCHANGED <<store, wish, closing, box, intents, starts, faults>>
        /\ starts' \in [Instances -> [gen : Nat, count : Nat]]
        /\ "failed" \in Phases \ {"stopped", "deleted"} /\ TRUE \in BOOLEAN
        /\ Goto(i, "agent") \/ Goto(i, "start") \/ Result(i, "failed", TRUE)
    BY <1>0, <1>10 DEF Decides, Wanted, TypeOK, Phases
  <2>2. CASE Goto(i, "agent") \/ Goto(i, "start")
    BY <2>1, <2>2, GotoKeeps
  <2>3. CASE Result(i, "failed", TRUE)
    <3>1. PICK failure \in BOOLEAN : Result(i, "failed", failure)
      BY <2>1, <2>3, Zenon
    <3> QED
      BY <1>0, <2>1, <3>1, ResultKeeps
  <2> QED
    BY <2>1, <2>2, <2>3
<1>11. CASE Starts(i)
  <2> DEFINE next == [gen |-> task[i].was.gen,
                      count |-> IF starts[i].gen = task[i].was.gen THEN starts[i].count + 1 ELSE 1]
  <2>1. /\ task[i].at = "start" /\ task[i].was.desired = "running" /\ task[i].was \in InstanceRec
        /\ UNCHANGED <<store, wish, closing, intents>>
        /\ "starting" \in Phases \ {"stopped", "deleted"} /\ "running" \in Box
    BY <1>0, <1>11 DEF Starts, Safe, Acts, Lists, On, Phases, Box
  <2>2. next \in [gen : Nat, count : Nat]
    BY <1>0, <2>1 DEF TypeOK, InstanceRec
  <2>3. /\ UNCHANGED starts \/ starts' = [starts EXCEPT ![i] = next]
        /\ box' = box \/ box' = [box EXCEPT ![i] = "running"]
        /\ \/ Result(i, "starting", task[i].obs.failure) /\ UNCHANGED faults
           \/ Errs(i)
    BY <1>11 DEF Starts
  <2>4. starts' \in [Instances -> [gen : Nat, count : Nat]]
    BY <1>0, <2>2, <2>3 DEF TypeOK
  <2> HIDE DEF next
  <2>5. CASE Result(i, "starting", task[i].obs.failure) /\ UNCHANGED faults
    BY <1>0, <2>1, <2>3, <2>4, <2>5, ResultKeeps
  <2>6. CASE Errs(i)
    BY <2>1, <2>3, <2>4, <2>6, ErrKeeps
  <2> QED
    BY <2>3, <2>5, <2>6
<1> QED
  BY <1>1, <1>2, <1>3, <1>4, <1>5, <1>6, <1>7, <1>8, <1>9, <1>10, <1>11

\* The maximum runtime turns the intent into a stop while the task goes on.
LEMMA RuntimeKeeps == ASSUME IInv, NEW i \in Instances, MaxRuntime(i) PROVE IInv'
<1>0. /\ TypeOK /\ Safe(i) /\ task[i] \in TaskRec /\ box[i] \in Box
      /\ task[i].at = "listed" /\ task[i].was.desired = "running"
      /\ UNCHANGED <<wish, closing, box, intents, starts>>
      /\ starts' \in [Instances -> [gen : Nat, count : Nat]]
      /\ "stopping" \in Phases \ {"stopped", "deleted"} /\ "stopping" \in Phases /\ FALSE \in BOOLEAN
  BY DEF IInv, TypeOK, MaxRuntime, Takes, Phases
<1>1. CASE Errs(i) /\ UNCHANGED store
  BY <1>0, <1>1, ErrKeeps
<1>2. CASE Result(i, "stopping", FALSE) /\ UNCHANGED <<store, faults>>
  <2>1. PICK failure \in BOOLEAN : Result(i, "stopping", failure)
    BY <1>0, <1>2, Zenon
  <2> QED
    BY <1>0, <1>2, <2>1, ResultKeeps
<1>3. CASE /\ Result(i, "stopping", FALSE) /\ UNCHANGED faults
           /\ store' = [store EXCEPT ![i].desired = "stopped"] /\ store[i].desired = "running"
  <2>0. task[i].was # None /\ store[i] \in InstanceRec
    BY <1>0 DEF Safe, Lists, On, TypeOK
  <2>1. PICK failure \in BOOLEAN : Result(i, "stopping", failure)
    BY <1>0, <1>3, Zenon
  <2> DEFINE new == [task[i] EXCEPT !.at = "save", !.phase = "stopping", !.error = failure]
             rec == [store[i] EXCEPT !.desired = "stopped"]
  <2>2. new \in TaskRec /\ new.at = "save" /\ new.was = task[i].was /\ new.phase = "stopping"
    BY <1>0 DEF TaskRec, At
  <2>3. task' = [task EXCEPT ![i] = new] /\ store' = [store EXCEPT ![i] = rec]
    BY <1>3, <2>1 DEF Result
  <2>4. rec \in InstanceRec /\ rec.gen = store[i].gen /\ rec.req = store[i].req /\ rec.phase = store[i].phase
        /\ rec.desired = "stopped"
    BY <2>0 DEF InstanceRec, Desired
  <2> HIDE DEF new, rec
  <2>5. TypeOK' /\ task'[i] = new /\ store'[i] = rec /\ rec # None
    BY <1>0, <1>3, <2>2, <2>3, <2>4, NoInstanceAssumption DEF TypeOK
  <2>6. Only(i)
    BY <1>0, <2>3 DEF Only, TypeOK
  <2>7. Lists(i)'
    BY <1>0, <1>3, <2>0, <2>2, <2>4, <2>5 DEF Safe, Lists, On
  <2>8. Acts(i)' /\ Counts(i)'
    BY <1>0, <2>0, <2>2, <2>4, <2>5, NoInstanceAssumption DEF Safe, Acts, Counts
  <2>9. Tells(i)' /\ Quiet(i)'
    BY <1>0, <1>3, <2>0, <2>2, <2>4, <2>5, NoInstanceAssumption DEF Safe, Tells, Quiet, Lists, On
  <2> QED
    BY <2>5, <2>6, <2>7, <2>8, <2>9, OneInstance DEF Safe
<1> QED
  BY <1>1, <1>2, <1>3 DEF MaxRuntime

\* The task ends, saving new in its own generation, or saving nothing.
LEMMA SaveKeeps ==
    ASSUME IInv, NEW i \in Instances, task[i].at # "off", Done(i),
           UNCHANGED <<wish, closing, box, intents, starts>>, faults' = faults \/ Fault,
           NEW new \in InstanceRec, new.gen = store[i].gen, new.req = store[i].req,
           store' = store \/ (Same(i) /\ store' = [store EXCEPT ![i] = new]),
           Same(i) =>
             /\ new.desired = store[i].desired \/ new.desired = "stopped"
             /\ new.desired = "running" => new.phase \notin {"stopped", "deleted"}
             /\ new.phase = "stopped" => box[i] # "running"
             /\ new.phase = "deleted" => new.desired = "deleted" /\ box[i] = "none"
    PROVE  IInv'
<1>0. TypeOK /\ Safe(i) /\ store[i] # None /\ store[i] \in InstanceRec /\ new # None
  BY NoInstanceAssumption DEF IInv, Safe, Lists, On, TypeOK
<1>1. Off \in TaskRec /\ Off.at = "off"
  BY DEF Off, TaskRec, At, Observation, Nothing, Phases
<1>2. TypeOK' /\ task'[i] = Off
  BY <1>0, <1>1, FaultType DEF TypeOK, Done
<1>3. Only(i)
  BY <1>0 DEF Only, TypeOK, Done
<1>4. \/ store'[i] = store[i]
      \/ Same(i) /\ store'[i] = new
  BY <1>0 DEF TypeOK
<1>5. Lists(i)' /\ Acts(i)'
  BY <1>1, <1>2 DEF Lists, Acts, On
<1>6. Tells(i)'
  BY <1>0, <1>4 DEF Safe, Tells
<1>7. Quiet(i)'
  BY <1>0, <1>1, <1>2, <1>4 DEF Safe, Quiet, On
<1>8. Counts(i)'
  BY <1>0, <1>4 DEF Safe, Counts
<1> QED
  BY <1>2, <1>3, <1>5, <1>6, <1>7, <1>8, OneInstance DEF Safe

\* What the pass saves of an instance.
LEMMA SavesKeep ==
    ASSUME IInv, NEW i \in Instances,
           SavesResult(i) \/ SavesError(i) \/ SavesStatus(i) \/ SaveFails(i)
    PROVE  IInv'
<1>0. /\ TypeOK /\ Safe(i) /\ task[i] \in TaskRec
      /\ task[i].at # "off" /\ Done(i)
      /\ UNCHANGED <<wish, closing, box, intents, starts>> /\ (faults' = faults \/ Fault)
  BY DEF IInv, TypeOK, SavesResult, SavesError, SavesStatus, SaveFails
<1>1. store[i] # None /\ task[i].was # None /\ store[i] \in InstanceRec
  BY <1>0 DEF Safe, Lists, On, TypeOK
<1>2. CASE SavesResult(i)
  <2> DEFINE new == [store[i] EXCEPT !.phase = task[i].phase, !.error = task[i].error]
  <2>1. /\ new \in InstanceRec /\ new.gen = store[i].gen /\ new.req = store[i].req
        /\ new.desired = store[i].desired /\ new.phase = task[i].phase
    BY <1>0, <1>1 DEF InstanceRec, TaskRec
  <2>2. task[i].at = "save" /\ (store' = store \/ (Same(i) /\ store' = [store EXCEPT ![i] = new]))
    BY <1>2 DEF SavesResult, Save
  <2> HIDE DEF new
  <2>3. Same(i) =>
          /\ new.desired = "running" => new.phase \notin {"stopped", "deleted"}
          /\ new.phase = "stopped" => box[i] # "running"
          /\ new.phase = "deleted" => new.desired = "deleted" /\ box[i] = "none"
    BY <1>0, <2>1, <2>2 DEF Same, Safe, Lists, Acts, On
  <2> QED
    BY <1>0, <2>1, <2>2, <2>3, SaveKeeps
<1>3. CASE SavesError(i)
  <2>1. PICK e \in BOOLEAN : Save(i, [store[i] EXCEPT !.error = e])
    BY <1>3, TRUE \in BOOLEAN, Zenon DEF SavesError
  <2> DEFINE new == [store[i] EXCEPT !.error = e]
  <2>2. /\ new \in InstanceRec /\ new.gen = store[i].gen /\ new.req = store[i].req
        /\ new.desired = store[i].desired /\ new.phase = store[i].phase
    BY <1>1 DEF InstanceRec
  <2>3. store' = store \/ (Same(i) /\ store' = [store EXCEPT ![i] = new])
    BY <2>1 DEF Save
  <2> HIDE DEF new
  <2>4. /\ new.desired = "running" => new.phase \notin {"stopped", "deleted"}
        /\ new.phase = "stopped" => box[i] # "running"
        /\ new.phase = "deleted" => new.desired = "deleted" /\ box[i] = "none"
    BY <1>0, <1>1, <2>2 DEF Safe, Tells
  <2> QED
    BY <1>0, <2>2, <2>3, <2>4, SaveKeeps
<1>4. CASE SavesStatus(i)
  <2>1. PICK status \in Status : Save(i, applyAgentStatus(store[i], status))
    BY <1>4 DEF SavesStatus, Status
  <2> DEFINE ph == CASE status \in {"unreachable", "unready"} -> "starting"
                     [] status = "exited" -> "failed"
                     [] OTHER -> "running"
             e == status \in {"unreachable", "exited"}
             d == IF status = "empty" THEN "stopped" ELSE store[i].desired
             new == applyAgentStatus(store[i], status)
  <2>2. ph \in Phases \ {"stopped", "deleted"} /\ e \in BOOLEAN /\ d \in Desired
    BY <1>1, <2>1 DEF Phases, Desired, Status, InstanceRec
  <2>3. new = [store[i] EXCEPT !.phase = ph, !.error = e, !.desired = d]
    BY DEF applyAgentStatus
  <2> HIDE DEF new, ph, e, d
  <2>4. /\ new \in InstanceRec /\ new.gen = store[i].gen /\ new.req = store[i].req
        /\ new.desired = d /\ new.phase = ph
    BY <1>1, <2>2, <2>3 DEF InstanceRec
  <2>5. d = store[i].desired \/ d = "stopped"
    BY DEF d
  <2>6. store' = store \/ (Same(i) /\ store' = [store EXCEPT ![i] = new])
    BY <2>1 DEF Save, new
  <2> QED
    BY <1>0, <2>2, <2>4, <2>5, <2>6, SaveKeeps
<1>5. CASE SaveFails(i)
  <2>1. UNCHANGED store
    BY <1>5 DEF SaveFails
  <2>2. Same(i) =>
          /\ store[i].desired = "running" => store[i].phase \notin {"stopped", "deleted"}
          /\ store[i].phase = "stopped" => box[i] # "running"
          /\ store[i].phase = "deleted" => store[i].desired = "deleted" /\ box[i] = "none"
    BY <1>0, <1>1 DEF Safe, Tells
  <2> QED
    BY <1>0, <1>1, <2>1, <2>2, SaveKeeps
<1> QED
  BY <1>2, <1>3, <1>4, <1>5

-----------------------------------------------------------------------------
(* The host and its containers.                                            *)

\* A container that exits by itself only stops running.
LEMMA ExitKeeps == ASSUME IInv, NEW i \in Instances, ContainerExits(i) PROVE IInv'
<1>0. TypeOK /\ Safe(i)
  BY DEF IInv
<1>1. PICK b \in Exits : box' = [box EXCEPT ![i] = b]
  BY DEF ContainerExits
<1>2. /\ box[i] = "running" /\ b \in Box /\ b # "running"
      /\ UNCHANGED <<store, wish, closing, task, intents, starts, faults>>
  BY DEF ContainerExits, Exits, Box
<1>3. TypeOK' /\ box'[i] = b
  BY <1>0, <1>1, <1>2 DEF TypeOK
<1>4. Safe(i)'
  BY <1>0, <1>2, <1>3 DEF Safe, Lists, Acts, Tells, Quiet, Counts, On
<1>5. Only(i)
  BY <1>0, <1>1, <1>2 DEF Only, TypeOK
<1> QED
  BY <1>3, <1>4, <1>5, OneInstance

\* A restarted controller has no task and is not shutting down; a rebooted host
\* runs no container.
LEMMA RestartKeeps == ASSUME IInv, Crash \/ Reboot PROVE IInv'
<1>0. TypeOK /\ Off \in TaskRec /\ Off.at = "off"
  BY DEF IInv, Off, TaskRec, At, Observation, Nothing, Phases
<1>1. /\ task' = [j \in Instances |-> Off] /\ closing' = FALSE
      /\ UNCHANGED <<store, wish, intents, starts>>
      /\ faults' = faults \/ Fault
      /\ \/ UNCHANGED box
         \/ box' = [j \in Instances |-> IF box[j] \in {"none", "created"} THEN box[j] ELSE "cold"]
  BY DEF Crash, Reboot, Restarted
<1>2. ASSUME NEW j \in Instances
      PROVE  box'[j] \in Box /\ (box'[j] = "running" => box[j] = "running")
             /\ (box[j] = "none" => box'[j] = "none")
  BY <1>0, <1>1 DEF TypeOK, Box
<1>3. TypeOK'
  <2>1. box' \in [Instances -> Box]
    BY <1>0, <1>1, <1>2 DEF TypeOK
  <2>2. closing' \in BOOLEAN
    BY <1>1, Zenon
  <2> QED
    BY <1>0, <1>1, <2>1, <2>2, FaultType DEF TypeOK
<1>4. ASSUME NEW j \in Instances PROVE Safe(j)'
  <2>1. Safe(j) /\ task'[j].at = "off" /\ ~closing'
    BY <1>0, <1>1 DEF IInv
  <2>2. Lists(j)' /\ Acts(j)' /\ Quiet(j)'
    BY <2>1 DEF Lists, Acts, Quiet, On
  <2>3. Tells(j)' /\ Counts(j)'
    BY <1>1, <1>2, <2>1 DEF Safe, Tells, Counts
  <2> QED
    BY <2>2, <2>3 DEF Safe
<1> QED
  BY <1>3, <1>4 DEF IInv

\* Admission closes only over instances that are stopped or gone, and no task
\* that could start one of them is under way.
LEMMA ShutdownKeeps == ASSUME IInv, BeginIdleShutdown PROVE IInv'
<1>1. UNCHANGED <<store, wish, box, task, intents, starts, faults>> /\ InstancesIdle /\ closing' = TRUE
  BY DEF BeginIdleShutdown
<1>2. TypeOK'
  <2>1. closing' \in BOOLEAN
    BY <1>1, Zenon
  <2> QED
    BY <1>1, <2>1 DEF IInv, TypeOK
<1>3. ASSUME NEW j \in Instances PROVE Safe(j)'
  <2>1. Safe(j) /\ (store[j] # None => store[j] \in InstanceRec)
    BY DEF IInv, TypeOK
  <2>2. (Lists(j) /\ Acts(j) /\ Tells(j) /\ Counts(j))'
    BY <1>1, <2>1 DEF Safe, Lists, Acts, Tells, Counts, On
  <2>3. store[j] # None => store[j].phase \in {"stopped", "deleted"} /\ store[j].desired # "running"
    BY <1>1, <2>1 DEF InstancesIdle, InstanceRec, Desired
  <2>4. box[j] # "running"
    BY <2>1, <2>3 DEF Safe, Tells
  <2>5. On(j) => task[j].was.desired # "running"
    BY <2>1, <2>3 DEF Safe, Lists
  <2>6. Quiet(j)'
    BY <1>1, <2>3, <2>4, <2>5 DEF Quiet, On
  <2> QED
    BY <2>2, <2>6 DEF Safe
<1> QED
  BY <1>2, <1>3 DEF IInv

-----------------------------------------------------------------------------
(* The invariant and what follows from it.                                 *)

\* IInv holds initially.
LEMMA IInvInit == Init => IInv
<1> SUFFICES ASSUME Init PROVE IInv
  OBVIOUS
<1>1. Off \in TaskRec /\ Off.at = "off"
  BY DEF Off, TaskRec, At, Observation, Nothing, Phases
<1>2. TypeOK
  <2>1. closing \in BOOLEAN
    BY Zenon DEF Init
  <2> QED
    BY <1>1, <2>1, ControllerAssumption DEF Init, TypeOK, Box
<1>3. ASSUME NEW j \in Instances PROVE Safe(j)
  BY <1>1 DEF Init, Safe, Lists, Acts, Tells, Quiet, Counts, On
<1> QED
  BY <1>2, <1>3 DEF IInv

\* Every step keeps it.
LEMMA IInvNext == IInv /\ [Next]_vars => IInv'
<1> SUFFICES ASSUME IInv, [Next]_vars PROVE IInv'
  OBVIOUS
<1>1. ASSUME NEW i \in Instances, Handle(i) PROVE IInv'
  BY <1>1, CallKeeps, RuntimeKeeps, SavesKeep DEF Handle
<1>2. CASE UNCHANGED vars
  <2>1. TypeOK'
    BY <1>2 DEF IInv, TypeOK, vars
  <2>2. ASSUME NEW j \in Instances PROVE Safe(j)'
    BY <1>2, Frame DEF IInv, vars
  <2> QED
    BY <2>1, <2>2 DEF IInv
<1> QED
  BY <1>1, <1>2, IntentKeeps, ExitKeeps, PassKeeps, ShutdownKeeps, RestartKeeps DEF Next

\* The inductive invariant of the controller holds in every reachable state.
THEOREM ControllerInvariance == Spec => []IInv
  BY IInvInit, IInvNext, PTL DEF Spec

\* The database, the tasks of a pass and the containers keep their types.
THEOREM ControllerTypes == Spec => []TypeOK
<1>1. IInv => TypeOK
  BY DEF IInv
<1> QED
  BY <1>1, ControllerInvariance, PTL

\* Whatever was in flight when a stop was asked for, an instance reported
\* stopped is stopped (reconcileInstance, setDesired).
THEOREM StopIsReal == Spec => []StoppedIsStopped
<1>1. IInv => StoppedIsStopped
  BY DEF IInv, Safe, Tells, StoppedIsStopped
<1> QED
  BY <1>1, ControllerInvariance, PTL

\* A removed instance left no container behind (Reconcile skips it from then on).
THEOREM RemovalIsComplete == Spec => []DeletedIsGone
<1>1. IInv => DeletedIsGone
  BY DEF IInv, Safe, Tells, DeletedIsGone
<1> QED
  BY <1>1, ControllerInvariance, PTL

\* What the database says of an instance at rest is true of its container, for any
\* number of instances, passes in flight and faults (reconcileInstance).
THEOREM RestIsTold == Spec => []RestIsReal
<1>1. StoppedIsStopped /\ DeletedIsGone => RestIsReal
  BY DEF RestIsReal
<1> QED
  BY <1>1, StopIsReal, RemovalIsComplete, PTL

\* Once BeginIdleShutdown has committed, no game runs and none is being started.
THEOREM ShutdownIsQuiet == Spec => []QuietShutdown
<1>1. IInv => QuietShutdown
  BY DEF IInv, Safe, Acts, Quiet, On, QuietShutdown
<1> QED
  BY <1>1, ControllerInvariance, PTL

\* However often the fleet worker repeats a request, it counts once
\* (RequestDesired), so it never undoes a later stop.
THEOREM RequestsCountOnce == Spec => []RetriesAreIdle
<1>1. IInv => RetriesAreIdle
  BY DEF IInv, Safe, Counts, RetriesAreIdle
<1> QED
  BY <1>1, ControllerInvariance, PTL

-----------------------------------------------------------------------------
(* A game is not restarted in a loop.  A container that has been started   *)
(* in a generation is started again in it only when the record of that     *)
(* start was lost, or the host was rebooted under it, and both take a      *)
(* fault: a restart the records still allow is therefore paid for.         *)

\* The records would let a pass that lists j now start it in its generation again.
\* A phase that is about to be saved is not in them yet.
Restartable(j) ==
    /\ store[j] # None /\ store[j].gen = starts[j].gen /\ store[j].desired = "running"
    /\ \/ box[j] = "cold"
       \/ /\ store[j].phase = "queued"
          /\ ~(task[j].at = "save" /\ task[j].was.gen = store[j].gen)

\* The task of j is on its way to such a start.
Restarting(j) ==
    /\ On(j) /\ task[j].was.gen = starts[j].gen /\ task[j].was.desired = "running"
    /\ \/ task[j].at = "listed" /\ (task[j].was.phase = "queued" \/ box[j] = "cold")
       \/ /\ task[j].at = "inspected" /\ ~task[j].obs.running
          /\ task[j].was.phase = "queued" \/ ~task[j].obs.started
       \/ task[j].at = "start"

\* A container that has been started is there until the instance is removed.
Lasts(j) ==
    starts[j].count > 0 =>
        /\ store[j] # None /\ box[j] # "created" /\ task[j].at # "prepared"
        /\ box[j] = "none" => store[j].desired = "deleted"
        /\ box[j] = "none" /\ On(j) => task[j].was.desired = "deleted"
        /\ task[j].at = "inspected" /\ task[j].was.desired = "running" => task[j].obs.exists

Paid(j) ==
    /\ starts[j].count <= 1 + faults
    /\ Restartable(j) \/ Restarting(j) => starts[j].count <= faults

\* Starts are counted for a generation the database has reached.
Dates(j) ==
    /\ store[j] = None => starts[j].gen = 0
    /\ store[j] # None => starts[j].gen <= store[j].gen
    /\ On(j) => starts[j].gen <= task[j].was.gen
    /\ task[j].at = "save" => task[j].phase # "queued"

Spends(j) == Lasts(j) /\ Paid(j) /\ Dates(j)
SInv == IInv /\ \A j \in Instances : Spends(j)

\* What the types say of one instance.
LEMMA SpendTypes ==
    ASSUME IInv, NEW j \in Instances
    PROVE  /\ store[j] # None => store[j] \in InstanceRec /\ store[j].gen \in Nat
           /\ task[j] \in TaskRec /\ box[j] \in Box /\ faults \in Nat
           /\ On(j) => task[j].was \in InstanceRec /\ task[j].was.gen \in Nat
           /\ starts[j].gen \in Nat /\ starts[j].count \in Nat
           /\ Lists(j) /\ Quiet(j)
BY DEF IInv, TypeOK, Safe, Lists, On, TaskRec, InstanceRec

\* An instance nothing happens to stays paid for, also when a fault is counted.
LEMMA SpendsFrame ==
    ASSUME IInv, NEW j \in Instances, Spends(j), faults' = faults \/ Fault,
           store'[j] = store[j], box'[j] = box[j], task'[j] = task[j], starts'[j] = starts[j]
    PROVE  Spends(j)'
<1>1. faults' \in Nat /\ faults' >= faults
  BY SpendTypes DEF Fault
<1>2. Lasts(j)' /\ Dates(j)'
  BY DEF Spends, Lasts, Dates, On
<1>3. Paid(j)'
  BY <1>1, SpendTypes DEF Spends, Paid, Restartable, Restarting, On
<1> QED
  BY <1>2, <1>3 DEF Spends

\* What an intent makes of the records: a first generation, a next one, or no new one.
LEMMA IntentRecords ==
    ASSUME IInv, NEW i \in Instances, Intent(i) \/ Accept(i), NEW j \in Instances
    PROVE  /\ UNCHANGED <<closing, box, task, starts, faults>>
           /\ \/ store'[j] = store[j]
              \/ store[j] = None /\ store'[j] # None /\ store'[j].gen = 1
              \/ /\ store[j] # None /\ store'[j] # None
                 /\ store[j].desired = "deleted" => store'[j].desired = "deleted"
                 /\ \/ store'[j].gen = store[j].gen + 1
                    \/ /\ store'[j].gen = store[j].gen /\ store'[j].desired = store[j].desired
                       /\ store'[j].phase = store[j].phase
<1>0. TypeOK /\ UserIntents \subseteq Desired /\ FleetIntents \subseteq Desired
  BY ControllerAssumption DEF IInv, Desired
<1>1. UNCHANGED <<closing, box, task, starts, faults>>
  BY DEF Intent, Accept, SetDesired, Create, Wish, RequestDesired, CreateRequested
<1>2. ASSUME NEW d \in Desired, NEW q \in Nat, Allowed(i, d), NEW new,
             \/ new = setDesired(store[i], d)
             \/ new = [setDesired(store[i], d) EXCEPT !.req = q]
      PROVE  /\ store[i] # None /\ new # None
             /\ store[i].desired = "deleted" => new.desired = "deleted"
             /\ \/ new.gen = store[i].gen + 1
                \/ /\ new.gen = store[i].gen /\ new.desired = store[i].desired
                   /\ new.phase = store[i].phase
  <2>1. store[i] # None /\ store[i] \in InstanceRec /\ (store[i].desired = "deleted" => d = "deleted")
    BY <1>0, <1>2 DEF Allowed, TypeOK
  <2>2. /\ setDesired(store[i], d) \in InstanceRec /\ setDesired(store[i], d).desired = d
        /\ \/ setDesired(store[i], d) = store[i]
           \/ setDesired(store[i], d).gen = store[i].gen + 1
    BY <2>1, SetDesiredType
  <2> DEFINE set == setDesired(store[i], d)
  <2> HIDE DEF set
  <2>3. /\ set \in InstanceRec /\ set.desired = d
        /\ \/ set = store[i]
           \/ set.gen = store[i].gen + 1
    BY <2>2 DEF set
  <2>4. new \in InstanceRec /\ new.gen = set.gen /\ new.desired = set.desired /\ new.phase = set.phase
    <3>1. new = set \/ new = [set EXCEPT !.req = q]
      BY <1>2 DEF set
    <3> QED
      BY <2>3, <3>1 DEF InstanceRec
  <2> QED
    BY <2>1, <2>3, <2>4, NoInstanceAssumption
<1>3. CASE \E d \in UserIntents : SetDesired(i, d)
  <2>1. PICK d \in UserIntents : SetDesired(i, d)
    BY <1>3
  <2>2. Allowed(i, d) /\ store' = [store EXCEPT ![i] = setDesired(store[i], d)]
        /\ d \in Desired
    BY <1>0, <2>1 DEF SetDesired
  <2>3. j = i => store'[j] = setDesired(store[i], d)
    BY <1>0, <2>2 DEF TypeOK
  <2>4. j # i => store'[j] = store[j]
    BY <1>0, <2>2 DEF TypeOK
  <2> QED
    BY <1>1, <1>2, <2>2, <2>3, <2>4, 0 \in Nat
<1>4. CASE Create(i) \/ CreateRequested(i)
  <2>1. PICK r \in Nat : store[i] = None /\ store' = [store EXCEPT ![i] = Fresh(r)]
    BY <1>0, <1>4 DEF Create, CreateRequested, TypeOK, WishRec
  <2>2. Fresh(r) \in InstanceRec /\ Fresh(r).gen = 1
    BY DEF Fresh, InstanceRec, Desired, Phases
  <2> QED
    BY <1>0, <1>1, <2>1, <2>2, NoInstanceAssumption DEF TypeOK
<1>5. CASE \E d \in FleetIntents : Wish(i, d)
  BY <1>1, <1>5 DEF Wish
<1>6. CASE RequestDesired(i)
  <2> DEFINE d == wish[i].desired
             q == wish[i].req
  <2>1. /\ Allowed(i, d) /\ store' = [store EXCEPT ![i] = [setDesired(store[i], d) EXCEPT !.req = q]]
        /\ d \in Desired /\ q \in Nat
    BY <1>0, <1>6 DEF RequestDesired, TypeOK, WishRec
  <2>2. j = i => store'[j] = [setDesired(store[i], d) EXCEPT !.req = q]
    BY <1>0, <2>1 DEF TypeOK
  <2>3. j # i => store'[j] = store[j]
    BY <1>0, <2>1 DEF TypeOK
  <2> HIDE DEF d, q
  <2> QED
    BY <1>1, <1>2, <2>1, <2>2, <2>3
<1> QED
  BY <1>3, <1>4, <1>5, <1>6 DEF Intent, Accept

\* A new intent is a new generation, of which nothing has been started; what a task
\* still does belongs to the generation it was listed with.
LEMMA IntentSpends ==
    ASSUME SInv, NEW i \in Instances, Intent(i) \/ Accept(i), NEW j \in Instances
    PROVE  Spends(j)'
<1>0. IInv /\ Spends(j)
  BY DEF SInv
<1>1. UNCHANGED <<closing, box, task, starts, faults>>
  BY <1>0, IntentRecords
<1>2. CASE store'[j] = store[j]
  BY <1>0, <1>1, <1>2, SpendsFrame
<1>3. CASE store[j] = None /\ store'[j] # None /\ store'[j].gen = 1
  <2>1. ~On(j) /\ starts[j].count = 0 /\ starts[j].gen = 0
    BY <1>0, <1>3, SpendTypes DEF Spends, Lasts, Dates, Lists
  <2> QED
    BY <1>0, <1>1, <1>3, <2>1, SpendTypes
    DEF Spends, Lasts, Paid, Dates, Restartable, Restarting, On
<1>4. CASE /\ store[j] # None /\ store'[j] # None
           /\ store[j].desired = "deleted" => store'[j].desired = "deleted"
           /\ \/ store'[j].gen = store[j].gen + 1
              \/ /\ store'[j].gen = store[j].gen /\ store'[j].desired = store[j].desired
                 /\ store'[j].phase = store[j].phase
  <2>1. Lasts(j)' /\ Dates(j)'
    BY <1>0, <1>1, <1>4, SpendTypes DEF Spends, Lasts, Dates, On
  <2>2. Paid(j)'
    BY <1>0, <1>1, <1>4, SpendTypes DEF Spends, Paid, Dates, Restartable, Restarting, On
  <2> QED
    BY <2>1, <2>2 DEF Spends
<1> QED
  BY <1>0, <1>2, <1>3, <1>4, IntentRecords

\* A pass that lists an instance may start it only if the records allow it.
LEMMA PassSpends == ASSUME SInv, PassBegins, NEW j \in Instances PROVE Spends(j)'
<1>0. IInv /\ Spends(j) /\ ~On(j) /\ task[j].at = "off"
  BY DEF SInv, PassBegins, On
<1>1. UNCHANGED <<store, wish, closing, box, intents, starts, faults>>
  BY DEF PassBegins
<1>2. \/ task'[j].at = "off"
      \/ store[j] # None /\ task'[j].at = "listed" /\ task'[j].was = store[j]
  BY DEF PassBegins, Off, Listed
<1>3. Lasts(j)' /\ Dates(j)'
  BY <1>0, <1>1, <1>2, SpendTypes DEF Spends, Lasts, Dates, On
<1>4. Paid(j)'
  BY <1>0, <1>1, <1>2, SpendTypes DEF Spends, Paid, Dates, Restartable, Restarting, On
<1> QED
  BY <1>3, <1>4 DEF Spends

\* A crash costs a fault; a host that powered off by itself wanted no game running.
LEMMA RestartSpends == ASSUME SInv, Crash \/ Reboot, NEW j \in Instances PROVE Spends(j)'
<1>0. IInv /\ Spends(j) /\ TypeOK
  BY DEF SInv, IInv
<1>1. /\ task'[j].at = "off" /\ UNCHANGED <<store, wish, intents, starts>>
      /\ Fault \/ (faults' = faults /\ closing)
      /\ box'[j] = box[j] \/ (box'[j] = "cold" /\ box[j] \notin {"none", "created"})
  BY DEF Crash, Reboot, Restarted, Off
<1>2. Lasts(j)' /\ Dates(j)'
  BY <1>0, <1>1, SpendTypes DEF Spends, Lasts, Dates, On
<1>3. Paid(j)'
  <2>1. CASE Fault
    BY <1>0, <1>1, <2>1, SpendTypes DEF Spends, Paid, Fault
  <2>2. CASE faults' = faults /\ closing
    BY <1>0, <1>1, <2>2, SpendTypes DEF Spends, Paid, Quiet, Restartable, Restarting, On
  <2> QED
    BY <1>1, <2>1, <2>2
<1> QED
  BY <1>2, <1>3 DEF Spends

\* What a step of the task of i leaves alone.
Alone(i) ==
    /\ faults' = faults \/ Fault
    /\ \A j \in Instances \ {i} :
         /\ store'[j] = store[j] /\ box'[j] = box[j] /\ task'[j] = task[j]
         /\ starts'[j] = starts[j]

\* A task that goes on, has failed or has a result to save, with its container left
\* alone, restarts nothing it could not restart before.
LEMMA TaskSpends ==
    ASSUME IInv, NEW i \in Instances, Spends(i), On(i), task[i].at # "save",
           faults' = faults \/ Fault,
           store'[i] = store[i], starts'[i] = starts[i], box'[i] = box[i],
           task'[i].was = task[i].was, NEW label \in {"stop", "agent", "failed", "save"},
           task'[i].at = label, label = "save" => task'[i].phase # "queued"
    PROVE  Spends(i)'
<1>1. faults' \in Nat /\ faults' >= faults
  BY SpendTypes DEF Fault
<1>2. Lasts(i)' /\ Dates(i)'
  BY DEF Spends, Lasts, Dates, On
<1>3. Paid(i)'
  BY <1>1, SpendTypes DEF Spends, Paid, Dates, Lists, Restartable, Restarting, On
<1> QED
  BY <1>2, <1>3 DEF Spends

\* Going to a label changes nothing else of the task of i.
LEMMA GotoIs ==
    ASSUME IInv, NEW i \in Instances, NEW label \in At, Goto(i, label)
    PROVE  /\ task'[i].at = label /\ task'[i].was = task[i].was
           /\ task'[i].obs = task[i].obs
           /\ \A j \in Instances \ {i} : task'[j] = task[j]
BY DEF Goto, IInv, TypeOK, TaskRec

\* Nor does a result to be saved, but for what is to be saved.
LEMMA ResultIs ==
    ASSUME IInv, NEW i \in Instances, NEW phase, NEW failure, Result(i, phase, failure)
    PROVE  /\ task'[i].at = "save" /\ task'[i].was = task[i].was /\ task'[i].phase = phase
           /\ \A j \in Instances \ {i} : task'[j] = task[j]
BY DEF Result, IInv, TypeOK, TaskRec

\* As long as a container has not been started there is nothing to pay for.
LEMMA UnstartedSpends ==
    ASSUME IInv, NEW i \in Instances, Spends(i), On(i), starts[i].count = 0,
           store'[i] = store[i], starts'[i] = starts[i], faults' = faults \/ Fault,
           task'[i].was = task[i].was, task'[i].at # "save"
    PROVE  Spends(i)'
<1>1. faults' \in Nat
  BY SpendTypes DEF Fault
<1>2. Lasts(i)'
  BY DEF Lasts
<1>3. Paid(i)'
  BY <1>1 DEF Paid
<1>4. Dates(i)'
  BY DEF Spends, Dates, On
<1> QED
  BY <1>2, <1>3, <1>4 DEF Spends

\* The calls of a task that start nothing and create nothing.
LEMMA CallSpends ==
    ASSUME SInv, NEW i \in Instances,
           \/ MaxRuntime(i) \/ Confirms(i) \/ StopsLate(i) \/ StaysFailed(i) \/ Prepares(i)
    PROVE  Alone(i) /\ Spends(i)'
<1>0. /\ IInv /\ Spends(i) /\ TypeOK /\ task[i].at \in {"listed", "inspected", "stop"} /\ On(i)
      /\ "failed" \in At /\ "stop" \in At /\ UNCHANGED <<box, starts>>
  BY DEF SInv, IInv, MaxRuntime, Takes, Confirms, StopsLate, StaysFailed, Missing, Wanted, Prepares, On, At
<1>1. CASE MaxRuntime(i) /\ store' # store
  <2>1. /\ Result(i, "stopping", FALSE) /\ UNCHANGED faults /\ store[i] # None
        /\ store' = [store EXCEPT ![i].desired = "stopped"] /\ store[i].desired = "running"
    BY <1>0, <1>1, SpendTypes DEF MaxRuntime, Errs, Lists
  <2>2. store'[i].desired = "stopped" /\ store'[i].gen = store[i].gen /\ store'[i] # None
        /\ \A j \in Instances \ {i} : store'[j] = store[j]
    <3> DEFINE rec == [store[i] EXCEPT !.desired = "stopped"]
    <3>1. rec \in InstanceRec /\ rec.desired = "stopped" /\ rec.gen = store[i].gen
      BY <1>0, <2>1, SpendTypes DEF InstanceRec, Desired
    <3>2. store' = [store EXCEPT ![i] = rec]
      BY <2>1
    <3> HIDE DEF rec
    <3> QED
      BY <1>0, <3>1, <3>2, NoInstanceAssumption DEF TypeOK
  <2>3. task'[i].at = "save" /\ task'[i].was = task[i].was /\ task'[i].phase = "stopping"
        /\ \A j \in Instances \ {i} : task'[j] = task[j]
    BY <1>0, <2>1, ResultIs
  <2>4. Lasts(i)' /\ Dates(i)'
    BY <1>0, <2>1, <2>2, <2>3 DEF Spends, Lasts, Dates, On
  <2>5. Paid(i)'
    BY <1>0, <2>1, <2>2, <2>3, SpendTypes DEF Spends, Paid, Restartable, Restarting, On
  <2> QED
    BY <1>0, <2>1, <2>2, <2>3, <2>4, <2>5 DEF Alone, Spends
<1>2. ASSUME UNCHANGED store, NEW phase, NEW failure, Result(i, phase, failure), phase # "queued",
             faults' = faults \/ Fault
      PROVE  Alone(i) /\ Spends(i)'
  BY <1>0, <1>2, ResultIs, TaskSpends DEF Alone
<1>3. ASSUME UNCHANGED store, NEW label \in {"failed", "stop"}, Goto(i, label),
             faults' = faults \/ Fault
      PROVE  Alone(i) /\ Spends(i)'
  <2>1. label \in At
    BY DEF At
  <2>2. task'[i].at = label /\ task'[i].was = task[i].was /\ \A j \in Instances \ {i} : task'[j] = task[j]
    BY <1>0, <1>3, <2>1, GotoIs
  <2> QED
    BY <1>0, <1>3, <2>2, TaskSpends DEF Alone
<1>4. CASE MaxRuntime(i) /\ store' = store
  BY <1>2, <1>3, <1>4 DEF MaxRuntime, Errs
<1>5. CASE Confirms(i)
  BY <1>2, <1>3, <1>5 DEF Confirms
<1>6. CASE StopsLate(i)
  BY <1>3, <1>6 DEF StopsLate
<1>7. CASE StaysFailed(i) \/ Prepares(i)
  BY <1>2, <1>7 DEF StaysFailed, Prepares
<1> QED
  BY <1>1, <1>4, <1>5, <1>6, <1>7

\* A container that is removed, looked at or stopped.
LEMMA LookSpends ==
    ASSUME SInv, NEW i \in Instances,
           Deletes(i) \/ Inspects(i) \/ Stops(i) \/ Prepared(i) \/ Ensures(i)
    PROVE  Alone(i) /\ Spends(i)'
<1>0. /\ IInv /\ Spends(i) /\ TypeOK /\ task[i].at \in {"listed", "inspected", "stop", "prepared"} /\ On(i)
      /\ "failed" \in At /\ "prepared" \in At /\ UNCHANGED <<store, starts>> /\ (faults' = faults \/ Fault)
  BY DEF SInv, IInv, Deletes, Inspects, Stops, Prepared, Ensures, Takes, Missing, Wanted, On, At, Errs
<1>1. faults' \in Nat /\ faults' >= faults
  BY <1>0, SpendTypes DEF Fault
<1>2. CASE Deletes(i)
  <2>1. box' = box \/ box' = [box EXCEPT ![i] = "none"]
    BY <1>2 DEF Deletes
  <2>2. /\ task'[i].was = task[i].was /\ \A j \in Instances \ {i} : task'[j] = task[j]
        /\ task'[i].at = "failed" \/ (task'[i].at = "save" /\ task'[i].phase # "queued")
        /\ task[i].was.desired = "deleted"
    BY <1>0, <1>2, GotoIs, ResultIs DEF Deletes, Errs
  <2>3. store[i].desired = "deleted" /\ box'[i] \in {box[i], "none"}
    BY <1>0, <2>1, <2>2, SpendTypes DEF Lists, TypeOK
  <2>4. Lasts(i)' /\ Dates(i)'
    BY <1>0, <2>2, <2>3 DEF Spends, Lasts, Dates, On
  <2>5. Paid(i)'
    BY <1>0, <1>1, <2>2, <2>3, SpendTypes DEF Spends, Paid, Restartable, Restarting, On
  <2> QED
    BY <1>0, <2>1, <2>2, <2>4, <2>5 DEF Alone, Spends, TypeOK
<1>3. CASE Inspects(i)
  <2>1. CASE Errs(i)
    <3>1. /\ task'[i].at = "failed" /\ task'[i].was = task[i].was
          /\ \A j \in Instances \ {i} : task'[j] = task[j]
          /\ UNCHANGED box /\ task[i].at = "listed"
      BY <1>0, <1>3, <2>1, GotoIs DEF Inspects, Errs, Takes
    <3> QED
      BY <1>0, <3>1, TaskSpends DEF Alone
  <2>2. CASE task' = [task EXCEPT ![i].at = "inspected", ![i].obs = Inspect(box[i])] /\ UNCHANGED faults
    <3>1. /\ task'[i].was = task[i].was /\ \A j \in Instances \ {i} : task'[j] = task[j]
          /\ task'[i].at = "inspected" /\ task'[i].obs = Inspect(box[i]) /\ task[i].at = "listed"
      BY <1>0, <1>3, <2>2, SpendTypes DEF Inspects, Takes, TypeOK, TaskRec
    <3>2. /\ box[i] # "none" => task'[i].obs.exists
          /\ box[i] \in {"running", "exited", "crashed"} => task'[i].obs.started
      <4>1. /\ Inspect(box[i]).exists = (box[i] # "none")
            /\ Inspect(box[i]).started = (box[i] \in {"running", "exited", "crashed"})
        BY DEF Inspect
      <4> QED
        BY <3>1, <4>1, Zenon
    <3>3. UNCHANGED box
      BY <1>3 DEF Inspects
    <3>4. Lasts(i)' /\ Dates(i)'
      BY <1>0, <3>1, <3>2, <3>3 DEF Spends, Lasts, Dates, On
    <3>5. Paid(i)'
      BY <1>0, <1>1, <3>1, <3>2, <3>3, SpendTypes
      DEF Spends, Lasts, Paid, Restartable, Restarting, On, Box
    <3> QED
      BY <1>0, <3>1, <3>3, <3>4, <3>5 DEF Alone, Spends
  <2> QED
    BY <1>3, <2>1, <2>2 DEF Inspects
<1>4. CASE Stops(i)
  <2>1. PICK b \in Exits : box' = box \/ box' = [box EXCEPT ![i] = b]
    BY <1>4 DEF Stops
  <2>2. /\ task'[i].was = task[i].was /\ \A j \in Instances \ {i} : task'[j] = task[j]
        /\ task'[i].at = "failed" \/ (task'[i].at = "save" /\ task'[i].phase # "queued")
        /\ box[i] = "running" /\ task[i].at = "stop"
    BY <1>0, <1>4, GotoIs, ResultIs DEF Stops, Errs
  <2>3. box'[i] \in {box[i], "exited", "crashed"}
    BY <1>0, <2>1 DEF TypeOK, Exits
  <2>4. Lasts(i)' /\ Dates(i)'
    BY <1>0, <2>2, <2>3 DEF Spends, Lasts, Dates, On
  <2>5. Paid(i)'
    BY <1>0, <1>1, <2>2, <2>3, SpendTypes DEF Spends, Paid, Restartable, Restarting, On
  <2> QED
    BY <1>0, <2>1, <2>2, <2>4, <2>5 DEF Alone, Spends, TypeOK
<1>5. CASE Prepared(i)
  <2>1. /\ task'[i].was = task[i].was /\ \A j \in Instances \ {i} : task'[j] = task[j]
        /\ task'[i].at = "prepared" /\ task[i].at = "inspected" /\ ~task[i].obs.exists
        /\ task[i].was.desired = "running" /\ UNCHANGED box
    BY <1>0, <1>5, GotoIs DEF Prepared, Missing, Wanted
  <2>2. starts[i].count = 0
    BY <1>0, <2>1, SpendTypes DEF Spends, Lasts
  <2> QED
    BY <1>0, <2>1, <2>2, UnstartedSpends DEF Alone
<1>6. CASE Ensures(i)
  <2> DEFINE b == IF box[i] = "none" THEN "created" ELSE box[i]
  <2>1. box' = box \/ box' = [box EXCEPT ![i] = b]
    BY <1>6 DEF Ensures
  <2>2. /\ task'[i].was = task[i].was /\ \A j \in Instances \ {i} : task'[j] = task[j]
        /\ task'[i].at \in {"failed", "inspected"}
    <3>1. CASE Errs(i)
      BY <1>0, <3>1, GotoIs DEF Errs
    <3>2. CASE task' = [task EXCEPT ![i].at = "inspected", ![i].obs = Inspect(b)]
      BY <1>0, <3>2, SpendTypes DEF TypeOK, TaskRec
    <3> QED
      BY <1>6, <3>1, <3>2 DEF Ensures
  <2>3. starts[i].count = 0
    BY <1>0, <1>6, SpendTypes DEF Spends, Lasts, Ensures
  <2>4. Spends(i)'
    BY <1>0, <2>2, <2>3, UnstartedSpends
  <2> QED
    BY <1>0, <2>1, <2>2, <2>4 DEF Alone, TypeOK
<1> QED
  BY <1>2, <1>3, <1>4, <1>5, <1>6

\* The decision to start a container, which the records of an earlier start forbid.
LEMMA DecideSpends ==
    ASSUME SInv, NEW i \in Instances, Decides(i) PROVE Alone(i) /\ Spends(i)'
<1>0. /\ IInv /\ Spends(i) /\ task[i].at = "inspected" /\ On(i) /\ task[i].was.desired = "running"
      /\ "start" \in At /\ "agent" \in At /\ UNCHANGED <<store, box, starts, faults>>
  BY DEF SInv, Decides, Wanted, On, At
<1>1. CASE task[i].obs.running
  <2>1. task'[i].at = "agent" /\ task'[i].was = task[i].was /\ \A j \in Instances \ {i} : task'[j] = task[j]
    BY <1>0, <1>1, GotoIs DEF Decides
  <2> QED
    BY <1>0, <2>1, TaskSpends DEF Alone
<1>2. CASE ~task[i].obs.running /\ task[i].was.phase # "queued" /\ task[i].obs.started
  <2>1. /\ task'[i].at = "save" /\ task'[i].phase = "failed" /\ task'[i].was = task[i].was
        /\ \A j \in Instances \ {i} : task'[j] = task[j]
    <3>1. Result(i, "failed", TRUE)
      BY <1>2 DEF Decides
    <3> QED
      BY <1>0, <3>1, ResultIs
  <2> QED
    BY <1>0, <2>1, TaskSpends DEF Alone
<1>3. CASE ~task[i].obs.running /\ ~(task[i].was.phase # "queued" /\ task[i].obs.started)
  <2>1. task'[i].at = "start" /\ task'[i].was = task[i].was /\ \A j \in Instances \ {i} : task'[j] = task[j]
    BY <1>0, <1>3, GotoIs DEF Decides
  <2>2. Lasts(i)' /\ Dates(i)'
    BY <1>0, <2>1 DEF Spends, Lasts, Dates, On
  <2>3. Paid(i)'
    BY <1>0, <1>3, <2>1 DEF Spends, Paid, Restartable, Restarting, On
  <2> QED
    BY <1>0, <2>1, <2>2, <2>3 DEF Alone, Spends
<1> QED
  BY <1>1, <1>2, <1>3

\* A start is counted in the generation it is made for: the first one of it is free, a
\* second one has been paid for before.
LEMMA StartSpends ==
    ASSUME SInv, NEW i \in Instances, Starts(i) PROVE Alone(i) /\ Spends(i)'
<1>0. /\ IInv /\ Spends(i) /\ TypeOK /\ task[i].at = "start" /\ On(i) /\ task[i].was.desired = "running"
      /\ "failed" \in At /\ UNCHANGED store /\ (faults' = faults \/ Fault)
  BY DEF SInv, IInv, Safe, Acts, Starts, On, At, Errs
<1>1. /\ task'[i].was = task[i].was /\ \A j \in Instances \ {i} : task'[j] = task[j]
      /\ \/ task'[i].at = "failed" /\ Fault
         \/ task'[i].at = "save" /\ task'[i].phase = "starting" /\ faults' = faults
  BY <1>0, GotoIs, ResultIs DEF Starts, Errs
<1>2. CASE UNCHANGED <<box, starts>>
  BY <1>0, <1>1, <1>2, TaskSpends DEF Alone
<1>3. CASE /\ box' = [box EXCEPT ![i] = "running"]
           /\ starts' = [starts EXCEPT ![i] =
                  [gen |-> task[i].was.gen,
                   count |-> IF @.gen = task[i].was.gen THEN @.count + 1 ELSE 1]]
  <2>1. /\ box'[i] = "running" /\ starts'[i].gen = task[i].was.gen
        /\ starts'[i].count = IF starts[i].gen = task[i].was.gen THEN starts[i].count + 1 ELSE 1
        /\ \A j \in Instances \ {i} : box'[j] = box[j] /\ starts'[j] = starts[j]
    BY <1>0, <1>3 DEF TypeOK
  <2>2. starts[i].gen = task[i].was.gen => starts[i].count <= faults
    BY <1>0 DEF Spends, Paid, Restarting
  <2>3. starts'[i].count \in Nat /\ starts'[i].count <= 1 + faults /\ faults \in Nat
    BY <1>0, <2>1, <2>2, SpendTypes
  <2>4. store[i] # None /\ task[i].was.gen <= store[i].gen
    BY <1>0, SpendTypes DEF Lists
  <2>5. Lasts(i)' /\ Dates(i)'
    BY <1>0, <1>1, <2>1, <2>4, SpendTypes DEF Lasts, Dates, On
  <2>6. Paid(i)'
    BY <1>0, <1>1, <2>1, <2>3, <2>4 DEF Paid, Restartable, Restarting, On, Fault
  <2> QED
    BY <1>0, <1>1, <2>1, <2>5, <2>6 DEF Alone, Spends
<1> QED
  BY <1>2, <1>3 DEF Starts

\* What is saved ends the phase a start was made in; what is lost costs a fault.
LEMMA SaveSpends ==
    ASSUME SInv, NEW i \in Instances,
           SavesResult(i) \/ SavesError(i) \/ SavesStatus(i) \/ SaveFails(i)
    PROVE  Alone(i) /\ Spends(i)'
<1>0. /\ IInv /\ Spends(i) /\ TypeOK /\ On(i) /\ Done(i) /\ store[i] # None /\ store[i] \in InstanceRec
      /\ UNCHANGED <<box, starts>> /\ (faults' = faults \/ Fault)
  BY SpendTypes DEF SInv, IInv, SavesResult, SavesError, SavesStatus, SaveFails, On, Lists
<1>1. task'[i].at = "off" /\ \A j \in Instances \ {i} : task'[j] = task[j]
  BY <1>0 DEF TypeOK, Done, Off
<1>2. ASSUME NEW new \in InstanceRec, new.gen = store[i].gen,
             new.desired = store[i].desired \/ new.desired = "stopped",
             Same(i) /\ store[i].desired = "deleted" => new.desired = "deleted",
             new.phase = "queued" => store[i].phase = "queued" /\ task[i].at # "save",
             Save(i, new)
      PROVE  Alone(i) /\ Spends(i)'
  <2>1. \/ store' = store /\ ~Same(i)
        \/ store' = [store EXCEPT ![i] = new] /\ Same(i)
    BY <1>2 DEF Save
  <2>2. CASE store' = store /\ ~Same(i)
    <3>1. store'[i] = store[i] /\ (task[i].was.gen # store[i].gen)
      BY <2>2 DEF Same
    <3>2. Lasts(i)' /\ Dates(i)'
      BY <1>0, <1>1, <3>1 DEF Spends, Lasts, Dates, On
    <3>3. Paid(i)'
      BY <1>0, <1>1, <3>1, SpendTypes DEF Spends, Paid, Restartable, Restarting, On, Fault
    <3> QED
      BY <1>0, <1>1, <2>2, <3>2, <3>3 DEF Alone, Spends
  <2>3. CASE store' = [store EXCEPT ![i] = new] /\ Same(i)
    <3>1. store'[i] = new /\ new # None /\ \A j \in Instances \ {i} : store'[j] = store[j]
      BY <1>0, <2>3, NoInstanceAssumption DEF TypeOK
    <3>2. Lasts(i)' /\ Dates(i)'
      BY <1>0, <1>1, <1>2, <2>3, <3>1 DEF Spends, Lasts, Dates, On
    <3>3. Paid(i)'
      BY <1>0, <1>1, <1>2, <3>1, SpendTypes DEF Spends, Paid, Restartable, Restarting, On, Fault
    <3> QED
      BY <1>0, <1>1, <3>1, <3>2, <3>3 DEF Alone, Spends
  <2> QED
    BY <2>1, <2>2, <2>3
<1>3. CASE SavesResult(i)
  <2> DEFINE new == [store[i] EXCEPT !.phase = task[i].phase, !.error = task[i].error]
  <2>1. /\ new \in InstanceRec /\ new.gen = store[i].gen
        /\ new.desired = store[i].desired /\ new.phase = task[i].phase
    BY <1>0, SpendTypes DEF InstanceRec, TaskRec
  <2>2. task[i].at = "save" /\ Save(i, new)
    BY <1>3 DEF SavesResult
  <2> HIDE DEF new
  <2>3. task[i].phase # "queued"
    BY <1>0, <2>2 DEF Spends, Dates
  <2> QED
    BY <1>2, <2>1, <2>2, <2>3
<1>4. CASE SavesError(i)
  <2>1. PICK e \in BOOLEAN : Save(i, [store[i] EXCEPT !.error = e])
    BY <1>4, TRUE \in BOOLEAN, Zenon DEF SavesError
  <2> DEFINE new == [store[i] EXCEPT !.error = e]
  <2>2. /\ new \in InstanceRec /\ new.gen = store[i].gen
        /\ new.desired = store[i].desired /\ new.phase = store[i].phase
    BY <1>0 DEF InstanceRec
  <2>3. Save(i, new)
    BY <2>1
  <2> HIDE DEF new
  <2>4. task[i].at = "failed"
    BY <1>4 DEF SavesError
  <2> QED
    BY <1>2, <2>2, <2>3, <2>4
<1>5. CASE SavesStatus(i)
  <2>1. PICK status \in Status : Save(i, applyAgentStatus(store[i], status))
    BY <1>5 DEF SavesStatus, Status
  <2> DEFINE ph == CASE status \in {"unreachable", "unready"} -> "starting"
                     [] status = "exited" -> "failed"
                     [] OTHER -> "running"
             e == status \in {"unreachable", "exited"}
             d == IF status = "empty" THEN "stopped" ELSE store[i].desired
             new == applyAgentStatus(store[i], status)
  <2>2. ph \in Phases \ {"queued"} /\ e \in BOOLEAN /\ d \in Desired
    BY <1>0, <2>1 DEF Phases, Desired, Status, InstanceRec
  <2>3. new = [store[i] EXCEPT !.phase = ph, !.error = e, !.desired = d]
    BY DEF applyAgentStatus
  <2>4. d = store[i].desired \/ d = "stopped"
    OBVIOUS
  <2>5. task[i].at = "agent" /\ Save(i, new)
    BY <1>5, <2>1 DEF SavesStatus
  <2> HIDE DEF new, ph, e, d
  <2>6. /\ new \in InstanceRec /\ new.gen = store[i].gen
        /\ new.desired = d /\ new.phase = ph
    BY <1>0, <2>2, <2>3 DEF InstanceRec
  <2>7. Same(i) => store[i].desired # "deleted"
    BY <1>0, <2>5 DEF IInv, Safe, Acts, Lists, On, Same
  <2> QED
    BY <1>2, <2>2, <2>4, <2>5, <2>6, <2>7
<1>6. CASE SaveFails(i)
  <2>1. Fault /\ UNCHANGED store
    BY <1>6 DEF SaveFails
  <2>2. Lasts(i)' /\ Dates(i)'
    BY <1>0, <1>1, <2>1 DEF Spends, Lasts, Dates, On
  <2>3. Paid(i)'
    BY <1>0, <2>1, SpendTypes DEF Spends, Paid, Fault
  <2> QED
    BY <1>0, <1>1, <2>1, <2>2, <2>3 DEF Alone, Spends
<1> QED
  BY <1>3, <1>4, <1>5, <1>6

\* Every step keeps what has been paid for.
LEMMA SInvNext == SInv /\ [Next]_vars => SInv'
<1> SUFFICES ASSUME SInv, [Next]_vars PROVE SInv'
  OBVIOUS
<1>0. IInv /\ TypeOK /\ IInv'
  BY IInvNext DEF SInv, IInv
<1>1. ASSUME NEW i \in Instances, Handle(i), NEW j \in Instances PROVE Spends(j)'
  <2>1. Alone(i) /\ Spends(i)'
    BY <1>1, CallSpends, LookSpends, DecideSpends, StartSpends, SaveSpends DEF Handle
  <2>2. CASE j # i
    BY <1>0, <2>1, <2>2, SpendsFrame DEF Alone, SInv
  <2> QED
    BY <2>1, <2>2
<1>2. ASSUME NEW i \in Instances, ContainerExits(i), NEW j \in Instances PROVE Spends(j)'
  <2>1. PICK b \in Exits : box' = [box EXCEPT ![i] = b] /\ box[i] = "running"
    BY <1>2 DEF ContainerExits
  <2>2. UNCHANGED <<store, task, starts, faults>> /\ Spends(j)
    BY <1>2 DEF ContainerExits, SInv
  <2>3. box'[j] = box[j] \/ (box[j] = "running" /\ box'[j] \in {"exited", "crashed"})
    BY <1>0, <2>1 DEF TypeOK, Exits
  <2>4. Lasts(j)' /\ Dates(j)'
    BY <2>2, <2>3 DEF Spends, Lasts, Dates, On
  <2>5. Paid(j)'
    BY <2>2, <2>3 DEF Spends, Paid, Restartable, Restarting, On
  <2> QED
    BY <2>4, <2>5 DEF Spends
<1>3. ASSUME BeginIdleShutdown \/ UNCHANGED vars, NEW j \in Instances PROVE Spends(j)'
  BY <1>0, <1>3, SpendsFrame DEF BeginIdleShutdown, vars, SInv
<1>4. \A j \in Instances : Spends(j)'
  <2> SUFFICES ASSUME NEW j \in Instances PROVE Spends(j)'
    OBVIOUS
  <2>1. CASE \E i \in Instances : Intent(i) \/ Accept(i)
    BY <2>1, IntentSpends
  <2>2. CASE PassBegins \/ Crash \/ Reboot
    BY <2>2, PassSpends, RestartSpends
  <2>3. CASE \E i \in Instances : Handle(i)
    BY <1>1, <2>3
  <2>4. CASE \E i \in Instances : ContainerExits(i)
    BY <1>2, <2>4
  <2>5. CASE BeginIdleShutdown \/ UNCHANGED vars
    BY <1>3, <2>5
  <2> QED
    BY <2>1, <2>2, <2>3, <2>4, <2>5 DEF Next
<1> QED
  BY <1>0, <1>4 DEF SInv

\* One intent starts a container once, and once more only for a failed call, a crash or
\* a reboot, for any number of instances, intents and faults (reconcileInstance: "A
\* crashed game needs an explicit stop/start, not an endless restart loop").
THEOREM CrashesAreFinal == Spec => []NoRestartLoop
<1>1. Init => SInv
  <2> SUFFICES ASSUME Init, NEW j \in Instances PROVE Spends(j)
    BY IInvInit DEF SInv
  <2>1. /\ store[j] = None /\ task[j].at = "off" /\ starts[j].gen = 0 /\ starts[j].count = 0
        /\ faults = 0
    BY DEF Init, Off
  <2> QED
    BY <2>1 DEF Spends, Lasts, Paid, Dates, On
<1>2. SInv => NoRestartLoop
  BY DEF SInv, Spends, Paid, NoRestartLoop
<1> QED
  BY <1>1, <1>2, SInvNext, PTL DEF Spec
=============================================================================

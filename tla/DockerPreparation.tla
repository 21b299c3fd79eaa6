-------------------------- MODULE DockerPreparation --------------------------
(***************************************************************************)
(* The Docker provider fetches the image and the assets of a game in the   *)
(* background, one game at a time, while the controller asks again and     *)
(* again whether they are there (internal/control/docker_prepare.go).  A   *)
(* job that failed is tried again for a start that is younger than it.     *)
(*                                                                         *)
(* Instances of one game share its job.  Docker and the asset store are    *)
(* external: what they answer is chosen freely.                            *)
(***************************************************************************)
EXTENDS Integers, FiniteSets

CONSTANTS
    Instances,
    Game,       \* the game of each
    MaxStarts,  \* bound: starts of all instances
    MaxTime     \* bound: readings of the clock

ASSUME PrepareAssumption ==
    /\ IsFiniteSet(Instances) /\ DOMAIN Game = Instances
    /\ MaxStarts \in Nat /\ MaxTime \in Nat \ {0}

VARIABLES
    hasAssets, \* the provider was made with a store of assets (PrepareAssets)
    job,      \* per game, its preparation
    images,   \* games whose image Docker has
    instance, \* per instance, its start and what the controller made of it
    now,
    service,  \* "open", "closing" (downloads are cancelled) or "closed"
    attempts  \* history: per game, jobs begun

prepareVars == <<hasAssets, job, images, instance, now, service, attempts>>

Games == {Game[i] : i \in Instances}
Job == [st : {"none", "waits", "looks", "pulls", "fetches", "done"},
        started : 0..MaxTime, assets : BOOLEAN, err : BOOLEAN]
NoJob == [st |-> "none", started |-> 0, assets |-> FALSE, err |-> FALSE]
\* failed: the time of what it failed of, 0 while it did not.
Instance == [st : {"stopped", "queued", "preparing", "ready", "failed"},
             startedAt : 0..MaxTime, starts : 0..MaxStarts, failed : 0..MaxTime]

PrepareInit ==
    /\ hasAssets \in BOOLEAN
    /\ job = [g \in Games |-> NoJob]
    /\ images \in SUBSET Games
    /\ instance = [i \in Instances |->
                     [st |-> "stopped", startedAt |-> 0, starts |-> 0, failed |-> 0]]
    /\ now = 1 /\ service = "open"
    /\ attempts = [g \in Games |-> 0]

-----------------------------------------------------------------------------
(* The controller.                                                         *)

StartsOf(S) == Cardinality({p \in S \X (1..MaxStarts) : p[2] <= instance[p[1]].starts})
\* A player starts the instance, again after a failure.
Starts(i) ==
    /\ instance[i].st \in {"stopped", "ready", "failed"} /\ StartsOf(Instances) < MaxStarts
    /\ instance' = [instance EXCEPT ![i].st = "queued", ![i].startedAt = now,
                                    ![i].starts = @ + 1, ![i].failed = 0]
    /\ UNCHANGED <<job, images, now, service, attempts>>
Says(i, st) == instance' = [instance EXCEPT ![i].st = st]
\* Prepare asks for instances that are to run and did not fail; a stop or a deletion
\* ends that.
Asks(i) == service = "open" /\ instance[i].st \in {"queued", "preparing"}
Stops(i) ==
    /\ instance[i].st \in {"queued", "preparing"} /\ Says(i, "stopped")
    /\ UNCHANGED <<job, images, now, service, attempts>>

Working(g) == job[g].st \notin {"none", "done"}
Ended(g) == job[g].st = "done"
\* Mutant of Younger: a start at the very time of the job is.
MutYounger(i, j) == instance[i].startedAt >= j.started
\* The start was saved after the job had begun.
Younger(i, j) == instance[i].startedAt > j.started
PrepareIsReady(i) ==
    LET g == Game[i]
    IN  /\ Asks(i)
        /\ \/ Ended(g) /\ ~job[g].err
           \/ job[g] = NoJob /\ ~hasAssets /\ g \in images
        /\ Says(i, "ready")
        /\ UNCHANGED <<job, images, now, service, attempts>>
\* Mutant of PrepareFails: the failure is everybody's.
MutPrepareFails(i) ==
    LET g == Game[i]
    IN  /\ Asks(i) /\ Ended(g) /\ job[g].err
        /\ instance' = [instance EXCEPT ![i].st = "failed", ![i].failed = job[g].started]
        /\ UNCHANGED <<job, images, now, service, attempts>>
PrepareFails(i) ==
    LET g == Game[i]
    IN  /\ Asks(i)
        /\ \/ /\ Ended(g) /\ job[g].err /\ ~Younger(i, job[g])
              /\ instance' = [instance EXCEPT ![i].st = "failed", ![i].failed = job[g].started]
           \/ \* Docker does not say whether it has the image, or the pass has ended
              /\ job[g] # NoJob \/ ~hasAssets
              /\ instance' = [instance EXCEPT ![i].st = "failed", ![i].failed = now]
        /\ UNCHANGED <<job, images, now, service, attempts>>
PrepareWaits(i) ==
    /\ Asks(i) /\ Working(Game[i])
    /\ Says(i, "preparing")
    /\ UNCHANGED <<job, images, now, service, attempts>>
PrepareBegins(i) ==
    LET g == Game[i]
    IN  /\ Asks(i)
        /\ \/ job[g] = NoJob /\ (hasAssets \/ g \notin images)
           \/ Ended(g) /\ job[g].err /\ Younger(i, job[g])
        /\ job' = [job EXCEPT ![g] = [st |-> "waits", started |-> now, assets |-> FALSE, err |-> FALSE]]
        /\ attempts' = [attempts EXCEPT ![g] = @ + 1]
        /\ Says(i, "preparing")
        /\ UNCHANGED <<images, now, service>>

-----------------------------------------------------------------------------
(* The goroutine of a job.                                                 *)

HasSlot(g) == job[g].st \in {"looks", "pulls", "fetches"}
Fails(g) == [job[g] EXCEPT !.st = "done", !.err = TRUE]
\* Mutant of TakesSlot: as many at a time as there are games.
MutTakesSlot(g) ==
    /\ job[g].st = "waits"
    /\ job' = [job EXCEPT ![g].st = "looks"]
    /\ UNCHANGED <<images, instance, now, service, attempts>>
TakesSlot(g) ==
    /\ job[g].st = "waits" /\ \A other \in Games : ~HasSlot(other)
    /\ job' = [job EXCEPT ![g].st = "looks"]
    /\ UNCHANGED <<images, instance, now, service, attempts>>
\* Its time is over, or the provider closes.
Expires(g) ==
    /\ Working(g)
    /\ job' = [job EXCEPT ![g] = Fails(g)]
    /\ UNCHANGED <<images, instance, now, service, attempts>>
\* The image is there: what else the game needs.
Onward(g) == [job[g] EXCEPT !.st = IF hasAssets THEN "fetches" ELSE "done"]
Looks(g) ==
    /\ job[g].st = "looks"
    /\ job' = [job EXCEPT ![g] = IF g \in images THEN Onward(g) ELSE [job[g] EXCEPT !.st = "pulls"]]
    /\ UNCHANGED <<images, instance, now, service, attempts>>
\* Mutant of Pull: an error in the stream of a pull that began well is not noticed.
MutPull == {[image |-> TRUE, err |-> FALSE], [image |-> FALSE, err |-> FALSE]}
\* What a pull may come to: a failure that Docker reports at once, in its stream of
\* progress or not at all, and a context that ended when the image was there.
Pull == {[image |-> TRUE, err |-> FALSE], [image |-> FALSE, err |-> TRUE],
         [image |-> TRUE, err |-> TRUE]}
Pulls(g) ==
    /\ job[g].st = "pulls"
    /\ \E p \in Pull :
         /\ images' = IF p.image THEN images \cup {g} ELSE images
         /\ job' = [job EXCEPT ![g] = IF p.err THEN Fails(g) ELSE Onward(g)]
    /\ UNCHANGED <<instance, now, service, attempts>>
Fetches(g) ==
    /\ job[g].st = "fetches"
    /\ job' = [job EXCEPT ![g].st = "done", ![g].assets = TRUE]
    /\ UNCHANGED <<images, instance, now, service, attempts>>

-----------------------------------------------------------------------------
(* The end of the provider, and time.                                      *)

\* The controller has ended and asks no more.
Close ==
    /\ service = "open" /\ service' = "closing"
    /\ UNCHANGED <<job, images, instance, now, attempts>>
\* Mutant of Closed: the jobs are cancelled and not waited for.
MutClosed ==
    /\ service = "closing" /\ service' = "closed"
    /\ UNCHANGED <<job, images, instance, now, attempts>>
Closed ==
    /\ service = "closing" /\ service' = "closed"
    /\ \A g \in Games : ~Working(g)
    /\ UNCHANGED <<job, images, instance, now, attempts>>
Tick ==
    /\ now < MaxTime /\ now' = now + 1
    /\ UNCHANGED <<job, images, instance, service, attempts>>

PrepareNext ==
    /\ UNCHANGED hasAssets
    /\ \/ \E i \in Instances :
            \/ Starts(i) \/ Stops(i)
            \/ PrepareIsReady(i) \/ PrepareFails(i) \/ PrepareWaits(i) \/ PrepareBegins(i)
       \/ \E g \in Games : TakesSlot(g) \/ Expires(g) \/ Looks(g) \/ Pulls(g) \/ Fetches(g)
       \/ Close \/ Closed \/ Tick

PrepareSpec == PrepareInit /\ [][PrepareNext]_prepareVars

-----------------------------------------------------------------------------
(* Properties.                                                             *)

\* Every variable holds a value of its kind.
PrepareTypes ==
    /\ hasAssets \in BOOLEAN
    /\ job \in [Games -> Job] /\ images \subseteq Games
    /\ instance \in [Instances -> Instance] /\ now \in 1..MaxTime
    /\ service \in {"open", "closing", "closed"} /\ attempts \in [Games -> Nat]

\* A start fails of an attempt made for it or after it, never of one that was failing
\* when it was saved, although instances of a game share their jobs.
FailureIsOwn ==
    \A i \in Instances : instance[i].st = "failed" => instance[i].failed >= instance[i].startedAt

\* A failure is not tried again until somebody starts the game again, however often
\* the controller asks and whichever instance asks first.
NoRetryLoop ==
    \A g \in Games : attempts[g] <= StartsOf({i \in Instances : Game[i] = g})

\* An instance that goes on to its container has its image, and the directory of its
\* assets is known.
ReadyIsUsable ==
    \A i \in Instances : instance[i].st = "ready" =>
        /\ Game[i] \in images
        /\ hasAssets => Ended(Game[i]) /\ job[Game[i]].assets

\* Games are prepared one at a time, and none any more when Close has returned and
\* the controller lets go of its database.
OneAtATime ==
    /\ \A g, h \in Games : HasSlot(g) /\ HasSlot(h) => g = h
    /\ service = "closed" => \A g \in Games : ~Working(g)

\* What Prepare says is so: a start that is told to go on has its image and assets, one
\* that is told it has failed failed of an attempt made for it or after it, and a
\* failure is tried again for a new start only.  Games are prepared one at a time, and
\* none any more once Close has returned (control/docker_prepare.go).
PrepareIsTrue == ReadyIsUsable /\ FailureIsOwn /\ NoRetryLoop /\ OneAtATime
=============================================================================

------------------------------ MODULE AsyncPut ------------------------------
(* cache.AsyncPutCache around cache.S3Cache: Put and PutFile in background    *)
(* goroutines, at most Capacity of them, and WaitContext, which drains them.  *)
(*                                                                            *)
(* A job is one invocation of Put or PutFile.  PutFile uploads a temporary    *)
(* file that the caller made, and owns the file from the moment it is called; *)
(* Put uploads a buffered body and has no file.  A job goes through           *)
(*                                                                            *)
(*   none -> prepared -> acquired -> counted -> running -> uploaded           *)
(*        -> settled -> cleaned -> uncounted -> released -> done              *)
(*                                                                            *)
(* or leaves it at "discarded" (the caller fails before PutFile), "rejected"  *)
(* and "dropped" (the pool is full).  PutFile returns nil at "running" and at *)
(* "dropped"; from "running" on the job is a goroutine, whose deferred calls  *)
(* are the steps from "settled" to "done".                                    *)
EXTENDS Integers, FiniteSets

CONSTANTS
    Jobs,         \* invocations of Put and PutFile
    FileJobs,     \* those of PutFile
    Keys,
    KeyOf,        \* the cache key of each
    Capacity,     \* maxConcurrency
    None          \* "no object"

ASSUME JobsAssumption == IsFiniteSet(Jobs) /\ FileJobs \subseteq Jobs
ASSUME JobKeysAssumption == KeyOf \in [Jobs -> Keys]
ASSUME CapacityAssumption == Capacity \in Nat
ASSUME NoObjectAssumption == None \notin Jobs

VARIABLES
    job,          \* where each job is
    sem,          \* len(a.sem)
    gauge,        \* the metric async_cache_put_inflight
    wg,           \* the counter of a.wg
    files,        \* the temporary files that exist
    store,        \* the S3 bucket: the job each object comes from
    drain,        \* where the call of WaitContext is
    owed          \* history: the jobs in the background when WaitContext began

putVars == <<job, sem, gauge, wg, files, store, drain, owed>>

Holding  == {"acquired", "counted", "running", "uploaded", "settled", "cleaned", "uncounted"}
Gauged   == {"counted", "running", "uploaded", "settled", "cleaned"}
Launched == {"running", "uploaded", "settled", "cleaned", "uncounted", "released"}
Ended    == {"discarded", "dropped", "done"}
States   == {"none", "prepared", "rejected"} \cup Holding \cup {"released"} \cup Ended

In(S) == {j \in Jobs : job[j] \in S}

TypeOK ==
    /\ job \in [Jobs -> States]
    /\ sem \in Nat /\ gauge \in Nat /\ wg \in Nat
    /\ files \in SUBSET FileJobs
    /\ store \in [Keys -> Jobs \cup {None}]
    /\ drain \in {"idle", "waiting", "woken", "signalled", "drained", "expired", "panicked"}
    /\ owed \in SUBSET Jobs

Init ==
    /\ job = [j \in Jobs |-> "none"]
    /\ sem = 0 /\ gauge = 0 /\ wg = 0
    /\ files = {}
    /\ store = [k \in Keys |-> None]
    /\ drain = "idle" /\ owed = {}

Go(j, from, to) == job[j] = from /\ job' = [job EXCEPT ![j] = to]

(* Faulty variants: a property worth its run fails when one replaces its       *)
(* original.                                                                  *)
RejectEarly(j) ==                     \* drops a put while a slot is free
    /\ sem + 1 >= Capacity
    /\ Go(j, "prepared", IF j \in FileJobs THEN "rejected" ELSE "dropped")
    /\ UNCHANGED <<sem, gauge, wg, files, store, drain, owed>>

DropFileLeaked(j) ==                  \* forgets os.Remove on the way out
    /\ Go(j, "rejected", "dropped")
    /\ UNCHANGED <<sem, gauge, wg, files, store, drain, owed>>

LaunchUnannounced(j) ==               \* leaves wg.Add to the goroutine
    /\ Go(j, "counted", "running")
    /\ UNCHANGED <<sem, gauge, wg, files, store, drain, owed>>

DeferRemoveStrict(j) ==               \* cannot go on if S3Cache removed the file
    /\ j \in files
    /\ Go(j, "settled", "cleaned")
    /\ files' = files \ {j}
    /\ UNCHANGED <<sem, gauge, wg, store, drain, owed>>

DeferRemoveNothing(j) ==              \* relies on S3Cache to remove the file
    /\ j \in FileJobs
    /\ Go(j, "settled", "cleaned")
    /\ UNCHANGED <<sem, gauge, wg, files, store, drain, owed>>

DeferDecNothing(j) ==                 \* forgets DecAsyncCachePutInflight
    /\ Go(j, IF j \in FileJobs THEN "cleaned" ELSE "settled", "uncounted")
    /\ UNCHANGED <<sem, gauge, wg, files, store, drain, owed>>

DeferDoneUnheard(j) ==                \* does not wake who waits for zero
    /\ Go(j, "released", "done")
    /\ wg' = wg - 1
    /\ UNCHANGED <<sem, gauge, files, store, drain, owed>>

(* The caller makes the file (or buffers the body) ... *)
Prepare(j) ==
    /\ Go(j, "none", "prepared")
    /\ files' = IF j \in FileJobs THEN files \cup {j} ELSE files
    /\ UNCHANGED <<sem, gauge, wg, store, drain, owed>>

(* ... and removes it again if it fails before it calls PutFile. *)
Discard(j) ==
    /\ Go(j, "prepared", "discarded")
    /\ files' = files \ {j}
    /\ UNCHANGED <<sem, gauge, wg, store, drain, owed>>

(* The select: a slot is free and is taken ... *)
Acquire(j) ==
    /\ sem < Capacity
    /\ Go(j, "prepared", "acquired")
    /\ sem' = sem + 1
    /\ UNCHANGED <<gauge, wg, files, store, drain, owed>>

(* ... or none is, and the put is dropped: PutFile removes the file first. *)
Reject(j) ==
    /\ sem = Capacity
    /\ Go(j, "prepared", IF j \in FileJobs THEN "rejected" ELSE "dropped")
    /\ UNCHANGED <<sem, gauge, wg, files, store, drain, owed>>

DropFile(j) ==
    /\ Go(j, "rejected", "dropped")
    /\ files' = files \ {j}
    /\ UNCHANGED <<sem, gauge, wg, store, drain, owed>>

IncInflight(j) ==
    /\ Go(j, "acquired", "counted")
    /\ gauge' = gauge + 1
    /\ UNCHANGED <<sem, wg, files, store, drain, owed>>

(* wg.Add(1), the go statement, and return nil. *)
Launch(j) ==
    /\ Go(j, "counted", "running")
    /\ wg' = wg + 1
    /\ UNCHANGED <<sem, gauge, files, store, drain, owed>>

(* inner.PutFile or inner.Put succeeds; S3Cache.PutFile removes the file.  It *)
(* needs the file: without it os.Stat fails, and the upload with it.          *)
Upload(j) ==
    /\ j \in FileJobs => j \in files
    /\ Go(j, "running", IF j \in FileJobs THEN "uploaded" ELSE "settled")
    /\ store' = [store EXCEPT ![KeyOf[j]] = j]
    /\ UNCHANGED <<sem, gauge, wg, files, drain, owed>>

S3Remove(j) ==
    /\ Go(j, "uploaded", "settled")
    /\ files' = files \ {j}
    /\ UNCHANGED <<sem, gauge, wg, store, drain, owed>>

(* It fails, or the put timeout ends it: S3 may have stored the object and    *)
(* only the answer be lost.                                                   *)
UploadFails(j) ==
    /\ Go(j, "running", "settled")
    /\ \/ UNCHANGED store
       \/ /\ j \in FileJobs => j \in files
          /\ store' = [store EXCEPT ![KeyOf[j]] = j]
    /\ UNCHANGED <<sem, gauge, wg, files, drain, owed>>

(* The deferred calls of the goroutine, last deferred first.  Put has no      *)
(* os.Remove.                                                                 *)
DeferRemove(j) ==
    /\ j \in FileJobs
    /\ Go(j, "settled", "cleaned")
    /\ files' = files \ {j}
    /\ UNCHANGED <<sem, gauge, wg, store, drain, owed>>

DeferDecInflight(j) ==
    /\ Go(j, IF j \in FileJobs THEN "cleaned" ELSE "settled", "uncounted")
    /\ gauge' = gauge - 1
    /\ UNCHANGED <<sem, wg, files, store, drain, owed>>

DeferRelease(j) ==
    /\ Go(j, "uncounted", "released")
    /\ sem' = sem - 1
    /\ UNCHANGED <<gauge, wg, files, store, drain, owed>>

(* wg.Done: at zero it wakes whoever sleeps in Wait. *)
DeferDone(j) ==
    /\ Go(j, "released", "done")
    /\ wg' = wg - 1
    /\ drain' = IF drain = "waiting" /\ wg = 1 THEN "woken" ELSE drain
    /\ UNCHANGED <<sem, gauge, files, store, owed>>

(* WaitContext.  Its helper goroutine calls wg.Wait, which returns at once    *)
(* when the counter is zero and otherwise sleeps.  Once woken, Wait reads the *)
(* counter again and panics if a new Add has slipped in.  Then the helper     *)
(* closes done, and WaitContext selects between done and its context.         *)
BeginWait ==
    /\ drain = "idle"
    /\ drain' = IF wg = 0 THEN "signalled" ELSE "waiting"
    /\ owed' = In(Launched)
    /\ UNCHANGED <<job, sem, gauge, wg, files, store>>

WakeUp ==
    /\ drain = "woken"
    /\ drain' = IF wg = 0 THEN "signalled" ELSE "panicked"
    /\ UNCHANGED <<job, sem, gauge, wg, files, store, owed>>

ReturnDrained ==
    /\ drain = "signalled"
    /\ drain' = "drained"
    /\ UNCHANGED <<job, sem, gauge, wg, files, store, owed>>

ReturnExpired ==
    /\ drain \in {"waiting", "woken", "signalled"}
    /\ drain' = "expired"
    /\ UNCHANGED <<job, sem, gauge, wg, files, store, owed>>

Alive == drain # "panicked"

Progress(j) == \/ Acquire(j) \/ Reject(j) \/ DropFile(j) \/ IncInflight(j) \/ Launch(j)
               \/ Upload(j) \/ UploadFails(j) \/ S3Remove(j)
               \/ DeferRemove(j) \/ DeferDecInflight(j) \/ DeferRelease(j) \/ DeferDone(j)

Waiting == BeginWait \/ WakeUp \/ ReturnDrained \/ ReturnExpired

Quiescent == /\ \/ ~Alive
                \/ In(Ended) = Jobs /\ drain \in {"drained", "expired"}
             /\ UNCHANGED putVars

Next == \/ Alive /\ \E j \in Jobs : Prepare(j) \/ Discard(j) \/ Progress(j)
        \/ Alive /\ Waiting
        \/ Quiescent

Spec == Init /\ [][Next]_putVars

(* The runtime runs a ready goroutine, and the put timeout ends an upload. *)
Fairness == /\ \A j \in Jobs : WF_putVars(Alive /\ Progress(j))
            /\ WF_putVars(Alive /\ (WakeUp \/ ReturnDrained))

FairSpec == Spec /\ Fairness
-----------------------------------------------------------------------------
(* The gauge is what operators see of the pool, so it is honest under every   *)
(* interleaving: never below the uploads in progress, never above the slots   *)
(* taken, and those never above the pool's capacity.                          *)
GaugeHonest ==
    /\ Cardinality(In({"running", "uploaded"})) <= gauge
    /\ gauge <= sem
    /\ sem <= Capacity

(* A temporary file lives as long as an upload may read it, and not beyond:   *)
(* the upload always finds it, and when a job has ended, dropped, failed or   *)
(* succeeded, no file of it is left on the pod's disk.                        *)
FileLifetime ==
    \A j \in FileJobs :
        /\ job[j] \in {"prepared", "acquired", "counted", "running"} => j \in files
        /\ job[j] \in Ended \cup {"none", "cleaned", "uncounted", "released"} => j \notin files

(* "WaitContext blocks until all in-flight Put goroutines complete": when it  *)
(* returns nil, every put that was in the background when it was called has   *)
(* run to its last step.                                                      *)
DrainHonest == drain \in {"signalled", "drained"} => \A j \in owed : job[j] = "done"

(* The pool of goroutines keeps the promise of PutPool: a put is dropped only *)
(* when Capacity others hold a slot, and nothing but a put that holds one     *)
(* writes an object.                                                          *)
PhaseOf(place) == IF place \in Holding THEN "active"
                  ELSE IF place \in {"released", "done"} THEN "ended"
                  ELSE IF place \in {"rejected", "dropped"} THEN "refused"
                  ELSE "new"

Pool == INSTANCE PutPool WITH
    phase <- [j \in Jobs |-> PhaseOf(job[j])], free <- Capacity - sem

KeepsPool == Pool!Spec

(* A put that is under way ends, and gives back its slot and its file, unless *)
(* the process dies; and WaitContext returns without the help of its deadline *)
(* because nothing it waits for is stuck.                                     *)
EveryPutEnds == \A j \in Jobs : job[j] = "prepared" ~> (job[j] \in Ended \/ ~Alive)

DrainReturns == drain = "waiting" ~> drain \in {"drained", "expired", "panicked"}
=============================================================================

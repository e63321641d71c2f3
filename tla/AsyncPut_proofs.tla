--------------------------- MODULE AsyncPut_proofs ---------------------------
(* Proofs about AsyncPut for any finite set of jobs and any capacity.         *)
EXTENDS AsyncPut, FiniteSetTheorems, TLAPS

USE JobsAssumption, JobKeysAssumption, CapacityAssumption, NoObjectAssumption

(* Each counter counts the jobs at certain places. *)
Accounting ==
    /\ sem = Cardinality(In(Holding))
    /\ gauge = Cardinality(In(Gauged))
    /\ wg = Cardinality(In(Launched))

(* What WaitContext found in the background stays there until it is done.     *)
OwedAreLaunched == \A j \in owed : job[j] \in Launched \cup {"done"}

(* It is woken when all of that is done, and panics when there is more.       *)
OwedAreDone ==
    drain \in {"woken", "signalled", "drained", "panicked"} => \A j \in owed : job[j] = "done"

PanicIsBusy == drain = "panicked" => wg # 0

(* The inductive invariant: no property below is inductive without the counts. *)
IInv == /\ TypeOK
        /\ Accounting
        /\ sem <= Capacity
        /\ FileLifetime
        /\ OwedAreLaunched
        /\ OwedAreDone
        /\ PanicIsBusy

-----------------------------------------------------------------------------
(* What one job's move does to the number of jobs in a set of places. *)
LEMMA CountMove ==
    ASSUME TypeOK, NEW j \in Jobs, NEW to \in States, NEW S,
           job' = [job EXCEPT ![j] = to]
    PROVE  /\ Cardinality(In(S)) \in Nat
           /\ job[j] \notin S /\ to \in S => Cardinality(In(S)') = Cardinality(In(S)) + 1
           /\ job[j] \in S /\ to \notin S =>
                  Cardinality(In(S)') = Cardinality(In(S)) - 1 /\ Cardinality(In(S)) > 0
           /\ (job[j] \in S <=> to \in S) => Cardinality(In(S)') = Cardinality(In(S))
<1>1. IsFiniteSet(In(S)) /\ Cardinality(In(S)) \in Nat
  BY FS_Subset, FS_CardinalityType DEF In
<1>2. \A i \in Jobs : job'[i] = IF i = j THEN to ELSE job[i]
  BY DEF TypeOK
<1>3. ASSUME job[j] \notin S, to \in S
      PROVE  Cardinality(In(S)') = Cardinality(In(S)) + 1
  <2>1. In(S)' = In(S) \cup {j} /\ j \notin In(S)
    BY <1>2, <1>3 DEF In
  <2>2. QED BY <1>1, <2>1, FS_AddElement
<1>4. ASSUME job[j] \in S, to \notin S
      PROVE  Cardinality(In(S)') = Cardinality(In(S)) - 1 /\ Cardinality(In(S)) > 0
  <2>1. In(S)' = In(S) \ {j} /\ j \in In(S)
    BY <1>2, <1>4 DEF In
  <2>2. Cardinality(In(S) \ {j}) = Cardinality(In(S)) - 1
    BY <1>1, <2>1, FS_RemoveElement
  <2>3. In(S) # {}
    BY <2>1
  <2>4. Cardinality(In(S)) # 0
    BY <1>1, <2>3, FS_EmptySet
  <2>5. QED BY <1>1, <2>1, <2>2, <2>4
<1>5. ASSUME job[j] \in S <=> to \in S
      PROVE  Cardinality(In(S)') = Cardinality(In(S))
  <2>1. In(S)' = In(S)
    BY <1>2, <1>5 DEF In
  <2>2. QED BY <2>1
<1>6. QED BY <1>1, <1>3, <1>4, <1>5

(* A set of places no job is at. *)
LEMMA CountZero ==
    ASSUME NEW S, Cardinality(In(S)) = 0
    PROVE  In(S) = {}
<1>1. IsFiniteSet(In(S))
  BY FS_Subset DEF In
<1>2. QED BY <1>1, FS_EmptySet

(* The invariant holds initially. *)
LEMMA InitIInv == Init => IInv
<1> SUFFICES ASSUME Init PROVE IInv
  OBVIOUS
<1>1. In(Holding) = {} /\ In(Gauged) = {} /\ In(Launched) = {}
  BY DEF Init, In, Holding, Gauged, Launched
<1>2. Accounting
  BY <1>1, FS_EmptySet DEF Accounting, Init
<1>3. /\ TypeOK /\ FileLifetime /\ sem <= Capacity
      /\ OwedAreLaunched /\ OwedAreDone /\ PanicIsBusy
  BY DEF Init, TypeOK, States, FileLifetime, OwedAreLaunched, OwedAreDone, PanicIsBusy, Ended
<1>4. QED BY <1>2, <1>3 DEF IInv

(* The counters follow the jobs through every step. *)
LEMMA NextAccounting ==
    ASSUME IInv, Next PROVE Accounting' /\ sem' <= Capacity /\ sem' \in Nat /\ gauge' \in Nat /\ wg' \in Nat
<1> USE DEF IInv, TypeOK
<1> DEFINE Goal == /\ Accounting'
                   /\ sem' <= Capacity /\ sem' \in Nat /\ gauge' \in Nat /\ wg' \in Nat
<1>1. ASSUME NEW j \in Jobs, NEW from, NEW to \in States, Go(j, from, to)
      PROVE  /\ Cardinality(In(Holding)) \in Nat
             /\ from \notin Holding /\ to \in Holding =>
                    Cardinality(In(Holding)') = Cardinality(In(Holding)) + 1
             /\ from \in Holding /\ to \notin Holding =>
                    Cardinality(In(Holding)') = Cardinality(In(Holding)) - 1 /\ sem > 0
             /\ (from \in Holding <=> to \in Holding) =>
                    Cardinality(In(Holding)') = Cardinality(In(Holding))
             /\ Cardinality(In(Gauged)) \in Nat
             /\ from \notin Gauged /\ to \in Gauged =>
                    Cardinality(In(Gauged)') = Cardinality(In(Gauged)) + 1
             /\ from \in Gauged /\ to \notin Gauged =>
                    Cardinality(In(Gauged)') = Cardinality(In(Gauged)) - 1 /\ gauge > 0
             /\ (from \in Gauged <=> to \in Gauged) =>
                    Cardinality(In(Gauged)') = Cardinality(In(Gauged))
             /\ Cardinality(In(Launched)) \in Nat
             /\ from \notin Launched /\ to \in Launched =>
                    Cardinality(In(Launched)') = Cardinality(In(Launched)) + 1
             /\ from \in Launched /\ to \notin Launched =>
                    Cardinality(In(Launched)') = Cardinality(In(Launched)) - 1 /\ wg > 0
             /\ (from \in Launched <=> to \in Launched) =>
                    Cardinality(In(Launched)') = Cardinality(In(Launched))
  <2>1. job[j] = from /\ job' = [job EXCEPT ![j] = to]
    BY <1>1 DEF Go
  <2>2. TypeOK
    OBVIOUS
  <2> HIDE DEF IInv, TypeOK
  <2>3. Accounting
    BY DEF IInv
  <2>4. QED BY <1>1, <2>1, <2>2, <2>3, CountMove DEF Accounting
<1> USE DEF Accounting, States, Holding, Gauged, Launched, Ended
<1>2. ASSUME NEW j \in Jobs, Prepare(j) \/ Discard(j) \/ Progress(j) PROVE Goal
  <2>1. CASE Prepare(j)           BY <2>1, <1>1 DEF Prepare
  <2>2. CASE Discard(j)           BY <2>2, <1>1 DEF Discard
  <2>3. CASE Acquire(j)           BY <2>3, <1>1 DEF Acquire
  <2>4. CASE Reject(j)            BY <2>4, <1>1 DEF Reject
  <2>5. CASE DropFile(j)          BY <2>5, <1>1 DEF DropFile
  <2>6. CASE IncInflight(j)       BY <2>6, <1>1 DEF IncInflight
  <2>7. CASE Launch(j)            BY <2>7, <1>1 DEF Launch
  <2>8. CASE Upload(j)            BY <2>8, <1>1 DEF Upload
  <2>9. CASE UploadFails(j)       BY <2>9, <1>1 DEF UploadFails
  <2>10. CASE S3Remove(j)         BY <2>10, <1>1 DEF S3Remove
  <2>11. CASE DeferRemove(j)      BY <2>11, <1>1 DEF DeferRemove
  <2>12. CASE DeferDecInflight(j) BY <2>12, <1>1 DEF DeferDecInflight
  <2>13. CASE DeferRelease(j)     BY <2>13, <1>1 DEF DeferRelease
  <2>14. CASE DeferDone(j)        BY <2>14, <1>1 DEF DeferDone
  <2>15. QED
    BY <1>2, <2>1, <2>2, <2>3, <2>4, <2>5, <2>6, <2>7, <2>8, <2>9, <2>10, <2>11, <2>12,
       <2>13, <2>14 DEF Progress
<1>3. CASE Waiting
  BY <1>3 DEF Waiting, BeginWait, WakeUp, ReturnDrained, ReturnExpired, In
<1>4. CASE Quiescent
  BY <1>4 DEF Quiescent, putVars, In
<1>5. QED BY <1>2, <1>3, <1>4 DEF Next

(* Every step preserves the types. *)
LEMMA NextTypeOK ==
    ASSUME IInv, Next PROVE TypeOK'
<1>1. sem' \in Nat /\ gauge' \in Nat /\ wg' \in Nat
  BY NextAccounting
<1> USE DEF IInv, TypeOK, Go, States, Holding, Ended
<1>2. ASSUME NEW j \in Jobs, Prepare(j) \/ Discard(j) \/ Progress(j) PROVE TypeOK'
  <2>1. CASE Prepare(j)           BY <1>1, <2>1 DEF Prepare
  <2>2. CASE Discard(j)           BY <1>1, <2>2 DEF Discard
  <2>3. CASE Acquire(j)           BY <1>1, <2>3 DEF Acquire
  <2>4. CASE Reject(j)            BY <1>1, <2>4 DEF Reject
  <2>5. CASE DropFile(j)          BY <1>1, <2>5 DEF DropFile
  <2>6. CASE IncInflight(j)       BY <1>1, <2>6 DEF IncInflight
  <2>7. CASE Launch(j)            BY <1>1, <2>7 DEF Launch
  <2>8. CASE Upload(j)            BY <1>1, <2>8 DEF Upload
  <2>9. CASE UploadFails(j)       BY <1>1, <2>9 DEF UploadFails
  <2>10. CASE S3Remove(j)         BY <1>1, <2>10 DEF S3Remove
  <2>11. CASE DeferRemove(j)      BY <1>1, <2>11 DEF DeferRemove
  <2>12. CASE DeferDecInflight(j) BY <1>1, <2>12 DEF DeferDecInflight
  <2>13. CASE DeferRelease(j)     BY <1>1, <2>13 DEF DeferRelease
  <2>14. CASE DeferDone(j)        BY <1>1, <2>14 DEF DeferDone
  <2>15. QED
    BY <1>2, <2>1, <2>2, <2>3, <2>4, <2>5, <2>6, <2>7, <2>8, <2>9, <2>10, <2>11, <2>12,
       <2>13, <2>14 DEF Progress
<1>3. CASE Waiting
  BY <1>1, <1>3 DEF Waiting, BeginWait, WakeUp, ReturnDrained, ReturnExpired, In
<1>4. CASE Quiescent
  BY <1>1, <1>4 DEF Quiescent, putVars
<1>5. QED BY <1>2, <1>3, <1>4 DEF Next

(* A job's move cannot take the file from under a reader, nor leave one behind. *)
LEMMA NextFileLifetime ==
    ASSUME IInv, Next PROVE FileLifetime'
<1> USE DEF IInv, TypeOK, FileLifetime, Go, Ended
<1>2. ASSUME NEW j \in Jobs, Prepare(j) \/ Discard(j) \/ Progress(j) PROVE FileLifetime'
  <2>1. CASE Prepare(j)           BY <2>1 DEF Prepare
  <2>2. CASE Discard(j)           BY <2>2 DEF Discard
  <2>3. CASE Acquire(j)           BY <2>3 DEF Acquire
  <2>4. CASE Reject(j)            BY <2>4 DEF Reject
  <2>5. CASE DropFile(j)          BY <2>5 DEF DropFile
  <2>6. CASE IncInflight(j)       BY <2>6 DEF IncInflight
  <2>7. CASE Launch(j)            BY <2>7 DEF Launch
  <2>8. CASE Upload(j)            BY <2>8 DEF Upload
  <2>9. CASE UploadFails(j)       BY <2>9 DEF UploadFails
  <2>10. CASE S3Remove(j)         BY <2>10 DEF S3Remove
  <2>11. CASE DeferRemove(j)      BY <2>11 DEF DeferRemove
  <2>12. CASE DeferDecInflight(j) BY <2>12 DEF DeferDecInflight
  <2>13. CASE DeferRelease(j)     BY <2>13 DEF DeferRelease
  <2>14. CASE DeferDone(j)        BY <2>14 DEF DeferDone
  <2>15. QED
    BY <1>2, <2>1, <2>2, <2>3, <2>4, <2>5, <2>6, <2>7, <2>8, <2>9, <2>10, <2>11, <2>12,
       <2>13, <2>14 DEF Progress
<1>3. CASE Waiting
  BY <1>3 DEF Waiting, BeginWait, WakeUp, ReturnDrained, ReturnExpired
<1>4. CASE Quiescent
  BY <1>4 DEF Quiescent, putVars
<1>5. QED BY <1>2, <1>3, <1>4 DEF Next

(* WaitContext is woken or signalled only at a moment when the counter is     *)
(* zero, so when nothing is in the background, and what is done stays done.   *)
LEMMA NextDrain ==
    ASSUME IInv, Next PROVE OwedAreLaunched' /\ OwedAreDone' /\ PanicIsBusy'
<1>1. wg' = 0 => In(Launched)' = {}
  BY NextAccounting, FS_Subset, FS_EmptySet DEF Accounting, In
<1> USE DEF IInv, TypeOK, OwedAreLaunched, OwedAreDone, PanicIsBusy, Go, Launched
<1>2. ASSUME Alive, NEW j \in Jobs, Prepare(j) \/ Discard(j) \/ Progress(j)
      PROVE  OwedAreLaunched' /\ OwedAreDone' /\ PanicIsBusy'
  <2> USE <1>2 DEF Alive
  <2>1. CASE Prepare(j)           BY <2>1 DEF Prepare
  <2>2. CASE Discard(j)           BY <2>2 DEF Discard
  <2>3. CASE Acquire(j)           BY <2>3 DEF Acquire
  <2>4. CASE Reject(j)            BY <2>4 DEF Reject
  <2>5. CASE DropFile(j)          BY <2>5 DEF DropFile
  <2>6. CASE IncInflight(j)       BY <2>6 DEF IncInflight
  <2>7. CASE Launch(j)            BY <2>7 DEF Launch
  <2>8. CASE Upload(j)            BY <2>8 DEF Upload
  <2>9. CASE UploadFails(j)       BY <2>9 DEF UploadFails
  <2>10. CASE S3Remove(j)         BY <2>10 DEF S3Remove
  <2>11. CASE DeferRemove(j)      BY <2>11 DEF DeferRemove
  <2>12. CASE DeferDecInflight(j) BY <2>12 DEF DeferDecInflight
  <2>13. CASE DeferRelease(j)     BY <2>13 DEF DeferRelease
  <2>14. CASE DeferDone(j)
    <3>1. OwedAreLaunched' /\ PanicIsBusy'
      BY <2>14 DEF DeferDone
    <3>2. ASSUME drain = "waiting", drain' = "woken", NEW i \in owed PROVE job'[i] = "done"
      <4>1. wg' = 0 /\ owed' = owed
        BY <2>14, <3>2 DEF DeferDone
      <4>2. job'[i] \notin Launched
        BY <1>1, <4>1 DEF In
      <4>3. QED BY <3>1, <4>1, <4>2
    <3>3. QED BY <2>14, <3>1, <3>2 DEF DeferDone
  <2>15. QED
    BY <1>2, <2>1, <2>2, <2>3, <2>4, <2>5, <2>6, <2>7, <2>8, <2>9, <2>10, <2>11, <2>12,
       <2>13, <2>14 DEF Progress
<1>3. CASE Waiting
  <2>1. wg = 0 => In(Launched) = {}
    BY CountZero DEF Accounting
  <2>2. CASE BeginWait
    BY <2>1, <2>2 DEF BeginWait, In
  <2>3. CASE WakeUp
    BY <2>1, <2>3 DEF WakeUp, In
  <2>4. CASE ReturnDrained \/ ReturnExpired
    BY <2>4 DEF ReturnDrained, ReturnExpired
  <2>5. QED BY <1>3, <2>2, <2>3, <2>4 DEF Waiting
<1>4. CASE Quiescent
  BY <1>4 DEF Quiescent, putVars
<1>5. QED BY <1>2, <1>3, <1>4 DEF Next

LEMMA NextIInv == IInv /\ [Next]_putVars => IInv'
<1>1. ASSUME IInv, Next PROVE IInv'
  BY <1>1, NextAccounting, NextTypeOK, NextFileLifetime, NextDrain DEF IInv
<1>2. ASSUME IInv, UNCHANGED putVars PROVE IInv'
  BY <1>2 DEF IInv, putVars, TypeOK, Accounting, FileLifetime, OwedAreLaunched, OwedAreDone,
              PanicIsBusy, In
<1>3. QED BY <1>1, <1>2

THEOREM Invariance == Spec => []IInv
<1>1. QED BY InitIInv, NextIInv, PTL DEF Spec

(* Types, the counters' included: none of the three ever goes below zero.     *)
THEOREM TypeCorrect == Spec => []TypeOK
<1>1. IInv => TypeOK  BY DEF IInv
<1>2. QED BY <1>1, Invariance, PTL

(* The metric lies between the uploads in progress and the slots taken, which *)
(* never exceed the capacity.                                                 *)
THEOREM GaugeIsHonest == Spec => []GaugeHonest
<1>1. ASSUME IInv PROVE GaugeHonest
  <2>1. IsFiniteSet(In(Gauged)) /\ IsFiniteSet(In(Holding))
    BY FS_Subset DEF In
  <2>2. /\ In({"running", "uploaded"}) \subseteq In(Gauged)
        /\ In(Gauged) \subseteq In(Holding)
    BY DEF In, Gauged, Holding
  <2>3. Cardinality(In({"running", "uploaded"})) <= Cardinality(In(Gauged))
    BY <2>1, <2>2, FS_Subset
  <2>4. Cardinality(In(Gauged)) <= Cardinality(In(Holding))
    BY <2>1, <2>2, FS_Subset
  <2>5. QED BY <1>1, <2>3, <2>4 DEF IInv, Accounting, GaugeHonest
<1>2. QED BY <1>1, Invariance, PTL

(* An upload never misses its file, and no ended job leaves one. *)
THEOREM FilesAreReclaimed == Spec => []FileLifetime
<1>1. IInv => FileLifetime  BY DEF IInv
<1>2. QED BY <1>1, Invariance, PTL

(* When WaitContext returns nil, the puts it found in the background are done. *)
THEOREM DrainIsHonest == Spec => []DrainHonest
<1>1. IInv => DrainHonest  BY DEF IInv, OwedAreDone, DrainHonest
<1>2. QED BY <1>1, Invariance, PTL

(* A job's move as the pool sees it. *)
LEMMA PhaseMove ==
    ASSUME TypeOK, NEW j \in Jobs, NEW from, NEW to, Go(j, from, to)
    PROVE  /\ PhaseOf(job[j]) = PhaseOf(from)
           /\ [i \in Jobs |-> PhaseOf(job[i])]'
                  = [[i \in Jobs |-> PhaseOf(job[i])] EXCEPT ![j] = PhaseOf(to)]
           /\ PhaseOf(from) = PhaseOf(to) =>
                  [i \in Jobs |-> PhaseOf(job[i])]' = [i \in Jobs |-> PhaseOf(job[i])]
<1>1. job[j] = from /\ job' = [job EXCEPT ![j] = to]
  BY DEF Go
<1>2. \A i \in Jobs : PhaseOf(job'[i]) = IF i = j THEN PhaseOf(to) ELSE PhaseOf(job[i])
  BY <1>1 DEF TypeOK
<1>3. QED BY <1>1, <1>2

(* AsyncPut implements PutPool: taking a slot is Accept, the drop is Refuse,  *)
(* an upload that reaches S3 is Write, giving the slot back is Leave.         *)
THEOREM Refinement == Spec => KeepsPool
<1> USE DEF Holding
<1>1. ASSUME Init PROVE Pool!Init
  BY <1>1 DEF Init, Pool!Init, PhaseOf
<1>2. ASSUME IInv, Next PROVE [Pool!Next]_Pool!poolVars
  <2>1. TypeOK /\ sem <= Capacity
    BY <1>2 DEF IInv
  <2>2. ASSUME NEW j \in Jobs, Prepare(j) \/ Discard(j) \/ Progress(j)
        PROVE  [Pool!Next]_Pool!poolVars
    <3>1. CASE Acquire(j)
      <4>1. Pool!Accept(j)
        BY <2>1, <3>1, PhaseMove DEF Acquire, TypeOK, PhaseOf, Pool!Accept, Pool!Move
      <4>2. QED BY <4>1 DEF Pool!Next
    <3>2. CASE Reject(j)
      <4>1. Pool!Refuse(j)
        BY <2>1, <3>2, PhaseMove DEF Reject, TypeOK, PhaseOf, Pool!Refuse, Pool!Move
      <4>2. QED BY <4>1 DEF Pool!Next
    <3>3. CASE DeferRelease(j)
      <4>1. Pool!Leave(j)
        BY <2>1, <3>3, PhaseMove DEF DeferRelease, TypeOK, PhaseOf, Pool!Leave, Pool!Move
      <4>2. QED BY <4>1 DEF Pool!Next
    <3>4. CASE (Upload(j) \/ UploadFails(j)) /\ store' = [store EXCEPT ![KeyOf[j]] = j]
      <4>1. Pool!Write(j)
        BY <2>1, <3>4, PhaseMove DEF Upload, UploadFails, PhaseOf, Pool!Write
      <4>2. QED BY <4>1 DEF Pool!Next
    <3>5. CASE \/ (Upload(j) \/ UploadFails(j)) /\ UNCHANGED store
               \/ Prepare(j) \/ Discard(j) \/ DropFile(j) \/ IncInflight(j) \/ Launch(j)
               \/ S3Remove(j) \/ DeferRemove(j) \/ DeferDecInflight(j) \/ DeferDone(j)
      <4>1. \E from, to \in States : Go(j, from, to) /\ PhaseOf(from) = PhaseOf(to)
        BY <3>5 DEF Upload, UploadFails, Prepare, Discard, DropFile, IncInflight, Launch,
                    S3Remove, DeferRemove, DeferDecInflight, DeferDone, PhaseOf, States, Ended
      <4>2. UNCHANGED <<sem, store>>
        BY <3>5 DEF Upload, UploadFails, Prepare, Discard, DropFile, IncInflight, Launch,
                    S3Remove, DeferRemove, DeferDecInflight, DeferDone
      <4>3. QED BY <2>1, <4>1, <4>2, PhaseMove DEF Pool!poolVars
    <3>6. Upload(j) \/ UploadFails(j) =>
              UNCHANGED store \/ store' = [store EXCEPT ![KeyOf[j]] = j]
      BY DEF Upload, UploadFails
    <3>7. QED BY <2>2, <3>1, <3>2, <3>3, <3>4, <3>5, <3>6 DEF Progress
  <2>3. CASE Waiting \/ Quiescent
    BY <2>3 DEF Waiting, BeginWait, WakeUp, ReturnDrained, ReturnExpired, Quiescent, putVars,
                Pool!poolVars
  <2>4. QED BY <1>2, <2>2, <2>3 DEF Next
<1>3. ASSUME UNCHANGED putVars PROVE UNCHANGED Pool!poolVars
  BY <1>3 DEF putVars, Pool!poolVars
<1>4. IInv /\ [Next]_putVars => [Pool!Next]_Pool!poolVars
  BY <1>2, <1>3
<1>5. QED BY <1>1, <1>4, Invariance, PTL DEF Spec, KeepsPool, Pool!Spec
=============================================================================

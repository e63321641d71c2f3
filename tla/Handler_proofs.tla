---------------------------- MODULE Handler_proofs ----------------------------
(* Proofs about Handler for any finite set of requests, any keys, any         *)
(* capacity and any faults.                                                   *)
(*                                                                            *)
(* Handler uses the coalescer and the cache only through their operations, so *)
(* what is proved about those components holds inside it; the invariant HInv  *)
(* then relates the place of a flight to the state of its call, of its file   *)
(* and of its background put.                                                 *)
EXTENDS Handler, FiniteSetTheorems, TLAPS

USE RequestsAssumption, RequestKeysAssumption, PoolAssumption, NoneIsNoRequest

Flight == INSTANCE SingleFlight_proofs WITH Callers <- Requests
Put == INSTANCE AsyncPut_proofs WITH Jobs <- Requests, FileJobs <- Requests

-----------------------------------------------------------------------------
(* A step of Handler is a step of the coalescer, or leaves it alone.          *)
LEMMA CoalescerStep == [Next]_vars => [SF!Next]_(SF!flightVars)
<1> SUFFICES ASSUME [Next]_vars PROVE [SF!Next]_(SF!flightVars)
  OBVIOUS
<1>1. UNCHANGED flightVars => UNCHANGED SF!flightVars
  BY DEF flightVars, SF!flightVars
<1>2. ASSUME NEW r \in Requests, SF!Step(r) PROVE SF!Next
  BY <1>2 DEF SF!Next
<1>3. ASSUME NEW r \in Requests, Serve(r) PROVE SF!Step(r) \/ UNCHANGED flightVars
  BY <1>3 DEF Serve, LookupHit, LookupMiss, Stream, LeadFlight, JoinFlight, Answer, Abandon,
              PassFetch, PassFails, PassCopy, SF!Step
<1>4. ASSUME NEW r \in Requests, Disconnect(r) PROVE SF!Step(r)
  BY <1>4 DEF Disconnect, SF!Step
<1>5. ASSUME NEW r \in Requests, Process(r) PROVE SF!Step(r) \/ UNCHANGED flightVars
  BY <1>5 DEF Process, Resolve, ResolveFails, HeadNonImage, HeadImage, Transform, TransformFails,
              Fetch, FetchFails, ReadOriginal, ReadOriginalFails, CreateTemp, CreateTempFails,
              CopyToTemp, CopyToTempFails, ReadBack, ReadBackFails, Putting, PutReturns, Deliver,
              SF!Step
<1>6. ASSUME NEW r \in Requests, Background(r) PROVE UNCHANGED flightVars
  BY <1>6 DEF Background
<1>7. QED BY <1>1, <1>2, <1>3, <1>4, <1>5, <1>6 DEF Next, Quiescent, vars

(* A behaviour of Handler is a behaviour of the coalescer. *)
THEOREM UsesCoalescer == Spec => SF!Spec
<1>1. Init => SF!Init
  BY DEF Init
<1>2. QED BY <1>1, CoalescerStep, PTL DEF Spec, SF!Spec

(* Nobody calls WaitContext while Handler serves. *)
LEMMA DrainIdle == Spec => [](drain = "idle")
<1>1. Init => drain = "idle"
  BY DEF Init, AP!Init
<1>2. drain = "idle" /\ [Next]_vars => (drain = "idle")'
  <2> SUFFICES ASSUME drain = "idle", [Next]_vars PROVE drain' = "idle"
    OBVIOUS
  <2>1. ASSUME NEW r \in Requests, Serve(r) \/ Disconnect(r) PROVE UNCHANGED drain
    BY <2>1 DEF Serve, LookupHit, LookupMiss, Stream, LeadFlight, JoinFlight, Answer, Abandon,
                PassFetch, PassFails, PassCopy, Disconnect, putVars
  <2>2. ASSUME NEW r \in Requests, Process(r) PROVE UNCHANGED drain
    BY <2>2 DEF Process, Resolve, ResolveFails, HeadNonImage, HeadImage, Transform, TransformFails,
                Fetch, FetchFails, ReadOriginal, ReadOriginalFails, CreateTemp, CreateTempFails,
                CopyToTemp, CopyToTempFails, ReadBack, ReadBackFails, Putting, PutReturns, Deliver,
                putVars, AP!Prepare, AP!Discard, AP!Acquire, AP!Reject, AP!IncInflight, AP!Launch,
                AP!DropFile
  <2>3. ASSUME NEW r \in Requests, Background(r) PROVE UNCHANGED drain
    BY <2>3 DEF Background, AP!Upload, AP!UploadFails, AP!S3Remove, AP!DeferRemove,
                AP!DeferDecInflight, AP!DeferRelease, AP!DeferDone
  <2>4. QED BY <2>1, <2>2, <2>3 DEF Next, Quiescent, vars, putVars
<1>3. QED BY <1>1, <1>2, PTL DEF Spec

(* A step of Handler is a step of the cache, or leaves it alone. *)
LEMMA CacheStep == AP!Alive /\ [Next]_vars => [AP!Next]_(AP!putVars)
<1> SUFFICES ASSUME AP!Alive, [Next]_vars PROVE [AP!Next]_(AP!putVars)
  OBVIOUS
<1>1. UNCHANGED putVars => UNCHANGED AP!putVars
  BY DEF putVars, AP!putVars
<1>2. ASSUME NEW r \in Requests, AP!Prepare(r) \/ AP!Discard(r) \/ AP!Progress(r) PROVE AP!Next
  BY <1>2 DEF AP!Next
<1>3. ASSUME NEW r \in Requests, Serve(r) \/ Disconnect(r) PROVE UNCHANGED putVars
  BY <1>3 DEF Serve, LookupHit, LookupMiss, Stream, LeadFlight, JoinFlight, Answer, Abandon,
              PassFetch, PassFails, PassCopy, Disconnect
<1>4. ASSUME NEW r \in Requests, Process(r)
      PROVE  AP!Prepare(r) \/ AP!Discard(r) \/ AP!Progress(r) \/ UNCHANGED putVars
  BY <1>4 DEF Process, Resolve, ResolveFails, HeadNonImage, HeadImage, Transform, TransformFails,
              Fetch, FetchFails, ReadOriginal, ReadOriginalFails, CreateTemp, CreateTempFails,
              CopyToTemp, CopyToTempFails, ReadBack, ReadBackFails, Putting, PutReturns, Deliver,
              AP!Progress
<1>5. ASSUME NEW r \in Requests, Background(r) PROVE AP!Progress(r)
  BY <1>5 DEF Background, AP!Progress
<1>6. QED BY <1>1, <1>2, <1>3, <1>4, <1>5 DEF Next, Quiescent, vars

(* A behaviour of Handler is a behaviour of the cache. *)
THEOREM UsesCache == Spec => AP!Spec
<1>1. Init => AP!Init
  BY DEF Init
<1>2. drain = "idle" => AP!Alive
  BY DEF AP!Alive
<1>3. QED BY <1>1, <1>2, CacheStep, DrainIdle, PTL DEF Spec, AP!Spec

-----------------------------------------------------------------------------
(* The theorems of the components, for whoever uses the instances of Handler. *)
LEMMA CoalescerFacts == SF!Spec => [](SF!TypeOK /\ SF!OneFlightPerKey /\ Flight!IInv)
<1>1. SF!Init => Flight!Init
  BY DEF SF!Init, Flight!Init
<1>2. [SF!Next]_(SF!flightVars) => [Flight!Next]_(Flight!flightVars)
  BY DEF SF!Next, SF!flightVars, SF!Step, SF!Quiescent, SF!Lead, SF!Join, SF!Finish,
         SF!ReturnResult, SF!ReturnCancelled, SF!Cancel,
         Flight!Next, Flight!flightVars, Flight!Step, Flight!Quiescent, Flight!Lead,
         Flight!Join, Flight!Finish, Flight!ReturnResult, Flight!ReturnCancelled, Flight!Cancel
<1>3. Flight!IInv /\ Flight!OneFlightPerKey => SF!TypeOK /\ SF!OneFlightPerKey
  BY DEF Flight!TypeOK, SF!TypeOK, Flight!OneFlightPerKey, SF!OneFlightPerKey,
         Flight!Running, SF!Running, Flight!IInv
<1>4. Flight!Spec => []Flight!IInv
  BY Flight!Invariance
<1>5. Flight!Spec => []Flight!OneFlightPerKey
  BY Flight!AtMostOneFlight
<1>6. QED BY <1>1, <1>2, <1>3, <1>4, <1>5, PTL DEF SF!Spec, Flight!Spec

LEMMA CacheInstances == AP!Spec => Put!Spec
<1>1. AP!Init => Put!Init
  BY DEF AP!Init, Put!Init
<1>2. [AP!Next]_(AP!putVars) => [Put!Next]_(Put!putVars)
  BY DEF AP!Next, AP!putVars, AP!Alive, AP!Progress, AP!Waiting, AP!Quiescent, AP!In, AP!Go,
         AP!Prepare, AP!Discard, AP!Acquire, AP!Reject, AP!DropFile, AP!IncInflight, AP!Launch,
         AP!Upload, AP!UploadFails, AP!S3Remove, AP!DeferRemove, AP!DeferDecInflight,
         AP!DeferRelease, AP!DeferDone, AP!BeginWait, AP!WakeUp, AP!ReturnDrained,
         AP!ReturnExpired, AP!Ended, AP!Launched,
         Put!Next, Put!putVars, Put!Alive, Put!Progress, Put!Waiting, Put!Quiescent, Put!In, Put!Go,
         Put!Prepare, Put!Discard, Put!Acquire, Put!Reject, Put!DropFile, Put!IncInflight, Put!Launch,
         Put!Upload, Put!UploadFails, Put!S3Remove, Put!DeferRemove, Put!DeferDecInflight,
         Put!DeferRelease, Put!DeferDone, Put!BeginWait, Put!WakeUp, Put!ReturnDrained,
         Put!ReturnExpired, Put!Ended, Put!Launched
<1>3. QED BY <1>1, <1>2, PTL DEF AP!Spec, Put!Spec

LEMMA CacheFacts == AP!Spec => [](AP!TypeOK /\ AP!FileLifetime /\ AP!DrainHonest)
<1>1. Put!TypeOK /\ Put!FileLifetime /\ Put!DrainHonest
          => AP!TypeOK /\ AP!FileLifetime /\ AP!DrainHonest
  BY DEF Put!TypeOK, AP!TypeOK, Put!FileLifetime, AP!FileLifetime, Put!DrainHonest,
         AP!DrainHonest, Put!States, AP!States, Put!Holding, AP!Holding, Put!Ended, AP!Ended
<1>2. Put!IsFiniteSet(Requests)
  BY DEF IsFiniteSet, Put!IsFiniteSet
<1>3. Put!Spec => []Put!TypeOK
  BY <1>2, Put!TypeCorrect
<1>4. Put!Spec => []Put!FileLifetime
  BY <1>2, Put!FilesAreReclaimed
<1>5. Put!Spec => []Put!DrainHonest
  BY <1>2, Put!DrainIsHonest
<1>6. QED BY <1>1, <1>3, <1>4, <1>5, CacheInstances, PTL

(* What the counters of the cache count, and how far a drain has come. *)
CacheInv ==
    /\ sem = Cardinality(AP!In(AP!Holding)) /\ sem <= Capacity
    /\ wg = Cardinality(AP!In(AP!Launched))
    /\ drain \in {"woken", "signalled", "drained", "panicked"} =>
           \A j \in owed : job[j] = "done"
    /\ drain = "panicked" => wg # 0

LEMMA CacheInside == AP!Spec => []CacheInv
<1>1. Put!IInv => CacheInv
  <2>1. \A S : Put!Cardinality(S) = Cardinality(S)
    BY DEF Put!Cardinality, Cardinality
  <2>2. Put!In(Put!Holding) = AP!In(AP!Holding) /\ Put!In(Put!Launched) = AP!In(AP!Launched)
    BY DEF Put!In, AP!In, Put!Holding, AP!Holding, Put!Launched, AP!Launched
  <2>3. QED BY <2>1, <2>2 DEF Put!IInv, Put!Accounting, Put!OwedAreDone, Put!PanicIsBusy, CacheInv
<1>2. Put!IsFiniteSet(Requests)
  BY DEF IsFiniteSet, Put!IsFiniteSet
<1>3. Put!Spec => []Put!IInv
  BY <1>2, Put!Invariance
<1>4. QED BY <1>1, <1>3, CacheInstances, PTL

-----------------------------------------------------------------------------
(* The invariant that relates a flight's place to the state of the others:    *)
(*   - its call in the coalescer runs exactly while it is under way;          *)
(*   - its file is made, filled and handed to the pool at certain places;     *)
(*   - what it hands over is a whole transformed image, of an image;          *)
(*   - what S3 holds comes from a put that was launched.                      *)
Entering == {"prepared", "rejected", "acquired", "counted"}
Handed == {"rejected", "acquired", "counted", "dropped", "done"} \cup AP!Launched

PlaceAndCall == \A l \in Requests : InFlight(l) <=> fn[l] = "running"

PlaceAndJob ==
    \A l \in Requests :
        /\ fpc[l] \in {"copy", "readback"} => job[l] = "prepared"
        /\ job[l] \in Entering => fpc[l] \in {"copy", "readback", "put"}

PlaceAndContent ==
    \A l \in Requests :
        /\ fpc[l] \in {"create", "copy", "readback", "put"} => KeyOf[l] \notin NonImage
        /\ fpc[l] \in {"readback", "put"} => temp[l] = "transformed"
        /\ job[l] \in Handed => temp[l] = "transformed" /\ KeyOf[l] \notin NonImage

StoredWasLaunched ==
    \A k \in Keys : store[k] # None =>
        KeyOf[store[k]] = k /\ job[store[k]] \in AP!Launched \cup {"done"}

HInv == /\ fpc \in [Requests -> FlightPlaces]
        /\ temp \in [Requests -> Contents]
        /\ PlaceAndCall
        /\ PlaceAndJob
        /\ PlaceAndContent
        /\ StoredWasLaunched

Typed == SF!TypeOK /\ SF!OneFlightPerKey /\ Flight!IInv /\ AP!TypeOK

(* The invariant holds initially. *)
LEMMA InitHInv == Init => HInv
  BY DEF Init, HInv, FlightPlaces, Contents, PlaceAndCall, PlaceAndJob, PlaceAndContent,
         StoredWasLaunched, InFlight, Entering, Handed, AP!Launched, SF!Init, AP!Init

(* It speaks of these variables only. *)
LEMMA HInvStutter == HInv /\ UNCHANGED <<fpc, temp, fn, job, store>> => HInv'
  BY DEF HInv, PlaceAndCall, PlaceAndJob, PlaceAndContent, StoredWasLaunched, InFlight

(* ServeHTTP and the clients disturb it only by starting a flight. *)
LEMMA ServeHInv ==
    ASSUME HInv, Typed, NEW r \in Requests, Serve(r) \/ Disconnect(r)
    PROVE  HInv'
<1>1. CASE LeadFlight(r)
  <2> USE DEF HInv, Typed, SF!TypeOK, AP!TypeOK, FlightPlaces, PlaceAndCall, PlaceAndJob,
              PlaceAndContent, StoredWasLaunched, InFlight
  <2>1. ~InFlight(r) /\ job[r] \notin Entering
    BY <1>1 DEF LeadFlight, SF!Lead, SF!OneFlightPerKey, SF!Running, Entering
  <2>2. QED BY <1>1, <2>1 DEF LeadFlight, SF!Lead, putVars, Entering
<1>2. CASE LookupHit(r) \/ LookupMiss(r) \/ Stream(r) \/ PassFetch(r) \/ PassFails(r) \/ PassCopy(r)
  <2>1. UNCHANGED <<fpc, temp, fn, job, store>>
    BY <1>2 DEF LookupHit, LookupMiss, Stream, PassFetch, PassFails, PassCopy,
                processVars, flightVars, putVars
  <2>2. QED BY <2>1, HInvStutter
<1>3. CASE JoinFlight(r) \/ Answer(r) \/ Abandon(r) \/ Disconnect(r)
  <2>1. UNCHANGED <<fpc, temp, fn, job, store>>
    BY <1>3 DEF JoinFlight, Answer, Abandon, Disconnect, processVars, putVars,
                SF!Join, SF!ReturnResult, SF!ReturnCancelled, SF!Cancel
  <2>2. QED BY <2>1, HInvStutter
<1>4. QED BY <1>1, <1>2, <1>3 DEF Serve

(* The places before the temporary file and after it. *)
LEMMA FlightHInv ==
    ASSUME HInv, Typed, NEW l \in Requests,
           \/ Resolve(l) \/ ResolveFails(l) \/ HeadNonImage(l) \/ HeadImage(l)
           \/ Transform(l) \/ TransformFails(l) \/ Fetch(l) \/ FetchFails(l)
           \/ ReadOriginal(l) \/ ReadOriginalFails(l) \/ CreateTempFails(l) \/ Deliver(l)
    PROVE  HInv'
<1> USE DEF HInv, Typed, SF!TypeOK, AP!TypeOK, FlightPlaces, Contents, PlaceAndCall, PlaceAndJob,
            PlaceAndContent, StoredWasLaunched, InFlight, Step, flightVars, putVars, Entering
<1>1. CASE Resolve(l) \/ ResolveFails(l)      BY <1>1 DEF Resolve, ResolveFails
<1>2. CASE HeadNonImage(l) \/ HeadImage(l)    BY <1>2 DEF HeadNonImage, HeadImage
<1>3. CASE Transform(l) \/ TransformFails(l)  BY <1>3 DEF Transform, TransformFails
<1>4. CASE Fetch(l) \/ FetchFails(l)          BY <1>4 DEF Fetch, FetchFails
<1>5. CASE ReadOriginal(l) \/ ReadOriginalFails(l)
  BY <1>5 DEF ReadOriginal, ReadOriginalFails
<1>6. CASE CreateTempFails(l)                 BY <1>6 DEF CreateTempFails
<1>7. CASE Deliver(l)                         BY <1>7 DEF Deliver, SF!Finish
<1>8. QED BY <1>1, <1>2, <1>3, <1>4, <1>5, <1>6, <1>7

(* The places at which the flight owns its temporary file. *)
LEMMA FileHInv ==
    ASSUME HInv, Typed, NEW l \in Requests,
           \/ CreateTemp(l) \/ CopyToTemp(l) \/ CopyToTempFails(l)
           \/ ReadBack(l) \/ ReadBackFails(l) \/ Putting(l) \/ PutReturns(l)
    PROVE  HInv'
<1> USE DEF HInv, Typed, SF!TypeOK, AP!TypeOK, FlightPlaces, Contents, PlaceAndCall, PlaceAndJob,
            PlaceAndContent, StoredWasLaunched, InFlight, Step, processVars, flightVars, putVars,
            Entering, Handed, AP!Launched, AP!Go
<1>1. CASE CreateTemp(l)       BY <1>1 DEF CreateTemp, AP!Prepare
<1>2. CASE CopyToTemp(l)       BY <1>2 DEF CopyToTemp
<1>3. CASE CopyToTempFails(l)  BY <1>3 DEF CopyToTempFails, AP!Discard
<1>4. CASE ReadBack(l)         BY <1>4 DEF ReadBack
<1>5. CASE ReadBackFails(l)    BY <1>5 DEF ReadBackFails, AP!Discard
<1>6. CASE Putting(l)          BY <1>6 DEF Putting, AP!Acquire, AP!Reject, AP!IncInflight
<1>7. CASE PutReturns(l)       BY <1>7 DEF PutReturns, AP!Launch, AP!DropFile
<1>8. QED BY <1>1, <1>2, <1>3, <1>4, <1>5, <1>6, <1>7

(* The background put: only a launched one reaches S3. *)
LEMMA BackgroundHInv ==
    ASSUME HInv, Typed, NEW j \in Requests, Background(j)
    PROVE  HInv'
<1> USE DEF HInv, Typed, SF!TypeOK, AP!TypeOK, FlightPlaces, Contents, PlaceAndCall, PlaceAndJob,
            PlaceAndContent, StoredWasLaunched, InFlight, processVars, flightVars,
            Entering, Handed, AP!Launched, AP!Go
<1>1. CASE AP!Upload(j)            BY <1>1 DEF Background, AP!Upload
<1>2. CASE AP!UploadFails(j)       BY <1>2 DEF Background, AP!UploadFails
<1>3. CASE AP!S3Remove(j)          BY <1>3 DEF Background, AP!S3Remove
<1>4. CASE AP!DeferRemove(j)       BY <1>4 DEF Background, AP!DeferRemove
<1>5. CASE AP!DeferDecInflight(j)  BY <1>5 DEF Background, AP!DeferDecInflight
<1>6. CASE AP!DeferRelease(j)      BY <1>6 DEF Background, AP!DeferRelease
<1>7. CASE AP!DeferDone(j)         BY <1>7 DEF Background, AP!DeferDone
<1>8. QED BY <1>1, <1>2, <1>3, <1>4, <1>5, <1>6, <1>7 DEF Background

LEMMA NextHInv == HInv /\ Typed /\ [Next]_vars => HInv'
<1>1. ASSUME HInv, Typed, NEW r \in Requests, Process(r) PROVE HInv'
  BY <1>1, FlightHInv, FileHInv DEF Process
<1>2. ASSUME HInv, UNCHANGED vars PROVE HInv'
  BY <1>2, HInvStutter DEF vars, processVars, flightVars, putVars
<1>3. QED BY <1>1, <1>2, ServeHInv, BackgroundHInv DEF Next, Quiescent

THEOREM Invariance == Spec => []HInv
<1>1. Spec => []Typed
  BY UsesCoalescer, UsesCache, CoalescerFacts, CacheFacts, PTL DEF Typed
<1>2. QED BY <1>1, InitHInv, NextHInv, PTL DEF Spec

LEMMA OneTransformIsOneCall == HInv /\ SF!OneFlightPerKey => OneTransformPerKey
BY DEF HInv, PlaceAndCall, SF!OneFlightPerKey, SF!Running, OneTransformPerKey

LEMMA StoredIsTransformed == HInv /\ AP!TypeOK => CacheHoldsTransforms
BY DEF HInv, AP!TypeOK, StoredWasLaunched, PlaceAndContent, CacheHoldsTransforms, Handed

LEMMA PlacesOwnFiles == HInv /\ AP!TypeOK /\ AP!FileLifetime => FilesHaveAnOwner
BY DEF HInv, PlaceAndJob, Entering, AP!TypeOK, AP!FileLifetime, AP!States, AP!Holding, AP!Ended,
       FilesHaveAnOwner

(* Two flights for one key are never under way at the same time: the flights  *)
(* are the running calls of the coalescer, which has at most one per key.     *)
THEOREM OneTransform == Spec => []OneTransformPerKey
BY OneTransformIsOneCall, Invariance, UsesCoalescer, CoalescerFacts, PTL

(* S3 holds nothing but whole transformed images under their own key.         *)
THEOREM CacheIsPure == Spec => []CacheHoldsTransforms
BY StoredIsTransformed, Invariance, UsesCache, CacheFacts, PTL

(* Every temporary file that exists has its flight or its put to remove it.   *)
THEOREM FilesAreOwned == Spec => []FilesHaveAnOwner
BY PlacesOwnFiles, Invariance, UsesCache, CacheFacts, PTL

(* A union has no more elements than its parts together. *)
LEMMA UnionBound ==
    ASSUME NEW S, IsFiniteSet(S), NEW T, IsFiniteSet(T)
    PROVE  /\ IsFiniteSet(S \cup T)
           /\ Cardinality(S \cup T) <= Cardinality(S) + Cardinality(T)
<1>1. /\ IsFiniteSet(S \cup T)
      /\ Cardinality(S \cup T) = Cardinality(S) + Cardinality(T) - Cardinality(S \cap T)
  BY FS_Union, Zenon
<1>2. IsFiniteSet(S \cap T)
  BY FS_Intersection
<1>3. /\ Cardinality(S) \in Nat /\ Cardinality(T) \in Nat
      /\ Cardinality(S \cap T) \in Nat /\ Cardinality(S \cup T) \in Nat
  BY <1>1, <1>2, FS_CardinalityType
<1>4. QED BY <1>1, <1>3

LEMMA OwnedFilesAreFew ==
    ASSUME FilesHaveAnOwner, OneTransformPerKey, CacheInv, AP!TypeOK
    PROVE  DiskIsBounded
<1> DEFINE Flights == {l \in Requests : InFlight(l)}
           Puts == AP!In(AP!Holding)
           keyOf == [l \in Flights |-> KeyOf[l]]
<1>1. IsFiniteSet(Flights) /\ IsFiniteSet(Puts)
  BY FS_Subset DEF AP!In
<1>2. /\ IsFiniteSet(KeysInFlight)
      /\ Cardinality(Flights) <= Cardinality(KeysInFlight)
  <2>1. keyOf \in Surjection(Flights, KeysInFlight)
    BY DEF Surjection, KeysInFlight
  <2>2. keyOf \in Injection(Flights, KeysInFlight)
    BY DEF Injection, IsInjective, KeysInFlight, OneTransformPerKey
  <2> HIDE DEF Flights, keyOf
  <2>3. IsFiniteSet(KeysInFlight)
    BY <1>1, <2>1, FS_Surjection
  <2>4. QED BY <2>2, <2>3, FS_Injection
<1>3. files \subseteq Flights \cup Puts
  BY DEF FilesHaveAnOwner, InFlight, AP!TypeOK, AP!In, AP!Holding
<1>4. Cardinality(Puts) <= Capacity
  BY DEF CacheInv
<1> HIDE DEF Flights, Puts
<1>5. /\ IsFiniteSet(Flights \cup Puts)
      /\ Cardinality(Flights \cup Puts) <= Cardinality(Flights) + Cardinality(Puts)
  BY <1>1, UnionBound
<1>6. Cardinality(files) <= Cardinality(Flights \cup Puts) /\ IsFiniteSet(files)
  BY <1>3, <1>5, FS_Subset
<1>7. /\ Cardinality(files) \in Nat /\ Cardinality(KeysInFlight) \in Nat
      /\ Cardinality(Flights) \in Nat /\ Cardinality(Puts) \in Nat
      /\ Cardinality(Flights \cup Puts) \in Nat
  BY <1>1, <1>2, <1>5, <1>6, FS_CardinalityType
<1>8. QED BY <1>2, <1>4, <1>5, <1>6, <1>7 DEF DiskIsBounded

(* The temporary files on the disk are bounded by the keys that are being     *)
(* worked on and the capacity of the pool, not by the requests there are.     *)
THEOREM DiskBound == Spec => []DiskIsBounded
BY OwnedFilesAreFew, FilesAreOwned, OneTransform, UsesCache, CacheFacts, CacheInside, PTL
=============================================================================

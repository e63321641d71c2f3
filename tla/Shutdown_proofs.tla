---------------------------- MODULE Shutdown_proofs ----------------------------
(* Proofs about Shutdown for any finite set of requests, any keys, any        *)
(* capacity and any faults: what main cuts off when it ends, it has reported. *)
(*                                                                            *)
(* Here the drain is not idle, so Handler's specification does not hold; its  *)
(* steps do, and with them everything that was proved of steps.               *)
EXTENDS Shutdown, Replies_proofs

USE RequestsAssumption, RequestKeysAssumption, PoolAssumption, NoneIsNoRequest

-----------------------------------------------------------------------------
(* What a step of main, of the clock or of a request does to the handler.     *)
DrainStep == AP!Waiting /\ UNCHANGED <<serveVars, processVars, flightVars>>

LEMMA ShutdownStep ==
    [ShutdownNext]_allVars => \/ UNCHANGED vars
                              \/ AP!Alive /\ [Next]_vars
                              \/ AP!Alive /\ DrainStep
<1> SUFFICES ASSUME [ShutdownNext]_allVars
             PROVE  \/ UNCHANGED vars
                    \/ AP!Alive /\ [Next]_vars
                    \/ AP!Alive /\ DrainStep
  OBVIOUS
<1>1. CASE ListenFails \/ Signal \/ ShutdownReturns \/ ShutdownExpires \/ Exit \/ DeadlinePasses
  BY <1>1 DEF ListenFails, Signal, ShutdownReturns, ShutdownExpires, Exit, DeadlinePasses
<1>2. CASE BeginDrain \/ DrainWakes \/ DrainSucceeds \/ DrainExpires
  BY <1>2 DEF BeginDrain, DrainWakes, DrainSucceeds, DrainExpires, DrainStep, AP!Waiting,
              AP!BeginWait, AP!WakeUp, AP!ReturnDrained, AP!ReturnExpired, AP!Alive
<1>3. ASSUME NEW r \in Requests, Arrive(r) PROVE UNCHANGED vars
  BY <1>3 DEF Arrive
<1>4. ASSUME ~Dead, NEW r \in Requests, Work(r) PROVE AP!Alive /\ [Next]_vars
  BY <1>4 DEF Dead, Work, Next
<1>5. CASE UNCHANGED allVars
  BY <1>5 DEF allVars
<1>6. QED BY <1>1, <1>2, <1>3, <1>4, <1>5 DEF ShutdownNext, Main

LEMMA SpecStillUsesCoalescer == ShutdownSpec => SF!Spec
<1>1. ShutdownInit => SF!Init
  BY DEF ShutdownInit, Init
<1>2. ASSUME [ShutdownNext]_allVars PROVE [SF!Next]_(SF!flightVars)
  <2>1. UNCHANGED flightVars => UNCHANGED SF!flightVars
    BY DEF flightVars, SF!flightVars
  <2>2. UNCHANGED vars \/ DrainStep => UNCHANGED flightVars
    BY DEF vars, DrainStep
  <2>3. QED BY <1>2, <2>1, <2>2, ShutdownStep, CoalescerStep
<1>3. QED BY <1>1, <1>2, PTL DEF ShutdownSpec, SF!Spec

LEMMA SpecStillUsesCache == ShutdownSpec => AP!Spec
<1>1. ShutdownInit => AP!Init
  BY DEF ShutdownInit, Init
<1>2. ASSUME [ShutdownNext]_allVars PROVE [AP!Next]_(AP!putVars)
  <2>1. UNCHANGED vars => UNCHANGED AP!putVars
    BY DEF vars, putVars, AP!putVars
  <2>2. AP!Alive /\ DrainStep => AP!Next
    BY DEF DrainStep, AP!Next
  <2>3. QED BY <1>2, <2>1, <2>2, ShutdownStep, CacheStep
<1>3. QED BY <1>1, <1>2, PTL DEF ShutdownSpec, AP!Spec

LEMMA ServesOn ==
    ShutdownSpec => [](RInv /\ Known /\ AP!FileLifetime /\ AP!DrainHonest /\ CacheInv)
<1>1. ShutdownSpec => [](Typed /\ AP!FileLifetime /\ AP!DrainHonest /\ CacheInv)
  BY SpecStillUsesCoalescer, SpecStillUsesCache, CoalescerFacts, CacheFacts, CacheInside, PTL
     DEF Typed
<1>2. ShutdownInit => HInv /\ RInv
  BY InitHInv, InitRInv DEF ShutdownInit
<1>3. ASSUME HInv, RInv, Typed, [ShutdownNext]_allVars PROVE HInv' /\ RInv'
  <2>1. CASE UNCHANGED vars \/ DrainStep
    <3>1. UNCHANGED <<pc, serving, reply, fpc, draft, temp, cancelled, fn, mail, job, store>>
      BY <2>1 DEF vars, serveVars, processVars, flightVars, putVars, DrainStep, AP!Waiting,
                  AP!BeginWait, AP!WakeUp, AP!ReturnDrained, AP!ReturnExpired
    <3>2. QED BY <1>3, <3>1, HInvStutter, RInvStutter
  <2>2. CASE [Next]_vars
    BY <1>3, <2>2, NextHInv, NextRInv DEF Known
  <2>3. QED BY <1>3, <2>1, <2>2, ShutdownStep
<1>4. Known <=> HInv /\ Typed
  BY DEF Known
<1>5. QED BY <1>1, <1>2, <1>3, <1>4, PTL DEF ShutdownSpec

-----------------------------------------------------------------------------
(* The invariant:                                                             *)
(*   - nothing happens for a request that has not arrived;                    *)
(*   - the drain is where main is;                                            *)
(*   - a flight's leader waits, or its client has gone;                       *)
(*   - once Shutdown has returned nil, everyone who has arrived is answered;  *)
(*   - and once the drain has begun as well, it waits for every put in the    *)
(*     background, but for those of leaders that have gone.                   *)
MainTypes ==
    /\ main \in {"serving", "shutdown", "wait", "drain", "closing", "exited"}
    /\ arrived \in SUBSET Requests
    /\ expired \in BOOLEAN
    /\ shut \in {"none", "clean", "timeout"}

NothingBeforeArrival == \A r \in Requests : fpc[r] # "off" => r \in arrived

DrainAndMain ==
    /\ main \in {"serving", "shutdown", "wait"} => drain = "idle"
    /\ main \in {"serving", "shutdown"} => shut = "none"
    /\ main \in {"wait", "drain", "closing"} => shut # "none"
    /\ main = "drain" => drain \in {"waiting", "woken", "signalled", "panicked"}
    /\ main = "closing" => drain \in {"drained", "expired"}
    /\ main = "exited" => drain \in (IF shut = "none" THEN {"idle"} ELSE {"drained", "expired"})

LeadersWait ==
    \A l \in Requests : InFlight(l) =>
        l \in chans[l] /\ (pc[l] = "wait" \/ (pc[l] = "over" /\ Gone(l)))

CleanIsAnswered == shut = "clean" => \A r \in arrived : reply[r] # None

OwedAreWaitedFor ==
    main \in {"drain", "closing", "exited"} /\ shut = "clean" =>
        \A l \in Requests : job[l] \in AP!Launched => l \in owed \/ Gone(l)

SInv == /\ MainTypes
        /\ NothingBeforeArrival
        /\ DrainAndMain
        /\ LeadersWait
        /\ CleanIsAnswered
        /\ OwedAreWaitedFor

LEMMA InitSInv == ShutdownInit => SInv
  BY DEF ShutdownInit, Init, SF!Init, AP!Init, SInv, MainTypes, NothingBeforeArrival, DrainAndMain,
         LeadersWait, InFlight, CleanIsAnswered, OwedAreWaitedFor

(* A request's step is its own. *)
LEMMA WorkIsOwn ==
    ASSUME RInv, Known, NEW r \in Requests,
           Serve(r) \/ Disconnect(r) \/ Process(r) \/ Background(r)
    PROVE  /\ \A q \in Requests \ {r} :
                  fpc'[q] = fpc[q] /\ pc'[q] = pc[q] /\ job'[q] = job[q]
           /\ \A q \in Requests : reply[q] # None => reply'[q] # None
           /\ cancelled \subseteq cancelled'
           /\ UNCHANGED owed
           /\ drain' = drain \/ (drain = "waiting" /\ drain' = "woken")
<1>1. /\ fpc \in [Requests -> FlightPlaces] /\ job \in [Requests -> AP!States]
      /\ reply \in [Requests -> Replies \cup {None}]
      /\ pc \in [Requests -> {"lookup", "stream", "do", "wait", "pass", "copy", "over"}]
      /\ \A q \in Requests : pc[q] # "over" => reply[q] = None
  BY DEF Known, HInv, Typed, AP!TypeOK, RInv, ServeTypes, PlaceOfRequest
<1>2. CASE Serve(r)
  <2>1. UNCHANGED <<job, owed, drain, cancelled>>
    BY <1>2 DEF Serve, LookupHit, LookupMiss, Stream, LeadFlight, JoinFlight, Answer, Abandon,
                PassFetch, PassFails, PassCopy, putVars, flightVars, SF!Lead, SF!Join,
                SF!ReturnResult, SF!ReturnCancelled
  <2>2. \/ UNCHANGED reply
        \/ pc[r] # "over" /\ \E sent : reply' = [reply EXCEPT ![r] = sent]
    <3>1. CASE UNCHANGED reply
      BY <3>1
    <3>2. CASE Stream(r)
      BY <3>2 DEF Stream, At, Send
    <3>3. CASE Answer(r)
      BY <3>3 DEF Answer, At, Send
    <3>4. CASE Abandon(r)
      BY <3>4 DEF Abandon, At, Send
    <3>5. CASE PassFails(r)
      <4> DEFINE codes == (IF May("upstream") THEN {404, 502} ELSE {})
                          \cup (IF Gone(r) \/ May("resolve") THEN {502} ELSE {})
      <4>1. \E code \in codes : Send(r, Error(code), None, TRUE)
        BY <3>5, Zenon DEF PassFails
      <4> HIDE DEF codes
      <4>2. \E sent : reply' = [reply EXCEPT ![r] = sent]
        BY <4>1 DEF Send
      <4>3. pc[r] # "over"
        BY <3>5 DEF PassFails, At
      <4>4. QED BY <4>2, <4>3
    <3>6. CASE PassCopy(r)
      BY <3>6 DEF PassCopy, At, Send
    <3>7. QED BY <1>2, <3>1, <3>2, <3>3, <3>4, <3>5, <3>6
         DEF Serve, LookupHit, LookupMiss, LeadFlight, JoinFlight, PassFetch
  <2>3. \E to : pc' = [pc EXCEPT ![r] = to]
    BY <1>2 DEF Serve, LookupHit, LookupMiss, Stream, LeadFlight, JoinFlight, Answer, Abandon,
                PassFetch, PassFails, PassCopy, At
  <2>4. UNCHANGED fpc \/ fpc' = [fpc EXCEPT ![r] = "resolve"]
    BY <1>2 DEF Serve, LookupHit, LookupMiss, Stream, LeadFlight, JoinFlight, Answer, Abandon,
                PassFetch, PassFails, PassCopy, processVars
  <2>5. \A q \in Requests : reply[q] # None => reply'[q] # None
    BY <1>1, <2>2
  <2>6. QED BY <1>1, <2>1, <2>3, <2>4, <2>5
<1>3. CASE Disconnect(r)
  BY <1>3 DEF Disconnect, SF!Cancel, serveVars, processVars, putVars
<1>4. CASE Process(r)
  <2>1. UNCHANGED <<serveVars, cancelled, owed, drain>>
    BY <1>4 DEF Process, Resolve, ResolveFails, HeadNonImage, HeadImage, Transform, TransformFails,
                Fetch, FetchFails, ReadOriginal, ReadOriginalFails, CreateTemp, CreateTempFails,
                CopyToTemp, CopyToTempFails, ReadBack, ReadBackFails, Putting, PutReturns, Deliver,
                SF!Finish, AP!Prepare, AP!Discard, AP!Acquire, AP!Reject, AP!IncInflight,
                AP!Launch, AP!DropFile, flightVars, putVars
  <2>2. UNCHANGED fpc \/ \E to : fpc' = [fpc EXCEPT ![r] = to]
    BY <1>4 DEF Process, Resolve, ResolveFails, HeadNonImage, HeadImage, Transform, TransformFails,
                Fetch, FetchFails, ReadOriginal, ReadOriginalFails, CreateTemp, CreateTempFails,
                CopyToTemp, CopyToTempFails, ReadBack, ReadBackFails, Putting, PutReturns, Deliver,
                Step, processVars
  <2>3. UNCHANGED job \/ \E to : job' = [job EXCEPT ![r] = to]
    BY <1>4 DEF Process, Resolve, ResolveFails, HeadNonImage, HeadImage, Transform, TransformFails,
                Fetch, FetchFails, ReadOriginal, ReadOriginalFails, CreateTemp, CreateTempFails,
                CopyToTemp, CopyToTempFails, ReadBack, ReadBackFails, Putting, PutReturns, Deliver,
                AP!Prepare, AP!Discard, AP!Acquire, AP!Reject, AP!IncInflight, AP!Launch,
                AP!DropFile, AP!Go, putVars
  <2>4. QED BY <1>1, <2>1, <2>2, <2>3 DEF serveVars
<1>5. CASE Background(r)
  <2>1. UNCHANGED <<serveVars, processVars, flightVars, owed>>
        /\ (drain' = drain \/ (drain = "waiting" /\ drain' = "woken"))
    BY <1>5 DEF Background, AP!Upload, AP!UploadFails, AP!S3Remove, AP!DeferRemove,
                AP!DeferDecInflight, AP!DeferRelease, AP!DeferDone
  <2>2. \E to : job' = [job EXCEPT ![r] = to]
    BY <1>5 DEF Background, AP!Upload, AP!UploadFails, AP!S3Remove, AP!DeferRemove,
                AP!DeferDecInflight, AP!DeferRelease, AP!DeferDone, AP!Go
  <2>3. QED BY <1>1, <2>1, <2>2 DEF serveVars, processVars, flightVars
<1>6. QED BY <1>2, <1>3, <1>4, <1>5

(* A put gets into the background from a flight under way. *)
LEMMA LaunchedInFlight ==
    ASSUME RInv, Known, NEW r \in Requests,
           Serve(r) \/ Disconnect(r) \/ Process(r) \/ Background(r),
           job'[r] \in AP!Launched
    PROVE  job[r] \in AP!Launched \/ InFlight(r)
<1>1. job \in [Requests -> AP!States]
  BY DEF Known, Typed, AP!TypeOK
<1>2. CASE Serve(r) \/ Disconnect(r)
  BY <1>2 DEF Serve, LookupHit, LookupMiss, Stream, LeadFlight, JoinFlight, Answer, Abandon,
              PassFetch, PassFails, PassCopy, Disconnect, putVars
<1>3. CASE Process(r)
  BY <1>3 DEF Process, Resolve, ResolveFails, HeadNonImage, HeadImage, Transform, TransformFails,
              Fetch, FetchFails, ReadOriginal, ReadOriginalFails, CreateTemp, CreateTempFails,
              CopyToTemp, CopyToTempFails, ReadBack, ReadBackFails, Putting, PutReturns, Deliver,
              Step, InFlight, SF!Finish
<1>4. CASE Background(r)
  BY <1>1, <1>4 DEF Background, AP!Upload, AP!UploadFails, AP!S3Remove, AP!DeferRemove,
              AP!DeferDecInflight, AP!DeferRelease, AP!DeferDone, AP!Go, AP!Launched
<1>5. QED BY <1>2, <1>3, <1>4

(* Nobody but a client that has gone leaves a flight that it leads. *)
LEMMA LeadersStay ==
    ASSUME RInv, Known, LeadersWait, NEW r \in Requests,
           Serve(r) \/ Disconnect(r) \/ Process(r) \/ Background(r)
    PROVE  LeadersWait'
<1>1. /\ fpc \in [Requests -> FlightPlaces] /\ chans \in [Requests -> SUBSET Requests]
      /\ pc \in [Requests -> {"lookup", "stream", "do", "wait", "pass", "copy", "over"}]
      /\ cancelled \in SUBSET Requests
  BY DEF Known, HInv, Typed, SF!TypeOK, RInv, ServeTypes
<1>2. ASSUME UNCHANGED pc, cancelled \subseteq cancelled', UNCHANGED chans,
             UNCHANGED fpc \/ \E to : fpc[r] \notin {"off", "over"} /\ fpc' = [fpc EXCEPT ![r] = to]
      PROVE  LeadersWait'
  BY <1>1, <1>2 DEF LeadersWait, InFlight, Gone
<1>3. CASE LeadFlight(r)
  BY <1>1, <1>3 DEF LeadFlight, SF!Lead, At, LeadersWait, InFlight, Gone
<1>4. CASE JoinFlight(r)
  <2>1. /\ pc[r] = "do" /\ pc' = [pc EXCEPT ![r] = "wait"] /\ UNCHANGED <<fpc, cancelled>>
        /\ chans' = [chans EXCEPT ![group[KeyOf[r]]] = @ \cup {r}]
    BY <1>4 DEF JoinFlight, SF!Join, At, processVars
  <2>2. \A l \in Requests : chans[l] \subseteq chans'[l]
    BY <1>1, <2>1
  <2>3. QED BY <1>1, <2>1, <2>2 DEF LeadersWait, InFlight, Gone
<1>5. CASE Answer(r)
  <2>1. /\ mail[r] # None /\ pc' = [pc EXCEPT ![r] = "over"]
        /\ UNCHANGED <<fpc, cancelled, chans, fn>>
    BY <1>5 DEF Answer, SF!ReturnResult, At, processVars
  <2>2. ~InFlight(r)
    BY <2>1 DEF Known, HInv, PlaceAndCall, Typed, Flight!IInv, Flight!RegisteredIsOwnAndEmpty,
                Flight!Running, LeadersWait
  <2>3. QED BY <1>1, <2>1, <2>2 DEF LeadersWait, InFlight, Gone
<1>6. CASE Abandon(r)
  BY <1>1, <1>6 DEF Abandon, SF!ReturnCancelled, At, processVars, LeadersWait, InFlight, Gone
<1>7. CASE LookupHit(r) \/ LookupMiss(r) \/ Stream(r) \/ PassFetch(r) \/ PassFails(r) \/ PassCopy(r)
  <2>1. /\ pc[r] \notin {"wait", "over"} /\ \E to : pc' = [pc EXCEPT ![r] = to]
        /\ UNCHANGED <<fpc, cancelled, chans>>
    BY <1>7 DEF LookupHit, LookupMiss, Stream, PassFetch, PassFails, PassCopy, At, processVars,
                flightVars
  <2>2. QED BY <1>1, <2>1 DEF LeadersWait, InFlight, Gone
<1>8. CASE Disconnect(r)
  BY <1>2, <1>8 DEF Disconnect, SF!Cancel, serveVars, processVars
<1>9. CASE Process(r)
  <2>1. UNCHANGED <<pc, cancelled, chans>>
    BY <1>9 DEF Process, Resolve, ResolveFails, HeadNonImage, HeadImage, Transform, TransformFails,
                Fetch, FetchFails, ReadOriginal, ReadOriginalFails, CreateTemp, CreateTempFails,
                CopyToTemp, CopyToTempFails, ReadBack, ReadBackFails, Putting, PutReturns, Deliver,
                SF!Finish, flightVars, serveVars
  <2>2. UNCHANGED fpc \/ \E to : fpc[r] \notin {"off", "over"} /\ fpc' = [fpc EXCEPT ![r] = to]
    BY <1>9 DEF Process, Resolve, ResolveFails, HeadNonImage, HeadImage, Transform, TransformFails,
                Fetch, FetchFails, ReadOriginal, ReadOriginalFails, CreateTemp, CreateTempFails,
                CopyToTemp, CopyToTempFails, ReadBack, ReadBackFails, Putting, PutReturns, Deliver,
                Step, processVars
  <2>3. QED BY <1>2, <2>1, <2>2
<1>10. CASE Background(r)
  BY <1>2, <1>10 DEF Background, serveVars, processVars, flightVars
<1>11. QED BY <1>3, <1>4, <1>5, <1>6, <1>7, <1>8, <1>9, <1>10 DEF Serve

(* Requests, flights and puts. *)
LEMMA WorkSInv ==
    ASSUME SInv, RInv, Known, NEW r \in Requests, Work(r)
    PROVE  SInv'
<1>1. /\ r \in arrived /\ UNCHANGED <<main, arrived, expired, shut>>
      /\ Serve(r) \/ Disconnect(r) \/ Process(r) \/ Background(r)
  BY DEF Work, mainVars
<1>2. /\ \A q \in Requests \ {r} :
             fpc'[q] = fpc[q] /\ pc'[q] = pc[q] /\ job'[q] = job[q]
      /\ \A q \in Requests : reply[q] # None => reply'[q] # None
      /\ cancelled \subseteq cancelled'
      /\ UNCHANGED owed
      /\ drain' = drain \/ (drain = "waiting" /\ drain' = "woken")
  BY <1>1, WorkIsOwn
<1>3. MainTypes'
  BY <1>1 DEF SInv, MainTypes
<1>4. NothingBeforeArrival'
  BY <1>1, <1>2 DEF SInv, NothingBeforeArrival
<1>5. DrainAndMain'
  BY <1>1, <1>2 DEF SInv, DrainAndMain
<1>6. LeadersWait'
  BY <1>1, LeadersStay DEF SInv
<1>7. CleanIsAnswered'
  BY <1>1, <1>2 DEF SInv, CleanIsAnswered, MainTypes
<1>8. OwedAreWaitedFor'
  <2> SUFFICES ASSUME main \in {"drain", "closing", "exited"}, shut = "clean",
                      NEW l \in Requests, job'[l] \in AP!Launched
               PROVE  l \in owed \/ l \in cancelled'
    BY <1>1, <1>2 DEF OwedAreWaitedFor, Gone
  <2>1. CASE job[l] \in AP!Launched
    BY <1>2, <2>1 DEF SInv, OwedAreWaitedFor, Gone
  <2>2. CASE job[l] \notin AP!Launched
    <3>1. l = r
      BY <1>2, <2>2
    <3>2. InFlight(l)
      BY <1>1, <2>2, <3>1, LaunchedInFlight
    <3>3. reply[l] # None
      BY <1>1, <3>1 DEF SInv, CleanIsAnswered
    <3>4. pc[l] = "over"
      BY <3>3 DEF RInv, PlaceOfRequest
    <3>5. Gone(l)
      BY <3>2, <3>4 DEF SInv, LeadersWait
    <3>6. QED BY <1>2, <3>5 DEF Gone
  <2>3. QED BY <2>1, <2>2
<1>9. QED BY <1>3, <1>4, <1>5, <1>6, <1>7, <1>8 DEF SInv

(* main and the clock. *)
LEMMA MainSInv ==
    ASSUME SInv, Known, Main \/ DeadlinePasses \/ \E r \in Requests : Arrive(r)
    PROVE  SInv'
<1> USE DEF SInv, MainTypes, NothingBeforeArrival, DrainAndMain, LeadersWait, InFlight, Gone,
            CleanIsAnswered, OwedAreWaitedFor, MainGoes, vars, serveVars, processVars, flightVars,
            putVars, mainVars
<1>1. CASE ListenFails                      BY <1>1 DEF ListenFails
<1>2. CASE Signal                           BY <1>2 DEF Signal
<1>3. CASE ShutdownReturns                  BY <1>3 DEF ShutdownReturns
<1>4. CASE ShutdownExpires                  BY <1>4 DEF ShutdownExpires
<1>5. CASE BeginDrain
  BY <1>5 DEF BeginDrain, AP!BeginWait, AP!In
<1>6. CASE DrainWakes                       BY <1>6 DEF DrainWakes, AP!WakeUp
<1>7. CASE DrainSucceeds                    BY <1>7 DEF DrainSucceeds, AP!ReturnDrained
<1>8. CASE DrainExpires                     BY <1>8 DEF DrainExpires, AP!ReturnExpired
<1>9. CASE Exit                             BY <1>9 DEF Exit
<1>10. CASE DeadlinePasses                  BY <1>10 DEF DeadlinePasses
<1>11. ASSUME NEW r \in Requests, Arrive(r) PROVE SInv'
  BY <1>11 DEF Arrive
<1>12. QED BY <1>1, <1>2, <1>3, <1>4, <1>5, <1>6, <1>7, <1>8, <1>9, <1>10, <1>11 DEF Main

LEMMA NextSInv == SInv /\ RInv /\ Known /\ [ShutdownNext]_allVars => SInv'
<1>1. ASSUME SInv, UNCHANGED allVars PROVE SInv'
  BY <1>1 DEF allVars, vars, serveVars, processVars, flightVars, putVars, mainVars, SInv,
              MainTypes, NothingBeforeArrival, DrainAndMain, LeadersWait, InFlight, Gone,
              CleanIsAnswered, OwedAreWaitedFor
<1>2. QED BY <1>1, WorkSInv, MainSInv DEF ShutdownNext

THEOREM ShutdownInvariance == ShutdownSpec => []SInv
BY InitSInv, NextSInv, ServesOn, PTL DEF ShutdownSpec

-----------------------------------------------------------------------------
(* Every place of main, a request, a flight and a put is one of those named,  *)
(* during the shutdown too.                                                   *)
THEOREM ShutdownTypes == ShutdownSpec => []ShutdownTypeOK
<1>1. SInv /\ RInv /\ Known => ShutdownTypeOK
  BY DEF SInv, MainTypes, ShutdownTypeOK, RInv, Known, ServeTypes, HInv, Typed, TypeOK
<1>2. QED BY <1>1, ShutdownInvariance, ServesOn, PTL

(* What main cuts off it has reported, except for clients that had gone: an   *)
(* unanswered request makes Shutdown fail, and a put that is not over is one  *)
(* the drain waited for in vain, or came from a flight that Shutdown did.     *)
THEOREM ReportsLosses == ShutdownSpec => []LossIsReported
<1>1. ASSUME SInv, RInv, Known, AP!FileLifetime, AP!DrainHonest PROVE LossIsReported
  <2> SUFFICES ASSUME main = "exited", shut # "none", shut # "timeout"
               PROVE  /\ \A r \in arrived : reply[r] # None
                      /\ drain # "expired" => \A l \in Requests : Unfinished(l) => Gone(l)
    BY DEF LossIsReported
  <2>1. shut = "clean" /\ drain \in {"drained", "expired"} /\ arrived \subseteq Requests
    BY <1>1 DEF SInv, MainTypes, DrainAndMain
  <2>2. \A r \in arrived : reply[r] # None
    BY <1>1, <2>1 DEF SInv, CleanIsAnswered
  <2>3. ASSUME drain # "expired", NEW l \in Requests, l \in files PROVE Gone(l)
    <3>1. \A j \in owed : job[j] = "done"
      BY <1>1, <2>1, <2>3 DEF AP!DrainHonest
    <3>2. job[l] \in Entering \/ job[l] \in AP!Launched \ {"uncounted", "released"}
      BY <1>1, <2>3 DEF Known, Typed, AP!TypeOK, AP!States, AP!Holding, AP!Ended, AP!FileLifetime,
                        Entering, AP!Launched
    <3>3. CASE job[l] \in AP!Launched
      BY <1>1, <2>1, <3>1, <3>3 DEF SInv, OwedAreWaitedFor, AP!Launched
    <3>4. CASE job[l] \in Entering
      <4>1. InFlight(l)
        BY <1>1, <3>4 DEF Known, HInv, PlaceAndJob, InFlight
      <4>2. l \in arrived
        BY <1>1, <4>1 DEF SInv, NothingBeforeArrival, InFlight
      <4>3. pc[l] = "over"
        BY <1>1, <2>2, <4>2 DEF RInv, PlaceOfRequest
      <4>4. QED BY <1>1, <4>1, <4>3 DEF SInv, LeadersWait
    <3>5. QED BY <3>2, <3>3, <3>4
  <2>4. QED BY <2>2, <2>3 DEF Unfinished
<1>2. QED BY <1>1, ShutdownInvariance, ServesOn, PTL

(* WaitContext panics over a put that Shutdown did not wait for: what it did  *)
(* find in the background is over when it is woken, so the put is of a flight *)
(* whose leader has gone, or Shutdown had given up.                           *)
THEOREM PanicsAreCaused == ShutdownSpec => []PanicHasACause
<1>1. ASSUME SInv, Known, CacheInv PROVE PanicHasACause
  <2> SUFFICES ASSUME drain = "panicked", shut # "timeout"
               PROVE  \E l \in Requests : Gone(l) /\ job[l] \in AP!Launched
    BY DEF PanicHasACause
  <2>1. main \in {"drain", "closing", "exited"} /\ shut = "clean"
    BY <1>1 DEF SInv, MainTypes, DrainAndMain
  <2>2. AP!In(AP!Launched) # {}
    BY <1>1, FS_EmptySet DEF CacheInv
  <2>3. PICK l \in Requests : job[l] \in AP!Launched
    BY <2>2 DEF AP!In
  <2>4. l \notin owed
    BY <1>1, <2>3 DEF CacheInv, AP!Launched
  <2>5. Gone(l)
    BY <1>1, <2>1, <2>3, <2>4 DEF SInv, OwedAreWaitedFor
  <2>6. QED BY <2>3, <2>5
<1>2. QED BY <1>1, ShutdownInvariance, ServesOn, PTL

-----------------------------------------------------------------------------
(* Everything promised of the handler holds during the shutdown too, to the   *)
(* last step of the process.                                                  *)
LEMMA ServesClients == ShutdownSpec => []ClientsStay
<1>1. ShutdownInit => ClientsStay
  BY InitClientsStay DEF ShutdownInit
<1>2. ASSUME ClientsStay, [ShutdownNext]_allVars PROVE ClientsStay'
  <2>1. UNCHANGED vars \/ DrainStep => UNCHANGED cancelled
    BY DEF vars, flightVars, DrainStep
  <2>2. UNCHANGED cancelled => ClientsStay'
    BY <1>2 DEF ClientsStay, May
  <2>3. QED BY <1>2, <2>1, <2>2, ShutdownStep, NextClientsStay
<1>3. QED BY <1>1, <1>2, PTL DEF ShutdownSpec

(* The promises of the handler: one transform per key, nothing but finished   *)
(* images in S3, replies that are the request's own, errors for a cause, and  *)
(* somebody to remove every temporary file, of which there are a few.         *)
THEOREM PromisesHold ==
    ShutdownSpec => [](/\ OneTransformPerKey /\ CacheHoldsTransforms /\ RepliesAreOwn
                       /\ ErrorsHaveACause /\ FilesHaveAnOwner /\ DiskIsBounded)
<1>1. ASSUME RInv, Known, AP!FileLifetime, CacheInv
      PROVE  /\ OneTransformPerKey /\ CacheHoldsTransforms /\ RepliesAreOwn
             /\ ErrorsHaveACause /\ FilesHaveAnOwner /\ DiskIsBounded
  <2>1. HInv /\ AP!TypeOK /\ SF!OneFlightPerKey
    BY <1>1 DEF Known, Typed
  <2>2. OneTransformPerKey
    BY <2>1, OneTransformIsOneCall
  <2>3. CacheHoldsTransforms
    BY <2>1, StoredIsTransformed
  <2>4. FilesHaveAnOwner
    BY <1>1, <2>1, PlacesOwnFiles
  <2>5. DiskIsBounded
    BY <1>1, <2>1, <2>2, <2>4, OwnedFilesAreFew
  <2>6. QED BY <1>1, <2>2, <2>3, <2>4, <2>5 DEF RInv
<1>2. QED BY <1>1, ServesOn, PTL

(* async.go:24 comes true when no client goes away: when Shutdown and the     *)
(* drain have both reported success, no put is in flight at the end, and no   *)
(* temporary file of a put that was to come is left.                          *)
THEOREM DrainedUnlessLeft ==
    ASSUME "client" \notin Faults
    PROVE  ShutdownSpec =>
               [](/\ DrainedMeansDrained
                  /\ main = "exited" /\ shut = "clean" /\ drain = "drained" => files = {})
<1>1. ASSUME ClientsStay, SInv, Known, AP!DrainHonest, LossIsReported
      PROVE  /\ DrainedMeansDrained
             /\ main = "exited" /\ shut = "clean" /\ drain = "drained" => files = {}
  <2> SUFFICES ASSUME main = "exited", shut = "clean", drain = "drained"
               PROVE  AP!In(AP!Launched) = {} /\ files = {}
    BY DEF DrainedMeansDrained
  <2>1. \A l \in Requests : ~Gone(l)
    BY <1>1 DEF ClientsStay, Gone, May
  <2>2. ASSUME NEW l \in Requests, job[l] \in AP!Launched PROVE FALSE
    <3>1. l \in owed
      BY <1>1, <2>1, <2>2 DEF SInv, OwedAreWaitedFor
    <3>2. job[l] = "done"
      BY <1>1, <3>1 DEF AP!DrainHonest
    <3>3. QED BY <2>2, <3>2 DEF AP!Launched
  <2>3. files \subseteq Requests
    BY <1>1 DEF Known, Typed, AP!TypeOK
  <2>4. files = {}
    BY <1>1, <2>1, <2>3 DEF LossIsReported, Unfinished
  <2>5. QED BY <2>2, <2>4 DEF AP!In
<1>2. QED BY <1>1, ServesClients, ShutdownInvariance, ServesOn, ReportsLosses, PTL

(* The process is an ImageService from its first request to its end: stopping *)
(* neither takes back a reply nor adds one.                                   *)
THEOREM ServiceToTheEnd == ShutdownSpec => IsImageService
<1>1. ShutdownInit => Service!Init
  BY InitMaps DEF ShutdownInit
<1>2. ASSUME RInv, Known, [ShutdownNext]_allVars PROVE [Service!Next]_(Service!serviceVars)
  <2>1. CASE UNCHANGED vars \/ DrainStep
    <3>1. UNCHANGED <<reply, temp, store>>
      BY <2>1 DEF vars, serveVars, processVars, putVars, DrainStep, AP!Waiting, AP!BeginWait,
                  AP!WakeUp, AP!ReturnDrained, AP!ReturnExpired
    <3>2. QED BY <3>1 DEF Service!serviceVars, Kind
  <2>2. CASE [Next]_vars
    BY <1>2, <2>2, NextMaps
  <2>3. QED BY <1>2, <2>1, <2>2, ShutdownStep
<1>3. QED BY <1>1, <1>2, ServesOn, PTL DEF ShutdownSpec, IsImageService, Service!Spec

-----------------------------------------------------------------------------
(* The steps that are left to main, to its drain and to its clock.            *)
MainSteps(place) ==
    CASE place = "serving" -> 5
      [] place = "shutdown" -> 4
      [] place = "wait" -> 3
      [] place = "drain" -> 2
      [] place = "closing" -> 1
      [] place = "exited" -> 0

DrainSteps(place) == IF place \in {"idle", "waiting", "woken"} THEN 1 ELSE 0

StopSteps == MainSteps(main) + DrainSteps(drain) + (IF expired THEN 0 ELSE 1)

(* A step is of the service, and then main has as many steps left as before;  *)
(* or a request arrives; or it is of main, of which there are seven.          *)
ServiceCounts == \E r \in arrived : Counts(r) /\ UNCHANGED <<arrived, StopSteps>>

ArrivalCounts ==
    \E r \in Requests \ arrived : /\ arrived' = arrived \cup {r}
                                  /\ UNCHANGED StopSteps
                                  /\ \A q \in Requests : UNCHANGED StepsLeft(q)

MainCounts == /\ StopSteps' \in 0..(StopSteps - 1)
              /\ UNCHANGED arrived
              /\ \A q \in Requests : UNCHANGED StepsLeft(q)

LEMMA MainNumbers ==
    /\ MainSteps("serving") = 5 /\ MainSteps("shutdown") = 4 /\ MainSteps("wait") = 3
    /\ MainSteps("drain") = 2 /\ MainSteps("closing") = 1 /\ MainSteps("exited") = 0
BY DEF MainSteps

LEMMA SameSteps ==
    ASSUME UNCHANGED <<pc, fpc, job, cancelled>>, NEW q \in Requests
    PROVE  UNCHANGED StepsLeft(q)
BY DEF StepsLeft, Gone

LEMMA ServiceStepsCount ==
    ASSUME RInv, Known, StepsAreFew, StepsAreFew', NEW r \in Requests, Work(r)
    PROVE  ServiceCounts
<1>1. Counts(r) /\ r \in arrived
  BY WorkCounts DEF Work
<1>2. UNCHANGED mainVars /\ (drain' = drain \/ (drain = "waiting" /\ drain' = "woken"))
  BY WorkIsOwn DEF Work
<1>3. UNCHANGED <<arrived, StopSteps>>
  BY <1>2 DEF mainVars, StopSteps, DrainSteps
<1>4. QED BY <1>1, <1>3 DEF ServiceCounts

LEMMA ArrivalsCount == ASSUME NEW r \in Requests, Arrive(r) PROVE ArrivalCounts
<1>1. /\ r \in Requests \ arrived /\ arrived' = arrived \cup {r}
      /\ UNCHANGED <<vars, main, expired>>
  BY DEF Arrive
<1>2. UNCHANGED <<StopSteps, pc, fpc, job, cancelled>>
  BY <1>1 DEF StopSteps, vars, serveVars, processVars, flightVars, putVars
<1>3. QED BY <1>1, <1>2, SameSteps DEF ArrivalCounts

LEMMA MainStepsCount == ASSUME SInv, Main \/ DeadlinePasses PROVE MainCounts
<1>1. UNCHANGED <<arrived, pc, fpc, job, cancelled>>
  BY DEF Main, ListenFails, Signal, ShutdownReturns, ShutdownExpires, BeginDrain, DrainWakes,
         DrainSucceeds, DrainExpires, Exit, DeadlinePasses, vars, serveVars, processVars,
         flightVars, putVars, mainVars, AP!BeginWait, AP!WakeUp, AP!ReturnDrained,
         AP!ReturnExpired
<1> DEFINE clock == IF expired THEN 0 ELSE 1
<1>2. /\ MainSteps(main) \in 0..5 /\ DrainSteps(drain) \in 0..1 /\ clock \in 0..1
  BY MainNumbers DEF SInv, MainTypes, DrainSteps
<1>3. StopSteps = MainSteps(main) + DrainSteps(drain) + clock
  BY DEF StopSteps
<1>4. \/ MainSteps(main') = MainSteps(main) /\ DrainSteps(drain') = DrainSteps(drain)
         /\ clock = 1 /\ clock' = 0
      \/ MainSteps(main') = MainSteps(main) /\ DrainSteps(drain) = 1 /\ DrainSteps(drain') = 0
         /\ clock' = clock
      \/ MainSteps(main') \in 0..(MainSteps(main) - 1)
         /\ DrainSteps(drain') \in 0..DrainSteps(drain) /\ clock' = clock
  <2>1. CASE DeadlinePasses
    BY <2>1 DEF DeadlinePasses, vars, putVars
  <2>2. CASE DrainWakes
    <3>1. /\ drain = "woken" /\ drain' \in {"signalled", "panicked"}
          /\ UNCHANGED <<main, expired>>
      BY <2>2 DEF DrainWakes, AP!WakeUp, mainVars
    <3>2. QED BY <3>1 DEF DrainSteps
  <2>3. CASE ListenFails \/ Signal \/ ShutdownReturns \/ ShutdownExpires \/ Exit
    <3>1. \/ main = "serving" /\ main' = "exited"
          \/ main = "serving" /\ main' = "shutdown"
          \/ main = "shutdown" /\ main' = "wait"
          \/ main = "closing" /\ main' = "exited"
      BY <2>3 DEF ListenFails, Signal, ShutdownReturns, ShutdownExpires, Exit, MainGoes
    <3>2. UNCHANGED <<drain, expired>>
      BY <2>3 DEF ListenFails, Signal, ShutdownReturns, ShutdownExpires, Exit, vars, putVars
    <3>3. MainSteps(main') \in 0..(MainSteps(main) - 1)
      BY <3>1, MainNumbers
    <3>4. QED BY <1>2, <3>2, <3>3
  <2>4. CASE BeginDrain \/ DrainSucceeds \/ DrainExpires
    <3>1. /\ \/ main = "wait" /\ main' = "drain" /\ drain = "idle"
             \/ main = "drain" /\ main' = "closing" /\ drain' \in {"drained", "expired"}
          /\ UNCHANGED expired
      BY <2>4 DEF BeginDrain, DrainSucceeds, DrainExpires, MainGoes, AP!BeginWait,
                  AP!ReturnDrained, AP!ReturnExpired
    <3>2. MainSteps(main') \in 0..(MainSteps(main) - 1)
      BY <3>1, MainNumbers
    <3>3. DrainSteps(drain') \in 0..DrainSteps(drain)
      BY <3>1 DEF DrainSteps
    <3>4. QED BY <3>1, <3>2, <3>3
  <2>5. QED BY <2>1, <2>2, <2>3, <2>4 DEF Main
<1>5. StopSteps' = MainSteps(main') + DrainSteps(drain') + clock'
  BY DEF StopSteps
<1> HIDE DEF clock
<1>6. StopSteps' \in 0..(StopSteps - 1)
  BY <1>2, <1>3, <1>4, <1>5
<1>7. QED BY <1>1, <1>6, SameSteps DEF MainCounts

(* From its start to its exit the process makes 24 steps at most for each     *)
(* request and seven for main: nothing is waited for by trying again.         *)
THEOREM ProcessIsBounded ==
    ShutdownSpec => [][ServiceCounts \/ ArrivalCounts \/ MainCounts]_allVars
<1>1. /\ RInv /\ Known /\ StepsAreFew /\ StepsAreFew' /\ SInv
      /\ [ShutdownNext]_allVars
      => [ServiceCounts \/ ArrivalCounts \/ MainCounts]_allVars
  BY ServiceStepsCount, ArrivalsCount, MainStepsCount DEF ShutdownNext
<1>2. QED BY <1>1, FewSteps, ServesOn, ShutdownInvariance, PTL DEF ShutdownSpec
=============================================================================

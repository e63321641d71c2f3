---------------------------- MODULE Replies_proofs ----------------------------
(* What the handler sends, for any finite set of requests, any keys, any      *)
(* capacity and any faults: its types, whose image a reply carries, why there *)
(* is an error, and that the handler is an ImageService.                      *)
EXTENDS Handler_proofs

USE RequestsAssumption, RequestKeysAssumption, PoolAssumption, NoneIsNoRequest

-----------------------------------------------------------------------------
(* The invariant that follows an image from the flight that makes it to the   *)
(* reply that carries it:                                                     *)
(*   - a request that passes through never looks at the cache;                *)
(*   - an object that is being streamed is of the right key and was launched; *)
(*   - nothing is in the temporary file before it is made, and what is there  *)
(*     once it is filled stays;                                               *)
(*   - the result of a flight tells the truth about the flight;               *)
(*   - what a waiting request finds is the result of a flight of its key that *)
(*     is over.                                                               *)
ServeTypes ==
    /\ pc \in [Requests -> {"lookup", "stream", "do", "wait", "pass", "copy", "over"}]
    /\ serving \in [Requests -> Requests \cup {None}]
    /\ reply \in [Requests -> Replies \cup {None}]
    /\ draft \in [Requests -> Results \cup {None}]

PlaceOfRequest ==
    \A r \in Requests :
        /\ pc[r] \in {"pass", "copy"} => r \in PassThrough
        /\ pc[r] \in {"lookup", "stream", "do", "wait"} => r \notin PassThrough
        /\ pc[r] # "over" => reply[r] = None

OpenedObject ==
    \A r \in Requests : pc[r] = "stream" =>
        /\ serving[r] \in Requests /\ KeyOf[serving[r]] = KeyOf[r]
        /\ job[serving[r]] \in AP!Launched \cup {"done"}
        /\ store[KeyOf[r]] # None

PlaceAndFile ==
    \A l \in Requests :
        /\ fpc[l] \in {"off", "resolve", "head", "transform", "bypass", "readBypass",
                       "fallback", "readFallback", "create"} => temp[l] = "none"
        /\ fpc[l] = "copy" => temp[l] = "empty"
        /\ fpc[l] \in {"bypass", "readBypass"} => KeyOf[l] \in NonImage

Honest(l, result) ==
    /\ result \in Results
    /\ result.body = "transformed" => temp[l] = "transformed"
    /\ result.xcache # "HIT"
    /\ result.xcache = "BYPASS" => result.body = "original" /\ KeyOf[l] \in NonImage
    /\ result.xcache = "none" => result.body = "error"
    /\ result.code # 200 =>
           Gone(l) \/ Faults \cap {"resolve", "upstream", "disk", "imgproxyBody"} # {}

HonestDrafts ==
    \A l \in Requests : fpc[l] \in {"return", "over"} => Honest(l, draft[l])

OwnMail ==
    \A r \in Requests :
        /\ mail[r] # None => fpc[mail[r]] = "over" /\ KeyOf[mail[r]] = KeyOf[r]
        /\ fpc[r] = "over" => fn[r] = "over"

RInv == /\ ServeTypes
        /\ PlaceOfRequest
        /\ OpenedObject
        /\ PlaceAndFile
        /\ HonestDrafts
        /\ OwnMail
        /\ RepliesAreOwn
        /\ ErrorsHaveACause

Known == HInv /\ Typed

LEMMA InitRInv == Init => RInv
  BY DEF Init, RInv, ServeTypes, PlaceOfRequest, OpenedObject, PlaceAndFile, HonestDrafts, OwnMail,
         RepliesAreOwn, ErrorsHaveACause, SF!Init, AP!Init

(* It speaks of these variables only. *)
LEMMA RInvStutter ==
    RInv /\ UNCHANGED <<pc, serving, reply, fpc, draft, temp, cancelled, fn, mail, job, store>>
        => RInv'
BY DEF RInv, ServeTypes, PlaceOfRequest, OpenedObject, PlaceAndFile, HonestDrafts, Honest, OwnMail,
       RepliesAreOwn, ErrorsHaveACause, Gone

(* ServeHTTP: up to the reply ... *)
LEMMA OpenRInv ==
    ASSUME RInv, Known, NEW r \in Requests,
           \/ LookupHit(r) \/ LookupMiss(r) \/ LeadFlight(r) \/ JoinFlight(r) \/ PassFetch(r)
           \/ Disconnect(r)
    PROVE  RInv'
<1> USE DEF RInv, Known, HInv, Typed, SF!TypeOK, AP!TypeOK, ServeTypes, PlaceOfRequest,
            OpenedObject, PlaceAndFile, HonestDrafts, Honest, OwnMail, RepliesAreOwn,
            ErrorsHaveACause, Gone, At
<1>1. CASE LookupHit(r)
  <2>1. store[KeyOf[r]] \in Requests /\ KeyOf[store[KeyOf[r]]] = KeyOf[r]
        /\ job[store[KeyOf[r]]] \in AP!Launched \cup {"done"}
    BY <1>1, SMTT(30) DEF LookupHit, StoredWasLaunched
  <2>2. QED BY <1>1, <2>1, SMTT(30) DEF LookupHit, processVars, flightVars, putVars
<1>2. CASE LookupMiss(r)
  BY <1>2, SMTT(30) DEF LookupMiss, processVars, flightVars, putVars
<1>3. CASE LeadFlight(r)
  <2>1. fn[r] = "none" /\ fpc[r] # "over"
    BY <1>3, SMTT(30) DEF LeadFlight, SF!Lead, Flight!IInv, Flight!IdleIsFresh
  <2>2. fpc[r] = "off"
    BY <2>1 DEF FlightPlaces, PlaceAndCall, InFlight
  <2>3. QED BY <1>3, <2>1, <2>2, SMTT(30) DEF LeadFlight, SF!Lead, putVars
<1>4. CASE JoinFlight(r)
  BY <1>4, SMTT(30) DEF JoinFlight, SF!Join, processVars, putVars
<1>5. CASE PassFetch(r)
  BY <1>5, SMTT(30) DEF PassFetch, processVars, flightVars, putVars
<1>6. CASE Disconnect(r)
  BY <1>6, SMTT(30) DEF Disconnect, SF!Cancel, serveVars, processVars, putVars
<1>7. QED BY <1>1, <1>2, <1>3, <1>4, <1>5, <1>6

(* ... and with it. *)
LEMMA Sent ==
    ASSUME NEW r \in Requests
    PROVE  /\ Stream(r) => \E whole \in BOOLEAN :
                  reply' = [reply EXCEPT ![r] =
                      [code |-> 200, xcache |-> "HIT", body |-> temp[serving[r]],
                       by |-> serving[r], whole |-> whole]]
           /\ PassFails(r) => \E code \in {404, 502} :
                  /\ reply' = [reply EXCEPT ![r] =
                         [code |-> code, xcache |-> "none", body |-> "error",
                          by |-> None, whole |-> TRUE]]
                  /\ Gone(r) \/ Faults \cap {"resolve", "upstream", "disk", "imgproxyBody"} # {}
           /\ PassCopy(r) => \E whole \in BOOLEAN :
                  reply' = [reply EXCEPT ![r] =
                      [code |-> 200, xcache |-> "none", body |-> "original",
                       by |-> None, whole |-> whole]]
<1>1. ASSUME Stream(r)
      PROVE  \E whole \in BOOLEAN :
                 reply' = [reply EXCEPT ![r] =
                      [code |-> 200, xcache |-> "HIT", body |-> temp[serving[r]],
                       by |-> serving[r], whole |-> whole]]
  BY <1>1 DEF Stream, Send, Result
<1>2. ASSUME PassFails(r)
      PROVE  \E code \in {404, 502} :
                 /\ reply' = [reply EXCEPT ![r] =
                        [code |-> code, xcache |-> "none", body |-> "error",
                         by |-> None, whole |-> TRUE]]
                 /\ Gone(r) \/ Faults \cap {"resolve", "upstream", "disk", "imgproxyBody"} # {}
  <2> DEFINE ErrorCodes == {404, 502}
             upstream == IF May("upstream") THEN {404, 502} ELSE {}
             own == IF Gone(r) \/ May("resolve") THEN {502} ELSE {}
  <2>1. PICK code \in upstream \cup own : Send(r, Error(code), None, TRUE)
    BY <1>2 DEF PassFails
  <2>2. code \in ErrorCodes
    OBVIOUS
  <2>3. Gone(r) \/ May("upstream") \/ May("resolve")
    OBVIOUS
  <2>4. Gone(r) \/ Faults \cap {"resolve", "upstream", "disk", "imgproxyBody"} # {}
    BY <2>3 DEF May
  <2>5. reply' = [reply EXCEPT ![r] = [code |-> code, xcache |-> "none", body |-> "error",
                                       by |-> None, whole |-> TRUE]]
    BY <2>1 DEF Send, Error
  <2> HIDE DEF upstream, own, ErrorCodes
  <2>6. \E c \in ErrorCodes :
            /\ reply' = [reply EXCEPT ![r] = [code |-> c, xcache |-> "none", body |-> "error",
                                              by |-> None, whole |-> TRUE]]
            /\ Gone(r) \/ Faults \cap {"resolve", "upstream", "disk", "imgproxyBody"} # {}
    BY <2>2, <2>4, <2>5
  <2>7. QED BY <2>6 DEF ErrorCodes
<1>3. ASSUME PassCopy(r)
      PROVE  \E whole \in BOOLEAN :
                 reply' = [reply EXCEPT ![r] =
                      [code |-> 200, xcache |-> "none", body |-> "original",
                       by |-> None, whole |-> whole]]
  BY <1>3 DEF PassCopy, Send, Result
<1>4. QED BY <1>1, <1>2, <1>3

LEMMA SendRInv ==
    ASSUME RInv, Known, NEW r \in Requests,
           \/ Stream(r) \/ Answer(r) \/ Abandon(r) \/ PassFails(r) \/ PassCopy(r)
    PROVE  RInv'
<1> USE DEF RInv, Known, HInv, Typed, SF!TypeOK, AP!TypeOK, ServeTypes, PlaceOfRequest,
            OpenedObject, PlaceAndFile, HonestDrafts, Honest, OwnMail, RepliesAreOwn,
            ErrorsHaveACause, Gone, At, Send, Result, Error, Results, Replies, Codes, Bodies
<1>1. CASE Stream(r)
  <2>1. /\ serving[r] \in Requests /\ KeyOf[serving[r]] = KeyOf[r] /\ r \notin PassThrough
        /\ temp[serving[r]] = "transformed"
        /\ job[serving[r]] \notin {"none", "prepared", "rejected", "dropped", "discarded"}
    BY <1>1, SMTT(30) DEF Stream, PlaceAndContent, Handed, AP!Launched
  <2>2. PICK whole \in BOOLEAN :
               reply' = [reply EXCEPT ![r] = [code |-> 200, xcache |-> "HIT", body |-> "transformed",
                                              by |-> serving[r], whole |-> whole]]
    BY <1>1, <2>1, Sent
  <2>3. UNCHANGED <<serving, fpc, draft, temp, cancelled, fn, mail, job, store>>
        /\ pc' = [pc EXCEPT ![r] = "over"]
    BY <1>1, SMTT(30) DEF Stream, processVars, flightVars, putVars
  <2>4. QED BY <2>1, <2>2, <2>3
<1>2. CASE Answer(r)
  BY <1>2, SMTT(30) DEF Answer, SF!ReturnResult, processVars, putVars
<1>3. CASE Abandon(r)
  BY <1>3, SMTT(30) DEF Abandon, SF!ReturnCancelled, processVars, putVars
<1>4. CASE PassFails(r)
  <2>1. PICK code \in {404, 502} :
               /\ reply' = [reply EXCEPT ![r] = [code |-> code, xcache |-> "none", body |-> "error",
                                                 by |-> None, whole |-> TRUE]]
               /\ Gone(r) \/ Faults \cap {"resolve", "upstream", "disk", "imgproxyBody"} # {}
    BY <1>4, Sent
  <2>2. UNCHANGED <<serving, fpc, draft, temp, cancelled, fn, mail, job, store>>
        /\ pc' = [pc EXCEPT ![r] = "over"]
    BY <1>4, SMTT(30) DEF PassFails, processVars, flightVars, putVars
  <2>3. QED BY <2>1, <2>2
<1>5. CASE PassCopy(r)
  <2>1. PICK whole \in BOOLEAN :
               reply' = [reply EXCEPT ![r] = [code |-> 200, xcache |-> "none", body |-> "original",
                                              by |-> None, whole |-> whole]]
    BY <1>5, Sent
  <2>2. UNCHANGED <<serving, fpc, draft, temp, cancelled, fn, mail, job, store>>
        /\ pc' = [pc EXCEPT ![r] = "over"]
    BY <1>5, SMTT(30) DEF PassCopy, processVars, flightVars, putVars
  <2>3. QED BY <2>1, <2>2
<1>6. QED BY <1>1, <1>2, <1>3, <1>4, <1>5

(* A flight that ends with an honest result. *)
LEMMA EndsRInv ==
    ASSUME RInv, Known, NEW l \in Requests, NEW result, Honest(l, result),
           fpc[l] \notin {"off", "return", "over"}, fpc' = [fpc EXCEPT ![l] = "return"],
           Ends(l, result), UNCHANGED <<serveVars, temp, flightVars, putVars>>
    PROVE  RInv'
<1>1. result \in Results
  BY DEF Honest
<1>2. /\ fpc \in [Requests -> FlightPlaces] /\ draft \in [Requests -> Results \cup {None}]
      /\ draft' = [draft EXCEPT ![l] = result]
      /\ UNCHANGED <<pc, serving, reply, temp, cancelled, fn, mail, job, store>>
  BY DEF RInv, ServeTypes, Known, HInv, Ends, serveVars, flightVars, putVars
<1>3. ServeTypes'
  BY <1>1, <1>2 DEF RInv, ServeTypes
<1>4. PlaceOfRequest' /\ OpenedObject' /\ PlaceAndFile'
  BY <1>2 DEF RInv, PlaceOfRequest, OpenedObject, PlaceAndFile
<1>5. HonestDrafts'
  <2>1. ASSUME NEW m \in Requests, fpc'[m] \in {"return", "over"} PROVE Honest(m, draft'[m])
    BY <1>2, <2>1 DEF RInv, HonestDrafts
  <2>2. \A m \in Requests : Honest(m, draft'[m]) => Honest(m, draft[m])'
    BY <1>2 DEF Honest, Gone
  <2>3. QED BY <2>1, <2>2 DEF HonestDrafts
<1>6. OwnMail'
  BY <1>2 DEF RInv, OwnMail
<1>7. RepliesAreOwn' /\ ErrorsHaveACause'
  BY <1>2 DEF RInv, RepliesAreOwn, ErrorsHaveACause, Gone
<1>8. QED BY <1>3, <1>4, <1>5, <1>6, <1>7 DEF RInv

(* An error is honest when there is a cause. *)
LEMMA ErrorIsHonest ==
    ASSUME NEW l \in Requests, NEW code, code = 404 \/ code = 502,
           Gone(l) \/ Faults \cap {"resolve", "upstream", "disk", "imgproxyBody"} # {}
    PROVE  Honest(l, Error(code))
<1> DEFINE e == Error(code)
<1>1. e \in Results /\ e.body = "error" /\ e.xcache = "none"
  BY DEF Error, Results, Codes, Bodies
<1> HIDE DEF e
<1>2. Honest(l, e)
  BY <1>1 DEF Honest
<1>3. QED BY <1>2 DEF e

(* process: before and after the temporary file. *)
LEMMA FlightRInv ==
    ASSUME RInv, Known, NEW l \in Requests,
           \/ Resolve(l) \/ ResolveFails(l) \/ HeadNonImage(l) \/ HeadImage(l)
           \/ Transform(l) \/ TransformFails(l) \/ Fetch(l) \/ FetchFails(l)
           \/ ReadOriginal(l) \/ ReadOriginalFails(l) \/ CreateTempFails(l) \/ Deliver(l)
    PROVE  RInv'
<1>2. CASE ResolveFails(l)
  <2>1. Honest(l, Error(502))
    BY <1>2, ErrorIsHonest DEF ResolveFails, May
  <2>2. QED BY <1>2, <2>1, EndsRInv DEF ResolveFails, Step
<1>8. CASE FetchFails(l)
  <2> DEFINE upstream == IF May("upstream") THEN {404, 502} ELSE {}
             own == IF Gone(l) THEN {502} ELSE {}
  <2>1. PICK code \in upstream \cup own : Ends(l, Error(code))
    BY <1>8, SMTT(30) DEF FetchFails
  <2>2. /\ code = 404 \/ code = 502
        /\ Gone(l) \/ May("upstream")
    OBVIOUS
  <2> HIDE DEF upstream, own
  <2>3. Honest(l, Error(code))
    BY <2>2, ErrorIsHonest DEF May
  <2>4. QED BY <1>8, <2>1, <2>3, EndsRInv DEF FetchFails, Step
<1>10. CASE ReadOriginalFails(l)
  <2>1. Honest(l, Error(502))
    BY <1>10, ErrorIsHonest DEF ReadOriginalFails, May
  <2>2. QED BY <1>10, <2>1, EndsRInv DEF ReadOriginalFails, Step
<1>11. CASE CreateTempFails(l)
  <2>1. Honest(l, Error(502))
    BY <1>11, ErrorIsHonest DEF CreateTempFails, May
  <2>2. QED BY <1>11, <2>1, EndsRInv DEF CreateTempFails, Step
<1> USE DEF RInv, Known, HInv, Typed, SF!TypeOK, AP!TypeOK, ServeTypes, PlaceOfRequest,
            OpenedObject, PlaceAndFile, HonestDrafts, Honest, OwnMail, RepliesAreOwn,
            ErrorsHaveACause, Gone, Step, Ends, serveVars, flightVars, putVars,
            Result, Error, Results, Codes, Bodies, May
<1>1. CASE Resolve(l)            BY <1>1, SMTT(30) DEF Resolve
<1>3. CASE HeadNonImage(l)       BY <1>3, SMTT(30) DEF HeadNonImage
<1>4. CASE HeadImage(l)          BY <1>4, SMTT(30) DEF HeadImage
<1>5. CASE Transform(l)          BY <1>5, SMTT(30) DEF Transform
<1>6. CASE TransformFails(l)     BY <1>6, SMTT(30) DEF TransformFails
<1>7. CASE Fetch(l)              BY <1>7, SMTT(30) DEF Fetch
<1>9. CASE ReadOriginal(l)       BY <1>9, SMTT(30) DEF ReadOriginal
<1>12. CASE Deliver(l)
  BY <1>12, SMTT(30) DEF Deliver, SF!Finish, Flight!IInv, Flight!RegisteredIsOwnAndEmpty, Flight!Running
<1>13. QED BY <1>1, <1>2, <1>3, <1>4, <1>5, <1>6, <1>7, <1>8, <1>9, <1>10, <1>11, <1>12

(* process: while the flight owns its temporary file. *)
LEMMA FileRInv ==
    ASSUME RInv, Known, NEW l \in Requests,
           \/ CreateTemp(l) \/ CopyToTemp(l) \/ CopyToTempFails(l)
           \/ ReadBack(l) \/ ReadBackFails(l) \/ Putting(l) \/ PutReturns(l)
    PROVE  RInv'
<1> USE DEF RInv, Known, HInv, Typed, SF!TypeOK, AP!TypeOK, ServeTypes, PlaceOfRequest,
            OpenedObject, PlaceAndFile, HonestDrafts, Honest, OwnMail, RepliesAreOwn,
            ErrorsHaveACause, Gone, Step, Ends, serveVars, processVars, flightVars, putVars,
            Result, Error, Results, Codes, Bodies, May, AP!Go, AP!Launched
<1>1. CASE CreateTemp(l)       BY <1>1, SMTT(30) DEF CreateTemp, AP!Prepare
<1>2. CASE CopyToTemp(l)       BY <1>2, SMTT(30) DEF CopyToTemp
<1>3. CASE CopyToTempFails(l)  BY <1>3, SMTT(30) DEF CopyToTempFails, AP!Discard
<1>4. CASE ReadBack(l)         BY <1>4, SMTT(30) DEF ReadBack
<1>5. CASE ReadBackFails(l)    BY <1>5, SMTT(30) DEF ReadBackFails, AP!Discard
<1>6. CASE Putting(l)
  <2>1. CASE AP!Acquire(l)     BY <1>6, <2>1, SMTT(30) DEF Putting, AP!Acquire
  <2>2. CASE AP!Reject(l)      BY <1>6, <2>2, SMTT(30) DEF Putting, AP!Reject
  <2>3. CASE AP!IncInflight(l) BY <1>6, <2>3, SMTT(30) DEF Putting, AP!IncInflight
  <2>4. QED BY <1>6, <2>1, <2>2, <2>3, SMTT(30) DEF Putting
<1>7. CASE PutReturns(l)
  <2>1. draft' = [draft EXCEPT ![l] = [code |-> 200, xcache |-> "MISS", body |-> "transformed"]]
    BY <1>7 DEF PutReturns, PlaceAndContent
  <2>2. /\ fpc[l] = "put" /\ fpc' = [fpc EXCEPT ![l] = "return"]
        /\ temp[l] = "transformed"
        /\ UNCHANGED <<pc, serving, reply, temp, cancelled, fn, mail, store>>
    BY <1>7, SMTT(30) DEF PutReturns, AP!Launch, AP!DropFile, PlaceAndContent
  <2>3. \/ job[l] = "counted" /\ job' = [job EXCEPT ![l] = "running"]
        \/ job[l] = "rejected" /\ job' = [job EXCEPT ![l] = "dropped"]
    BY <1>7, SMTT(30) DEF PutReturns, AP!Launch, AP!DropFile
  <2>4. ServeTypes'             BY <2>1, <2>2
  <2>5. HonestDrafts'           BY <2>1, <2>2
  <2>6. OpenedObject'           BY <2>2, <2>3
  <2>7. \A j \in Requests :
            job[j] \notin {"none", "prepared", "rejected", "dropped", "discarded"} =>
                job'[j] \notin {"none", "prepared", "rejected", "dropped", "discarded"}
    BY <2>3
  <2>8. RepliesAreOwn'
    <3> HIDE DEF OpenedObject, PlaceAndFile, HonestDrafts, OwnMail, ErrorsHaveACause
    <3> QED BY <2>2, <2>7 DEF Replies
  <2>9. PlaceOfRequest' /\ PlaceAndFile' /\ OwnMail'  BY <2>2
  <2>10. ErrorsHaveACause'      BY <2>2
  <2>11. QED BY <2>4, <2>5, <2>6, <2>8, <2>9, <2>10
<1>8. QED BY <1>1, <1>2, <1>3, <1>4, <1>5, <1>6, <1>7

(* The background put. *)
LEMMA BackgroundRInv ==
    ASSUME RInv, Known, NEW j \in Requests, Background(j)
    PROVE  RInv'
<1> USE DEF RInv, Known, HInv, Typed, SF!TypeOK, AP!TypeOK, ServeTypes, PlaceOfRequest,
            OpenedObject, PlaceAndFile, HonestDrafts, Honest, OwnMail, RepliesAreOwn,
            ErrorsHaveACause, Gone, serveVars, processVars, flightVars, AP!Go, AP!Launched
<1>1. CASE AP!Upload(j)            BY <1>1, SMTT(30) DEF Background, AP!Upload
<1>2. CASE AP!UploadFails(j)       BY <1>2, SMTT(30) DEF Background, AP!UploadFails
<1>3. CASE AP!S3Remove(j)          BY <1>3, SMTT(30) DEF Background, AP!S3Remove
<1>4. CASE AP!DeferRemove(j)       BY <1>4, SMTT(30) DEF Background, AP!DeferRemove
<1>5. CASE AP!DeferDecInflight(j)  BY <1>5, SMTT(30) DEF Background, AP!DeferDecInflight
<1>6. CASE AP!DeferRelease(j)      BY <1>6, SMTT(30) DEF Background, AP!DeferRelease
<1>7. CASE AP!DeferDone(j)         BY <1>7, SMTT(30) DEF Background, AP!DeferDone
<1>8. QED BY <1>1, <1>2, <1>3, <1>4, <1>5, <1>6, <1>7 DEF Background

LEMMA NextRInv == RInv /\ Known /\ [Next]_vars => RInv'
<1>1. ASSUME RInv, Known, NEW r \in Requests, Serve(r) \/ Disconnect(r) PROVE RInv'
  BY <1>1, OpenRInv, SendRInv DEF Serve
<1>2. ASSUME RInv, Known, NEW r \in Requests, Process(r) PROVE RInv'
  BY <1>2, FlightRInv, FileRInv DEF Process
<1>3. ASSUME RInv, UNCHANGED vars PROVE RInv'
  BY <1>3, RInvStutter DEF vars, serveVars, processVars, flightVars, putVars
<1>4. QED BY <1>1, <1>2, <1>3, BackgroundRInv DEF Next, Quiescent

THEOREM ReplyInvariance == Spec => [](RInv /\ Known)
<1>1. Spec => []Typed
  BY UsesCoalescer, UsesCache, CoalescerFacts, CacheFacts, PTL DEF Typed
<1>2. Known <=> HInv /\ Typed
  BY DEF Known
<1>3. Spec => []Known
  BY <1>1, <1>2, Invariance, PTL
<1>4. QED BY <1>3, InitRInv, NextRInv, PTL DEF Spec

(* Every place, result and reply of the handler is one of those named. *)
THEOREM HandlerTypes == Spec => []TypeOK
<1>1. RInv /\ Known => TypeOK
  BY DEF RInv, Known, ServeTypes, HInv, Typed, TypeOK
<1>2. QED BY <1>1, ReplyInvariance, PTL

(* A reply with a body is of the request's own key, from a flight or an       *)
(* object that could give it, and its X-Cache tells the truth.                *)
THEOREM OwnReplies == Spec => []RepliesAreOwn
<1>1. RInv /\ Known => RepliesAreOwn
  BY DEF RInv
<1>2. QED BY <1>1, ReplyInvariance, PTL

(* Trouble with imgproxy, the cache or the pool of puts costs nobody an image. *)
THEOREM CausedErrors == Spec => []ErrorsHaveACause
<1>1. RInv /\ Known => ErrorsHaveACause
  BY DEF RInv
<1>2. QED BY <1>1, ReplyInvariance, PTL

-----------------------------------------------------------------------------
(* Handler implements ImageService.  Each of the three variables of the       *)
(* service follows from one of Handler: the answers from the replies, what    *)
(* was made from the temporary files, what is stored from S3.                 *)
Answers == [r \in Requests |-> Kind(reply[r])]
Made == {KeyOf[l] : l \in {m \in Requests : temp[m] = "transformed"}}
Stored == {k \in Keys : store[k] # None}

LEMMA InitMaps == Init => Service!Init
BY DEF Init, SF!Init, AP!Init, Service!Init, Kind

(* A request is answered with what its place allows. *)
LEMMA ServeMaps ==
    ASSUME RInv, Known, NEW r \in Requests, Serve(r) \/ Disconnect(r)
    PROVE  [Service!Next]_(Service!serviceVars)
<1>1. UNCHANGED <<temp, store>>
  BY DEF Serve, LookupHit, LookupMiss, Stream, LeadFlight, JoinFlight, Answer, Abandon, PassFetch,
         PassFails, PassCopy, Disconnect, processVars, putVars
<1>2. CASE UNCHANGED reply
  BY <1>1, <1>2 DEF Service!serviceVars, Kind
<1>3. ASSUME NEW sent, reply' = [reply EXCEPT ![r] = sent], reply[r] = None,
             \/ sent = None
             \/ Kind(sent) = "hit" /\ r \notin PassThrough /\ KeyOf[r] \in Stored
             \/ Kind(sent) = "miss" /\ r \notin PassThrough /\ KeyOf[r] \in Made
             \/ Kind(sent) = "fallback" /\ r \notin PassThrough
             \/ Kind(sent) = "bypass" /\ r \notin PassThrough /\ KeyOf[r] \in NonImage
             \/ Kind(sent) = "original" /\ r \in PassThrough
             \/ Kind(sent) = "error"
      PROVE  [Service!Next]_(Service!serviceVars)
  <2>1. reply \in [Requests -> Replies \cup {None}]
    BY DEF RInv, ServeTypes
  <2>2. Answers' = [Answers EXCEPT ![r] = Kind(sent)] /\ Answers[r] = None
    BY <1>3, <2>1 DEF Answers, Kind
  <2>3. Made' = Made /\ Stored' = Stored
    BY <1>1 DEF Made, Stored
  <2>4. ASSUME NEW kind, Kind(sent) = kind PROVE Service!Reply(r, kind)
    BY <2>2, <2>3, <2>4 DEF Service!Reply, Answers, Made, Stored
  <2>5. sent = None => UNCHANGED reply
    BY <1>3, <2>1
  <2>6. QED BY <1>2, <1>3, <2>4, <2>5 DEF Service!Next, Service!Hit, Service!Miss, Service!FallBack,
               Service!Bypass, Service!Original, Service!Refuse, Made, Stored
<1>4. CASE Stream(r)
  <2>1. PICK whole \in BOOLEAN :
               reply' = [reply EXCEPT ![r] = [code |-> 200, xcache |-> "HIT",
                                              body |-> temp[serving[r]],
                                              by |-> serving[r], whole |-> whole]]
    BY <1>4, Sent
  <2> DEFINE sent == [code |-> 200, xcache |-> "HIT", body |-> temp[serving[r]],
                      by |-> serving[r], whole |-> whole]
  <2>2. /\ pc[r] = "stream" /\ serving[r] \in Requests /\ job[serving[r]] \in Handed
        /\ KeyOf[r] \in Stored /\ reply[r] = None /\ r \notin PassThrough
    BY <1>4 DEF Stream, At, RInv, OpenedObject, PlaceOfRequest, Handed, Stored
  <2>3. temp[serving[r]] = "transformed"
    BY <2>2 DEF Known, HInv, PlaceAndContent
  <2>4. sent = None \/ Kind(sent) = "hit"
    BY <2>3 DEF Kind
  <2>5. reply' = [reply EXCEPT ![r] = sent]
    BY <2>1
  <2> HIDE DEF sent
  <2>6. QED BY <1>3, <2>2, <2>4, <2>5
<1>5. CASE Answer(r)
  <2> DEFINE d == draft[mail[r]]
             sent == [code |-> d.code, xcache |-> d.xcache, body |-> d.body,
                      by |-> mail[r], whole |-> TRUE]
  <2>1. reply' = [reply EXCEPT ![r] = sent]
    BY <1>5 DEF Answer, Send
  <2>2. /\ mail[r] \in Requests /\ fpc[mail[r]] = "over" /\ KeyOf[mail[r]] = KeyOf[r]
        /\ reply[r] = None /\ r \notin PassThrough
    BY <1>5 DEF Answer, At, SF!ReturnResult, RInv, OwnMail, PlaceOfRequest, Known, Typed, SF!TypeOK
  <2>3. Honest(mail[r], d)
    BY <2>2 DEF RInv, HonestDrafts
  <2> HIDE DEF d
  <2>4. d.xcache \in {"MISS", "BYPASS", "none"} /\ d.body \in Bodies
    BY <2>3 DEF Honest, Results
  <2>5. d.body = "transformed" => KeyOf[r] \in Made
    BY <2>2, <2>3 DEF Honest, Made
  <2>6. \/ sent = None
        \/ Kind(sent) = "error"
        \/ Kind(sent) = "bypass" /\ d.xcache = "BYPASS"
        \/ Kind(sent) = "fallback"
        \/ Kind(sent) = "miss" /\ d.body = "transformed"
    BY <2>3, <2>4 DEF Kind, Honest, Bodies
  <2>7. d.xcache = "BYPASS" => KeyOf[r] \in NonImage
    BY <2>2, <2>3 DEF Honest
  <2> HIDE DEF sent
  <2>8. QED BY <1>3, <2>1, <2>2, <2>5, <2>6, <2>7
<1>6. CASE Abandon(r)
  <2> DEFINE sent == [code |-> 502, xcache |-> "none", body |-> "error",
                      by |-> None, whole |-> TRUE]
  <2>1. reply' = [reply EXCEPT ![r] = sent]
    BY <1>6 DEF Abandon, Send, Error
  <2>2. sent = None \/ Kind(sent) = "error"
    BY DEF Kind
  <2>3. reply[r] = None
    BY <1>6 DEF Abandon, At, RInv, PlaceOfRequest
  <2> HIDE DEF sent
  <2>4. QED BY <1>3, <2>1, <2>2, <2>3
<1>7. CASE PassFails(r)
  <2>1. \E sent : /\ reply' = [reply EXCEPT ![r] = sent]
                  /\ sent = None \/ Kind(sent) = "error"
    <3>1. PICK code \in {404, 502} :
                 reply' = [reply EXCEPT ![r] = [code |-> code, xcache |-> "none", body |-> "error",
                                                by |-> None, whole |-> TRUE]]
      BY <1>7, Sent
    <3> DEFINE it == [code |-> code, xcache |-> "none", body |-> "error",
                      by |-> None, whole |-> TRUE]
    <3>2. it = None \/ Kind(it) = "error"
      BY DEF Kind
    <3>3. reply' = [reply EXCEPT ![r] = it]
      BY <3>1
    <3> HIDE DEF it
    <3>4. QED BY <3>2, <3>3
  <2>2. reply[r] = None
    BY <1>7 DEF PassFails, At, RInv, PlaceOfRequest
  <2>3. QED BY <1>3, <2>1, <2>2
<1>8. CASE PassCopy(r)
  <2>1. PICK whole \in BOOLEAN :
               reply' = [reply EXCEPT ![r] = [code |-> 200, xcache |-> "none", body |-> "original",
                                              by |-> None, whole |-> whole]]
    BY <1>8, Sent
  <2> DEFINE sent == [code |-> 200, xcache |-> "none", body |-> "original",
                      by |-> None, whole |-> whole]
  <2>2. sent = None \/ Kind(sent) = "original"
    BY DEF Kind
  <2>3. reply[r] = None /\ r \in PassThrough
    BY <1>8 DEF PassCopy, At, RInv, PlaceOfRequest
  <2>4. reply' = [reply EXCEPT ![r] = sent]
    BY <2>1
  <2> HIDE DEF sent
  <2>5. QED BY <1>3, <2>2, <2>3, <2>4
<1>9. CASE LookupHit(r) \/ LookupMiss(r) \/ LeadFlight(r) \/ JoinFlight(r) \/ PassFetch(r)
           \/ Disconnect(r)
  <2>1. UNCHANGED reply
    BY <1>9 DEF LookupHit, LookupMiss, LeadFlight, JoinFlight, PassFetch, Disconnect, serveVars
  <2>2. QED BY <1>2, <2>1
<1>10. QED BY <1>4, <1>5, <1>6, <1>7, <1>8, <1>9 DEF Serve

(* A flight makes an image when it has all of it in its file. *)
LEMMA ProcessMaps ==
    ASSUME RInv, Known, NEW l \in Requests, Process(l)
    PROVE  [Service!Next]_(Service!serviceVars)
<1>1. UNCHANGED <<reply, store>>
  BY DEF Process, Resolve, ResolveFails, HeadNonImage, HeadImage, Transform, TransformFails,
         Fetch, FetchFails, ReadOriginal, ReadOriginalFails, CreateTemp, CreateTempFails,
         CopyToTemp, CopyToTempFails, ReadBack, ReadBackFails, Putting, PutReturns, Deliver,
         serveVars, putVars, AP!Prepare, AP!Discard, AP!Acquire, AP!Reject, AP!IncInflight,
         AP!Launch, AP!DropFile
<1>2. temp \in [Requests -> Contents]
  BY DEF Known, HInv
<1>3. CASE CopyToTemp(l)
  <2>1. temp' = [temp EXCEPT ![l] = "transformed"] /\ fpc[l] = "copy"
    BY <1>3 DEF CopyToTemp, Step
  <2>2. KeyOf[l] \in Keys \ NonImage
    BY <2>1 DEF Known, HInv, PlaceAndContent
  <2>3. {m \in Requests : temp'[m] = "transformed"}
            = {m \in Requests : temp[m] = "transformed"} \cup {l}
    BY <1>2, <2>1
  <2>4. Made' = Made \cup {KeyOf[l]}
    BY <2>3 DEF Made
  <2>5. Service!Make(KeyOf[l])
    BY <1>1, <2>2, <2>4 DEF Service!Make, Made, Kind
  <2>6. QED BY <2>2, <2>5 DEF Service!Next
<1>4. ASSUME ~CopyToTemp(l)
      PROVE  {m \in Requests : temp'[m] = "transformed"}
                 = {m \in Requests : temp[m] = "transformed"}
  <2>1. CASE CreateTemp(l)
    <3>1. temp' = [temp EXCEPT ![l] = "empty"] /\ temp[l] = "none"
      BY <2>1 DEF CreateTemp, Step, RInv, PlaceAndFile
    <3>2. QED BY <1>2, <3>1
  <2>2. CASE CopyToTempFails(l)
    <3>1. temp' = [temp EXCEPT ![l] = "partial"] /\ temp[l] = "empty"
      BY <2>2 DEF CopyToTempFails, Step, RInv, PlaceAndFile
    <3>2. QED BY <1>2, <3>1
  <2>3. CASE ~CreateTemp(l) /\ ~CopyToTempFails(l)
    <3>1. temp' = temp
      BY <1>4, <2>3 DEF Process, Resolve, ResolveFails, HeadNonImage, HeadImage, Transform,
             TransformFails, Fetch, FetchFails, ReadOriginal, ReadOriginalFails, CreateTempFails,
             ReadBack, ReadBackFails, Putting, PutReturns, Deliver, processVars
    <3>2. QED BY <3>1
  <2>4. QED BY <2>1, <2>2, <2>3
<1>5. CASE ~CopyToTemp(l)
  BY <1>1, <1>4, <1>5 DEF Service!serviceVars, Kind
<1>6. QED BY <1>3, <1>5

(* A background put stores what was made. *)
LEMMA BackgroundMaps ==
    ASSUME RInv, Known, NEW j \in Requests, Background(j)
    PROVE  [Service!Next]_(Service!serviceVars)
<1>1. UNCHANGED <<reply, temp>>
  BY DEF Background, serveVars, processVars
<1>2. CASE UNCHANGED store
  BY <1>1, <1>2 DEF Service!serviceVars, Kind
<1>3. ASSUME job[j] = "running", store' = [store EXCEPT ![KeyOf[j]] = j]
      PROVE  Service!Next
  <2>1. KeyOf[j] \in Keys /\ temp[j] = "transformed"
    BY <1>3 DEF Known, HInv, PlaceAndContent, Handed, AP!Launched
  <2>2. KeyOf[j] \in Made
    BY <2>1 DEF Made
  <2>3. Stored' = Stored \cup {KeyOf[j]}
    BY <1>3, <2>1 DEF Stored, Known, Typed, AP!TypeOK
  <2>4. Service!Store(KeyOf[j])
    BY <1>1, <2>2, <2>3 DEF Service!Store, Made, Stored, Kind
  <2>5. QED BY <2>1, <2>4 DEF Service!Next
<1>4. \/ UNCHANGED store
      \/ job[j] = "running" /\ store' = [store EXCEPT ![KeyOf[j]] = j]
  BY DEF Background, AP!Upload, AP!UploadFails, AP!S3Remove, AP!DeferRemove, AP!DeferDecInflight,
         AP!DeferRelease, AP!DeferDone, AP!Go
<1>5. QED BY <1>2, <1>3, <1>4

LEMMA NextMaps == RInv /\ Known /\ [Next]_vars => [Service!Next]_(Service!serviceVars)
<1> SUFFICES ASSUME RInv, Known, [Next]_vars PROVE [Service!Next]_(Service!serviceVars)
  OBVIOUS
<1>1. CASE UNCHANGED vars
  BY <1>1 DEF vars, serveVars, processVars, putVars, Service!serviceVars, Kind
<1>2. QED BY <1>1, ServeMaps, ProcessMaps, BackgroundMaps DEF Next, Quiescent

(* Every behaviour of Handler is one of ImageService. *)
THEOREM ImplementsService == Spec => IsImageService
BY NextMaps, InitMaps, ReplyInvariance, PTL DEF Spec, IsImageService, Service!Spec

-----------------------------------------------------------------------------
(* What the documentation promises and the code does not keep (see Handler)   *)
(* is true when certain things never happen, whatever else does.              *)
LEMMA NextGone ==
    [Next]_vars => cancelled \subseteq cancelled' /\ (cancelled' # cancelled => May("client"))
<1>1. ASSUME NEW r \in Requests, Serve(r) PROVE UNCHANGED cancelled
  BY <1>1 DEF Serve, LookupHit, LookupMiss, Stream, LeadFlight, JoinFlight, Answer, Abandon,
              PassFetch, PassFails, PassCopy, flightVars, SF!Lead, SF!Join, SF!ReturnResult,
              SF!ReturnCancelled
<1>2. ASSUME NEW r \in Requests, Disconnect(r)
      PROVE  cancelled \subseteq cancelled' /\ May("client")
  BY <1>2 DEF Disconnect, SF!Cancel
<1>3. ASSUME NEW r \in Requests, Process(r) PROVE UNCHANGED cancelled
  BY <1>3 DEF Process, Resolve, ResolveFails, HeadNonImage, HeadImage, Transform, TransformFails,
              Fetch, FetchFails, ReadOriginal, ReadOriginalFails, CreateTemp, CreateTempFails,
              CopyToTemp, CopyToTempFails, ReadBack, ReadBackFails, Putting, PutReturns, Deliver,
              flightVars, SF!Finish
<1>4. ASSUME NEW r \in Requests, Background(r) PROVE UNCHANGED cancelled
  BY <1>4 DEF Background, flightVars
<1>5. ASSUME UNCHANGED vars PROVE UNCHANGED cancelled
  BY <1>5 DEF vars, flightVars
<1>6. QED BY <1>1, <1>2, <1>3, <1>4, <1>5 DEF Next, Quiescent

(* Only a client that may go is ever gone. *)
ClientsStay == cancelled # {} => May("client")

LEMMA InitClientsStay == Init => ClientsStay
BY DEF Init, SF!Init, ClientsStay

LEMMA NextClientsStay == ClientsStay /\ [Next]_vars => ClientsStay'
BY NextGone DEF ClientsStay, May

(* coalesce.go:26 and :29 come true when no client goes away: then nothing    *)
(* that happens to imgproxy, to the cache or to the pool of puts costs        *)
(* anybody the image.                                                         *)
THEOREM PatientClientsServed ==
    ASSUME Faults \cap {"client", "resolve", "upstream", "disk", "imgproxyBody"} = {}
    PROVE  Spec => []LiveClientsServed
<1>1. ClientsStay /\ ErrorsHaveACause => LiveClientsServed
  BY DEF ClientsStay, ErrorsHaveACause, LiveClientsServed, Gone, May
<1>2. QED BY <1>1, InitClientsStay, NextClientsStay, CausedErrors, PTL DEF Spec

(* A hit is cut off only when S3 breaks off, or for a client that has gone.   *)
CutHitsHaveACause ==
    \A r \in Requests : reply[r] # None /\ reply[r].xcache = "HIT" /\ ~reply[r].whole =>
        Gone(r) \/ May("s3stream")

LEMMA NextCutHits ==
    RInv /\ Known /\ CutHitsHaveACause /\ [Next]_vars => CutHitsHaveACause'
<1> SUFFICES ASSUME RInv, Known, CutHitsHaveACause, [Next]_vars PROVE CutHitsHaveACause'
  OBVIOUS
<1>1. cancelled \subseteq cancelled' /\ reply \in [Requests -> Replies \cup {None}]
  BY NextGone DEF RInv, ServeTypes
<1>2. CASE UNCHANGED reply
  BY <1>1, <1>2 DEF CutHitsHaveACause, Gone, May
<1>3. ASSUME NEW r \in Requests, NEW sent, reply' = [reply EXCEPT ![r] = sent],
             sent.xcache = "HIT" /\ ~sent.whole => Gone(r) \/ May("s3stream")
      PROVE  CutHitsHaveACause'
  BY <1>1, <1>3 DEF CutHitsHaveACause, Gone, May
<1>4. ASSUME NEW r \in Requests, Stream(r) PROVE CutHitsHaveACause'
  <2> DEFINE ends == {TRUE} \cup (IF Gone(r) \/ May("s3stream") THEN {FALSE} ELSE {})
  <2>1. \E whole \in ends : Send(r, Result("HIT", temp[serving[r]]), serving[r], whole)
    BY <1>4, Zenon DEF Stream
  <2>2. \A whole \in ends : whole = TRUE \/ Gone(r) \/ May("s3stream")
    OBVIOUS
  <2> HIDE DEF ends
  <2>3. PICK whole \in ends : Send(r, Result("HIT", temp[serving[r]]), serving[r], whole)
    BY <2>1
  <2> DEFINE sent == [code |-> 200, xcache |-> "HIT", body |-> temp[serving[r]],
                      by |-> serving[r], whole |-> whole]
  <2>4. reply' = [reply EXCEPT ![r] = sent]
    BY <2>3 DEF Send, Result
  <2>5. ~sent.whole => Gone(r) \/ May("s3stream")
    BY <2>2
  <2> HIDE DEF sent
  <2>6. QED BY <1>3, <2>4, <2>5
<1>5. ASSUME NEW r \in Requests, Answer(r) PROVE CutHitsHaveACause'
  <2> DEFINE d == draft[mail[r]]
             sent == [code |-> d.code, xcache |-> d.xcache, body |-> d.body,
                      by |-> mail[r], whole |-> TRUE]
  <2>1. reply' = [reply EXCEPT ![r] = sent] /\ sent.whole
    BY <1>5 DEF Answer, Send
  <2> HIDE DEF sent
  <2>2. QED BY <1>3, <2>1
<1>6. ASSUME NEW r \in Requests, Abandon(r) \/ PassFails(r) \/ PassCopy(r)
      PROVE  CutHitsHaveACause'
  <2>1. \E code, body, by, whole :
            reply' = [reply EXCEPT ![r] = [code |-> code, xcache |-> "none", body |-> body,
                                           by |-> by, whole |-> whole]]
    BY <1>6, Sent DEF Abandon, Send, Error
  <2>2. PICK code, body, by, whole :
            reply' = [reply EXCEPT ![r] = [code |-> code, xcache |-> "none", body |-> body,
                                           by |-> by, whole |-> whole]]
    BY <2>1
  <2> DEFINE sent == [code |-> code, xcache |-> "none", body |-> body, by |-> by, whole |-> whole]
  <2>3. reply' = [reply EXCEPT ![r] = sent] /\ sent.xcache # "HIT"
    BY <2>2
  <2> HIDE DEF sent
  <2>4. QED BY <1>3, <2>3
<1>7. ASSUME NEW r \in Requests,
             \/ LookupHit(r) \/ LookupMiss(r) \/ LeadFlight(r) \/ JoinFlight(r) \/ PassFetch(r)
             \/ Disconnect(r) \/ Process(r) \/ Background(r)
      PROVE  UNCHANGED reply
  BY <1>7 DEF LookupHit, LookupMiss, LeadFlight, JoinFlight, PassFetch, Disconnect, Background,
              Process, Resolve, ResolveFails, HeadNonImage, HeadImage, Transform, TransformFails,
              Fetch, FetchFails, ReadOriginal, ReadOriginalFails, CreateTemp, CreateTempFails,
              CopyToTemp, CopyToTempFails, ReadBack, ReadBackFails, Putting, PutReturns, Deliver,
              serveVars
<1>8. UNCHANGED vars => UNCHANGED reply
  BY DEF vars, serveVars
<1>9. QED BY <1>2, <1>4, <1>5, <1>6, <1>7, <1>8 DEF Next, Serve, Quiescent

THEOREM CutHits == Spec => []CutHitsHaveACause
<1>1. Init => CutHitsHaveACause
  BY DEF Init, CutHitsHaveACause
<1>2. QED BY <1>1, NextCutHits, ReplyInvariance, PTL DEF Spec

(* README.md:8 comes true when S3 never breaks off and no client goes away:   *)
(* every hit is the whole image.                                              *)
THEOREM WholeHits ==
    ASSUME Faults \cap {"client", "s3stream"} = {}
    PROVE  Spec => []HitsAreWhole
<1>1. RInv /\ ClientsStay /\ CutHitsHaveACause => HitsAreWhole
  BY DEF RInv, ServeTypes, Replies, ClientsStay, CutHitsHaveACause, HitsAreWhole, Gone, May
<1>2. QED BY <1>1, InitClientsStay, NextClientsStay, CutHits, ReplyInvariance, PTL DEF Spec

-----------------------------------------------------------------------------
(* What a flight has come to never changes again, and its replies say just    *)
(* that.                                                                      *)
RepliesAreDrafts ==
    \A l, r \in Requests : Answered(r, l) =>
        /\ fpc[l] = "over"
        /\ reply[r].code = draft[l].code
        /\ reply[r].xcache = draft[l].xcache
        /\ reply[r].body = draft[l].body

LEMMA NextDrafts ==
    RInv /\ Known /\ RepliesAreDrafts /\ [Next]_vars => RepliesAreDrafts'
<1> SUFFICES ASSUME RInv, Known, RepliesAreDrafts, [Next]_vars PROVE RepliesAreDrafts'
  OBVIOUS
<1>1. /\ reply \in [Requests -> Replies \cup {None}] /\ fpc \in [Requests -> FlightPlaces]
      /\ draft \in [Requests -> Results \cup {None}]
  BY DEF RInv, ServeTypes, Known, HInv
<1>2. ASSUME UNCHANGED reply,
             \A l \in Requests : fpc[l] = "over" => fpc'[l] = "over" /\ draft'[l] = draft[l]
      PROVE  RepliesAreDrafts'
  BY <1>2 DEF RepliesAreDrafts, Answered
<1>3. ASSUME UNCHANGED <<fpc, draft>>, NEW r \in Requests, NEW sent,
             reply' = [reply EXCEPT ![r] = sent], sent.by = None \/ sent.xcache = "HIT"
      PROVE  RepliesAreDrafts'
  BY <1>1, <1>3 DEF RepliesAreDrafts, Answered
<1>4. ASSUME NEW r \in Requests, Stream(r) \/ Abandon(r) \/ PassFails(r) \/ PassCopy(r)
      PROVE  RepliesAreDrafts'
  <2>1. \E code, xcache, body, by, whole :
            /\ reply' = [reply EXCEPT ![r] = [code |-> code, xcache |-> xcache, body |-> body,
                                              by |-> by, whole |-> whole]]
            /\ by = None \/ xcache = "HIT"
    BY <1>4, Sent DEF Abandon, Send, Error
  <2>2. PICK code, xcache, body, by, whole :
            /\ reply' = [reply EXCEPT ![r] = [code |-> code, xcache |-> xcache, body |-> body,
                                              by |-> by, whole |-> whole]]
            /\ by = None \/ xcache = "HIT"
    BY <2>1
  <2> DEFINE sent == [code |-> code, xcache |-> xcache, body |-> body, by |-> by,
                      whole |-> whole]
  <2>3. reply' = [reply EXCEPT ![r] = sent] /\ (sent.by = None \/ sent.xcache = "HIT")
    BY <2>2
  <2> HIDE DEF sent
  <2>4. UNCHANGED <<fpc, draft>>
    BY <1>4 DEF Stream, Abandon, PassFails, PassCopy, processVars
  <2>5. QED BY <1>3, <2>3, <2>4
<1>5. ASSUME NEW r \in Requests, Answer(r) PROVE RepliesAreDrafts'
  <2> DEFINE d == draft[mail[r]]
             sent == [code |-> d.code, xcache |-> d.xcache, body |-> d.body,
                      by |-> mail[r], whole |-> TRUE]
  <2>1. reply' = [reply EXCEPT ![r] = sent] /\ UNCHANGED <<fpc, draft>>
    BY <1>5 DEF Answer, Send, processVars
  <2>2. /\ sent.by = mail[r] /\ sent.code = d.code /\ sent.xcache = d.xcache
        /\ sent.body = d.body
    OBVIOUS
  <2>3. fpc[mail[r]] = "over"
    BY <1>5 DEF Answer, SF!ReturnResult, RInv, OwnMail
  <2> HIDE DEF sent
  <2>4. QED BY <1>1, <2>1, <2>2, <2>3 DEF RepliesAreDrafts, Answered
<1>6. ASSUME NEW r \in Requests,
             \/ LookupHit(r) \/ LookupMiss(r) \/ JoinFlight(r) \/ PassFetch(r)
             \/ Disconnect(r) \/ Background(r)
      PROVE  UNCHANGED <<reply, fpc, draft>>
  BY <1>6 DEF LookupHit, LookupMiss, JoinFlight, PassFetch, Disconnect, Background, serveVars,
              processVars
<1>7. ASSUME NEW r \in Requests, LeadFlight(r) PROVE RepliesAreDrafts'
  <2>1. fpc[r] # "over"
    BY <1>7 DEF LeadFlight, SF!Lead, RInv, OwnMail, Known, Typed, Flight!IInv,
                Flight!IdleIsFresh
  <2>2. UNCHANGED <<reply, draft>> /\ fpc' = [fpc EXCEPT ![r] = "resolve"]
    BY <1>7 DEF LeadFlight
  <2>3. QED BY <1>1, <1>2, <2>1, <2>2
<1>8. ASSUME NEW l \in Requests, Process(l) PROVE RepliesAreDrafts'
  <2>1. UNCHANGED reply /\ fpc[l] # "over"
    BY <1>8 DEF Process, Resolve, ResolveFails, HeadNonImage, HeadImage, Transform, TransformFails,
                Fetch, FetchFails, ReadOriginal, ReadOriginalFails, CreateTemp, CreateTempFails,
                CopyToTemp, CopyToTempFails, ReadBack, ReadBackFails, Putting, PutReturns, Deliver,
                Step, serveVars
  <2>2. UNCHANGED fpc \/ \E to : fpc' = [fpc EXCEPT ![l] = to]
    BY <1>8 DEF Process, Resolve, ResolveFails, HeadNonImage, HeadImage, Transform, TransformFails,
                Fetch, FetchFails, ReadOriginal, ReadOriginalFails, CreateTemp, CreateTempFails,
                CopyToTemp, CopyToTempFails, ReadBack, ReadBackFails, Putting, PutReturns, Deliver,
                Step, processVars
  <2>3. UNCHANGED draft \/ \E result : draft' = [draft EXCEPT ![l] = result]
    <3>1. CASE FetchFails(l)
      <4> DEFINE codes == (IF May("upstream") THEN {404, 502} ELSE {})
                          \cup (IF Gone(l) THEN {502} ELSE {})
      <4>1. \E code \in codes : Ends(l, Error(code))
        BY <3>1, Zenon DEF FetchFails
      <4> HIDE DEF codes
      <4>2. QED BY <4>1 DEF Ends
    <3>2. CASE ~FetchFails(l)
      BY <1>8, <3>2 DEF Process, Resolve, ResolveFails, HeadNonImage, HeadImage, Transform,
                TransformFails, Fetch, ReadOriginal, ReadOriginalFails, CreateTemp, CreateTempFails,
                CopyToTemp, CopyToTempFails, ReadBack, ReadBackFails, Putting, PutReturns, Deliver,
                Ends, processVars
    <3>3. QED BY <3>1, <3>2
  <2>4. \A m \in Requests : fpc[m] = "over" => fpc'[m] = "over" /\ draft'[m] = draft[m]
    BY <1>1, <2>1, <2>2, <2>3
  <2>5. QED BY <1>2, <2>1, <2>4
<1>9. UNCHANGED vars => UNCHANGED <<reply, fpc, draft>>
  BY DEF vars, serveVars, processVars
<1>10. QED BY <1>2, <1>4, <1>5, <1>6, <1>7, <1>8, <1>9 DEF Next, Serve, Quiescent

(* Everybody whom a flight answers is answered the same.                      *)
THEOREM SameResult == Spec => []OneResultForAll
<1>1. Init => RepliesAreDrafts
  BY DEF Init, RepliesAreDrafts, Answered
<1>2. RepliesAreDrafts => OneResultForAll
  BY DEF RepliesAreDrafts, OneResultForAll
<1>3. QED BY <1>1, <1>2, NextDrafts, ReplyInvariance, PTL DEF Spec

-----------------------------------------------------------------------------
(* The steps that are left to a request, to its flight and to its put.        *)
StepsAreFew ==
    \A r \in Requests :
        /\ ServeSteps(pc[r]) \in 0..3 /\ FlightSteps(fpc[r]) \in 0..9
        /\ PutSteps(job[r]) \in 0..10

LEMMA FewSteps == RInv /\ Known => StepsAreFew
<1> SUFFICES ASSUME RInv, Known, NEW r \in Requests
             PROVE  /\ ServeSteps(pc[r]) \in 0..3 /\ FlightSteps(fpc[r]) \in 0..9
                    /\ PutSteps(job[r]) \in 0..10
  BY DEF StepsAreFew
<1>1. /\ pc[r] \in {"lookup", "stream", "do", "wait", "pass", "copy", "over"}
      /\ fpc[r] \in FlightPlaces /\ job[r] \in AP!States
  BY DEF RInv, ServeTypes, Known, HInv, Typed, AP!TypeOK
<1>2. ServeSteps(pc[r]) \in 0..3
  BY <1>1 DEF ServeSteps
<1>3. FlightSteps(fpc[r]) \in 0..9
  BY <1>1 DEF FlightSteps, FlightPlaces
<1>4. PutSteps(job[r]) \in 0..10
  BY <1>1 DEF PutSteps, AP!States, AP!Holding, AP!Ended
<1>5. QED BY <1>2, <1>3, <1>4

(* A step of r takes r on, nothing of r back, and leaves the others.          *)
OthersStay(r) ==
    \A q \in Requests \ {r} :
        /\ pc'[q] = pc[q] /\ fpc'[q] = fpc[q] /\ job'[q] = job[q]
        /\ (q \in cancelled') = (q \in cancelled)

StepsAreFewer(r) ==
    /\ ServeSteps(pc'[r]) <= ServeSteps(pc[r])
    /\ FlightSteps(fpc'[r]) <= FlightSteps(fpc[r])
    /\ PutSteps(job'[r]) <= PutSteps(job[r])
    /\ r \in cancelled => r \in cancelled'
    /\ \/ ServeSteps(pc'[r]) < ServeSteps(pc[r])
       \/ FlightSteps(fpc'[r]) < FlightSteps(fpc[r])
       \/ PutSteps(job'[r]) < PutSteps(job[r])
       \/ r \notin cancelled /\ r \in cancelled'

Moves(r) == OthersStay(r) /\ StepsAreFewer(r)

(* The numbers, place by place. *)
LEMMA ServeNumbers ==
    /\ ServeSteps("lookup") = 3 /\ ServeSteps("do") = 2 /\ ServeSteps("pass") = 2
    /\ ServeSteps("wait") = 1 /\ ServeSteps("stream") = 1 /\ ServeSteps("copy") = 1
    /\ ServeSteps("over") = 0
BY DEF ServeSteps

LEMMA NearerPlaces ==
    /\ ServeSteps("stream") < ServeSteps("lookup") /\ ServeSteps("do") < ServeSteps("lookup")
    /\ ServeSteps("over") < ServeSteps("stream") /\ ServeSteps("wait") < ServeSteps("do")
    /\ ServeSteps("over") < ServeSteps("wait") /\ ServeSteps("copy") < ServeSteps("pass")
    /\ ServeSteps("over") < ServeSteps("pass") /\ ServeSteps("over") < ServeSteps("copy")
BY ServeNumbers

LEMMA FlightNumbers ==
    /\ FlightSteps("off") = 9 /\ FlightSteps("resolve") = 8 /\ FlightSteps("head") = 7
    /\ FlightSteps("transform") = 6 /\ FlightSteps("create") = 5 /\ FlightSteps("copy") = 4
    /\ FlightSteps("readback") = 3 /\ FlightSteps("bypass") = 3 /\ FlightSteps("fallback") = 3
    /\ FlightSteps("put") = 2 /\ FlightSteps("readBypass") = 2
    /\ FlightSteps("readFallback") = 2 /\ FlightSteps("return") = 1 /\ FlightSteps("over") = 0
BY DEF FlightSteps

LEMMA PutNumbers ==
    /\ PutSteps("none") = 10 /\ PutSteps("prepared") = 9 /\ PutSteps("acquired") = 8
    /\ PutSteps("counted") = 7 /\ PutSteps("running") = 6 /\ PutSteps("uploaded") = 5
    /\ PutSteps("settled") = 4 /\ PutSteps("cleaned") = 3 /\ PutSteps("uncounted") = 2
    /\ PutSteps("rejected") = 1 /\ PutSteps("released") = 1
    /\ PutSteps("discarded") = 0 /\ PutSteps("dropped") = 0 /\ PutSteps("done") = 0
BY DEF PutSteps, AP!Ended

(* What takes r nearer to its end, in ServeHTTP, in process and in the put.   *)
NearsReply(r) == \E to : pc' = [pc EXCEPT ![r] = to] /\ ServeSteps(to) < ServeSteps(pc[r])

NearsDelivery(r) == \E to : fpc' = [fpc EXCEPT ![r] = to] /\ FlightSteps(to) < FlightSteps(fpc[r])

NearsEnd(r) == \E to : job' = [job EXCEPT ![r] = to] /\ PutSteps(to) < PutSteps(job[r])

LEMMA OnMoves ==
    ASSUME RInv, Known, StepsAreFew, StepsAreFew', NEW r \in Requests, UNCHANGED cancelled,
           UNCHANGED pc \/ NearsReply(r), UNCHANGED fpc \/ NearsDelivery(r),
           UNCHANGED job \/ NearsEnd(r),
           NearsReply(r) \/ NearsDelivery(r) \/ NearsEnd(r)
    PROVE  Moves(r)
<1>1. /\ pc \in [Requests -> {"lookup", "stream", "do", "wait", "pass", "copy", "over"}]
      /\ fpc \in [Requests -> FlightPlaces] /\ job \in [Requests -> AP!States]
  BY DEF RInv, ServeTypes, Known, HInv, Typed, AP!TypeOK
<1>2. /\ ServeSteps(pc[r]) \in Nat /\ FlightSteps(fpc[r]) \in Nat /\ PutSteps(job[r]) \in Nat
      /\ ServeSteps(pc'[r]) \in Nat /\ FlightSteps(fpc'[r]) \in Nat /\ PutSteps(job'[r]) \in Nat
  BY DEF StepsAreFew
<1>3. /\ \A q \in Requests \ {r} : pc'[q] = pc[q]
      /\ UNCHANGED pc \/ ServeSteps(pc'[r]) < ServeSteps(pc[r])
      /\ NearsReply(r) => ServeSteps(pc'[r]) < ServeSteps(pc[r])
  <2>1. ASSUME NEW to, pc' = [pc EXCEPT ![r] = to]
        PROVE  pc'[r] = to /\ \A q \in Requests \ {r} : pc'[q] = pc[q]
    BY <1>1, <2>1
  <2>2. QED BY <2>1 DEF NearsReply
<1>4. /\ \A q \in Requests \ {r} : fpc'[q] = fpc[q]
      /\ UNCHANGED fpc \/ FlightSteps(fpc'[r]) < FlightSteps(fpc[r])
      /\ NearsDelivery(r) => FlightSteps(fpc'[r]) < FlightSteps(fpc[r])
  <2>1. ASSUME NEW to, fpc' = [fpc EXCEPT ![r] = to]
        PROVE  fpc'[r] = to /\ \A q \in Requests \ {r} : fpc'[q] = fpc[q]
    BY <1>1, <2>1
  <2>2. QED BY <2>1 DEF NearsDelivery
<1>5. /\ \A q \in Requests \ {r} : job'[q] = job[q]
      /\ UNCHANGED job \/ PutSteps(job'[r]) < PutSteps(job[r])
      /\ NearsEnd(r) => PutSteps(job'[r]) < PutSteps(job[r])
  <2>1. ASSUME NEW to, job' = [job EXCEPT ![r] = to]
        PROVE  job'[r] = to /\ \A q \in Requests \ {r} : job'[q] = job[q]
    BY <1>1, <2>1
  <2>2. QED BY <2>1 DEF NearsEnd
<1>6. OthersStay(r)
  BY <1>3, <1>4, <1>5, Zenon DEF OthersStay
<1>7. /\ UNCHANGED pc => ServeSteps(pc'[r]) <= ServeSteps(pc[r])
      /\ UNCHANGED fpc => FlightSteps(fpc'[r]) <= FlightSteps(fpc[r])
      /\ UNCHANGED job => PutSteps(job'[r]) <= PutSteps(job[r])
  <2>1. \A n \in Nat : n <= n
    OBVIOUS
  <2>2. QED BY <1>2, <2>1
<1>8. StepsAreFewer(r)
  <2>1. ServeSteps(pc'[r]) <= ServeSteps(pc[r])
    BY <1>2, <1>3, <1>7
  <2>2. FlightSteps(fpc'[r]) <= FlightSteps(fpc[r])
    BY <1>2, <1>4, <1>7
  <2>3. PutSteps(job'[r]) <= PutSteps(job[r])
    BY <1>2, <1>5, <1>7
  <2>4. QED BY <1>3, <1>4, <1>5, <2>1, <2>2, <2>3, Zenon DEF StepsAreFewer
<1>9. QED BY <1>6, <1>8 DEF Moves

LEMMA ServeMoves ==
    ASSUME RInv, Known, StepsAreFew, StepsAreFew', NEW r \in Requests, Serve(r) \/ Disconnect(r)
    PROVE  Moves(r)
<1>0. ASSUME NEW from, NEW to, At(r, from, to), ServeSteps(to) < ServeSteps(from)
      PROVE  NearsReply(r)
  BY <1>0 DEF At, NearsReply
<1>1. CASE LookupHit(r) \/ LookupMiss(r) \/ Stream(r) \/ PassFetch(r) \/ PassFails(r) \/ PassCopy(r)
  <2>1. \/ At(r, "lookup", "stream") \/ At(r, "lookup", "do") \/ At(r, "stream", "over")
        \/ At(r, "pass", "copy") \/ At(r, "pass", "over") \/ At(r, "copy", "over")
    BY <1>1, Zenon DEF LookupHit, LookupMiss, Stream, PassFetch, PassFails, PassCopy
  <2>2. NearsReply(r)
    BY <1>0, <2>1, NearerPlaces
  <2>3. UNCHANGED <<fpc, job, cancelled>>
    BY <1>1 DEF LookupHit, LookupMiss, Stream, PassFetch, PassFails, PassCopy, processVars,
                flightVars, putVars
  <2>4. QED BY <2>2, <2>3, OnMoves
<1>2. CASE JoinFlight(r) \/ Answer(r) \/ Abandon(r)
  <2>1. At(r, "do", "wait") \/ At(r, "wait", "over")
    BY <1>2, Zenon DEF JoinFlight, Answer, Abandon
  <2>2. NearsReply(r)
    BY <1>0, <2>1, NearerPlaces
  <2>3. UNCHANGED <<fpc, job, cancelled>>
    BY <1>2 DEF JoinFlight, Answer, Abandon, SF!Join, SF!ReturnResult, SF!ReturnCancelled,
                processVars, putVars
  <2>4. QED BY <2>2, <2>3, OnMoves
<1>3. CASE LeadFlight(r)
  <2>1. fpc[r] = "off"
    BY <1>3 DEF LeadFlight, SF!Lead, RInv, OwnMail, Known, HInv, PlaceAndCall, InFlight, Typed,
                Flight!IInv, Flight!IdleIsFresh
  <2>2. /\ At(r, "do", "wait") /\ fpc' = [fpc EXCEPT ![r] = "resolve"]
        /\ UNCHANGED <<job, cancelled>>
    BY <1>3 DEF LeadFlight, SF!Lead, putVars
  <2>3. NearsReply(r)
    BY <1>0, <2>2, NearerPlaces
  <2>4. NearsDelivery(r)
    <3>1. FlightSteps("resolve") < FlightSteps(fpc[r])
      BY <2>1, FlightNumbers
    <3>2. QED BY <2>2, <3>1 DEF NearsDelivery
  <2>5. QED BY <2>2, <2>3, <2>4, OnMoves
<1>4. CASE Disconnect(r)
  <2>1. r \notin cancelled /\ cancelled' = cancelled \cup {r} /\ UNCHANGED <<pc, fpc, job>>
    BY <1>4 DEF Disconnect, SF!Cancel, serveVars, processVars, putVars
  <2>2. OthersStay(r)
    BY <2>1 DEF OthersStay
  <2>3. \A n \in Nat : n <= n
    OBVIOUS
  <2>4. /\ ServeSteps(pc'[r]) <= ServeSteps(pc[r]) /\ FlightSteps(fpc'[r]) <= FlightSteps(fpc[r])
        /\ PutSteps(job'[r]) <= PutSteps(job[r])
    BY <2>1, <2>3 DEF StepsAreFew
  <2>5. QED BY <2>1, <2>2, <2>4 DEF Moves, StepsAreFewer
<1>5. QED BY <1>1, <1>2, <1>3, <1>4 DEF Serve

LEMMA ProcessMoves ==
    ASSUME RInv, Known, StepsAreFew, StepsAreFew', NEW l \in Requests, Process(l)
    PROVE  Moves(l)
<1>1. UNCHANGED <<pc, cancelled>>
  BY DEF Process, Resolve, ResolveFails, HeadNonImage, HeadImage, Transform, TransformFails,
         Fetch, FetchFails, ReadOriginal, ReadOriginalFails, CreateTemp, CreateTempFails,
         CopyToTemp, CopyToTempFails, ReadBack, ReadBackFails, Putting, PutReturns, Deliver,
         SF!Finish, serveVars, flightVars
<1>2. ASSUME NEW from, NEW to, Step(l, from, to), FlightSteps(to) < FlightSteps(from)
      PROVE  NearsDelivery(l)
  BY <1>2 DEF Step, NearsDelivery
<1>3. ASSUME NEW from, NEW to, AP!Go(l, from, to), PutSteps(to) < PutSteps(from)
      PROVE  NearsEnd(l)
  BY <1>3 DEF AP!Go, NearsEnd
<1>4. CASE Putting(l)
  <2>1. NearsEnd(l)
    BY <1>3, <1>4, PutNumbers DEF Putting, AP!Acquire, AP!Reject, AP!IncInflight
  <2>2. QED BY <1>1, <1>4, <2>1, OnMoves DEF Putting, processVars
<1>5. CASE PutReturns(l)
  <2>1. NearsDelivery(l) /\ NearsEnd(l)
    BY <1>2, <1>3, <1>5, PutNumbers, FlightNumbers DEF PutReturns, AP!Launch, AP!DropFile
  <2>2. QED BY <1>1, <2>1, OnMoves
<1>6. CASE CreateTemp(l) \/ CopyToTempFails(l) \/ ReadBackFails(l)
  <2>1. NearsDelivery(l)
    BY <1>2, <1>6, FlightNumbers DEF CreateTemp, CopyToTempFails, ReadBackFails
  <2>2. NearsEnd(l)
    BY <1>3, <1>6, PutNumbers DEF CreateTemp, CopyToTempFails, ReadBackFails, AP!Prepare,
                                  AP!Discard
  <2>3. QED BY <1>1, <2>1, <2>2, OnMoves
<1>7. CASE ~(Putting(l) \/ PutReturns(l) \/ CreateTemp(l) \/ CopyToTempFails(l) \/ ReadBackFails(l))
  <2>1. \/ Resolve(l) \/ ResolveFails(l) \/ HeadNonImage(l) \/ HeadImage(l) \/ Transform(l)
        \/ TransformFails(l) \/ Fetch(l) \/ FetchFails(l) \/ ReadOriginal(l)
        \/ ReadOriginalFails(l) \/ CreateTempFails(l) \/ CopyToTemp(l) \/ ReadBack(l)
        \/ Deliver(l)
    BY <1>7 DEF Process
  <2>2. \E from, to \in FlightPlaces : Step(l, from, to) /\ FlightSteps(to) < FlightSteps(from)
    BY <2>1, FlightNumbers DEF Resolve, ResolveFails, HeadNonImage, HeadImage, Transform,
         TransformFails, Fetch, FetchFails, ReadOriginal, ReadOriginalFails, CreateTempFails,
         CopyToTemp, ReadBack, Deliver, FlightPlaces
  <2>3. UNCHANGED job
    BY <2>1 DEF Resolve, ResolveFails, HeadNonImage, HeadImage, Transform,
         TransformFails, Fetch, FetchFails, ReadOriginal, ReadOriginalFails, CreateTempFails,
         CopyToTemp, ReadBack, Deliver, putVars
  <2>4. QED BY <1>1, <1>2, <2>2, <2>3, OnMoves
<1>8. QED BY <1>4, <1>5, <1>6, <1>7

LEMMA BackgroundMoves ==
    ASSUME RInv, Known, StepsAreFew, StepsAreFew', NEW j \in Requests, Background(j)
    PROVE  Moves(j)
<1>1. UNCHANGED <<pc, fpc, cancelled>>
  BY DEF Background, serveVars, processVars, flightVars
<1>2. \E from, to \in AP!States : AP!Go(j, from, to) /\ PutSteps(to) < PutSteps(from)
  BY PutNumbers DEF Background, AP!Upload, AP!UploadFails, AP!S3Remove, AP!DeferRemove,
         AP!DeferDecInflight, AP!DeferRelease, AP!DeferDone, AP!States, AP!Holding, AP!Ended
<1>3. NearsEnd(j)
  BY <1>2 DEF AP!Go, NearsEnd
<1>4. QED BY <1>1, <1>3, OnMoves

(* A step of r counts: r has fewer steps left, and the others have as many. *)
Counts(r) == /\ StepsLeft(r)' \in 0..(StepsLeft(r) - 1)
             /\ \A q \in Requests \ {r} : StepsLeft(q)' = StepsLeft(q)

LEMMA MovesCount ==
    ASSUME StepsAreFew, StepsAreFew', NEW r \in Requests, Moves(r)
    PROVE  Counts(r)
<1>1. \A q \in Requests \ {r} : StepsLeft(q)' = StepsLeft(q)
  BY DEF Moves, OthersStay, StepsLeft, Gone
<1>2. StepsLeft(r)' \in 0..(StepsLeft(r) - 1)
  <2> DEFINE here == IF Gone(r) THEN 0 ELSE 1
             next == IF r \in cancelled' THEN 0 ELSE 1
  <2>1. /\ ServeSteps(pc[r]) \in Nat /\ ServeSteps(pc'[r]) \in Nat
        /\ FlightSteps(fpc[r]) \in Nat /\ FlightSteps(fpc'[r]) \in Nat
        /\ PutSteps(job[r]) \in Nat /\ PutSteps(job'[r]) \in Nat
    BY DEF StepsAreFew
  <2>2. here \in {0, 1} /\ next \in {0, 1} /\ next <= here
        /\ (r \notin cancelled /\ r \in cancelled' => next < here)
    BY DEF Moves, StepsAreFewer, Gone
  <2>3. /\ StepsLeft(r) = ServeSteps(pc[r]) + FlightSteps(fpc[r]) + PutSteps(job[r]) + here
        /\ StepsLeft(r)' = ServeSteps(pc'[r]) + FlightSteps(fpc'[r]) + PutSteps(job'[r]) + next
    BY DEF StepsLeft, Gone
  <2> HIDE DEF here, next
  <2>4. QED BY <2>1, <2>2, <2>3 DEF Moves, StepsAreFewer
<1>3. QED BY <1>1, <1>2 DEF Counts

LEMMA WorkCounts ==
    ASSUME RInv, Known, StepsAreFew, StepsAreFew', NEW r \in Requests,
           Serve(r) \/ Disconnect(r) \/ Process(r) \/ Background(r)
    PROVE  Counts(r)
BY MovesCount, ServeMoves, ProcessMoves, BackgroundMoves

(* The handler never tries anything for ever: whatever fails and however the  *)
(* requests interleave, a request has at most 23 steps, and each that is made *)
(* is one that is not made again.                                             *)
THEOREM StepsAreBounded == Spec => EveryStepCounts
<1> DEFINE Some == \E r \in Requests :
                       /\ StepsLeft(r)' \in 0..(StepsLeft(r) - 1)
                       /\ \A q \in Requests \ {r} : StepsLeft(q)' = StepsLeft(q)
<1>1. RInv /\ Known /\ StepsAreFew /\ StepsAreFew' /\ [Next]_vars => [Some]_vars
  BY WorkCounts DEF Next, Quiescent, Counts
<1>2. QED BY <1>1, FewSteps, ReplyInvariance, PTL DEF Spec, EveryStepCounts
=============================================================================

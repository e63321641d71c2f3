------------------------------- MODULE Handler -------------------------------
(* handler.Handler as main wires it: requests look their key up in S3, share  *)
(* one flight per key through coalesce.SingleFlight on a miss, and the flight *)
(* hands the transformed image to cache.AsyncPutCache in a temporary file.    *)
(*                                                                            *)
(* A flight (an execution of Handler.process) is named by the request that    *)
(* leads it, whose *http.Request and context it uses all the way.  What the   *)
(* flight calls on the network either succeeds or fails in one step: it must  *)
(* fail when the leader's client has gone before the step, and may fail when  *)
(* Faults says the other end can.  A reading that has begun may still succeed *)
(* after the client has gone, from what is buffered.                          *)
EXTENDS Integers, FiniteSets

CONSTANTS
    Requests,
    Keys,         \* cache keys: host, path, width, format, quality
    KeyOf,        \* of each request, after ParseParams and the width cap
    PassThrough,  \* the requests for which ParseParams returns nil
    NonImage,     \* the keys whose source is not an image
    Capacity,     \* of the pool of background puts
    Faults,       \* what can go wrong, see FaultKinds
    None

FaultKinds == {"client",        \* a client disconnects
               "resolve",       \* the source headers are bad, or presigning fails
               "upstream",      \* the source refuses, fails or breaks off
               "imgproxy",      \* imgproxy is unreachable, fails, or answers with no image
               "imgproxyBody",  \* imgproxy breaks off in the middle of the body
               "disk",          \* the temporary directory fails
               "s3get",         \* GetObject fails
               "s3stream",      \* S3 breaks off in the middle of the body
               "s3put"}         \* an upload fails or times out

ASSUME RequestsAssumption == IsFiniteSet(Requests) /\ PassThrough \subseteq Requests
ASSUME RequestKeysAssumption == KeyOf \in [Requests -> Keys] /\ NonImage \subseteq Keys
ASSUME PoolAssumption == Capacity \in Nat
ASSUME FaultsAssumption == Faults \subseteq FaultKinds
ASSUME NoneIsNoRequest == None \notin Requests

VARIABLES
    pc,           \* where ServeHTTP of each request is
    serving,      \* the object ServeHTTP has opened with Cache.Get
    reply,        \* what the client has been sent
    fpc,          \* where process of each flight is
    draft,        \* the processResult or error of each flight
    temp          \* what each flight has written to its temporary file

VARIABLES status, cancelled, got, group, chans, fn, mail          \* of the coalescer
VARIABLES job, sem, gauge, wg, files, store, drain, owed          \* of the cache

serveVars == <<pc, serving, reply>>
processVars == <<fpc, draft, temp>>
flightVars == <<status, cancelled, got, group, chans, fn, mail>>
putVars == <<job, sem, gauge, wg, files, store, drain, owed>>
vars == <<serveVars, processVars, flightVars, putVars>>

SF == INSTANCE SingleFlight WITH Callers <- Requests
AP == INSTANCE AsyncPut WITH Jobs <- Requests, FileJobs <- Requests

May(fault) == fault \in Faults
Gone(r) == r \in cancelled          \* r.Context() is done

Codes == {200, 404, 502}            \* 404 stands for every 4xx of the source
Bodies == {"transformed", "original", "error"}
Results == [code : Codes, xcache : {"HIT", "MISS", "BYPASS", "none"}, body : Bodies]
Replies == [code : Codes, xcache : {"HIT", "MISS", "BYPASS", "none"}, body : Bodies,
            by : Requests \cup {None}, whole : BOOLEAN]

ASSUME NoneIsNoReply == None \notin Results \cup Replies

Result(xcache, body) == [code |-> 200, xcache |-> xcache, body |-> body]
Error(code) == [code |-> code, xcache |-> "none", body |-> "error"]

FlightPlaces == {"off", "resolve", "head", "transform", "bypass", "readBypass", "fallback",
                 "readFallback", "create", "copy", "readback", "put", "return", "over"}

Contents == {"none", "empty", "partial", "transformed", "original"}

TypeOK ==
    /\ pc \in [Requests -> {"lookup", "stream", "do", "wait", "pass", "copy", "over"}]
    /\ serving \in [Requests -> Requests \cup {None}]
    /\ reply \in [Requests -> Replies \cup {None}]
    /\ fpc \in [Requests -> FlightPlaces]
    /\ draft \in [Requests -> Results \cup {None}]
    /\ temp \in [Requests -> Contents]
    /\ SF!TypeOK
    /\ AP!TypeOK

Init ==
    /\ pc = [r \in Requests |-> IF r \in PassThrough THEN "pass" ELSE "lookup"]
    /\ serving = [r \in Requests |-> None]
    /\ reply = [r \in Requests |-> None]
    /\ fpc = [r \in Requests |-> "off"]
    /\ draft = [r \in Requests |-> None]
    /\ temp = [r \in Requests |-> "none"]
    /\ SF!Init
    /\ AP!Init

-----------------------------------------------------------------------------
(* ServeHTTP. *)
At(r, from, to) == pc[r] = from /\ pc' = [pc EXCEPT ![r] = to]

Send(r, result, by, whole) ==
    reply' = [reply EXCEPT ![r] =
        [code |-> result.code, xcache |-> result.xcache, body |-> result.body,
         by |-> by, whole |-> whole]]

(* Cache.Get finds the object ... *)
LookupHit(r) ==
    /\ At(r, "lookup", "stream")
    /\ ~Gone(r)
    /\ store[KeyOf[r]] # None
    /\ serving' = [serving EXCEPT ![r] = store[KeyOf[r]]]
    /\ UNCHANGED <<reply, processVars, flightVars, putVars>>

(* ... or does not, or fails, which is logged and treated as a miss. *)
LookupMiss(r) ==
    /\ At(r, "lookup", "do")
    /\ store[KeyOf[r]] = None \/ Gone(r) \/ May("s3get")
    /\ UNCHANGED <<serving, reply, processVars, flightVars, putVars>>

(* streamResponse: headers, then the copy, whose error is discarded. *)
Stream(r) ==
    /\ At(r, "stream", "over")
    /\ \E whole \in {TRUE} \cup (IF Gone(r) \/ May("s3stream") THEN {FALSE} ELSE {}) :
           Send(r, Result("HIT", temp[serving[r]]), serving[r], whole)
    /\ UNCHANGED <<serving, processVars, flightVars, putVars>>

(* Coalescer.Do begins: lead a flight, whose goroutine starts process ... *)
LeadFlight(r) ==
    /\ At(r, "do", "wait")
    /\ SF!Lead(r)
    /\ fpc' = [fpc EXCEPT ![r] = "resolve"]
    /\ UNCHANGED <<serving, reply, draft, temp, putVars>>

(* ... or join the one there is. *)
JoinFlight(r) ==
    /\ At(r, "do", "wait")
    /\ SF!Join(r)
    /\ UNCHANGED <<serving, reply, processVars, putVars>>

(* Faulty variant. *)
AnswerUnlessLeft(r) ==                \* gives up the result with the leader's client
    /\ At(r, "wait", "over")
    /\ SF!ReturnResult(r)
    /\ Send(r, IF r # mail[r] /\ Gone(mail[r]) THEN Error(502) ELSE draft[mail[r]], mail[r], TRUE)
    /\ UNCHANGED <<serving, processVars, putVars>>

(* Coalescer.Do returns: writeResult, or writeError. *)
Answer(r) ==
    /\ At(r, "wait", "over")
    /\ SF!ReturnResult(r)
    /\ Send(r, draft[mail[r]], mail[r], TRUE)
    /\ UNCHANGED <<serving, processVars, putVars>>

Abandon(r) ==
    /\ At(r, "wait", "over")
    /\ SF!ReturnCancelled(r)
    /\ Send(r, Error(502), None, TRUE)
    /\ UNCHANGED <<serving, processVars, putVars>>

(* passThrough: resolve, fetch, check the content type; then copy. *)
PassFetch(r) ==
    /\ At(r, "pass", "copy")
    /\ ~Gone(r)
    /\ UNCHANGED <<serving, reply, processVars, flightVars, putVars>>

PassFails(r) ==
    /\ At(r, "pass", "over")
    /\ \E code \in (IF May("upstream") THEN {404, 502} ELSE {})
                   \cup (IF Gone(r) \/ May("resolve") THEN {502} ELSE {}) :
           Send(r, Error(code), None, TRUE)
    /\ UNCHANGED <<serving, processVars, flightVars, putVars>>

PassCopy(r) ==
    /\ At(r, "copy", "over")
    /\ \E whole \in {TRUE} \cup (IF Gone(r) \/ May("upstream") THEN {FALSE} ELSE {}) :
           Send(r, Result("none", "original"), None, whole)
    /\ UNCHANGED <<serving, processVars, flightVars, putVars>>

Serve(r) == \/ LookupHit(r) \/ LookupMiss(r) \/ Stream(r)
            \/ LeadFlight(r) \/ JoinFlight(r) \/ Answer(r) \/ Abandon(r)
            \/ PassFetch(r) \/ PassFails(r) \/ PassCopy(r)

(* The client goes away before it has its reply. *)
Disconnect(r) ==
    /\ May("client")
    /\ reply[r] = None
    /\ SF!Cancel(r)
    /\ UNCHANGED <<serveVars, processVars, putVars>>

-----------------------------------------------------------------------------
(* process, in the goroutine of the flight l. *)
Step(l, from, to) == fpc[l] = from /\ fpc' = [fpc EXCEPT ![l] = to]

Ends(l, result) == draft' = [draft EXCEPT ![l] = result]

(* Faulty variants: a property worth its run fails when one replaces its       *)
(* original.                                                                  *)
TransformFailsHard(l) ==              \* answers 502 instead of falling back
    /\ KeyOf[l] \in NonImage \/ Gone(l) \/ May("imgproxy")
    /\ Step(l, "transform", "return")
    /\ Ends(l, Error(502))
    /\ UNCHANGED <<serveVars, temp, flightVars, putVars>>

TransformRetried(l) ==                \* asks again until imgproxy succeeds
    /\ Step(l, "transform", "head")
    /\ KeyOf[l] \in NonImage \/ Gone(l) \/ May("imgproxy")
    /\ UNCHANGED <<serveVars, draft, temp, flightVars, putVars>>

TransformUnchecked(l) ==              \* takes what is no image for one
    /\ Step(l, "transform", "create")
    /\ KeyOf[l] \in NonImage \/ Gone(l) \/ May("imgproxy")
    /\ UNCHANGED <<serveVars, draft, temp, flightVars, putVars>>

CopyErrorIgnored(l) ==                \* goes on with half a file
    /\ Gone(l) \/ May("imgproxyBody") \/ May("disk")
    /\ Step(l, "copy", "readback")
    /\ temp' = [temp EXCEPT ![l] = "partial"]
    /\ UNCHANGED <<serveVars, draft, flightVars, putVars>>

CopyErrorLeaks(l) ==                  \* forgets os.Remove
    /\ Gone(l) \/ May("imgproxyBody") \/ May("disk")
    /\ Step(l, "copy", "return")
    /\ temp' = [temp EXCEPT ![l] = "partial"]
    /\ Ends(l, Error(502))
    /\ UNCHANGED <<serveVars, flightVars, putVars>>

ReadBackLeaks(l) ==                   \* forgets os.Remove
    /\ May("disk")
    /\ Step(l, "readback", "return")
    /\ Ends(l, Error(502))
    /\ UNCHANGED <<serveVars, temp, flightVars, putVars>>

HeadFailsToBypass(l) ==               \* takes a HEAD that failed for no image
    /\ Step(l, "head", "bypass")
    /\ (KeyOf[l] \in NonImage /\ ~Gone(l)) \/ May("upstream")
    /\ UNCHANGED <<serveVars, draft, temp, flightVars, putVars>>

(* Presigning runs under the context of the leader's request. *)
Resolve(l) ==
    /\ Step(l, "resolve", "head")
    /\ UNCHANGED <<serveVars, draft, temp, flightVars, putVars>>

ResolveFails(l) ==
    /\ Gone(l) \/ May("resolve")
    /\ Step(l, "resolve", "return")
    /\ Ends(l, Error(502))
    /\ UNCHANGED <<serveVars, temp, flightVars, putVars>>

(* HEAD says that the source is no image; every failure of HEAD says nothing, *)
(* and the flight goes on to imgproxy.                                        *)
HeadNonImage(l) ==
    /\ Step(l, "head", "bypass")
    /\ KeyOf[l] \in NonImage /\ ~Gone(l)
    /\ UNCHANGED <<serveVars, draft, temp, flightVars, putVars>>

HeadImage(l) ==
    /\ Step(l, "head", "transform")
    /\ KeyOf[l] \notin NonImage \/ Gone(l) \/ May("upstream")
    /\ UNCHANGED <<serveVars, draft, temp, flightVars, putVars>>

Transform(l) ==
    /\ Step(l, "transform", "create")
    /\ KeyOf[l] \notin NonImage /\ ~Gone(l)
    /\ UNCHANGED <<serveVars, draft, temp, flightVars, putVars>>

(* The call fails, or what it returns is no image: fall back. *)
TransformFails(l) ==
    /\ Step(l, "transform", "fallback")
    /\ KeyOf[l] \in NonImage \/ Gone(l) \/ May("imgproxy")
    /\ UNCHANGED <<serveVars, draft, temp, flightVars, putVars>>

(* fetchFunc and readBody, for a bypass (checked for CRLF) and a fallback. *)
Fetch(l) ==
    /\ ~Gone(l)
    /\ Step(l, "bypass", "readBypass") \/ Step(l, "fallback", "readFallback")
    /\ UNCHANGED <<serveVars, draft, temp, flightVars, putVars>>

FetchFails(l) ==
    /\ Step(l, "bypass", "return") \/ Step(l, "fallback", "return")
    /\ \E code \in (IF May("upstream") THEN {404, 502} ELSE {})
                   \cup (IF Gone(l) THEN {502} ELSE {}) :
           Ends(l, Error(code))
    /\ UNCHANGED <<serveVars, temp, flightVars, putVars>>

ReadOriginal(l) ==
    /\ \/ Step(l, "readBypass", "return") /\ Ends(l, Result("BYPASS", "original"))
       \/ Step(l, "readFallback", "return") /\ Ends(l, Result("MISS", "original"))
    /\ UNCHANGED <<serveVars, temp, flightVars, putVars>>

ReadOriginalFails(l) ==
    /\ Gone(l) \/ May("upstream")
    /\ Step(l, "readBypass", "return") \/ Step(l, "readFallback", "return")
    /\ Ends(l, Error(502))
    /\ UNCHANGED <<serveVars, temp, flightVars, putVars>>

(* The transformed body goes through a temporary file. *)
CreateTemp(l) ==
    /\ Step(l, "create", "copy")
    /\ AP!Prepare(l)
    /\ temp' = [temp EXCEPT ![l] = "empty"]
    /\ UNCHANGED <<serveVars, draft, flightVars>>

CreateTempFails(l) ==
    /\ May("disk")
    /\ Step(l, "create", "return")
    /\ Ends(l, Error(502))
    /\ UNCHANGED <<serveVars, temp, flightVars, putVars>>

CopyToTemp(l) ==
    /\ Step(l, "copy", "readback")
    /\ temp' = [temp EXCEPT ![l] = "transformed"]
    /\ UNCHANGED <<serveVars, draft, flightVars, putVars>>

CopyToTempFails(l) ==
    /\ Gone(l) \/ May("imgproxyBody") \/ May("disk")
    /\ Step(l, "copy", "return")
    /\ temp' = [temp EXCEPT ![l] = "partial"]
    /\ AP!Discard(l)
    /\ Ends(l, Error(502))
    /\ UNCHANGED <<serveVars, flightVars>>

ReadBack(l) ==
    /\ Step(l, "readback", "put")
    /\ UNCHANGED <<serveVars, draft, temp, flightVars, putVars>>

ReadBackFails(l) ==
    /\ May("disk")
    /\ Step(l, "readback", "return")
    /\ AP!Discard(l)
    /\ Ends(l, Error(502))
    /\ UNCHANGED <<serveVars, temp, flightVars>>

(* AsyncPutCache.PutFile, in the flight's goroutine.  It returns nil always,  *)
(* when it has launched the put or dropped it.                                *)
Putting(l) ==
    /\ fpc[l] = "put"
    /\ AP!Acquire(l) \/ AP!Reject(l) \/ AP!IncInflight(l)
    /\ UNCHANGED <<serveVars, processVars, flightVars>>

PutReturns(l) ==
    /\ Step(l, "put", "return")
    /\ AP!Launch(l) \/ AP!DropFile(l)
    /\ Ends(l, Result("MISS", temp[l]))
    /\ UNCHANGED <<serveVars, temp, flightVars>>

(* process returns and the coalescer passes its result on. *)
Deliver(l) ==
    /\ Step(l, "return", "over")
    /\ SF!Finish(l)
    /\ UNCHANGED <<serveVars, draft, temp, putVars>>

Process(l) == \/ Resolve(l) \/ ResolveFails(l) \/ HeadNonImage(l) \/ HeadImage(l)
              \/ Transform(l) \/ TransformFails(l)
              \/ Fetch(l) \/ FetchFails(l) \/ ReadOriginal(l) \/ ReadOriginalFails(l)
              \/ CreateTemp(l) \/ CreateTempFails(l) \/ CopyToTemp(l) \/ CopyToTempFails(l)
              \/ ReadBack(l) \/ ReadBackFails(l) \/ Putting(l) \/ PutReturns(l) \/ Deliver(l)

-----------------------------------------------------------------------------
(* The background put of the flight j. *)
Background(j) ==
    /\ \/ AP!Upload(j) \/ (May("s3put") /\ AP!UploadFails(j)) \/ AP!S3Remove(j)
       \/ AP!DeferRemove(j) \/ AP!DeferDecInflight(j) \/ AP!DeferRelease(j) \/ AP!DeferDone(j)
    /\ UNCHANGED <<serveVars, processVars, flightVars>>

Quiescent ==
    /\ \A r \in Requests : reply[r] # None /\ fpc[r] \in {"off", "over"}
    /\ AP!In(AP!Ended \cup {"none"}) = Requests
    /\ UNCHANGED vars

Next == \/ \E r \in Requests : Serve(r) \/ Disconnect(r) \/ Process(r) \/ Background(r)
        \/ Quiescent

Spec == Init /\ [][Next]_vars

(* Goroutines are scheduled, and every call they wait in ends: imgproxy and   *)
(* the source have client timeouts, uploads have the put timeout, and S3 is   *)
(* assumed to answer GetObject, which has none.  No client has to go away.    *)
Fairness == \A r \in Requests :
                WF_vars(Serve(r)) /\ WF_vars(Process(r)) /\ WF_vars(Background(r))

-----------------------------------------------------------------------------
InFlight(l) == fpc[l] \notin {"off", "over"}

(* Two requests for one key never have imgproxy work, or temporary files      *)
(* written, for both at the same time.                                        *)
OneTransformPerKey ==
    \A l, m \in Requests : InFlight(l) /\ InFlight(m) /\ KeyOf[l] = KeyOf[m] => l = m

(* Whatever has failed on the way, S3 holds whole transformed images under    *)
(* their own key only: a fallback, a bypass or half an image would be served  *)
(* from the cache for a year.                                                 *)
CacheHoldsTransforms ==
    \A k \in Keys : store[k] # None =>
        KeyOf[store[k]] = k /\ temp[store[k]] = "transformed" /\ k \notin NonImage

(* A reply with a body was computed, or cached, for the request's own key, by *)
(* a flight that is over or an object that was stored; and its X-Cache tells  *)
(* the truth about it.                                                        *)
RepliesAreOwn ==
    \A r \in Requests : reply[r] # None /\ reply[r].by # None =>
        LET by == reply[r].by IN
        /\ KeyOf[by] = KeyOf[r] /\ r \notin PassThrough
        /\ reply[r].body = "transformed" => temp[by] = "transformed"
        /\ reply[r].xcache = "HIT" =>
               /\ reply[r].body = "transformed"
               /\ job[by] \notin {"none", "prepared", "rejected", "dropped", "discarded"}
        /\ reply[r].xcache = "BYPASS" => reply[r].body = "original" /\ KeyOf[r] \in NonImage

(* Trouble with the transform, the cache or the pool of puts never costs a    *)
(* client its image.  An error reply has one of the other causes: the client  *)
(* itself is gone, the source or the disk failed, or imgproxy broke off in    *)
(* its body; or the flight's leader is gone (LiveClientsServed is about that).*)
ErrorsHaveACause ==
    \A r \in Requests : reply[r] # None /\ reply[r].code # 200 =>
        \/ Gone(r)
        \/ Faults \cap {"resolve", "upstream", "disk", "imgproxyBody"} # {}
        \/ reply[r].by # None /\ Gone(reply[r].by)

(* "All waiters sharing the same in-flight request will receive the result"   *)
(* (coalesce.go:29), and it is one: the requests that a flight answers get    *)
(* the same, whenever they joined it and whoever has gone since.              *)
Answered(r, l) == reply[r] # None /\ reply[r].by = l /\ reply[r].xcache # "HIT"

OneResultForAll ==
    \A l, q, r \in Requests : Answered(q, l) /\ Answered(r, l) =>
        /\ reply[q].code = reply[r].code
        /\ reply[q].xcache = reply[r].xcache
        /\ reply[q].body = reply[r].body

(* Every temporary file has somebody who will remove it: the flight before    *)
(* PutFile returns, the put's goroutine after.                                *)
FilesHaveAnOwner ==
    \A l \in files : \/ fpc[l] \in {"copy", "readback", "put"}
                     \/ job[l] \in {"running", "uploaded", "settled"}

(* However many requests there are, the disk of the pod holds one temporary   *)
(* file for each key whose image is being made, and one for each slot of the  *)
(* pool: nothing queues up behind a pool that is full.                        *)
KeysInFlight == {KeyOf[l] : l \in {m \in Requests : InFlight(m)}}

DiskIsBounded == Cardinality(files) <= Cardinality(KeysInFlight) + Capacity

(* All in all the handler is an ImageService: one reply to a request, of what *)
(* was made or stored for its key, and nothing but finished images stored.    *)
Kind(sent) ==
    IF sent = None THEN None
    ELSE IF sent.body = "error" THEN "error"
    ELSE IF sent.xcache = "HIT" THEN "hit"
    ELSE IF sent.xcache = "BYPASS" THEN "bypass"
    ELSE IF sent.xcache = "none" THEN "original"
    ELSE IF sent.body = "original" THEN "fallback" ELSE "miss"

Service == INSTANCE ImageService WITH
    answer <- [r \in Requests |-> Kind(reply[r])],
    made <- {KeyOf[l] : l \in {m \in Requests : temp[m] = "transformed"}},
    stored <- {k \in Keys : store[k] # None}

IsImageService == Service!Spec

(* Nothing is tried for ever: every step of a request, of the flight that it  *)
(* leads or of that flight's put takes it nearer to its end, and nobody else  *)
(* further from theirs.  A request costs 23 steps at the most.                *)
ServeSteps(place) ==
    CASE place = "lookup" -> 3
      [] place \in {"do", "pass"} -> 2
      [] place \in {"wait", "stream", "copy"} -> 1
      [] place = "over" -> 0

FlightSteps(place) ==
    CASE place = "off" -> 9
      [] place = "resolve" -> 8
      [] place = "head" -> 7
      [] place = "transform" -> 6
      [] place = "create" -> 5
      [] place = "copy" -> 4
      [] place \in {"readback", "bypass", "fallback"} -> 3
      [] place \in {"put", "readBypass", "readFallback"} -> 2
      [] place = "return" -> 1
      [] place = "over" -> 0

PutSteps(place) ==
    CASE place = "none" -> 10
      [] place = "prepared" -> 9
      [] place = "acquired" -> 8
      [] place = "counted" -> 7
      [] place = "running" -> 6
      [] place = "uploaded" -> 5
      [] place = "settled" -> 4
      [] place = "cleaned" -> 3
      [] place = "uncounted" -> 2
      [] place \in {"rejected", "released"} -> 1
      [] place \in AP!Ended -> 0

StepsLeft(r) ==
    ServeSteps(pc[r]) + FlightSteps(fpc[r]) + PutSteps(job[r]) + (IF Gone(r) THEN 0 ELSE 1)

EveryStepCounts ==
    [][\E r \in Requests :
           /\ StepsLeft(r)' \in 0..(StepsLeft(r) - 1)
           /\ \A q \in Requests \ {r} : StepsLeft(q)' = StepsLeft(q)]_vars

(* Every request is answered, and every temporary file is removed. *)
EveryRequestAnswered == \A r \in Requests : <>(reply[r] # None)

FilesReclaimed == \A l \in Requests : l \in files ~> l \notin files

-----------------------------------------------------------------------------
(* What the documentation says and the code does not do; see the README. *)

(* coalesce.go:26 and :29: the flight goes on after a caller's context is     *)
(* cancelled, so that the others receive its result.  So with nothing but     *)
(* clients failing, a client that stays gets its image.                       *)
LiveClientsServed ==
    \A r \in Requests : reply[r] # None /\ ~Gone(r) => reply[r].code = 200

(* README.md:8: a cache hit returns what is cached. *)
HitsAreWhole ==
    \A r \in Requests : reply[r] # None /\ reply[r].xcache = "HIT" => reply[r].whole
=============================================================================

------------------------------- MODULE Metrics -------------------------------
(* The counters of the metrics package, moved by the steps of Handler.  What  *)
(* the chart's alerts make of them is in the README.                          *)
EXTENDS Handler

VARIABLE count

Counters == {"cacheHits", "cacheMisses", "cacheBypasses", "imgproxyErrors", "putErrors",
             "asyncCachePutDropped"}

MeteredInit == Init /\ count = [c \in Counters |-> 0]

Inc(names) == count' = [c \in Counters |-> count[c] + (IF c \in names THEN 1 ELSE 0)]


PutUncounted(l) ==                    \* counts a drop as a drop only
    Putting(l) /\ Inc(IF job'[l] = "rejected" THEN {"asyncCachePutDropped"} ELSE {})

BypassCountedAsMiss(l) ==
    ReadOriginal(l) /\ Inc({"cacheMisses"})

InvalidUncounted(l) ==                \* counts a failed call, but not a bad answer
    TransformFails(l) /\ (Inc({"imgproxyErrors"}) \/ Inc({}))

CountHit(r) == Stream(r) /\ Inc({"cacheHits"})

CountImgproxyError(l) == TransformFails(l) /\ Inc({"imgproxyErrors"})

CountOriginal(l) ==
    ReadOriginal(l) /\ Inc(IF fpc[l] = "readBypass" THEN {"cacheBypasses"} ELSE {"cacheMisses"})

CountMiss(l) == PutReturns(l) /\ Inc({"cacheMisses"})

(* A put that is dropped is counted twice, and one that fails once. *)
CountPut(l) ==
    Putting(l) /\ Inc(IF job'[l] = "rejected" THEN {"asyncCachePutDropped", "putErrors"} ELSE {})

CountUpload(l) ==
    Background(l) /\ Inc(IF job[l] = "running" /\ job'[l] = "settled" THEN {"putErrors"} ELSE {})

Uncounted(r) ==
    \/ LookupHit(r) /\ Inc({})
    \/ LookupMiss(r) /\ Inc({})
    \/ LeadFlight(r) /\ Inc({})
    \/ JoinFlight(r) /\ Inc({})
    \/ Answer(r) /\ Inc({})
    \/ Abandon(r) /\ Inc({})
    \/ PassFetch(r) /\ Inc({})
    \/ PassFails(r) /\ Inc({})
    \/ PassCopy(r) /\ Inc({})
    \/ Disconnect(r) /\ Inc({})
    \/ Resolve(r) /\ Inc({})
    \/ ResolveFails(r) /\ Inc({})
    \/ HeadNonImage(r) /\ Inc({})
    \/ HeadImage(r) /\ Inc({})
    \/ Transform(r) /\ Inc({})
    \/ Fetch(r) /\ Inc({})
    \/ FetchFails(r) /\ Inc({})
    \/ ReadOriginalFails(r) /\ Inc({})
    \/ CreateTemp(r) /\ Inc({})
    \/ CreateTempFails(r) /\ Inc({})
    \/ CopyToTemp(r) /\ Inc({})
    \/ CopyToTempFails(r) /\ Inc({})
    \/ ReadBack(r) /\ Inc({})
    \/ ReadBackFails(r) /\ Inc({})
    \/ Deliver(r) /\ Inc({})

MeteredNext ==
    \/ \E r \in Requests :
          \/ CountHit(r) \/ CountImgproxyError(r) \/ CountOriginal(r) \/ CountMiss(r)
          \/ CountPut(r) \/ CountUpload(r) \/ Uncounted(r)
    \/ Quiescent /\ UNCHANGED count

MeteredSpec == MeteredInit /\ [][MeteredNext]_<<vars, count>>

MeteredFairSpec == MeteredSpec /\ Fairness
-----------------------------------------------------------------------------
With(xcache) == {l \in Requests : draft[l] # None /\ draft[l].xcache = xcache}
Hits == {r \in Requests : reply[r] # None /\ reply[r].xcache = "HIT"}

(* What the calls of Inc at handler.go:79, 192, 216, 236 and 270 add up to,   *)
(* on every path: a hit is counted for each reply; a miss and a bypass for    *)
(* each flight whose result it is, once however many requests share it, and a *)
(* fallback is a miss too.  The Help texts at metrics.go:53 and :57 say less, *)
(* and something else; see the README.                                        *)
LedgerBalances ==
    /\ count["cacheHits"] = Cardinality(Hits)
    /\ count["cacheMisses"] = Cardinality(With("MISS"))
    /\ count["cacheBypasses"] = Cardinality(With("BYPASS"))

FellBack == {l \in With("MISS") : draft[l].body = "original"}
Imageless == {l \in Requests : /\ fpc[l] \in {"fallback", "readFallback", "return", "over"}
                               /\ temp[l] = "none" /\ l \notin With("BYPASS")}

(* metrics.go:61, "imgproxy transform failures (fell back to original)": no   *)
(* fallback that was answered goes uncounted.  And the errors are no more     *)
(* than the flights that have come to the fallback, or to their end with      *)
(* neither a file for an image of imgproxy's nor a bypass to answer with: to  *)
(* count one flight twice would be too many.  Flights that failed before the  *)
(* transform, in fetching for a bypass or in creating their file are among    *)
(* these, so it does not say that each error is a fallback.                   *)
FallbacksAreCounted ==
    /\ Cardinality(FellBack) <= count["imgproxyErrors"]
    /\ count["imgproxyErrors"] <= Cardinality(Imageless)

(* metrics.go:65, "S3 cache write failures": an image that a put has been     *)
(* asked to write, and that is not in the cache when the put has ended, has   *)
(* been counted, so that the alert on cache puts sees it.                     *)
NothingLostSilently ==
    LET lost == {l \in Requests : /\ job[l] \in {"dropped", "done"}
                                  /\ store[KeyOf[l]] = None}
    IN  Cardinality(lost) <= count["putErrors"]
=============================================================================

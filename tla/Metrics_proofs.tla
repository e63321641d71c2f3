---------------------------- MODULE Metrics_proofs ----------------------------
(* What the counters tell, for any finite set of requests and any faults.     *)
EXTENDS Metrics, Replies_proofs, FiniteSetTheorems

USE RequestsAssumption, RequestKeysAssumption, PoolAssumption, NoneIsNoRequest

-----------------------------------------------------------------------------
(* Counting changes nothing: what holds of Handler holds of it metered. *)
LEMMA MeteredIsHandler == MeteredSpec => Spec
<1>1. MeteredInit => Init
  BY DEF MeteredInit
<1>2. [MeteredNext]_<<vars, count>> => [Next]_vars
  BY DEF MeteredNext, Next, CountHit, CountImgproxyError, CountOriginal, CountMiss, CountPut,
         CountUpload, Uncounted, Serve, Process
<1>3. QED BY <1>1, <1>2, PTL DEF MeteredSpec, Spec

(* The inductive invariant: a flight has no result before it returns, so that *)
(* each result is counted when it comes about.                                *)
NoDraftYet == \A l \in Requests : fpc[l] \notin {"return", "over"} => draft[l] = None

LInv == /\ count \in [Counters -> Nat]
        /\ NoDraftYet
        /\ LedgerBalances

LEMMA InitLInv == MeteredInit => LInv
<1> SUFFICES ASSUME MeteredInit PROVE LInv
  OBVIOUS
<1>1. Hits = {} /\ With("MISS") = {} /\ With("BYPASS") = {}
  BY DEF MeteredInit, Init, Hits, With
<1>2. Cardinality({}) = 0
  BY FS_EmptySet
<1>3. QED BY <1>1, <1>2 DEF MeteredInit, Init, LInv, LedgerBalances, NoDraftYet, Counters

(* A reply is sent once, and a result made once. *)
LEMMA ReplyMoves ==
    ASSUME ServeTypes, NEW r \in Requests, NEW sent \in Replies,
           reply[r] = None, reply' = [reply EXCEPT ![r] = sent]
    PROVE  Cardinality(Hits') = Cardinality(Hits) + (IF sent.xcache = "HIT" THEN 1 ELSE 0)
<1>1. sent # None
  BY NoneIsNoReply
<1>2. Hits' = IF sent.xcache = "HIT" THEN Hits \cup {r} ELSE Hits
  BY <1>1 DEF Hits, ServeTypes
<1>3. r \notin Hits /\ Hits \subseteq Requests
  BY DEF Hits
<1>4. IsFiniteSet(Hits) /\ Cardinality(Hits) \in Nat
  BY <1>3, FS_Subset, FS_CardinalityType
<1>5. Cardinality(Hits \cup {r}) = Cardinality(Hits) + 1
  BY <1>3, <1>4, FS_AddElement
<1>6. CASE sent.xcache = "HIT"
  BY <1>2, <1>5, <1>6
<1>7. CASE sent.xcache # "HIT"
  BY <1>2, <1>4, <1>7
<1>8. QED BY <1>6, <1>7

LEMMA DraftMoves ==
    ASSUME ServeTypes, NEW l \in Requests, NEW result \in Results, NEW kind,
           draft[l] = None, draft' = [draft EXCEPT ![l] = result]
    PROVE  Cardinality(With(kind)') = Cardinality(With(kind)) + (IF result.xcache = kind THEN 1 ELSE 0)
<1>1. result # None
  BY NoneIsNoReply
<1>2. With(kind)' = IF result.xcache = kind THEN With(kind) \cup {l} ELSE With(kind)
  BY <1>1 DEF With, ServeTypes
<1>3. l \notin With(kind) /\ With(kind) \subseteq Requests
  BY DEF With
<1>4. IsFiniteSet(With(kind)) /\ Cardinality(With(kind)) \in Nat
  BY <1>3, FS_Subset, FS_CardinalityType
<1>5. Cardinality(With(kind) \cup {l}) = Cardinality(With(kind)) + 1
  BY <1>3, <1>4, FS_AddElement
<1>6. CASE result.xcache = kind
  BY <1>2, <1>5, <1>6
<1>7. CASE result.xcache # kind
  BY <1>2, <1>4, <1>7
<1>8. QED BY <1>6, <1>7

(* Counting: what a step adds to the counters. *)
LEMMA Counted ==
    ASSUME LInv, NEW names, Inc(names)
    PROVE  /\ count' \in [Counters -> Nat]
           /\ \A c \in Counters : count'[c] = count[c] + (IF c \in names THEN 1 ELSE 0)
BY DEF LInv, Inc

(* Steps that neither reply nor end process. *)
LEMMA QuietLInv ==
    ASSUME LInv, UNCHANGED <<reply, draft>>, NoDraftYet',
           NEW names, Inc(names), names \cap {"cacheHits", "cacheMisses", "cacheBypasses"} = {}
    PROVE  LInv'
<1>1. \A c \in {"cacheHits", "cacheMisses", "cacheBypasses"} : count'[c] = count[c]
  BY Counted DEF Counters, LInv
<1>2. Hits' = Hits /\ With("MISS")' = With("MISS") /\ With("BYPASS")' = With("BYPASS")
  BY DEF Hits, With
<1>3. QED BY <1>1, <1>2, Counted DEF LInv, LedgerBalances

(* Steps that reply. *)
LEMMA SendLInv ==
    ASSUME LInv, ServeTypes, UNCHANGED <<draft, fpc>>, NEW r \in Requests, NEW sent \in Replies,
           reply[r] = None, reply' = [reply EXCEPT ![r] = sent],
           Inc(IF sent.xcache = "HIT" THEN {"cacheHits"} ELSE {})
    PROVE  LInv'
<1>1. /\ count'["cacheHits"] = count["cacheHits"] + (IF sent.xcache = "HIT" THEN 1 ELSE 0)
      /\ \A c \in {"cacheMisses", "cacheBypasses"} : count'[c] = count[c]
  BY Counted DEF Counters, LInv
<1>2. With("MISS")' = With("MISS") /\ With("BYPASS")' = With("BYPASS") /\ NoDraftYet'
  BY DEF With, NoDraftYet, LInv
<1>3. QED BY <1>1, <1>2, Counted, ReplyMoves DEF LInv, LedgerBalances

(* Steps that end process. *)
LEMMA DraftLInv ==
    ASSUME LInv, ServeTypes, UNCHANGED reply, NEW l \in Requests, NEW result \in Results,
           fpc \in [Requests -> FlightPlaces], fpc[l] \notin {"return", "over"},
           fpc' = [fpc EXCEPT ![l] = "return"],
           draft' = [draft EXCEPT ![l] = result], NEW names, Inc(names),
           names \cap {"cacheHits", "cacheMisses", "cacheBypasses"}
               = IF result.xcache = "MISS" THEN {"cacheMisses"}
                 ELSE IF result.xcache = "BYPASS" THEN {"cacheBypasses"} ELSE {}
    PROVE  LInv'
<1>1. /\ count'["cacheHits"] = count["cacheHits"]
      /\ count'["cacheMisses"] = count["cacheMisses"] + (IF result.xcache = "MISS" THEN 1 ELSE 0)
      /\ count'["cacheBypasses"]
             = count["cacheBypasses"] + (IF result.xcache = "BYPASS" THEN 1 ELSE 0)
  BY Counted DEF Counters, LInv
<1>2. draft[l] = None
  BY DEF LInv, NoDraftYet
<1>3. Hits' = Hits
  BY DEF Hits
<1>4. NoDraftYet'
  BY DEF LInv, NoDraftYet, ServeTypes
<1>5. \A kind \in {"MISS", "BYPASS"} :
          Cardinality(With(kind)') = Cardinality(With(kind)) + (IF result.xcache = kind THEN 1 ELSE 0)
  BY <1>2, DraftMoves
<1>6. LedgerBalances'
  BY <1>1, <1>3, <1>5 DEF LInv, LedgerBalances
<1>7. QED BY <1>4, <1>6, Counted DEF LInv

-----------------------------------------------------------------------------
(* The steps one by one. *)
LEMMA HitLInv ==
    ASSUME LInv, RInv, Known, NEW r \in Requests, CountHit(r)
    PROVE  LInv'
<1>1. Stream(r) /\ Inc({"cacheHits"})
  BY DEF CountHit
<1>2. PICK whole \in BOOLEAN :
             reply' = [reply EXCEPT ![r] = [code |-> 200, xcache |-> "HIT",
                                            body |-> temp[serving[r]],
                                            by |-> serving[r], whole |-> whole]]
  BY <1>1, Sent
<1> DEFINE sent == [code |-> 200, xcache |-> "HIT", body |-> temp[serving[r]],
                    by |-> serving[r], whole |-> whole]
<1>3. /\ serving[r] \in Requests /\ job[serving[r]] \in Handed /\ reply[r] = None
      /\ UNCHANGED <<draft, fpc>>
  BY <1>1 DEF Stream, At, RInv, OpenedObject, PlaceOfRequest, Handed, processVars
<1>4. temp[serving[r]] = "transformed"
  BY <1>3 DEF Known, HInv, PlaceAndContent
<1>5. sent \in Replies /\ sent.xcache = "HIT" /\ reply' = [reply EXCEPT ![r] = sent]
  BY <1>2, <1>3, <1>4 DEF Replies, Codes, Bodies
<1> HIDE DEF sent
<1>6. QED BY <1>1, <1>3, <1>5, SendLInv DEF RInv

LEMMA OtherReplyLInv ==
    ASSUME LInv, RInv, Known, NEW r \in Requests, Inc({}),
           Answer(r) \/ Abandon(r) \/ PassFails(r) \/ PassCopy(r)
    PROVE  LInv'
<1>1. UNCHANGED <<draft, fpc>> /\ reply[r] = None
  BY DEF Answer, Abandon, PassFails, PassCopy, processVars, At, RInv, PlaceOfRequest
<1>2. \E sent \in Replies : sent.xcache # "HIT" /\ reply' = [reply EXCEPT ![r] = sent]
  <2>1. CASE Answer(r)
    <3> DEFINE d == draft[mail[r]]
               sent == [code |-> d.code, xcache |-> d.xcache, body |-> d.body,
                        by |-> mail[r], whole |-> TRUE]
    <3>1. reply' = [reply EXCEPT ![r] = sent]
      BY <2>1 DEF Answer, Send
    <3>2. mail[r] \in Requests /\ fpc[mail[r]] = "over"
      BY <2>1 DEF Answer, SF!ReturnResult, RInv, OwnMail, Known, Typed, SF!TypeOK
    <3>3. Honest(mail[r], d)
      BY <3>2 DEF RInv, HonestDrafts
    <3> HIDE DEF d
    <3>4. sent \in Replies /\ sent.xcache # "HIT"
      BY <3>2, <3>3 DEF Honest, Results, Replies
    <3> HIDE DEF sent
    <3>5. QED BY <3>1, <3>4
  <2>2. CASE Abandon(r)
    <3> DEFINE sent == [code |-> 502, xcache |-> "none", body |-> "error",
                        by |-> None, whole |-> TRUE]
    <3>1. reply' = [reply EXCEPT ![r] = sent]
      BY <2>2 DEF Abandon, Send, Error
    <3>2. sent \in Replies /\ sent.xcache # "HIT"
      BY DEF Replies, Codes, Bodies
    <3> HIDE DEF sent
    <3>3. QED BY <3>1, <3>2
  <2>3. CASE PassFails(r)
    <3> DEFINE ErrorCodes == {404, 502}
    <3> DEFINE Failed(code) == [code |-> code, xcache |-> "none", body |-> "error",
                                by |-> None, whole |-> TRUE]
    <3>1. \A code \in ErrorCodes : Failed(code) \in Replies /\ Failed(code).xcache # "HIT"
      BY DEF Replies, Codes, Bodies
    <3>2. \E code \in ErrorCodes : reply' = [reply EXCEPT ![r] = Failed(code)]
      BY <2>3, Sent
    <3> HIDE DEF ErrorCodes, Failed
    <3>3. QED BY <3>1, <3>2
  <2>4. CASE PassCopy(r)
    <3>1. PICK whole \in BOOLEAN :
                 reply' = [reply EXCEPT ![r] = [code |-> 200, xcache |-> "none",
                                                body |-> "original",
                                                by |-> None, whole |-> whole]]
      BY <2>4, Sent
    <3>2. [code |-> 200, xcache |-> "none", body |-> "original",
           by |-> None, whole |-> whole] \in Replies
      BY DEF Replies, Codes, Bodies
    <3>3. QED BY <3>1, <3>2
  <2>5. QED BY <2>1, <2>2, <2>3, <2>4
<1>3. QED BY <1>1, <1>2, SendLInv DEF RInv

(* process ends with an original, an image or an error. *)
LEMMA EndLInv ==
    ASSUME LInv, RInv, Known, NEW l \in Requests,
           \/ CountOriginal(l) \/ CountMiss(l)
           \/ /\ \/ ResolveFails(l) \/ FetchFails(l) \/ ReadOriginalFails(l) \/ CreateTempFails(l)
                 \/ CopyToTempFails(l) \/ ReadBackFails(l)
              /\ Inc({})
    PROVE  LInv'
<1>1. fpc \in [Requests -> FlightPlaces] /\ ServeTypes
  BY DEF Known, HInv, RInv
<1>2. CASE CountOriginal(l)
  <2>1. UNCHANGED reply
    BY <1>2 DEF CountOriginal, ReadOriginal, serveVars
  <2>2. CASE fpc[l] = "readBypass"
    <3>1. fpc' = [fpc EXCEPT ![l] = "return"]
          /\ draft' = [draft EXCEPT ![l] = Result("BYPASS", "original")]
          /\ Inc({"cacheBypasses"})
      BY <1>2, <2>2 DEF CountOriginal, ReadOriginal, Step, Ends
    <3>2. Result("BYPASS", "original") \in Results /\ Result("BYPASS", "original").xcache = "BYPASS"
      BY DEF Result, Results, Codes, Bodies
    <3>3. QED BY <1>1, <2>1, <2>2, <3>1, <3>2, DraftLInv
  <2>3. CASE fpc[l] = "readFallback"
    <3>1. fpc' = [fpc EXCEPT ![l] = "return"]
          /\ draft' = [draft EXCEPT ![l] = Result("MISS", "original")]
          /\ Inc({"cacheMisses"})
      BY <1>2, <2>3 DEF CountOriginal, ReadOriginal, Step, Ends
    <3>2. Result("MISS", "original") \in Results /\ Result("MISS", "original").xcache = "MISS"
      BY DEF Result, Results, Codes, Bodies
    <3>3. QED BY <1>1, <2>1, <2>3, <3>1, <3>2, DraftLInv
  <2>4. QED BY <1>2, <2>2, <2>3 DEF CountOriginal, ReadOriginal, Step
<1>3. CASE CountMiss(l)
  <2>1. /\ UNCHANGED reply /\ fpc[l] = "put" /\ fpc' = [fpc EXCEPT ![l] = "return"]
        /\ draft' = [draft EXCEPT ![l] = Result("MISS", temp[l])]
        /\ Inc({"cacheMisses"})
    BY <1>3 DEF CountMiss, PutReturns, serveVars, Step, Ends
  <2>2. temp[l] = "transformed"
    BY <2>1 DEF Known, HInv, PlaceAndContent
  <2>3. Result("MISS", temp[l]) \in Results /\ Result("MISS", temp[l]).xcache = "MISS"
    BY <2>2 DEF Result, Results, Codes, Bodies
  <2>4. QED BY <1>1, <2>1, <2>3, DraftLInv
<1>4. ASSUME \/ ResolveFails(l) \/ FetchFails(l) \/ ReadOriginalFails(l) \/ CreateTempFails(l)
             \/ CopyToTempFails(l) \/ ReadBackFails(l),
             Inc({})
      PROVE  LInv'
  <2>1. /\ UNCHANGED reply /\ fpc[l] \notin {"return", "over"}
        /\ fpc' = [fpc EXCEPT ![l] = "return"]
    BY <1>4 DEF ResolveFails, FetchFails, ReadOriginalFails, CreateTempFails, CopyToTempFails,
                ReadBackFails, serveVars, Step
  <2> DEFINE ErrorCodes == {404, 502}
  <2>2. \E code \in ErrorCodes : draft' = [draft EXCEPT ![l] = Error(code)]
    <3>1. CASE FetchFails(l)
      <4> DEFINE upstream == IF May("upstream") THEN {404, 502} ELSE {}
                 own == IF Gone(l) THEN {502} ELSE {}
      <4>1. PICK code \in upstream \cup own : Ends(l, Error(code))
        BY <3>1 DEF FetchFails
      <4>2. code \in ErrorCodes
        OBVIOUS
      <4>3. draft' = [draft EXCEPT ![l] = Error(code)]
        BY <4>1 DEF Ends
      <4> HIDE DEF upstream, own, ErrorCodes
      <4>4. QED BY <4>2, <4>3
    <3>2. CASE ~FetchFails(l)
      BY <1>4, <3>2 DEF ResolveFails, ReadOriginalFails, CreateTempFails, CopyToTempFails,
                        ReadBackFails, Ends
    <3>3. QED BY <3>1, <3>2
  <2>3. ASSUME NEW code \in ErrorCodes
        PROVE  Error(code) \in Results /\ Error(code).xcache = "none"
    BY DEF Error, Results, Codes, Bodies
  <2> HIDE DEF ErrorCodes
  <2>4. PICK result : /\ result \in Results /\ result.xcache = "none"
                      /\ draft' = [draft EXCEPT ![l] = result]
    BY <2>2, <2>3
  <2>5. QED BY <1>1, <1>4, <2>1, <2>4, DraftLInv
<1>5. QED BY <1>2, <1>3, <1>4

(* The other steps, counted or not. *)
LEMMA RestLInv ==
    ASSUME LInv, RInv, Known, NEW l \in Requests,
           \/ CountImgproxyError(l) \/ CountPut(l) \/ CountUpload(l)
           \/ /\ \/ LookupHit(l) \/ LookupMiss(l) \/ LeadFlight(l) \/ JoinFlight(l) \/ PassFetch(l)
                 \/ Disconnect(l) \/ Resolve(l) \/ HeadNonImage(l) \/ HeadImage(l) \/ Transform(l)
                 \/ Fetch(l) \/ CreateTemp(l) \/ CopyToTemp(l) \/ ReadBack(l) \/ Deliver(l)
              /\ Inc({})
    PROVE  LInv'
<1>1. UNCHANGED <<reply, draft>>
  BY DEF CountImgproxyError, CountPut, CountUpload, TransformFails, Putting, Background,
         LookupHit, LookupMiss, LeadFlight, JoinFlight, PassFetch, Disconnect, Resolve,
         HeadNonImage, HeadImage, Transform, Fetch, CreateTemp, CopyToTemp, ReadBack, Deliver,
         serveVars, processVars
<1>2. NoDraftYet'
  <2>1. fpc \in [Requests -> FlightPlaces] /\ NoDraftYet
    BY DEF Known, HInv, LInv
  <2>2. CASE LeadFlight(l)
    <3>1. fn[l] = "none"
      BY <2>2 DEF LeadFlight, SF!Lead, Known, Typed, Flight!IInv, Flight!IdleIsFresh
    <3>2. fpc[l] = "off" /\ fpc' = [fpc EXCEPT ![l] = "resolve"]
      BY <2>2, <3>1 DEF LeadFlight, Known, RInv, OwnMail, HInv, PlaceAndCall, InFlight
    <3>3. QED BY <1>1, <2>1, <3>2 DEF NoDraftYet
  <2>3. CASE Deliver(l)
    <3>1. fpc[l] = "return" /\ fpc' = [fpc EXCEPT ![l] = "over"]
      BY <2>3 DEF Deliver, Step
    <3>2. QED BY <1>1, <2>1, <3>1 DEF NoDraftYet
  <2>4. CASE ~LeadFlight(l) /\ ~Deliver(l)
    <3>1. \/ UNCHANGED fpc
          \/ \E to : fpc[l] \notin {"return", "over"} /\ fpc' = [fpc EXCEPT ![l] = to]
      BY <2>4 DEF CountImgproxyError, CountPut, CountUpload, TransformFails, Putting, Background,
         LookupHit, LookupMiss, JoinFlight, PassFetch, Disconnect, Resolve,
         HeadNonImage, HeadImage, Transform, Fetch, CreateTemp, CopyToTemp, ReadBack,
         processVars, Step
    <3>2. QED BY <1>1, <2>1, <3>1 DEF NoDraftYet
  <2>5. QED BY <2>2, <2>3, <2>4
<1>3. \E names : /\ Inc(names)
                 /\ names \cap {"cacheHits", "cacheMisses", "cacheBypasses"} = {}
  <2>1. CASE CountImgproxyError(l)
    BY <2>1 DEF CountImgproxyError
  <2>2. CASE CountPut(l)
    BY <2>2 DEF CountPut
  <2>3. CASE CountUpload(l)
    BY <2>3 DEF CountUpload
  <2>4. CASE Inc({})
    BY <2>4
  <2>5. QED BY <2>1, <2>2, <2>3, <2>4
<1>4. QED BY <1>1, <1>2, <1>3, QuietLInv

LEMMA NextLInv == LInv /\ RInv /\ Known /\ [MeteredNext]_<<vars, count>> => LInv'
<1> SUFFICES ASSUME LInv, RInv, Known, [MeteredNext]_<<vars, count>> PROVE LInv'
  OBVIOUS
<1>1. CASE UNCHANGED <<vars, count>>
  BY <1>1 DEF vars, serveVars, processVars, LInv, LedgerBalances, NoDraftYet, Hits, With
<1>2. CASE Quiescent /\ UNCHANGED count
  BY <1>1, <1>2 DEF Quiescent
<1>3. ASSUME NEW r \in Requests,
             \/ CountHit(r) \/ CountImgproxyError(r) \/ CountOriginal(r) \/ CountMiss(r)
             \/ CountPut(r) \/ CountUpload(r) \/ Uncounted(r)
      PROVE  LInv'
  BY <1>3, HitLInv, OtherReplyLInv, EndLInv, RestLInv DEF Uncounted
<1>4. QED BY <1>1, <1>2, <1>3 DEF MeteredNext

(* metrics.go: every cache hit, miss and bypass is counted once, on every     *)
(* path, however many requests share a flight.                                *)
THEOREM LedgerIsBalanced == MeteredSpec => []LedgerBalances
<1>1. LInv => LedgerBalances
  BY DEF LInv
<1>2. QED BY <1>1, InitLInv, NextLInv, MeteredIsHandler, ReplyInvariance, PTL DEF MeteredSpec

-----------------------------------------------------------------------------
(* An image that has missed its way into the cache, or is about to, has been  *)
(* counted; one that is uploaded is there.                                    *)
Missed == {l \in Requests : /\ job[l] \in {"rejected", "dropped", "settled", "cleaned",
                                           "uncounted", "released", "done"}
                            /\ store[KeyOf[l]] = None}

PInv == /\ count \in [Counters -> Nat]
        /\ \A l \in Requests : job[l] = "uploaded" => store[KeyOf[l]] # None
        /\ Cardinality(Missed) <= count["putErrors"]

LEMMA InitPInv == MeteredInit => PInv
<1> SUFFICES ASSUME MeteredInit PROVE PInv
  OBVIOUS
<1>1. Missed = {} /\ \A l \in Requests : job[l] = "none"
  BY DEF MeteredInit, Init, AP!Init, Missed
<1>2. Cardinality({}) = 0
  BY FS_EmptySet
<1>3. QED BY <1>1, <1>2 DEF MeteredInit, PInv, Counters

LEMMA OneMore ==
    ASSUME NEW S, IsFiniteSet(S), NEW x
    PROVE  /\ IsFiniteSet(S \cup {x})
           /\ Cardinality(S \cup {x}) \in Nat
           /\ Cardinality(S \cup {x}) <= Cardinality(S) + 1
<1>1. IsFiniteSet(S \cup {x}) /\ Cardinality(S \cup {x}) \in Nat /\ Cardinality(S) \in Nat
  BY FS_AddElement, FS_CardinalityType
<1>2. \/ Cardinality(S \cup {x}) = Cardinality(S)
      \/ Cardinality(S \cup {x}) = Cardinality(S) + 1
  BY FS_AddElement
<1>3. QED BY <1>1, <1>2

(* A step may add one to what is missed, if it is counted. *)
LEMMA MissedMoves ==
    ASSUME PInv, NEW l \in Requests, NEW names, Inc(names),
           \A m \in Requests : job'[m] = "uploaded" => store'[KeyOf[m]] # None,
           \/ Missed' \subseteq Missed
           \/ Missed' \subseteq Missed \cup {l} /\ "putErrors" \in names
    PROVE  PInv'
<1>1. Missed \subseteq Requests /\ Missed' \subseteq Requests
  BY DEF Missed
<1>2. /\ IsFiniteSet(Missed) /\ Cardinality(Missed) \in Nat
      /\ IsFiniteSet(Missed') /\ Cardinality(Missed') \in Nat
  BY <1>1, FS_Subset, FS_CardinalityType
<1>3. /\ count' \in [Counters -> Nat]
      /\ count'["putErrors"] = count["putErrors"] + (IF "putErrors" \in names THEN 1 ELSE 0)
      /\ count["putErrors"] \in Nat
  BY DEF PInv, Inc, Counters
<1>4. Missed' \subseteq Missed => Cardinality(Missed') <= Cardinality(Missed)
  BY <1>2, FS_Subset
<1>5. /\ IsFiniteSet(Missed \cup {l})
      /\ Cardinality(Missed \cup {l}) \in Nat
      /\ Cardinality(Missed \cup {l}) <= Cardinality(Missed) + 1
  BY <1>2, OneMore
<1>6. Missed' \subseteq Missed \cup {l} => Cardinality(Missed') <= Cardinality(Missed) + 1
  BY <1>2, <1>5, FS_Subset
<1>7. Cardinality(Missed') <= count'["putErrors"]
  BY <1>2, <1>3, <1>4, <1>6 DEF PInv
<1>8. QED BY <1>3, <1>7 DEF PInv

(* The steps of a put, and what they are counted as. *)
LEMMA PutPInv ==
    ASSUME PInv, Known, NEW l \in Requests, CountPut(l) \/ CountUpload(l) \/ CountMiss(l)
    PROVE  PInv'
<1>1. /\ job \in [Requests -> AP!States] /\ store \in [Keys -> Requests \cup {None}]
      /\ KeyOf[l] \in Keys
  BY DEF Known, Typed, AP!TypeOK
<1>2. CASE CountPut(l)
  <2> DEFINE names == IF job'[l] = "rejected" THEN {"asyncCachePutDropped", "putErrors"} ELSE {}
  <2>1. /\ Inc(names) /\ UNCHANGED store
        /\ \E to \in {"acquired", "rejected", "counted"} : job' = [job EXCEPT ![l] = to]
    BY <1>2 DEF CountPut, Putting, AP!Acquire, AP!Reject, AP!IncInflight, AP!Go
  <2>2. Missed' \subseteq Missed \cup {l} /\ (job'[l] # "rejected" => Missed' \subseteq Missed)
    BY <1>1, <2>1 DEF Missed
  <2>3. \A m \in Requests : job'[m] = "uploaded" => store'[KeyOf[m]] # None
    BY <1>1, <2>1 DEF PInv
  <2>4. job'[l] = "rejected" => "putErrors" \in names
    OBVIOUS
  <2> HIDE DEF names
  <2>5. QED BY <2>1, <2>2, <2>3, <2>4, MissedMoves
<1>3. CASE CountUpload(l)
  <2> DEFINE names == IF job[l] = "running" /\ job'[l] = "settled" THEN {"putErrors"} ELSE {}
  <2>1. Inc(names) /\ Background(l)
    BY <1>3 DEF CountUpload
  <2>2. CASE AP!Upload(l)
    <3>1. job' = [job EXCEPT ![l] = "uploaded"] /\ store' = [store EXCEPT ![KeyOf[l]] = l]
      BY <2>2 DEF AP!Upload, AP!Go
    <3>2. Missed' \subseteq Missed
      BY <1>1, <3>1 DEF Missed
    <3>3. \A m \in Requests : job'[m] = "uploaded" => store'[KeyOf[m]] # None
      BY <1>1, <3>1 DEF PInv
    <3> HIDE DEF names
    <3>4. QED BY <2>1, <3>2, <3>3, MissedMoves
  <2>3. CASE AP!UploadFails(l)
    <3>1. /\ job[l] = "running" /\ job' = [job EXCEPT ![l] = "settled"]
          /\ store' = store \/ store' = [store EXCEPT ![KeyOf[l]] = l]
      BY <2>3 DEF AP!UploadFails, AP!Go
    <3>2. Missed' \subseteq Missed \cup {l} /\ "putErrors" \in names
      BY <1>1, <3>1 DEF Missed
    <3>3. \A m \in Requests : job'[m] = "uploaded" => store'[KeyOf[m]] # None
      BY <1>1, <3>1 DEF PInv
    <3> HIDE DEF names
    <3>4. QED BY <2>1, <3>2, <3>3, MissedMoves
  <2>4. CASE AP!S3Remove(l)
    <3>1. job[l] = "uploaded" /\ job' = [job EXCEPT ![l] = "settled"] /\ UNCHANGED store
      BY <2>4 DEF AP!S3Remove, AP!Go
    <3>2. Missed' \subseteq Missed
      BY <1>1, <3>1 DEF Missed, PInv
    <3>3. \A m \in Requests : job'[m] = "uploaded" => store'[KeyOf[m]] # None
      BY <1>1, <3>1 DEF PInv
    <3> HIDE DEF names
    <3>4. QED BY <2>1, <3>2, <3>3, MissedMoves
  <2>5. CASE AP!DeferRemove(l) \/ AP!DeferDecInflight(l) \/ AP!DeferRelease(l) \/ AP!DeferDone(l)
    <3>1. /\ job[l] \in {"settled", "cleaned", "uncounted", "released"} /\ UNCHANGED store
          /\ \E to \in {"cleaned", "uncounted", "released", "done"} : job' = [job EXCEPT ![l] = to]
      BY <2>5 DEF AP!DeferRemove, AP!DeferDecInflight, AP!DeferRelease, AP!DeferDone, AP!Go
    <3>2. Missed' \subseteq Missed
      BY <1>1, <3>1 DEF Missed
    <3>3. \A m \in Requests : job'[m] = "uploaded" => store'[KeyOf[m]] # None
      BY <1>1, <3>1 DEF PInv
    <3> HIDE DEF names
    <3>4. QED BY <2>1, <3>2, <3>3, MissedMoves
  <2>6. QED BY <2>1, <2>2, <2>3, <2>4, <2>5 DEF Background
<1>4. CASE CountMiss(l)
  <2>1. /\ UNCHANGED store /\ Inc({"cacheMisses"})
        /\ \/ job[l] = "counted" /\ job' = [job EXCEPT ![l] = "running"]
           \/ job[l] = "rejected" /\ job' = [job EXCEPT ![l] = "dropped"]
    BY <1>4 DEF CountMiss, PutReturns, AP!Launch, AP!DropFile, AP!Go
  <2>2. Missed' \subseteq Missed
    BY <1>1, <2>1 DEF Missed
  <2>3. \A m \in Requests : job'[m] = "uploaded" => store'[KeyOf[m]] # None
    BY <1>1, <2>1 DEF PInv
  <2>4. QED BY <2>1, <2>2, <2>3, MissedMoves
<1>5. QED BY <1>2, <1>3, <1>4

LEMMA NextPInv == PInv /\ Known /\ [MeteredNext]_<<vars, count>> => PInv'
<1> SUFFICES ASSUME PInv, Known, [MeteredNext]_<<vars, count>> PROVE PInv'
  OBVIOUS
<1>1. CASE UNCHANGED <<vars, count>> \/ (Quiescent /\ UNCHANGED count)
  BY <1>1 DEF Quiescent, vars, putVars, PInv, Missed
<1>2. ASSUME NEW r \in Requests,
             CountHit(r) \/ CountImgproxyError(r) \/ CountOriginal(r) \/ Uncounted(r)
      PROVE  PInv'
  <2>1. job \in [Requests -> AP!States]
    BY DEF Known, Typed, AP!TypeOK
  <2>2. PICK names : Inc(names)
    BY <1>2 DEF CountHit, CountImgproxyError, CountOriginal, Uncounted
  <2>3. /\ UNCHANGED store
        /\ \/ UNCHANGED job
           \/ \E to \in {"prepared", "discarded"} : job' = [job EXCEPT ![r] = to]
    BY <1>2 DEF CountHit, CountImgproxyError, CountOriginal, Uncounted, LookupHit, LookupMiss,
        Stream, LeadFlight, JoinFlight, Answer, Abandon, PassFetch, PassFails, PassCopy,
        Disconnect, Resolve, ResolveFails, HeadNonImage, HeadImage, Transform, TransformFails,
        Fetch, FetchFails, ReadOriginal, ReadOriginalFails, CreateTemp, CreateTempFails,
        CopyToTemp, CopyToTempFails, ReadBack, ReadBackFails, Deliver, AP!Prepare, AP!Discard,
        AP!Go, putVars
  <2>4. Missed' \subseteq Missed
    BY <2>1, <2>3 DEF Missed
  <2>5. \A m \in Requests : job'[m] = "uploaded" => store'[KeyOf[m]] # None
    BY <2>1, <2>3 DEF PInv
  <2>6. QED BY <2>2, <2>4, <2>5, MissedMoves
<1>3. QED BY <1>1, <1>2, PutPInv DEF MeteredNext

(* metrics.go:65: an image whose put has ended, and that is not in the cache, *)
(* has been counted as a failed write.                                        *)
THEOREM LossesAreCounted == MeteredSpec => []NothingLostSilently
<1>1. ASSUME PInv PROVE NothingLostSilently
  <2> DEFINE lost == {l \in Requests : job[l] \in {"dropped", "done"} /\ store[KeyOf[l]] = None}
  <2>1. lost \subseteq Missed /\ Missed \subseteq Requests
    BY DEF Missed
  <2>2. IsFiniteSet(Missed)
    BY <2>1, FS_Subset
  <2>3. /\ Cardinality(lost) <= Cardinality(Missed)
        /\ Cardinality(lost) \in Nat /\ Cardinality(Missed) \in Nat
    BY <2>1, <2>2, FS_Subset, FS_CardinalityType
  <2>4. Cardinality(lost) <= count["putErrors"]
    BY <1>1, <2>3 DEF PInv, Counters
  <2>5. QED BY <2>4 DEF NothingLostSilently
<1>2. QED BY <1>1, InitPInv, NextPInv, MeteredIsHandler, ReplyInvariance, PTL DEF MeteredSpec

-----------------------------------------------------------------------------
(* The flights that fall back, or have, are no more than the errors; and a    *)
(* flight is counted when it becomes Imageless, which it stays.               *)
Fell == {l \in Requests : fpc[l] \in {"fallback", "readFallback"} \/ l \in FellBack}

FInv == /\ count \in [Counters -> Nat]
        /\ Cardinality(Fell) <= count["imgproxyErrors"]
        /\ count["imgproxyErrors"] <= Cardinality(Imageless)

LEMMA InitFInv == MeteredInit => FInv
<1> SUFFICES ASSUME MeteredInit PROVE FInv
  OBVIOUS
<1>1. Fell = {} /\ Imageless = {}
  BY DEF MeteredInit, Init, Fell, FellBack, With, Imageless
<1>2. Cardinality({}) = 0
  BY FS_EmptySet
<1>3. QED BY <1>1, <1>2 DEF MeteredInit, FInv, Counters

(* Steps of one flight: those that count an error, and those that do not. *)
LEMMA FallbackMoves ==
    ASSUME FInv, NEW l \in Requests, NEW names, Inc(names),
           \A m \in Requests \ {l} :
               fpc'[m] = fpc[m] /\ temp'[m] = temp[m] /\ draft'[m] = draft[m],
           \/ /\ "imgproxyErrors" \in names
              /\ l \notin Imageless /\ l \in Imageless'
           \/ /\ "imgproxyErrors" \notin names
              /\ l \in Fell' => l \in Fell
              /\ l \in Imageless => l \in Imageless'
    PROVE  FInv'
<1>1. /\ Fell' \subseteq Fell \cup {l} /\ Imageless \subseteq Imageless' \cup {l}
  BY DEF Fell, FellBack, With, Imageless
<1>2. /\ Fell \subseteq Requests /\ Fell' \subseteq Requests
      /\ Imageless \subseteq Requests /\ Imageless' \subseteq Requests
  BY DEF Fell, Imageless
<1>3. /\ IsFiniteSet(Fell) /\ IsFiniteSet(Fell')
      /\ IsFiniteSet(Imageless) /\ IsFiniteSet(Imageless')
  BY <1>2, FS_Subset
<1>4. /\ Cardinality(Fell) \in Nat /\ Cardinality(Fell') \in Nat
      /\ Cardinality(Imageless) \in Nat /\ Cardinality(Imageless') \in Nat
  BY <1>3, FS_CardinalityType
<1>5. /\ count' \in [Counters -> Nat]
      /\ count'["imgproxyErrors"]
             = count["imgproxyErrors"] + (IF "imgproxyErrors" \in names THEN 1 ELSE 0)
      /\ count["imgproxyErrors"] \in Nat
  BY DEF FInv, Inc, Counters
<1>6. CASE "imgproxyErrors" \in names
  <2>1. Cardinality(Fell') <= Cardinality(Fell) + 1
    <3>1. /\ IsFiniteSet(Fell \cup {l}) /\ Cardinality(Fell \cup {l}) \in Nat
          /\ Cardinality(Fell \cup {l}) <= Cardinality(Fell) + 1
      BY <1>3, OneMore
    <3>2. Cardinality(Fell') <= Cardinality(Fell \cup {l})
      BY <1>1, <3>1, FS_Subset
    <3>3. QED BY <1>4, <3>1, <3>2
  <2>2. Cardinality(Imageless) + 1 <= Cardinality(Imageless')
    <3>1. Imageless \cup {l} \subseteq Imageless' /\ l \notin Imageless
      BY <1>1, <1>6
    <3>2. /\ IsFiniteSet(Imageless \cup {l})
          /\ Cardinality(Imageless \cup {l}) = Cardinality(Imageless) + 1
      BY <1>3, <3>1, FS_AddElement
    <3>3. Cardinality(Imageless \cup {l}) <= Cardinality(Imageless')
      BY <1>3, <3>1, FS_Subset
    <3>4. QED BY <3>2, <3>3
  <2>3. QED BY <1>4, <1>5, <1>6, <2>1, <2>2 DEF FInv
<1>7. CASE "imgproxyErrors" \notin names
  <2>1. Fell' \subseteq Fell /\ Imageless \subseteq Imageless'
    BY <1>1, <1>7
  <2>2. /\ Cardinality(Fell') <= Cardinality(Fell)
        /\ Cardinality(Imageless) <= Cardinality(Imageless')
    BY <1>3, <2>1, FS_Subset
  <2>3. QED BY <1>4, <1>5, <1>7, <2>2 DEF FInv
<1>8. QED BY <1>6, <1>7

(* Steps that leave process where it is. *)
LEMMA ElsewhereFInv ==
    ASSUME FInv, UNCHANGED <<fpc, draft, temp>>, NEW l \in Requests, NEW names, Inc(names),
           "imgproxyErrors" \notin names
    PROVE  FInv'
<1>1. Fell' = Fell /\ Imageless' = Imageless
  BY DEF Fell, FellBack, With, Imageless
<1>2. QED BY <1>1, FallbackMoves

(* Steps of process on its way to an image. *)
LEMMA OnwardFInv ==
    ASSUME FInv, RInv, LInv, Known, NEW l \in Requests, Inc({}),
           \/ LeadFlight(l) \/ Resolve(l) \/ HeadNonImage(l) \/ HeadImage(l) \/ Transform(l)
           \/ Fetch(l) \/ CreateTemp(l) \/ CopyToTemp(l) \/ ReadBack(l) \/ Deliver(l)
    PROVE  FInv'
<1>1. /\ fpc \in [Requests -> FlightPlaces] /\ NoDraftYet
      /\ temp \in [Requests -> Contents]
  BY DEF Known, HInv, LInv
<1>2. UNCHANGED draft
  BY DEF LeadFlight, Resolve, HeadNonImage, HeadImage, Transform, Fetch, CreateTemp, CopyToTemp,
         ReadBack, Deliver
<1>3. /\ \E to : fpc' = [fpc EXCEPT ![l] = to]
      /\ \/ UNCHANGED temp
         \/ /\ fpc[l] \in {"create", "copy"}
            /\ \E body \in {"empty", "transformed"} : temp' = [temp EXCEPT ![l] = body]
  BY DEF LeadFlight, Resolve, HeadNonImage, HeadImage, Transform, Fetch, CreateTemp, CopyToTemp,
         ReadBack, Deliver, Step
<1>4. \/ /\ fpc[l] \notin {"fallback", "readFallback", "return", "over"}
         /\ fpc'[l] \notin {"fallback", "readFallback", "return", "over"}
      \/ fpc[l] = "fallback" /\ fpc'[l] = "readFallback"
      \/ fpc[l] = "return" /\ fpc'[l] = "over"
  <2>1. CASE LeadFlight(l)
    <3>1. fn[l] = "none"
      BY <2>1 DEF LeadFlight, SF!Lead, Known, Typed, Flight!IInv, Flight!IdleIsFresh
    <3>2. fpc[l] = "off" /\ fpc' = [fpc EXCEPT ![l] = "resolve"]
      BY <2>1, <3>1 DEF LeadFlight, Known, RInv, OwnMail, HInv, PlaceAndCall, InFlight
    <3>3. QED BY <1>1, <3>2
  <2>2. CASE ~LeadFlight(l)
    BY <1>1, <2>2 DEF Resolve, HeadNonImage, HeadImage, Transform, Fetch, CreateTemp,
         CopyToTemp, ReadBack, Deliver, Step
  <2>3. QED BY <2>1, <2>2
<1>5. \A m \in Requests \ {l} : fpc'[m] = fpc[m] /\ temp'[m] = temp[m] /\ draft'[m] = draft[m]
  BY <1>1, <1>2, <1>3
<1>6. l \in Fell' => l \in Fell
  BY <1>1, <1>2, <1>4 DEF Fell, FellBack, With
<1>7. l \in Imageless => l \in Imageless'
  BY <1>1, <1>2, <1>3, <1>4 DEF Imageless, With
<1>8. QED BY <1>5, <1>6, <1>7, FallbackMoves

(* Steps that end process without falling back, and those that end a fallback *)
(* in an original or an error.                                                *)
LEMMA EndFInv ==
    ASSUME FInv, RInv, LInv, Known, NEW l \in Requests,
           NEW result, draft' = [draft EXCEPT ![l] = result],
           fpc' = [fpc EXCEPT ![l] = "return"], fpc[l] \notin {"return", "over"},
           \/ UNCHANGED temp
           \/ fpc[l] = "copy" /\ temp' = [temp EXCEPT ![l] = "partial"],
           result.xcache = "BYPASS" => fpc[l] = "readBypass",
           result.xcache = "MISS" /\ result.body = "original" => fpc[l] = "readFallback",
           NEW names, Inc(names), "imgproxyErrors" \notin names
    PROVE  FInv'
<1>1. /\ fpc \in [Requests -> FlightPlaces] /\ NoDraftYet
      /\ temp \in [Requests -> Contents] /\ draft \in [Requests -> Results \cup {None}]
  BY DEF Known, HInv, LInv, RInv, ServeTypes
<1>2. \A m \in Requests \ {l} : fpc'[m] = fpc[m] /\ temp'[m] = temp[m] /\ draft'[m] = draft[m]
  BY <1>1
<1>3. fpc'[l] = "return" /\ draft'[l] = result
  BY <1>1
<1>4. l \in Fell' => l \in Fell
  BY <1>3 DEF Fell, FellBack, With
<1>5. l \in Imageless => l \in Imageless'
  BY <1>1, <1>3 DEF Imageless, With
<1>6. QED BY <1>2, <1>4, <1>5, FallbackMoves

LEMMA NextFInv == FInv /\ LInv /\ RInv /\ Known /\ [MeteredNext]_<<vars, count>> => FInv'
<1> SUFFICES ASSUME FInv, LInv, RInv, Known, [MeteredNext]_<<vars, count>> PROVE FInv'
  OBVIOUS
<1>1. CASE UNCHANGED <<vars, count>> \/ (Quiescent /\ UNCHANGED count)
  BY <1>1 DEF Quiescent, vars, processVars, FInv, Fell, FellBack, With, Imageless
<1>2. ASSUME NEW r \in Requests, CountHit(r) \/ CountPut(r) \/ CountUpload(r)
      PROVE  FInv'
  <2>1. UNCHANGED <<fpc, draft, temp>>
    BY <1>2 DEF CountHit, CountPut, CountUpload, Stream, Putting, Background, processVars
  <2>2. \E names : Inc(names) /\ "imgproxyErrors" \notin names
    BY <1>2 DEF CountHit, CountPut, CountUpload
  <2>3. QED BY <2>1, <2>2, ElsewhereFInv
<1>3. ASSUME NEW r \in Requests, CountImgproxyError(r) PROVE FInv'
  <2>1. /\ fpc[r] = "transform" /\ fpc' = [fpc EXCEPT ![r] = "fallback"]
        /\ UNCHANGED <<draft, temp>> /\ Inc({"imgproxyErrors"})
    BY <1>3 DEF CountImgproxyError, TransformFails, Step
  <2>2. /\ fpc \in [Requests -> FlightPlaces]
        /\ draft[r] = None /\ temp[r] = "none"
    BY <2>1 DEF Known, HInv, LInv, NoDraftYet, RInv, PlaceAndFile
  <2>3. \A m \in Requests \ {r} : fpc'[m] = fpc[m] /\ temp'[m] = temp[m] /\ draft'[m] = draft[m]
    BY <2>1, <2>2
  <2>4. r \notin Imageless /\ r \in Imageless'
    BY <2>1, <2>2 DEF Imageless, With
  <2>5. QED BY <2>1, <2>3, <2>4, FallbackMoves
<1>4. ASSUME NEW r \in Requests, CountOriginal(r) PROVE FInv'
  <2>1. CASE fpc[r] = "readBypass"
    <3>1. /\ fpc' = [fpc EXCEPT ![r] = "return"] /\ UNCHANGED temp
          /\ draft' = [draft EXCEPT ![r] = Result("BYPASS", "original")]
          /\ Inc({"cacheBypasses"})
      BY <1>4, <2>1 DEF CountOriginal, ReadOriginal, Step, Ends
    <3>2. Result("BYPASS", "original").xcache = "BYPASS"
      BY DEF Result
    <3>3. QED BY <2>1, <3>1, <3>2, EndFInv
  <2>2. CASE fpc[r] = "readFallback"
    <3>1. /\ fpc' = [fpc EXCEPT ![r] = "return"] /\ UNCHANGED temp
          /\ draft' = [draft EXCEPT ![r] = Result("MISS", "original")]
          /\ Inc({"cacheMisses"})
      BY <1>4, <2>2 DEF CountOriginal, ReadOriginal, Step, Ends
    <3>2. Result("MISS", "original").xcache = "MISS"
      BY DEF Result
    <3>3. QED BY <2>2, <3>1, <3>2, EndFInv
  <2>3. QED BY <1>4, <2>1, <2>2 DEF CountOriginal, ReadOriginal, Step
<1>5. ASSUME NEW r \in Requests, CountMiss(r) PROVE FInv'
  <2>1. /\ fpc[r] = "put" /\ fpc' = [fpc EXCEPT ![r] = "return"] /\ UNCHANGED temp
        /\ draft' = [draft EXCEPT ![r] = Result("MISS", temp[r])]
        /\ Inc({"cacheMisses"})
    BY <1>5 DEF CountMiss, PutReturns, Step, Ends
  <2>2. temp[r] = "transformed"
    BY <2>1 DEF Known, HInv, PlaceAndContent
  <2>3. /\ Result("MISS", temp[r]).xcache = "MISS"
        /\ Result("MISS", temp[r]).body = "transformed"
    BY <2>2 DEF Result
  <2>4. QED BY <2>1, <2>3, EndFInv
<1>6. ASSUME NEW r \in Requests, Inc({}),
             \/ LookupHit(r) \/ LookupMiss(r) \/ JoinFlight(r) \/ Answer(r) \/ Abandon(r)
             \/ PassFetch(r) \/ PassFails(r) \/ PassCopy(r) \/ Disconnect(r)
      PROVE  FInv'
  <2>1. UNCHANGED <<fpc, draft, temp>>
    BY <1>6 DEF LookupHit, LookupMiss, JoinFlight, Answer, Abandon, PassFetch, PassFails,
                PassCopy, Disconnect, processVars
  <2>2. QED BY <1>6, <2>1, ElsewhereFInv
<1>7. ASSUME NEW r \in Requests, Inc({}),
             \/ ResolveFails(r) \/ FetchFails(r) \/ ReadOriginalFails(r) \/ CreateTempFails(r)
             \/ CopyToTempFails(r) \/ ReadBackFails(r)
      PROVE  FInv'
  <2>1. /\ fpc' = [fpc EXCEPT ![r] = "return"] /\ fpc[r] \notin {"return", "over"}
        /\ UNCHANGED temp \/ (fpc[r] = "copy" /\ temp' = [temp EXCEPT ![r] = "partial"])
    BY <1>7 DEF ResolveFails, FetchFails, ReadOriginalFails, CreateTempFails, CopyToTempFails,
                ReadBackFails, Step
  <2>2. \E code : draft' = [draft EXCEPT ![r] = Error(code)]
    <3>1. CASE FetchFails(r)
      <4>1. \E code : Ends(r, Error(code))
        BY <3>1 DEF FetchFails
      <4>2. QED BY <4>1 DEF Ends
    <3>2. CASE ~FetchFails(r)
      BY <1>7, <3>2 DEF ResolveFails, ReadOriginalFails, CreateTempFails, CopyToTempFails,
                        ReadBackFails, Ends
    <3>3. QED BY <3>1, <3>2
  <2>3. \A code : Error(code).xcache = "none"
    BY DEF Error
  <2>4. PICK result : result.xcache = "none" /\ draft' = [draft EXCEPT ![r] = result]
    BY <2>2, <2>3
  <2>5. QED BY <1>7, <2>1, <2>4, EndFInv
<1>8. QED BY <1>1, <1>2, <1>3, <1>4, <1>5, <1>6, <1>7, OnwardFInv DEF MeteredNext, Uncounted

(* metrics.go:61: no fallback that was answered goes uncounted; and no flight *)
(* is counted twice, nor are more counted than have come to the fallback or   *)
(* to their end with no file and no bypass, whatever they failed at.          *)
THEOREM FallbacksCounted == MeteredSpec => []FallbacksAreCounted
<1>1. ASSUME FInv PROVE FallbacksAreCounted
  <2>1. FellBack \subseteq Fell /\ Fell \subseteq Requests
    BY DEF Fell, FellBack, With
  <2>2. IsFiniteSet(Fell)
    BY <2>1, FS_Subset
  <2>3. /\ Cardinality(FellBack) <= Cardinality(Fell)
        /\ Cardinality(FellBack) \in Nat /\ Cardinality(Fell) \in Nat
    BY <2>1, <2>2, FS_Subset, FS_CardinalityType
  <2>4. count["imgproxyErrors"] \in Nat
    BY <1>1 DEF FInv, Counters
  <2>5. QED BY <1>1, <2>3, <2>4 DEF FInv, FallbacksAreCounted
<1>2. QED BY <1>1, InitFInv, NextFInv, InitLInv, NextLInv, MeteredIsHandler, ReplyInvariance, PTL
         DEF MeteredSpec
=============================================================================

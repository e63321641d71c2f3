--------------------------- MODULE Resolver_proofs ---------------------------
(* The theorems about Resolver, for every set of names, every allowlist and   *)
(* every timeout.                                                             *)
EXTENDS Resolver, SequenceTheorems, TLAPS

(* What the attempts so far have answered: "may get better" without exception *)
(* before the last, and what it takes to be at a place after the last.        *)
AnswersInv ==
    /\ at \in {"resolve", "presignGet", "presignHead", "resolved", "headReply", "headed"}
           => seen = <<>>
    /\ at \in {"attempt", "backoff"} =>
           /\ Len(seen) = attempt - 1
           /\ \A i \in 1..Len(seen) : seen[i] \in Retryable
    /\ at \in {"attempt", "reply", "judge", "reading"} => attempt \in 1..MaxAttempts
    /\ at = "backoff" => attempt \in 2..MaxAttempts
    /\ at \in {"reply", "judge", "reading"} =>
           /\ Len(seen) = attempt
           /\ \A i \in 1..(Len(seen) - 1) : seen[i] \in Retryable
    /\ at = "judge" => Last # "2xx"
    /\ at = "reading" => Last = "2xx"
    /\ at = "ended" => VerdictFollowsAnswers

BodiesInv == open = IF at \in {"headReply", "reply", "reading"} THEN 1 ELSE 0

(* Before HEAD nothing is known of the source. *)
NothingSaid == at \in {"resolve", "presignGet", "presignHead", "resolved"} => mime = "unknown"

(* The time that may have passed before attempt a begins. *)
Before(a) == IF a = 1 THEN Timeout
             ELSE IF a = 2 THEN 2 * Timeout + 1
             ELSE 3 * Timeout + 3

ClockInv ==
    /\ at \in {"resolve", "presignGet", "presignHead", "resolved"} => clock = 0
    /\ at \in {"headReply", "headed"} => clock <= Timeout
    /\ at = "attempt" => clock <= Before(attempt)
    /\ at = "backoff" => clock + Delay[attempt - 1] <= Before(attempt)
    /\ at \in {"reply", "reading"} => clock <= Before(attempt) + spent
    /\ at = "judge" => clock <= Before(attempt) + Timeout
    /\ at = "ended" => clock <= 4 * Timeout + 3

IInv == TypeOK /\ AnswersInv /\ BodiesInv /\ ClockInv /\ NothingSaid

-----------------------------------------------------------------------------
(* One more answer at the end of the answers so far. *)
LEMMA OneMore ==
    ASSUME NEW s \in Seq(Outcomes), NEW o \in Outcomes
    PROVE  /\ Append(s, o) \in Seq(Outcomes)
           /\ Len(Append(s, o)) = Len(s) + 1
           /\ \A i \in 1..Len(s) : Append(s, o)[i] = s[i]
           /\ Append(s, o)[Len(Append(s, o))] = o
BY AppendProperties

(* The delay before each retry. *)
LEMMA Delays == Delay[1] = 1 /\ Delay[2] = 2
BY DEF Delay

LEMMA InitIInv == Init => IInv
<1> SUFFICES ASSUME Init PROVE IInv
    OBVIOUS
<1> USE DEF Init
<1>1. TypeOK
    <2>1. seen \in Seq(Outcomes)
        <3>1. <<>> \in Seq(Outcomes)
            BY EmptySeq, Zenon
        <3> QED BY <3>1
    <2>2. at \in Places /\ result \in Results
        BY DEF Places, Results
    <2>3. attempt \in 0..MaxAttempts /\ open \in Nat
        BY DEF MaxAttempts
    <2>4. clock \in Nat /\ spent \in 0..Timeout
        BY TimeoutAssumption
    <2>5. input \in Inputs /\ gone \in BOOLEAN /\ mime \in {"unknown", "image", "other"}
        OBVIOUS
    <2> QED BY <2>1, <2>2, <2>3, <2>4, <2>5 DEF TypeOK
<1>2. AnswersInv /\ BodiesInv /\ ClockInv /\ NothingSaid
    BY DEF AnswersInv, BodiesInv, ClockInv, NothingSaid
<1> QED BY <1>1, <1>2 DEF IInv

(* The steps before the first attempt. *)
LEMMA PrepareIInv ==
    ASSUME IInv,
           \/ Reject \/ ResolveGateway \/ ResolveS3 \/ Presign \/ PresignFails
           \/ HeadReplies \/ HeadCloses \/ HeadFails \/ NotFetched \/ BeginFetch
    PROVE  IInv'
<1> USE TimeoutAssumption DEF IInv, TypeOK, Goes, Takes
<1> USE DEF Reject, ResolveGateway, ResolveS3, Presign, PresignFails,
            HeadReplies, HeadCloses, HeadFails, NotFetched, BeginFetch
<1>1. TypeOK'
    BY DEF Places, Results, MaxAttempts, BodiesInv
<1>2. AnswersInv'
    BY DEF AnswersInv, VerdictFollowsAnswers, MaxAttempts
<1>3. BodiesInv'
    BY DEF BodiesInv
<1>4. ClockInv'
    BY DEF ClockInv, Before
<1>5. NothingSaid'
    BY DEF NothingSaid
<1> QED BY <1>1, <1>2, <1>3, <1>4, <1>5

(* The answers to an attempt. *)
LEMMA AnswerIInv ==
    ASSUME IInv, NEW o \in Outcomes, (o \in Statuses /\ Replies(o)) \/ Fails(o)
    PROVE  IInv'
<1> USE TimeoutAssumption DEF IInv, TypeOK, Goes, Takes, Replies, Fails
<1>1. /\ seen' \in Seq(Outcomes)
      /\ Len(seen') = Len(seen) + 1
      /\ \A i \in 1..Len(seen) : seen'[i] = seen[i]
      /\ Last' = o
    <2>1. seen' = Append(seen, o)
        OBVIOUS
    <2> QED BY <2>1, OneMore DEF Last
<1>2. TypeOK'
    BY <1>1 DEF Places
<1>3. AnswersInv'
    <2>1. at = "attempt" /\ at' \in {"reply", "judge"} /\ attempt' = attempt
        OBVIOUS
    <2>2. Len(seen') = attempt'
        BY <1>1, <2>1 DEF AnswersInv, MaxAttempts
    <2>3. \A i \in 1..(Len(seen') - 1) : seen'[i] \in Retryable
        BY <1>1, <2>1, <2>2 DEF AnswersInv, MaxAttempts
    <2>4. at' = "judge" => Last' # "2xx"
        BY <1>1
    <2> QED BY <2>1, <2>2, <2>3, <2>4 DEF AnswersInv
<1>4. BodiesInv'
    BY DEF BodiesInv
<1>5. ClockInv'
    BY DEF ClockInv, Before
<1>6. NothingSaid'
    BY DEF NothingSaid
<1> QED BY <1>2, <1>3, <1>4, <1>5, <1>6

(* The loop around the attempts, and the reading of the body. *)
LEMMA LoopIInv ==
    ASSUME IInv,
           \/ DiscardReply \/ ReturnBody \/ GiveUp \/ Retry
           \/ BackoffElapses \/ BackoffCancelled \/ ReadBody
    PROVE  IInv'
<1> USE TimeoutAssumption DEF IInv, TypeOK, Goes, Takes
<1> USE DEF DiscardReply, ReturnBody, GiveUp, Retry, BackoffElapses, BackoffCancelled, ReadBody
<1>1. Last' = Last /\ seen' = seen
    BY DEF Last
<1>2. at \in {"reply", "judge", "reading"} => Last \in Outcomes
    BY DEF AnswersInv, Last, MaxAttempts
<1>3. attempt \in {1, 2, 3} /\ (at = "backoff" => attempt \in {2, 3})
    BY DEF AnswersInv, MaxAttempts
<1>d. at = "backoff" => Delay[attempt - 1] \in {1, 2}
    BY <1>3, Delays
<1>4. TypeOK'
    <2>1. at' \in Places /\ open' \in Nat
        BY DEF Places, BodiesInv
    <2>2. result' \in Results
        BY <1>2 DEF Results, Outcomes
    <2>3. attempt' \in 0..MaxAttempts
        BY DEF MaxAttempts
    <2>4. clock' \in Nat
        BY <1>d
    <2> QED BY <1>1, <2>1, <2>2, <2>3, <2>4
<1>5. AnswersInv'
    <2>1. CASE DiscardReply \/ ReturnBody
        BY <2>1, <1>1 DEF AnswersInv
    <2>2. CASE GiveUp
        BY <2>2, <1>1, <1>3 DEF AnswersInv, VerdictFollowsAnswers, MaxAttempts
    <2>3. CASE Retry
        BY <2>3, <1>1, <1>3 DEF AnswersInv, Last, MaxAttempts
    <2>4. CASE BackoffElapses
        BY <2>4, <1>1, <1>3 DEF AnswersInv, MaxAttempts
    <2>5. CASE BackoffCancelled
        <3>1. at = "backoff" /\ Len(seen) = attempt - 1
            BY <2>5 DEF AnswersInv
        <3>2. Len(seen) \in 1..2 /\ Len(seen) \in 1..Len(seen)
            BY <3>1, <1>3
        <3>3. \A i \in 1..Len(seen) : seen[i] \in Retryable
            BY <3>1 DEF AnswersInv
        <3>4. Last \in Retryable
            BY <3>2, <3>3 DEF Last
        <3> QED BY <2>5, <3>2, <3>3, <3>4, <1>1 DEF AnswersInv, VerdictFollowsAnswers, MaxAttempts
    <2>6. CASE ReadBody
        BY <2>6, <1>1, <1>3 DEF AnswersInv, VerdictFollowsAnswers, MaxAttempts
    <2> QED BY <2>1, <2>2, <2>3, <2>4, <2>5, <2>6
<1>6. BodiesInv'
    BY DEF BodiesInv
<1>7. ClockInv'
    <2>1. CASE DiscardReply \/ ReturnBody
        BY <2>1, <1>3 DEF ClockInv, Before
    <2>2. CASE GiveUp
        BY <2>2, <1>3 DEF ClockInv, Before
    <2>3. CASE Retry
        BY <2>3, <1>3, Delays DEF ClockInv, Before, MaxAttempts
    <2>4. CASE BackoffElapses
        BY <2>4, <1>3, <1>d DEF ClockInv, Before
    <2>6. CASE BackoffCancelled
        <3>1. clock' <= clock + Delay[attempt - 1]
            BY <2>6, <1>d
        <3>2. at = "backoff" /\ at' = "ended"
            BY <2>6
        <3>3. clock' <= Before(attempt)
            BY <3>1, <3>2, <1>3, <1>d, <1>4 DEF ClockInv, Before
        <3> QED BY <3>2, <3>3, <1>3 DEF ClockInv, Before
    <2>5. CASE ReadBody
        BY <2>5, <1>3 DEF ClockInv, Before
    <2> QED BY <2>1, <2>2, <2>3, <2>4, <2>5, <2>6
<1>8. NothingSaid'
    BY DEF NothingSaid
<1> QED BY <1>4, <1>5, <1>6, <1>7, <1>8

LEMMA NextIInv == IInv /\ [Next]_vars => IInv'
<1> SUFFICES ASSUME IInv, [Next]_vars PROVE IInv'
    OBVIOUS
<1>1. CASE \/ Reject \/ ResolveGateway \/ ResolveS3 \/ Presign \/ PresignFails
           \/ HeadReplies \/ HeadCloses \/ HeadFails \/ NotFetched \/ BeginFetch
    BY <1>1, PrepareIInv
<1>2. CASE \E o \in Statuses : Replies(o)
    BY <1>2, AnswerIInv DEF Outcomes
<1>3. CASE \E o \in Outcomes : Fails(o)
    BY <1>3, AnswerIInv
<1>4. CASE \/ DiscardReply \/ ReturnBody \/ GiveUp \/ Retry
           \/ BackoffElapses \/ BackoffCancelled \/ ReadBody
    BY <1>4, LoopIInv
<1>5. CASE ClientLeaves
    BY <1>5 DEF ClientLeaves, IInv, TypeOK, AnswersInv, BodiesInv, ClockInv, NothingSaid,
                Before, Last, VerdictFollowsAnswers
<1>6. CASE UNCHANGED vars
    BY <1>6 DEF vars, IInv, TypeOK, AnswersInv, BodiesInv, ClockInv, NothingSaid,
                Before, Last, VerdictFollowsAnswers
<1> QED BY <1>1, <1>2, <1>3, <1>4, <1>5, <1>6 DEF Next

(* The inductive invariant holds in every state. *)
THEOREM Invariance == Spec => []IInv
BY InitIInv, NextIInv, PTL DEF Spec

(* The variables keep their types; so no body is closed that was not open. *)
THEOREM TypeCorrect == Spec => []TypeOK
<1>1. IInv => TypeOK
    BY DEF IInv
<1> QED BY <1>1, Invariance, PTL

(* fetchHTTP retries what may get better, at most twice, and returns what the *)
(* last attempt said, for any source.                                         *)
THEOREM VerdictIsRight == Spec => []VerdictFollowsAnswers
<1>1. IInv => VerdictFollowsAnswers
    <2> SUFFICES ASSUME IInv PROVE VerdictFollowsAnswers
        OBVIOUS
    <2>1. CASE at = "ended"
        BY <2>1 DEF IInv, AnswersInv
    <2>2. CASE at # "ended"
        BY <2>2 DEF IInv, TypeOK, AnswersInv, VerdictFollowsAnswers, MaxAttempts, Places
    <2> QED BY <2>1, <2>2
<1> QED BY <1>1, Invariance, PTL

(* Every response body is closed, on every path through HEAD, the attempts    *)
(* and the reading.                                                           *)
THEOREM NoBodyLeaks == Spec => []BodiesAreClosed
<1>1. IInv => BodiesAreClosed
    BY DEF IInv, BodiesInv, BodiesAreClosed
<1> QED BY <1>1, Invariance, PTL

(* Four timeouts and 300 ms are the most that the source costs. *)
THEOREM TimeIsBounded == Spec => []TimeBudget
<1>1. IInv => TimeBudget
    <2> SUFFICES ASSUME IInv PROVE TimeBudget
        OBVIOUS
    <2>1. attempt \in {0, 1, 2, 3}
        BY DEF IInv, TypeOK, MaxAttempts
    <2>2. at \in {"attempt", "reply", "judge", "reading"} => attempt \in {1, 2, 3}
        BY <2>1 DEF IInv, AnswersInv, MaxAttempts
    <2>3. at = "backoff" => attempt \in {2, 3}
        BY <2>1 DEF IInv, AnswersInv, MaxAttempts
    <2> QED BY <2>1, <2>2, <2>3, Delays, TimeoutAssumption
            DEF IInv, TypeOK, ClockInv, Before, TimeBudget, MaxAttempts, Places
<1> QED BY <1>1, Invariance, PTL

-----------------------------------------------------------------------------
(* The resolver is the Source that the handler is written for.  A step of the *)
(* source is the step of the resolver that decides it: the reply to HEAD, the *)
(* 2xx reply to an attempt, the loop's giving up, the end of the reading; the *)
(* others stutter.                                                            *)
Call == CallOf(at)
Outcome == OutcomeOf(result)

LEMMA SourceStutter ==
    UNCHANGED <<gone, mime, Call, Outcome>> => UNCHANGED Promised!sourceVars
BY DEF Promised!sourceVars, Call, Outcome

(* Up to the first attempt. *)
LEMMA PrepareMaps ==
    ASSUME IInv,
           \/ Reject \/ ResolveGateway \/ ResolveS3 \/ Presign \/ PresignFails
           \/ HeadReplies \/ HeadCloses \/ HeadFails \/ NotFetched \/ BeginFetch
    PROVE  [Promised!Next]_(Promised!sourceVars)
<1> USE DEF Goes, CallOf, OutcomeOf, Promised!Goes, Promised!EndsWith
<1>1. CASE Reject
    BY <1>1 DEF Reject, Promised!Refuse, Promised!Next
<1>2. CASE ResolveGateway
    BY <1>2 DEF ResolveGateway, Promised!Resolve, Promised!Next
<1>3. CASE ResolveS3
    BY <1>3, SourceStutter DEF ResolveS3, Call, Outcome
<1>4. CASE Presign
    <2>1. CASE at = "presignGet"
        BY <1>4, <2>1, SourceStutter DEF Presign, Call, Outcome
    <2>2. CASE at = "presignHead"
        BY <1>4, <2>2 DEF Presign, Promised!Resolve, Promised!Next
    <2> QED BY <1>4, <2>1, <2>2 DEF Presign
<1>5. CASE PresignFails
    BY <1>5 DEF PresignFails, Promised!Refuse, Promised!Next
<1>6. CASE HeadReplies
    BY <1>6 DEF HeadReplies, Promised!Head, Promised!Next
<1>7. CASE HeadCloses
    BY <1>7, SourceStutter DEF HeadCloses, Call, Outcome
<1>8. CASE HeadFails
    <2>1. mime = "unknown"
        BY <1>8 DEF HeadFails, IInv, NothingSaid
    <2> QED BY <1>8, <2>1 DEF HeadFails, Promised!Head, Promised!Next
<1>9. CASE NotFetched
    BY <1>9 DEF NotFetched, Promised!Spare, Promised!Next
<1>10. CASE BeginFetch
    BY <1>10 DEF BeginFetch, Promised!Ask, Promised!Next
<1> QED BY <1>1, <1>2, <1>3, <1>4, <1>5, <1>6, <1>7, <1>8, <1>9, <1>10

(* An attempt succeeds with its 2xx reply, which needs the client; any other  *)
(* end of it is not yet the end of the call.                                  *)
LEMMA AnswerMaps ==
    ASSUME IInv, NEW o \in Outcomes, (o \in Statuses /\ Replies(o)) \/ Fails(o)
    PROVE  [Promised!Next]_(Promised!sourceVars)
<1>1. Last' = o
    BY OneMore DEF Replies, Fails, IInv, TypeOK, Last
<1>2. CASE Replies(o) /\ o = "2xx"
    BY <1>1, <1>2 DEF Replies, Goes, CallOf, OutcomeOf, Promised!Goes, Promised!Fetch, Promised!Next
<1>3. CASE Replies(o) /\ o # "2xx"
    BY <1>1, <1>3, SourceStutter DEF Replies, Goes, CallOf, Call, Outcome
<1>4. CASE Fails(o)
    BY <1>4, SourceStutter DEF Fails, Goes, CallOf, Call, Outcome
<1> QED BY <1>2, <1>3, <1>4

(* The loop gives up, or waits; and the body is read. *)
LEMMA LoopMaps ==
    ASSUME IInv,
           \/ DiscardReply \/ ReturnBody \/ GiveUp \/ Retry
           \/ BackoffElapses \/ BackoffCancelled \/ ReadBody
    PROVE  [Promised!Next]_(Promised!sourceVars)
<1> USE DEF Goes, CallOf, OutcomeOf, Promised!Goes, Promised!EndsWith
<1>1. CASE DiscardReply \/ ReturnBody \/ Retry \/ BackoffElapses
    BY <1>1, SourceStutter DEF DiscardReply, ReturnBody, Retry, BackoffElapses, Call, Outcome
<1>2. CASE GiveUp
    <2>1. Last \in Outcomes \ {"2xx"}
        BY <1>2 DEF GiveUp, IInv, TypeOK, AnswersInv, Last, MaxAttempts
    <2>2. Outcome' \in {"4xx", "502"}
        BY <1>2, <2>1 DEF GiveUp, Outcome, Outcomes, Statuses
    <2> QED BY <1>2, <2>2 DEF GiveUp, Outcome, Promised!FetchFails, Promised!Next
<1>3. CASE BackoffCancelled
    BY <1>3 DEF BackoffCancelled, Promised!FetchFails, Promised!Next
<1>4. CASE ReadBody
    BY <1>4 DEF ReadBody, Promised!Read, Promised!Next
<1> QED BY <1>1, <1>2, <1>3, <1>4

THEOREM ImplementsSource == Spec => IsSource
<1>1. Init => Promised!Init
    BY DEF Init, CallOf, OutcomeOf, Promised!Init
<1>2. IInv /\ [Next]_vars => [Promised!Next]_(Promised!sourceVars)
    <2> SUFFICES ASSUME IInv, [Next]_vars PROVE [Promised!Next]_(Promised!sourceVars)
        OBVIOUS
    <2>1. CASE ClientLeaves
        <3>1. at \in Places \ {"ended"}
            BY <2>1 DEF ClientLeaves, IInv, TypeOK
        <3>2. Call # "over" /\ Call' = Call /\ Outcome' = Outcome
            BY <2>1, <3>1 DEF ClientLeaves, Places, Call, CallOf, Outcome, Last
        <3> QED BY <2>1, <3>2 DEF ClientLeaves, Call, Outcome, Promised!Leave, Promised!Next
    <2>2. CASE UNCHANGED vars
        BY <2>2, SourceStutter DEF vars, Call, CallOf, Outcome, Last
    <2>3. CASE \E o \in Statuses : Replies(o)
        BY <2>3, AnswerMaps DEF Outcomes
    <2>4. CASE \E o \in Outcomes : Fails(o)
        BY <2>4, AnswerMaps
    <2> QED BY <2>1, <2>2, <2>3, <2>4, PrepareMaps, LoopMaps DEF Next
<1> QED BY <1>1, <1>2, Invariance, PTL DEF Spec, IsSource, Promised!Spec
=============================================================================

------------------------------ MODULE Resolver ------------------------------
(* upstream.DefaultResolver as main builds it, with an eager presigner: one   *)
(* Resolve and the calls that a flight, or a pass-through, makes of the two   *)
(* closures it returns.  Concurrent uses share nothing, so one is modelled.   *)
(*                                                                            *)
(* Time is counted in steps of the shortest backoff, 100 ms.  http.Client's   *)
(* Timeout covers an attempt and the reading of its body.                     *)
EXTENDS Integers, Sequences

CONSTANTS
    Names,              \* of gateways (host and port) and of buckets
    AllowedGateways,
    AllowedBuckets,     \* the allowlists; an empty one allows every name
    Timeout,            \* of the client, in backoff units
    None                \* "no name": the header is missing or blank

ASSUME NamesAssumption == AllowedGateways \subseteq Names /\ AllowedBuckets \subseteq Names
ASSUME TimeoutAssumption == Timeout \in Nat
ASSUME NoneIsNoName == None \notin Names

MaxAttempts == 3
Delay == <<1, 2>>                       \* 100<<(attempt-1) ms, before a retry

(* What an attempt ends with.  "refused" is every error of the transport that *)
(* is neither the context's nor a deadline.                                   *)
Statuses == {"2xx", "3xx", "4xx", "5xx"}
Outcomes == Statuses \cup {"refused", "timeout", "cancelled"}
Retryable == {"5xx", "refused"}

Inputs == [source : {"s3", "gateway"}, name : Names \cup {None},
           form : {"http", "https", "other", "malformed"}]

VARIABLES
    input,        \* the headers that choose the source
    gone,         \* r.Context() is done
    at,           \* where the use of the resolver is
    mime,         \* what headFunc returned
    attempt,      \* of fetchHTTP
    seen,         \* history: the outcomes of the attempts
    open,         \* response bodies not closed
    result,       \* what the caller has got in the end
    clock,        \* the time used so far
    spent         \* the part of it used by the attempt whose body is read

vars == <<input, gone, at, mime, attempt, seen, open, result, clock, spent>>

Places == {"resolve", "presignGet", "presignHead", "resolved", "headReply", "headed",
           "attempt", "reply", "judge", "backoff", "reading", "ended"}
Results == Outcomes \cup {"none", "rejected", "presign", "unused", "whole", "broken"}

TypeOK ==
    /\ input \in Inputs
    /\ gone \in BOOLEAN
    /\ at \in Places
    /\ mime \in {"unknown", "image", "other"}
    /\ attempt \in 0..MaxAttempts
    /\ seen \in Seq(Outcomes)
    /\ open \in Nat
    /\ result \in Results
    /\ clock \in Nat /\ spent \in 0..Timeout

Init ==
    /\ input \in Inputs
    /\ gone = FALSE
    /\ at = "resolve"
    /\ mime = "unknown"
    /\ attempt = 0 /\ seen = <<>> /\ open = 0
    /\ result = "none"
    /\ clock = 0 /\ spent = 0

Goes(from, to) == at = from /\ at' = to
Takes(d) == clock' = clock + d
Last == seen[Len(seen)]

-----------------------------------------------------------------------------
(* Faulty variants: a property worth its run fails when one replaces its       *)
(* original.                                                                  *)
DiscardForgetsClose ==                \* leaves the body of an error reply open
    /\ Goes("reply", "judge")
    /\ Last # "2xx"
    /\ UNCHANGED <<input, gone, mime, attempt, seen, open, result, clock, spent>>

RetryAny ==                           \* retries what cannot get better
    /\ Goes("judge", "backoff")
    /\ Last \in Retryable \cup {"4xx"} /\ attempt < MaxAttempts
    /\ attempt' = attempt + 1
    /\ UNCHANGED <<input, gone, mime, seen, open, result, clock, spent>>

RepliesDetached(status) ==            \* fetches under context.Background()
    /\ Goes("attempt", "reply")
    /\ seen' = Append(seen, status)
    /\ open' = open + 1
    /\ \E d \in 0..Timeout : Takes(d) /\ spent' = d
    /\ UNCHANGED <<input, gone, mime, attempt, result>>

BackoffDoubled ==                     \* counts the attempts from 0: 100<<attempt ms
    /\ Goes("backoff", "attempt")
    /\ Takes(2 * Delay[attempt - 1])
    /\ UNCHANGED <<input, gone, mime, attempt, seen, open, result, spent>>

-----------------------------------------------------------------------------
Admissible ==
    IF input.source = "s3"
    THEN /\ input.name # None
         /\ AllowedBuckets = {} \/ input.name \in AllowedBuckets
    ELSE /\ input.name # None
         /\ input.form \in {"http", "https"}
         /\ AllowedGateways = {} \/ input.name \in AllowedGateways

Reject ==
    /\ ~Admissible
    /\ Goes("resolve", "ended")
    /\ result' = "rejected"
    /\ UNCHANGED <<input, gone, mime, attempt, seen, open, clock, spent>>

ResolveGateway ==
    /\ Admissible /\ input.source = "gateway"
    /\ Goes("resolve", "resolved")
    /\ UNCHANGED <<input, gone, mime, attempt, seen, open, result, clock, spent>>

ResolveS3 ==
    /\ Admissible /\ input.source = "s3"
    /\ Goes("resolve", "presignGet")
    /\ UNCHANGED <<input, gone, mime, attempt, seen, open, result, clock, spent>>

Presign ==
    /\ Goes("presignGet", "presignHead") \/ Goes("presignHead", "resolved")
    /\ UNCHANGED <<input, gone, mime, attempt, seen, open, result, clock, spent>>

PresignFails ==
    /\ Goes("presignGet", "ended") \/ Goes("presignHead", "ended")
    /\ result' = "presign"
    /\ UNCHANGED <<input, gone, mime, attempt, seen, open, clock, spent>>

(* headFunc: a 2xx reply says what the source is; anything else says nothing. *)
HeadReplies ==
    /\ ~gone
    /\ Goes("resolved", "headReply")
    /\ open' = open + 1
    /\ mime' \in {"unknown", "image", "other"}
    /\ \E d \in 0..Timeout : Takes(d)
    /\ UNCHANGED <<input, gone, attempt, seen, result, spent>>

HeadCloses ==
    /\ Goes("headReply", "headed")
    /\ open' = open - 1
    /\ UNCHANGED <<input, gone, mime, attempt, seen, result, clock, spent>>

HeadFails ==
    /\ Goes("resolved", "headed")
    /\ \E d \in 0..Timeout : Takes(d)
    /\ UNCHANGED <<input, gone, mime, attempt, seen, open, result, spent>>

(* imgproxy has done without the original. *)
NotFetched ==
    /\ Goes("headed", "ended")
    /\ result' = "unused"
    /\ UNCHANGED <<input, gone, mime, attempt, seen, open, clock, spent>>

(* fetchFunc: by process after HEAD, by passThrough without it. *)
BeginFetch ==
    /\ Goes("resolved", "attempt") \/ Goes("headed", "attempt")
    /\ attempt' = 1
    /\ UNCHANGED <<input, gone, mime, seen, open, result, clock, spent>>

(* doFetch *)
Replies(status) ==
    /\ ~gone
    /\ Goes("attempt", "reply")
    /\ seen' = Append(seen, status)
    /\ open' = open + 1
    /\ \E d \in 0..Timeout : Takes(d) /\ spent' = d
    /\ UNCHANGED <<input, gone, mime, attempt, result>>

Fails(outcome) ==
    /\ IF gone THEN outcome = "cancelled" ELSE outcome \in {"refused", "timeout"}
    /\ Goes("attempt", "judge")
    /\ seen' = Append(seen, outcome)
    /\ \E d \in 0..Timeout : Takes(d)
    /\ UNCHANGED <<input, gone, mime, attempt, open, result, spent>>

DiscardReply ==
    /\ Goes("reply", "judge")
    /\ Last # "2xx"
    /\ open' = open - 1
    /\ UNCHANGED <<input, gone, mime, attempt, seen, result, clock, spent>>

ReturnBody ==
    /\ Goes("reply", "reading")
    /\ Last = "2xx"
    /\ UNCHANGED <<input, gone, mime, attempt, seen, open, result, clock, spent>>

(* The loop of fetchHTTP. *)
GiveUp ==
    /\ Goes("judge", "ended")
    /\ Last \notin Retryable \/ attempt = MaxAttempts
    /\ result' = Last
    /\ UNCHANGED <<input, gone, mime, attempt, seen, open, clock, spent>>

Retry ==
    /\ Goes("judge", "backoff")
    /\ Last \in Retryable /\ attempt < MaxAttempts
    /\ attempt' = attempt + 1
    /\ UNCHANGED <<input, gone, mime, seen, open, result, clock, spent>>

BackoffElapses ==
    /\ Goes("backoff", "attempt")
    /\ Takes(Delay[attempt - 1])
    /\ UNCHANGED <<input, gone, mime, attempt, seen, open, result, spent>>

BackoffCancelled ==
    /\ gone
    /\ Goes("backoff", "ended")
    /\ result' = "cancelled"
    /\ \E d \in 0..Delay[attempt - 1] : Takes(d)
    /\ UNCHANGED <<input, gone, mime, attempt, seen, open, spent>>

(* The caller reads the body and closes it, read or not. *)
ReadBody ==
    /\ Goes("reading", "ended")
    /\ result' \in {"whole", "broken"}
    /\ open' = open - 1
    /\ \E d \in 0..(Timeout - spent) : Takes(d)
    /\ UNCHANGED <<input, gone, mime, attempt, seen, spent>>

ClientLeaves ==
    /\ at # "ended"
    /\ ~gone /\ gone' = TRUE
    /\ UNCHANGED <<input, at, mime, attempt, seen, open, result, clock, spent>>

Next ==    \/ Reject \/ ResolveGateway \/ ResolveS3 \/ Presign \/ PresignFails
           \/ HeadReplies \/ HeadCloses \/ HeadFails \/ NotFetched \/ BeginFetch
           \/ (\E status \in Statuses : Replies(status))
           \/ (\E outcome \in Outcomes : Fails(outcome))
           \/ DiscardReply \/ ReturnBody \/ GiveUp \/ Retry
           \/ BackoffElapses \/ BackoffCancelled \/ ReadBody
           \/ ClientLeaves
           \/ (at = "ended" /\ UNCHANGED vars)

Spec == Init /\ [][Next]_vars

-----------------------------------------------------------------------------
(* The loop returns what the source's answers call for: it goes on exactly    *)
(* after answers that may get better, returns the last answer, and only the   *)
(* end of the client's context can take the place of one.                     *)
VerdictFollowsAnswers ==
    /\ Len(seen) <= MaxAttempts
    /\ \A i \in 1..(Len(seen) - 1) : seen[i] \in Retryable
    /\ at = "ended" /\ seen # <<>> =>
        \/ result \in {"whole", "broken"} /\ Last = "2xx"
        \/ result = Last /\ Last # "2xx" /\ (Last \in Retryable => Len(seen) = MaxAttempts)
        \/ result = "cancelled" /\ gone /\ Last \in Retryable

(* No response body stays open, whatever it answered and whoever reads it:    *)
(* the shared transport has 100 connections for a host, and an open body      *)
(* keeps one.                                                                 *)
BodiesAreClosed == open \in {0, 1} /\ (at = "ended" => open = 0)

(* HEAD, three attempts and the two delays between them: this much of a       *)
(* client's patience the source can cost, and no more.                        *)
TimeBudget == clock <= (1 + MaxAttempts) * Timeout + 3

(* All in all the resolver is the Source that the handler is written for:     *)
(* three attempts and the waits between them are one call, which fails with   *)
(* the source's own 4xx or with 502, and brings a body only to a client that  *)
(* was there to start its reading.                                            *)
CallOf(place) ==
    IF place \in {"resolve", "presignGet", "presignHead"} THEN "resolve"
    ELSE IF place = "resolved" THEN "resolved"
    ELSE IF place \in {"headReply", "headed"} THEN "headed"
    ELSE IF place \in {"attempt", "judge", "backoff"} THEN "fetch"
    ELSE IF place = "reply" THEN (IF Last = "2xx" THEN "read" ELSE "fetch")
    ELSE IF place = "reading" THEN "read" ELSE "over"

OutcomeOf(end) ==
    IF end \in {"none", "unused", "4xx"} THEN end
    ELSE IF end = "whole" THEN "original" ELSE "502"

Promised == INSTANCE Source WITH
    place <- CallOf(at), says <- mime, outcome <- OutcomeOf(result)

IsSource == Promised!Spec
=============================================================================

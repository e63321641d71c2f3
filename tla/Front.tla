-------------------------------- MODULE Front --------------------------------
(* main's start, and what is in front of the image handler once it serves:    *)
(*                                                                            *)
(*   Recovery(CorrelationID(Tracing(SecurityHeaders(Logging(                  *)
(*       CloudFrontVerify(ServeMux))))))                                      *)
(*                                                                            *)
(* A request goes down the chain, is answered by one of the handlers of the   *)
(* mux, and comes back up, either because the handlers return or because one  *)
(* panics and only the deferred calls run.  Of the image handler there is the *)
(* key and the order in which it writes; Handler is about the rest.           *)
(*                                                                            *)
(* Every request is a GET of a clean path, and its client stays.              *)
EXTENDS Params, FiniteSets

CONSTANTS
    Requests,
    Paths, Asks,  \* what each request may ask
    Fields, Envs  \* the environments main may be started in

Probes == {"/health", "/ready", "/metrics"}

ASSUME FrontAssumption ==
    /\ IsFiniteSet(Requests)
    /\ \A r \in Requests : Asks[r] \subseteq [path : Paths, token : BOOLEAN, query : Queries]
    /\ Envs \subseteq Environments(Fields)

VARIABLES
    env,          \* the environment of the process
    main,         \* where main is
    conn          \* what there is of each request, see Conns

frontVars == <<env, main, conn>>

Starting == {"load", "tracing", "aws", "presigner", "listen"}

Down == {"correlation", "tracing", "security", "logging", "verify", "mux"}
Answering == {"ready", "parse", "image", "headers", "body"}
Up == {"returned", "logged", "closed", "panicking", "unwound"}

Marks == {"X-Request-Id", "X-Content-Type-Options", "X-Frame-Options", "Referrer-Policy",
          "Permissions-Policy"}
CacheStates == {"UNKNOWN", "HIT", "MISS", "BYPASS"}
Codes == {200, 403, 404, 500, 502, 503}         \* 404 for every 4xx of the source
KeysOf(conf) == [path : Paths, width : 1..conf.int["MAX_WIDTH"], format : Formats,
                 quality : 1..100]

Wires == [code : Codes, head : SUBSET Marks, xcache : CacheStates]
Lines == [msg : {"request completed"}, code : Codes, xcache : CacheStates]
         \cup [msg : {"panic recovered"}]

ASSUME NoneAssumption == None \notin Wires \cup Lines

Places == {"off", "over"} \cup Down \cup Answering \cup Up
Asked == {None} \cup (UNION {Asks[r] : r \in Requests})

Conns ==
    [at : Places,
     ask : Asked,
     head : SUBSET Marks,             \* w.Header(), of them those that mark a reply
     xcache : CacheStates,            \* X-Cache; Cache-Control comes with it
     wire : Wires \cup {None},
                                      \* the status line and headers, once written
     seen : Codes,                    \* statusCode of Logging's responseWriter
     key : KeysOf(ConfigOf(env)) \cup {None},
     span : {"none", "open", "ended"},
     line : Lines \cup {None}]

FrontTypeOK ==
    /\ env \in Envs
    /\ main \in Starting \cup {"serving", "exited", "crashed"}
    /\ conn \in [Requests -> Conns]

FrontInit ==
    /\ env \in Envs
    /\ main = "load"
    /\ conn = [r \in Requests |->
                   [at |-> "off", ask |-> None, head |-> {}, xcache |-> "UNKNOWN",
                    wire |-> None, seen |-> 200, key |-> None, span |-> "none",
                    line |-> None]]

-----------------------------------------------------------------------------
(* main, up to the listener; whatever fails ends in os.Exit(1). *)
Start(from, to) == main = from /\ main' = to /\ UNCHANGED <<env, conn>>

Load == \/ Loads(env) /\ Start("load", "tracing")
        \/ ~Loads(env) /\ Start("load", "exited")

InitTracing == Start("tracing", "aws") \/ Start("tracing", "exited")

LoadAWS == Start("aws", "presigner") \/ Start("aws", "exited")

NewResolver == Start("presigner", "listen") \/ Start("presigner", "exited")

Listen == Start("listen", "serving") \/ Start("listen", "exited")

StartUp == Load \/ InitTracing \/ LoadAWS \/ NewResolver \/ Listen

-----------------------------------------------------------------------------
(* The way down. *)
Step(r, from, c) ==
    /\ conn[r].at = from
    /\ conn' = [conn EXCEPT ![r] = c]
    /\ UNCHANGED <<env, main>>

(* Faulty variants: a property worth its run fails when one replaces its       *)
(* original.                                                                  *)
SecureAfterwards(r) ==                \* sets the headers only of who is let in
    Step(r, "security", [conn[r] EXCEPT !.at = "logging"])

ReturnUntraced(r) ==                  \* ends the span only when it is told to
    \/ Step(r, "logged", [conn[r] EXCEPT !.at = "closed", !.span = "ended"])
    \/ Step(r, "panicking", [conn[r] EXCEPT !.at = "unwound"])

(* WriteHeader: the first one wins. *)
OnWire(c, code) ==
    IF c.wire = None THEN [code |-> code, head |-> c.head, xcache |-> c.xcache] ELSE c.wire

WriteUnseen(c, code) ==               \* a faulty wrapper that forgets the code
    [c EXCEPT !.wire = OnWire(c, code)]

(* Through Logging's responseWriter, which sees every code. *)
Write(c, code) == [c EXCEPT !.seen = code, !.wire = OnWire(c, code)]

(* Recovery has only deferred its function. *)
Arrive(r) ==
    \E a \in Asks[r] : Step(r, "off", [conn[r] EXCEPT !.at = "correlation", !.ask = a])

CorrelationID(r) ==
    Step(r, "correlation",
         [conn[r] EXCEPT !.at = "tracing", !.head = @ \cup {"X-Request-Id"}])

Tracing(r) ==
    Step(r, "tracing", [conn[r] EXCEPT !.at = "security", !.span = "open"])

SecurityHeaders(r) ==
    Step(r, "security",
         [conn[r] EXCEPT !.at = "logging", !.head = @ \cup (Marks \ {"X-Request-Id"})])

Logging(r) ==
    Step(r, "logging", [conn[r] EXCEPT !.at = "verify"])

CloudFrontVerify(r) ==
    LET admitted == \/ conn[r].ask.path \in Probes
                    \/ ConfigOf(env).list["CF_ORIGIN_SECRET"] = {}
                    \/ conn[r].ask.token
        next == IF admitted THEN [conn[r] EXCEPT !.at = "mux"]
                ELSE [Write(conn[r], 403) EXCEPT !.at = "returned"]
    IN  Step(r, "verify", next)

-----------------------------------------------------------------------------
(* The handlers.  /health and /metrics answer at once. *)
Route(r) ==
    LET c == conn[r]
        next == IF c.ask.path = "/ready" THEN [c EXCEPT !.at = "ready"]
                ELSE IF c.ask.path \in Probes THEN [Write(c, 200) EXCEPT !.at = "returned"]
                ELSE [c EXCEPT !.at = "parse"]
    IN  Step(r, "mux", next)

(* imgproxy answers its own /health with 200, or it does not. *)
Ready(r) ==
    \E code \in {200, 503} :
        Step(r, "ready", [Write(conn[r], code) EXCEPT !.at = "returned"])

(* handler.ServeHTTP: no parameters, no key, and the request passes through. *)
ParseParams(r) ==
    LET c == conn[r]
        made == KeyFromRequest(c.ask.path, c.ask.query, ConfigOf(env))
    IN  Step(r, "parse", [c EXCEPT !.at = "image",
                                   !.key = IF Optimizes(c.ask.query) THEN made ELSE None])

(* It sets the headers of a reply with a body: an object of the cache, the    *)
(* result of a flight, or an original, which has no X-Cache ...               *)
HeadersWith(r, state) ==
    Step(r, "image", [conn[r] EXCEPT !.at = "headers", !.xcache = state])

StreamResponse(r) == conn[r].key # None /\ HeadersWith(r, "HIT")

WriteResult(r) ==
    conn[r].key # None /\ (HeadersWith(r, "MISS") \/ HeadersWith(r, "BYPASS"))

PassThrough(r) == conn[r].key = None /\ HeadersWith(r, "UNKNOWN")

SetHeaders(r) == StreamResponse(r) \/ WriteResult(r) \/ PassThrough(r)

(* ... or calls http.Error. *)
WriteError(r) ==
    \E code \in {404, 502} :
        Step(r, "image", [Write(conn[r], code) EXCEPT !.at = "returned"])

(* The first byte of the body takes the headers with it; there may be none,   *)
(* and then net/http sends them when all handlers have returned.              *)
WriteBody(r) ==
    Step(r, "headers", [conn[r] EXCEPT !.at = "body", !.wire = OnWire(conn[r], 200)])

ServeReturns(r) ==
    \/ Step(r, "headers", [conn[r] EXCEPT !.at = "returned"])
    \/ Step(r, "body", [conn[r] EXCEPT !.at = "returned"])

Panics(r) ==
    \E place \in Answering : Step(r, place, [conn[r] EXCEPT !.at = "panicking"])

(* A panic of process is in a goroutine of singleflight, which raises it      *)
(* again in one where nobody recovers.                                        *)
FlightPanics(r) ==
    /\ conn[r].at = "image" /\ conn[r].key # None
    /\ main' = "crashed"
    /\ UNCHANGED <<env, conn>>

-----------------------------------------------------------------------------
(* The way up.  Logging's count, sample and line (here the line) follow the   *)
(* call of the next handler and are not deferred; the end of the span is.     *)
LoggingReturns(r) ==
    Step(r, "returned",
         [conn[r] EXCEPT !.at = "logged",
                         !.line = [msg |-> "request completed", code |-> conn[r].seen,
                                   xcache |-> conn[r].xcache]])

TracingReturns(r) ==
    \/ Step(r, "logged", [conn[r] EXCEPT !.at = "closed", !.span = "ended"])
    \/ Step(r, "panicking", [conn[r] EXCEPT !.at = "unwound", !.span = "ended"])

(* Recovery's http.Error goes around Logging's responseWriter. *)
Recovers(r) ==
    Step(r, "unwound", [conn[r] EXCEPT !.at = "over", !.wire = OnWire(conn[r], 500),
                                       !.line = [msg |-> "panic recovered"]])

RecoveryReturns(r) ==
    Step(r, "closed", [conn[r] EXCEPT !.at = "over", !.wire = OnWire(conn[r], 200)])

Handle(r) == \/ CorrelationID(r) \/ Tracing(r) \/ SecurityHeaders(r) \/ Logging(r)
             \/ CloudFrontVerify(r)
             \/ Route(r) \/ Ready(r) \/ ParseParams(r) \/ SetHeaders(r) \/ WriteError(r)
             \/ WriteBody(r) \/ ServeReturns(r) \/ Panics(r) \/ FlightPanics(r)
             \/ LoggingReturns(r) \/ TracingReturns(r) \/ Recovers(r) \/ RecoveryReturns(r)

FrontDone ==
    /\ main \in {"exited", "crashed"} \/ \A r \in Requests : conn[r].at = "over"
    /\ UNCHANGED frontVars

FrontNext == \/ StartUp
             \/ main = "serving" /\ \E r \in Requests : Arrive(r) \/ Handle(r)
             \/ FrontDone

FrontSpec == FrontInit /\ [][FrontNext]_frontVars

(* Handlers run and what they call on the network ends; nobody has to ask. *)
FrontFairSpec == FrontSpec /\ \A r \in Requests : WF_frontVars(main = "serving" /\ Handle(r))

-----------------------------------------------------------------------------
(* params.go and KeyFromRequest: the keys that requests reach S3 with.        *)
KeysAreNormal ==
    \A r \in Requests : conn[r].key # None =>
        Normal(conn[r].ask.path, conn[r].ask.query, ConfigOf(env))

(* Every reply, a rejection or a recovered panic too, carries the request id  *)
(* and the security headers.                                                  *)
RepliesAreMarked ==
    \A r \in Requests : conn[r].wire # None => conn[r].wire.head = Marks

(* The line and the sample that Logging leaves tell what the client was sent, *)
(* although the wrapper does not see what net/http and Recovery write.  Only  *)
(* a request that panicked has none.                                          *)
LinesTellTheReply ==
    \A r \in Requests : conn[r].at = "over" =>
        LET line == conn[r].line
            wire == conn[r].wire
        IN  /\ line # None /\ wire # None
            /\ line.msg = "request completed" =>
                   line.code = wire.code /\ line.xcache = wire.xcache

(* Every request whose handlers run gets its reply, its line and the end of   *)
(* its span, panic or not, unless the process dies.                           *)
EveryRequestEnds ==
    \A r \in Requests :
        conn[r].at = "correlation" ~>
            (conn[r].at = "over" /\ conn[r].span = "ended") \/ main = "crashed"
=============================================================================

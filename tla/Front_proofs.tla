---------------------------- MODULE Front_proofs ----------------------------
(* The invariants of Front, for every width of int, every environment and     *)
(* every query.                                                               *)
EXTENDS Front, TLAPS

-----------------------------------------------------------------------------
(* Arithmetic that wraps around stays in its width, and changes nothing that  *)
(* fits into it.                                                              *)
LEMMA WrapInRange ==
    ASSUME NEW n \in Int
    PROVE  Wrap(n) \in Ints
<1>1. MaxInt \in Nat
  BY WidthAssumption
<1> DEFINE m == 2 * (MaxInt + 1)
           a == n + MaxInt + 1
<1>2. m \in Nat \ {0} /\ a \in Int
  BY <1>1
<1> HIDE DEF m, a
<1>3. a % m \in 0..(m - 1)
  BY <1>2, Z3
<1>4. Wrap(n) = (a % m) - (MaxInt + 1)
  BY DEF Wrap, m, a
<1>5. m = 2 * (MaxInt + 1)
  BY DEF m
<1> QED
  BY <1>1, <1>3, <1>4, <1>5 DEF Ints

LEMMA WrapKeeps ==
    ASSUME NEW n \in 0..MaxInt
    PROVE  Wrap(n) = n
<1>1. MaxInt \in Nat
  BY WidthAssumption
<1> DEFINE m == 2 * (MaxInt + 1)
           a == n + MaxInt + 1
<1>2. m \in Nat \ {0} /\ a \in Nat /\ a < m
  BY <1>1
<1> HIDE DEF m, a
<1>3. a % m = a
  BY <1>2, Z3
<1>4. Wrap(n) = a - (MaxInt + 1)
  BY <1>3 DEF Wrap, m, a
<1> QED
  BY <1>1, <1>4 DEF a

(* Whole seconds make at least a second, and what is below one has wrapped. *)
LEMMA SecondsAreKept ==
    ASSUME NEW n \in Nat \ {0}
    PROVE  /\ Wrap(n * Second) \in Ints
           /\ Wrap(n * Second) < Second => n * Second > MaxInt
<1>1. n * Second \in Int /\ n * Second >= Second
  BY WidthAssumption
<1>2. Wrap(n * Second) \in Ints
  BY <1>1, WrapInRange
<1>3. ASSUME ~(n * Second > MaxInt)
      PROVE  Wrap(n * Second) >= Second
  <2>1. n * Second \in 0..MaxInt
    BY <1>1, <1>3, WidthAssumption
  <2> QED
    BY <2>1, <1>1, WrapKeeps
<1> QED
  BY <1>1, <1>2, <1>3, WidthAssumption DEF Ints

-----------------------------------------------------------------------------
(* Each variable is one of the forms a value can have. *)
LEMMA EnvTypes ==
    ASSUME NEW e \in Envs
    PROVE  /\ \A name \in IntNames : e.int[name] \in Raws
           /\ \A name \in TimeoutNames : e.timeout[name] \in Raws
           /\ \A name \in ListNames : e.list[name] \in SUBSET Fields
BY FrontAssumption DEF Environments

(* Load checks one variable after the other and then the whole: it is enough  *)
(* for everything that Sound asks, in every environment and for every width   *)
(* of int.                                                                    *)
THEOREM LoadedIsSound ==
    ASSUME NEW e \in Envs, Loads(e)
    PROVE  Sound(e)
<1> DEFINE conf == ConfigOf(e)
<1>1. conf.int["DEFAULT_QUALITY"] \in 1..100
  BY DEF Loads, Validate
<1>2. ASSUME NEW name \in IntNames
      PROVE  conf.int[name] \in 1..MaxInt
  <2>1. conf.int[name] = PositiveInt(e.int[name], Default[name])
    BY DEF ConfigOf
  <2> HIDE DEF conf
  <2>2. Default[name] \in 1..MaxInt
    <3> DEFINE d == Default[name]
    <3>1. d \in 1..1920
      BY DEF Default, IntNames
    <3> HIDE DEF d
    <3>2. d \in 1..MaxInt
      BY <3>1, WidthAssumption
    <3> QED
      BY <3>2 DEF d
  <2>3. e.int[name] \in Raws /\ Positive(e.int[name])
    BY EnvTypes DEF Loads
  <2>4. CASE e.int[name].is = "blank"
    <3>1. conf.int[name] = Default[name]
      BY <2>1, <2>4 DEF PositiveInt
    <3> QED
      BY <2>2, <3>1
  <2>5. CASE e.int[name].is # "blank"
    <3>1. e.int[name].n \in Ints /\ e.int[name].n > 0
      BY <2>3, <2>5 DEF Positive, Raws
    <3>2. conf.int[name] = e.int[name].n
      BY <2>1, <2>5 DEF PositiveInt
    <3> QED
      BY <3>1, <3>2, WidthAssumption DEF Ints
  <2> QED
    BY <2>4, <2>5
<1>3. ASSUME NEW name \in {"ALLOWED_UPSTREAM_GATEWAYS", "ALLOWED_SOURCE_BUCKETS"}
      PROVE  conf.list[name] # {} /\ "" \notin conf.list[name]
  BY DEF Loads, Validate, ConfigOf, CSV, ListNames
<1>4. ASSUME NEW name \in TimeoutNames
      PROVE  /\ conf.timeout[name] \in Ints
             /\ conf.timeout[name] < Second => e.timeout[name].n * Second > MaxInt
  <2>1. conf.timeout[name] = DurationSeconds(e.timeout[name], DefaultSeconds[name])
    BY DEF ConfigOf
  <2>2. DefaultSeconds[name] \in 1..30
    BY DEF DefaultSeconds, TimeoutNames
  <2>3. e.timeout[name] \in Raws /\ Positive(e.timeout[name])
    BY EnvTypes DEF Loads
  <2>4. CASE e.timeout[name].is = "blank"
    <3>1. conf.timeout[name] = DefaultSeconds[name] * Second
      BY <2>1, <2>4 DEF DurationSeconds
    <3>2. DefaultSeconds[name] * Second \in Second..(30 * Second)
      BY <2>2, WidthAssumption
    <3> QED
      BY <3>1, <3>2, WidthAssumption DEF Ints
  <2>5. CASE e.timeout[name].is # "blank"
    <3>1. conf.timeout[name] = Wrap(e.timeout[name].n * Second)
      BY <2>1, <2>5 DEF DurationSeconds
    <3>2. e.timeout[name].n \in Nat \ {0}
      BY <2>3, <2>5, WidthAssumption DEF Positive, Raws, Ints
    <3> QED
      BY <3>1, <3>2, SecondsAreKept
  <2> QED
    BY <2>4, <2>5
<1> QED
  BY <1>1, <1>2, <1>3, <1>4 DEF Sound

-----------------------------------------------------------------------------
(* The key of a request: a value taken into a range is the nearest of the     *)
(* range, and stays what it is when it is taken into the range again.         *)
LEMMA ClampIsNearest ==
    ASSUME NEW n \in Int
    PROVE  /\ Clamp(n) \in 1..100
           /\ Nearest(Clamp(n), n, 1..100)
           /\ n \in 1..100 => Clamp(n) = n
BY DEF Clamp, Nearest, Distance

LEMMA CapIsNearest ==
    ASSUME NEW n \in Nat \ {0}, NEW most \in Nat \ {0}
    PROVE  LET m == IF most > 0 /\ n > most THEN most ELSE n
           IN  m \in 1..most /\ Nearest(m, n, 1..most) /\ (n \in 1..most => m = n)
BY DEF Nearest, Distance

(* ParseParams and KeyFromRequest: under every configuration that Load        *)
(* returns, every query that is optimized has a normal key.                   *)
THEOREM QueriesAreNormalized ==
    ASSUME NEW e \in Envs, Loads(e), NEW path,
           NEW query \in Queries, Optimizes(query)
    PROVE  /\ Normal(path, query, ConfigOf(e))
           /\ path \in Paths => KeyFromRequest(path, query, ConfigOf(e)) \in KeysOf(ConfigOf(e))
<1> DEFINE conf == ConfigOf(e)
           most == conf.int["MAX_WIDTH"]
           usual == conf.int["DEFAULT_QUALITY"]
           w == query.imwidth.n
           q == query.q.n
           key == KeyFromRequest(path, query, conf)
<1>1. most \in 1..MaxInt /\ usual \in 1..100
  BY LoadedIsSound DEF Sound, IntNames
<1>2. query.imwidth \in Raws /\ query.q \in Raws /\ query.f \in Formats
  BY DEF Queries, Optimizes
<1>3. w \in Nat \ {0} /\ q \in Int
  BY <1>2, WidthAssumption DEF Optimizes, Raws, Ints
<1>4. /\ key.path = path /\ key.format = query.f
      /\ key.width = Width(query, most) /\ key.quality = Quality(query, usual)
      /\ key = [path |-> path, width |-> Width(query, most), format |-> query.f,
                quality |-> Quality(query, usual)]
  BY DEF KeyFromRequest
<1> HIDE DEF most, usual, key, conf
<1>5. /\ key.width \in 1..most /\ Nearest(key.width, w, 1..most)
  <2>1. Width(query, most) = IF most > 0 /\ w > most THEN most ELSE w
    BY DEF Width
  <2> HIDE DEF w
  <2> QED
    BY <1>1, <1>3, <1>4, <2>1, CapIsNearest
<1>6. /\ key.quality \in 1..100
      /\ query.q.is = "number" => Nearest(key.quality, q, 1..100)
      /\ query.q.is # "number" => key.quality = usual
  <2>1. Quality(query, usual) = Clamp(IF query.q.is = "number" THEN q ELSE usual)
    BY DEF Quality
  <2> HIDE DEF q
  <2>2. CASE query.q.is = "number"
    BY <1>3, <1>4, <2>1, <2>2, ClampIsNearest
  <2>3. CASE query.q.is # "number"
    BY <1>1, <1>4, <2>1, <2>3, ClampIsNearest
  <2> QED
    BY <2>2, <2>3
<1>7. /\ Optimizes(QueryOf(key))
      /\ KeyFromRequest(path, QueryOf(key), conf) = key
  <2> DEFINE again == QueryOf(key)
  <2>1. /\ again.imwidth.is = "number" /\ again.imwidth.n = key.width
        /\ again.q.is = "number" /\ again.q.n = key.quality
        /\ again.f = key.format
    BY DEF QueryOf, Number
  <2> HIDE DEF again
  <2>2. Optimizes(again)
    BY <1>1, <1>2, <1>4, <1>5, <2>1 DEF Optimizes
  <2>3. Width(again, most) = key.width
    BY <1>1, <1>5, <2>1 DEF Width
  <2>4. Quality(again, usual) = key.quality
    BY <1>6, <2>1, ClampIsNearest DEF Quality
  <2>5. KeyFromRequest(path, again, conf)
            = [path |-> path, width |-> Width(again, most), format |-> again.f,
               quality |-> Quality(again, usual)]
    BY DEF KeyFromRequest, most, usual
  <2>6. KeyFromRequest(path, again, conf) = key
    BY <1>4, <2>1, <2>3, <2>4, <2>5
  <2> QED
    BY <2>2, <2>6 DEF again
<1>8. Normal(path, query, conf)
  BY <1>2, <1>4, <1>5, <1>6, <1>7 DEF Normal, most, usual, key
<1>9. path \in Paths => key \in KeysOf(conf)
  BY <1>2, <1>4, <1>5, <1>6 DEF KeysOf, most
<1> QED
  BY <1>8, <1>9 DEF conf, key

-----------------------------------------------------------------------------
(* The inductive invariant: what each place says of a request.  Which marks   *)
(* are in the header follows the order of the chain; what the wrapper of      *)
(* Logging has seen and what is on the wire agree wherever the handlers       *)
(* return, and are both untouched or both 200 wherever one may panic.         *)
MarksOf(c) ==
    /\ c.at \in {"tracing", "security"} => "X-Request-Id" \in c.head
    /\ c.at \notin {"off", "correlation", "tracing", "security"} => c.head = Marks
    /\ c.wire # None => c.wire.head = Marks

KeyOf(c, conf) ==
    /\ c.at \in {"off"} \cup Down \cup {"ready", "parse"} => c.key = None
    /\ c.key # None => /\ c.ask.query \in Queries /\ Optimizes(c.ask.query)
                       /\ c.key = KeyFromRequest(c.ask.path, c.ask.query, conf)

Told(c) ==
    /\ c.line \in Lines /\ c.wire \in Wires
    /\ c.line.msg = "request completed" => c.line.code = c.wire.code /\ c.line.xcache = c.wire.xcache

LineOf(c) ==
    /\ c.at \in {"off"} \cup Down \cup {"ready", "parse", "image", "headers"} =>
           c.wire = None /\ c.seen = 200
    /\ c.at = "body" => c.wire # None /\ c.wire.code = 200 /\ c.seen = 200
    /\ c.at \in {"body", "returned", "logged", "closed"} =>
           IF c.wire = None THEN c.seen = 200
           ELSE c.wire.code = c.seen /\ c.wire.xcache = c.xcache
    /\ c.at \in {"logged", "closed"} =>
           c.line = [msg |-> "request completed", code |-> c.seen, xcache |-> c.xcache]
    /\ c.at \in {"panicking", "unwound"} => c.wire = None \/ c.wire.code = 200
    /\ c.at = "over" => Told(c)

Fits(r, c) ==
    /\ c.at # "off" => c.ask \in Asks[r]
    /\ c.key # None => Loads(env)
    /\ MarksOf(c) /\ KeyOf(c, ConfigOf(env)) /\ LineOf(c)

FrontInv ==
    /\ FrontTypeOK
    /\ main \notin {"load", "exited"} => Loads(env)
    /\ \A r \in Requests : Fits(r, conn[r])

LEMMA Named ==
    /\ {"off", "over"} \subseteq Places /\ Down \subseteq Places
    /\ Answering \subseteq Places /\ Up \subseteq Places
    /\ "correlation" \in Places /\ "tracing" \in Places /\ "security" \in Places
    /\ "logging" \in Places /\ "verify" \in Places /\ "mux" \in Places
    /\ "ready" \in Places /\ "parse" \in Places /\ "image" \in Places
    /\ "headers" \in Places /\ "body" \in Places /\ "returned" \in Places
    /\ "logged" \in Places /\ "closed" \in Places /\ "panicking" \in Places
    /\ "unwound" \in Places /\ "off" \in Places /\ "over" \in Places
BY DEF Places, Down, Answering, Up

LEMMA InitFits == FrontInit => FrontInv
<1> SUFFICES ASSUME FrontInit PROVE FrontInv
  OBVIOUS
<1> DEFINE c == [at |-> "off", ask |-> None, head |-> {}, xcache |-> "UNKNOWN",
                 wire |-> None, seen |-> 200, key |-> None, span |-> "none", line |-> None]
<1>1. c \in Conns
  BY Named DEF Conns, Codes, CacheStates, Asked
<1>2. ASSUME NEW r \in Requests PROVE Fits(r, c)
  BY DEF Fits, MarksOf, KeyOf, LineOf
<1>3. conn = [r \in Requests |-> c]
  BY DEF FrontInit
<1> HIDE DEF c
<1> QED
  BY <1>1, <1>2, <1>3 DEF FrontInv, FrontTypeOK, FrontInit, Starting

(* A step of one request leaves the others alone. *)
LEMMA StepFits ==
    ASSUME FrontInv, NEW r \in Requests, NEW from, NEW c \in Conns, Fits(r, c),
           Step(r, from, c)
    PROVE  FrontInv'
<1>1. env' = env /\ main' = main /\ conn' = [conn EXCEPT ![r] = c]
  BY DEF Step
<1>2. FrontTypeOK'
  BY <1>1 DEF FrontInv, FrontTypeOK, Conns
<1>3. ASSUME NEW s \in Requests PROVE Fits(s, conn[s])'
  <2>1. Fits(s, conn'[s])
    BY <1>1 DEF FrontInv, FrontTypeOK
  <2> QED
    BY <1>1, <2>1 DEF Fits
<1> QED
  BY <1>1, <1>2, <1>3 DEF FrontInv

(* The way down. *)
LEMMA DownFits ==
    ASSUME FrontInv, NEW r \in Requests,
           \/ CorrelationID(r) \/ Tracing(r) \/ SecurityHeaders(r) \/ Logging(r)
    PROVE  FrontInv'
<1>1. conn[r] \in Conns /\ Fits(r, conn[r])
  BY DEF FrontInv, FrontTypeOK
<1>2. CASE CorrelationID(r)
  <2> DEFINE c == [conn[r] EXCEPT !.at = "tracing", !.head = @ \cup {"X-Request-Id"}]
  <2>1. Step(r, "correlation", c) /\ conn[r].at = "correlation"
    BY <1>2 DEF CorrelationID, Step
  <2>2. c \in Conns
    BY <1>1, <2>1, Named DEF Conns, Marks
  <2>3. Fits(r, c)
    BY <1>1, <2>1 DEF Conns, Down, Fits, MarksOf, KeyOf, LineOf
  <2> HIDE DEF c
  <2> QED
    BY <2>1, <2>2, <2>3, StepFits
<1>3. CASE Tracing(r)
  <2> DEFINE c == [conn[r] EXCEPT !.at = "security", !.span = "open"]
  <2>1. Step(r, "tracing", c) /\ conn[r].at = "tracing"
    BY <1>3 DEF Tracing, Step
  <2>2. c \in Conns
    BY <1>1, Named DEF Conns
  <2>3. Fits(r, c)
    BY <1>1, <2>1 DEF Conns, Down, Fits, MarksOf, KeyOf, LineOf
  <2> HIDE DEF c
  <2> QED
    BY <2>1, <2>2, <2>3, StepFits
<1>4. CASE SecurityHeaders(r)
  <2> DEFINE c == [conn[r] EXCEPT !.at = "logging", !.head = @ \cup (Marks \ {"X-Request-Id"})]
  <2>1. Step(r, "security", c) /\ conn[r].at = "security"
    BY <1>4 DEF SecurityHeaders, Step
  <2> DEFINE marks == conn[r].head \cup (Marks \ {"X-Request-Id"})
  <2>2. marks = Marks
    BY <1>1, <2>1 DEF Step, Conns, Fits, MarksOf, Marks
  <2>3. c = [conn[r] EXCEPT !.at = "logging", !.head = Marks]
    BY <1>1, <2>2
  <2> HIDE DEF c, marks
  <2>4. c \in Conns
    BY <1>1, <2>3, Named DEF Conns
  <2>5. Fits(r, c)
    BY <1>1, <2>1, <2>3 DEF Conns, Down, Fits, MarksOf, KeyOf, LineOf
  <2> QED
    BY <2>1, <2>4, <2>5, StepFits
<1>5. CASE Logging(r)
  <2> DEFINE c == [conn[r] EXCEPT !.at = "verify"]
  <2>1. Step(r, "logging", c) /\ conn[r].at = "logging"
    BY <1>5 DEF Logging, Step
  <2>2. c \in Conns
    BY <1>1, Named DEF Conns
  <2>3. Fits(r, c)
    BY <1>1, <2>1 DEF Conns, Down, Fits, MarksOf, KeyOf, LineOf
  <2> HIDE DEF c
  <2> QED
    BY <2>1, <2>2, <2>3, StepFits
<1> QED
  BY <1>2, <1>3, <1>4, <1>5

(* What a handler writes once the chain has set the headers. *)
LEMMA WriteFits ==
    ASSUME FrontInv, NEW r \in Requests, NEW code \in Codes,
           conn[r].at \in {"verify", "mux", "ready", "image"}
    PROVE  /\ [Write(conn[r], code) EXCEPT !.at = "returned"] \in Conns
           /\ Fits(r, [Write(conn[r], code) EXCEPT !.at = "returned"])
<1> DEFINE old == conn[r]
           c == [Write(old, code) EXCEPT !.at = "returned"]
           wire == [code |-> code, head |-> old.head, xcache |-> old.xcache]
<1>1. old \in Conns /\ Fits(r, old) /\ old.at = conn[r].at
  BY DEF FrontInv, FrontTypeOK
<1> HIDE DEF old
<1>2. old.wire = None /\ old.head = Marks
  BY <1>1 DEF Fits, MarksOf, LineOf, Down
<1>3. c = [old EXCEPT !.at = "returned", !.seen = code, !.wire = wire]
  BY <1>1, <1>2 DEF Write, OnWire, Conns
<1>4. wire \in Wires /\ wire.code = code /\ wire.head = Marks /\ wire.xcache = old.xcache
  BY <1>1, <1>2 DEF Wires, Conns
<1> HIDE DEF wire, c
<1>5. wire # None
  BY <1>4, NoneAssumption
<1>6. c \in Conns
  BY <1>1, <1>3, <1>4, Named DEF Conns
<1>7. /\ c.at = "returned" /\ c.ask = old.ask /\ c.key = old.key /\ c.head = Marks
      /\ c.wire = wire /\ c.seen = code /\ c.xcache = old.xcache
  BY <1>1, <1>2, <1>3 DEF Conns
<1>8. Fits(r, c)
  <2>1. MarksOf(c)
    BY <1>4, <1>7 DEF MarksOf
  <2>2. LineOf(c)
    BY <1>4, <1>5, <1>7 DEF LineOf, Down
  <2>3. KeyOf(c, ConfigOf(env))
    BY <1>1, <1>7 DEF Fits, KeyOf, Down
  <2> QED
    BY <1>1, <1>7, <2>1, <2>2, <2>3 DEF Fits, Down
<1> QED
  BY <1>6, <1>8 DEF c, old

LEMMA HandlersFit ==
    ASSUME FrontInv, main = "serving", NEW r \in Requests,
           \/ Arrive(r) \/ CloudFrontVerify(r) \/ Route(r) \/ Ready(r) \/ ParseParams(r)
           \/ SetHeaders(r) \/ WriteError(r) \/ WriteBody(r) \/ ServeReturns(r)
           \/ Panics(r) \/ FlightPanics(r)
    PROVE  FrontInv'
<1> DEFINE old == conn[r]
<1>1. old \in Conns /\ Fits(r, old) /\ Loads(env) /\ env \in Envs
  BY DEF FrontInv, FrontTypeOK
<1>2. CASE Arrive(r)
  <2> PICK a \in Asks[r] : Step(r, "off", [old EXCEPT !.at = "correlation", !.ask = a])
    BY <1>2 DEF Arrive
  <2> DEFINE c == [old EXCEPT !.at = "correlation", !.ask = a]
  <2>1. old.at = "off"
    BY DEF Step
  <2>2. c \in Conns
    <3>1. a \in Asked
      BY DEF Asked
    <3> QED
      BY <1>1, <3>1, Named DEF Conns
  <2>3. Fits(r, c)
    BY <1>1, <2>1 DEF Conns, Down, Fits, MarksOf, KeyOf, LineOf
  <2> HIDE DEF c
  <2> QED
    BY <2>2, <2>3, StepFits DEF c
<1>3. CASE CloudFrontVerify(r)
  <2> DEFINE c == [old EXCEPT !.at = "mux"]
             rejected == [Write(old, 403) EXCEPT !.at = "returned"]
  <2>1. \/ Step(r, "verify", c)
        \/ Step(r, "verify", rejected)
    BY <1>3 DEF CloudFrontVerify
  <2>2. old.at = "verify"
    BY <2>1 DEF Step
  <2>3. c \in Conns /\ Fits(r, c)
    <3>1. c \in Conns
      BY <1>1, Named DEF Conns
    <3> QED
      BY <1>1, <2>2, <3>1 DEF Conns, Down, Fits, MarksOf, KeyOf, LineOf
  <2>4. rejected \in Conns /\ Fits(r, rejected)
    <3>1. 200 \in Codes /\ 403 \in Codes
      BY DEF Codes
    <3> QED
      BY <2>2, <3>1, WriteFits
  <2> HIDE DEF c, rejected
  <2> QED
    BY <2>1, <2>3, <2>4, StepFits
<1>4. CASE Route(r)
  <2> DEFINE ready == [old EXCEPT !.at = "ready"]
             parse == [old EXCEPT !.at = "parse"]
             answered == [Write(old, 200) EXCEPT !.at = "returned"]
  <2>1. \/ Step(r, "mux", ready)
        \/ Step(r, "mux", parse)
        \/ Step(r, "mux", answered)
    BY <1>4 DEF Route
  <2>2. old.at = "mux"
    BY <2>1 DEF Step
  <2>3. ready \in Conns /\ Fits(r, ready)
    <3>1. ready \in Conns
      BY <1>1, Named DEF Conns
    <3> QED
      BY <1>1, <2>2, <3>1 DEF Conns, Down, Fits, MarksOf, KeyOf, LineOf
  <2>4. parse \in Conns /\ Fits(r, parse)
    <3>1. parse \in Conns
      BY <1>1, Named DEF Conns
    <3> QED
      BY <1>1, <2>2, <3>1 DEF Conns, Down, Fits, MarksOf, KeyOf, LineOf
  <2>5. answered \in Conns /\ Fits(r, answered)
    <3>1. 200 \in Codes /\ 403 \in Codes
      BY DEF Codes
    <3> QED
      BY <2>2, <3>1, WriteFits
  <2> HIDE DEF ready, parse, answered
  <2> QED
    BY <2>1, <2>3, <2>4, <2>5, StepFits
<1>5. CASE Ready(r)
  <2> PICK code \in {200, 503} :
             Step(r, "ready", [Write(old, code) EXCEPT !.at = "returned"])
    BY <1>5 DEF Ready
  <2> DEFINE c == [Write(old, code) EXCEPT !.at = "returned"]
  <2>1. old.at = "ready"
    BY DEF Step
  <2>2. c \in Conns /\ Fits(r, c)
    <3>1. code \in Codes
      BY DEF Codes
    <3> QED
      BY <2>1, <3>1, WriteFits
  <2> HIDE DEF c
  <2> QED
    BY <2>2, StepFits DEF c
<1>6. CASE ParseParams(r)
  <2> DEFINE query == old.ask.query
             made == KeyFromRequest(old.ask.path, query, ConfigOf(env))
             key == IF Optimizes(query) THEN made ELSE None
             c == [old EXCEPT !.at = "image", !.key = key]
  <2>1. Step(r, "parse", c)
    BY <1>6 DEF ParseParams
  <2>2. old.at = "parse" /\ old.ask \in Asks[r]
    BY <1>1, <2>1 DEF Step, Fits
  <2>3. query \in Queries /\ old.ask.path \in Paths
    BY <2>2, FrontAssumption
  <2>4. key \in KeysOf(ConfigOf(env)) \cup {None}
    BY <1>1, <2>3, QueriesAreNormalized
  <2>5. key # None => Optimizes(query) /\ key = made
    OBVIOUS
  <2>6. c \in Conns
    BY <1>1, <2>4, Named DEF Conns
  <2>7. c.ask = old.ask /\ c.key = key /\ c.at = "image"
    BY <1>1 DEF Conns
  <2>8. KeyOf(c, ConfigOf(env))
    BY <2>3, <2>5, <2>7 DEF KeyOf, Down
  <2>9. MarksOf(c) /\ LineOf(c) /\ c.ask \in Asks[r]
    BY <1>1, <2>2 DEF Conns, Down, Fits, MarksOf, LineOf
  <2>10. Fits(r, c)
    BY <1>1, <2>8, <2>9 DEF Fits
  <2> HIDE DEF c
  <2> QED
    BY <2>1, <2>6, <2>10, StepFits
<1>7. CASE SetHeaders(r)
  <2> PICK state \in CacheStates :
             Step(r, "image", [old EXCEPT !.at = "headers", !.xcache = state])
    BY <1>7 DEF SetHeaders, StreamResponse, WriteResult, PassThrough, HeadersWith, CacheStates
  <2> DEFINE c == [old EXCEPT !.at = "headers", !.xcache = state]
  <2>1. old.at = "image"
    BY DEF Step
  <2>2. c \in Conns
    BY <1>1, Named DEF Conns
  <2>3. /\ c.at = "headers" /\ c.ask = old.ask /\ c.key = old.key /\ c.head = old.head
        /\ c.wire = old.wire /\ c.seen = old.seen
    BY <1>1 DEF Conns
  <2>4. Fits(r, c)
    BY <1>1, <2>1, <2>3 DEF Down, Fits, MarksOf, KeyOf, LineOf
  <2> HIDE DEF c
  <2> QED
    BY <2>2, <2>4, StepFits DEF c
<1>8. CASE WriteError(r)
  <2> PICK code \in {404, 502} :
             Step(r, "image", [Write(old, code) EXCEPT !.at = "returned"])
    BY <1>8 DEF WriteError
  <2> DEFINE c == [Write(old, code) EXCEPT !.at = "returned"]
  <2>1. old.at = "image"
    BY DEF Step
  <2>2. c \in Conns /\ Fits(r, c)
    <3>1. code \in Codes
      BY DEF Codes
    <3> QED
      BY <2>1, <3>1, WriteFits
  <2> HIDE DEF c
  <2> QED
    BY <2>2, StepFits DEF c
<1>9. CASE WriteBody(r)
  <2> DEFINE wire == [code |-> 200, head |-> old.head, xcache |-> old.xcache]
             c == [old EXCEPT !.at = "body", !.wire = OnWire(old, 200)]
  <2>1. Step(r, "headers", c)
    BY <1>9 DEF WriteBody
  <2>2. old.at = "headers"
    BY <2>1 DEF Step
  <2>3. old.wire = None /\ old.head = Marks
    BY <1>1, <2>2 DEF Fits, MarksOf, LineOf
  <2>4. c = [old EXCEPT !.at = "body", !.wire = wire]
    BY <2>3 DEF OnWire
  <2>5. wire \in Wires /\ wire.code = 200 /\ wire.head = Marks /\ wire.xcache = old.xcache
    BY <1>1, <2>3 DEF Wires, Conns, Codes
  <2> HIDE DEF wire, c
  <2>6. wire # None
    BY <2>5, NoneAssumption
  <2>7. c \in Conns
    BY <1>1, <2>4, <2>5, Named DEF Conns
  <2>8. Fits(r, c)
    BY <1>1, <2>2, <2>3, <2>4, <2>5, <2>6 DEF Conns, Down, Fits, MarksOf, KeyOf, LineOf
  <2> QED
    BY <2>1, <2>7, <2>8, StepFits
<1>10. CASE ServeReturns(r)
  <2> DEFINE c == [old EXCEPT !.at = "returned"]
  <2>1. Step(r, "headers", c) \/ Step(r, "body", c)
    BY <1>10 DEF ServeReturns
  <2>2. old.at \in {"headers", "body"}
    BY <2>1 DEF Step
  <2>3. c \in Conns
    BY <1>1, Named DEF Conns
  <2>4. /\ c.at = "returned" /\ c.ask = old.ask /\ c.key = old.key /\ c.head = old.head
        /\ c.wire = old.wire /\ c.seen = old.seen /\ c.xcache = old.xcache
    BY <1>1 DEF Conns
  <2>5. Fits(r, c)
    BY <1>1, <2>2, <2>4 DEF Down, Fits, MarksOf, KeyOf, LineOf
  <2> HIDE DEF c
  <2> QED
    BY <2>1, <2>3, <2>5, StepFits
<1>11. CASE Panics(r)
  <2> DEFINE c == [old EXCEPT !.at = "panicking"]
  <2> PICK place \in Answering : Step(r, place, c)
    BY <1>11 DEF Panics
  <2>1. old.at \in Answering
    BY DEF Step
  <2>2. c \in Conns
    BY <1>1, Named DEF Conns
  <2>3. /\ c.at = "panicking" /\ c.ask = old.ask /\ c.key = old.key /\ c.head = old.head
        /\ c.wire = old.wire
    BY <1>1 DEF Conns
  <2>4. Fits(r, c)
    BY <1>1, <2>1, <2>3 DEF Answering, Down, Fits, MarksOf, KeyOf, LineOf
  <2> HIDE DEF c
  <2> QED
    BY <2>2, <2>4, StepFits
<1>12. CASE FlightPanics(r)
  <2>1. main' = "crashed" /\ UNCHANGED <<env, conn>>
    BY <1>12 DEF FlightPanics
  <2> QED
    BY <1>1, <2>1 DEF FrontInv, FrontTypeOK, Fits, Conns
<1> QED
  BY <1>2, <1>3, <1>4, <1>5, <1>6, <1>7, <1>8, <1>9, <1>10, <1>11, <1>12

(* The way up: where nothing is on the wire yet, the status that net/http or  *)
(* Recovery sends is the one that the line tells, or the line tells a panic.  *)
LEMMA UpFits ==
    ASSUME FrontInv, NEW r \in Requests,
           LoggingReturns(r) \/ TracingReturns(r) \/ Recovers(r) \/ RecoveryReturns(r)
    PROVE  FrontInv'
<1> DEFINE old == conn[r]
<1>1. old \in Conns /\ Fits(r, old)
  BY DEF FrontInv, FrontTypeOK
<1>2. CASE LoggingReturns(r)
  <2> DEFINE line == [msg |-> "request completed", code |-> old.seen, xcache |-> old.xcache]
             c == [old EXCEPT !.at = "logged", !.line = line]
  <2>1. Step(r, "returned", c)
    BY <1>2 DEF LoggingReturns
  <2>2. old.at = "returned"
    BY <2>1 DEF Step
  <2>3. line \in Lines
    BY <1>1 DEF Lines, Conns
  <2>4. line = [msg |-> "request completed", code |-> old.seen, xcache |-> old.xcache]
    OBVIOUS
  <2> HIDE DEF line
  <2>5. c \in Conns
    BY <1>1, <2>3, Named DEF Conns
  <2>6. /\ c.at = "logged" /\ c.ask = old.ask /\ c.key = old.key /\ c.head = old.head
        /\ c.wire = old.wire /\ c.seen = old.seen /\ c.xcache = old.xcache /\ c.line = line
    BY <1>1 DEF Conns
  <2>7. Fits(r, c)
    <3>1. MarksOf(c)
      BY <1>1, <2>2, <2>6 DEF Fits, MarksOf
    <3>2. KeyOf(c, ConfigOf(env))
      BY <1>1, <2>6 DEF Fits, KeyOf, Down
    <3>3. IF old.wire = None THEN old.seen = 200
          ELSE old.wire.code = old.seen /\ old.wire.xcache = old.xcache
      BY <1>1, <2>2 DEF Fits, LineOf
    <3> HIDE DEF old, c
    <3>4. LineOf(c)
      BY <2>4, <2>6, <3>3 DEF LineOf, Down
    <3> QED
      BY <1>1, <2>2, <2>6, <3>1, <3>2, <3>4 DEF Fits
  <2> HIDE DEF c
  <2> QED
    BY <2>1, <2>5, <2>7, StepFits
<1>3. CASE TracingReturns(r)
  <2> DEFINE c == [old EXCEPT !.at = "closed", !.span = "ended"]
             d == [old EXCEPT !.at = "unwound", !.span = "ended"]
  <2>1. Step(r, "logged", c) \/ Step(r, "panicking", d)
    BY <1>3 DEF TracingReturns
  <2>2. c \in Conns /\ d \in Conns
    BY <1>1, Named DEF Conns
  <2>3. /\ c.at = "closed" /\ c.ask = old.ask /\ c.key = old.key /\ c.head = old.head
        /\ c.wire = old.wire /\ c.seen = old.seen /\ c.xcache = old.xcache
        /\ c.line = old.line
    BY <1>1 DEF Conns
  <2>4. /\ d.at = "unwound" /\ d.ask = old.ask /\ d.key = old.key /\ d.head = old.head
        /\ d.wire = old.wire
    BY <1>1 DEF Conns
  <2> HIDE DEF c, d
  <2>5. ASSUME Step(r, "logged", c) PROVE Fits(r, c)
    <3>1. old.at = "logged"
      BY <2>5 DEF Step
    <3>2. MarksOf(c)
      BY <1>1, <2>3, <3>1 DEF Fits, MarksOf
    <3>3. KeyOf(c, ConfigOf(env))
      BY <1>1, <2>3 DEF Fits, KeyOf, Down
    <3>4. /\ old.line = [msg |-> "request completed", code |-> old.seen, xcache |-> old.xcache]
          /\ IF old.wire = None THEN old.seen = 200
             ELSE old.wire.code = old.seen /\ old.wire.xcache = old.xcache
      BY <1>1, <3>1 DEF Fits, LineOf
    <3> HIDE DEF old
    <3>5. LineOf(c)
      BY <2>3, <3>4 DEF LineOf, Down
    <3> QED
      BY <1>1, <2>3, <3>1, <3>2, <3>3, <3>5 DEF Fits
  <2>6. ASSUME Step(r, "panicking", d) PROVE Fits(r, d)
    <3>1. old.at = "panicking"
      BY <2>6 DEF Step
    <3> QED
      BY <1>1, <2>4, <3>1 DEF Down, Fits, MarksOf, KeyOf, LineOf
  <2> QED
    BY <2>1, <2>2, <2>5, <2>6, StepFits
<1>4. ASSUME NEW code \in {200, 500}
      PROVE  LET wire == OnWire(old, code)
             IN  /\ old.wire # None => wire = old.wire
                 /\ old.wire = None => /\ wire.code = code /\ wire.xcache = old.xcache
                                       /\ wire.head = old.head
                 /\ wire \in Wires
  BY <1>1 DEF OnWire, Conns, Wires, Codes
<1>5. CASE Recovers(r)
  <2> DEFINE wire == OnWire(old, 500)
             line == [msg |-> "panic recovered"]
             c == [old EXCEPT !.at = "over", !.wire = wire, !.line = line]
  <2>1. Step(r, "unwound", c)
    BY <1>5 DEF Recovers
  <2>2. old.at = "unwound"
    BY <2>1 DEF Step
  <2>3. line \in Lines /\ line.msg = "panic recovered"
    BY DEF Lines
  <2>4. /\ wire \in Wires /\ wire.head = Marks /\ wire.code \in {200, 500}
    BY <1>1, <1>4, <2>2 DEF Fits, MarksOf, LineOf
  <2> HIDE DEF wire, line
  <2>5. c \in Conns
    <3> HIDE DEF old
    <3> DEFINE d == [old EXCEPT !.at = "over", !.wire = wire]
    <3>1. d \in Conns
      <4>1. old \in Conns /\ wire \in Wires
        BY <1>1, <2>4
      <4> QED
        BY <4>1, Named DEF Conns
    <3>2. c = [d EXCEPT !.line = line]
      BY <1>1 DEF Conns
    <3> HIDE DEF c, d
    <3> QED
      BY <2>3, <3>1, <3>2 DEF Conns
  <2>6. /\ c.at = "over" /\ c.ask = old.ask /\ c.key = old.key /\ c.head = old.head
        /\ c.wire = wire /\ c.line = line
    BY <1>1 DEF Conns
  <2>7. Fits(r, c)
    <3>1. MarksOf(c)
      BY <1>1, <2>2, <2>4, <2>6 DEF Fits, MarksOf
    <3>2. KeyOf(c, ConfigOf(env))
      BY <1>1, <2>6 DEF Fits, KeyOf, Down
    <3>3. LineOf(c)
      BY <2>3, <2>4, <2>6 DEF LineOf, Told, Down
    <3> QED
      BY <1>1, <2>2, <2>6, <3>1, <3>2, <3>3 DEF Fits
  <2> HIDE DEF c
  <2> QED
    BY <2>1, <2>5, <2>7, StepFits
<1>6. CASE RecoveryReturns(r)
  <2> DEFINE wire == OnWire(old, 200)
             c == [old EXCEPT !.at = "over", !.wire = wire]
  <2>1. Step(r, "closed", c)
    BY <1>6 DEF RecoveryReturns
  <2>2. old.at = "closed"
    BY <2>1 DEF Step
  <2>3. /\ old.head = Marks
        /\ old.line = [msg |-> "request completed", code |-> old.seen, xcache |-> old.xcache]
        /\ IF old.wire = None THEN old.seen = 200
           ELSE old.wire.code = old.seen /\ old.wire.xcache = old.xcache
    BY <1>1, <2>2 DEF Fits, MarksOf, LineOf
  <2>4. /\ old.line \in Lines /\ old.line.msg = "request completed"
        /\ old.line.code = old.seen /\ old.line.xcache = old.xcache
    <3>1. old.seen \in Codes /\ old.xcache \in CacheStates
      BY <1>1 DEF Conns
    <3> DEFINE line == [msg |-> "request completed", code |-> old.seen, xcache |-> old.xcache]
    <3>2. /\ line \in Lines /\ line.msg = "request completed"
          /\ line.code = old.seen /\ line.xcache = old.xcache
      BY <3>1 DEF Lines
    <3>3. old.line = line
      BY <2>3
    <3> HIDE DEF line, old
    <3> QED
      BY <3>2, <3>3
  <2>5. /\ wire \in Wires /\ wire.head = Marks
        /\ wire.code = old.seen /\ wire.xcache = old.xcache
    <3>1. old.wire # None => old.wire.head = Marks
      BY <1>1 DEF Fits, MarksOf
    <3>2. /\ wire \in Wires
          /\ old.wire # None => wire = old.wire
          /\ old.wire = None => /\ wire.code = 200 /\ wire.xcache = old.xcache
                                /\ wire.head = old.head
      BY <1>4
    <3> HIDE DEF wire, old
    <3> QED
      BY <2>3, <3>1, <3>2
  <2> HIDE DEF wire
  <2>6. c \in Conns
    BY <1>1, <2>5, Named DEF Conns
  <2>7. /\ c.at = "over" /\ c.ask = old.ask /\ c.key = old.key /\ c.head = old.head
        /\ c.wire = wire /\ c.line = old.line
    BY <1>1 DEF Conns
  <2>8. Fits(r, c)
    <3>1. MarksOf(c)
      BY <1>1, <2>3, <2>5, <2>7 DEF Fits, MarksOf
    <3>2. KeyOf(c, ConfigOf(env))
      BY <1>1, <2>7 DEF Fits, KeyOf, Down
    <3>3. LineOf(c)
      BY <2>4, <2>5, <2>7 DEF LineOf, Told, Down
    <3> QED
      BY <1>1, <2>2, <2>7, <3>1, <3>2, <3>3 DEF Fits
  <2> HIDE DEF c
  <2> QED
    BY <2>1, <2>6, <2>8, StepFits
<1> QED
  BY <1>2, <1>3, <1>5, <1>6

LEMMA NextFits == FrontInv /\ [FrontNext]_frontVars => FrontInv'
<1> SUFFICES ASSUME FrontInv, [FrontNext]_frontVars PROVE FrontInv'
  OBVIOUS
<1>1. CASE StartUp
  <2>1. UNCHANGED <<env, conn>>
    BY <1>1 DEF StartUp, Load, InitTracing, LoadAWS, NewResolver, Listen, Start
  <2>2. /\ main' \in Starting \cup {"serving", "exited"}
        /\ main' \notin {"load", "exited"} => Loads(env)
    BY <1>1 DEF FrontInv, StartUp, Load, InitTracing, LoadAWS, NewResolver, Listen, Start, Starting
  <2> QED
    BY <2>1, <2>2 DEF FrontInv, FrontTypeOK, Fits, Conns
<1>2. ASSUME main = "serving", NEW r \in Requests, Arrive(r) \/ Handle(r)
      PROVE  FrontInv'
  BY <1>2, DownFits, HandlersFit, UpFits DEF Handle
<1>3. CASE UNCHANGED frontVars
  BY <1>3 DEF frontVars, FrontInv, FrontTypeOK, Fits, Conns
<1> QED
  BY <1>1, <1>2, <1>3 DEF FrontNext, FrontDone

THEOREM FrontInvariant == FrontSpec => []FrontInv
BY InitFits, NextFits, PTL DEF FrontSpec

-----------------------------------------------------------------------------
(* Every place of main and of a request is one of those named, and what a     *)
(* request holds there is of its kind; in particular its key is in the ranges *)
(* of the configuration.                                                      *)
THEOREM FrontTypes == FrontSpec => []FrontTypeOK
<1>1. FrontInv => FrontTypeOK
  BY DEF FrontInv
<1> QED
  BY <1>1, FrontInvariant, PTL

(* The keys of all requests are normal, whatever the environment. *)
THEOREM NormalKeys == FrontSpec => []KeysAreNormal
<1>1. ASSUME FrontInv, NEW r \in Requests, conn[r].key # None
      PROVE  Normal(conn[r].ask.path, conn[r].ask.query, ConfigOf(env))
  <2>1. conn[r] \in Conns /\ Fits(r, conn[r]) /\ env \in Envs
    BY <1>1 DEF FrontInv, FrontTypeOK
  <2>2. Loads(env)
    BY <1>1, <2>1 DEF Fits
  <2> QED
    BY <1>1, <2>1, <2>2, QueriesAreNormalized DEF Fits, KeyOf
<1>2. FrontInv => KeysAreNormal
  BY <1>1 DEF KeysAreNormal
<1> QED
  BY <1>2, FrontInvariant, PTL

(* The chain: no reply leaves without the request id and the security headers. *)
THEOREM MarkedReplies == FrontSpec => []RepliesAreMarked
<1>1. FrontInv => RepliesAreMarked
  BY DEF FrontInv, RepliesAreMarked, Fits, MarksOf
<1> QED
  BY <1>1, FrontInvariant, PTL

(* Logging and Recovery: a line tells what was sent, or that there was a      *)
(* panic.                                                                     *)
THEOREM HonestLines == FrontSpec => []LinesTellTheReply
<1>1. ASSUME FrontInv, NEW r \in Requests, conn[r].at = "over"
      PROVE  Told(conn[r]) /\ conn[r].line # None /\ conn[r].wire # None
  <2>1. LineOf(conn[r])
    BY <1>1 DEF FrontInv, Fits
  <2>2. Told(conn[r])
    BY <1>1, <2>1 DEF LineOf
  <2>3. conn[r].line \in Lines /\ conn[r].wire \in Wires
    BY <2>2 DEF Told
  <2> QED
    BY <2>2, <2>3, NoneAssumption
<1>2. FrontInv => LinesTellTheReply
  BY <1>1 DEF LinesTellTheReply, Told
<1> QED
  BY <1>2, FrontInvariant, PTL

-----------------------------------------------------------------------------
(* How a request goes on: towards its end, its span as its place says, and    *)
(* what is on the wire stays there.                                           *)
PlaceSteps(place) ==
    CASE place = "off" -> 14
      [] place = "correlation" -> 13
      [] place = "tracing" -> 12
      [] place = "security" -> 11
      [] place = "logging" -> 10
      [] place = "verify" -> 9
      [] place = "mux" -> 8
      [] place \in {"ready", "parse"} -> 7
      [] place = "image" -> 6
      [] place = "headers" -> 5
      [] place = "body" -> 4
      [] place \in {"returned", "panicking"} -> 3
      [] place = "logged" -> 2
      [] place \in {"closed", "unwound"} -> 1
      [] place = "over" -> 0

SpanAt(place) ==
    IF place \in {"off", "correlation", "tracing"} THEN "none"
    ELSE IF place \in {"closed", "unwound", "over"} THEN "ended" ELSE "open"

LEMMA PlaceNumbers ==
    /\ PlaceSteps("off") = 14 /\ PlaceSteps("correlation") = 13 /\ PlaceSteps("tracing") = 12
    /\ PlaceSteps("security") = 11 /\ PlaceSteps("logging") = 10 /\ PlaceSteps("verify") = 9
    /\ PlaceSteps("mux") = 8 /\ PlaceSteps("ready") = 7 /\ PlaceSteps("parse") = 7
    /\ PlaceSteps("image") = 6 /\ PlaceSteps("headers") = 5 /\ PlaceSteps("body") = 4
    /\ PlaceSteps("returned") = 3 /\ PlaceSteps("panicking") = 3 /\ PlaceSteps("logged") = 2
    /\ PlaceSteps("closed") = 1 /\ PlaceSteps("unwound") = 1 /\ PlaceSteps("over") = 0
BY DEF PlaceSteps

GoesOn(r) ==
    /\ \A q \in Requests \ {r} : conn'[q] = conn[q]
    /\ PlaceSteps(conn'[r].at) < PlaceSteps(conn[r].at)
    /\ conn[r].span = SpanAt(conn[r].at) => conn'[r].span = SpanAt(conn'[r].at)
    /\ conn[r].wire # None => conn'[r].wire = conn[r].wire

LEMMA Advance ==
    ASSUME FrontTypeOK, NEW r \in Requests, NEW from, NEW to, NEW c, Step(r, from, c), c.at = to,
           PlaceSteps(to) < PlaceSteps(from),
           conn[r].span = SpanAt(from) => c.span = SpanAt(to),
           conn[r].wire # None => c.wire = conn[r].wire
    PROVE  GoesOn(r)
<1>1. conn[r].at = from /\ conn'[r] = c /\ \A q \in Requests \ {r} : conn'[q] = conn[q]
  BY DEF Step, FrontTypeOK
<1>2. QED BY <1>1 DEF GoesOn

LEMMA DownGoesOn ==
    ASSUME FrontTypeOK, NEW r \in Requests,
           \/ Arrive(r) \/ CorrelationID(r) \/ Tracing(r) \/ SecurityHeaders(r) \/ Logging(r)
    PROVE  GoesOn(r)
<1>1. conn[r] \in Conns
  BY DEF FrontTypeOK
<1>2. CASE Arrive(r)
  <2>1. PICK a \in Asks[r] : Step(r, "off", [conn[r] EXCEPT !.at = "correlation", !.ask = a])
    BY <1>2 DEF Arrive
  <2> DEFINE c == [conn[r] EXCEPT !.at = "correlation", !.ask = a]
  <2>2. c.at = "correlation" /\ c.span = conn[r].span /\ c.wire = conn[r].wire
    BY <1>1 DEF Conns
  <2>3. Step(r, "off", c)
    BY <2>1
  <2> HIDE DEF c
  <2>4. QED BY <2>2, <2>3, Advance, PlaceNumbers DEF SpanAt
<1>3. CASE CorrelationID(r)
  <2> DEFINE c == [conn[r] EXCEPT !.at = "tracing", !.head = @ \cup {"X-Request-Id"}]
  <2>1. c.at = "tracing" /\ c.span = conn[r].span /\ c.wire = conn[r].wire
    BY <1>1 DEF Conns
  <2>2. Step(r, "correlation", c)
    BY <1>3 DEF CorrelationID
  <2> HIDE DEF c
  <2>3. QED BY <2>1, <2>2, Advance, PlaceNumbers DEF SpanAt
<1>4. CASE Tracing(r)
  <2> DEFINE c == [conn[r] EXCEPT !.at = "security", !.span = "open"]
  <2>1. c.at = "security" /\ c.span = "open" /\ c.wire = conn[r].wire
    BY <1>1 DEF Conns
  <2>2. Step(r, "tracing", c)
    BY <1>4 DEF Tracing
  <2> HIDE DEF c
  <2>3. QED BY <2>1, <2>2, Advance, PlaceNumbers DEF SpanAt
<1>5. CASE SecurityHeaders(r)
  <2> DEFINE c == [conn[r] EXCEPT !.at = "logging", !.head = @ \cup (Marks \ {"X-Request-Id"})]
  <2>1. c.at = "logging" /\ c.span = conn[r].span /\ c.wire = conn[r].wire
    BY <1>1 DEF Conns
  <2>2. Step(r, "security", c)
    BY <1>5 DEF SecurityHeaders
  <2> HIDE DEF c
  <2>3. QED BY <2>1, <2>2, Advance, PlaceNumbers DEF SpanAt
<1>6. CASE Logging(r)
  <2> DEFINE c == [conn[r] EXCEPT !.at = "verify"]
  <2>1. c.at = "verify" /\ c.span = conn[r].span /\ c.wire = conn[r].wire
    BY <1>1 DEF Conns
  <2>2. Step(r, "logging", c)
    BY <1>6 DEF Logging
  <2> HIDE DEF c
  <2>3. QED BY <2>1, <2>2, Advance, PlaceNumbers DEF SpanAt
<1>7. QED BY <1>2, <1>3, <1>4, <1>5, <1>6

(* Only what writes a header touches the wire. *)
LEMMA Writing ==
    ASSUME FrontTypeOK, NEW r \in Requests, NEW code
    PROVE  LET c == [Write(conn[r], code) EXCEPT !.at = "returned"] IN
           /\ c.at = "returned" /\ c.span = conn[r].span
           /\ conn[r].wire # None => c.wire = conn[r].wire
<1>1. conn[r] \in Conns
  BY DEF FrontTypeOK
<1>2. QED BY <1>1 DEF Conns, Write, OnWire

LEMMA HandlersGoOn ==
    ASSUME FrontTypeOK, NEW r \in Requests,
           \/ CloudFrontVerify(r) \/ Route(r) \/ Ready(r) \/ ParseParams(r) \/ SetHeaders(r)
           \/ WriteError(r) \/ WriteBody(r) \/ ServeReturns(r) \/ Panics(r) \/ LoggingReturns(r)
    PROVE  GoesOn(r)
<1> DEFINE written(code) == [Write(conn[r], code) EXCEPT !.at = "returned"]
           at(place) == [conn[r] EXCEPT !.at = place]
<1>1. conn[r] \in Conns
  BY DEF FrontTypeOK
<1>2. ASSUME NEW place PROVE at(place).at = place /\ at(place).span = conn[r].span
                             /\ at(place).wire = conn[r].wire
  BY <1>1 DEF Conns
<1>3. ASSUME NEW code
      PROVE  /\ written(code).at = "returned" /\ written(code).span = conn[r].span
             /\ conn[r].wire # None => written(code).wire = conn[r].wire
  BY Writing
<1>4. CASE CloudFrontVerify(r)
  <2>1. Step(r, "verify", at("mux")) \/ Step(r, "verify", written(403))
    BY <1>4 DEF CloudFrontVerify
  <2> HIDE DEF at, written
  <2>2. CASE Step(r, "verify", at("mux"))
    BY <1>2, <2>2, Advance, PlaceNumbers DEF SpanAt
  <2>3. CASE Step(r, "verify", written(403))
    BY <1>3, <2>3, Advance, PlaceNumbers DEF SpanAt
  <2>4. QED BY <2>1, <2>2, <2>3
<1>5. CASE Route(r)
  <2>1. \/ Step(r, "mux", at("ready")) \/ Step(r, "mux", at("parse"))
        \/ Step(r, "mux", written(200))
    BY <1>5 DEF Route
  <2> HIDE DEF at, written
  <2>2. CASE Step(r, "mux", at("ready"))
    BY <1>2, <2>2, Advance, PlaceNumbers DEF SpanAt
  <2>3. CASE Step(r, "mux", at("parse"))
    BY <1>2, <2>3, Advance, PlaceNumbers DEF SpanAt
  <2>4. CASE Step(r, "mux", written(200))
    BY <1>3, <2>4, Advance, PlaceNumbers DEF SpanAt
  <2>5. QED BY <2>1, <2>2, <2>3, <2>4
<1>6. CASE Ready(r)
  <2>1. PICK code \in {200, 503} : Step(r, "ready", written(code))
    BY <1>6 DEF Ready
  <2> HIDE DEF written
  <2>2. QED BY <1>3, <2>1, Advance, PlaceNumbers DEF SpanAt
<1>7. CASE WriteError(r)
  <2>1. PICK code \in {404, 502} : Step(r, "image", written(code))
    BY <1>7 DEF WriteError
  <2> HIDE DEF written
  <2>2. QED BY <1>3, <2>1, Advance, PlaceNumbers DEF SpanAt
<1>8. CASE ParseParams(r)
  <2>1. PICK key : Step(r, "parse", [conn[r] EXCEPT !.at = "image", !.key = key])
    BY <1>8 DEF ParseParams
  <2> DEFINE c == [conn[r] EXCEPT !.at = "image", !.key = key]
  <2>2. c.at = "image" /\ c.span = conn[r].span /\ c.wire = conn[r].wire
    BY <1>1 DEF Conns
  <2>3. Step(r, "parse", c)
    BY <2>1
  <2> HIDE DEF c
  <2>4. QED BY <2>2, <2>3, Advance, PlaceNumbers DEF SpanAt
<1>9. CASE SetHeaders(r)
  <2>1. PICK state : Step(r, "image", [conn[r] EXCEPT !.at = "headers", !.xcache = state])
    BY <1>9 DEF SetHeaders, StreamResponse, WriteResult, PassThrough, HeadersWith
  <2> DEFINE c == [conn[r] EXCEPT !.at = "headers", !.xcache = state]
  <2>2. c.at = "headers" /\ c.span = conn[r].span /\ c.wire = conn[r].wire
    BY <1>1 DEF Conns
  <2>3. Step(r, "image", c)
    BY <2>1
  <2> HIDE DEF c
  <2>4. QED BY <2>2, <2>3, Advance, PlaceNumbers DEF SpanAt
<1>10. CASE WriteBody(r)
  <2> DEFINE c == [conn[r] EXCEPT !.at = "body", !.wire = OnWire(conn[r], 200)]
  <2>1. /\ c.at = "body" /\ c.span = conn[r].span
        /\ conn[r].wire # None => c.wire = conn[r].wire
    BY <1>1 DEF Conns, OnWire
  <2>2. Step(r, "headers", c)
    BY <1>10 DEF WriteBody
  <2> HIDE DEF c
  <2>3. QED BY <2>1, <2>2, Advance, PlaceNumbers DEF SpanAt
<1>11. CASE ServeReturns(r)
  <2>1. Step(r, "headers", at("returned")) \/ Step(r, "body", at("returned"))
    BY <1>11 DEF ServeReturns
  <2> HIDE DEF at
  <2>2. QED BY <1>2, <2>1, Advance, PlaceNumbers DEF SpanAt
<1>12. CASE Panics(r)
  <2>1. PICK place \in Answering : Step(r, place, at("panicking"))
    BY <1>12 DEF Panics
  <2> HIDE DEF at
  <2>2. PlaceSteps("panicking") < PlaceSteps(place) /\ SpanAt(place) = "open"
    BY PlaceNumbers DEF Answering, SpanAt
  <2>3. SpanAt("panicking") = "open"
    BY DEF SpanAt
  <2>4. QED BY <1>2, <2>1, <2>2, <2>3, Advance
<1>13. CASE LoggingReturns(r)
  <2> DEFINE line == [msg |-> "request completed", code |-> conn[r].seen,
                      xcache |-> conn[r].xcache]
             c == [conn[r] EXCEPT !.at = "logged", !.line = line]
  <2>1. Step(r, "returned", c)
    BY <1>13 DEF LoggingReturns
  <2> HIDE DEF line
  <2>2. c.at = "logged" /\ c.span = conn[r].span /\ c.wire = conn[r].wire
    BY <1>1 DEF Conns
  <2> HIDE DEF c
  <2>3. QED BY <2>1, <2>2, Advance, PlaceNumbers DEF SpanAt
<1>14. QED BY <1>4, <1>5, <1>6, <1>7, <1>8, <1>9, <1>10, <1>11, <1>12, <1>13

LEMMA UpGoesOn ==
    ASSUME FrontTypeOK, NEW r \in Requests, TracingReturns(r) \/ Recovers(r) \/ RecoveryReturns(r)
    PROVE  GoesOn(r)
<1>1. conn[r] \in Conns
  BY DEF FrontTypeOK
<1>2. CASE TracingReturns(r)
  <2> DEFINE ended(place) == [conn[r] EXCEPT !.at = place, !.span = "ended"]
  <2>1. ASSUME NEW place PROVE /\ ended(place).at = place /\ ended(place).span = "ended"
                               /\ ended(place).wire = conn[r].wire
    BY <1>1 DEF Conns
  <2>2. Step(r, "logged", ended("closed")) \/ Step(r, "panicking", ended("unwound"))
    BY <1>2 DEF TracingReturns
  <2> HIDE DEF ended
  <2>3. CASE Step(r, "logged", ended("closed"))
    BY <2>1, <2>3, Advance, PlaceNumbers DEF SpanAt
  <2>4. CASE Step(r, "panicking", ended("unwound"))
    BY <2>1, <2>4, Advance, PlaceNumbers DEF SpanAt
  <2>5. QED BY <2>2, <2>3, <2>4
<1>3. CASE Recovers(r)
  <2> DEFINE c == [conn[r] EXCEPT !.at = "over", !.wire = OnWire(conn[r], 500),
                                  !.line = [msg |-> "panic recovered"]]
  <2>1. /\ c.at = "over" /\ c.span = conn[r].span
        /\ conn[r].wire # None => c.wire = conn[r].wire
    BY <1>1 DEF Conns, OnWire
  <2>2. Step(r, "unwound", c)
    BY <1>3 DEF Recovers
  <2> HIDE DEF c
  <2>3. QED BY <2>1, <2>2, Advance, PlaceNumbers DEF SpanAt
<1>4. CASE RecoveryReturns(r)
  <2> DEFINE c == [conn[r] EXCEPT !.at = "over", !.wire = OnWire(conn[r], 200)]
  <2>1. /\ c.at = "over" /\ c.span = conn[r].span
        /\ conn[r].wire # None => c.wire = conn[r].wire
    BY <1>1 DEF Conns, OnWire
  <2>2. Step(r, "closed", c)
    BY <1>4 DEF RecoveryReturns
  <2> HIDE DEF c
  <2>3. QED BY <2>1, <2>2, Advance, PlaceNumbers DEF SpanAt
<1>5. QED BY <1>2, <1>3, <1>4

LEMMA StepGoesOn ==
    FrontTypeOK /\ [FrontNext]_frontVars => UNCHANGED conn \/ \E r \in Requests : GoesOn(r)
<1> SUFFICES ASSUME FrontTypeOK, [FrontNext]_frontVars
             PROVE  UNCHANGED conn \/ \E r \in Requests : GoesOn(r)
  OBVIOUS
<1>1. CASE StartUp
  BY <1>1 DEF StartUp, Load, InitTracing, LoadAWS, NewResolver, Listen, Start
<1>2. CASE UNCHANGED frontVars
  BY <1>2 DEF frontVars
<1>3. ASSUME NEW r \in Requests, Arrive(r) \/ Handle(r) PROVE UNCHANGED conn \/ GoesOn(r)
  BY <1>3, DownGoesOn, HandlersGoOn, UpGoesOn DEF Handle, FlightPanics
<1>4. QED BY <1>1, <1>2, <1>3 DEF FrontNext, FrontDone

(* tracing.go: the span of a request is open from the tracing wrapper on, and *)
(* it has ended when the request is over, whatever panicked in between.       *)
SpansFollow == \A r \in Requests : conn[r].span = SpanAt(conn[r].at)

THEOREM SpansEnd ==
    FrontSpec => [](\A r \in Requests : conn[r].at = "over" => conn[r].span = "ended")
<1>1. FrontInit => SpansFollow
  BY DEF FrontInit, SpansFollow, SpanAt
<1>2. FrontTypeOK /\ SpansFollow /\ [FrontNext]_frontVars => SpansFollow'
  BY StepGoesOn DEF SpansFollow, GoesOn
<1>3. SpansFollow => \A r \in Requests : conn[r].at = "over" => conn[r].span = "ended"
  BY DEF SpansFollow, SpanAt
<1>4. QED BY <1>1, <1>2, <1>3, FrontTypes, PTL DEF FrontSpec

(* What the client was sent first stands: no wrapper, neither Recovery nor    *)
(* net/http after it, sends a second status line.                             *)
THEOREM RepliesStand ==
    FrontSpec =>
        [][\A r \in Requests : conn[r].wire # None => conn'[r].wire = conn[r].wire]_frontVars
<1>1. FrontTypeOK /\ [FrontNext]_frontVars =>
          [\A r \in Requests : conn[r].wire # None => conn'[r].wire = conn[r].wire]_frontVars
  BY StepGoesOn DEF GoesOn
<1>2. QED BY <1>1, FrontTypes, PTL DEF FrontSpec

(* The chain has no way back: a request goes through 14 places at most, down  *)
(* and up, each step of one leaves the others where they are.                 *)
THEOREM ChainIsBounded ==
    FrontSpec =>
        [][UNCHANGED conn \/ \E r \in Requests :
               /\ PlaceSteps(conn'[r].at) < PlaceSteps(conn[r].at)
               /\ \A q \in Requests \ {r} : conn'[q] = conn[q]]_frontVars
<1>1. FrontTypeOK /\ [FrontNext]_frontVars =>
          [UNCHANGED conn \/ \E r \in Requests :
               /\ PlaceSteps(conn'[r].at) < PlaceSteps(conn[r].at)
               /\ \A q \in Requests \ {r} : conn'[q] = conn[q]]_frontVars
  BY StepGoesOn DEF GoesOn
<1>2. QED BY <1>1, FrontTypes, PTL DEF FrontSpec
=============================================================================

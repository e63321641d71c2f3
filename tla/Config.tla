-------------------------------- MODULE Config --------------------------------
(* config.Load: the environment that main finds, and the configuration or the *)
(* error it makes of it.                                                      *)
(*                                                                            *)
(* The value of a variable, trimmed, is blank, a number that strconv.Atoi     *)
(* takes, or junk (a number too large for an int is junk).  The int and the   *)
(* time.Duration of Go have the same width, here that of 2 * (MaxInt + 1)     *)
(* values, and arithmetic wraps around.  Of a list only the set of its fields *)
(* matters, and of an address its form.                                       *)
EXTENDS Integers

CONSTANTS
    MaxInt,       \* the largest int, and so the longest time.Duration
    Second        \* time.Second

ASSUME WidthAssumption ==
    /\ MaxInt \in Nat /\ Second \in Nat \ {0}
    /\ 1920 <= MaxInt /\ 30 * Second <= MaxInt

Ints == -(MaxInt + 1)..MaxInt

Wrap(n) == ((n + MaxInt + 1) % (2 * (MaxInt + 1))) - (MaxInt + 1)

Number(n) == [is |-> "number", n |-> n]
Blank == [is |-> "blank", n |-> 0]
Junk == [is |-> "junk", n |-> 0]
Raws == [is : {"number", "blank", "junk"}, n : Ints]

Default == [MAX_WIDTH |-> 1920, ASYNC_CACHE_PUT_CONCURRENCY |-> 32, DEFAULT_QUALITY |-> 75]
DefaultSeconds == [UPSTREAM_TIMEOUT |-> 30, IMGPROXY_TIMEOUT |-> 30, SHUTDOWN_TIMEOUT |-> 25,
                   ASYNC_CACHE_PUT_TIMEOUT_SECONDS |-> 30]

IntNames == {"MAX_WIDTH", "ASYNC_CACHE_PUT_CONCURRENCY", "DEFAULT_QUALITY"}
TimeoutNames == {"UPSTREAM_TIMEOUT", "IMGPROXY_TIMEOUT", "SHUTDOWN_TIMEOUT",
                 "ASYNC_CACHE_PUT_TIMEOUT_SECONDS"}
ListNames == {"CF_ORIGIN_SECRET", "ALLOWED_UPSTREAM_GATEWAYS", "ALLOWED_SOURCE_BUCKETS"}

Environments(Fields) ==
    [int : [IntNames -> Raws], timeout : [TimeoutNames -> Raws],
     list : [ListNames -> SUBSET Fields],
     bucket : {"blank", "named"}, url : {"blank", "http", "other", "malformed"}]

-----------------------------------------------------------------------------
(* loadPositiveInt and loadDurationSeconds: they fail, or return this. *)
Positive(raw) == raw.is = "blank" \/ (raw.is = "number" /\ raw.n > 0)

PositiveInt(raw, fallback) == IF raw.is = "blank" THEN fallback ELSE raw.n

DurationSeconds(raw, fallback) ==
    IF raw.is = "blank" THEN fallback * Second ELSE Wrap(raw.n * Second)

(* loadCSV *)
CSV(fields) == fields \ {""}

ConfigOf(env) ==
    [int |-> [name \in IntNames |-> PositiveInt(env.int[name], Default[name])],
     timeout |-> [name \in TimeoutNames |->
                      DurationSeconds(env.timeout[name], DefaultSeconds[name])],
     list |-> [name \in ListNames |-> CSV(env.list[name])],
     url |-> IF env.url = "blank" THEN "http" ELSE env.url]

Validate(conf) ==
    /\ conf.list["ALLOWED_UPSTREAM_GATEWAYS"] # {}
    /\ conf.list["ALLOWED_SOURCE_BUCKETS"] # {}
    /\ conf.url = "http"
    /\ conf.int["DEFAULT_QUALITY"] \in 1..100

(* Load returns ConfigOf(env), or an error. *)
Loads(env) ==
    /\ \A name \in IntNames : Positive(env.int[name])
    /\ \A name \in TimeoutNames : Positive(env.timeout[name])
    /\ env.bucket = "named"
    /\ Validate(ConfigOf(env))

-----------------------------------------------------------------------------
(* What Load lets through.  No allowlist is empty, as values.yaml:135-136 has *)
(* it and config.go:186 and main.go:85, :88, which promise an opt-out, do not.*)
(* A timeout is below a second only where the seconds do not fit into a       *)
(* Duration, which config.go:164 does not check: it has wrapped, and may be   *)
(* negative or of any length.                                                 *)
Sound(env) ==
    LET conf == ConfigOf(env) IN
    /\ conf.int["DEFAULT_QUALITY"] \in 1..100
    /\ \A name \in IntNames : conf.int[name] \in 1..MaxInt
    /\ \A name \in {"ALLOWED_UPSTREAM_GATEWAYS", "ALLOWED_SOURCE_BUCKETS"} :
           conf.list[name] # {} /\ "" \notin conf.list[name]
    /\ \A name \in TimeoutNames :
           /\ conf.timeout[name] \in Ints
           /\ conf.timeout[name] < Second => env.timeout[name].n * Second > MaxInt
=============================================================================

-------------------------------- MODULE Params --------------------------------
(* handler.ParseParams, the cap on the width and cache.KeyFromRequest: from   *)
(* the query of a request to the key of its image in S3.  A key is the record *)
(* of its fields: the path starts with one slash, which is trimmed, and the   *)
(* last segment of the formatted key has neither slashes nor free text, so    *)
(* the formatting loses nothing.                                              *)
EXTENDS Config

CONSTANT None     \* nil

Formats == {"webp", "avif", "jpeg"}
Queries == [imwidth : Raws, f : Formats \cup {"other"}, q : Raws]

(* Faulty variants: a property worth its run fails when one replaces its       *)
(* original.                                                                  *)
ClampUnbounded(n) == IF n < 1 THEN 1 ELSE n     \* forgets the upper bound

QualityOfJunk(query, defaultQuality) ==         \* takes what is no number for 0
    IF query.q.is = "blank" THEN defaultQuality
    ELSE IF query.q.n < 1 THEN 1 ELSE IF query.q.n > 100 THEN 100 ELSE query.q.n

-----------------------------------------------------------------------------
(* ParseParams returns nil, and the request passes through, unless: *)
Optimizes(query) ==
    /\ query.imwidth.is = "number" /\ query.imwidth.n > 0
    /\ query.f \in Formats

Clamp(n) == IF n < 1 THEN 1 ELSE IF n > 100 THEN 100 ELSE n

Quality(query, defaultQuality) ==
    Clamp(IF query.q.is = "number" THEN query.q.n ELSE defaultQuality)

Width(query, maxWidth) ==
    IF maxWidth > 0 /\ query.imwidth.n > maxWidth THEN maxWidth ELSE query.imwidth.n

(* The source headers and the rest of the query have no part in the key; the  *)
(* host has one, and is left out: the paths here are those of one host.       *)
KeyFromRequest(path, query, conf) ==
    [path |-> path, width |-> Width(query, conf.int["MAX_WIDTH"]), format |-> query.f,
     quality |-> Quality(query, conf.int["DEFAULT_QUALITY"])]

-----------------------------------------------------------------------------
(* Stated without the code's comparisons: m is the value of S nearest to n.   *)
Distance(m, n) == IF m < n THEN n - m ELSE m - n
Nearest(m, n, S) == m \in S /\ \A k \in S : Distance(m, n) <= Distance(k, n)

(* The query that a key answers exactly. *)
QueryOf(key) ==
    [imwidth |-> Number(key.width), f |-> key.format, q |-> Number(key.quality)]

(* However odd the query, its image is one of 3 * 100 * MAX_WIDTH of its path *)
(* and the nearest to what it asks for; and the values of the key, sent as a  *)
(* query, find the same image.                                                *)
Normal(path, query, conf) ==
    LET key == KeyFromRequest(path, query, conf) IN
    /\ key.format \in Formats
    /\ Nearest(key.width, query.imwidth.n, 1..conf.int["MAX_WIDTH"])
    /\ query.q.is = "number" => Nearest(key.quality, query.q.n, 1..100)
    /\ query.q.is # "number" => key.quality = conf.int["DEFAULT_QUALITY"]
    /\ Optimizes(QueryOf(key)) /\ KeyFromRequest(path, QueryOf(key), conf) = key
=============================================================================

---------------------------- MODULE ImageService ----------------------------
(* What the service promises its clients and its cache, whatever fails: a     *)
(* request is answered at most once, with an image that was made or stored    *)
(* for its key, with the original, or with an error; and what the cache holds *)
(* was made, is an image, and stays.                                          *)
EXTENDS Integers

CONSTANTS Requests, Keys, KeyOf, PassThrough, NonImage, None

VARIABLES
    answer,       \* the kind of reply each request has had
    made,         \* the keys whose image imgproxy has made in full
    stored        \* the keys whose image is in the cache

serviceVars == <<answer, made, stored>>

Init ==
    /\ answer = [r \in Requests |-> None]
    /\ made = {} /\ stored = {}

Reply(r, kind) ==
    /\ answer[r] = None
    /\ answer' = [answer EXCEPT ![r] = kind]
    /\ UNCHANGED <<made, stored>>

Hit(r) == r \notin PassThrough /\ KeyOf[r] \in stored /\ Reply(r, "hit")
Miss(r) == r \notin PassThrough /\ KeyOf[r] \in made /\ Reply(r, "miss")
FallBack(r) == r \notin PassThrough /\ Reply(r, "fallback")
Bypass(r) == r \notin PassThrough /\ KeyOf[r] \in NonImage /\ Reply(r, "bypass")
Original(r) == r \in PassThrough /\ Reply(r, "original")
Refuse(r) == Reply(r, "error")

Make(k) ==
    /\ k \in Keys \ NonImage
    /\ made' = made \cup {k}
    /\ UNCHANGED <<answer, stored>>

Store(k) ==
    /\ k \in made
    /\ stored' = stored \cup {k}
    /\ UNCHANGED <<answer, made>>

Next == \/ \E r \in Requests : Hit(r) \/ Miss(r) \/ FallBack(r) \/ Bypass(r)
                               \/ Original(r) \/ Refuse(r)
        \/ \E k \in Keys : Make(k) \/ Store(k)

Spec == Init /\ [][Next]_serviceVars
=============================================================================

------------------------------- MODULE Source -------------------------------
(* The source of one request as the handler uses it: what upstream.Resolver   *)
(* promises of Resolve and of the two closures it returns.  Each call is one  *)
(* step, whatever it takes, and none brings anything from the network once    *)
(* the client has gone, but for a body that was being read.                   *)

VARIABLES
    gone,         \* the client has gone
    place,        \* the call that comes next, or is being made
    says,         \* what HEAD said of the source
    outcome       \* what came of it all: the original, or the code of an error

sourceVars == <<gone, place, says, outcome>>

Init == gone = FALSE /\ place = "resolve" /\ says = "unknown" /\ outcome = "none"

Goes(from, to) == place = from /\ place' = to

EndsWith(from, outcomes) ==
    /\ Goes(from, "over")
    /\ outcome' \in outcomes
    /\ UNCHANGED <<gone, says>>

Resolve == Goes("resolve", "resolved") /\ UNCHANGED <<gone, says, outcome>>
Refuse == EndsWith("resolve", {"502"})

(* Without a client, as after every failure, HEAD has nothing to say. *)
Head ==
    /\ Goes("resolved", "headed")
    /\ says' \in IF gone THEN {"unknown"} ELSE {"unknown", "image", "other"}
    /\ UNCHANGED <<gone, outcome>>

Spare == EndsWith("headed", {"unused"})

Ask ==
    /\ Goes("resolved", "fetch") \/ Goes("headed", "fetch")
    /\ UNCHANGED <<gone, says, outcome>>

Fetch == ~gone /\ Goes("fetch", "read") /\ UNCHANGED <<gone, says, outcome>>
FetchFails == EndsWith("fetch", {"4xx", "502"})
Read == EndsWith("read", {"original", "502"})

Leave ==
    /\ place # "over"
    /\ gone' = TRUE
    /\ UNCHANGED <<place, says, outcome>>

Next == Resolve \/ Refuse \/ Head \/ Spare \/ Ask \/ Fetch \/ FetchFails \/ Read \/ Leave

Spec == Init /\ [][Next]_sourceVars
=============================================================================

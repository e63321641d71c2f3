------------------------------- MODULE MCFront -------------------------------
(* An instance of Front for TLC: environments and queries that differ from a  *)
(* good one in one place.                                                     *)
EXTENDS Front

CONSTANTS r1, r2

MCRequests == {r1, r2}
MCPaths == {"/a.png"} \cup Probes
MCFields == {"", "x"}

MCEnv == [int |-> [name \in IntNames |-> Number(60)],
          timeout |-> [name \in TimeoutNames |-> Blank],
          list |-> [name \in ListNames |-> {"x"}],
          bucket |-> "named", url |-> "blank"]

MCInts == {Blank, Junk} \cup {Number(n) : n \in {0, 1, 101}}
\* With 1000 units to the second, 33 seconds wrap to a negative time and 66 to
\* one below a second.
MCSeconds == {Blank, Junk} \cup {Number(n) : n \in {0, 5, 33, 66}}

MCEnvs ==
    {[MCEnv EXCEPT !.int[name] = raw] : name \in IntNames, raw \in MCInts}
    \cup {[MCEnv EXCEPT !.timeout[name] = raw] : name \in TimeoutNames, raw \in MCSeconds}
    \cup {[MCEnv EXCEPT !.list[name] = fields] :
              name \in ListNames, fields \in SUBSET MCFields}
    \cup {[MCEnv EXCEPT !.bucket = "blank"]}
    \cup {[MCEnv EXCEPT !.url = form] : form \in {"http", "other", "malformed"}}

\* The instance of Front_proofs!LoadedIsSound that TLC can look at.
ASSUME LoadedIsSoundHere == \A e \in MCEnvs : Loads(e) => Sound(e)

MCQuery == [imwidth |-> Number(50), f |-> "webp", q |-> Blank]
MCQueries ==
    {[MCQuery EXCEPT !.imwidth = raw] : raw \in {Blank, Junk, Number(-1), Number(0), Number(2000)}}
    \cup {[MCQuery EXCEPT !.q = raw] :
              raw \in {Blank, Junk, Number(-1), Number(0), Number(50), Number(101)}}
    \cup {[MCQuery EXCEPT !.f = "other"]}

MCGood == [path |-> "/a.png", token |-> TRUE, query |-> MCQuery]
MCAsks ==
    [r \in Requests |->
        IF r = r1
        THEN {[MCGood EXCEPT !.query = query] : query \in MCQueries}
             \cup {[MCGood EXCEPT !.path = path] : path \in Probes}
             \cup {[MCGood EXCEPT !.token = FALSE]}
        ELSE {[MCGood EXCEPT !.path = "/health"]}]
=============================================================================

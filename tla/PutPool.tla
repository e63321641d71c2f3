------------------------------- MODULE PutPool -------------------------------
(* What the pool of background cache writes promises: a bounded number of     *)
(* writes are in progress, a write is refused only when that many are, the    *)
(* cache changes only by a write in progress, and a refused write leaves it   *)
(* alone for ever.                                                            *)
EXTENDS Naturals

CONSTANTS
    Jobs,         \* writes offered to the pool; each is offered once
    Keys,
    KeyOf,        \* the cache key each writes
    Capacity,     \* how many may be in progress
    None          \* "no object"

VARIABLES
    phase,        \* of a write: "new", "active", "ended" or "refused"
    free,         \* how many more may become active
    store         \* the cache: the write each object comes from

poolVars == <<phase, free, store>>

Init == /\ phase = [j \in Jobs |-> "new"]
        /\ free = Capacity
        /\ store = [k \in Keys |-> None]

Move(j, from, to) == phase[j] = from /\ phase' = [phase EXCEPT ![j] = to]

Accept(j) == /\ free > 0
             /\ Move(j, "new", "active")
             /\ free' = free - 1
             /\ UNCHANGED store

Refuse(j) == /\ free = 0
             /\ Move(j, "new", "refused")
             /\ UNCHANGED <<free, store>>

Write(j) == /\ phase[j] = "active"
            /\ store' = [store EXCEPT ![KeyOf[j]] = j]
            /\ UNCHANGED <<phase, free>>

Leave(j) == /\ Move(j, "active", "ended")
            /\ free' = free + 1
            /\ UNCHANGED store

Next == \E j \in Jobs : Accept(j) \/ Refuse(j) \/ Write(j) \/ Leave(j)

Spec == Init /\ [][Next]_poolVars
==============================================================================

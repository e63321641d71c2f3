------------------------------ MODULE Coalescer ------------------------------
(* What coalesce.Coalescer promises its callers, whatever carries it out:     *)
(* calls of Do with one key that overlap share one execution of fn, an        *)
(* execution answers everybody who is waiting for its key when it ends, and   *)
(* nobody receives the result of an execution that was over before he asked.  *)
CONSTANTS
    Callers,      \* calls of Do; a call is made once
    Keys,
    KeyOf,        \* the key each call asks for
    None          \* "no execution"

VARIABLES
    status,       \* of a call of Do: "idle", "waiting" or "returned"
    executing,    \* the executions of fn in progress, named by the call that began each
    answer        \* the execution whose result a call has been given

promise == <<status, executing, answer>>

SameKey(c, d) == KeyOf[c] = KeyOf[d]

Init == /\ status = [c \in Callers |-> "idle"]
        /\ executing = {}
        /\ answer = [c \in Callers |-> None]

\* A call finds its key idle and begins an execution, or finds one to wait for.
Ask(c) ==
    /\ status[c] = "idle"
    /\ status' = [status EXCEPT ![c] = "waiting"]
    /\ executing' = IF \E l \in executing : SameKey(l, c)
                    THEN executing ELSE executing \cup {c}
    /\ UNCHANGED answer

\* An execution ends: every call of its key still unanswered is answered by it.
Complete(l) ==
    /\ l \in executing
    /\ executing' = executing \ {l}
    /\ answer' = [c \in Callers |->
                    IF SameKey(c, l) /\ status[c] # "idle" /\ answer[c] = None
                    THEN l ELSE answer[c]]
    /\ UNCHANGED status

\* A call returns: with its answer, or without one when its context ends first.
Return(c) ==
    /\ status[c] = "waiting"
    /\ status' = [status EXCEPT ![c] = "returned"]
    /\ UNCHANGED <<executing, answer>>

Next == \E c \in Callers : Ask(c) \/ Complete(c) \/ Return(c)

Spec == Init /\ [][Next]_promise
==============================================================================

---------------------------- MODULE SingleFlight ----------------------------
(* coalesce.SingleFlight.Do and the singleflight.Group under it.              *)
(*                                                                            *)
(* Do registers a channel with the group (DoChan) and waits for either the    *)
(* end of its caller's context or the result.  DoChan, under the group's      *)
(* mutex, either adds the channel to the call in progress for the key or      *)
(* makes a call and starts a goroutine for it; when fn ends, the goroutine,   *)
(* under the same mutex, forgets the call and sends its result to every       *)
(* channel registered.  The group is a library outside src/.                  *)
(*                                                                            *)
(* A call in progress is named by the caller that made it: its leader.        *)
CONSTANTS
    Callers,      \* invocations of Do
    Keys,
    KeyOf,        \* the key each invocation asks for
    None          \* "no call"

ASSUME KeysAssumption == KeyOf \in [Callers -> Keys]
ASSUME NoneAssumption == None \notin Callers

VARIABLES
    status,       \* where each invocation of Do is
    cancelled,    \* the invocations whose context has ended
    got,          \* what Do returned: the leader of the result's call, or None (ctx.Err())
    group,        \* group.m: the call in progress for each key
    chans,        \* call.chans: the callers whose channels the call will send to
    fn,           \* the goroutine of each call
    mail          \* the one-slot channel of each caller: the call that sent into it

flightVars == <<status, cancelled, got, group, chans, fn, mail>>

TypeOK ==
    /\ status \in [Callers -> {"idle", "waiting", "returned"}]
    /\ cancelled \in SUBSET Callers
    /\ got \in [Callers -> Callers \cup {None}]
    /\ group \in [Keys -> Callers \cup {None}]
    /\ chans \in [Callers -> SUBSET Callers]
    /\ fn \in [Callers -> {"none", "running", "over"}]
    /\ mail \in [Callers -> Callers \cup {None}]

Init ==
    /\ status = [c \in Callers |-> "idle"]
    /\ cancelled = {}
    /\ got = [c \in Callers |-> None]
    /\ group = [k \in Keys |-> None]
    /\ chans = [c \in Callers |-> {}]
    /\ fn = [c \in Callers |-> "none"]
    /\ mail = [c \in Callers |-> None]

(* Faulty variants: a property worth its run fails when one replaces its       *)
(* original.                                                                  *)
LeadUnchecked(c) ==                   \* does not look for a call in progress
    /\ status[c] = "idle"
    /\ status' = [status EXCEPT ![c] = "waiting"]
    /\ group' = [group EXCEPT ![KeyOf[c]] = c]
    /\ chans' = [chans EXCEPT ![c] = {c}]
    /\ fn' = [fn EXCEPT ![c] = "running"]
    /\ UNCHANGED <<cancelled, got, mail>>

JoinUnregistered(c) ==                \* does not add the channel to the call
    /\ status[c] = "idle" /\ group[KeyOf[c]] # None
    /\ status' = [status EXCEPT ![c] = "waiting"]
    /\ UNCHANGED <<cancelled, got, group, chans, fn, mail>>

JoinAgain(c) ==                       \* lets a waiting caller register again
    LET l == group[KeyOf[c]] IN
    /\ status[c] # "returned" /\ l # None
    /\ status' = [status EXCEPT ![c] = "waiting"]
    /\ chans' = [chans EXCEPT ![l] = @ \cup {c}]
    /\ UNCHANGED <<cancelled, got, group, fn, mail>>

FinishKeepingCall(l) ==               \* does not forget the call
    /\ fn[l] = "running"
    /\ fn' = [fn EXCEPT ![l] = "over"]
    /\ mail' = [c \in Callers |-> IF c \in chans[l] THEN l ELSE mail[c]]
    /\ UNCHANGED <<status, cancelled, got, group, chans>>

FinishForLeader(l) ==                 \* sends to the leader's channel only
    /\ fn[l] = "running"
    /\ fn' = [fn EXCEPT ![l] = "over"]
    /\ group' = [group EXCEPT ![KeyOf[l]] = None]
    /\ mail' = [mail EXCEPT ![l] = l]
    /\ UNCHANGED <<status, cancelled, got, chans>>

(* DoChan, no call in progress for the key: make one and start its goroutine. *)
Lead(c) ==
    /\ status[c] = "idle"
    /\ group[KeyOf[c]] = None
    /\ status' = [status EXCEPT ![c] = "waiting"]
    /\ group' = [group EXCEPT ![KeyOf[c]] = c]
    /\ chans' = [chans EXCEPT ![c] = {c}]
    /\ fn' = [fn EXCEPT ![c] = "running"]
    /\ UNCHANGED <<cancelled, got, mail>>

(* DoChan, a call in progress for the key: wait for its result. *)
Join(c) ==
    LET l == group[KeyOf[c]] IN
    /\ status[c] = "idle"
    /\ l # None
    /\ status' = [status EXCEPT ![c] = "waiting"]
    /\ chans' = [chans EXCEPT ![l] = @ \cup {c}]
    /\ UNCHANGED <<cancelled, got, group, fn, mail>>

(* The last steps of the goroutine of l's call, under the mutex: forget the   *)
(* call and send its result to every channel registered.                      *)
Finish(l) ==
    /\ fn[l] = "running"
    /\ fn' = [fn EXCEPT ![l] = "over"]
    /\ group' = [group EXCEPT ![KeyOf[l]] = None]
    /\ mail' = [c \in Callers |-> IF c \in chans[l] THEN l ELSE mail[c]]
    /\ UNCHANGED <<status, cancelled, got, chans>>

(* The select in Do.  When both cases are ready, Go chooses either. *)
ReturnResult(c) ==
    /\ status[c] = "waiting"
    /\ mail[c] # None
    /\ status' = [status EXCEPT ![c] = "returned"]
    /\ got' = [got EXCEPT ![c] = mail[c]]
    /\ UNCHANGED <<cancelled, group, chans, fn, mail>>

ReturnCancelled(c) ==
    /\ status[c] = "waiting"
    /\ c \in cancelled
    /\ status' = [status EXCEPT ![c] = "returned"]
    /\ UNCHANGED <<cancelled, got, group, chans, fn, mail>>

(* The caller's context ends: its client goes away.  Environment. *)
Cancel(c) ==
    /\ c \notin cancelled
    /\ status[c] # "returned"
    /\ cancelled' = cancelled \cup {c}
    /\ UNCHANGED <<status, got, group, chans, fn, mail>>

Step(c) == \/ Lead(c) \/ Join(c) \/ Finish(c)
           \/ ReturnResult(c) \/ ReturnCancelled(c) \/ Cancel(c)

(* Every invocation has returned and no goroutine is left. *)
Quiescent ==
    /\ \A c \in Callers : status[c] = "returned" /\ fn[c] # "running"
    /\ UNCHANGED flightVars

Next == (\E c \in Callers : Step(c)) \/ Quiescent

Spec == Init /\ [][Next]_flightVars

(* fn ends (its calls have timeouts), and the runtime runs a ready goroutine. *)
Fairness == \A c \in Callers :
                /\ WF_flightVars(Finish(c))
                /\ WF_flightVars(ReturnResult(c) \/ ReturnCancelled(c))

FairSpec == Spec /\ Fairness

-----------------------------------------------------------------------------
Running(l) == fn[l] = "running"

(* The point of the component: two executions of fn never run for one key at  *)
(* the same time, and the group's map names exactly the one that runs.        *)
OneFlightPerKey ==
    /\ \A l \in Callers : Running(l) <=> group[KeyOf[l]] = l
    /\ \A l, m \in Callers : Running(l) /\ Running(m) /\ KeyOf[l] = KeyOf[m] => l = m

(* "All waiters sharing the same in-flight request will receive the result    *)
(* once it completes" (coalesce.go:29): an invocation that waits has its      *)
(* result, or is registered with a call that still runs for its own key.      *)
NoLostWaiter ==
    \A c \in Callers : status[c] = "waiting" =>
        \/ mail[c] # None
        \/ \E l \in Callers : Running(l) /\ c \in chans[l] /\ KeyOf[l] = KeyOf[c]

(* A channel of the group has one slot and gets one result: the send under    *)
(* the mutex can never block, so no goroutine can hold the mutex for ever.    *)
SendNeverBlocks ==
    \A l, c \in Callers : Running(l) /\ c \in chans[l] => mail[c] = None

(* The detailed specification keeps the promise of the abstract one. *)
Promise == INSTANCE Coalescer WITH
    executing <- {l \in Callers : Running(l)}, answer <- mail

KeepsPromise == Promise!Spec

(* Do returns: a waiting invocation does not wait for ever, cancelled or not. *)
EveryDoReturns == \A c \in Callers : status[c] = "waiting" ~> status[c] = "returned"
=============================================================================

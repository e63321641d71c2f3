------------------------- MODULE SingleFlight_proofs -------------------------
(* Proofs about SingleFlight for any callers, keys and assignment of keys.    *)
EXTENDS SingleFlight, TLAPS

USE KeysAssumption, NoneAssumption

(* The inductive invariant.  Besides the types it says                        *)
(*   - the group's map and the running goroutines name each other;            *)
(*   - an invocation that has not started is registered nowhere and has       *)
(*     nothing in its channel;                                                *)
(*   - the channels registered with a running call are empty, and belong to   *)
(*     invocations of its key;                                                *)
(*   - an invocation that has started is either answered or registered with   *)
(*     the call its key's map entry names, even if it has already returned.   *)
GroupNamesRunning ==
    \A k \in Keys : group[k] # None => KeyOf[group[k]] = k /\ Running(group[k])

RunningIsInGroup == \A l \in Callers : Running(l) => group[KeyOf[l]] = l

IdleIsFresh ==
    \A c \in Callers : status[c] = "idle" => fn[c] = "none" /\ mail[c] = None

RegisteredIsOwnAndEmpty ==
    \A l, c \in Callers : Running(l) /\ c \in chans[l] =>
        KeyOf[c] = KeyOf[l] /\ status[c] # "idle" /\ mail[c] = None

AnsweredOrRegistered ==
    \A c \in Callers : status[c] # "idle" /\ mail[c] = None =>
        group[KeyOf[c]] # None /\ c \in chans[group[KeyOf[c]]]

IInv == /\ TypeOK
        /\ GroupNamesRunning
        /\ RunningIsInGroup
        /\ IdleIsFresh
        /\ RegisteredIsOwnAndEmpty
        /\ AnsweredOrRegistered

(* The invariant holds initially. *)
LEMMA InitIInv == Init => IInv
  BY DEF Init, IInv, TypeOK, GroupNamesRunning, RunningIsInGroup, IdleIsFresh,
         RegisteredIsOwnAndEmpty, AnsweredOrRegistered, Running

(* Every step preserves the types. *)
LEMMA NextTypeOK == TypeOK /\ [Next]_flightVars => TypeOK'
<1> SUFFICES ASSUME TypeOK, [Next]_flightVars PROVE TypeOK'
  OBVIOUS
<1> USE DEF TypeOK
<1>1. CASE UNCHANGED flightVars
  BY <1>1 DEF flightVars
<1>2. ASSUME NEW c \in Callers, Step(c) PROVE TypeOK'
  <2>1. CASE Lead(c)             BY <2>1 DEF Lead
  <2>2. CASE Join(c)             BY <2>2 DEF Join
  <2>3. CASE Finish(c)           BY <2>3 DEF Finish
  <2>4. CASE ReturnResult(c)     BY <2>4 DEF ReturnResult
  <2>5. CASE ReturnCancelled(c)  BY <2>5 DEF ReturnCancelled
  <2>6. CASE Cancel(c)           BY <2>6 DEF Cancel
  <2>7. QED BY <1>2, <2>1, <2>2, <2>3, <2>4, <2>5, <2>6 DEF Step
<1>3. QED BY <1>1, <1>2 DEF Next, Quiescent

(* Every step preserves the inductive invariant. *)
LEMMA NextIInv == IInv /\ [Next]_flightVars => IInv'
<1> SUFFICES ASSUME IInv, [Next]_flightVars PROVE IInv'
  OBVIOUS
<1>0. TypeOK /\ TypeOK'
  BY NextTypeOK DEF IInv
<1> USE DEF Running
<1> DEFINE Rest == /\ GroupNamesRunning
                   /\ RunningIsInGroup
                   /\ IdleIsFresh
                   /\ RegisteredIsOwnAndEmpty
                   /\ AnsweredOrRegistered
<1>1. Rest
  BY DEF IInv
<1> USE DEF TypeOK, GroupNamesRunning, RunningIsInGroup, IdleIsFresh,
            RegisteredIsOwnAndEmpty, AnsweredOrRegistered
<1>2. CASE UNCHANGED flightVars
  BY <1>0, <1>1, <1>2 DEF flightVars, IInv
<1>3. ASSUME NEW c \in Callers, Step(c) PROVE Rest'
  <2>1. CASE Lead(c)
    <3>1. GroupNamesRunning' /\ RunningIsInGroup'   BY <1>0, <1>1, <2>1 DEF Lead
    <3>2. IdleIsFresh'                              BY <1>0, <1>1, <2>1 DEF Lead
    <3>3. RegisteredIsOwnAndEmpty'                  BY <1>0, <1>1, <2>1 DEF Lead
    <3>4. AnsweredOrRegistered'                     BY <1>0, <1>1, <2>1 DEF Lead
    <3>5. QED BY <3>1, <3>2, <3>3, <3>4
  <2>2. CASE Join(c)
    <3>1. GroupNamesRunning' /\ RunningIsInGroup'   BY <1>0, <1>1, <2>2 DEF Join
    <3>2. IdleIsFresh'                              BY <1>0, <1>1, <2>2 DEF Join
    <3>3. RegisteredIsOwnAndEmpty'                  BY <1>0, <1>1, <2>2 DEF Join
    <3>4. AnsweredOrRegistered'                     BY <1>0, <1>1, <2>2 DEF Join
    <3>5. QED BY <3>1, <3>2, <3>3, <3>4
  <2>3. CASE Finish(c)
    <3>1. GroupNamesRunning' /\ RunningIsInGroup'   BY <1>0, <1>1, <2>3 DEF Finish
    <3>2. IdleIsFresh'                              BY <1>0, <1>1, <2>3 DEF Finish
    <3>3. RegisteredIsOwnAndEmpty'                  BY <1>0, <1>1, <2>3 DEF Finish
    <3>4. AnsweredOrRegistered'                     BY <1>0, <1>1, <2>3 DEF Finish
    <3>5. QED BY <3>1, <3>2, <3>3, <3>4
  <2>4. CASE ReturnResult(c)     BY <1>0, <1>1, <2>4 DEF ReturnResult
  <2>5. CASE ReturnCancelled(c)  BY <1>0, <1>1, <2>5 DEF ReturnCancelled
  <2>6. CASE Cancel(c)           BY <1>0, <1>1, <2>6 DEF Cancel
  <2>7. QED BY <1>3, <2>1, <2>2, <2>3, <2>4, <2>5, <2>6 DEF Step
<1>4. QED BY <1>0, <1>2, <1>3 DEF Next, Quiescent, IInv

THEOREM Invariance == Spec => []IInv
<1>1. QED BY InitIInv, NextIInv, PTL DEF Spec

(* Types are preserved by every behaviour of the component. *)
THEOREM TypeCorrect == Spec => []TypeOK
<1>1. IInv => TypeOK  BY DEF IInv
<1>2. QED BY <1>1, Invariance, PTL

(* Two executions of fn never run for one key at the same time.               *)
THEOREM AtMostOneFlight == Spec => []OneFlightPerKey
<1>1. IInv => OneFlightPerKey
  BY DEF IInv, TypeOK, OneFlightPerKey, GroupNamesRunning, RunningIsInGroup, Running
<1>2. QED BY <1>1, Invariance, PTL

(* An invocation that waits is answered or registered with a call that still  *)
(* runs for its key.                                                          *)
THEOREM WaitersAreKept == Spec => []NoLostWaiter
<1>1. IInv => NoLostWaiter
  <2> SUFFICES ASSUME IInv, NEW c \in Callers, status[c] = "waiting", mail[c] = None
               PROVE  \E l \in Callers : Running(l) /\ c \in chans[l] /\ KeyOf[l] = KeyOf[c]
    BY DEF NoLostWaiter
  <2>1. group[KeyOf[c]] \in Callers /\ c \in chans[group[KeyOf[c]]]
    BY DEF IInv, TypeOK, AnsweredOrRegistered
  <2>2. QED BY <2>1 DEF IInv, TypeOK, GroupNamesRunning
<1>2. QED BY <1>1, Invariance, PTL

(* The send into a registered channel finds it empty. *)
THEOREM SendsDoNotBlock == Spec => []SendNeverBlocks
<1>1. IInv => SendNeverBlocks
  BY DEF IInv, SendNeverBlocks, RegisteredIsOwnAndEmpty
<1>2. QED BY <1>1, Invariance, PTL

(* SingleFlight implements Coalescer: leading and joining are Ask, the end of *)
(* a goroutine is Complete, which answers exactly the callers that are        *)
(* waiting, or have given up, with no answer; the two returns are Return.     *)
THEOREM Refinement == Spec => KeepsPromise
<1> USE DEF IInv, TypeOK, Running
<1>1. Init => Promise!Init
  BY DEF Init, Promise!Init
<1>2. IInv /\ [Next]_flightVars => [Promise!Next]_Promise!promise
  <2> SUFFICES ASSUME IInv, [Next]_flightVars
               PROVE  [Promise!Next]_Promise!promise
    OBVIOUS
  <2>1. CASE UNCHANGED flightVars
    BY <2>1 DEF flightVars, Promise!promise
  <2>2. ASSUME NEW c \in Callers, Step(c) PROVE [Promise!Next]_Promise!promise
    <3>1. CASE Lead(c)
      <4>1. Promise!Ask(c)
        BY <3>1 DEF Lead, Promise!Ask, Promise!SameKey, RunningIsInGroup
      <4>2. QED BY <4>1 DEF Promise!Next
    <3>2. CASE Join(c)
      <4>1. Promise!Ask(c)
        BY <3>2 DEF Join, Promise!Ask, Promise!SameKey, GroupNamesRunning
      <4>2. QED BY <4>1 DEF Promise!Next
    <3>3. CASE Finish(c)
      <4>1. \A d \in Callers :
               d \in chans[c] <=> KeyOf[d] = KeyOf[c] /\ status[d] # "idle" /\ mail[d] = None
        BY <3>3 DEF Finish, RunningIsInGroup, RegisteredIsOwnAndEmpty, AnsweredOrRegistered
      <4>2. Promise!Complete(c)
        BY <3>3, <4>1 DEF Finish, Promise!Complete, Promise!SameKey
      <4>3. QED BY <4>2 DEF Promise!Next
    <3>4. CASE ReturnResult(c)
      <4>1. Promise!Return(c)  BY <3>4 DEF ReturnResult, Promise!Return
      <4>2. QED BY <4>1 DEF Promise!Next
    <3>5. CASE ReturnCancelled(c)
      <4>1. Promise!Return(c)  BY <3>5 DEF ReturnCancelled, Promise!Return
      <4>2. QED BY <4>1 DEF Promise!Next
    <3>6. CASE Cancel(c)
      BY <3>6 DEF Cancel, Promise!promise
    <3>7. QED BY <2>2, <3>1, <3>2, <3>3, <3>4, <3>5, <3>6 DEF Step
  <2>3. QED BY <2>1, <2>2 DEF Next, Quiescent
<1>3. QED BY <1>1, <1>2, Invariance, PTL DEF Spec, KeepsPromise, Promise!Spec
=============================================================================

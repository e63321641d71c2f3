------------------------------ MODULE Shutdown ------------------------------
(* main's end: on SIGTERM it stops the server with srv.Shutdown, drains the   *)
(* background puts with WaitContext, both under one deadline, and returns,    *)
(* and with it ends every goroutine there is.  Shutdown waits for requests    *)
(* and WaitContext for puts; a flight whose requests are all gone is neither. *)
EXTENDS Handler

VARIABLES
    main,         \* where main is
    arrived,      \* the requests the server has accepted
    expired,      \* shutdownCtx is done
    shut          \* what srv.Shutdown returned: nil ("clean") or an error

mainVars == <<main, arrived, expired, shut>>
allVars == <<vars, mainVars>>

ShutdownTypeOK ==
    /\ TypeOK
    /\ main \in {"serving", "shutdown", "wait", "drain", "closing", "exited"}
    /\ arrived \in SUBSET Requests
    /\ expired \in BOOLEAN
    /\ shut \in {"none", "clean", "timeout"}

ShutdownInit ==
    /\ Init
    /\ main = "serving" /\ arrived = {} /\ expired = FALSE /\ shut = "none"

MainGoes(from, to) == main = from /\ main' = to

(* Faulty variants: a property worth its run fails when one replaces its       *)
(* original.                                                                  *)
ShutdownImpatient ==                  \* closes the server without waiting
    /\ MainGoes("shutdown", "wait")
    /\ shut' = "clean"
    /\ UNCHANGED <<vars, arrived, expired>>

DrainWithoutDeadline ==               \* Wait in the place of WaitContext
    /\ MainGoes("drain", "closing")
    /\ AP!ReturnDrained
    /\ UNCHANGED <<serveVars, processVars, flightVars, arrived, expired, shut>>

Arrive(r) ==
    /\ main = "serving"
    /\ r \notin arrived /\ arrived' = arrived \cup {r}
    /\ UNCHANGED <<vars, main, expired, shut>>

(* Requests, flights and puts go on whatever main does. *)
Work(r) ==
    /\ r \in arrived
    /\ Serve(r) \/ Disconnect(r) \/ Process(r) \/ Background(r)
    /\ UNCHANGED mainVars

(* ListenAndServe fails: os.Exit(1). *)
ListenFails ==
    /\ MainGoes("serving", "exited")
    /\ UNCHANGED <<vars, arrived, expired, shut>>

Signal ==
    /\ MainGoes("serving", "shutdown")
    /\ UNCHANGED <<vars, arrived, expired, shut>>

DeadlinePasses ==
    /\ main \notin {"serving", "exited"}
    /\ ~expired /\ expired' = TRUE
    /\ UNCHANGED <<vars, main, arrived, shut>>

(* srv.Shutdown has closed the listener; it returns nil when no connection is *)
(* active.  A connection is active until its handler returns, even if its     *)
(* client is gone.                                                            *)
ShutdownReturns ==
    /\ MainGoes("shutdown", "wait")
    /\ \A r \in arrived : reply[r] # None
    /\ shut' = "clean"
    /\ UNCHANGED <<vars, arrived, expired>>

ShutdownExpires ==
    /\ expired
    /\ MainGoes("shutdown", "wait")
    /\ shut' = "timeout"
    /\ UNCHANGED <<vars, arrived, expired>>

BeginDrain ==
    /\ MainGoes("wait", "drain")
    /\ AP!BeginWait
    /\ UNCHANGED <<serveVars, processVars, flightVars, arrived, expired, shut>>

DrainWakes ==
    /\ AP!WakeUp
    /\ UNCHANGED <<serveVars, processVars, flightVars, mainVars>>

DrainSucceeds ==                      \* "async cache drained"
    /\ MainGoes("drain", "closing")
    /\ AP!ReturnDrained
    /\ UNCHANGED <<serveVars, processVars, flightVars, arrived, expired, shut>>

DrainExpires ==                       \* "interrupted by shutdown timeout"
    /\ expired
    /\ MainGoes("drain", "closing")
    /\ AP!ReturnExpired
    /\ UNCHANGED <<serveVars, processVars, flightVars, arrived, expired, shut>>

(* The deferred calls (tracing is flushed), and the end of the process. *)
Exit ==
    /\ MainGoes("closing", "exited")
    /\ UNCHANGED <<vars, arrived, expired, shut>>

Main == \/ ListenFails \/ Signal
        \/ ShutdownReturns \/ ShutdownExpires
        \/ BeginDrain \/ DrainWakes \/ DrainSucceeds \/ DrainExpires \/ Exit

Dead == main = "exited" \/ ~AP!Alive

ShutdownNext ==
    \/ ~Dead /\ (Main \/ DeadlinePasses \/ \E r \in Requests : Arrive(r) \/ Work(r))
    \/ Dead /\ UNCHANGED allVars

ShutdownSpec == ShutdownInit /\ [][ShutdownNext]_allVars

(* The runtime runs main, and time passes.  Nothing is assumed of requests,   *)
(* flights and puts: each may hang for ever.                                  *)
ShutdownFairSpec ==
    /\ ShutdownSpec
    /\ WF_allVars(~Dead /\ main # "serving" /\ Main)
    /\ WF_allVars(~Dead /\ DeadlinePasses)

-----------------------------------------------------------------------------
(* Its temporary file is there until a put has ended and been cleaned up. *)
Unfinished(l) == l \in files

(* Once signalled, the process ends, however long a request, a flight or a    *)
(* put hangs.                                                                 *)
ProcessEnds == main = "shutdown" ~> Dead

(* When main has run to its end, whatever it cuts off it has reported: an     *)
(* unanswered request by the error of Shutdown, and a put by that error or    *)
(* the warning of the drain, unless the client it was made for had gone.      *)
LossIsReported ==
    main = "exited" /\ shut # "none" =>
        /\ (\E r \in arrived : reply[r] = None) => shut = "timeout"
        /\ (\E l \in Requests : Unfinished(l) /\ ~Gone(l)) =>
               shut = "timeout" \/ drain = "expired"

(* WaitGroup forbids an Add while Wait returns, and panics.  Nobody but a put *)
(* that comes from behind the server's back adds one then: Shutdown has given *)
(* up waiting for requests, or the put's client had gone.                     *)
PanicHasACause ==
    drain = "panicked" =>
        shut = "timeout" \/ \E l \in Requests : Gone(l) /\ job[l] \in AP!Launched

-----------------------------------------------------------------------------
(* What the documentation says and the code does not do; see the README. *)

(* async.go:24: to drain in-flight puts during graceful shutdown.  When       *)
(* Shutdown and WaitContext have both returned nil and main has gone on to    *)
(* its end, no put is in flight.                                              *)
DrainedMeansDrained ==
    main = "exited" /\ shut = "clean" /\ drain = "drained" => AP!In(AP!Launched) = {}

(* async.go:118: WaitContext blocks until the puts complete or its context    *)
(* is cancelled.  There is no third outcome.                                  *)
DrainHasTwoOutcomes == drain # "panicked"
=============================================================================

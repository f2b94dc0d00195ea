------------------------------- MODULE Control ------------------------------
(***************************************************************************)
(* The shutdown thread (surv_shutdown) and the control thread              *)
(* (surv_handleAccess, surv_handleRequest) of the watchdog.  The shutdown  *)
(* thread waits for SIGTERM or SIGINT, raises shutting_down and closes the *)
(* write end of the kill pipe, which makes the read end readable for       *)
(* everyone who selects on it.  The control thread serves clients; a       *)
(* shutdown or restart request signals the shutdown thread.                *)
(*                                                                         *)
(* This is what the rest of the daemon sees of the two threads: a request  *)
(* may come at any time, and connections, answers and clients that leave   *)
(* are left to Access, whose steps are these and more.  Requests that only *)
(* ask for the status or change the filter leave this state alone: "other" *)
(* stands for them, and in Access "long" for one with a long answer.       *)
(***************************************************************************)
EXTENDS Naturals

CONSTANTS
    Clients,        \* the requests that clients send: "shutdown", "restart" and
                    \* others
    Faults          \* holds "ctrl" if the socket calls of the thread may fail

VARIABLES
    spc,            \* where the shutdown thread is
    signalled,      \* a SIGTERM or SIGINT is pending for it
    cpc,            \* where the control thread is
    serving,        \* the request being served, or "none"
    promised,       \* a client was told "restarting now..."
    restart,        \* surv.restart
    shutting_down,  \* surv.shutting_down
    killpipe        \* "open", "eof" or "closed": see Parser

\* `down' holds "ctrl" if the thread has already ended on a failure.
ControlInit(down) ==
    /\ spc = "sigwait"
    /\ signalled = FALSE
    /\ cpc = IF "ctrl" \in down THEN "done" ELSE "start"
    /\ serving = "none"
    /\ promised = FALSE
    /\ restart = FALSE

-----------------------------------------------------------------------------
(* The shutdown thread *)

ShutdownSigwait ==
    /\ spc = "sigwait"
    /\ signalled
    /\ signalled' = FALSE
    /\ spc' = "flag"
    /\ UNCHANGED <<cpc, serving, promised, restart, shutting_down, killpipe>>

ShutdownFlag ==
    /\ spc = "flag"
    /\ shutting_down' = TRUE
    /\ spc' = "close"
    /\ UNCHANGED <<signalled, cpc, serving, promised, restart, killpipe>>

\* Mutant of ShutdownClose: the pipe stays open.
ShutdownNoClose ==
    /\ spc = "close"
    /\ spc' = "done"
    /\ UNCHANGED <<signalled, cpc, serving, promised, restart, shutting_down, killpipe>>

ShutdownClose ==
    /\ spc = "close"
    /\ killpipe' = "eof"
    /\ spc' = "done"
    /\ UNCHANGED <<signalled, cpc, serving, promised, restart, shutting_down>>

ShutdownStep == ShutdownSigwait \/ ShutdownFlag \/ ShutdownClose

-----------------------------------------------------------------------------
(* The control thread *)

\* socket, bind and listen; on failure the thread ends.
ControlStart ==
    /\ cpc = "start"
    /\ \/ cpc' = "loop"
       \/ cpc' = "done" /\ "ctrl" \in Faults
    /\ UNCHANGED <<spc, signalled, serving, promised, restart, shutting_down, killpipe>>

\* while(!surv->shutting_down)
ControlLoop ==
    /\ cpc = "loop"
    /\ cpc' = IF shutting_down THEN "done" ELSE "select"
    /\ UNCHANGED <<spc, signalled, serving, promised, restart, shutting_down, killpipe>>

\* A connection is accepted; no other descriptor is looked at in this turn.
ControlAccept ==
    /\ cpc = "select"
    /\ cpc' = "loop"
    /\ UNCHANGED <<spc, signalled, serving, promised, restart, shutting_down, killpipe>>

\* A client's request is read, the first after a select or a later one of the
\* sweep over the readable descriptors.
ControlRead(r) ==
    /\ cpc \in {"select", "sweep"}
    /\ serving' = r
    /\ cpc' = "serve"
    /\ UNCHANGED <<spc, signalled, promised, restart, shutting_down, killpipe>>

\* The end of the kill pipe reads as 0 bytes, like a client that is gone: the
\* thread closes the descriptor and forgets it.  The pipe is older than all
\* connections, and the sweep comes to it first.
ControlKillpipe ==
    /\ cpc = "select"
    /\ killpipe = "eof"
    /\ killpipe' = "closed"
    /\ cpc' = "sweep"
    /\ UNCHANGED <<spc, signalled, serving, promised, restart, shutting_down>>

ControlSweepEnd ==
    /\ cpc = "sweep"
    /\ cpc' = "loop"
    /\ UNCHANGED <<spc, signalled, serving, promised, restart, shutting_down, killpipe>>

\* surv_handleRequest, up to the test of shutting_down
ControlTest ==
    /\ cpc = "serve"
    /\ IF serving \in {"shutdown", "restart"} /\ ~shutting_down
       THEN cpc' = "act" /\ UNCHANGED serving
       ELSE cpc' = "sweep" /\ serving' = "none"
    /\ UNCHANGED <<spc, signalled, promised, restart, shutting_down, killpipe>>

\* Mutant of ControlAct: restart signals the shutdown and nothing else.
ControlActForgetful ==
    /\ cpc = "act"
    /\ promised' = (promised \/ serving = "restart")
    /\ signalled' = (spc = "sigwait")
    /\ serving' = "none"
    /\ cpc' = "sweep"
    /\ UNCHANGED <<spc, restart, shutting_down, killpipe>>

\* surv_handleRequest after the test: the restart flag, then the signal.  A
\* signal to a thread past its sigwait is never taken.
ControlAct ==
    /\ cpc = "act"
    /\ restart' = (restart \/ serving = "restart")
    /\ promised' = (promised \/ serving = "restart")
    /\ signalled' = (spc = "sigwait")
    /\ serving' = "none"
    /\ cpc' = "sweep"
    /\ UNCHANGED <<spc, shutting_down, killpipe>>

\* What the thread does by itself, and what it needs a client for
ControlStep ==
    \/ ControlStart
    \/ ControlLoop
    \/ ControlKillpipe
    \/ ControlSweepEnd
    \/ ControlTest
    \/ ControlAct

ControlClient(r) == ControlAccept \/ ControlRead(r)

-----------------------------------------------------------------------------
(* Whoever sends a signal to the process *)

Kill ==
    /\ spc = "sigwait"
    /\ ~signalled
    /\ signalled' = TRUE
    /\ UNCHANGED <<spc, cpc, serving, promised, restart, shutting_down, killpipe>>
=============================================================================

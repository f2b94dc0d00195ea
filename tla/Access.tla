------------------------------- MODULE Access -------------------------------
(***************************************************************************)
(* The control thread with its connections: surv_handleAccess, and at the  *)
(* other end main of watchdog_ctrl.  The steps are those of Control, each  *)
(* with what it does to a connection.                                      *)
(*                                                                         *)
(* A client connects, sends a request, reads the answer and leaves; it may *)
(* be killed at any time.  (One with two requests looks like two clients.) *)
(* It reads once, into 200 bytes.  Answers have up to 256, and the answer  *)
(* to an add_filter with a path of 177 characters or more does not fit.    *)
(* The thread accepts one connection per turn or sweeps over the readable  *)
(* ones.  A client that leaves with bytes of its answer unread resets its  *)
(* connection: read returns -1, which is taken for a request, the one that *)
(* is still in `buf'.  A write to a client that has left raises SIGPIPE,   *)
(* which nobody blocks or ignores.                                         *)
(*                                                                         *)
(* The other threads end when the shutdown thread has ended: the tracers   *)
(* are gone.                                                               *)
(***************************************************************************)
EXTENDS FiniteSets

CONSTANTS
    Callers,        \* the clients; each connects once
    Requests,       \* what they ask: "shutdown", "restart", "long" (an add_filter
                    \* whose answer does not fit the client's buffer), "other"
    Faults          \* holds "ctrl" if the thread may fail to listen

ASSUME NoneAssumption == "none" \notin Callers \cup Requests

VARIABLES
    spc, signalled, cpc, serving, promised, restart, shutting_down, killpipe,
                    \* see Control
    peer,           \* peer[c]: where the client is; it has "left" if it did not
                    \* get its answer and is "gone" if it did (or did not ask)
    conn,           \* conn[c]: the daemon's end of the connection
    inbox,          \* inbox[c]: the request that is sent and not read
    unread,         \* the clients with bytes of their answer written and not read
    long,           \* history: those whose answer was longer than their buffer
    rd,             \* rd_sockets, as far as the sweep has not come
    at,             \* the connection that is being served
    buf,            \* the last request read
    over            \* "no", or how the daemon has ended

INSTANCE Control WITH Clients <- Requests

controlVars == <<spc, signalled, cpc, serving, promised, restart, shutting_down, killpipe>>
connVars == <<peer, conn, inbox, unread, long, rd, at, buf, over>>
vars == <<controlVars, connVars>>

Init ==
    /\ ControlInit({})
    /\ shutting_down = FALSE
    /\ killpipe = "open"
    /\ peer = [c \in Callers |-> "out"]
    /\ conn = [c \in Callers |-> "none"]
    /\ inbox = [c \in Callers |-> "none"]
    /\ unread = {}
    /\ long = {}
    /\ rd = {}
    /\ at = "none"
    /\ buf = "none"
    /\ over = "no"

-----------------------------------------------------------------------------
(* Clients: main of watchdog_ctrl *)

Listening == over = "no" /\ cpc \notin {"start", "done"}

\* Mutant of HungUp: the listening socket is not closed when the thread ends.
HungUpAtExit(c) == conn[c] = "closed" \/ over \in {"exited", "killed"}

\* The daemon's end of the connection is closed.  An accepted connection is
\* handed down by execvp: nobody reads it any more, and it stays open.
HungUp(c) ==
    \/ conn[c] = "closed"
    \/ conn[c] = "backlog" /\ ~Listening
    \/ over \in {"exited", "killed"}

Connect(c) ==
    /\ peer[c] = "out"
    /\ Listening
    /\ peer' = [peer EXCEPT ![c] = "connected"]
    /\ conn' = [conn EXCEPT ![c] = "backlog"]
    /\ UNCHANGED <<controlVars, inbox, unread, long, rd, at, buf, over>>

Send(c, r) ==
    /\ peer[c] = "connected"
    /\ ~HungUp(c)
    /\ peer' = [peer EXCEPT ![c] = "waiting"]
    /\ inbox' = [inbox EXCEPT ![c] = r]
    /\ UNCHANGED <<controlVars, conn, unread, long, rd, at, buf, over>>

\* The answer is read, as far as it fits, and the connection closed, ...
ReadAnswer(c) ==
    /\ peer[c] = "waiting"
    /\ c \in unread
    /\ peer' = [peer EXCEPT ![c] = "gone"]
    /\ unread' = unread \ ({c} \ long)
    /\ UNCHANGED <<controlVars, conn, inbox, long, rd, at, buf, over>>

\* ... or the daemon has closed it, ...
ReadEnd(c) ==
    /\ peer[c] = "waiting"
    /\ c \notin unread
    /\ HungUp(c)
    /\ peer' = [peer EXCEPT ![c] = "gone"]
    /\ UNCHANGED <<controlVars, conn, inbox, unread, long, rd, at, buf, over>>

\* ... or the client is killed.
Leave(c) ==
    /\ peer[c] \in {"connected", "waiting"}
    /\ peer' = [peer EXCEPT ![c] = IF peer[c] = "waiting" THEN "left" ELSE "gone"]
    /\ UNCHANGED <<controlVars, conn, inbox, unread, long, rd, at, buf, over>>

ClientReads(c) == ReadAnswer(c) \/ ReadEnd(c)

-----------------------------------------------------------------------------
(* The control thread: surv_handleAccess *)

Departed(c) == peer[c] \in {"gone", "left"}

Readable(c) == conn[c] = "accepted" /\ (inbox[c] # "none" \/ Departed(c))

\* The listening socket is readable: one connection, and back to the select.
Accept(c) ==
    /\ conn[c] = "backlog"
    /\ ControlAccept
    /\ conn' = [conn EXCEPT ![c] = "accepted"]
    /\ UNCHANGED <<peer, inbox, unread, long, rd, at, buf, over>>

\* select has returned, with nothing to accept.
Select ==
    /\ \A c \in Callers : conn[c] # "backlog"
    /\ rd' = {c \in Callers : Readable(c)}
    /\ \/ ControlKillpipe
       \/ /\ cpc = "select"
          /\ killpipe # "eof"
          /\ rd' # {}
          /\ cpc' = "sweep"
          /\ UNCHANGED <<spc, signalled, serving, promised, restart, shutting_down, killpipe>>
    /\ UNCHANGED <<peer, conn, inbox, unread, long, at, buf, over>>

\* read(i, buf, sizeof(buf)): a request, or -1 on a connection that was reset,
\* and then buf is as it was (but for the arguments: strtok has cut them off)
Read(c) ==
    /\ cpc = "sweep"
    /\ c \in rd
    /\ inbox[c] # "none" \/ c \in unread
    /\ LET request == IF inbox[c] # "none" THEN inbox[c] ELSE buf
       IN  ControlRead(request) /\ buf' = request
    /\ inbox' = [inbox EXCEPT ![c] = "none"]
    /\ unread' = unread \ {c}
    /\ at' = c
    /\ UNCHANGED <<peer, conn, long, rd, over>>

\* Mutant of Gone: the end of a connection is taken for a request.
GoneUnseen(c) ==
    /\ c \in rd
    /\ inbox[c] = "none" /\ c \notin unread
    /\ cpc = "sweep"
    /\ ControlRead(buf)
    /\ at' = c
    /\ UNCHANGED <<peer, conn, inbox, unread, long, rd, buf, over>>

\* Mutant of Gone: the descriptor is not closed.
GoneOpen(c) ==
    /\ c \in rd
    /\ inbox[c] = "none" /\ c \notin unread
    /\ cpc = "sweep"
    /\ rd' = rd \ {c}
    /\ UNCHANGED <<controlVars, peer, conn, inbox, unread, long, at, buf, over>>

\* Mutant of Gone: the sweep does not go on after a close.
GoneAgain(c) ==
    /\ c \in rd
    /\ inbox[c] = "none" /\ c \notin unread
    /\ cpc = "sweep"
    /\ conn' = [conn EXCEPT ![c] = "closed"]
    /\ UNCHANGED <<controlVars, peer, inbox, unread, long, rd, at, buf, over>>

\* read returns 0: close, and the descriptor is no longer watched.
Gone(c) ==
    /\ c \in rd
    /\ inbox[c] = "none" /\ c \notin unread
    /\ cpc = "sweep"
    /\ conn' = [conn EXCEPT ![c] = "closed"]
    /\ rd' = rd \ {c}
    /\ UNCHANGED <<controlVars, peer, inbox, unread, long, at, buf, over>>

\* write(i, answer, ...), right after the request is dealt with
Answer ==
    /\ IF Departed(at)
       THEN over' = "killed" /\ UNCHANGED <<unread, long>>
       ELSE /\ unread' = unread \cup {at}
            /\ long' = IF serving = "long" THEN long \cup {at} ELSE long
            /\ UNCHANGED over
    /\ rd' = rd \ {at}
    /\ at' = "none"
    /\ UNCHANGED <<peer, conn, inbox, buf>>

\* surv_handleRequest and the write of its answer
Serve ==
    \/ ControlTest /\ IF cpc' = "act" THEN UNCHANGED connVars ELSE Answer
    \/ ControlAct /\ Answer

ControlThread ==
    /\ over = "no"
    /\ \/ (ControlStart \/ ControlLoop) /\ UNCHANGED connVars
       \/ \E c \in Callers : Accept(c) \/ Read(c) \/ Gone(c)
       \/ Select
       \/ rd = {} /\ ControlSweepEnd /\ UNCHANGED connVars
       \/ Serve

-----------------------------------------------------------------------------
(* The rest of the daemon *)

ShutdownThread ==
    /\ over = "no"
    /\ ShutdownStep
    /\ UNCHANGED connVars

Signal ==
    /\ over = "no"
    /\ Kill
    /\ UNCHANGED connVars

\* The main thread has joined the others: execvp or exit
DaemonEnds ==
    /\ over = "no"
    /\ spc = "done"
    /\ cpc = "done"
    /\ over' = IF restart THEN "restarted" ELSE "exited"
    /\ UNCHANGED <<controlVars, peer, conn, inbox, unread, long, rd, at, buf>>

Next ==
    \/ ControlThread
    \/ ShutdownThread
    \/ Signal
    \/ DaemonEnds
    \/ \E c \in Callers :
          \/ Connect(c)
          \/ \E r \in Requests : Send(c, r)
          \/ ClientReads(c)
          \/ Leave(c)

Spec == Init /\ [][Next]_vars

\* The threads of the daemon go on when they can, and so does a client that
\* waits in read.  Nobody has to connect, to send or to leave.
Fairness ==
    /\ WF_vars(ControlThread)
    /\ WF_vars(ShutdownThread)
    /\ WF_vars(DaemonEnds)
    /\ \A c \in Callers : WF_vars(ClientReads(c))

FairSpec == Spec /\ Fairness

-----------------------------------------------------------------------------
(* Properties *)

TypeOK ==
    /\ cpc \in {"start", "loop", "select", "sweep", "serve", "act", "done"}
    /\ peer \in [Callers -> {"out", "connected", "waiting", "gone", "left"}]
    /\ conn \in [Callers -> {"none", "backlog", "accepted", "closed"}]
    /\ inbox \in [Callers -> Requests \cup {"none"}]
    /\ unread \cup long \subseteq Callers
    /\ rd \subseteq {c \in Callers : conn[c] = "accepted"}
    /\ at \in Callers \cup {"none"}
    /\ buf \in Requests \cup {"none"}
    /\ over \in {"no", "exited", "restarted", "killed"}

\* A client that left bytes of its answer unread: it was killed while it waited,
\* or its buffer was too short.
Resets(c) == peer[c] = "left" \/ (peer[c] = "gone" /\ c \in long)

\* SIGPIPE ends the daemon only through a client that left bytes of its answer
\* unread.  No order of connections, ends and requests does it when clients that
\* wait are not killed and no answer is longer than their buffer.
OnlyResetKills == over = "killed" => \E c \in Callers : Resets(c)

\* A client that waits gets its answer or the end of its connection, whoever
\* else connects, asks or leaves meanwhile, and whatever becomes of the daemon;
\* except that after a restart an accepted connection that was not served is
\* open for ever.
ClientsServed ==
    \A c \in Callers :
        peer[c] = "waiting"
            ~> peer[c] # "waiting" \/ (over = "restarted" /\ conn[c] = "accepted")

\* The connection of a client that is gone is closed, so that descriptors do
\* not run out.
ConnectionsClosed ==
    \A c \in Callers :
        Departed(c) /\ conn[c] # "closed" ~> conn[c] = "closed" \/ cpc = "done" \/ over # "no"

\* A promised restart happens, unless a client kills the daemon before.
PromiseKept == promised ~> over \in {"restarted", "killed"}
=============================================================================

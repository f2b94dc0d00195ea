------------------------------- MODULE Wrapper -------------------------------
(***************************************************************************)
(* bashtrace_wrapper: a parent and the child it forks, with two pipes      *)
(* between them and two listening sockets that the watchdog daemon         *)
(* connects to.  The child sets up the sockets and says that it is ready   *)
(* by closing its end of the ready pipe; the parent sends one byte over    *)
(* the start pipe; the child accepts one connection on each socket, makes  *)
(* them its standard output and error, and becomes the command.            *)
(*                                                                         *)
(* A pipe is at its end when nobody holds the other end any more, so who   *)
(* holds which end, also after a process has ended, decides who waits for  *)
(* whom.  The daemon is the environment: its socket threads connect once   *)
(* each, and it may end and be started anew at any time.                   *)
(***************************************************************************)
EXTENDS Naturals, Sequences

CONSTANTS
    Failures,       \* what may fail: "fork", "setup", "accept", "exec"
    MaxDaemons      \* how often the daemon is started

ASSUME DaemonsAssumption == MaxDaemons \in Nat \ {0}

Kinds == {"exec", "open"}
Ends == {"readyR", "readyW", "startR", "startW"}

VARIABLES
    parent,         \* where the parent is
    child,          \* where the child is
    fds,            \* fds[e]: which of the two hold the end e of a pipe
    sent,           \* the start byte is in its pipe
    listening,      \* the sockets the child listens on
    backlog,        \* backlog[k]: connections not yet accepted, oldest first;
                    \* a connection is named by the daemon that made it
    wire,           \* wire[k]: the connection the child has accepted, 0 for
                    \* none; standard output is "open", standard error "exec"
    daemon,         \* which start of the daemon this is
    conn            \* conn[k]: the connection of the daemon's socket thread

wrapperVars == <<parent, child, fds, sent, listening, backlog, wire>>
daemonVars == <<daemon, conn>>

WrapperInit ==
    /\ parent = "prime"
    /\ child = "none"
    /\ fds = [e \in Ends |-> {}]
    /\ sent = FALSE
    /\ listening = {}
    /\ backlog = [k \in Kinds |-> <<>>]
    /\ wire = [k \in Kinds |-> 0]

DaemonInit ==
    /\ daemon = 1
    /\ conn = [k \in Kinds |-> "idle"]

-----------------------------------------------------------------------------
(* Descriptors *)

Close(p, ends) == [e \in Ends |-> IF e \in ends THEN fds[e] \ {p} ELSE fds[e]]

\* What the end of the child, at the latest, does to the sockets
ChildEnds ==
    /\ child' = "gone"
    /\ listening' = {}
    /\ backlog' = [k \in Kinds |-> <<>>]
    /\ fds' = Close("child", Ends)

ParentEnds ==
    /\ parent' = "gone"
    /\ fds' = Close("parent", Ends)

-----------------------------------------------------------------------------
(* The parent: main, primeCommandToExecute after the fork, runCommand *)

\* The two pipes and the fork, after which both hold every end.
ParentPrime ==
    /\ parent = "prime"
    /\ \/ /\ parent' = "close"
          /\ child' = "setup"
          /\ fds' = [e \in Ends |-> {"parent", "child"}]
       \/ /\ "fork" \in Failures
          /\ ParentEnds
          /\ UNCHANGED child
    /\ UNCHANGED <<sent, listening, backlog, wire>>

\* Mutant of ParentClose: the parent keeps the write end of the ready pipe.
ParentCloseNoReady ==
    /\ parent = "close"
    /\ fds' = Close("parent", {"startR"})
    /\ parent' = "ready"
    /\ UNCHANGED <<child, sent, listening, backlog, wire>>

ParentClose ==
    /\ parent = "close"
    /\ fds' = Close("parent", {"readyW", "startR"})
    /\ parent' = "ready"
    /\ UNCHANGED <<child, sent, listening, backlog, wire>>

\* read on the ready pipe: it ends when the child closes it, or is gone.
ParentReady ==
    /\ parent = "ready"
    /\ fds["readyW"] = {}
    /\ fds' = Close("parent", {"readyR"})
    /\ parent' = "known"
    /\ UNCHANGED <<child, sent, listening, backlog, wire>>

\* child_pid = pControl.pid
ParentKnows ==
    /\ parent = "known"
    /\ parent' = "run"
    /\ UNCHANGED <<child, fds, sent, listening, backlog, wire>>

\* runCommand.  Without a reader the write raises SIGPIPE, which the parent
\* does not ignore.
ParentRun ==
    /\ parent = "run"
    /\ IF fds["startR"] = {}
       THEN ParentEnds /\ UNCHANGED sent
       ELSE /\ sent' = TRUE
            /\ fds' = Close("parent", {"startW"})
            /\ parent' = "wait"
    /\ UNCHANGED <<child, listening, backlog, wire>>

ParentWait ==
    /\ parent = "wait"
    /\ child = "gone"
    /\ ParentEnds
    /\ UNCHANGED <<child, sent, listening, backlog, wire>>

ParentStep ==
    \/ ParentPrime
    \/ ParentClose
    \/ ParentReady
    \/ ParentKnows
    \/ ParentRun
    \/ ParentWait

\* SIGTERM for the parent: the handler term passes it on to a child it knows
\* of, and ends.  What the command makes of the signal is its own affair.
Term ==
    /\ parent # "gone"
    /\ parent' = "gone"
    /\ IF parent \in {"run", "wait"} /\ child \notin {"command", "gone"}
       THEN /\ child' = "gone"
            /\ listening' = {}
            /\ backlog' = [k \in Kinds |-> <<>>]
            /\ fds' = [e \in Ends |-> {}]
       ELSE /\ fds' = Close("parent", Ends)
            /\ UNCHANGED <<child, listening, backlog>>
    /\ UNCHANGED <<sent, wire>>

-----------------------------------------------------------------------------
(* The child: primeCommandToExecute after the fork *)

\* Sockets, options, bind.  What is in the file system at their paths before is
\* removed; nobody can connect before listen.
ChildSetup ==
    /\ child = "setup"
    /\ \/ /\ child' = "listen"
          /\ UNCHANGED <<listening, backlog, fds>>
       \/ "setup" \in Failures /\ ChildEnds
    /\ UNCHANGED <<parent, sent, wire>>

\* listen on the open call socket first, then on the exec call socket.
ChildListen ==
    /\ child = "listen"
    /\ \/ /\ listening' = listening \cup {IF "open" \in listening THEN "exec" ELSE "open"}
          /\ child' = IF "open" \in listening THEN "close" ELSE "listen"
          /\ UNCHANGED <<backlog, fds>>
       \/ "setup" \in Failures /\ ChildEnds
    /\ UNCHANGED <<parent, sent, wire>>

\* Mutant of ChildClose: the child keeps the write end of the start pipe.
ChildCloseNoStart ==
    /\ child = "close"
    /\ fds' = Close("child", {"readyR"})
    /\ child' = "ready"
    /\ UNCHANGED <<parent, sent, listening, backlog, wire>>

ChildClose ==
    /\ child = "close"
    /\ fds' = Close("child", {"readyR", "startW"})
    /\ child' = "ready"
    /\ UNCHANGED <<parent, sent, listening, backlog, wire>>

\* "Closing the send ready pipeline signals readyness"
ChildReady ==
    /\ child = "ready"
    /\ fds' = Close("child", {"readyW"})
    /\ child' = "start"
    /\ UNCHANGED <<parent, sent, listening, backlog, wire>>

\* read on the start pipe: the byte, or the end of a pipe that no parent holds.
ChildStart ==
    /\ child = "start"
    /\ \/ /\ sent
          /\ sent' = FALSE
          /\ child' = "acceptOpen"
          /\ UNCHANGED <<listening, backlog, fds>>
       \/ /\ ~sent
          /\ fds["startW"] = {}
          /\ ChildEnds
          /\ UNCHANGED sent
    /\ UNCHANGED <<parent, wire>>

\* accept on the open call socket; the oldest connection is taken, also when
\* its daemon has hung up since.  A failure is looked at after both accepts.
ChildAcceptOpen ==
    /\ child = "acceptOpen"
    /\ \/ /\ backlog["open"] # <<>>
          /\ wire' = [wire EXCEPT !["open"] = Head(backlog["open"])]
          /\ backlog' = [backlog EXCEPT !["open"] = Tail(@)]
       \/ /\ "accept" \in Failures
          /\ UNCHANGED <<wire, backlog>>
    /\ child' = "acceptExec"
    /\ UNCHANGED <<parent, fds, sent, listening>>

\* Mutant of ChildAcceptExec: the newest connection is taken.
ChildAcceptExecNewest ==
    /\ child = "acceptExec"
    /\ backlog["exec"] # <<>>
    /\ wire' = [wire EXCEPT !["exec"] = backlog["exec"][Len(backlog["exec"])]]
    /\ IF wire["open"] = 0
       THEN ChildEnds
       ELSE child' = "exec" /\ UNCHANGED <<backlog, listening, fds>>
    /\ UNCHANGED <<parent, sent>>

ChildAcceptExec ==
    /\ child = "acceptExec"
    /\ \/ /\ backlog["exec"] # <<>>
          /\ wire' = [wire EXCEPT !["exec"] = Head(backlog["exec"])]
          /\ IF wire["open"] = 0
             THEN ChildEnds
             ELSE /\ child' = "exec"
                  /\ backlog' = [backlog EXCEPT !["exec"] = Tail(@)]
                  /\ UNCHANGED <<listening, fds>>
       \/ /\ "accept" \in Failures
          /\ ChildEnds
          /\ UNCHANGED wire
    /\ UNCHANGED <<parent, sent>>

\* dup2 and execvp.  The listening sockets stay open in the command.
ChildExec ==
    /\ child = "exec"
    /\ \/ /\ child' = "command"
          /\ fds' = Close("child", {"startR"})
          /\ UNCHANGED <<listening, backlog>>
       \/ "exec" \in Failures /\ ChildEnds
    /\ UNCHANGED <<parent, sent, wire>>

ChildStep ==
    \/ ChildSetup
    \/ ChildListen
    \/ ChildClose
    \/ ChildReady
    \/ ChildStart
    \/ ChildAcceptOpen
    \/ ChildAcceptExec
    \/ ChildExec

\* The command exits.
CommandExit ==
    /\ child = "command"
    /\ ChildEnds
    /\ UNCHANGED <<parent, sent, wire>>

-----------------------------------------------------------------------------
(* The daemon *)

\* A socket thread connects, or is refused and ends; it never tries again.
DaemonConnect(k) ==
    /\ conn[k] = "idle"
    /\ IF k \in listening
       THEN /\ conn' = [conn EXCEPT ![k] = "made"]
            /\ backlog' = [backlog EXCEPT ![k] = Append(@, daemon)]
       ELSE /\ conn' = [conn EXCEPT ![k] = "refused"]
            /\ UNCHANGED backlog
    /\ UNCHANGED <<parent, child, fds, sent, listening, wire, daemon>>

\* A socket thread gives up, or sees the end of what it reads.
DaemonHangsUp(k) ==
    /\ conn[k] = "made"
    /\ conn' = [conn EXCEPT ![k] = "hungup"]
    /\ UNCHANGED <<wrapperVars, daemon>>

\* The daemon ends, or restarts as its status message advises.
DaemonRestarts ==
    /\ daemon < MaxDaemons
    /\ daemon' = daemon + 1
    /\ conn' = [k \in Kinds |-> "idle"]
    /\ UNCHANGED wrapperVars

DaemonStep ==
    \/ \E k \in Kinds : DaemonConnect(k) \/ DaemonHangsUp(k)
    \/ DaemonRestarts

\* Nobody reads what the command writes there.
Broken(k) == wire[k] # daemon \/ conn[k] = "hungup"
=============================================================================

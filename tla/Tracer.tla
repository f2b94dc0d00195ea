------------------------------- MODULE Tracer -------------------------------
(***************************************************************************)
(* The tracer side of the system: bashtrace_wrapper (Wrapper) running      *)
(* bashtrace.sh (TraceScript), with the daemon at the other end of its     *)
(* sockets and the kernel under it.                                        *)
(***************************************************************************)
EXTENDS Wrapper, TraceScript

CONSTANT Starts     \* "fresh": nothing runs yet; "tracing": the script traces
                    \* for the last daemon

VARIABLE half       \* history: the daemons that ended with one connection made

vars == <<wrapperVars, daemonVars, scriptVars, filterVars, kernelVars, half>>

\* Two events are enough to end a script.
Fresh ==
    /\ WrapperInit
    /\ DaemonInit
    /\ ScriptInit
    /\ KernelInit(MaxEvents - 2)

\* The last of the daemons has been served; those before it were too early.
\* The script has outlived its parent.
Tracing ==
    /\ parent = "gone"
    /\ child = "command"
    /\ fds = [e \in Ends |-> {}]
    /\ sent = FALSE
    /\ listening = Kinds
    /\ backlog = [k \in Kinds |-> <<>>]
    /\ wire = [k \in Kinds |-> MaxDaemons]
    /\ daemon = MaxDaemons
    /\ conn = [k \in Kinds |-> "made"]
    /\ script = "trace"
    /\ lock = "ours"
    /\ probes = TRUE
    /\ KernelInit(0)

Init ==
    /\ FilterInit
    /\ half = {}
    /\ \/ "fresh" \in Starts /\ Fresh
       \/ "tracing" \in Starts /\ Tracing

-----------------------------------------------------------------------------
(* Steps *)

Parent ==
    /\ ParentStep
    /\ UNCHANGED <<daemonVars, scriptVars, filterVars, kernelVars, half>>

Child ==
    /\ ChildStep
    /\ UNCHANGED <<daemonVars, scriptVars, filterVars, kernelVars, half>>

\* The command is the script.
Script ==
    /\ child = "command"
    /\ ScriptStep
    /\ UNCHANGED <<wrapperVars, daemonVars, filterVars, kernelVars, half>>

ScriptExits ==
    /\ script = "done"
    /\ CommandExit
    /\ UNCHANGED <<daemonVars, scriptVars, filterVars, kernelVars, half>>

Kernel ==
    /\ child = "command"
    /\ KernelStep({k \in Kinds : Broken(k)})
    /\ UNCHANGED <<wrapperVars, daemonVars, half>>

\* SIGTERM for the wrapper, passed on to the script if that is what the child
\* has become.
Terminate ==
    /\ Term
    /\ IF parent = "wait" /\ child = "command" THEN ScriptTerm ELSE UNCHANGED scriptVars
    /\ UNCHANGED <<daemonVars, filterVars, kernelVars, half>>

Made == {k \in Kinds : conn[k] \in {"made", "hungup"}}

Daemon ==
    /\ DaemonStep
    /\ half' = IF daemon' # daemon /\ Cardinality(Made) = 1 THEN half \cup {daemon} ELSE half
    /\ UNCHANGED <<scriptVars, filterVars, kernelVars>>

Next ==
    \/ Parent
    \/ Child
    \/ Script
    \/ ScriptExits
    \/ Kernel
    \/ Terminate
    \/ Daemon

\* The scheduler runs whoever can go on.  Nothing is assumed of the kernel's
\* events, of the daemon and of whoever sends signals.
Spec ==
    /\ Init /\ [][Next]_vars
    /\ WF_vars(Parent)
    /\ WF_vars(Child)
    /\ WF_vars(Script)
    /\ WF_vars(ScriptExits)

-----------------------------------------------------------------------------
(* Properties *)

TypeOK ==
    /\ parent \in {"prime", "close", "ready", "known", "run", "wait", "gone"}
    /\ child \in {"none", "setup", "listen", "close", "ready", "start", "acceptOpen",
                  "acceptExec", "exec", "command", "gone"}
    /\ fds \in [Ends -> SUBSET {"parent", "child"}]
    /\ {sent, probes} \subseteq BOOLEAN
    /\ listening \subseteq Kinds
    /\ backlog \in [Kinds -> UNION {[1..n -> 1..MaxDaemons] : n \in 0..MaxDaemons}]
    /\ wire \in [Kinds -> 0..MaxDaemons]
    /\ daemon \in 1..MaxDaemons
    /\ conn \in [Kinds -> {"idle", "refused", "made", "hungup"}]
    /\ script \in {"trap", "lock", "probe", "trace", "drain", "end", "done"}
    /\ lock \in {"free", "ours", "other"}
    /\ lastfile \in [Pids -> Files \cup {NULL}]
    /\ getppid \in [Pids -> Pids \cup {NULL}]
    /\ seen \cup veterans \cup strays \subseteq Pids
    /\ held \in 0..(HeldMax - 1)
    /\ proc \in [Pids -> Processes \cup {NULL}]
    /\ lost \in 0..MaxLost
    /\ half \subseteq 1..MaxDaemons

\* The command's output and error go to one and the same daemon, unless an
\* earlier daemon was refused on one socket only: its other connection is then
\* accepted in place of its successor's, hung up or not.
WiredTogether == child = "command" => wire["open"] = wire["exec"] \/ half # {}

\* However the script ends, at a signal, at a daemon that hangs up or at a probe
\* that cannot be set, its probes and its lock are gone with it.
LeavesNoTrace == child = "gone" => ~probes /\ lock # "ours"

\* An open call is reported with the name of another file only if its own name
\* was lost and a name from before was left over: that takes the loss of a return
\* too, or an openat or creat of the same pid.  An exec call is reported with a
\* parent that is not its own only after a lost event.  All this whatever the
\* processes do in between, and also when pids are used again.
MistakesNeedLosses ==
    \A p \in Pids :
        /\ <<"file", p>> \in wrong => lost > 1 \/ (lost > 0 /\ p \in strays)
        /\ <<"parent", p>> \in wrong => lost > 0

\* The first exec call of a process is left out only if an earlier process of
\* its pid made one too.
ExecsNeedReuse == \A p \in Pids : <<"exec", p>> \in wrong => p \in veterans

\* A child without a parent does not wait for ever: it ends, or was already the
\* command.  In particular SIGTERM may come between the fork and child_pid.
ChildNotStranded == parent = "gone" ~> child \in {"none", "command", "gone"}

\* A wrapper whose child is gone ends, whatever made the child go, and before
\* the handshake, during it or after.
WrapperEnds == child = "gone" ~> parent = "gone"

\* A daemon that connects to both sockets, the first to do so, is served, or
\* its connections end with the child.
ConnectedIsServed ==
    (half = {} /\ \A k \in Kinds : conn[k] = "made" /\ backlog[k] = <<daemon>>)
        ~> (child = "gone" \/ \A k \in Kinds : wire[k] # 0)
=============================================================================

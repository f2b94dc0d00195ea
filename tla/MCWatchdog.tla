----------------------------- MODULE MCWatchdog -----------------------------
(***************************************************************************)
(* Small workloads for the watchdog.                                       *)
(***************************************************************************)
EXTENDS Watchdog

Exec(n, pid, ppid, time) == [n |-> n, pid |-> pid, ppid |-> ppid, time |-> time]
Open(n, pid, time) == [n |-> n, pid |-> pid, time |-> time]

Work(exec, open, down) == [exec |-> exec, open |-> open, down |-> down]

\* A process known only by an open call is replaced by an exec of its pid.
OpenThenStart == Work(<<Exec(1, 1, 0, 2)>>, <<Open(1, 1, 1), Open(2, 1, 3)>>, {"ctrl"})

\* Two processes start, and the first opens a file in between.
TwoProcesses == Work(<<Exec(1, 4, 0, 1), Exec(2, 1, 0, 3)>>, <<Open(1, 4, 2)>>, {"ctrl"})

\* A process starts a child.
ParentAndChild == Work(<<Exec(1, 2, 0, 1), Exec(2, 1, 2, 2)>>, <<>>, {})

\* A process starts, opens a file and may end at any time.
ShortLived == Work(<<Exec(1, 2, 0, 1)>>, <<Open(1, 2, 2)>>, {"ctrl"})

\* The exec call makes the array grow over the process of the open call.
Overgrowing == Work(<<Exec(1, 4, 0, 2)>>, <<Open(1, 3, 1)>>, {"ctrl"})

\* One pid is out of range; the other processes do not fit into the dispatch
\* queue together.
Crowded == Work(<<>>, <<Open(1, 6, 1), Open(2, 1, 2), Open(3, 4, 3)>>, {"ctrl"})

\* One call of each kind; the control thread has failed.
OneEach == Work(<<Exec(1, 1, 0, 1)>>, <<Open(1, 1, 2)>>, {"ctrl"})

\* Nothing happens on either socket.
Silence == Work(<<>>, <<>>, {})

SilentTracers == Work(<<>>, <<>>, {"ctrl"})

SecondOpen == {Open(2, 1, 3)}

AllWorkloads == {OpenThenStart, TwoProcesses, ParentAndChild, ShortLived,
                 Overgrowing, Crowded}
FairWorkloads == {OneEach, Silence}
SilentWorkload == {SilentTracers}
=============================================================================

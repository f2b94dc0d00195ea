----------------------------- MODULE TraceScript -----------------------------
(***************************************************************************)
(* bashtrace.sh: the script that sets kernel probes and turns the kernel's *)
(* trace into open calls and exec calls, with the kernel as far as the     *)
(* trace shows it.                                                         *)
(*                                                                         *)
(* The filter is an awk program that takes the trace line by line.  It     *)
(* keeps three arrays indexed by pid: lastfile, the file that an open call *)
(* has named and not yet come back from; getppid, the parent of a process  *)
(* since its fork; and seen, the processes whose exec call was reported.   *)
(* Pids are used again, and the kernel loses events when its buffer runs   *)
(* over.  openat and creat name their file like open, in do_sys_open, but  *)
(* only the return of open is traced.  What a line becomes on the wire is  *)
(* left to LineParser.                                                     *)
(***************************************************************************)
EXTENDS Naturals, FiniteSets

CONSTANTS
    Pids,           \* the pids of the traced processes; 0 is init
    Files,          \* what they open
    NULL,           \* no process, no file, no parent
    HeldMax,        \* the open calls that the output buffer of awk holds
    MaxEvents,      \* bound on the events of the kernel
    MaxLost,        \* bound on the events that the kernel loses
    Refusals        \* what may fail: "cd" and "probe"

ASSUME ScriptAssumption ==
    HeldMax \in Nat \ {0} /\ MaxEvents \in Nat /\ MaxLost \in Nat /\ 0 \notin Pids

\* A process: its parent, whether it has made an exec call, and the file its
\* thread is about to open.
Processes == [parent : Pids \cup {0}, execd : BOOLEAN, opening : Files \cup {NULL}]

ASSUME NullAssumption == NULL \notin Files \cup Processes

VARIABLES
    script,         \* where the script is
    lock,           \* the lock file: "free", "ours" or "other"
    probes,         \* our probes are set
    lastfile, getppid, seen,    \* the arrays of the filter
    held,           \* open calls printed and not yet flushed
    proc,           \* proc[p]: the process with this pid, or NULL
    events, lost,   \* how many there were
    veterans,       \* the pids of which an earlier process made an exec call
    strays,         \* history: the pids that made an openat or creat
    wrong           \* history: <<"file", p>>, <<"parent", p>> or <<"exec", p>>
                    \* for a call of pid p with a wrong file, a wrong parent,
                    \* or left out though it was the first of its process

scriptVars == <<script, lock, probes>>
filterVars == <<lastfile, getppid, seen, held, wrong>>
kernelVars == <<proc, events, lost, veterans, strays>>

Process(parent, execd, opening) ==
    [parent |-> parent, execd |-> execd, opening |-> opening]

ScriptInit ==
    /\ script = "trap"
    /\ lock \in {"free", "other"}
    /\ probes = FALSE

FilterInit ==
    /\ lastfile = [p \in Pids |-> NULL]
    /\ getppid = [p \in Pids |-> NULL]
    /\ seen = {}
    /\ held = 0
    /\ wrong = {}

First == CHOOSE p \in Pids : TRUE

\* One process is there already, perhaps in the middle of an open.  `past' of
\* the events that the bound allows are over.
KernelInit(past) ==
    /\ \E f \in Files \cup {NULL} :
          proc = [p \in Pids |-> IF p = First THEN Process(0, TRUE, f) ELSE NULL]
    /\ events = past
    /\ lost = 0
    /\ veterans = {}
    /\ strays = {}

-----------------------------------------------------------------------------
(* The script around the filter *)

\* The trap that keeps signals from ending the script
ScriptTrap ==
    /\ script = "trap"
    /\ script' = "lock"
    /\ UNCHANGED <<lock, probes>>

\* die if the tracing directory or the lock is not to be had; else lock.
ScriptLock ==
    /\ script = "lock"
    /\ \/ /\ lock = "free"
          /\ lock' = "ours"
          /\ script' = "probe"
       \/ /\ lock = "other" \/ "cd" \in Refusals
          /\ script' = "done"
          /\ UNCHANGED lock
    /\ UNCHANGED probes

\* Probes are added and enabled one by one; after a failure edie undoes what
\* was done.
ScriptProbe ==
    /\ script = "probe"
    /\ probes' = TRUE
    /\ \/ script' = "trace"
       \/ script' = "end" /\ "probe" \in Refusals
    /\ UNCHANGED lock

\* end: disables and removes the probes, then the lock.
ScriptEnd ==
    /\ script = "end"
    /\ probes' = FALSE
    /\ lock' = "free"
    /\ script' = "done"

ScriptStep == ScriptTrap \/ ScriptLock \/ ScriptProbe \/ ScriptEnd

\* Mutant of ScriptTerm: the signal is not trapped.
ScriptTermUntrapped ==
    /\ script # "done"
    /\ script' = "done"
    /\ UNCHANGED <<lock, probes>>

\* SIGTERM: before the trap is set it ends the script; from then on bash runs
\* `:' once the command in the foreground is over, and goes on.
ScriptTerm ==
    /\ script' = IF script = "trap" THEN "done" ELSE script
    /\ UNCHANGED <<lock, probes>>

-----------------------------------------------------------------------------
(* The filter: what awk does with a line.  `broken' are the wires whose     *)
(* reader has hung up.                                                      *)

Mistake(kind, p, made) == wrong' = IF made THEN wrong \cup {<<kind, p>>} ELSE wrong

\* awk ends on the first write that fails; cat, in front of it, on the next
\* line after that.
AfterWrite(failed) ==
    /\ script' = IF failed THEN "drain" ELSE script
    /\ UNCHANGED <<lock, probes>>

\* do_sys_open <- getname
FilterGetname(p, f) ==
    /\ lastfile' = [lastfile EXCEPT ![p] = f]
    /\ UNCHANGED <<getppid, seen, held, wrong, scriptVars>>

\* Mutant of FilterOpen: the file name is kept.
FilterOpenKeeps(p, f, broken) ==
    LET full == held + 1 = HeldMax
    IN  /\ Mistake("file", p, lastfile[p] \notin {f, NULL})
        /\ held' = IF full THEN 0 ELSE held + 1
        /\ AfterWrite(full /\ "open" \in broken)
        /\ UNCHANGED <<lastfile, getppid, seen>>

\* Mutant of FilterOpen: the buffer takes one line too many.
FilterOpenLate(p, f, broken) ==
    LET full == held = HeldMax
    IN  /\ lastfile' = [lastfile EXCEPT ![p] = NULL]
        /\ Mistake("file", p, lastfile[p] \notin {f, NULL})
        /\ held' = IF full THEN 0 ELSE held + 1
        /\ AfterWrite(full /\ "open" \in broken)
        /\ UNCHANGED <<getppid, seen>>

\* sys_open, the return: the call is printed with the name in lastfile, which
\* may be missing.  Standard output is a socket, so that awk holds the line
\* until its buffer is full or fflush is called.  `f' is the file really meant.
FilterOpen(p, f, broken) ==
    LET full == held + 1 = HeldMax
    IN  /\ lastfile' = [lastfile EXCEPT ![p] = NULL]
        /\ Mistake("file", p, lastfile[p] \notin {f, NULL})
        /\ held' = IF full THEN 0 ELSE held + 1
        /\ AfterWrite(full /\ "open" \in broken)
        /\ UNCHANGED <<getppid, seen>>

\* sched_process_fork.  It is the entry of the forking process that is deleted
\* from seen, not that of the child.
FilterFork(p, c) ==
    /\ getppid' = [getppid EXCEPT ![c] = p]
    /\ seen' = seen \ {p}
    /\ UNCHANGED <<lastfile, held, wrong, scriptVars>>

\* Mutant of FilterExec: processes of unknown parents are left out.
FilterExecKnown(p, parent, first, broken) ==
    IF p \in seen \/ getppid[p] = NULL
    THEN /\ Mistake("exec", p, first)
         /\ UNCHANGED <<lastfile, getppid, seen, held, scriptVars>>
    ELSE /\ seen' = seen \cup {p}
         /\ getppid' = [getppid EXCEPT ![p] = NULL]
         /\ held' = 0
         /\ AfterWrite("exec" \in broken \/ (held > 0 /\ "open" \in broken))
         /\ UNCHANGED <<lastfile, wrong>>

\* sys_execve: the first exec call of a process is printed to standard error
\* with its parent, if known, and everything is flushed.  `parent' and `first'
\* are what is true of the process.
FilterExec(p, parent, first, broken) ==
    IF p \in seen
    THEN /\ Mistake("exec", p, first)
         /\ UNCHANGED <<lastfile, getppid, seen, held, scriptVars>>
    ELSE /\ seen' = seen \cup {p}
         /\ getppid' = [getppid EXCEPT ![p] = NULL]
         /\ Mistake("parent", p, getppid[p] \notin {parent, NULL})
         /\ held' = 0
         /\ AfterWrite("exec" \in broken \/ (held > 0 /\ "open" \in broken))
         /\ UNCHANGED lastfile

\* A line once awk has ended: cat ends too, and with it the pipeline.
FilterGone ==
    /\ script' = "end"
    /\ UNCHANGED <<lock, probes, filterVars>>

\* A line that the kernel lost.  The warning that takes its place goes to
\* standard error.
FilterLost(broken) ==
    /\ AfterWrite("exec" \in broken)
    /\ UNCHANGED filterVars

-----------------------------------------------------------------------------
(* The kernel: something happens, and the filter sees it or it is lost.     *)

Seen(line, broken) ==
    \/ script = "trace" /\ line /\ UNCHANGED lost
    \/ script = "trace" /\ lost < MaxLost /\ lost' = lost + 1 /\ FilterLost(broken)
    \/ script = "drain" /\ FilterGone /\ UNCHANGED lost

Happens == events < MaxEvents /\ events' = events + 1

\* A process enters open, which reads the file name: do_sys_open <- getname.
Getname(p, f, broken) ==
    /\ Happens
    /\ proc[p] # NULL
    /\ proc[p].opening = NULL
    /\ proc' = [proc EXCEPT ![p].opening = f]
    /\ Seen(FilterGetname(p, f), broken)
    /\ UNCHANGED <<veterans, strays>>

\* It returns from open.
OpenReturns(p, broken) ==
    /\ Happens
    /\ proc[p] # NULL
    /\ proc[p].opening # NULL
    /\ proc' = [proc EXCEPT ![p].opening = NULL]
    /\ Seen(FilterOpen(p, proc[p].opening, broken), broken)
    /\ UNCHANGED <<veterans, strays>>

\* It calls openat or creat: the name is read, and nothing in the trace says
\* that it returns.
OpenUntraced(p, f, broken) ==
    /\ Happens
    /\ proc[p] # NULL
    /\ proc[p].opening = NULL
    /\ strays' = strays \cup {p}
    /\ Seen(FilterGetname(p, f), broken)
    /\ UNCHANGED <<proc, veterans>>

Fork(p, c, broken) ==
    /\ Happens
    /\ proc[p] # NULL
    /\ proc[p].opening = NULL
    /\ proc[c] = NULL
    /\ proc' = [proc EXCEPT ![c] = Process(p, FALSE, NULL)]
    /\ Seen(FilterFork(p, c), broken)
    /\ UNCHANGED <<veterans, strays>>

Exec(p, broken) ==
    /\ Happens
    /\ proc[p] # NULL
    /\ proc[p].opening = NULL
    /\ proc' = [proc EXCEPT ![p].execd = TRUE]
    /\ Seen(FilterExec(p, proc[p].parent, ~proc[p].execd, broken), broken)
    /\ UNCHANGED <<veterans, strays>>

\* A process ends; nothing in the trace says so, and its pid is free again.
Exit(p) ==
    /\ script = "trace"
    /\ Cardinality({q \in Pids : proc[q] # NULL}) > 1
    /\ proc[p] # NULL
    /\ proc[p].opening = NULL
    /\ proc' = [proc EXCEPT ![p] = NULL]
    /\ veterans' = IF proc[p].execd THEN veterans \cup {p} ELSE veterans
    /\ UNCHANGED <<events, lost, strays, scriptVars, filterVars>>

KernelStep(broken) ==
    \/ \E p \in Pids :
          \/ \E f \in Files : Getname(p, f, broken) \/ OpenUntraced(p, f, broken)
          \/ OpenReturns(p, broken)
          \/ \E c \in Pids \ {p} : Fork(p, c, broken)
          \/ Exec(p, broken)
          \/ Exit(p)
=============================================================================

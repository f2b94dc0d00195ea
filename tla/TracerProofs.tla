---------------------------- MODULE TracerProofs ----------------------------
(***************************************************************************)
(* Theorems about the tracer side, for every set of pids and files, every  *)
(* bound and every failure: the script leaves nothing behind, and what the *)
(* filter gets wrong needs lost events or reused pids; output and error go *)
(* to one daemon; and the types of all of it.                              *)
(***************************************************************************)
EXTENDS Tracer, FiniteSetTheorems, TLAPS

-----------------------------------------------------------------------------
(* The script and the process it runs in *)

\* The script runs exactly while the child is the command, and what it has set
\* up it takes down on every way out.
ScriptInv ==
    /\ script \in {"trap", "lock", "probe", "trace", "drain", "end", "done"}
    /\ parent = "prime" => child = "none"
    /\ child \notin {"command", "gone"} => script = "trap"
    /\ child = "gone" => script \in {"trap", "done"}
    /\ script \in {"trap", "lock", "done"} => ~probes /\ lock # "ours"

LEMMA ScriptInvInit == Init => ScriptInv
BY DEF Init, Fresh, Tracing, ScriptInit, WrapperInit, ScriptInv

LEMMA ScriptInvNext == ScriptInv /\ [Next]_vars => ScriptInv'
<1> SUFFICES ASSUME ScriptInv, [Next]_vars PROVE ScriptInv'
  OBVIOUS
<1> USE DEF ScriptInv
<1>1. CASE Parent
  BY <1>1 DEF Parent, ParentStep, ParentPrime, ParentClose, ParentReady, ParentKnows,
              ParentRun, ParentWait, ParentEnds, scriptVars
<1>2. CASE Child
  BY <1>2 DEF Child, ChildStep, ChildSetup, ChildListen, ChildClose, ChildReady,
              ChildStart, ChildAcceptOpen, ChildAcceptExec, ChildExec, ChildEnds, scriptVars
<1>3. CASE Script
  BY <1>3 DEF Script, ScriptStep, ScriptTrap, ScriptLock, ScriptProbe, ScriptEnd, wrapperVars
<1>4. CASE ScriptExits
  BY <1>4 DEF ScriptExits, CommandExit, ChildEnds, scriptVars
<1>5. CASE Kernel
  <2>1. /\ parent' = parent /\ child' = child /\ child = "command" /\ lock' = lock /\ probes' = probes
        /\ script' = script \/ (script = "trace" /\ script' = "drain")
                            \/ (script = "drain" /\ script' = "end")
    BY <1>5 DEF Kernel, wrapperVars, KernelStep, Getname, OpenReturns, OpenUntraced, Fork,
                Exec, Exit,
                Seen, FilterGetname, FilterOpen, FilterFork, FilterExec, FilterGone,
                FilterLost, AfterWrite, scriptVars
  <2> QED BY <2>1
<1>6. CASE Terminate
  BY <1>6 DEF Terminate, Term, ScriptTerm, scriptVars
<1>7. CASE Daemon
  BY <1>7 DEF Daemon, DaemonStep, DaemonConnect, DaemonHangsUp, DaemonRestarts,
              wrapperVars, scriptVars
<1>8. CASE UNCHANGED vars
  BY <1>8 DEF vars, wrapperVars, scriptVars
<1> QED BY <1>1, <1>2, <1>3, <1>4, <1>5, <1>6, <1>7, <1>8 DEF Next

\* However bashtrace.sh ends, at a signal, a daemon that hangs up or a probe
\* that cannot be set, its probes and its lock are gone with it.
THEOREM NothingLeftBehind == Spec => []LeavesNoTrace
<1>1. ScriptInv => LeavesNoTrace
  BY DEF ScriptInv, LeavesNoTrace
<1> QED BY <1>1, ScriptInvInit, ScriptInvNext, PTL DEF Spec

-----------------------------------------------------------------------------
(* The filter *)

FilterType ==
    /\ lastfile \in [Pids -> Files \cup {NULL}]
    /\ getppid \in [Pids -> Pids \cup {NULL}]
    /\ proc \in [Pids -> Processes \cup {NULL}]
    /\ lost \in Nat

\* awk has not ended.
Reads == script \notin {"drain", "end", "done"}

\* A name may be left over in lastfile, or be missing and another left over.
LeftOver(p) == lost > 0 \/ p \in strays
Mistaken(p) == lost > 1 \/ (lost > 0 /\ p \in strays)

\* As long as awk reads, a name that waits though no open is under way has lost
\* the return of its open, or is that of an openat or creat; and one that waits
\* in the open of another file is there because that file's name was lost too.
NameOK(p) ==
    /\ <<"file", p>> \in wrong => Mistaken(p)
    /\ Reads /\ lastfile[p] # NULL =>
          /\ proc[p] = NULL => LeftOver(p)
          /\ proc[p] # NULL /\ proc[p].opening = NULL => LeftOver(p)
          /\ proc[p] # NULL /\ proc[p].opening \notin {NULL, lastfile[p]} => Mistaken(p)

\* Without losses the parent that is known is the parent.
ParentOK(p) ==
    /\ <<"parent", p>> \in wrong => lost > 0
    /\ Reads /\ lost = 0 /\ proc[p] # NULL /\ getppid[p] # NULL
          => getppid[p] = proc[p].parent

\* A mark in seen is of the process that has the pid, or of one before it.
SeenOK(p) ==
    /\ <<"exec", p>> \in wrong => p \in veterans
    /\ p \in seen => p \in veterans \/ (proc[p] # NULL /\ proc[p].execd)

FilterInv ==
    /\ FilterType
    /\ \A p \in Pids : NameOK(p) /\ ParentOK(p) /\ SeenOK(p)

LEMMA FilterInvInit == Init => FilterInv
<1> SUFFICES ASSUME Init PROVE FilterInv
  OBVIOUS
<1>1. /\ lastfile = [p \in Pids |-> NULL]
      /\ getppid = [p \in Pids |-> NULL]
      /\ seen = {} /\ wrong = {} /\ lost = 0
  BY DEF Init, FilterInit, Fresh, Tracing, KernelInit
<1>2. proc \in [Pids -> Processes \cup {NULL}]
  <2>1. PICK f \in Files \cup {NULL} :
           proc = [p \in Pids |-> IF p = First THEN Process(0, TRUE, f) ELSE NULL]
    BY DEF Init, Fresh, Tracing, KernelInit
  <2>2. Process(0, TRUE, f) \in Processes
    BY DEF Process, Processes
  <2> QED BY <2>1, <2>2
<1> QED BY <1>1, <1>2 DEF FilterInv, FilterType, NameOK, LeftOver, Mistaken, ParentOK, SeenOK

\* What everyone but the kernel leaves alone
LEMMA OtherSteps ==
    ASSUME [Next]_vars, ~Kernel
    PROVE  UNCHANGED <<filterVars, kernelVars>> /\ (Reads' => Reads)
<1>1. CASE Parent
  BY <1>1 DEF Parent, scriptVars, Reads
<1>2. CASE Child
  BY <1>2 DEF Child, scriptVars, Reads
<1>3. CASE Script
  BY <1>3 DEF Script, ScriptStep, ScriptTrap, ScriptLock, ScriptProbe, ScriptEnd, Reads
<1>4. CASE ScriptExits
  BY <1>4 DEF ScriptExits, scriptVars, Reads
<1>5. CASE Terminate
  BY <1>5 DEF Terminate, ScriptTerm, scriptVars, Reads
<1>6. CASE Daemon
  BY <1>6 DEF Daemon, scriptVars, Reads
<1>7. CASE UNCHANGED vars
  BY <1>7 DEF vars, scriptVars, Reads
<1> QED BY <1>1, <1>2, <1>3, <1>4, <1>5, <1>6, <1>7 DEF Next

\* An event of which the filter learns nothing
LEMMA Unseen ==
    ASSUME lost \in Nat, NEW broken,
           \/ lost < MaxLost /\ lost' = lost + 1 /\ FilterLost(broken)
           \/ script = "drain" /\ FilterGone /\ UNCHANGED lost
    PROVE  /\ UNCHANGED filterVars
           /\ lost' \in Nat /\ lost' >= lost
           /\ Reads' => Reads /\ lost' = lost + 1
BY DEF FilterLost, FilterGone, AfterWrite, Reads

\* The six things that happen in the kernel
LEMMA GetnameKeeps ==
    ASSUME FilterInv, NEW p \in Pids, NEW f \in Files, NEW broken, Getname(p, f, broken)
    PROVE  FilterInv'
<1>1. /\ proc[p] \in Processes /\ proc[p].opening = NULL
      /\ proc' = [proc EXCEPT ![p].opening = f]
      /\ veterans' = veterans /\ strays' = strays /\ f # NULL
  BY NullAssumption DEF FilterInv, FilterType, Getname
<1>2. /\ proc' \in [Pids -> Processes \cup {NULL}]
      /\ proc'[p] # NULL /\ proc'[p].opening = f
      /\ proc'[p].parent = proc[p].parent /\ proc'[p].execd = proc[p].execd
      /\ \A q \in Pids \ {p} : proc'[q] = proc[q]
  BY <1>1, NullAssumption DEF FilterInv, FilterType, Processes
<1>3. CASE script = "trace" /\ FilterGetname(p, f) /\ UNCHANGED lost
  <2>1. /\ lastfile' = [lastfile EXCEPT ![p] = f]
        /\ UNCHANGED <<getppid, seen, wrong, lost, script>>
    BY <1>3 DEF FilterGetname, scriptVars
  <2>2. FilterType'
    BY <1>2, <2>1 DEF FilterInv, FilterType
  <2>3. ASSUME NEW q \in Pids PROVE NameOK(q)'
    BY <1>1, <1>2, <2>1 DEF FilterInv, FilterType, NameOK, LeftOver, Mistaken, Reads
  <2>4. ASSUME NEW q \in Pids PROVE ParentOK(q)'
    <3>1. ParentOK(q)
      BY DEF FilterInv
    <3>2. proc'[q] # NULL => proc[q] # NULL /\ proc'[q].parent = proc[q].parent
      BY <1>1, <1>2, NullAssumption
    <3> QED BY <2>1, <3>1, <3>2 DEF ParentOK, Reads
  <2>5. ASSUME NEW q \in Pids PROVE SeenOK(q)'
    BY <1>1, <1>2, <2>1 DEF FilterInv, FilterType, SeenOK
  <2> QED BY <2>2, <2>3, <2>4, <2>5 DEF FilterInv
<1>4. CASE \/ lost < MaxLost /\ lost' = lost + 1 /\ FilterLost(broken)
           \/ script = "drain" /\ FilterGone /\ UNCHANGED lost
  <2>1. /\ UNCHANGED filterVars
        /\ lost' \in Nat /\ lost' >= lost
        /\ Reads' => Reads /\ lost' = lost + 1
    BY <1>4, Unseen DEF FilterInv, FilterType
  <2> QED BY <1>1, <1>2, <2>1 DEF FilterInv, FilterType, filterVars, NameOK, LeftOver,
                                  Mistaken, ParentOK, SeenOK
<1> QED BY <1>3, <1>4 DEF Getname, Seen

LEMMA OpenReturnsKeeps ==
    ASSUME FilterInv, NEW p \in Pids, NEW broken, OpenReturns(p, broken)
    PROVE  FilterInv'
<1>1. /\ proc[p] \in Processes /\ proc[p].opening # NULL
      /\ proc' = [proc EXCEPT ![p].opening = NULL]
      /\ veterans' = veterans /\ strays' = strays
  BY DEF FilterInv, FilterType, OpenReturns
<1>2. /\ proc' \in [Pids -> Processes \cup {NULL}]
      /\ proc'[p] # NULL /\ proc'[p].opening = NULL
      /\ proc'[p].parent = proc[p].parent /\ proc'[p].execd = proc[p].execd
      /\ \A q \in Pids \ {p} : proc'[q] = proc[q]
  BY <1>1, NullAssumption DEF FilterInv, FilterType, Processes
<1>3. CASE script = "trace" /\ FilterOpen(p, proc[p].opening, broken) /\ UNCHANGED lost
  <2>1. /\ lastfile' = [lastfile EXCEPT ![p] = NULL]
        /\ UNCHANGED <<getppid, seen, lost>>
        /\ Reads /\ (Reads' => script' = script)
    BY <1>3 DEF FilterOpen, AfterWrite, Reads
  <2>2. /\ \A q \in Pids : <<"file", q>> \in wrong' => Mistaken(q)'
        /\ \A q \in Pids : <<"parent", q>> \in wrong' => <<"parent", q>> \in wrong
        /\ \A q \in Pids : <<"exec", q>> \in wrong' => <<"exec", q>> \in wrong
    <3>1. lastfile[p] \notin {proc[p].opening, NULL} => Mistaken(p)
      BY <1>1, <2>1, NullAssumption DEF FilterInv, NameOK, LeftOver, Mistaken
    <3> QED BY <1>1, <1>3, <2>1, <3>1 DEF FilterInv, NameOK, Mistaken, FilterOpen, Mistake
  <2>3. FilterType'
    BY <1>2, <2>1 DEF FilterInv, FilterType
  <2>4. ASSUME NEW q \in Pids PROVE NameOK(q)'
    BY <1>1, <1>2, <2>1, <2>2 DEF FilterInv, FilterType, NameOK, LeftOver, Mistaken, Reads
  <2>5. ASSUME NEW q \in Pids PROVE ParentOK(q)'
    <3>1. ParentOK(q)
      BY DEF FilterInv
    <3>2. proc'[q] # NULL => proc[q] # NULL /\ proc'[q].parent = proc[q].parent
      BY <1>1, <1>2, NullAssumption
    <3> QED BY <2>1, <2>2, <3>1, <3>2 DEF ParentOK, Reads
  <2>6. ASSUME NEW q \in Pids PROVE SeenOK(q)'
    BY <1>1, <1>2, <2>1, <2>2 DEF FilterInv, FilterType, SeenOK
  <2> QED BY <2>3, <2>4, <2>5, <2>6 DEF FilterInv
<1>4. CASE \/ lost < MaxLost /\ lost' = lost + 1 /\ FilterLost(broken)
           \/ script = "drain" /\ FilterGone /\ UNCHANGED lost
  <2>1. /\ UNCHANGED filterVars
        /\ lost' \in Nat /\ lost' >= lost
        /\ Reads' => Reads /\ lost' = lost + 1
    BY <1>4, Unseen DEF FilterInv, FilterType
  <2>2. FilterType'
    BY <1>2, <2>1 DEF FilterInv, FilterType, filterVars
  <2>3. ASSUME NEW q \in Pids PROVE NameOK(q)'
    BY <1>1, <1>2, <2>1 DEF FilterInv, FilterType, filterVars, NameOK, LeftOver, Mistaken
  <2>4. ASSUME NEW q \in Pids PROVE ParentOK(q)'
    BY <1>1, <1>2, <2>1 DEF FilterInv, FilterType, filterVars, ParentOK
  <2>5. ASSUME NEW q \in Pids PROVE SeenOK(q)'
    BY <1>1, <1>2, <2>1 DEF FilterInv, FilterType, filterVars, SeenOK
  <2> QED BY <2>2, <2>3, <2>4, <2>5 DEF FilterInv
<1> QED BY <1>3, <1>4 DEF OpenReturns, Seen

LEMMA OpenUntracedKeeps ==
    ASSUME FilterInv, NEW p \in Pids, NEW f \in Files, NEW broken, OpenUntraced(p, f, broken)
    PROVE  FilterInv'
<1>1. /\ proc[p] # NULL /\ proc[p].opening = NULL
      /\ proc' = proc /\ veterans' = veterans
      /\ strays' = strays \cup {p}
  BY DEF OpenUntraced
<1>2. CASE script = "trace" /\ FilterGetname(p, f) /\ UNCHANGED lost
  <2>1. /\ lastfile' = [lastfile EXCEPT ![p] = f]
        /\ UNCHANGED <<getppid, seen, wrong, lost, script>>
    BY <1>2 DEF FilterGetname, scriptVars
  <2>2. ASSUME NEW q \in Pids PROVE NameOK(q)'
    BY <1>1, <2>1 DEF FilterInv, FilterType, NameOK, LeftOver, Mistaken, Reads
  <2> QED BY <1>1, <2>1, <2>2 DEF FilterInv, FilterType, ParentOK, SeenOK, Reads
<1>3. CASE \/ lost < MaxLost /\ lost' = lost + 1 /\ FilterLost(broken)
           \/ script = "drain" /\ FilterGone /\ UNCHANGED lost
  <2>1. /\ UNCHANGED filterVars
        /\ lost' \in Nat /\ lost' >= lost
        /\ Reads' => Reads /\ lost' = lost + 1
    BY <1>3, Unseen DEF FilterInv, FilterType
  <2>2. ASSUME NEW q \in Pids PROVE NameOK(q)'
    BY <1>1, <2>1 DEF FilterInv, FilterType, filterVars, NameOK, LeftOver, Mistaken
  <2>3. ASSUME NEW q \in Pids PROVE ParentOK(q)'
    BY <1>1, <2>1 DEF FilterInv, FilterType, filterVars, ParentOK
  <2>4. ASSUME NEW q \in Pids PROVE SeenOK(q)'
    BY <1>1, <2>1 DEF FilterInv, FilterType, filterVars, SeenOK
  <2> QED BY <1>1, <2>1, <2>2, <2>3, <2>4 DEF FilterInv, FilterType, filterVars
<1> QED BY <1>2, <1>3 DEF OpenUntraced, Seen

LEMMA ForkKeeps ==
    ASSUME FilterInv, NEW p \in Pids, NEW c \in Pids \ {p}, NEW broken, Fork(p, c, broken)
    PROVE  FilterInv'
<1>1. /\ proc[c] = NULL
      /\ proc' = [proc EXCEPT ![c] = Process(p, FALSE, NULL)]
      /\ veterans' = veterans /\ strays' = strays
  BY DEF Fork
<1>2. /\ proc' \in [Pids -> Processes \cup {NULL}]
      /\ proc'[c] # NULL /\ proc'[c].opening = NULL /\ proc'[c].parent = p
      /\ \A q \in Pids \ {c} : proc'[q] = proc[q]
  <2>1. Process(p, FALSE, NULL) \in Processes
    BY DEF Process, Processes
  <2> QED BY <1>1, <2>1, NullAssumption DEF FilterInv, FilterType, Process
<1>3. CASE script = "trace" /\ FilterFork(p, c) /\ UNCHANGED lost
  BY <1>1, <1>2, <1>3 DEF FilterInv, FilterType, FilterFork, NameOK, LeftOver, Mistaken,
                          ParentOK, SeenOK,
                          Reads, scriptVars
<1>4. CASE \/ lost < MaxLost /\ lost' = lost + 1 /\ FilterLost(broken)
           \/ script = "drain" /\ FilterGone /\ UNCHANGED lost
  <2>1. /\ UNCHANGED filterVars
        /\ lost' \in Nat /\ lost' >= lost
        /\ Reads' => Reads /\ lost' = lost + 1
    BY <1>4, Unseen DEF FilterInv, FilterType
  <2>2. FilterType'
    BY <1>2, <2>1 DEF FilterInv, FilterType, filterVars
  <2>3. ASSUME NEW q \in Pids PROVE NameOK(q)'
    <3>1. NameOK(q) /\ lost \in Nat
      BY DEF FilterInv, FilterType
    <3>2. CASE q = c
      <4>1. Reads' /\ lastfile'[c] # NULL => LeftOver(c)'
        BY <1>1, <2>1, <3>1, <3>2 DEF filterVars, NameOK, LeftOver, Mistaken
      <4>2. <<"file", c>> \in wrong' => Mistaken(c)'
        BY <1>1, <2>1, <3>1, <3>2 DEF filterVars, NameOK, Mistaken
      <4>3. proc'[c] # NULL /\ proc'[c].opening = NULL
        BY <1>2
      <4> QED BY <3>2, <4>1, <4>2, <4>3 DEF NameOK
    <3>3. CASE q # c
      BY <1>1, <1>2, <2>1, <3>1, <3>3 DEF filterVars, NameOK, LeftOver, Mistaken
    <3> QED BY <3>2, <3>3
  <2>4. ASSUME NEW q \in Pids PROVE ParentOK(q)'
    <3>1. ParentOK(q) /\ lost \in Nat
      BY DEF FilterInv, FilterType
    <3> QED BY <2>1, <3>1 DEF filterVars, ParentOK
  <2>5. ASSUME NEW q \in Pids PROVE SeenOK(q)'
    BY <1>1, <1>2, <2>1 DEF FilterInv, FilterType, filterVars, SeenOK
  <2> QED BY <2>2, <2>3, <2>4, <2>5 DEF FilterInv
<1> QED BY <1>3, <1>4 DEF Fork, Seen

LEMMA ExecKeeps ==
    ASSUME FilterInv, NEW p \in Pids, NEW broken, Exec(p, broken)
    PROVE  FilterInv'
<1>1. /\ proc[p] \in Processes
      /\ proc' = [proc EXCEPT ![p].execd = TRUE]
      /\ veterans' = veterans /\ strays' = strays
  BY DEF FilterInv, FilterType, Exec
<1>2. /\ proc' \in [Pids -> Processes \cup {NULL}]
      /\ proc[p] # NULL /\ proc'[p] # NULL /\ proc'[p].execd
      /\ proc'[p].parent = proc[p].parent /\ proc'[p].opening = proc[p].opening
      /\ \A q \in Pids \ {p} : proc'[q] = proc[q]
  BY <1>1, NullAssumption DEF FilterInv, FilterType, Processes
<1>3. CASE /\ script = "trace" /\ UNCHANGED lost
           /\ FilterExec(p, proc[p].parent, ~proc[p].execd, broken)
  <2>1. CASE p \in seen
    <3>1. /\ UNCHANGED <<lastfile, getppid, seen, lost, script>>
          /\ wrong' = IF ~proc[p].execd THEN wrong \cup {<<"exec", p>>} ELSE wrong
      BY <1>3, <2>1 DEF FilterExec, Mistake, scriptVars
    <3>2. ~proc[p].execd => p \in veterans
      BY <2>1 DEF FilterInv, SeenOK
    <3> QED BY <1>1, <1>2, <3>1, <3>2 DEF FilterInv, FilterType, NameOK, LeftOver, Mistaken,
                                          ParentOK, SeenOK, Reads
  <2>2. CASE p \notin seen
    <3>1. /\ seen' = seen \cup {p}
          /\ getppid' = [getppid EXCEPT ![p] = NULL]
          /\ UNCHANGED <<lastfile, lost>>
          /\ Reads
          /\ wrong' = IF getppid[p] \notin {proc[p].parent, NULL}
                      THEN wrong \cup {<<"parent", p>>} ELSE wrong
      BY <1>3, <2>2 DEF FilterExec, Mistake, AfterWrite, Reads
    <3>2. getppid[p] \notin {proc[p].parent, NULL} => lost > 0
      <4>1. ParentOK(p) /\ lost \in Nat
        BY DEF FilterInv, FilterType
      <4> QED BY <4>1, <1>2, <3>1 DEF ParentOK
    <3> QED BY <1>1, <1>2, <3>1, <3>2 DEF FilterInv, FilterType, NameOK, LeftOver, Mistaken,
                                          ParentOK, SeenOK
  <2> QED BY <2>1, <2>2
<1>4. CASE \/ lost < MaxLost /\ lost' = lost + 1 /\ FilterLost(broken)
           \/ script = "drain" /\ FilterGone /\ UNCHANGED lost
  <2>1. /\ UNCHANGED filterVars
        /\ lost' \in Nat /\ lost' >= lost
        /\ Reads' => Reads /\ lost' = lost + 1
    BY <1>4, Unseen DEF FilterInv, FilterType
  <2> QED BY <1>1, <1>2, <2>1 DEF FilterInv, FilterType, filterVars, NameOK, LeftOver,
                                  Mistaken, ParentOK, SeenOK
<1> QED BY <1>3, <1>4 DEF Exec, Seen

LEMMA ExitKeeps ==
    ASSUME FilterInv, NEW p \in Pids, Exit(p)
    PROVE  FilterInv'
<1>1. /\ proc[p] # NULL /\ proc[p].opening = NULL
      /\ proc' = [proc EXCEPT ![p] = NULL]
      /\ veterans' = IF proc[p].execd THEN veterans \cup {p} ELSE veterans
      /\ UNCHANGED <<lost, strays, script, filterVars>>
  BY DEF Exit, scriptVars
<1> QED BY <1>1 DEF FilterInv, FilterType, filterVars, NameOK, LeftOver, Mistaken, ParentOK,
                    SeenOK, Reads

LEMMA FilterInvNext == FilterInv /\ [Next]_vars => FilterInv'
<1> SUFFICES ASSUME FilterInv, [Next]_vars PROVE FilterInv'
  OBVIOUS
<1>1. CASE Kernel
  BY <1>1, GetnameKeeps, OpenReturnsKeeps, OpenUntracedKeeps, ForkKeeps, ExecKeeps, ExitKeeps
  DEF Kernel, KernelStep
<1>2. CASE ~Kernel
  BY <1>2, OtherSteps DEF FilterInv, FilterType, filterVars, kernelVars, NameOK, LeftOver,
                          Mistaken, ParentOK, SeenOK
<1> QED BY <1>1, <1>2

\* For every number of processes, files, events and losses: the filter reports
\* an open call with the file of another only after two lost events, or after one
\* if its pid has made an openat or creat; never without a loss.  It reports an
\* exec call with a wrong parent only after a loss.
THEOREM WrongNeedsLosses == Spec => []MistakesNeedLosses
<1>1. FilterInv => MistakesNeedLosses
  BY DEF FilterInv, NameOK, Mistaken, ParentOK, MistakesNeedLosses
<1> QED BY <1>1, FilterInvInit, FilterInvNext, PTL DEF Spec

\* An exec call that is the first of its process is left out only for the mark
\* that an earlier process of the pid has left in seen.
THEOREM MissingNeedsReuse == Spec => []ExecsNeedReuse
<1>1. FilterInv => ExecsNeedReuse
  BY DEF FilterInv, SeenOK, ExecsNeedReuse
<1> QED BY <1>1, FilterInvInit, FilterInvNext, PTL DEF Spec

-----------------------------------------------------------------------------
(* The two connections *)

Got(k) == conn[k] \in {"made", "hungup"}

ConnType ==
    /\ backlog \in [Kinds -> Seq(Nat)]
    /\ DOMAIN conn = Kinds /\ DOMAIN wire = Kinds
    /\ daemon \in Nat

\* Before the first accept: without a daemon that ended half connected, the two
\* backlogs are the same but for the last connection of the present daemon.
SameBacklogs ==
    /\ (Got("open") <=> Got("exec")) => backlog["open"] = backlog["exec"]
    /\ Got("open") /\ ~Got("exec") => backlog["open"] = Append(backlog["exec"], daemon)
    /\ Got("exec") /\ ~Got("open") => backlog["exec"] = Append(backlog["open"], daemon)

\* Between the accepts: the daemon that was accepted is the next on the other
\* socket, or the present one that has yet to connect there.
PartnerNext ==
    IF backlog["exec"] # <<>> THEN Head(backlog["exec"]) = wire["open"]
    ELSE wire["open"] = daemon /\ Got("open") /\ ~Got("exec")

WireInv ==
    half = {} =>
        /\ child \in {"none", "setup", "listen", "close", "ready", "start", "acceptOpen"}
              => SameBacklogs /\ wire["open"] = 0
        /\ child = "acceptExec" /\ wire["open"] # 0 => PartnerNext
        /\ child \in {"exec", "command"} => wire["open"] = wire["exec"]

LEMMA WireInvInit == Init => ConnType /\ WireInv
<1> SUFFICES ASSUME Init PROVE ConnType /\ WireInv
  OBVIOUS
<1>1. backlog = [k \in Kinds |-> <<>>] /\ DOMAIN conn = Kinds /\ DOMAIN wire = Kinds
  BY DEF Init, Fresh, Tracing, WrapperInit, DaemonInit
<1>2. daemon \in Nat
  BY DaemonsAssumption DEF Init, Fresh, Tracing, DaemonInit
<1>3. CASE Fresh
  BY <1>1, <1>2, <1>3 DEF Fresh, WrapperInit, DaemonInit, ConnType, WireInv, SameBacklogs,
                          Got, Kinds
<1>4. CASE Tracing
  BY <1>1, <1>2, <1>4 DEF Tracing, ConnType, WireInv, Kinds
<1> QED BY <1>3, <1>4 DEF Init

\* A daemon that ends with one connection is remembered.
LEMMA HalfRemembered ==
    ASSUME Daemon, daemon' # daemon, half' = {}
    PROVE  Got("open") <=> Got("exec")
<1>1. ASSUME NEW k \in Kinds, Made = {k} PROVE FALSE
  <2>1. Cardinality(Made) = 1
    BY <1>1, FS_Singleton
  <2> QED BY <2>1 DEF Daemon
<1>2. Made = {k \in Kinds : Got(k)}
  BY DEF Made, Got
<1>3. Got("open") /\ ~Got("exec") => Made = {"open"}
  BY <1>2 DEF Kinds
<1>4. Got("exec") /\ ~Got("open") => Made = {"exec"}
  BY <1>2 DEF Kinds
<1> QED BY <1>1, <1>3, <1>4 DEF Kinds

LEMMA DaemonKeepsWires ==
    ASSUME ConnType, WireInv, Daemon
    PROVE  ConnType' /\ WireInv'
<1>1. half' = {} => half = {}
  BY DEF Daemon
<1>2. ASSUME NEW k \in Kinds, DaemonConnect(k), k \in listening
      PROVE  ConnType' /\ WireInv'
  <2>1. /\ UNCHANGED <<child, wire, daemon>>
        /\ conn[k] = "idle" /\ conn' = [conn EXCEPT ![k] = "made"]
        /\ backlog' = [backlog EXCEPT ![k] = Append(backlog[k], daemon)]
    BY <1>2 DEF DaemonConnect
  <2>2. ConnType'
    BY <2>1 DEF ConnType
  <2>3. /\ backlog'[k] = Append(backlog[k], daemon) /\ ~Got(k) /\ Got(k)'
        /\ \A j \in Kinds \ {k} : backlog'[j] = backlog[j] /\ conn'[j] = conn[j]
    BY <2>1 DEF ConnType, Got
  <2>4. SameBacklogs => SameBacklogs'
    BY <2>1, <2>3 DEF SameBacklogs, Kinds, Got
  <2>5. PartnerNext => PartnerNext'
    <3>1. CASE k = "open"
      BY <2>1, <2>3, <3>1 DEF PartnerNext, Kinds, Got
    <3>2. CASE k = "exec"
      <4>1. backlog["exec"] \in Seq(Nat)
        BY DEF ConnType, Kinds
      <4>2. /\ backlog'["exec"] # <<>>
            /\ backlog["exec"] # <<>> => Head(backlog'["exec"]) = Head(backlog["exec"])
            /\ backlog["exec"] = <<>> => Head(backlog'["exec"]) = daemon
        BY <2>3, <3>2, <4>1 DEF ConnType
      <4> QED BY <2>1, <3>2, <4>2 DEF PartnerNext
    <3> QED BY <3>1, <3>2 DEF Kinds
  <2> QED BY <1>1, <2>1, <2>2, <2>4, <2>5 DEF WireInv
<1>3. ASSUME UNCHANGED <<child, wire, daemon, backlog>>, DOMAIN conn' = Kinds,
             \A k \in Kinds : Got(k)' <=> Got(k)
      PROVE  ConnType' /\ WireInv'
  BY <1>1, <1>3 DEF ConnType, WireInv, SameBacklogs, PartnerNext, Kinds
<1>4. ASSUME NEW k \in Kinds,
             (DaemonConnect(k) /\ k \notin listening) \/ DaemonHangsUp(k)
      PROVE  ConnType' /\ WireInv'
  <2>1. UNCHANGED <<child, wire, daemon, backlog>> /\ DOMAIN conn' = Kinds
    BY <1>4 DEF DaemonConnect, DaemonHangsUp, wrapperVars, ConnType
  <2>2. \A j \in Kinds : Got(j)' <=> Got(j)
    BY <1>4 DEF DaemonConnect, DaemonHangsUp, Got, ConnType
  <2> QED BY <1>3, <2>1, <2>2
<1>5. CASE DaemonRestarts
  <2>1. /\ UNCHANGED <<child, wire, backlog>>
        /\ daemon' = daemon + 1 /\ daemon' # daemon
        /\ DOMAIN conn' = Kinds
        /\ \A k \in Kinds : ~Got(k)'
    BY <1>5 DEF DaemonRestarts, wrapperVars, Got, ConnType
  <2>2. half' = {} => (Got("open") <=> Got("exec"))
    BY <2>1, HalfRemembered
  <2>3. (Got("open") <=> Got("exec")) /\ SameBacklogs => SameBacklogs'
    BY <2>1 DEF SameBacklogs, Kinds
  <2>4. (Got("open") <=> Got("exec")) /\ PartnerNext => PartnerNext'
    BY <2>1 DEF PartnerNext
  <2> QED BY <1>1, <2>1, <2>2, <2>3, <2>4 DEF WireInv, ConnType
<1> QED BY <1>2, <1>4, <1>5 DEF Daemon, DaemonStep

LEMMA ChildKeepsWires ==
    ASSUME ConnType, WireInv, Child
    PROVE  ConnType' /\ WireInv'
<1>0. UNCHANGED <<conn, daemon, half>>
  BY DEF Child, daemonVars
<1>1. ASSUME ChildEnds, DOMAIN wire' = Kinds PROVE ConnType' /\ WireInv'
  BY <1>0, <1>1 DEF ChildEnds, ConnType, WireInv
<1>2. CASE ChildAcceptOpen
  <2>1. CASE UNCHANGED <<wire, backlog>>
    BY <1>0, <1>2, <2>1 DEF ChildAcceptOpen, ConnType, WireInv
  <2>2. CASE /\ backlog["open"] # <<>>
             /\ wire' = [wire EXCEPT !["open"] = Head(backlog["open"])]
             /\ backlog' = [backlog EXCEPT !["open"] = Tail(@)]
    <3>1. /\ ConnType'
          /\ wire'["open"] = Head(backlog["open"]) /\ backlog'["exec"] = backlog["exec"]
          /\ backlog["open"] \in Seq(Nat) /\ backlog["exec"] \in Seq(Nat)
      BY <1>0, <2>2 DEF ConnType, Kinds
    <3>2. SameBacklogs => PartnerNext'
      <4> SUFFICES ASSUME SameBacklogs PROVE PartnerNext'
        OBVIOUS
      <4>1. CASE Got("open") <=> Got("exec")
        BY <1>0, <2>2, <3>1, <4>1 DEF SameBacklogs, PartnerNext
      <4>2. CASE Got("open") /\ ~Got("exec")
        <5>1. backlog["open"] = Append(backlog["exec"], daemon) /\ daemon \in Nat
          BY <4>2 DEF SameBacklogs, ConnType
        <5>2. /\ backlog["exec"] # <<>> => Head(backlog["open"]) = Head(backlog["exec"])
              /\ backlog["exec"] = <<>> => Head(backlog["open"]) = daemon
          BY <3>1, <5>1
        <5> QED BY <1>0, <3>1, <4>2, <5>2 DEF PartnerNext, Got
      <4>3. CASE Got("exec") /\ ~Got("open")
        <5>1. backlog["exec"] = Append(backlog["open"], daemon) /\ daemon \in Nat
          BY <4>3 DEF SameBacklogs, ConnType
        <5>2. backlog["exec"] # <<>> /\ Head(backlog["exec"]) = Head(backlog["open"])
          BY <2>2, <3>1, <5>1
        <5> QED BY <3>1, <5>2 DEF PartnerNext
      <4> QED BY <4>1, <4>2, <4>3
    <3> QED BY <1>0, <1>2, <3>1, <3>2 DEF ChildAcceptOpen, WireInv
  <2> QED BY <1>2, <2>1, <2>2 DEF ChildAcceptOpen
<1>3. CASE ChildAcceptExec
  <2>1. CASE ChildEnds
    BY <1>1, <1>3, <2>1 DEF ChildAcceptExec, ConnType
  <2>2. CASE ~ChildEnds
    <3>1. /\ child = "acceptExec" /\ child' = "exec"
          /\ backlog["exec"] # <<>> /\ wire["open"] # 0
          /\ wire' = [wire EXCEPT !["exec"] = Head(backlog["exec"])]
          /\ backlog' = [backlog EXCEPT !["exec"] = Tail(@)]
      BY <1>3, <2>2 DEF ChildAcceptExec
    <3>2. ConnType'
      BY <1>0, <3>1 DEF ConnType, Kinds
    <3>3. half = {} => wire'["open"] = wire'["exec"]
      BY <3>1 DEF WireInv, PartnerNext, ConnType, Kinds
    <3> QED BY <1>0, <3>1, <3>2, <3>3 DEF WireInv
  <2> QED BY <2>1, <2>2
<1>4. ASSUME UNCHANGED <<wire, backlog>>,
             \/ /\ child \in {"setup", "listen", "close", "ready", "start"}
                /\ child' \in {"listen", "close", "ready", "start", "acceptOpen"}
             \/ child = "exec" /\ child' = "command"
      PROVE  ConnType' /\ WireInv'
  BY <1>0, <1>4 DEF ConnType, WireInv, SameBacklogs, Got
<1>5. CASE ChildSetup \/ ChildListen \/ ChildClose \/ ChildReady \/ ChildStart \/ ChildExec
  <2>1. CASE ChildEnds
    BY <1>1, <1>5, <2>1 DEF ChildSetup, ChildListen, ChildClose, ChildReady, ChildStart,
                            ChildExec, ConnType
  <2>2. CASE ~ChildEnds
    BY <1>4, <1>5, <2>2 DEF ChildSetup, ChildListen, ChildClose, ChildReady, ChildStart,
                            ChildExec
  <2> QED BY <2>1, <2>2
<1> QED BY <1>2, <1>3, <1>5 DEF Child, ChildStep

LEMMA WireInvNext == ScriptInv /\ ConnType /\ WireInv /\ [Next]_vars => (ConnType /\ WireInv)'
<1> SUFFICES ASSUME ScriptInv, ConnType, WireInv, [Next]_vars PROVE (ConnType /\ WireInv)'
  OBVIOUS
<1>1. ASSUME UNCHANGED <<conn, daemon, half, wire, backlog>>,
             child' = child \/ (child = "none" /\ child' = "setup")
      PROVE  (ConnType /\ WireInv)'
  BY <1>1 DEF ConnType, WireInv, SameBacklogs, PartnerNext, Got
<1>2. ASSUME child' = "gone", backlog' = [k \in Kinds |-> <<>>],
             UNCHANGED <<conn, daemon, half, wire>>
      PROVE  (ConnType /\ WireInv)'
  BY <1>2 DEF ConnType, WireInv
<1>3. CASE Parent
  BY <1>1, <1>3 DEF Parent, ParentStep, ParentPrime, ParentClose, ParentReady, ParentKnows,
                    ParentRun, ParentWait, ParentEnds, daemonVars, ScriptInv
<1>4. CASE Script \/ Kernel \/ UNCHANGED vars
  BY <1>1, <1>4 DEF Script, Kernel, vars, wrapperVars, daemonVars
<1>5. CASE ScriptExits
  BY <1>2, <1>5 DEF ScriptExits, CommandExit, ChildEnds, daemonVars
<1>6. CASE Terminate
  BY <1>1, <1>2, <1>6 DEF Terminate, Term, daemonVars
<1> QED BY <1>3, <1>4, <1>5, <1>6, ChildKeepsWires, DaemonKeepsWires DEF Next

\* For every number of restarts of the daemon: output and error of the command
\* go to the same daemon, unless one ended that had got only one of its two
\* connections.
THEOREM BothWiresOneDaemon == Spec => []WiredTogether
<1>1. WireInv => WiredTogether
  BY DEF WireInv, WiredTogether
<1> QED BY <1>1, ScriptInvInit, ScriptInvNext, WireInvInit, WireInvNext, PTL DEF Spec

-----------------------------------------------------------------------------
(* Types *)

\* A daemon connects once to each socket, so that a backlog never holds more
\* connections than there were daemons.
BacklogBound ==
    \A k \in Kinds : Len(backlog[k]) <= daemon /\ (Got(k) \/ Len(backlog[k]) < daemon)

WrapperType ==
    /\ parent \in {"prime", "close", "ready", "known", "run", "wait", "gone"}
    /\ child \in {"none", "setup", "listen", "close", "ready", "start", "acceptOpen",
                  "acceptExec", "exec", "command", "gone"}
    /\ fds \in [Ends -> SUBSET {"parent", "child"}]
    /\ sent \in BOOLEAN
    /\ listening \subseteq Kinds
    /\ backlog \in [Kinds -> Seq(1..MaxDaemons)]
    /\ wire \in [Kinds -> 0..MaxDaemons]
    /\ daemon \in 1..MaxDaemons
    /\ conn \in [Kinds -> {"idle", "refused", "made", "hungup"}]
    /\ half \subseteq 1..MaxDaemons

ScriptType ==
    /\ script \in {"trap", "lock", "probe", "trace", "drain", "end", "done"}
    /\ lock \in {"free", "ours", "other"}
    /\ probes \in BOOLEAN

KernelType ==
    /\ seen \cup veterans \cup strays \subseteq Pids
    /\ held \in 0..(HeldMax - 1)
    /\ lost \in 0..MaxLost

TypeInv == WrapperType /\ BacklogBound /\ ScriptType /\ KernelType

LEMMA TypeInvInit == Init => TypeInv
<1> SUFFICES ASSUME Init PROVE TypeInv
  OBVIOUS
<1>1. KernelType
  <2>1. seen = {} /\ veterans = {} /\ strays = {} /\ held = 0 /\ lost = 0
    BY DEF Init, FilterInit, Fresh, Tracing, KernelInit
  <2>2. HeldMax \in Nat \ {0} /\ MaxLost \in Nat
    BY ScriptAssumption
  <2>3. held \in 0..(HeldMax - 1) /\ lost \in 0..MaxLost
    BY <2>1, <2>2
  <2> QED BY <2>1, <2>3 DEF KernelType
<1>2. ScriptType
  BY DEF Init, Fresh, Tracing, ScriptInit, ScriptType
<1>3. /\ backlog = [k \in Kinds |-> <<>>]
      /\ \A k \in Kinds : backlog[k] = <<>> /\ Len(backlog[k]) = 0
  BY DEF Init, Fresh, Tracing, WrapperInit
<1>4. daemon \in 1..MaxDaemons /\ wire \in [Kinds -> 0..MaxDaemons] /\ half = {}
  BY DaemonsAssumption DEF Init, Fresh, Tracing, WrapperInit, DaemonInit
<1>5. WrapperType
  <2>1. backlog \in [Kinds -> Seq(1..MaxDaemons)]
    BY <1>3
  <2>2. CASE Fresh
    BY <1>4, <2>1, <2>2 DEF Fresh, WrapperInit, DaemonInit, WrapperType
  <2>3. CASE Tracing
    BY <1>4, <2>1, <2>3 DEF Tracing, WrapperType
  <2> QED BY <2>2, <2>3 DEF Init
<1>6. BacklogBound
  BY <1>3, <1>4, DaemonsAssumption DEF BacklogBound
<1> QED BY <1>1, <1>2, <1>5, <1>6 DEF TypeInv

LEMMA CloseType ==
    ASSUME WrapperType, NEW p, NEW ends
    PROVE  Close(p, ends) \in [Ends -> SUBSET {"parent", "child"}]
BY DEF WrapperType, Close

\* Empty backlogs
LEMMA EmptyBacklogs ==
    ASSUME WrapperType, backlog' = [k \in Kinds |-> <<>>], UNCHANGED <<daemon, conn>>
    PROVE  backlog' \in [Kinds -> Seq(1..MaxDaemons)] /\ BacklogBound'
<1>1. \A k \in Kinds : backlog'[k] = <<>> /\ Len(backlog'[k]) = 0
  OBVIOUS
<1>2. daemon \in 1..MaxDaemons /\ MaxDaemons \in Nat
  BY DaemonsAssumption DEF WrapperType
<1>3. backlog' \in [Kinds -> Seq(1..MaxDaemons)]
  OBVIOUS
<1>4. BacklogBound'
  BY <1>1, <1>2 DEF BacklogBound
<1> QED BY <1>3, <1>4

LEMMA ParentTypes ==
    ASSUME WrapperType, BacklogBound, Parent \/ Terminate
    PROVE  WrapperType' /\ BacklogBound'
<1>0. UNCHANGED <<daemon, conn, half>>
  BY DEF Parent, Terminate, daemonVars
<1>1. \A p, ends : Close(p, ends) \in [Ends -> SUBSET {"parent", "child"}]
  BY CloseType
<1>2. CASE Parent
  <2>1. UNCHANGED <<listening, backlog, wire>>
    BY <1>2 DEF Parent, ParentStep, ParentPrime, ParentClose, ParentReady, ParentKnows,
                ParentRun, ParentWait
  <2>2. /\ parent' \in {"close", "ready", "known", "run", "wait", "gone"}
        /\ child' \in {child, "setup"}
        /\ sent' \in {sent, TRUE}
    BY <1>2 DEF Parent, ParentStep, ParentPrime, ParentClose, ParentReady, ParentKnows,
                ParentRun, ParentWait, ParentEnds
  <2>3. fds' \in [Ends -> SUBSET {"parent", "child"}]
    <3>1. \/ fds' = fds \/ fds' = [e \in Ends |-> {"parent", "child"}]
          \/ \E p, ends : fds' = Close(p, ends)
      BY <1>2, Zenon DEF Parent, ParentStep, ParentPrime, ParentClose, ParentReady, ParentKnows,
                ParentRun, ParentWait, ParentEnds
    <3> QED BY <1>1, <3>1 DEF WrapperType
  <2> QED BY <1>0, <2>1, <2>2, <2>3 DEF WrapperType, BacklogBound, Got
<1>3. CASE Terminate
  <2>1. /\ parent' = "gone" /\ child' \in {child, "gone"} /\ listening' \subseteq listening
        /\ UNCHANGED <<sent, wire>>
        /\ fds' = [e \in Ends |-> {}] \/ fds' = Close("parent", Ends)
        /\ backlog' = backlog \/ backlog' = [k \in Kinds |-> <<>>]
    BY <1>3 DEF Terminate, Term
  <2>2. fds' \in [Ends -> SUBSET {"parent", "child"}]
    BY <1>1, <2>1
  <2>3. backlog' \in [Kinds -> Seq(1..MaxDaemons)] /\ BacklogBound'
    BY <1>0, <2>1, EmptyBacklogs DEF WrapperType, BacklogBound, Got
  <2> QED BY <1>0, <2>1, <2>2, <2>3 DEF WrapperType
<1> QED BY <1>2, <1>3

\* An accept takes the oldest connection of a backlog.
LEMMA AcceptTypes ==
    ASSUME WrapperType, BacklogBound, NEW k \in Kinds, backlog[k] # <<>>,
           UNCHANGED <<daemon, conn>>
    PROVE  /\ Head(backlog[k]) \in 0..MaxDaemons
           /\ backlog' = [backlog EXCEPT ![k] = Tail(@)] =>
                 backlog' \in [Kinds -> Seq(1..MaxDaemons)] /\ BacklogBound'
<1>1. backlog[k] \in Seq(1..MaxDaemons) /\ daemon \in 1..MaxDaemons /\ MaxDaemons \in Nat
  BY DaemonsAssumption DEF WrapperType
<1>2. /\ Head(backlog[k]) \in 1..MaxDaemons /\ Tail(backlog[k]) \in Seq(1..MaxDaemons)
      /\ Len(Tail(backlog[k])) = Len(backlog[k]) - 1 /\ Len(backlog[k]) \in Nat
  <2> DEFINE s == backlog[k]
             S == 1..MaxDaemons
  <2>1. s \in Seq(S) /\ s # <<>>
    BY <1>1
  <2> HIDE DEF s, S
  <2>2. Head(s) \in S /\ Tail(s) \in Seq(S) /\ Len(Tail(s)) = Len(s) - 1 /\ Len(s) \in Nat
    BY <2>1
  <2> QED BY <2>2 DEF s, S
<1>3. ASSUME backlog' = [backlog EXCEPT ![k] = Tail(@)]
      PROVE  backlog' \in [Kinds -> Seq(1..MaxDaemons)] /\ BacklogBound'
  <2>1. \A j \in Kinds : backlog'[j] = IF j = k THEN Tail(backlog[k]) ELSE backlog[j]
    BY <1>3 DEF WrapperType
  <2>2. backlog' \in [Kinds -> Seq(1..MaxDaemons)]
    BY <1>2, <1>3 DEF WrapperType
  <2>3. ASSUME NEW j \in Kinds
        PROVE  (Len(backlog[j]) <= daemon /\ (Got(j) \/ Len(backlog[j]) < daemon))'
    <3>1. CASE j = k
      <4>1. Len(backlog[k]) <= daemon /\ Len(backlog'[k]) = Len(backlog[k]) - 1
        BY <1>2, <2>1, <3>1 DEF BacklogBound
      <4> QED BY <1>1, <1>2, <3>1, <4>1
    <3>2. CASE j # k
      BY <2>1, <3>2 DEF BacklogBound, Got
    <3> QED BY <3>1, <3>2
  <2>4. BacklogBound'
    BY <2>3 DEF BacklogBound
  <2> QED BY <2>2, <2>4
<1> QED BY <1>1, <1>2, <1>3

LEMMA ChildTypes ==
    ASSUME WrapperType, BacklogBound, Child \/ ScriptExits
    PROVE  WrapperType' /\ BacklogBound'
<1>0. UNCHANGED <<daemon, conn, half, parent>>
  BY DEF Child, ChildStep, ChildSetup, ChildListen, ChildClose, ChildReady, ChildStart,
         ChildAcceptOpen, ChildAcceptExec, ChildExec, ScriptExits, CommandExit, daemonVars
<1>1. \A p, ends : Close(p, ends) \in [Ends -> SUBSET {"parent", "child"}]
  BY CloseType
<1>2. ASSUME ChildEnds, sent' = sent, wire' \in [Kinds -> 0..MaxDaemons]
      PROVE  WrapperType' /\ BacklogBound'
  <2>1. /\ child' = "gone" /\ listening' = {} /\ fds' = Close("child", Ends)
        /\ backlog' = [k \in Kinds |-> <<>>]
    BY <1>2 DEF ChildEnds
  <2>2. backlog' \in [Kinds -> Seq(1..MaxDaemons)] /\ BacklogBound'
    BY <1>0, <2>1, EmptyBacklogs
  <2> QED BY <1>0, <1>1, <1>2, <2>1, <2>2 DEF WrapperType
<1>3. CASE ScriptExits
  BY <1>2, <1>3 DEF ScriptExits, CommandExit, WrapperType
<1>4. CASE ChildSetup \/ ChildListen \/ ChildClose \/ ChildReady \/ ChildStart \/ ChildExec
  <2>1. CASE ChildEnds
    <3>1. UNCHANGED <<sent, wire>>
      BY <1>4, <2>1 DEF ChildSetup, ChildListen, ChildClose, ChildReady, ChildStart, ChildExec,
                        ChildEnds
    <3> QED BY <1>2, <2>1, <3>1 DEF WrapperType
  <2>2. CASE ~ChildEnds
    <3>1. /\ UNCHANGED <<backlog, wire>> /\ sent' \in {sent, FALSE}
          /\ child' \in {"listen", "close", "ready", "start", "acceptOpen", "command"}
          /\ listening' \subseteq listening \cup {"open", "exec"}
      BY <1>4, <2>2 DEF ChildSetup, ChildListen, ChildClose, ChildReady, ChildStart, ChildExec
    <3>2. fds' = fds \/ \E p, ends : fds' = Close(p, ends)
      BY <1>4, <2>2, Zenon DEF ChildSetup, ChildListen, ChildClose, ChildReady, ChildStart,
                               ChildExec
    <3>3. fds' \in [Ends -> SUBSET {"parent", "child"}]
      BY <1>1, <3>2 DEF WrapperType
    <3> QED BY <1>0, <3>1, <3>3 DEF WrapperType, BacklogBound, Got, Kinds
  <2> QED BY <2>1, <2>2
<1>5. CASE ChildAcceptOpen
  <2>1. UNCHANGED <<fds, sent, listening>> /\ child' = "acceptExec"
    BY <1>5 DEF ChildAcceptOpen
  <2>2. CASE UNCHANGED <<wire, backlog>>
    BY <1>0, <2>1, <2>2 DEF WrapperType, BacklogBound, Got
  <2>3. CASE /\ backlog["open"] # <<>>
             /\ wire' = [wire EXCEPT !["open"] = Head(backlog["open"])]
             /\ backlog' = [backlog EXCEPT !["open"] = Tail(@)]
    <3>1. /\ Head(backlog["open"]) \in 0..MaxDaemons
          /\ backlog' \in [Kinds -> Seq(1..MaxDaemons)] /\ BacklogBound'
      BY <1>0, <2>3, AcceptTypes DEF Kinds
    <3>2. wire' \in [Kinds -> 0..MaxDaemons]
      BY <2>3, <3>1 DEF WrapperType
    <3> QED BY <1>0, <2>1, <3>1, <3>2 DEF WrapperType
  <2> QED BY <1>5, <2>2, <2>3 DEF ChildAcceptOpen
<1>6. CASE ChildAcceptExec
  <2>1. sent' = sent
    BY <1>6 DEF ChildAcceptExec
  <2>2. CASE UNCHANGED wire /\ ChildEnds
    BY <1>2, <2>1, <2>2 DEF WrapperType
  <2>3. CASE /\ backlog["exec"] # <<>>
             /\ wire' = [wire EXCEPT !["exec"] = Head(backlog["exec"])]
             /\ \/ ChildEnds
                \/ /\ child' = "exec" /\ UNCHANGED <<listening, fds>>
                   /\ backlog' = [backlog EXCEPT !["exec"] = Tail(@)]
    <3>1. /\ Head(backlog["exec"]) \in 0..MaxDaemons
          /\ backlog' = [backlog EXCEPT !["exec"] = Tail(@)] =>
                backlog' \in [Kinds -> Seq(1..MaxDaemons)] /\ BacklogBound'
      BY <1>0, <2>3, AcceptTypes DEF Kinds
    <3>2. wire' \in [Kinds -> 0..MaxDaemons]
      BY <2>3, <3>1 DEF WrapperType
    <3>3. CASE ChildEnds
      BY <1>2, <2>1, <3>2, <3>3
    <3>4. CASE ~ChildEnds
      BY <1>0, <2>1, <2>3, <3>1, <3>2, <3>4 DEF WrapperType
    <3> QED BY <3>3, <3>4
  <2> QED BY <1>6, <2>2, <2>3 DEF ChildAcceptExec
<1> QED BY <1>3, <1>4, <1>5, <1>6 DEF Child, ChildStep

LEMMA DaemonTypes ==
    ASSUME WrapperType, BacklogBound, Daemon
    PROVE  WrapperType' /\ BacklogBound'
<1>0. half' \subseteq 1..MaxDaemons /\ daemon \in 1..MaxDaemons /\ MaxDaemons \in Nat
  BY DaemonsAssumption DEF Daemon, WrapperType
<1>1. ASSUME NEW k \in Kinds, DaemonConnect(k) PROVE WrapperType' /\ BacklogBound'
  <2>1. UNCHANGED <<parent, child, fds, sent, listening, wire, daemon>> /\ conn[k] = "idle"
    BY <1>1 DEF DaemonConnect
  <2>2. CASE k \in listening
    <3>1. /\ conn' = [conn EXCEPT ![k] = "made"]
          /\ backlog' = [backlog EXCEPT ![k] = Append(backlog[k], daemon)]
      BY <1>1, <2>2 DEF DaemonConnect
    <3>2. backlog[k] \in Seq(1..MaxDaemons) /\ Len(backlog[k]) \in Nat
      BY DEF WrapperType
    <3>3. /\ Append(backlog[k], daemon) \in Seq(1..MaxDaemons)
          /\ Len(Append(backlog[k], daemon)) = Len(backlog[k]) + 1
      BY <1>0, <3>2
    <3>4. WrapperType'
      BY <1>0, <2>1, <3>1, <3>3 DEF WrapperType
    <3>5. \A j \in Kinds : /\ backlog'[j] = IF j = k THEN Append(backlog[k], daemon) ELSE backlog[j]
                           /\ conn'[j] = IF j = k THEN "made" ELSE conn[j]
      BY <3>1 DEF WrapperType
    <3>6. Len(backlog[k]) < daemon
      BY <2>1 DEF BacklogBound, Got
    <3>7. ASSUME NEW j \in Kinds
          PROVE  (Len(backlog[j]) <= daemon /\ (Got(j) \/ Len(backlog[j]) < daemon))'
      <4>1. CASE j = k
        <5>1. Len(backlog'[k]) = Len(backlog[k]) + 1 /\ conn'[k] = "made"
          BY <3>3, <3>5
        <5> QED BY <1>0, <2>1, <3>2, <3>6, <4>1, <5>1 DEF Got
      <4>2. CASE j # k
        BY <2>1, <3>5, <4>2 DEF BacklogBound, Got
      <4> QED BY <4>1, <4>2
    <3>8. BacklogBound'
      BY <3>7 DEF BacklogBound
    <3> QED BY <3>4, <3>8
  <2>3. CASE k \notin listening
    BY <1>0, <1>1, <2>1, <2>3 DEF DaemonConnect, WrapperType, BacklogBound, Got
  <2> QED BY <2>2, <2>3
<1>2. ASSUME NEW k \in Kinds, DaemonHangsUp(k) PROVE WrapperType' /\ BacklogBound'
  BY <1>0, <1>2 DEF DaemonHangsUp, wrapperVars, WrapperType, BacklogBound, Got
<1>3. CASE DaemonRestarts
  <2>1. /\ UNCHANGED wrapperVars /\ daemon' = daemon + 1 /\ daemon' \in 1..MaxDaemons
        /\ conn' = [k \in Kinds |-> "idle"]
    BY <1>0, <1>3 DEF DaemonRestarts
  <2>2. \A k \in Kinds : Len(backlog[k]) \in Nat
    BY DEF WrapperType
  <2> QED BY <1>0, <2>1, <2>2 DEF wrapperVars, WrapperType, BacklogBound, Got
<1> QED BY <1>1, <1>2, <1>3 DEF Daemon, DaemonStep

LEMMA KernelTypes ==
    ASSUME ScriptType, KernelType, Kernel
    PROVE  ScriptType' /\ KernelType'
<1> DEFINE broken == {k \in Kinds : Broken(k)}
<1>0. held \in Nat /\ held < HeldMax /\ HeldMax \in Nat \ {0} /\ MaxLost \in Nat
  BY ScriptAssumption DEF KernelType
<1>1. UNCHANGED <<lock, probes>> /\ script' \in {script, "drain", "end"}
  BY DEF Kernel, KernelStep, Getname, OpenReturns, OpenUntraced, Fork, Exec, Exit, Seen,
         FilterGetname,
         FilterOpen, FilterFork, FilterExec, FilterGone, FilterLost, AfterWrite, scriptVars
<1>2. lost' \in 0..MaxLost
  <2>1. lost' = lost \/ (lost < MaxLost /\ lost' = lost + 1)
    BY DEF Kernel, KernelStep, Getname, OpenReturns, OpenUntraced, Fork, Exec, Exit, Seen
  <2> QED BY <1>0, <2>1 DEF KernelType
<1>3. PICK p \in Pids :
         \/ \E f \in Files : Getname(p, f, broken) \/ OpenUntraced(p, f, broken)
         \/ OpenReturns(p, broken)
         \/ \E c \in Pids \ {p} : Fork(p, c, broken)
         \/ Exec(p, broken)
         \/ Exit(p)
  BY DEF Kernel, KernelStep
<1> HIDE DEF broken
<1>4. veterans' \cup strays' \subseteq Pids
  BY <1>3 DEF Getname, OpenReturns, OpenUntraced, Fork, Exec, Exit, KernelType
<1>5. held' \in 0..(HeldMax - 1)
  <2>1. held' \in {held, 0} \/ (held' = held + 1 /\ held + 1 # HeldMax)
    BY <1>3 DEF Getname, OpenReturns, OpenUntraced, Fork, Exec, Exit, Seen, FilterGetname,
                FilterOpen,
                FilterFork, FilterExec, FilterGone, FilterLost, filterVars
  <2> QED BY <1>0, <2>1
<1>6. seen' \subseteq Pids
  <2>1. seen' \in {seen, seen \cup {p}, seen \ {p}}
    BY <1>3 DEF Getname, OpenReturns, OpenUntraced, Fork, Exec, Exit, Seen, FilterGetname,
                FilterOpen,
                FilterFork, FilterExec, FilterGone, FilterLost, filterVars
  <2> QED BY <2>1 DEF KernelType
<1> QED BY <1>1, <1>2, <1>4, <1>5, <1>6 DEF ScriptType, KernelType

LEMMA TypeInvNext == TypeInv /\ [Next]_vars => TypeInv'
<1> SUFFICES ASSUME TypeInv, [Next]_vars PROVE TypeInv'
  OBVIOUS
<1>1. CASE Parent
  BY <1>1, ParentTypes DEF TypeInv, Parent, scriptVars, filterVars, kernelVars, ScriptType,
                           KernelType
<1>2. CASE Terminate
  <2>1. ScriptType' /\ KernelType'
    BY <1>2 DEF TypeInv, Terminate, ScriptTerm, scriptVars, filterVars, kernelVars,
                ScriptType, KernelType
  <2> QED BY <1>2, <2>1, ParentTypes DEF TypeInv
<1>3. CASE Child \/ ScriptExits
  <2>1. ScriptType' /\ KernelType'
    BY <1>3 DEF TypeInv, Child, ScriptExits, scriptVars, filterVars, kernelVars, ScriptType,
                KernelType
  <2> QED BY <1>3, <2>1, ChildTypes DEF TypeInv
<1>4. CASE Daemon
  <2>1. ScriptType' /\ KernelType'
    BY <1>4 DEF TypeInv, Daemon, scriptVars, filterVars, kernelVars, ScriptType, KernelType
  <2> QED BY <1>4, <2>1, DaemonTypes DEF TypeInv
<1>5. CASE Script
  <2>1. ScriptType' /\ KernelType'
    BY <1>5 DEF TypeInv, Script, ScriptStep, ScriptTrap, ScriptLock, ScriptProbe, ScriptEnd,
                filterVars, kernelVars, ScriptType, KernelType
  <2>2. WrapperType' /\ BacklogBound'
    BY <1>5 DEF TypeInv, Script, wrapperVars, daemonVars, WrapperType, BacklogBound, Got
  <2> QED BY <2>1, <2>2 DEF TypeInv
<1>6. CASE Kernel
  <2>1. WrapperType' /\ BacklogBound'
    BY <1>6 DEF TypeInv, Kernel, wrapperVars, daemonVars, WrapperType, BacklogBound, Got
  <2> QED BY <1>6, <2>1, KernelTypes DEF TypeInv
<1>7. CASE UNCHANGED vars
  BY <1>7 DEF TypeInv, vars, wrapperVars, daemonVars, scriptVars, filterVars, kernelVars,
              WrapperType, BacklogBound, Got, ScriptType, KernelType
<1> QED BY <1>1, <1>2, <1>3, <1>4, <1>5, <1>6, <1>7 DEF Next

\* In particular no backlog outgrows the number of daemons, however often the
\* daemon is started, and awk never holds a full buffer back.
THEOREM TracerTypes == Spec => []TypeOK
<1>1. TypeInv /\ FilterInv => TypeOK
  <2> SUFFICES ASSUME TypeInv, FilterInv PROVE TypeOK
    OBVIOUS
  <2>1. ASSUME NEW k \in Kinds
        PROVE  backlog[k] \in UNION {[1..n -> 1..MaxDaemons] : n \in 0..MaxDaemons}
    <3>1. backlog[k] \in Seq(1..MaxDaemons) /\ daemon \in 1..MaxDaemons /\ MaxDaemons \in Nat
      BY DaemonsAssumption DEF TypeInv, WrapperType
    <3>2. Len(backlog[k]) \in Nat /\ backlog[k] \in [1..Len(backlog[k]) -> 1..MaxDaemons]
      BY <3>1
    <3>3. Len(backlog[k]) <= daemon
      BY DEF TypeInv, BacklogBound
    <3>4. Len(backlog[k]) \in 0..MaxDaemons
      BY <3>1, <3>2, <3>3
    <3> QED BY <3>2, <3>4
  <2>2. backlog \in [Kinds -> UNION {[1..n -> 1..MaxDaemons] : n \in 0..MaxDaemons}]
    BY <2>1 DEF TypeInv, WrapperType
  <2> QED BY <2>2 DEF TypeInv, WrapperType, ScriptType, KernelType, FilterInv, FilterType,
                      TypeOK
<1> QED BY <1>1, TypeInvInit, TypeInvNext, FilterInvInit, FilterInvNext, PTL DEF Spec
=============================================================================

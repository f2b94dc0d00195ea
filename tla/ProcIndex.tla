----------------------------- MODULE ProcIndex ------------------------------
(***************************************************************************)
(* The index of running processes and the dispatch queue, as the main      *)
(* thread of the watchdog drives them: exec and open calls are entered,    *)
(* dead processes are moved to the dispatch queue, the queue is emptied    *)
(* into the database, and at exit the index is flushed.  Only the main     *)
(* thread touches this state, so each function is one step.  The order in  *)
(* which the main loop calls them is left open here.                       *)
(***************************************************************************)
EXTENDS ProcIndexOps

CONSTANTS
    GuidePid,       \* ownPID, the guide for the initial size
    Pids,           \* the pids that appear in calls (also out of range)
    MaxExecs,       \* bound: exec calls in a behaviour
    MaxOpens        \* bound: open calls in a behaviour

ASSUME GuideAssumption == GuidePid \in Nat
ASSUME PidsAssumption == Pids \subseteq Nat
ASSUME BoundsAssumption == MaxExecs \in Nat /\ MaxOpens \in Nat

VARIABLES
    index,          \* surv.procs
    dispatchQueue,  \* surv.dispatchQueue, oldest first
    archived,       \* what surv_database_dispatch was given, in order
    execs,          \* number of exec calls received
    opens,          \* number of open calls received
    accepted,       \* the open calls for which opencall_add returned NOMINAL
    phase,          \* "running", "flushed", "exited" or "crashed"
    lost,           \* history: the open calls lost so far, to a full dispatch
                    \* queue or to an index that grew
    newest          \* history: the newest exec call of each pid, those that
                    \* were given up aside

vars == <<index, dispatchQueue, archived, execs, opens, accepted, phase, lost, newest>>

-----------------------------------------------------------------------------
(* Shapes *)

OCalls == [id : 1..MaxOpens, pid : Pids]

Procs == ProcsOf(0..MaxExecs, OCalls)

ASSUME PointersAssumption == NULL \notin Procs /\ Wild \notin Procs

TypeOK ==
    /\ index.size \in 1..(MaxPid + 1)
    /\ index.procs \in [Slots -> Procs \cup {NULL, Wild}]
    /\ dispatchQueue \in Seq(Procs \cup {Wild})
    /\ Len(dispatchQueue) <= DispatchSize
    /\ archived \in Seq(Procs)
    /\ execs \in 0..MaxExecs
    /\ opens \in 0..MaxOpens
    /\ accepted \subseteq OCalls
    /\ phase \in {"running", "flushed", "exited", "crashed"}
    /\ lost \subseteq OCalls
    /\ newest \in [Pids -> 0..MaxExecs]

Init ==
    /\ \E w \in Slack : index = NewIndex(GuidePid, w)
    /\ dispatchQueue = <<>>
    /\ archived = <<>>
    /\ execs = 0
    /\ opens = 0
    /\ accepted = {}
    /\ phase = "running"
    /\ lost = {}
    /\ newest = [pid \in Pids |-> Unknown]

-----------------------------------------------------------------------------
(* Operations *)

PhaseAfter(ret) == IF ret = "crash" THEN "crashed" ELSE phase

\* The index becomes ix2, and the processes `out' are enqueued for dispatch.
Becomes(ix2, out) ==
    /\ index' = ix2
    /\ dispatchQueue' = Enqueue(dispatchQueue, out)
    /\ lost' = UNION {lost, Overgrown(index, ix2), Dropped(dispatchQueue, out)}

\* surv_addExecCall
AddExecCall(pid, ppid) ==
    /\ phase = "running"
    /\ execs < MaxExecs
    /\ execs' = execs + 1
    /\ \E w \in Slack :
          LET added == AddReplacing(index, NewProc(execs + 1, pid, ppid), w)
          IN  /\ Becomes(added.ix, added.out)
              /\ phase' = PhaseAfter(added.ret)
    /\ newest' = [newest EXCEPT ![pid] = IF InRange(pid) THEN execs + 1 ELSE @]
    /\ UNCHANGED <<archived, opens, accepted>>

\* procindex_add as the main loop calls it when no open call is waiting: a
\* call whose pid is present is given up.
AddLoneExecCall(pid, ppid) ==
    /\ phase = "running"
    /\ execs < MaxExecs
    /\ execs' = execs + 1
    /\ \E w \in Slack :
          LET first == Add(index, NewProc(execs + 1, pid, ppid), w)
          IN  /\ Becomes(first.ix, <<>>)
              /\ phase' = PhaseAfter(first.ret)
              /\ newest' = [newest EXCEPT ![pid] = IF first.ret = "ok" THEN execs + 1 ELSE @]
    /\ UNCHANGED <<archived, opens, accepted>>

\* procindex_opencall_add
AddOpenCall(pid) ==
    /\ phase = "running"
    /\ opens < MaxOpens
    /\ opens' = opens + 1
    /\ \E w \in Slack :
          LET ocall == [id |-> opens + 1, pid |-> pid]
              added == OpencallAdd(index, pid, ocall, w)
          IN  /\ Becomes(added.ix, <<>>)
              /\ phase' = PhaseAfter(added.ret)
              /\ accepted' = IF added.ret = "ok" THEN accepted \cup {ocall} ELSE accepted
    /\ UNCHANGED <<archived, execs, newest>>

\* surv_check_proc_vitals
CheckProcVitals(gone) ==
    /\ phase = "running"
    /\ LET checked == CheckVitals(index, gone)
       IN  Becomes(checked.ix, checked.out)
    /\ UNCHANGED <<archived, execs, opens, accepted, phase, newest>>

\* surv_flush_procindex
FlushProcindex ==
    /\ phase = "running"
    /\ phase' = "flushed"
    /\ LET flushed == Flush(index)
       IN  Becomes(flushed.ix, flushed.out)
    /\ UNCHANGED <<archived, execs, opens, accepted, newest>>

\* The dispatch batch of the main loop: everything queued goes to the
\* database.  After a flush the loop ends.
Dispatch ==
    /\ phase \in {"running", "flushed"}
    /\ archived' = archived \o Batch(dispatchQueue)
    /\ phase' = IF Len(Batch(dispatchQueue)) < Len(dispatchQueue) THEN "crashed"
                ELSE IF phase = "flushed" THEN "exited" ELSE phase
    /\ dispatchQueue' = <<>>
    /\ UNCHANGED <<index, execs, opens, accepted, lost, newest>>

Next ==
    \/ \E pid \in Pids, ppid \in Pids \cup {0} : AddExecCall(pid, ppid)
    \/ \E pid \in Pids, ppid \in Pids \cup {0} : AddLoneExecCall(pid, ppid)
    \/ \E pid \in Pids : AddOpenCall(pid)
    \/ \E gone \in SUBSET (Pids \cap 1..MaxPid) : CheckProcVitals(gone)
    \/ FlushProcindex
    \/ Dispatch

Spec == Init /\ [][Next]_vars

-----------------------------------------------------------------------------
(* Properties *)

\* Every process is found under its own pid, and what the index says of it is
\* right.
IndexSound ==
    \A i \in 0..index.size :
        IsProc(index.procs[i]) => index.procs[i].pid + 1 = i /\ ProcSound(index.procs[i])

\* Where a process may be: in the database, queued for dispatch or in the
\* memory of the index.
Places ==
    UNION {{<<"archived", n>> : n \in 1..Len(archived)},
           {<<"queued", n>> : n \in {m \in 1..Len(dispatchQueue) : IsProc(dispatchQueue[m])}},
           {<<"word", i>> : i \in {j \in 0..index.size : IsProc(index.procs[j])}}}

ProcAt(place) ==
    CASE place[1] = "archived" -> archived[place[2]]
      [] place[1] = "queued" -> dispatchQueue[place[2]]
      [] place[1] = "word" -> index.procs[place[2]]

\* No call is held twice: an exec call is in one place, an open call in one
\* buffer (it would be archived twice and freed twice).
OneOwner ==
    \A p \in Places :
        /\ IsInjective(ProcAt(p).calls)
        /\ \A q \in Places \ {p} :
              /\ ProcAt(p).exec = Unknown \/ ProcAt(p).exec # ProcAt(q).exec
              /\ ToSet(ProcAt(p).calls) \cap ToSet(ProcAt(q).calls) = {}

\* The open calls that the daemon holds
Held == UNION {ToSet(ProcAt(p).calls) : p \in Places}

\* A call that procindex_opencall_add accepts is held from then on, and a step
\* that does not crash forgets only calls of processes that find no
\* room in the dispatch queue and of the process in the word behind an array
\* that grows.
KnownLosses ==
    [][/\ accepted' \ accepted \subseteq Held'
       /\ phase' # "crashed" => Held \ Held' \subseteq lost']_vars

\* At exit every open call that was ever accepted is in the database, except
\* those lost in these two ways and those of the process in the word behind
\* the array, which surv_flush_procindex does not visit.
AcceptedAreArchived ==
    phase = "exited" =>
        accepted \subseteq UNION {CallsOf(archived), lost, CallsOf(<<index.procs[index.size]>>)}

\* An open call is booked on a process whose exec call was not seen or on the
\* newest exec call of its pid, never on the process that had the pid before;
\* an exec call given up because it came alone while the pid was taken does
\* not count.
BookedOnNewest ==
    [][\A o \in accepted' \ accepted :
          index'.procs[o.pid + 1].exec \in {Unknown, newest[o.pid]}]_vars

\* The daemon never follows a null or wild pointer.
NeverCrashes == phase # "crashed"
=============================================================================

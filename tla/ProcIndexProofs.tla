-------------------------- MODULE ProcIndexProofs ---------------------------
(***************************************************************************)
(* Proofs about the process index, for every pid_max, initial size, queue  *)
(* capacity, set of pids and content of the word behind the array: the     *)
(* index stays sound, no call is held twice, calls are lost only in the    *)
(* ways that KnownLosses lists, at exit all others are archived, and open  *)
(* calls are booked on the newest exec call of their pid.                  *)
(***************************************************************************)
EXTENDS ProcIndex, ProcIndexOpsProofs, TLAPS

\* The lemmas of ProcIndexOpsProofs, for the calls of ProcIndex
USE DEF Procs

-----------------------------------------------------------------------------
(* The inductive invariant *)

IndexInv ==
    /\ GoodIndex(index, 0..MaxExecs, OCalls)
    /\ execs \in 0..MaxExecs
    /\ opens \in 0..MaxOpens

-----------------------------------------------------------------------------
(* The invariant *)

LEMMA InitInv == Init => IndexInv
<1> SUFFICES ASSUME Init PROVE IndexInv
  OBVIOUS
<1>1. PICK w \in Slack : index = NewIndex(GuidePid, w)
  BY DEF Init
<1>2. Distinct(0..MaxExecs, OCalls)
  BY BoundsAssumption, PointersAssumption DEF Distinct, Unknown
<1>3. GoodIndex(index, 0..MaxExecs, OCalls)
  BY <1>1, <1>2, NewIndexGood, GuideAssumption
<1> QED
  BY <1>3, BoundsAssumption DEF Init, IndexInv

LEMMA StepInv == IndexInv /\ [Next]_vars => IndexInv'
<1> SUFFICES ASSUME IndexInv, [Next]_vars PROVE IndexInv'
  OBVIOUS
<1> USE DEF IndexInv
<1>1. ASSUME NEW pid \in Pids, NEW ppid \in Pids \cup {0}, AddExecCall(pid, ppid)
      PROVE  IndexInv'
  <2>1. PICK w \in Slack :
            index' = AddReplacing(index, NewProc(execs + 1, pid, ppid), w).ix
    BY <1>1, Zenon DEF AddExecCall, Becomes
  <2>2. /\ execs + 1 \in 0..MaxExecs /\ execs' = execs + 1 /\ opens' = opens
        /\ pid \in Nat /\ ppid \in Nat
    BY <1>1, PidsAssumption, BoundsAssumption DEF AddExecCall
  <2>3. GoodIndex(AddReplacing(index, NewProc(execs + 1, pid, ppid), w).ix, 0..MaxExecs, OCalls)
    BY <2>2, AddReplacingGood
  <2> QED
    BY <2>1, <2>2, <2>3
<1>2. ASSUME NEW pid \in Pids, NEW ppid \in Pids \cup {0}, AddLoneExecCall(pid, ppid)
      PROVE  IndexInv'
  <2>1. PICK w \in Slack : index' = Add(index, NewProc(execs + 1, pid, ppid), w).ix
    BY <1>2, Zenon DEF AddLoneExecCall, Becomes
  <2>2. /\ execs + 1 \in 0..MaxExecs /\ execs' = execs + 1 /\ opens' = opens
        /\ pid \in Nat /\ ppid \in Nat
    BY <1>2, PidsAssumption, BoundsAssumption DEF AddLoneExecCall
  <2>3. GoodIndex(Add(index, NewProc(execs + 1, pid, ppid), w).ix, 0..MaxExecs, OCalls)
    BY <2>2, AddGood
  <2> QED
    BY <2>1, <2>2, <2>3
<1>3. ASSUME NEW pid \in Pids, AddOpenCall(pid)
      PROVE  IndexInv'
  <2> DEFINE o == [id |-> opens + 1, pid |-> pid]
  <2>1. PICK w \in Slack : index' = OpencallAdd(index, pid, o, w).ix
    BY <1>3, Zenon DEF AddOpenCall, Becomes
  <2>2. /\ opens + 1 \in 1..MaxOpens /\ opens' = opens + 1 /\ execs' = execs
        /\ pid \in Nat
    BY <1>3, PidsAssumption, BoundsAssumption DEF AddOpenCall
  <2>3. o \in OCalls /\ o.pid = pid
    BY <2>2 DEF OCalls
  <2>4. GoodIndex(OpencallAdd(index, pid, o, w).ix, 0..MaxExecs, OCalls)
    BY <2>2, <2>3, OpencallAddGood
  <2> QED
    BY <2>1, <2>2, <2>4
<1>4. ASSUME NEW gone, CheckProcVitals(gone)
      PROVE  IndexInv'
  <2>1. index' = CheckVitals(index, gone).ix
    BY <1>4 DEF CheckProcVitals, Becomes
  <2> QED
    BY <1>4, <2>1, CheckVitalsGood DEF CheckProcVitals
<1>5. CASE FlushProcindex
  <2>1. index' = Flush(index).ix
    BY <1>5 DEF FlushProcindex, Becomes
  <2> QED
    BY <1>5, <2>1, FlushGood DEF FlushProcindex
<1>6. CASE Dispatch
  BY <1>6 DEF Dispatch
<1>7. CASE UNCHANGED vars
  BY <1>7 DEF vars
<1> QED
  BY <1>1, <1>2, <1>3, <1>4, <1>5, <1>6, <1>7 DEF Next

\* The inductive invariant: every word of the index is null or a sound
\* process in its own place.
THEOREM IndexInvariant == Spec => []IndexInv
  BY InitInv, StepInv, PTL DEF Spec

\* For every sequence of the main thread's operations: a process is found
\* under its own pid, holds only calls of that pid, is tracked exactly when it
\* holds one, and its callBuff has room for the next call.
THEOREM IndexIsSound == Spec => []IndexSound
<1>1. IndexInv => IndexSound
  BY MaxPidAssumption DEF IndexInv, GoodIndex, GoodWords, GoodAt, IndexSound, IsProc, Slots
<1> QED
  BY <1>1, IndexInvariant, PTL

-----------------------------------------------------------------------------
(* The flush *)

\* After the flush the array is empty; the word behind it may not be.  After
\* the last batch the queue is empty too.
Emptied ==
    /\ phase \in {"flushed", "exited"} => \A i \in 0..(index.size - 1) : index.procs[i] = NULL
    /\ phase = "exited" => dispatchQueue = <<>>

LEMMA EmptiedStep == IndexInv /\ Emptied /\ [Next]_vars => Emptied'
<1> SUFFICES ASSUME IndexInv, Emptied, [Next]_vars PROVE Emptied'
  OBVIOUS
<1>1. CASE FlushProcindex
  <2>1. index' = Flush(index).ix
    BY <1>1 DEF FlushProcindex, Becomes
  <2>2. \A i \in 0..(index'.size - 1) : index'.procs[i] = NULL
    BY <2>1, FlushGood DEF IndexInv
  <2>3. phase' # "exited"
    BY <1>1 DEF FlushProcindex
  <2> QED BY <2>2, <2>3 DEF Emptied
<1>2. CASE Dispatch
  BY <1>2 DEF Dispatch, Emptied
<1>3. CASE UNCHANGED vars
  BY <1>3 DEF vars, Emptied
<1>4. ASSUME phase = "running", phase' \in {phase, "crashed"} PROVE Emptied'
  BY <1>4 DEF Emptied
<1>5. ASSUME NEW pid \in Pids, NEW ppid \in Pids \cup {0},
             AddExecCall(pid, ppid) \/ AddLoneExecCall(pid, ppid) \/ AddOpenCall(pid)
      PROVE  phase = "running" /\ phase' \in {phase, "crashed"}
  BY <1>5, Zenon DEF AddExecCall, AddLoneExecCall, AddOpenCall, PhaseAfter
<1>6. ASSUME NEW gone, CheckProcVitals(gone)
      PROVE  phase = "running" /\ phase' = phase
  BY <1>6 DEF CheckProcVitals
<1> QED
  BY <1>1, <1>2, <1>3, <1>4, <1>5, <1>6 DEF Next

-----------------------------------------------------------------------------
(* Types *)

QueueInv ==
    /\ dispatchQueue \in Seq(Procs \cup {Wild})
    /\ Len(dispatchQueue) <= DispatchSize
    /\ archived \in Seq(Procs)
    /\ accepted \subseteq OCalls
    /\ lost \subseteq OCalls
    /\ newest \in [Pids -> 0..MaxExecs]
    /\ phase \in {"running", "flushed", "exited", "crashed"}

\* What every step but Dispatch does: processes move within the index and from
\* the index to the queue, and at most the word x holds something new, a
\* process for the exec call or one that has taken the open call.
Step(out, x, where) ==
    /\ out \in Seq(Procs \cup {Wild})
    /\ Moves(index, index', out, x, where)
    /\ dispatchQueue' = Enqueue(dispatchQueue, out)
    /\ lost' = UNION {lost, Overgrown(index, index'), Dropped(dispatchQueue, out)}
    /\ newest' \in [Pids -> 0..MaxExecs]
    /\ archived' = archived
    /\ execs' >= execs /\ opens' >= opens
    /\ x \in 0..index'.size /\ IsProc(index'.procs[x])
          => \/ Entered(index'.procs[x], execs + 1) /\ execs' = execs + 1
             \/ /\ out = <<>> /\ opens' = opens + 1
                /\ \E o \in OCalls : o.id = opens + 1 /\ TakenBy(index, index', x, o)
    /\ accepted' \subseteq OCalls
    /\ \A o \in accepted' \ accepted :
          /\ x \in 0..index'.size /\ IsProc(index'.procs[x])
          /\ o \in ToSet(index'.procs[x].calls)

LEMMA NothingQueued ==
    ASSUME QueueInv
    PROVE  /\ Enqueue(dispatchQueue, <<>>) = dispatchQueue
           /\ Dropped(dispatchQueue, <<>>) = {}
           /\ <<>> \in Seq(Procs \cup {Wild})
<1> DEFINE q == dispatchQueue
<1>1. q \in Seq(Procs \cup {Wild}) /\ Len(q) <= DispatchSize
  BY DEF QueueInv
<1> HIDE DEF q
<1>2. q \o <<>> = q
  BY <1>1
<1>3. Enqueue(q, <<>>) = q
  BY <1>1, <1>2 DEF Enqueue
<1>4. SubSeq(q, DispatchSize + 1, Len(q) + Len(<<>>)) = <<>>
  BY <1>1, DispatchAssumption
<1>5. Dropped(q, <<>>) = {}
  <2>1. \A o : ~InList(<<>>, o)
    BY DEF InList
  <2> QED
    BY <1>2, <1>4, <2>1, CallsOfIs DEF Dropped
<1> QED
  BY <1>3, <1>5 DEF q

LEMMA NewestTyped ==
    ASSUME IndexInv, QueueInv, [Next]_vars
    PROVE  newest' \in [Pids -> 0..MaxExecs]
<1> USE DEF IndexInv, QueueInv
<1>1. ASSUME NEW pid \in Pids, NEW ppid \in Pids \cup {0},
             AddExecCall(pid, ppid) \/ AddLoneExecCall(pid, ppid)
      PROVE  newest' \in [Pids -> 0..MaxExecs]
  <2>1. execs + 1 \in 0..MaxExecs
    BY <1>1, BoundsAssumption DEF AddExecCall, AddLoneExecCall
  <2>2. newest' = [newest EXCEPT ![pid] = execs + 1] \/ newest' = [newest EXCEPT ![pid] = @]
    <3>1. AddExecCall(pid, ppid) =>
              newest' = [newest EXCEPT ![pid] = IF InRange(pid) THEN execs + 1 ELSE @]
      BY DEF AddExecCall
    <3>2. AddLoneExecCall(pid, ppid) =>
              \E ret : newest' = [newest EXCEPT ![pid] = IF ret = "ok" THEN execs + 1 ELSE @]
      BY Zenon DEF AddLoneExecCall
    <3> QED
      BY <1>1, <3>1, <3>2
  <2> QED
    BY <2>1, <2>2
<1>2. ASSUME NEW pid \in Pids, AddOpenCall(pid) PROVE newest' = newest
  BY <1>2 DEF AddOpenCall
<1>3. ASSUME NEW gone, CheckProcVitals(gone) PROVE newest' = newest
  BY <1>3 DEF CheckProcVitals
<1>4. FlushProcindex \/ Dispatch \/ UNCHANGED vars => newest' = newest
  BY DEF FlushProcindex, Dispatch, vars
<1> QED
  BY <1>1, <1>2, <1>3, <1>4 DEF Next

LEMMA StepIs ==
    ASSUME IndexInv, QueueInv, [Next]_vars
    PROVE  Dispatch \/ \E out, x, where : Step(out, x, where)
<1> USE DEF IndexInv
<1>1. execs \in Nat /\ opens \in Nat /\ accepted \subseteq OCalls
  BY BoundsAssumption DEF QueueInv
<1>2. Nowhere \notin 0..index'.size
  BY DEF Nowhere
<1>3. newest' \in [Pids -> 0..MaxExecs]
  BY NewestTyped
<1>4. ASSUME NEW pid \in Pids, NEW ppid \in Pids \cup {0}, AddExecCall(pid, ppid)
      PROVE  \E out, x, where : Step(out, x, where)
  <2>1. PICK w \in Slack :
            LET r == AddReplacing(index, NewProc(execs + 1, pid, ppid), w)
            IN  Becomes(r.ix, r.out)
    BY <1>4, Zenon DEF AddExecCall
  <2>2. /\ execs + 1 \in 0..MaxExecs /\ execs' = execs + 1 /\ opens' = opens
        /\ archived' = archived /\ accepted' = accepted
        /\ pid \in Nat /\ ppid \in Nat
    BY <1>4, PidsAssumption, BoundsAssumption DEF AddExecCall
  <2> DEFINE E == 0..MaxExecs
             exec == execs + 1
             r == AddReplacing(index, NewProc(exec, pid, ppid), w)
  <2>3. Replaced(index, r, exec, pid, E, OCalls)
    <3>1. GoodIndex(index, E, OCalls) /\ exec \in E /\ pid \in Nat /\ ppid \in Nat
      BY <2>2
    <3> HIDE DEF E, exec
    <3> QED
      BY <3>1, AddReplacingMoves
  <2>4. /\ index' = r.ix /\ dispatchQueue' = Enqueue(dispatchQueue, r.out)
        /\ lost' = UNION {lost, Overgrown(index, r.ix), Dropped(dispatchQueue, r.out)}
    BY <2>1 DEF Becomes
  <2> HIDE DEF r
  <2>5. CASE r.out = <<>> /\ Moves(index, r.ix, <<>>, Nowhere, <<>>)
    <3>1. Step(<<>>, Nowhere, <<>>)
      BY <1>1, <1>2, <1>3, <2>2, <2>4, <2>5, NothingQueued DEF Step
    <3> QED BY <3>1
  <2>6. CASE /\ r.out = <<>> /\ Moves(index, r.ix, <<>>, pid + 1, <<>>)
             /\ Entered(r.ix.procs[pid + 1], execs + 1)
    <3>1. Step(<<>>, pid + 1, <<>>)
      BY <1>1, <1>3, <2>2, <2>4, <2>6, NothingQueued DEF Step
    <3> QED BY <3>1
  <2>7. CASE /\ r.out \in Seq(Procs \cup {Wild})
             /\ Moves(index, r.ix, r.out, pid + 1, <<pid + 1>>)
             /\ r.ix.procs[pid + 1] = NULL \/ Entered(r.ix.procs[pid + 1], execs + 1)
    <3>1. ~IsProc(NULL)
      BY DEF IsProc
    <3>2. Step(r.out, pid + 1, <<pid + 1>>)
      BY <1>1, <1>3, <2>2, <2>4, <2>7, <3>1 DEF Step
    <3> QED BY <3>2
  <2> QED
    BY <2>3, <2>5, <2>6, <2>7 DEF Replaced
<1>5. ASSUME NEW pid \in Pids, NEW ppid \in Pids \cup {0}, AddLoneExecCall(pid, ppid)
      PROVE  \E out, x, where : Step(out, x, where)
  <2>1. PICK w \in Slack : Becomes(Add(index, NewProc(execs + 1, pid, ppid), w).ix, <<>>)
    BY <1>5, Zenon DEF AddLoneExecCall
  <2>2. /\ execs + 1 \in 0..MaxExecs /\ execs' = execs + 1 /\ opens' = opens
        /\ archived' = archived /\ accepted' = accepted
        /\ pid \in Nat /\ ppid \in Nat
    BY <1>5, PidsAssumption, BoundsAssumption DEF AddLoneExecCall
  <2> DEFINE a == Add(index, NewProc(execs + 1, pid, ppid), w)
  <2>3. \/ Moves(index, a.ix, <<>>, Nowhere, <<>>)
        \/ Moves(index, a.ix, <<>>, pid + 1, <<>>) /\ Entered(a.ix.procs[pid + 1], execs + 1)
    BY <2>2, AddMoves
  <2> HIDE DEF a
  <2>4. CASE Moves(index, a.ix, <<>>, Nowhere, <<>>)
    <3>1. Step(<<>>, Nowhere, <<>>)
      BY <1>1, <1>2, <1>3, <2>1, <2>2, <2>4, NothingQueued DEF Step, Becomes, a
    <3> QED BY <3>1
  <2>5. CASE Moves(index, a.ix, <<>>, pid + 1, <<>>) /\ Entered(a.ix.procs[pid + 1], execs + 1)
    <3>1. Step(<<>>, pid + 1, <<>>)
      BY <1>1, <1>3, <2>1, <2>2, <2>5, NothingQueued DEF Step, Becomes, a
    <3> QED BY <3>1
  <2> QED
    BY <2>3, <2>4, <2>5
<1>6. ASSUME NEW pid \in Pids, AddOpenCall(pid)
      PROVE  \E out, x, where : Step(out, x, where)
  <2> DEFINE o == [id |-> opens + 1, pid |-> pid]
  <2>1. PICK w \in Slack :
            LET r == OpencallAdd(index, pid, o, w)
            IN  /\ Becomes(r.ix, <<>>)
                /\ accepted' = IF r.ret = "ok" THEN accepted \cup {o} ELSE accepted
    BY <1>6, Zenon DEF AddOpenCall
  <2>2. /\ opens + 1 \in 1..MaxOpens /\ opens' = opens + 1 /\ execs' = execs
        /\ archived' = archived
        /\ pid \in Nat
    BY <1>6, PidsAssumption, BoundsAssumption DEF AddOpenCall
  <2>3. o \in OCalls /\ o.pid = pid /\ o.id = opens + 1
    BY <2>2 DEF OCalls
  <2> DEFINE r == OpencallAdd(index, pid, o, w)
  <2> HIDE DEF o
  <2>4. \/ r.ret # "ok" /\ Moves(index, r.ix, <<>>, Nowhere, <<>>)
        \/ /\ r.ret = "ok" /\ Moves(index, r.ix, <<>>, pid + 1, <<>>)
           /\ pid + 1 \in 0..r.ix.size /\ IsProc(r.ix.procs[pid + 1])
           /\ TakenBy(index, r.ix, pid + 1, o)
           /\ o \in ToSet(r.ix.procs[pid + 1].calls)
    BY <2>2, <2>3, OpencallMoves
  <2>5. Becomes(r.ix, <<>>) /\ accepted' = IF r.ret = "ok" THEN accepted \cup {o} ELSE accepted
    BY <2>1
  <2> HIDE DEF r
  <2>6. CASE r.ret # "ok" /\ Moves(index, r.ix, <<>>, Nowhere, <<>>)
    <3>1. Step(<<>>, Nowhere, <<>>)
      BY <1>1, <1>2, <1>3, <2>2, <2>5, <2>6, NothingQueued DEF Step, Becomes
    <3> QED BY <3>1
  <2>7. CASE /\ r.ret = "ok" /\ Moves(index, r.ix, <<>>, pid + 1, <<>>)
             /\ pid + 1 \in 0..r.ix.size /\ IsProc(r.ix.procs[pid + 1])
             /\ TakenBy(index, r.ix, pid + 1, o)
             /\ o \in ToSet(r.ix.procs[pid + 1].calls)
    <3>1. Step(<<>>, pid + 1, <<>>)
      BY <1>1, <1>3, <2>2, <2>3, <2>5, <2>7, NothingQueued DEF Step, Becomes
    <3> QED BY <3>1
  <2> QED
    BY <2>4, <2>6, <2>7
<1>7. ASSUME NEW gone, CheckProcVitals(gone)
      PROVE  \E out, x, where : Step(out, x, where)
  <2> DEFINE v == CheckVitals(index, gone)
  <2>1. /\ Becomes(v.ix, v.out)
        /\ archived' = archived /\ execs' = execs /\ opens' = opens /\ accepted' = accepted
    BY <1>7, Zenon DEF CheckProcVitals
  <2>2. v.out \in Seq(Procs \cup {Wild}) /\ \E where : Moves(index, v.ix, v.out, Nowhere, where)
    BY VitalsMoves
  <2> HIDE DEF v
  <2>3. PICK where : Moves(index, v.ix, v.out, Nowhere, where)
    BY <2>2
  <2>4. Step(v.out, Nowhere, where)
    BY <1>1, <1>2, <1>3, <2>1, <2>2, <2>3 DEF Step, Becomes
  <2> QED
    BY <2>4
<1>8. ASSUME FlushProcindex
      PROVE  \E out, x, where : Step(out, x, where)
  <2> DEFINE f == Flush(index)
  <2>1. /\ Becomes(f.ix, f.out)
        /\ archived' = archived /\ execs' = execs /\ opens' = opens /\ accepted' = accepted
    BY <1>8, Zenon DEF FlushProcindex
  <2>2. f.out \in Seq(Procs \cup {Wild}) /\ \E where : Moves(index, f.ix, f.out, Nowhere, where)
    BY FlushMoves
  <2> HIDE DEF f
  <2>3. PICK where : Moves(index, f.ix, f.out, Nowhere, where)
    BY <2>2
  <2>4. Step(f.out, Nowhere, where)
    BY <1>1, <1>2, <1>3, <2>1, <2>2, <2>3 DEF Step, Becomes
  <2> QED
    BY <2>4
<1>9. ASSUME UNCHANGED vars
      PROVE  \E out, x, where : Step(out, x, where)
  <2>1. Moves(index, index, <<>>, Nowhere, <<>>)
    BY MovesNothing
  <2>2. Overgrown(index, index) = {}
    <3>1. index.size \in Nat
      BY DEF GoodIndex
    <3> QED
      BY <3>1 DEF Overgrown
  <2>3. index' = index /\ dispatchQueue' = dispatchQueue /\ lost' = lost
    BY <1>9 DEF vars
  <2>4. lost' = UNION {lost, Overgrown(index, index'), Dropped(dispatchQueue, <<>>)}
    BY <2>2, <2>3, NothingQueued
  <2>5. Step(<<>>, Nowhere, <<>>)
    BY <1>1, <1>2, <1>3, <1>9, <2>1, <2>4, NothingQueued DEF Step, vars
  <2> QED
    BY <2>5
<1> QED
  BY <1>4, <1>5, <1>6, <1>7, <1>8, <1>9 DEF Next

LEMMA QueueStep == IndexInv /\ QueueInv /\ [Next]_vars => QueueInv'
<1> SUFFICES ASSUME IndexInv, QueueInv, [Next]_vars PROVE QueueInv'
  OBVIOUS
<1> DEFINE T == Procs \cup {Wild}
<1>1. phase' \in {"running", "flushed", "exited", "crashed"}
  <2>1. ASSUME NEW pid \in Pids, NEW ppid \in Pids \cup {0},
               AddExecCall(pid, ppid) \/ AddLoneExecCall(pid, ppid) \/ AddOpenCall(pid)
        PROVE  phase' \in {phase, "crashed"}
    BY <2>1, Zenon DEF AddExecCall, AddLoneExecCall, AddOpenCall, PhaseAfter
  <2>2. ASSUME NEW gone, CheckProcVitals(gone) PROVE phase' = phase
    BY <2>2 DEF CheckProcVitals
  <2>3. FlushProcindex => phase' = "flushed"
    BY DEF FlushProcindex
  <2>4. Dispatch => phase' \in {phase, "crashed", "exited"}
    BY DEF Dispatch
  <2>5. UNCHANGED vars => phase' = phase
    BY DEF vars
  <2> QED
    BY <2>1, <2>2, <2>3, <2>4, <2>5 DEF Next, QueueInv
<1>2. CASE Dispatch
  <2> DEFINE b == Batch(dispatchQueue)
  <2>1. dispatchQueue \in Seq(T) /\ archived \in Seq(Procs) /\ accepted \subseteq OCalls
    BY DEF QueueInv
  <2>2. b \in Seq(T \ {Wild})
    BY <2>1, BatchFacts
  <2>3. archived' = archived \o b /\ dispatchQueue' = <<>> /\ accepted' = accepted
    BY <1>2 DEF Dispatch
  <2>4. lost' \subseteq OCalls /\ newest' \in [Pids -> 0..MaxExecs]
    BY <1>2 DEF Dispatch, QueueInv
  <2>5. T \ {Wild} \subseteq Procs
    OBVIOUS
  <2> HIDE DEF b, T
  <2>6. b \in Seq(Procs)
    BY <2>2, <2>5
  <2>7. archived' \in Seq(Procs)
    BY <2>1, <2>3, <2>6
  <2>8. dispatchQueue' \in Seq(T) /\ Len(dispatchQueue') <= DispatchSize
    BY <2>3, DispatchAssumption
  <2> QED
    BY <1>1, <2>1, <2>3, <2>7, <2>8, <2>4 DEF QueueInv, T
<1>3. ASSUME NEW out, NEW x, NEW where, Step(out, x, where) PROVE QueueInv'
  <2>1. dispatchQueue \in Seq(T) /\ Len(dispatchQueue) <= DispatchSize /\ archived \in Seq(Procs)
    BY DEF QueueInv
  <2>2. /\ out \in Seq(T) /\ dispatchQueue' = Enqueue(dispatchQueue, out)
        /\ archived' = archived /\ accepted' \subseteq OCalls
        /\ newest' \in [Pids -> 0..MaxExecs]
    BY <1>3 DEF Step
  <2>3. lost' \subseteq OCalls
    <3>1. lost \subseteq OCalls /\ GoodIndex(index, 0..MaxExecs, OCalls)
      BY DEF IndexInv, QueueInv
    <3>2. Overgrown(index, index') \subseteq OCalls /\ Dropped(dispatchQueue, out) \subseteq OCalls
      BY <2>1, <2>2, <3>1, LossesTyped
    <3> QED
      BY <1>3, <3>1, <3>2 DEF Step
  <2> HIDE DEF T
  <2>4. Enqueue(dispatchQueue, out) \in Seq(T) /\ Len(Enqueue(dispatchQueue, out)) <= DispatchSize
    BY <2>1, <2>2, EnqueueFacts
  <2> QED
    BY <1>1, <2>1, <2>2, <2>4, <2>3 DEF QueueInv, T
<1> QED
  BY <1>2, <1>3, StepIs

THEOREM TypesInvariant == Spec => [](IndexInv /\ QueueInv)
<1>1. Init => QueueInv
  BY DispatchAssumption, BoundsAssumption DEF Init, QueueInv, Unknown
<1> QED
  BY <1>1, QueueStep, IndexInvariant, PTL DEF Spec

\* The index, the queue and the archive hold processes, and only the queue and
\* the words outside the array hold wild pointers; the queue never exceeds its
\* capacity.
THEOREM TypesAreRight == Spec => []TypeOK
<1>1. IndexInv /\ QueueInv => TypeOK
  <2> SUFFICES ASSUME IndexInv, QueueInv PROVE TypeOK
    OBVIOUS
  <2>1. \A i \in Slots : index.procs[i] \in Procs \cup {NULL, Wild}
    BY DEF IndexInv, GoodIndex, GoodWords, GoodAt
  <2>2. index.procs = [i \in Slots |-> index.procs[i]]
    BY DEF IndexInv, GoodIndex
  <2>3. index.procs \in [Slots -> Procs \cup {NULL, Wild}]
    BY <2>1, <2>2, Zenon
  <2> QED
    BY <2>3 DEF IndexInv, GoodIndex, QueueInv, TypeOK
<1> QED
  BY <1>1, TypesInvariant, PTL

-----------------------------------------------------------------------------
(* Places *)

\* Places and ProcAt, of any index, queue and archive
PlacesOf(ix, q, a) ==
    UNION {{<<"archived", n>> : n \in 1..Len(a)},
           {<<"queued", n>> : n \in {m \in 1..Len(q) : IsProc(q[m])}},
           {<<"word", i>> : i \in {j \in 0..ix.size : IsProc(ix.procs[j])}}}

At(ix, q, a, place) ==
    CASE place[1] = "archived" -> a[place[2]]
      [] place[1] = "queued" -> q[place[2]]
      [] place[1] = "word" -> ix.procs[place[2]]

LEMMA PlacesHere ==
    /\ Places = PlacesOf(index, dispatchQueue, archived)
    /\ \A p : ProcAt(p) = At(index, dispatchQueue, archived, p)
  BY Zenon DEF Places, PlacesOf, ProcAt, At

LEMMA PlacesNext ==
    /\ Places' = PlacesOf(index', dispatchQueue', archived')
    /\ \A p : ProcAt(p)' = At(index', dispatchQueue', archived', p)
  BY Zenon DEF Places, PlacesOf, ProcAt, At

Archive(n) == <<"archived", n>>
Queue(n) == <<"queued", n>>
Word(i) == <<"word", i>>

\* The places are all different.
LEMMA DifferentPlaces ==
    ASSUME NEW m, NEW n
    PROVE  /\ Archive(m) = Archive(n) => m = n
           /\ Queue(m) = Queue(n) => m = n
           /\ Word(m) = Word(n) => m = n
           /\ Archive(m) # Queue(n) /\ Archive(m) # Word(n) /\ Queue(m) # Word(n)
  BY DEF Archive, Queue, Word

LEMMA AtPlace ==
    ASSUME NEW ix, NEW q, NEW a, NEW n
    PROVE  /\ At(ix, q, a, Archive(n)) = a[n]
           /\ At(ix, q, a, Queue(n)) = q[n]
           /\ At(ix, q, a, Word(n)) = ix.procs[n]
<1>1. /\ Archive(n)[1] = "archived" /\ Archive(n)[2] = n
      /\ Queue(n)[1] = "queued" /\ Queue(n)[2] = n
      /\ Word(n)[1] = "word" /\ Word(n)[2] = n
  BY DEF Archive, Queue, Word
<1>2. "archived" # "queued" /\ "archived" # "word" /\ "queued" # "word"
  OBVIOUS
<1>3. At(ix, q, a, Archive(n)) = a[n]
  BY <1>1, <1>2 DEF At
<1>4. At(ix, q, a, Queue(n)) = q[n]
  BY <1>1, <1>2 DEF At
<1>5. At(ix, q, a, Word(n)) = ix.procs[n]
  BY <1>1, <1>2 DEF At
<1> QED
  BY <1>3, <1>4, <1>5

LEMMA InPlaces ==
    ASSUME NEW ix, NEW q, NEW a
    PROVE  /\ \A n \in 1..Len(a) : Archive(n) \in PlacesOf(ix, q, a)
           /\ \A n \in 1..Len(q) : IsProc(q[n]) => Queue(n) \in PlacesOf(ix, q, a)
           /\ \A i \in 0..ix.size : IsProc(ix.procs[i]) => Word(i) \in PlacesOf(ix, q, a)
  BY Zenon DEF PlacesOf, Archive, Queue, Word

LEMMA PlaceCases ==
    ASSUME NEW ix, NEW q, NEW a, NEW p \in PlacesOf(ix, q, a)
    PROVE  \/ \E n \in 1..Len(a) : p = Archive(n)
           \/ \E n \in 1..Len(q) : p = Queue(n) /\ IsProc(q[n])
           \/ \E i \in 0..ix.size : p = Word(i) /\ IsProc(ix.procs[i])
  BY Zenon DEF PlacesOf, Archive, Queue, Word

-----------------------------------------------------------------------------
(* What a step may forget *)

\* A call is held if one of the places holds it.
LEMMA HeldHere ==
    /\ \A o : o \in Held <=> \E p \in Places : o \in ToSet(ProcAt(p).calls)
    /\ \A o : o \in Held' <=> \E p \in Places' : o \in ToSet(ProcAt(p)'.calls)
  BY Zenon DEF Held

\* What is in the new state is held there.
LEMMA HeldNext ==
    ASSUME NEW o
    PROVE  /\ \A n \in 1..Len(archived') : o \in ToSet(archived'[n].calls) => o \in Held'
           /\ \A n \in 1..Len(dispatchQueue') :
                 IsProc(dispatchQueue'[n]) /\ o \in ToSet(dispatchQueue'[n].calls) => o \in Held'
           /\ \A i \in 0..index'.size :
                 IsProc(index'.procs[i]) /\ o \in ToSet(index'.procs[i].calls) => o \in Held'
<1>1. ASSUME NEW p \in Places', o \in ToSet(ProcAt(p)'.calls) PROVE o \in Held'
  BY <1>1, HeldHere
<1>2. ASSUME NEW p \in PlacesOf(index', dispatchQueue', archived'),
             o \in ToSet(At(index', dispatchQueue', archived', p).calls)
      PROVE  o \in Held'
  BY <1>1, <1>2, PlacesNext
<1>3. ASSUME NEW n \in 1..Len(archived'), o \in ToSet(archived'[n].calls) PROVE o \in Held'
  <2>1. Archive(n) \in PlacesOf(index', dispatchQueue', archived')
    BY InPlaces
  <2>2. At(index', dispatchQueue', archived', Archive(n)) = archived'[n]
    BY AtPlace
  <2> QED BY <1>2, <1>3, <2>1, <2>2
<1>4. ASSUME NEW n \in 1..Len(dispatchQueue'), IsProc(dispatchQueue'[n]),
             o \in ToSet(dispatchQueue'[n].calls)
      PROVE  o \in Held'
  <2>1. Queue(n) \in PlacesOf(index', dispatchQueue', archived')
    BY <1>4, InPlaces
  <2>2. At(index', dispatchQueue', archived', Queue(n)) = dispatchQueue'[n]
    BY AtPlace
  <2> QED BY <1>2, <1>4, <2>1, <2>2
<1>5. ASSUME NEW i \in 0..index'.size, IsProc(index'.procs[i]), o \in ToSet(index'.procs[i].calls)
      PROVE  o \in Held'
  <2>1. Word(i) \in PlacesOf(index', dispatchQueue', archived')
    BY <1>5, InPlaces
  <2>2. At(index', dispatchQueue', archived', Word(i)) = index'.procs[i]
    BY AtPlace
  <2> QED BY <1>2, <1>5, <2>1, <2>2
<1> QED
  BY <1>3, <1>4, <1>5

\* Where a held call is.
LEMMA HeldCases ==
    ASSUME NEW o \in Held
    PROVE  \/ \E n \in 1..Len(archived) : o \in ToSet(archived[n].calls)
           \/ \E n \in 1..Len(dispatchQueue) :
                 IsProc(dispatchQueue[n]) /\ o \in ToSet(dispatchQueue[n].calls)
           \/ \E i \in 0..index.size :
                 IsProc(index.procs[i]) /\ o \in ToSet(index.procs[i].calls)
<1>1. PICK p \in PlacesOf(index, dispatchQueue, archived) :
          o \in ToSet(At(index, dispatchQueue, archived, p).calls)
  BY HeldHere, PlacesHere
<1>2. CASE \E n \in 1..Len(archived) : p = Archive(n)
  BY <1>1, <1>2, AtPlace
<1>3. CASE \E n \in 1..Len(dispatchQueue) : p = Queue(n) /\ IsProc(dispatchQueue[n])
  BY <1>1, <1>3, AtPlace
<1>4. CASE \E i \in 0..index.size : p = Word(i) /\ IsProc(index.procs[i])
  BY <1>1, <1>4, AtPlace
<1> QED
  BY <1>2, <1>3, <1>4, PlaceCases

\* A step that is not Dispatch forgets a call only with the process in the word
\* behind an array that grows or with one that finds no room in the queue.
LEMMA StepLosses ==
    ASSUME IndexInv, IndexInv', QueueInv, NEW out, NEW x, NEW where, Step(out, x, where),
           NEW o \in Held, o \notin Held'
    PROVE  o \in lost'
<1> DEFINE T == Procs \cup {Wild}
           q == dispatchQueue
           e == dispatchQueue'
<1>1. q \in Seq(T) /\ out \in Seq(T) /\ Len(q) <= DispatchSize /\ e = Enqueue(q, out)
  BY DEF QueueInv, Step
<1> HIDE DEF T
<1>2. /\ e \in Seq(T) /\ Len(e) <= DispatchSize
      /\ Len(q) <= Len(e) /\ Len(e) <= Len(q) + Len(out)
      /\ \A n \in 1..Len(q) : e[n] = q[n]
  BY <1>1, EnqueueFacts
<1>3. Len(q) \in Nat /\ Len(e) \in Nat /\ Len(out) \in Nat
  BY <1>1, <1>2
<1>4. CASE \E n \in 1..Len(archived) : o \in ToSet(archived[n].calls)
  BY <1>4, HeldNext DEF Step
<1>5. CASE \E n \in 1..Len(q) : IsProc(q[n]) /\ o \in ToSet(q[n].calls)
  <2>1. PICK n \in 1..Len(q) : IsProc(q[n]) /\ o \in ToSet(q[n].calls)
    BY <1>5
  <2>2. n \in 1..Len(e) /\ e[n] = q[n]
    BY <1>2, <1>3
  <2> QED
    BY <2>1, <2>2, HeldNext
<1>6. ASSUME NEW i \in 0..index.size, IsProc(index.procs[i]), o \in ToSet(index.procs[i].calls)
      PROVE  o \in lost'
  <2>1. index.procs[i].calls # <<>>
    <3>1. ToSet(<<>>) = {}
      BY DEF ToSet
    <3> QED
      BY <1>6, <3>1
  <2>2. /\ index'.size >= index.size
        /\ \/ i = index.size /\ index'.size > index.size
           \/ \E n \in 1..Len(out) : out[n] = index.procs[i]
           \/ /\ IsProc(index'.procs[i])
              /\ ToSet(index.procs[i].calls) \subseteq ToSet(index'.procs[i].calls)
    BY <1>6, <2>1 DEF Step, Moves
  <2>3. CASE i = index.size /\ index'.size > index.size
    <3> DEFINE behind == <<index.procs[index.size]>>
    <3>1. InList(behind, o)
      <4>1. 1 \in 1..Len(behind) /\ behind[1] = index.procs[i]
        BY <2>3
      <4> HIDE DEF behind
      <4> QED
        BY <1>6, <4>1 DEF InList
    <3>2. o \in CallsOf(behind)
      BY <3>1, CallsOfIs
    <3>3. o \in Overgrown(index, index')
      BY <2>3, <3>2 DEF Overgrown
    <3> QED
      BY <3>3 DEF Step
  <2>4. CASE \E n \in 1..Len(out) : out[n] = index.procs[i]
    <3>1. InList(out, o)
      BY <1>6, <2>4 DEF InList
    <3>2. InList(e, o) \/ o \in Dropped(q, out)
      BY <1>1, <3>1, EnqueueKeeps
    <3>3. ~InList(e, o)
      BY HeldNext DEF InList
    <3> QED
      BY <3>2, <3>3 DEF Step
  <2>5. CASE /\ IsProc(index'.procs[i])
             /\ ToSet(index.procs[i].calls) \subseteq ToSet(index'.procs[i].calls)
    <3>1. i \in 0..index'.size
      <4>1. index.size \in Nat
        BY DEF IndexInv, GoodIndex
      <4>2. index'.size \in Nat
        BY DEF IndexInv, GoodIndex
      <4> QED
        BY <2>2, <4>1, <4>2
    <3> QED
      BY <1>6, <2>5, <3>1, HeldNext
  <2> QED
    BY <2>2, <2>3, <2>4, <2>5
<1> QED
  BY <1>4, <1>5, <1>6, HeldCases

\* Dispatch forgets a call only when it crashes on a wild pointer.
LEMMA DispatchLosses ==
    ASSUME QueueInv, Dispatch, NEW o \in Held, o \notin Held'
    PROVE  phase' = "crashed"
<1> DEFINE T == Procs \cup {Wild}
           q == dispatchQueue
           b == Batch(dispatchQueue)
<1>1. q \in Seq(T) /\ archived \in Seq(Procs)
  BY DEF QueueInv
<1>2. /\ b \in Seq(T \ {Wild}) /\ Len(b) <= Len(q)
      /\ \A n \in 1..Len(b) : b[n] = q[n]
  BY <1>1, BatchFacts
<1>3. T \ {Wild} \subseteq Procs
  OBVIOUS
<1> HIDE DEF T
<1>4. /\ archived' = archived \o b /\ index' = index
      /\ phase' = IF Len(b) < Len(q) THEN "crashed"
                  ELSE IF phase = "flushed" THEN "exited" ELSE phase
  BY DEF Dispatch
<1> HIDE DEF b
<1>5. b \in Seq(Procs) /\ Len(b) \in Nat /\ Len(archived) \in Nat /\ Len(q) \in Nat
  BY <1>1, <1>2, <1>3
<1>6. /\ Len(archived') = Len(archived) + Len(b)
      /\ \A n \in 1..Len(archived) : archived'[n] = archived[n]
      /\ \A n \in 1..Len(b) : archived'[Len(archived) + n] = b[n]
  BY <1>1, <1>4, <1>5
<1>7. CASE \E n \in 1..Len(archived) : o \in ToSet(archived[n].calls)
  <2>1. PICK n \in 1..Len(archived) : o \in ToSet(archived[n].calls)
    BY <1>7
  <2>2. n \in 1..Len(archived') /\ archived'[n] = archived[n]
    BY <1>5, <1>6
  <2> QED
    BY <2>1, <2>2, HeldNext
<1>8. CASE \E n \in 1..Len(q) : IsProc(q[n]) /\ o \in ToSet(q[n].calls)
  <2> SUFFICES ASSUME ~(Len(b) < Len(q)) PROVE FALSE
    BY <1>4
  <2>1. Len(b) = Len(q)
    BY <1>2, <1>5
  <2>2. PICK n \in 1..Len(q) : IsProc(q[n]) /\ o \in ToSet(q[n].calls)
    BY <1>8
  <2>3. archived'[Len(archived) + n] = q[n]
    BY <1>2, <1>6, <2>1
  <2>4. Len(archived) + n \in 1..Len(archived')
    BY <1>5, <1>6, <2>1
  <2> QED
    BY <2>2, <2>3, <2>4, HeldNext
<1>9. CASE \E i \in 0..index.size : IsProc(index.procs[i]) /\ o \in ToSet(index.procs[i].calls)
  BY <1>4, <1>9, HeldNext
<1> QED
  BY <1>7, <1>8, <1>9, HeldCases

LEMMA StepKeepsHeld ==
    ASSUME IndexInv, QueueInv, [Next]_vars
    PROVE  /\ accepted' \ accepted \subseteq Held'
           /\ phase' # "crashed" => Held \ Held' \subseteq lost'
<1>1. CASE Dispatch
  <2>1. accepted' = accepted
    BY <1>1 DEF Dispatch
  <2> QED
    BY <1>1, <2>1, DispatchLosses
<1>2. ASSUME NEW out, NEW x, NEW where, Step(out, x, where)
      PROVE  accepted' \ accepted \subseteq Held' /\ Held \ Held' \subseteq lost'
  <2>1. accepted' \ accepted \subseteq Held'
    BY <1>2, HeldNext DEF Step
  <2>2. IndexInv'
    BY StepInv
  <2> QED
    BY <1>2, <2>1, <2>2, StepLosses
<1> QED
  BY <1>1, <1>2, StepIs

\* Whatever the sizes of the index and of the queue, an open call that was
\* accepted is held, and a step that does not crash forgets exactly the calls
\* of processes that find no room in the queue and of the process in the word
\* behind an array that grows.
THEOREM LossesAreKnown == Spec => KnownLosses
<1> DEFINE A == /\ accepted' \ accepted \subseteq Held'
                /\ phase' # "crashed" => Held \ Held' \subseteq lost'
<1>1. IndexInv /\ QueueInv /\ [Next]_vars => A
  BY StepKeepsHeld
<1>2. IndexInv /\ QueueInv /\ [Next]_vars => [A]_vars
  BY <1>1
<1> QED
  BY <1>2, TypesInvariant, PTL DEF Spec, KnownLosses

\* Every open call that was accepted is held or lost.
Accounted == phase # "crashed" => accepted \subseteq Held \cup lost

LEMMA AccountedStep == IndexInv /\ QueueInv /\ Accounted /\ [Next]_vars => Accounted'
<1> SUFFICES ASSUME IndexInv, QueueInv, Accounted, [Next]_vars, phase' # "crashed"
             PROVE  accepted' \subseteq Held' \cup lost'
  BY DEF Accounted
<1>1. accepted' \ accepted \subseteq Held' /\ Held \ Held' \subseteq lost'
  BY StepKeepsHeld
<1>2. lost \subseteq lost'
  <2>1. Dispatch => lost' = lost
    BY DEF Dispatch
  <2>2. ASSUME NEW out, NEW x, NEW where, Step(out, x, where) PROVE lost \subseteq lost'
    BY <2>2 DEF Step
  <2> QED
    BY <2>1, <2>2, StepIs
<1>3. phase # "crashed"
  <2>1. ASSUME NEW pid \in Pids, NEW ppid \in Pids \cup {0},
               AddExecCall(pid, ppid) \/ AddLoneExecCall(pid, ppid) \/ AddOpenCall(pid)
        PROVE  phase = "running"
    BY <2>1, Zenon DEF AddExecCall, AddLoneExecCall, AddOpenCall
  <2>2. ASSUME NEW gone, CheckProcVitals(gone) PROVE phase = "running"
    BY <2>2 DEF CheckProcVitals
  <2>3. FlushProcindex \/ Dispatch => phase \in {"running", "flushed"}
    BY DEF FlushProcindex, Dispatch
  <2>4. UNCHANGED vars => phase' = phase
    BY DEF vars
  <2> QED
    BY <2>1, <2>2, <2>3, <2>4 DEF Next
<1> QED
  BY <1>1, <1>2, <1>3 DEF Accounted

\* For every size of the index and of the queue, every set of pids and every
\* history: at exit each open call that procindex_opencall_add accepted is
\* archived, was lost in one of the two ways, or is with the process in the
\* word behind the array, the only one that surv_flush_procindex leaves.
THEOREM ExitArchives == Spec => []AcceptedAreArchived
<1>1. Init => Emptied /\ Accounted
  BY DEF Init, Emptied, Accounted
<1>2. IndexInv /\ QueueInv /\ Emptied /\ Accounted => AcceptedAreArchived
  <2> SUFFICES ASSUME IndexInv, QueueInv, Emptied, Accounted, phase = "exited", NEW o \in Held
               PROVE  o \in CallsOf(archived) \/ o \in CallsOf(<<index.procs[index.size]>>)
    BY DEF AcceptedAreArchived, Accounted
  <2>1. dispatchQueue = <<>> /\ \A i \in 0..(index.size - 1) : index.procs[i] = NULL
    BY DEF Emptied
  <2>2. index.size \in Nat
    BY DEF IndexInv, GoodIndex
  <2>3. CASE \E n \in 1..Len(archived) : o \in ToSet(archived[n].calls)
    <3>1. \A n \in 1..Len(archived) : IsProc(archived[n])
      BY PointersAssumption DEF QueueInv, IsProc
    <3>2. InList(archived, o)
      BY <2>3, <3>1 DEF InList
    <3> QED
      BY <3>2, CallsOfIs
  <2>4. CASE \E n \in 1..Len(dispatchQueue) : o \in ToSet(dispatchQueue[n].calls)
    BY <2>1, <2>4
  <2>5. ASSUME NEW i \in 0..index.size, IsProc(index.procs[i]), o \in ToSet(index.procs[i].calls)
        PROVE  o \in CallsOf(<<index.procs[index.size]>>)
    <3> DEFINE behind == <<index.procs[index.size]>>
    <3>1. i \notin 0..(index.size - 1)
      BY <2>1, <2>5 DEF IsProc
    <3>2. i = index.size
      BY <2>2, <3>1
    <3>3. 1 \in 1..Len(behind) /\ behind[1] = index.procs[i]
      BY <3>2
    <3> HIDE DEF behind
    <3>4. InList(behind, o)
      BY <2>5, <3>3 DEF InList
    <3>5. o \in CallsOf(behind)
      BY <3>4, CallsOfIs
    <3> QED
      BY <3>5 DEF behind
  <2> QED
    BY <2>3, <2>4, <2>5, HeldCases
<1> QED
  BY <1>1, <1>2, EmptiedStep, AccountedStep, TypesInvariant, PTL DEF Spec

-----------------------------------------------------------------------------
(* Booked on the newest exec call *)

\* What is indexed under a pid comes from no exec call or from the newest.
Newest(ix, nw, pid) ==
    pid + 1 \in 0..ix.size /\ IsProc(ix.procs[pid + 1])
        => ix.procs[pid + 1].exec \in {Unknown, nw[pid]}

IndexedNewest == phase # "crashed" => \A pid \in Pids : Newest(index, newest, pid)

\* Moving processes keeps that; the word x has to be looked at.
LEMMA MovesNewest ==
    ASSUME NEW ix, NEW ix2, NEW out, NEW x, NEW where, Moves(ix, ix2, out, x, where),
           NEW nw, NEW nw2, \A pid \in Pids : Newest(ix, nw, pid),
           \A pid \in Pids : IF pid + 1 = x THEN Newest(ix2, nw2, pid) ELSE nw2[pid] = nw[pid]
    PROVE  \A pid \in Pids : Newest(ix2, nw2, pid)
<1> SUFFICES ASSUME NEW pid \in Pids, pid + 1 # x,
                    pid + 1 \in 0..ix2.size, IsProc(ix2.procs[pid + 1])
             PROVE  ix2.procs[pid + 1].exec \in {Unknown, nw2[pid]}
  BY DEF Newest
<1>1. /\ pid + 1 \in 0..ix.size /\ IsProc(ix.procs[pid + 1])
      /\ ix2.procs[pid + 1].exec = ix.procs[pid + 1].exec
  BY DEF Moves, Same
<1> QED
  BY <1>1 DEF Newest

LEMMA EnteredNewest ==
    ASSUME NEW ix2, NEW out, NEW pid \in Pids, NEW where, Moves(index, ix2, out, pid + 1, where),
           \A p \in Pids : Newest(index, newest, p), NEW exec, Entered(ix2.procs[pid + 1], exec),
           newest \in [Pids -> 0..MaxExecs]
    PROVE  \A p \in Pids : Newest(ix2, [newest EXCEPT ![pid] = exec], p)
<1> DEFINE nw2 == [newest EXCEPT ![pid] = exec]
<1>1. nw2[pid] = exec /\ \A p \in Pids : p # pid => nw2[p] = newest[p]
  OBVIOUS
<1>2. \A p \in Pids : p + 1 = pid + 1 => p = pid
  BY PidsAssumption
<1> HIDE DEF nw2
<1>3. Newest(ix2, nw2, pid)
  BY <1>1 DEF Newest, Entered
<1>4. \A p \in Pids : IF p + 1 = pid + 1 THEN Newest(ix2, nw2, p) ELSE nw2[p] = newest[p]
  BY <1>1, <1>2, <1>3
<1>5. \A p \in Pids : Newest(ix2, nw2, p)
  BY <1>4, MovesNewest
<1> QED
  BY <1>5 DEF nw2

\* A step that enters nothing new
LEMMA UnenteredNewest ==
    ASSUME NEW ix2, NEW out, NEW where, Moves(index, ix2, out, Nowhere, where),
           \A p \in Pids : Newest(index, newest, p)
    PROVE  \A p \in Pids : Newest(ix2, newest, p)
<1>1. \A p \in Pids : p + 1 # Nowhere
  BY PidsAssumption DEF Nowhere
<1> QED
  BY <1>1, MovesNewest

LEMMA OpencallNewest ==
    ASSUME IndexInv, QueueInv, \A p \in Pids : Newest(index, newest, p),
           NEW pid \in Pids, AddOpenCall(pid)
    PROVE  /\ \A p \in Pids : Newest(index', newest', p)
           /\ \A o \in accepted' \ accepted :
                 index'.procs[o.pid + 1].exec \in {Unknown, newest[o.pid]}
<1> DEFINE o == [id |-> opens + 1, pid |-> pid]
<1>1. PICK w \in Slack :
          LET r == OpencallAdd(index, pid, o, w)
          IN  index' = r.ix /\ accepted' = IF r.ret = "ok" THEN accepted \cup {o} ELSE accepted
  BY Zenon DEF AddOpenCall, Becomes
<1>2. opens + 1 \in 1..MaxOpens /\ pid \in Nat /\ newest' = newest
  BY PidsAssumption, BoundsAssumption DEF AddOpenCall, IndexInv
<1>3. o \in OCalls /\ o.pid = pid
  BY <1>2 DEF OCalls
<1> DEFINE r == OpencallAdd(index, pid, o, w)
<1> HIDE DEF o
<1>4. \/ r.ret # "ok" /\ Moves(index, r.ix, <<>>, Nowhere, <<>>)
      \/ /\ r.ret = "ok" /\ Moves(index, r.ix, <<>>, pid + 1, <<>>)
         /\ pid + 1 \in 0..r.ix.size /\ IsProc(r.ix.procs[pid + 1])
         /\ TakenBy(index, r.ix, pid + 1, o)
  BY <1>2, <1>3, OpencallMoves DEF IndexInv
<1>5. index' = r.ix /\ accepted' = IF r.ret = "ok" THEN accepted \cup {o} ELSE accepted
  BY <1>1
<1> HIDE DEF r
<1>6. CASE r.ret # "ok" /\ Moves(index, r.ix, <<>>, Nowhere, <<>>)
  BY <1>2, <1>5, <1>6, UnenteredNewest
<1>7. CASE /\ r.ret = "ok" /\ Moves(index, r.ix, <<>>, pid + 1, <<>>)
           /\ pid + 1 \in 0..r.ix.size /\ IsProc(r.ix.procs[pid + 1])
           /\ TakenBy(index, r.ix, pid + 1, o)
  <2>1. r.ix.procs[pid + 1].exec \in {Unknown, newest[pid]}
    BY <1>7 DEF TakenBy, Newest
  <2>2. \A p \in Pids : p + 1 = pid + 1 => p = pid
    BY PidsAssumption
  <2>3. Newest(r.ix, newest, pid)
    BY <2>1 DEF Newest
  <2>4. \A p \in Pids : IF p + 1 = pid + 1 THEN Newest(r.ix, newest, p) ELSE newest[p] = newest[p]
    BY <2>2, <2>3
  <2>5. \A p \in Pids : Newest(r.ix, newest, p)
    BY <1>7, <2>4, MovesNewest
  <2> QED
    BY <1>2, <1>3, <1>5, <2>1, <2>5
<1> QED
  BY <1>4, <1>6, <1>7

LEMMA StepNewest ==
    ASSUME IndexInv, QueueInv, IndexedNewest, [Next]_vars
    PROVE  /\ IndexedNewest'
           /\ \A o \in accepted' \ accepted :
                 index'.procs[o.pid + 1].exec \in {Unknown, newest[o.pid]}
<1>1. newest \in [Pids -> 0..MaxExecs] /\ GoodIndex(index, 0..MaxExecs, OCalls)
  BY DEF QueueInv, IndexInv
<1>2. ASSUME NEW pid \in Pids, NEW ppid \in Pids \cup {0}, AddExecCall(pid, ppid)
      PROVE  IndexedNewest' /\ accepted' = accepted
  <2>1. PICK w \in Slack :
            LET r == AddReplacing(index, NewProc(execs + 1, pid, ppid), w)
            IN  index' = r.ix /\ phase' = PhaseAfter(r.ret)
    BY <1>2, Zenon DEF AddExecCall, Becomes
  <2>2. /\ execs + 1 \in 0..MaxExecs /\ accepted' = accepted
        /\ newest' = [newest EXCEPT ![pid] = IF InRange(pid) THEN execs + 1 ELSE @]
        /\ pid \in Nat /\ ppid \in Nat
        /\ \A p \in Pids : Newest(index, newest, p)
    BY <1>2, PidsAssumption, BoundsAssumption DEF AddExecCall, IndexInv, IndexedNewest
  <2> DEFINE E == 0..MaxExecs
             exec == execs + 1
             call == NewProc(exec, pid, ppid)
             r == AddReplacing(index, call, w)
  <2>3. SUFFICES ASSUME r.ret # "crash" PROVE \A p \in Pids : Newest(r.ix, newest', p)
    <3> HIDE DEF r
    <3> QED
      BY <2>1, <2>2 DEF IndexedNewest, PhaseAfter, r
  <2>4. exec \in E /\ GoodIndex(index, E, OCalls)
    BY <1>1, <2>2
  <2> HIDE DEF E, exec
  <2>5. CASE InRange(pid)
    <3>1. Entered(r.ix.procs[pid + 1], exec)
      BY <2>2, <2>3, <2>4, <2>5, AddReplacingEnters
    <3>2. Replaced(index, r, exec, pid, E, OCalls)
      BY <2>2, <2>4, AddReplacingMoves
    <3> HIDE DEF r
    <3>3. newest' = [newest EXCEPT ![pid] = exec]
      BY <2>2, <2>5 DEF exec
    <3>4. ASSUME NEW out, NEW where, Moves(index, r.ix, out, pid + 1, where)
          PROVE  \A p \in Pids : Newest(r.ix, newest', p)
      <4>1. PICK ix2 : ix2 = r.ix
        OBVIOUS
      <4>2. \A p \in Pids : Newest(ix2, [newest EXCEPT ![pid] = exec], p)
        BY <1>1, <2>2, <3>1, <3>4, <4>1, EnteredNewest
      <4> QED
        BY <3>3, <4>1, <4>2
    <3>5. CASE Moves(index, r.ix, <<>>, Nowhere, <<>>)
      <4>1. Moves(index, r.ix, <<>>, pid + 1, <<>>)
        BY <3>5 DEF Moves, Nowhere
      <4> QED
        BY <3>4, <4>1
    <3> QED
      BY <3>2, <3>4, <3>5 DEF Replaced
  <2>6. CASE ~InRange(pid)
    <3>1. r.ix = index
      BY <2>6 DEF AddReplacing, Add, NewProc
    <3>2. newest' = newest
      BY <1>1, <2>2, <2>6
    <3> QED
      BY <2>2, <3>1, <3>2
  <2> QED
    BY <2>5, <2>6
<1>3. ASSUME NEW pid \in Pids, NEW ppid \in Pids \cup {0}, AddLoneExecCall(pid, ppid)
      PROVE  IndexedNewest' /\ accepted' = accepted
  <2>1. PICK w \in Slack :
            LET a == Add(index, NewProc(execs + 1, pid, ppid), w)
            IN  /\ index' = a.ix
                /\ newest' = [newest EXCEPT ![pid] = IF a.ret = "ok" THEN execs + 1 ELSE @]
    BY <1>3, Zenon DEF AddLoneExecCall, Becomes
  <2>2. /\ execs + 1 \in 0..MaxExecs /\ accepted' = accepted
        /\ pid \in Nat /\ ppid \in Nat
        /\ \A p \in Pids : Newest(index, newest, p)
    BY <1>3, PidsAssumption, BoundsAssumption DEF AddLoneExecCall, IndexInv, IndexedNewest
  <2> DEFINE E == 0..MaxExecs
             exec == execs + 1
             a == Add(index, NewProc(exec, pid, ppid), w)
  <2>3. exec \in E /\ GoodIndex(index, E, OCalls)
    BY <1>1, <2>2
  <2>4. SUFFICES \A p \in Pids : Newest(a.ix, newest', p)
    <3> HIDE DEF a
    <3> QED
      BY <2>1, <2>2 DEF IndexedNewest, a
  <2>5. newest' = [newest EXCEPT ![pid] = IF a.ret = "ok" THEN exec ELSE @]
    BY <2>1
  <2> HIDE DEF E, exec
  <2>6. \/ Moves(index, a.ix, <<>>, Nowhere, <<>>)
        \/ Moves(index, a.ix, <<>>, pid + 1, <<>>)
    BY <2>2, <2>3, AddMoves
  <2>7. \/ a.ret # "ok" /\ (a.ix = index \/ (InRange(pid) /\ a.ix = Grow(index, pid, w)))
        \/ a.ret = "ok" /\ Entered(a.ix.procs[pid + 1], exec)
    <3> DEFINE g == Grow(index, pid, w)
    <3>1. \/ ~InRange(pid) /\ a.ret = "range" /\ a.ix = index
          \/ InRange(pid) /\ a.ret = "exists" /\ a.ix = g /\ g.procs[pid + 1] # NULL
          \/ InRange(pid) /\ a.ret = "crash" /\ a.ix = g /\ g.procs[pid + 1] = NULL
          \/ /\ InRange(pid) /\ a.ret = "ok" /\ g.procs[pid + 1] = NULL
             /\ a.ix.size = g.size
             /\ Entered(a.ix.procs[pid + 1], exec)
             /\ \A i \in Slots : i # pid + 1 => a.ix.procs[i] = g.procs[i]
      BY <2>2, <2>3, AddCases
    <3> HIDE DEF a, g
    <3> QED
      BY <3>1 DEF g
  <2>8. InRange(pid) => Moves(index, Grow(index, pid, w), <<>>, Nowhere, <<>>)
    BY <2>3, GrowMoves DEF InRange
  <2> HIDE DEF a
  <2>9. CASE a.ret # "ok" /\ (a.ix = index \/ (InRange(pid) /\ a.ix = Grow(index, pid, w)))
    <3>1. newest' = newest
      BY <1>1, <2>5, <2>9
    <3>2. CASE a.ix = index
      BY <2>2, <3>1, <3>2
    <3>3. CASE Moves(index, a.ix, <<>>, Nowhere, <<>>)
      BY <2>2, <3>1, <3>3, UnenteredNewest
    <3> QED
      BY <2>8, <2>9, <3>2, <3>3
  <2>10. CASE a.ret = "ok" /\ Entered(a.ix.procs[pid + 1], exec)
    <3>1. newest' = [newest EXCEPT ![pid] = exec]
      BY <2>5, <2>10
    <3>2. Moves(index, a.ix, <<>>, pid + 1, <<>>)
      <4>1. CASE Moves(index, a.ix, <<>>, Nowhere, <<>>)
        BY <4>1 DEF Moves, Nowhere
      <4> QED
        BY <2>6, <4>1
    <3> QED
      BY <1>1, <2>2, <2>10, <3>1, <3>2, EnteredNewest
  <2> QED
    BY <2>7, <2>9, <2>10
<1>4. ASSUME NEW pid \in Pids, AddOpenCall(pid)
      PROVE  /\ IndexedNewest'
             /\ \A o \in accepted' \ accepted :
                   index'.procs[o.pid + 1].exec \in {Unknown, newest[o.pid]}
  <2>1. \A p \in Pids : Newest(index, newest, p)
    BY <1>4 DEF IndexedNewest, AddOpenCall
  <2> QED
    BY <1>4, <2>1, OpencallNewest DEF IndexedNewest
<1>5. ASSUME NEW gone, CheckProcVitals(gone) PROVE IndexedNewest' /\ accepted' = accepted
  <2>1. PICK v : v = CheckVitals(index, gone)
    OBVIOUS
  <2>2. index' = v.ix /\ newest' = newest /\ accepted' = accepted /\ phase = "running"
    BY <1>5, <2>1 DEF CheckProcVitals, Becomes
  <2>3. PICK where : Moves(index, v.ix, v.out, Nowhere, where)
    BY <1>1, <2>1, VitalsMoves
  <2> QED
    BY <2>2, <2>3, UnenteredNewest DEF IndexedNewest
<1>6. ASSUME FlushProcindex PROVE IndexedNewest' /\ accepted' = accepted
  <2>1. PICK f : f = Flush(index)
    OBVIOUS
  <2>2. index' = f.ix /\ newest' = newest /\ accepted' = accepted /\ phase = "running"
    BY <1>6, <2>1 DEF FlushProcindex, Becomes
  <2>3. PICK where : Moves(index, f.ix, f.out, Nowhere, where)
    BY <1>1, <2>1, FlushMoves
  <2> QED
    BY <2>2, <2>3, UnenteredNewest DEF IndexedNewest
<1>7. ASSUME Dispatch \/ UNCHANGED vars PROVE IndexedNewest' /\ accepted' = accepted
  <2>1. /\ index' = index /\ newest' = newest /\ accepted' = accepted
        /\ phase \in {"running", "flushed"} \/ phase' = phase
    BY <1>7 DEF Dispatch, vars
  <2> QED
    BY <2>1 DEF IndexedNewest
<1> QED
  BY <1>2, <1>3, <1>4, <1>5, <1>6, <1>7 DEF Next

\* For every size of the index, every set of pids and every history of
\* replacements, retrievals and growth: procindex_opencall_add books an open
\* call on the newest exec call of its pid or on a process whose exec call was
\* not seen, never on the process that had the pid before.
THEOREM NewestIsBooked == Spec => BookedOnNewest
<1> DEFINE A == \A o \in accepted' \ accepted :
                   index'.procs[o.pid + 1].exec \in {Unknown, newest[o.pid]}
<1>1. Init => IndexedNewest
  <2> SUFFICES ASSUME Init, NEW pid \in Pids, pid + 1 \in 0..index.size PROVE ~IsProc(index.procs[pid + 1])
    BY DEF IndexedNewest, Newest
  <2>1. PICK w \in Slack : index = NewIndex(GuidePid, w)
    BY DEF Init
  <2>2. index.size \in 1..(MaxPid + 1)
    BY InitInv DEF IndexInv, GoodIndex
  <2>3. pid + 1 \in Slots
    BY <2>2, MaxPidAssumption, PidsAssumption DEF Slots
  <2>4. index.procs[pid + 1] \in {w, NULL}
    BY <2>1, <2>3 DEF NewIndex
  <2> QED
    BY <2>4, SlackAssumption DEF IsProc
<1>2. IndexInv /\ QueueInv /\ IndexedNewest /\ [Next]_vars => IndexedNewest'
  BY StepNewest
<1>3. IndexInv /\ QueueInv /\ IndexedNewest /\ [Next]_vars => [A]_vars
  BY StepNewest
<1> QED
  BY <1>1, <1>2, <1>3, TypesInvariant, PTL DEF Spec, BookedOnNewest

-----------------------------------------------------------------------------
(* One owner *)

\* Two processes have no call in common.
Apart(p, q) ==
    /\ p.exec = Unknown \/ p.exec # q.exec
    /\ ToSet(p.calls) \cap ToSet(q.calls) = {}

\* OneOwner, for any set of places and what is there
One(P, at) ==
    \A p \in P : /\ IsInjective(at[p].calls)
                 /\ \A q \in P \ {p} : Apart(at[p], at[q])

\* No call in the places is newer than the counters.
Old(P, at, e, o) ==
    \A p \in P : at[p].exec <= e /\ \A c \in ToSet(at[p].calls) : c.id <= o

\* What is at the places now
Here == [p \in Places |-> ProcAt(p)]

Fresh == Old(Places, Here, execs, opens)

LEMMA OneOwnerIs == (OneOwner <=> One(Places, Here)) /\ (OneOwner <=> One(Places, Here))'
<1>1. OneOwner <=> One(Places, Here)
  BY DEF OneOwner, One, Here, Apart
<1>2. OneOwner' <=> One(Places', Here')
  BY DEF OneOwner, One, Here, Apart
<1>3. One(Places, Here)' <=> One(Places', Here')
  BY DEF One
<1> QED
  BY <1>1, <1>2, <1>3

\* If everything but x comes from a place of its own and is still the same, and
\* x has nothing in common with the others, there is one owner again.
LEMMA MovedOne ==
    ASSUME NEW P, NEW at, One(P, at), NEW P2, NEW at2, NEW x, NEW from,
           \A p \in P2 \ {x} : from[p] \in P /\ Same(at2[p], at[from[p]]),
           \A p, q \in P2 \ {x} : p # q => from[p] # from[q],
           x \in P2 => /\ IsInjective(at2[x].calls)
                       /\ \A p \in P2 \ {x} : Apart(at2[x], at[from[p]])
    PROVE  One(P2, at2)
<1>1. ASSUME NEW p \in P2 PROVE IsInjective(at2[p].calls)
  <2>1. CASE p = x
    BY <2>1
  <2>2. CASE p # x
    BY <2>2 DEF One, Same
  <2> QED
    BY <2>1, <2>2
<1>2. ASSUME NEW p \in P2, NEW q \in P2 \ {p} PROVE Apart(at2[p], at2[q])
  <2>1. CASE p # x /\ q # x
    <3>1. /\ from[p] \in P /\ from[q] \in P /\ from[p] # from[q]
          /\ Same(at2[p], at[from[p]]) /\ Same(at2[q], at[from[q]])
      BY <2>1
    <3>2. Apart(at[from[p]], at[from[q]])
      BY <3>1 DEF One
    <3> QED
      BY <3>1, <3>2 DEF Apart, Same
  <2>2. CASE p = x
    <3>1. q \in P2 \ {x} /\ Same(at2[q], at[from[q]]) /\ Apart(at2[x], at[from[q]])
      BY <2>2
    <3> QED
      BY <2>2, <3>1 DEF Apart, Same
  <2>3. CASE q = x
    <3>1. p \in P2 \ {x} /\ Same(at2[p], at[from[p]]) /\ Apart(at2[x], at[from[p]])
      BY <2>3
    <3> QED
      BY <2>3, <3>1 DEF Apart, Same
  <2> QED
    BY <2>1, <2>2, <2>3
<1> QED
  BY <1>1, <1>2 DEF One

LEMMA PlacesTyped ==
    ASSUME IndexInv, QueueInv, NEW p \in Places
    PROVE  /\ ProcAt(p) \in Procs /\ ProcAt(p).exec \in Nat
           /\ ProcAt(p).calls \in Seq(OCalls)
<1>1. ProcAt(p) \in Procs
  <2>1. p \in PlacesOf(index, dispatchQueue, archived)
    BY PlacesHere
  <2>2. ProcAt(p) = At(index, dispatchQueue, archived, p)
    BY PlacesHere
  <2>3. CASE \E n \in 1..Len(archived) : p = Archive(n)
    <3>1. \A n \in 1..Len(archived) : archived[n] \in Procs
      BY DEF QueueInv
    <3> QED
      BY <2>2, <2>3, <3>1, AtPlace
  <2>4. CASE \E n \in 1..Len(dispatchQueue) : p = Queue(n) /\ IsProc(dispatchQueue[n])
    <3>1. \A n \in 1..Len(dispatchQueue) : dispatchQueue[n] \in Procs \cup {Wild}
      BY DEF QueueInv
    <3>2. \A n \in 1..Len(dispatchQueue) : IsProc(dispatchQueue[n]) => dispatchQueue[n] \in Procs
      BY <3>1 DEF IsProc
    <3> QED
      BY <2>2, <2>4, <3>2, AtPlace
  <2>5. CASE \E i \in 0..index.size : p = Word(i) /\ IsProc(index.procs[i])
    <3>1. \A i \in 0..index.size : i \in Slots
      BY MaxPidAssumption DEF IndexInv, GoodIndex, Slots
    <3>2. \A i \in 0..index.size : IsProc(index.procs[i]) => index.procs[i] \in Procs
      BY <3>1 DEF IndexInv, GoodIndex, GoodWords, GoodAt, IsProc
    <3> QED
      BY <2>2, <2>5, <3>2, AtPlace
  <2> QED
    BY <2>1, <2>3, <2>4, <2>5, PlaceCases
<1> QED
  BY <1>1, BoundsAssumption DEF ProcsOf

LEMMA AppendKeepsInjective ==
    ASSUME NEW T, NEW s \in Seq(T), NEW o \in T, IsInjective(s), o \notin ToSet(s)
    PROVE  IsInjective(Append(s, o))
<1>1. DOMAIN s = 1..Len(s) /\ DOMAIN Append(s, o) = 1..(Len(s) + 1) /\ Len(s) \in Nat
  OBVIOUS
<1>2. /\ \A n \in 1..Len(s) : Append(s, o)[n] = s[n] /\ s[n] # o
      /\ Append(s, o)[Len(s) + 1] = o
  BY DEF ToSet
<1>3. \A n \in 1..(Len(s) + 1) : n \in 1..Len(s) \/ n = Len(s) + 1
  BY <1>1
<1>4. \A m, n \in 1..Len(s) : s[m] = s[n] => m = n
  BY <1>1 DEF IsInjective
<1> DEFINE t == Append(s, o)
<1> HIDE DEF t
<1>5. ASSUME NEW m \in 1..(Len(s) + 1), NEW n \in 1..(Len(s) + 1), t[m] = t[n]
      PROVE  m = n
  BY <1>2, <1>3, <1>4, <1>5 DEF t
<1>6. DOMAIN t = 1..(Len(s) + 1)
  BY <1>1 DEF t
<1>7. IsInjective(t)
  BY <1>5, <1>6 DEF IsInjective
<1> QED
  BY <1>7 DEF t

\* Every step but Dispatch leaves one owner.
LEMMA StepOne ==
    ASSUME IndexInv, QueueInv, IndexInv', QueueInv', OneOwner, Fresh,
           NEW out, NEW x, NEW where, Step(out, x, where)
    PROVE  OneOwner' /\ Fresh'
<1> DEFINE T == Procs \cup {Wild}
           q == dispatchQueue
           e == dispatchQueue'
           at == Here
           at2 == Here'
           P == Places
           P2 == Places'
<1>1. q \in Seq(T) /\ out \in Seq(T) /\ Len(q) <= DispatchSize /\ e = Enqueue(q, out)
  BY DEF QueueInv, Step
<1> HIDE DEF T
<1>2. /\ e \in Seq(T)
      /\ Len(q) <= Len(e) /\ Len(e) <= Len(q) + Len(out)
      /\ \A n \in 1..Len(q) : e[n] = q[n]
      /\ \A n \in (Len(q) + 1)..Len(e) : e[n] = out[n - Len(q)]
  BY <1>1, EnqueueFacts
<1>3. Len(q) \in Nat /\ Len(e) \in Nat /\ Len(out) \in Nat
  BY <1>1, <1>2
<1>4. /\ \A n \in 1..Len(archived) : Archive(n) \in P /\ at[Archive(n)] = archived[n]
      /\ \A n \in 1..Len(q) : IsProc(q[n]) => Queue(n) \in P /\ at[Queue(n)] = q[n]
      /\ \A i \in 0..index.size : IsProc(index.procs[i]) => Word(i) \in P /\ at[Word(i)] = index.procs[i]
  BY InPlaces, AtPlace, PlacesHere DEF Here
<1>5. \A p \in P2 : \/ \E n \in 1..Len(archived') : p = Archive(n) /\ at2[p] = archived'[n]
                    \/ \E n \in 1..Len(e) : p = Queue(n) /\ IsProc(e[n]) /\ at2[p] = e[n]
                    \/ \E i \in 0..index'.size : p = Word(i) /\ IsProc(index'.procs[i])
                                                 /\ at2[p] = index'.procs[i]
  BY PlaceCases, AtPlace, PlacesNext DEF Here
<1>6. /\ archived' = archived
      /\ Moves(index, index', out, x, where)
  BY DEF Step
<1> HIDE DEF at, at2, P, P2, q, e
\* Where the process at p was before the step
<1> DEFINE New(p) == \E n \in (Len(q) + 1)..Len(e) : p = Queue(n)
           from == [p \in P2 |-> IF New(p) THEN Word(where[p[2] - Len(q)]) ELSE p]
<1>7. ASSUME NEW n \in (Len(q) + 1)..Len(e), Queue(n) \in P2
      PROVE  /\ n - Len(q) \in 1..Len(out)
             /\ IsProc(out[n - Len(q)])
             /\ from[Queue(n)] = Word(where[n - Len(q)])
             /\ at2[Queue(n)] = out[n - Len(q)]
  <2>1. n - Len(q) \in 1..Len(out)
    BY <1>2, <1>3
  <2>2. Queue(n)[2] = n
    BY DEF Queue
  <2>3. from[Queue(n)] = Word(where[n - Len(q)])
    BY <1>7, <2>2
  <2>4. PICK m \in 1..Len(e) : Queue(n) = Queue(m) /\ IsProc(e[m]) /\ at2[Queue(n)] = e[m]
    BY <1>5, <1>7, DifferentPlaces
  <2>5. m = n
    BY <2>4, DifferentPlaces
  <2> QED
    BY <1>2, <2>1, <2>3, <2>4, <2>5
<1>8. ASSUME NEW p \in P2, ~New(p) PROVE from[p] = p
  BY <1>8
<1> HIDE DEF from
<1>9. ASSUME NEW p \in P2 \ {Word(x)}, ~New(p)
      PROVE  p \in P /\ Same(at2[p], at[p])
  <2>1. CASE \E n \in 1..Len(archived') : p = Archive(n) /\ at2[p] = archived'[n]
    BY <1>4, <1>6, <2>1 DEF Same
  <2>2. CASE \E n \in 1..Len(e) : p = Queue(n) /\ IsProc(e[n]) /\ at2[p] = e[n]
    <3>1. PICK n \in 1..Len(e) : p = Queue(n) /\ IsProc(e[n]) /\ at2[p] = e[n]
      BY <2>2
    <3>2. n \in 1..Len(q)
      <4>1. n \notin (Len(q) + 1)..Len(e)
        BY <1>9, <3>1
      <4> QED
        BY <1>3, <4>1
    <3> QED
      BY <1>2, <1>4, <3>1, <3>2 DEF Same
  <2>3. CASE \E i \in 0..index'.size : p = Word(i) /\ IsProc(index'.procs[i])
                                       /\ at2[p] = index'.procs[i]
    <3>1. PICK i \in 0..index'.size : p = Word(i) /\ IsProc(index'.procs[i])
                                      /\ at2[p] = index'.procs[i]
      BY <2>3
    <3>2. i # x
      BY <1>9, <3>1
    <3>3. i \in 0..index.size /\ IsProc(index.procs[i]) /\ Same(index'.procs[i], index.procs[i])
      BY <1>6, <3>1, <3>2 DEF Moves
    <3> QED
      BY <1>4, <3>1, <3>3
  <2> QED
    BY <1>5, <2>1, <2>2, <2>3
<1>10. ASSUME NEW n \in (Len(q) + 1)..Len(e), Queue(n) \in P2
       PROVE  /\ Word(where[n - Len(q)]) \in P
              /\ Same(at2[Queue(n)], at[Word(where[n - Len(q)])])
              /\ where[n - Len(q)] = x \/ ~IsProc(index'.procs[where[n - Len(q)]])
  <2> DEFINE k == n - Len(q)
  <2>1. k \in 1..Len(out) /\ IsProc(out[k]) /\ at2[Queue(n)] = out[k]
    BY <1>7, <1>10
  <2> HIDE DEF k
  <2>2. /\ where[k] \in 0..index.size /\ out[k] = index.procs[where[k]]
        /\ where[k] = x \/ ~IsProc(index'.procs[where[k]])
    BY <1>6, <2>1 DEF Moves
  <2>3. Word(where[k]) \in P /\ at[Word(where[k])] = out[k]
    BY <1>4, <2>1, <2>2
  <2> QED
    BY <2>1, <2>2, <2>3 DEF k, Same
<1>11. \A p \in P2 \ {Word(x)} : from[p] \in P /\ Same(at2[p], at[from[p]])
  <2> SUFFICES ASSUME NEW p \in P2 \ {Word(x)} PROVE from[p] \in P /\ Same(at2[p], at[from[p]])
    OBVIOUS
  <2>1. CASE New(p)
    BY <1>7, <1>10, <2>1
  <2>2. CASE ~New(p)
    BY <1>8, <1>9, <2>2
  <2> QED
    BY <2>1, <2>2
<1>12. ASSUME NEW p \in P2 \ {Word(x)}, NEW r \in P2 \ {Word(x)}, p # r
       PROVE  from[p] # from[r]
  <2>1. CASE ~New(p) /\ ~New(r)
    BY <1>8, <1>12, <2>1
  <2>2. ASSUME NEW u \in P2 \ {Word(x)}, NEW v \in P2 \ {Word(x)}, New(u), ~New(v)
        PROVE  from[u] # from[v]
    <3>1. PICK n \in (Len(q) + 1)..Len(e) : u = Queue(n)
      BY <2>2
    <3> DEFINE i == where[n - Len(q)]
    <3>2. from[u] = Word(i) /\ (i = x \/ ~IsProc(index'.procs[i]))
      BY <1>7, <1>10, <3>1
    <3> HIDE DEF i
    <3>3. from[v] = v
      BY <1>8, <2>2
    <3> SUFFICES ASSUME v = Word(i) PROVE FALSE
      BY <3>2, <3>3
    <3>4. PICK j \in 0..index'.size : v = Word(j) /\ IsProc(index'.procs[j])
      BY <1>5, DifferentPlaces
    <3>5. j = i
      BY <3>4, DifferentPlaces
    <3> QED
      BY <3>2, <3>4, <3>5
  <2>3. CASE New(p) /\ New(r)
    <3>1. PICK m \in (Len(q) + 1)..Len(e) : p = Queue(m)
      BY <2>3
    <3>2. PICK n \in (Len(q) + 1)..Len(e) : r = Queue(n)
      BY <2>3
    <3> DEFINE j == m - Len(q)
               k == n - Len(q)
    <3>3. m # n
      BY <1>12, <3>1, <3>2
    <3>4. j # k
      BY <1>3, <3>3
    <3>5. /\ j \in 1..Len(out) /\ IsProc(out[j]) /\ from[p] = Word(where[j])
          /\ k \in 1..Len(out) /\ IsProc(out[k]) /\ from[r] = Word(where[k])
      BY <1>7, <3>1, <3>2
    <3> HIDE DEF j, k
    <3>6. where[j] # where[k]
      BY <1>6, <3>4, <3>5 DEF Moves
    <3> QED
      BY <3>5, <3>6, DifferentPlaces
  <2> QED
    BY <2>1, <2>2, <2>3
<1>13. One(P, at)
  BY OneOwnerIs DEF P, at
<1>14. \A p \in P : /\ at[p].exec <= execs /\ at[p].exec \in Nat
                    /\ \A c \in ToSet(at[p].calls) : c.id <= opens
  BY PlacesTyped DEF Fresh, Old, P, at, Here
<1>15. execs \in Nat /\ opens \in Nat /\ execs' \in Nat /\ opens' \in Nat /\ execs' >= execs /\ opens' >= opens
  BY BoundsAssumption DEF IndexInv, Step
\* The word that may hold something new
<1> DEFINE y == index'.procs[x]
<1>16. Word(x) \in P2 => x \in 0..index'.size /\ IsProc(y) /\ at2[Word(x)] = y
  <2> SUFFICES ASSUME Word(x) \in P2 PROVE x \in 0..index'.size /\ IsProc(y) /\ at2[Word(x)] = y
    OBVIOUS
  <2>1. PICK i \in 0..index'.size : /\ Word(x) = Word(i) /\ IsProc(index'.procs[i])
                                    /\ at2[Word(x)] = index'.procs[i]
    BY <1>5, DifferentPlaces
  <2>2. i = x
    BY <2>1, DifferentPlaces
  <2> QED
    BY <2>1, <2>2
<1> HIDE DEF y
<1>17. ASSUME Word(x) \in P2
       PROVE  /\ IsInjective(y.calls)
              /\ \A p \in P2 \ {Word(x)} : Apart(y, at[from[p]])
              /\ y.exec <= execs' /\ \A c \in ToSet(y.calls) : c.id <= opens'
  <2>1. \/ Entered(y, execs + 1) /\ execs' = execs + 1
        \/ /\ out = <<>> /\ opens' = opens + 1
           /\ \E o \in OCalls : o.id = opens + 1 /\ TakenBy(index, index', x, o)
    BY <1>16, <1>17 DEF Step, y
  <2>2. CASE Entered(y, execs + 1) /\ execs' = execs + 1
    <3>1. y.calls = <<>> /\ y.exec = execs + 1
      BY <2>2 DEF Entered
    <3>2. ToSet(<<>>) = {} /\ IsInjective(<<>>)
      BY DEF ToSet, IsInjective
    <3>3. \A p \in P2 \ {Word(x)} : y.exec # at[from[p]].exec
      BY <1>11, <1>14, <1>15, <3>1
    <3> QED
      BY <1>15, <2>2, <3>1, <3>2, <3>3 DEF Apart
  <2>3. ASSUME out = <<>>, opens' = opens + 1,
               NEW o \in OCalls, o.id = opens + 1, TakenBy(index, index', x, o)
        PROVE  /\ IsInjective(y.calls)
               /\ \A p \in P2 \ {Word(x)} : Apart(y, at[from[p]])
               /\ y.exec <= execs' /\ \A c \in ToSet(y.calls) : c.id <= opens'
    <3>1. \A p \in P : o \notin ToSet(at[p].calls)
      BY <1>14, <1>15, <2>3
    <3>2. ASSUME NEW p \in P2 PROVE from[p] = p
      <4>1. Len(out) = 0
        BY <2>3
      <4>2. (Len(q) + 1)..Len(e) = {}
        BY <1>2, <1>3, <4>1
      <4> QED
        BY <1>8, <4>2
    <3>3. CASE /\ x \in 0..index.size /\ IsProc(index.procs[x])
               /\ y.exec = index.procs[x].exec /\ y.calls = Append(index.procs[x].calls, o)
      <4> DEFINE s == index.procs[x].calls
      <4>1. Word(x) \in P /\ at[Word(x)] = index.procs[x]
        BY <1>4, <3>3
      <4>2. s \in Seq(OCalls)
        BY <4>1, PlacesTyped DEF P, at, Here
      <4>3. IsInjective(s) /\ o \notin ToSet(s)
        BY <1>13, <3>1, <4>1 DEF One
      <4> HIDE DEF s
      <4>4. y.calls = Append(s, o) /\ y.exec = at[Word(x)].exec /\ at[Word(x)].calls = s
        BY <3>3, <4>1 DEF s
      <4>5. IsInjective(y.calls) /\ ToSet(y.calls) = ToSet(s) \cup {o}
        BY <4>2, <4>3, <4>4, AppendKeepsInjective, AppendSet
      <4>6. ASSUME NEW p \in P2 \ {Word(x)} PROVE Apart(y, at[p])
        <5>1. p \in P /\ p # Word(x)
          BY <1>11, <3>2
        <5>2. Apart(at[Word(x)], at[p])
          BY <1>13, <4>1, <5>1 DEF One
        <5>3. ToSet(s) \cap ToSet(at[p].calls) = {} /\ o \notin ToSet(at[p].calls)
          BY <3>1, <4>4, <5>1, <5>2 DEF Apart
        <5> QED
          BY <4>4, <4>5, <5>2, <5>3 DEF Apart
      <4>7. \A c \in ToSet(y.calls) : c.id <= opens'
        <5>1. \A c \in ToSet(s) : c \in OCalls
          BY <4>2 DEF ToSet
        <5>2. \A c \in ToSet(s) : c.id \in Nat
          BY <5>1, BoundsAssumption DEF OCalls
        <5>3. \A c \in ToSet(s) : c.id <= opens
          BY <1>14, <4>1, <4>4
        <5> QED
          BY <1>15, <2>3, <4>5, <5>2, <5>3
      <4>8. y.exec <= execs'
        BY <1>14, <1>15, <4>1, <4>4
      <4> QED
        BY <3>2, <4>5, <4>6, <4>7, <4>8
    <3>4. CASE y.exec = Unknown /\ y.calls = <<o>>
      <4>1. ToSet(<<o>>) = {o} /\ IsInjective(<<o>>)
        BY DEF ToSet, IsInjective
      <4>2. \A p \in P2 \ {Word(x)} : Apart(y, at[from[p]])
        BY <1>11, <3>1, <3>4, <4>1 DEF Apart
      <4> QED
        BY <1>15, <2>3, <3>4, <4>1, <4>2 DEF Unknown
    <3> QED
      BY <2>3, <3>3, <3>4 DEF TakenBy, y
  <2> QED
    BY <2>1, <2>2, <2>3
<1>18. One(P2, at2)
  BY <1>11, <1>12, <1>13, <1>16, <1>17, MovedOne
<1>19. Old(P2, at2, execs', opens')
  <2> SUFFICES ASSUME NEW p \in P2
               PROVE  at2[p].exec <= execs' /\ \A c \in ToSet(at2[p].calls) : c.id <= opens'
    BY DEF Old
  <2>1. CASE p = Word(x)
    BY <1>16, <1>17, <2>1
  <2>2. CASE p # Word(x)
    <3>1. from[p] \in P /\ at2[p].exec = at[from[p]].exec /\ at2[p].calls = at[from[p]].calls
      BY <1>11, <2>2 DEF Same
    <3>2. at[from[p]].exec <= execs /\ at[from[p]].exec \in Nat
      BY <1>14, <3>1
    <3>3. \A c \in ToSet(at[from[p]].calls) : c.id \in Nat /\ c.id <= opens
      <4>1. at[from[p]].calls \in Seq(OCalls)
        BY <3>1, PlacesTyped DEF P, at, Here
      <4>2. \A c \in ToSet(at[from[p]].calls) : c \in OCalls
        BY <4>1 DEF ToSet
      <4> QED
        BY <1>14, <3>1, <4>2, BoundsAssumption DEF OCalls
    <3> QED
      BY <1>15, <3>1, <3>2, <3>3
  <2> QED
    BY <2>1, <2>2
<1>20. OneOwner'
  BY <1>18, OneOwnerIs DEF P2, at2, One
<1>21. Fresh'
  BY <1>19 DEF P2, at2, Fresh, Old
<1> QED
  BY <1>20, <1>21

\* The batch goes from the queue to the archive.
LEMMA DispatchOne ==
    ASSUME QueueInv, OneOwner, Fresh, Dispatch
    PROVE  OneOwner' /\ Fresh'
<1> DEFINE T == Procs \cup {Wild}
           q == dispatchQueue
           b == Batch(dispatchQueue)
           at == Here
           at2 == Here'
           P == Places
           P2 == Places'
<1>1. q \in Seq(T) /\ archived \in Seq(Procs)
  BY DEF QueueInv
<1>2. /\ b \in Seq(T \ {Wild}) /\ Len(b) <= Len(q)
      /\ \A n \in 1..Len(b) : b[n] = q[n]
  BY <1>1, BatchFacts
<1>3. T \ {Wild} \subseteq Procs
  OBVIOUS
<1> HIDE DEF T
<1>4. /\ archived' = archived \o b /\ dispatchQueue' = <<>> /\ index' = index
      /\ execs' = execs /\ opens' = opens
  BY DEF Dispatch
<1> HIDE DEF b
<1>5. b \in Seq(Procs) /\ Len(b) \in Nat /\ Len(archived) \in Nat /\ Len(q) \in Nat
  BY <1>1, <1>2, <1>3
<1>6. /\ Len(archived') = Len(archived) + Len(b)
      /\ \A n \in 1..Len(archived) : archived'[n] = archived[n]
      /\ \A n \in (Len(archived) + 1)..Len(archived') : archived'[n] = b[n - Len(archived)]
  BY <1>1, <1>4, <1>5
<1>7. \A n \in 1..Len(b) : IsProc(q[n])
  <2>1. \A n \in 1..Len(b) : b[n] \in Procs
    BY <1>5
  <2> QED
    BY <1>2, <2>1, PointersAssumption DEF IsProc
<1>8. /\ \A n \in 1..Len(archived) : Archive(n) \in P /\ at[Archive(n)] = archived[n]
      /\ \A n \in 1..Len(q) : IsProc(q[n]) => Queue(n) \in P /\ at[Queue(n)] = q[n]
      /\ \A i \in 0..index.size : IsProc(index.procs[i]) => Word(i) \in P /\ at[Word(i)] = index.procs[i]
  BY InPlaces, AtPlace, PlacesHere DEF Here
<1>9. \A p \in P2 : \/ \E n \in 1..Len(archived') : p = Archive(n) /\ at2[p] = archived'[n]
                    \/ \E i \in 0..index.size : p = Word(i) /\ IsProc(index.procs[i])
                                                /\ at2[p] = index.procs[i]
  <2>1. 1..Len(dispatchQueue') = {}
    BY <1>4
  <2>2. \A p \in P2 :
           \/ \E n \in 1..Len(archived') : p = Archive(n) /\ at2[p] = archived'[n]
           \/ \E n \in 1..Len(dispatchQueue') : p = Queue(n)
           \/ \E i \in 0..index'.size : p = Word(i) /\ IsProc(index'.procs[i])
                                        /\ at2[p] = index'.procs[i]
    BY PlaceCases, AtPlace, PlacesNext DEF Here
  <2> HIDE DEF P2, at2
  <2> QED
    BY <1>4, <2>1, <2>2
<1> HIDE DEF at, at2, P, P2, q
<1> DEFINE New(p) == \E n \in (Len(archived) + 1)..Len(archived') : p = Archive(n)
           from == [p \in P2 |-> IF New(p) THEN Queue(p[2] - Len(archived)) ELSE p]
<1>10. ASSUME NEW n \in (Len(archived) + 1)..Len(archived'), Archive(n) \in P2
       PROVE  /\ from[Archive(n)] = Queue(n - Len(archived))
              /\ Queue(n - Len(archived)) \in P
              /\ at2[Archive(n)] = at[Queue(n - Len(archived))]
  <2> DEFINE k == n - Len(archived)
  <2>1. k \in 1..Len(b) /\ k \in 1..Len(q)
    BY <1>2, <1>5, <1>6
  <2>2. Archive(n)[2] = n
    BY DEF Archive
  <2>3. from[Archive(n)] = Queue(k)
    BY <1>10, <2>2
  <2>4. at2[Archive(n)] = archived'[n]
    <3>1. PICK m \in 1..Len(archived') : Archive(n) = Archive(m) /\ at2[Archive(n)] = archived'[m]
      BY <1>9, <1>10, DifferentPlaces
    <3>2. m = n
      BY <3>1, DifferentPlaces
    <3> QED
      BY <3>1, <3>2
  <2>5. archived'[n] = b[k]
    BY <1>6
  <2> HIDE DEF k
  <2>6. at2[Archive(n)] = q[k] /\ IsProc(q[k])
    BY <1>2, <1>7, <2>1, <2>4, <2>5
  <2>7. Queue(k) \in P /\ at[Queue(k)] = q[k]
    BY <1>8, <2>1, <2>6
  <2> QED
    BY <2>3, <2>6, <2>7 DEF k
<1>11. ASSUME NEW p \in P2, ~New(p) PROVE from[p] = p /\ p \in P /\ at2[p] = at[p]
  <2>1. from[p] = p
    BY <1>11
  <2>2. CASE \E n \in 1..Len(archived') : p = Archive(n) /\ at2[p] = archived'[n]
    <3>1. PICK n \in 1..Len(archived') : p = Archive(n) /\ at2[p] = archived'[n]
      BY <2>2
    <3>2. n \in 1..Len(archived)
      <4>1. n \notin (Len(archived) + 1)..Len(archived')
        BY <1>11, <3>1
      <4> QED
        BY <1>5, <1>6, <4>1
    <3> QED
      BY <1>6, <1>8, <2>1, <3>1, <3>2
  <2>3. CASE \E i \in 0..index.size : p = Word(i) /\ IsProc(index.procs[i])
                                      /\ at2[p] = index.procs[i]
    BY <1>8, <2>1, <2>3
  <2> QED
    BY <1>9, <2>2, <2>3
<1> HIDE DEF from
<1>12. \A p \in P2 : from[p] \in P /\ at2[p] = at[from[p]]
  <2> SUFFICES ASSUME NEW p \in P2 PROVE from[p] \in P /\ at2[p] = at[from[p]]
    OBVIOUS
  <2>1. CASE New(p)
    BY <1>10, <2>1
  <2>2. CASE ~New(p)
    BY <1>11, <2>2
  <2> QED
    BY <2>1, <2>2
<1>13. ASSUME NEW p \in P2, NEW r \in P2, p # r PROVE from[p] # from[r]
  <2>1. CASE ~New(p) /\ ~New(r)
    BY <1>11, <1>13, <2>1
  <2>2. ASSUME NEW u \in P2, NEW v \in P2, New(u), ~New(v) PROVE from[u] # from[v]
    <3>1. PICK n \in (Len(archived) + 1)..Len(archived') : u = Archive(n)
      BY <2>2
    <3>2. from[u] = Queue(n - Len(archived))
      BY <1>10, <3>1
    <3>3. from[v] = v /\ v # Queue(n - Len(archived))
      BY <1>9, <1>11, <2>2, DifferentPlaces
    <3> QED
      BY <3>2, <3>3
  <2>3. CASE New(p) /\ New(r)
    <3>1. PICK m \in (Len(archived) + 1)..Len(archived') : p = Archive(m)
      BY <2>3
    <3>2. PICK n \in (Len(archived) + 1)..Len(archived') : r = Archive(n)
      BY <2>3
    <3> DEFINE j == m - Len(archived)
               k == n - Len(archived)
    <3>3. j # k
      BY <1>5, <1>13, <3>1, <3>2
    <3>4. from[p] = Queue(j) /\ from[r] = Queue(k)
      BY <1>10, <3>1, <3>2
    <3> HIDE DEF j, k
    <3> QED
      BY <3>3, <3>4, DifferentPlaces
  <2> QED
    BY <2>1, <2>2, <2>3
<1>14. One(P, at)
  BY OneOwnerIs DEF P, at
<1>15. One(P2, at2)
  <2> DEFINE x == Queue(0)
  <2>1. x \notin P2
    BY <1>9, DifferentPlaces
  <2> HIDE DEF x
  <2> QED
    BY <1>12, <1>13, <1>14, <2>1, MovedOne DEF Same
<1>16. Old(P2, at2, execs', opens')
  <2>1. Old(P, at, execs, opens)
    BY DEF Fresh, P, at
  <2> QED
    BY <1>4, <1>12, <2>1 DEF Old
<1>17. OneOwner'
  BY <1>15, OneOwnerIs DEF P2, at2, One
<1>18. Fresh'
  BY <1>16 DEF P2, at2, Fresh, Old
<1> QED
  BY <1>17, <1>18

\* For every history: an exec call is in one place and an open call in one
\* buffer, so that nothing is archived or freed twice.  The invariant needs
\* that no call in the daemon is newer than the last one received.
THEOREM OneOwnerAlways == Spec => []OneOwner
<1>1. Init => OneOwner /\ Fresh
  <2> SUFFICES ASSUME Init PROVE Places = {}
    BY DEF OneOwner, Fresh, Old
  <2>1. archived = <<>> /\ dispatchQueue = <<>> /\ \A i \in 0..index.size : ~IsProc(index.procs[i])
    <3>1. PICK w \in Slack : index = NewIndex(GuidePid, w)
      BY DEF Init
    <3>2. \A i \in Slots : index.procs[i] \in {w, NULL}
      BY <3>1 DEF NewIndex
    <3>3. index.size \in 1..(MaxPid + 1)
      BY InitInv DEF IndexInv, GoodIndex
    <3>4. \A i \in 0..index.size : i \in Slots
      BY <3>3, MaxPidAssumption DEF Slots
    <3> QED
      BY <3>2, <3>4, SlackAssumption DEF Init, IsProc
  <2>2. \A p \in PlacesOf(index, dispatchQueue, archived) : FALSE
    <3>1. 1..Len(archived) = {} /\ 1..Len(dispatchQueue) = {}
      BY <2>1
    <3> QED
      BY <2>1, <3>1, PlaceCases
  <2> QED
    BY <2>2, PlacesHere
<1>2. IndexInv /\ QueueInv /\ OneOwner /\ Fresh /\ [Next]_vars => (OneOwner /\ Fresh)'
  <2> SUFFICES ASSUME IndexInv, QueueInv, OneOwner, Fresh, [Next]_vars
               PROVE  OneOwner' /\ Fresh'
    OBVIOUS
  <2>1. IndexInv' /\ QueueInv'
    BY StepInv, QueueStep
  <2> QED
    BY <2>1, StepIs, StepOne, DispatchOne
<1> QED
  BY <1>1, <1>2, TypesInvariant, PTL DEF Spec
=============================================================================

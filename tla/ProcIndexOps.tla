---------------------------- MODULE ProcIndexOps ----------------------------
(***************************************************************************)
(* The functions of struct procindex (watchdog.c), as operators from an    *)
(* index to an index.  An index is a record of `size', the number of words *)
(* allocated, and `procs', the memory the code indexes: the words          *)
(* 0..size-1 are the array, and the word `size' right behind it is memory  *)
(* too.  The process `pid' lives in word pid+1, while the bounds tests     *)
(* only ask for size >= pid+1: the word behind the array is in use         *)
(* whenever pid+1 = size.                                                  *)
(*                                                                         *)
(* A process is a record of the fields of execCall that steer the code.    *)
(* The functions of surveiller that move processes from the index to the   *)
(* dispatch queue are here too; `out' is what they write to the queue.     *)
(* Memory allocation is assumed to succeed.                                *)
(***************************************************************************)
EXTENDS Integers, FiniteSets, SequencesExt

CONSTANTS
    MaxPid,         \* /proc/sys/kernel/pid_max
    CallBuffSize,   \* 8: the initial size of a callBuff
    NULL,           \* the null pointer
    Wild,           \* a word that is neither null nor a process
    Slack,          \* what the word behind a new array may hold
    DispatchSize    \* SIZE_RING: capacity of the dispatch queue

ASSUME MaxPidAssumption == MaxPid \in Nat \ {0}
ASSUME CallBuffAssumption == CallBuffSize \in Nat /\ CallBuffSize > 2
ASSUME SlackAssumption == Slack \subseteq {NULL, Wild}
ASSUME DispatchAssumption == DispatchSize \in Nat \ {0}

Slots == 0..(MaxPid + 1)

\* The exec call of a dummy process: opened a file before any exec was seen.
Unknown == 0

InRange(pid) == pid \in 0..MaxPid

\* The processes, with E for the names of the exec calls and O for the open calls
ProcsOf(E, O) ==
    [exec : E, pid : 0..MaxPid, ppid : Nat, tracked : BOOLEAN,
     deadness : 0..3, calls : Seq(O), callBuff_size : Nat]

IsProc(p) == p \notin {NULL, Wild}

\* What the index says of a process is right: it is tracked exactly when it has
\* open calls (only then do vitals and flush archive it instead of freeing it),
\* every call in its buffer was made by its pid, and the buffer has room for
\* the next one.
ProcSound(p) ==
    /\ p.tracked <=> p.calls # <<>>
    /\ \A n \in 1..Len(p.calls) : p.calls[n].pid = p.pid
    /\ Len(p.calls) + 2 <= p.callBuff_size

-----------------------------------------------------------------------------
(* Processes *)

\* execCall_init, and the dummy that procindex_opencall_add sets up
NewProc(exec, pid, ppid) ==
    [exec |-> exec, pid |-> pid, ppid |-> ppid, tracked |-> FALSE,
     deadness |-> 0, calls |-> <<>>, callBuff_size |-> CallBuffSize]

\* Mutant of WithCall: the buffer grows only once it is full.
WithCallLate(p, ocall) ==
    [p EXCEPT !.calls = Append(@, ocall),
              !.callBuff_size = IF Len(p.calls) = @ THEN 2 * @ ELSE @]

\* The tail of procindex_opencall_add: callBuff is doubled when two places
\* are left, and takes the call.
WithCall(p, ocall) ==
    [p EXCEPT !.calls = Append(@, ocall),
              !.callBuff_size = IF Len(p.calls) + 2 = @ THEN 2 * @ ELSE @]

-----------------------------------------------------------------------------
(* The array *)

\* procindex_init, with the daemon's own pid for a guide
InitialSize(guide) ==
    IF guide >= 1 /\ (guide + 1) * 2 < MaxPid THEN (guide + 1) * 2 ELSE MaxPid + 1

\* The array is allocated with calloc; the word behind it is whatever it is.
NewIndex(guide, w) ==
    [size  |-> InitialSize(guide),
     procs |-> [i \in Slots |-> IF i = InitialSize(guide) THEN w ELSE NULL]]

\* The size that doubling reaches, from `size', to hold `need' words: the
\* doubling that is at least `need', or MaxPid + 1 if it is beyond that.
GrownSize(size, need) ==
    LET Fits(s) == /\ \E k \in 0..MaxPid : s = size * 2^k
                   /\ need <= s /\ s < 2 * need
    IN  IF need <= size THEN size
        ELSE IF \E s \in need..(MaxPid + 1) : Fits(s)
             THEN CHOOSE s \in need..(MaxPid + 1) : Fits(s)
             ELSE MaxPid + 1

\* The realloc loops of procindex_add and procindex_opencall_add: the words
\* from the old size up are nulled, the old word behind the array among them.
Grow(ix, pid, w) ==
    LET new == GrownSize(ix.size, pid + 1)
    IN  IF new = ix.size THEN ix
        ELSE [size  |-> new,
              procs |-> [i \in Slots |->
                            IF i < ix.size THEN ix.procs[i]
                            ELSE IF i = new THEN w ELSE NULL]]

\* What `this->size >= pid+1 && this->procs[pid+1]' sees.
Lookup(ix, pid) == IF ix.size >= pid + 1 THEN ix.procs[pid + 1] ELSE NULL

Store(ix, pid, p) == [ix EXCEPT !.procs[pid + 1] = p]

-----------------------------------------------------------------------------
(* The operations: each returns the new index and how the call ended       *)
(* ("crash" is a null or wild pointer followed).                           *)

\* Mutant of Add: the new call overwrites an old process of the same pid.
AddOverwriting(ix, call, w) ==
    LET g == Grow(ix, call.pid, w)
    IN  IF ~InRange(call.pid) THEN [ix |-> ix, ret |-> "range"]
        ELSE [ix  |-> Store(g, call.pid, [call EXCEPT !.ppid = 0]), ret |-> "ok"]

\* procindex_add.  With a parent in the index the code reads the time stamp
\* of procs[call->pid+1], just found to be null, instead of the parent's.
Add(ix, call, w) ==
    LET g == Grow(ix, call.pid, w)
    IN  IF ~InRange(call.pid) THEN [ix |-> ix, ret |-> "range"]
        ELSE IF g.procs[call.pid + 1] # NULL THEN [ix |-> g, ret |-> "exists"]
        ELSE IF Lookup(g, call.ppid) # NULL THEN [ix |-> g, ret |-> "crash"]
        ELSE [ix |-> Store(g, call.pid, [call EXCEPT !.ppid = 0]), ret |-> "ok"]

\* procindex_retrieve leaves a null; what it returns is Lookup(ix, pid).
Retrieve(ix, pid) == IF Lookup(ix, pid) = NULL THEN ix ELSE Store(ix, pid, NULL)

\* procindex_trackparents: the untracked ancestors of `child', up to the first
\* one that is unknown or tracked already.
UntrackedAncestors(procs, child) ==
    LET Parent(c) ==
            IF c = 0 THEN 0
            ELSE LET pp == procs[c + 1].ppid
                 IN  IF procs[pp + 1] \in {NULL, Wild} \/ procs[pp + 1].tracked
                     THEN 0 ELSE pp
        chain[n \in 0..MaxPid] == IF n = 0 THEN child ELSE Parent(chain[n - 1])
    IN  IF Parent(child) = 0 THEN {} ELSE {chain[n] : n \in 1..MaxPid} \ {0}

\* The process takes the call; if this is its first, it and its ancestors
\* become tracked.
TakeCall(procs, pid, ocall) ==
    LET p == procs[pid + 1]
        marked == IF p.tracked THEN {} ELSE UntrackedAncestors(procs, pid)
    IN  [i \in Slots |->
            IF i = pid + 1 THEN [WithCall(p, ocall) EXCEPT !.tracked = TRUE]
            ELSE IF i - 1 \in marked THEN [procs[i] EXCEPT !.tracked = TRUE]
            ELSE procs[i]]

\* procindex_opencall_add
OpencallAdd(ix, pid, ocall, w) ==
    LET g == Grow(ix, pid, w)
        target == g.procs[pid + 1]
        dummy == Add(g, NewProc(Unknown, pid, 0), w)
        Taken(i) == [ix |-> [i EXCEPT !.procs = TakeCall(@, pid, ocall)], ret |-> "ok"]
    IN  IF ~InRange(pid) THEN [ix |-> ix, ret |-> "range"]
        ELSE IF target = Wild THEN [ix |-> g, ret |-> "crash"]
        ELSE IF target # NULL THEN Taken(g)
        ELSE IF dummy.ret = "crash" THEN dummy
        ELSE Taken(dummy.ix)

-----------------------------------------------------------------------------
(* From the index to the dispatch queue *)

\* The return value of g_ringBuffer_write is ignored by all callers: what
\* does not fit is dropped.
Enqueue(queue, procs) ==
    LET all == queue \o procs
    IN  IF Len(all) <= DispatchSize THEN all ELSE SubSeq(all, 1, DispatchSize)

\* The open calls of the processes in a list
CallsOf(procs) ==
    UNION {ToSet(procs[n].calls) : n \in {i \in 1..Len(procs) : IsProc(procs[i])}}

\* The open calls that go down when `procs' are enqueued: those of the
\* processes that do not fit.
Dropped(queue, procs) ==
    CallsOf(SubSeq(queue \o procs, DispatchSize + 1, Len(queue) + Len(procs)))

\* The open calls that go down when ix grows to ix2: those of the process in
\* the word behind the old array, which is nulled.
Overgrown(ix, ix2) == IF ix2.size > ix.size THEN CallsOf(<<ix.procs[ix.size]>>) ELSE {}

\* The dispatch batch of the main loop takes everything that is queued, up to
\* a wild pointer, on which surv_database_dispatch crashes.
Batch(queue) ==
    LET good == {n \in 0..Len(queue) : \A i \in 1..n : queue[i] # Wild}
    IN  SubSeq(queue, 1, CHOOSE n \in good : n + 1 \notin good)

\* Mutant of AddReplacing: a call whose pid is present is given up.
AddGivingUp(ix, call, w) ==
    LET first == Add(ix, call, w)
    IN  [ix |-> first.ix, ret |-> first.ret, out |-> <<>>]

\* surv_addExecCall: a process that has the pid already is over; it leaves the
\* index for the dispatch queue, and the call is added once more.
AddReplacing(ix, call, w) ==
    LET first == Add(ix, call, w)
        second == Add(Retrieve(first.ix, call.pid), call, w)
    IN  IF first.ret = "exists"
        THEN [ix |-> second.ix, ret |-> second.ret, out |-> <<Lookup(first.ix, call.pid)>>]
        ELSE [ix |-> first.ix, ret |-> first.ret, out |-> <<>>]

\* The numbers of a finite set, in increasing order.
InOrder(S) ==
    CHOOSE s \in [1..Cardinality(S) -> S] :
        /\ \A m, n \in 1..Cardinality(S) : m < n => s[m] < s[n]
        /\ \A i \in S : \E n \in 1..Cardinality(S) : s[n] = i

\* What a loop over the array finds in the words `where'.
ProcsAt(procs, where) == [n \in 1..Cardinality(where) |-> procs[InOrder(where)[n]]]

\* The words first..last that hold a tracked process.
TrackedIn(procs, first, last) ==
    {i \in first..last : procs[i] # NULL /\ procs[i].tracked}

\* Mutant of VitalsOf: an untracked process is kept one check too long.
VitalsLate(p, gone) ==
    IF p = NULL \/ p.pid \notin gone THEN p
    ELSE IF p.tracked \/ p.deadness > 3 THEN NULL
    ELSE [p EXCEPT !.deadness = @ + 1]

\* Mutant of VitalsOf: a dispatched process stays in the index.
VitalsKeeping(p, gone) ==
    IF p = NULL \/ p.pid \notin gone \/ p.tracked THEN p
    ELSE IF p.deadness > 2 THEN NULL
    ELSE [p EXCEPT !.deadness = @ + 1]

\* Mutant of VitalsOf: a dead process is freed whether it is tracked or not.
VitalsUntracked(p, gone) ==
    IF p = NULL \/ p.pid \notin gone THEN p
    ELSE IF p.deadness > 2 THEN NULL
    ELSE [p EXCEPT !.deadness = @ + 1]

\* What surv_check_proc_vitals leaves of one process, `gone' being the pids
\* for which kill(pid, 0) fails with ESRCH.
VitalsOf(p, gone) ==
    IF p = NULL \/ p.pid \notin gone THEN p
    ELSE IF p.tracked \/ p.deadness > 2 THEN NULL
    ELSE [p EXCEPT !.deadness = @ + 1]

\* surv_check_proc_vitals goes through the words of the array.
CheckVitals(ix, gone) ==
    [ix  |-> [ix EXCEPT !.procs =
                 [i \in Slots |-> IF i < ix.size THEN VitalsOf(@[i], gone) ELSE @[i]]],
     out |-> ProcsAt(ix.procs, {i \in TrackedIn(ix.procs, 0, ix.size - 1) :
                                   ix.procs[i].pid \in gone})]

\* Mutant of Flush: the last word of the array is forgotten.
FlushShort(ix) ==
    [ix  |-> [ix EXCEPT !.procs =
                 [i \in Slots |-> IF i \in 1..(ix.size - 2) THEN NULL ELSE @[i]]],
     out |-> ProcsAt(ix.procs, TrackedIn(ix.procs, 1, ix.size - 2))]

\* surv_flush_procindex retrieves the pids 0..size-2, in the words 1..size-1,
\* and destroys what is not tracked.
Flush(ix) ==
    [ix  |-> [ix EXCEPT !.procs =
                 [i \in Slots |-> IF i \in 1..(ix.size - 1) THEN NULL ELSE @[i]]],
     out |-> ProcsAt(ix.procs, TrackedIn(ix.procs, 1, ix.size - 1))]
=============================================================================

------------------------------ MODULE Watchdog ------------------------------
(***************************************************************************)
(* The watchdog daemon: the main loop of watchdog.c together with its      *)
(* socket threads (Parser), its shutdown and control threads (Control),    *)
(* the process index and the dispatch queue (ProcIndexOps), and its        *)
(* environment: the tracers at the other end of the sockets, signals and   *)
(* clients.                                                                *)
(*                                                                         *)
(* The threads share the two queues, the flags of struct surveiller and    *)
(* the kill pipe, without locks.  Everything the main thread does between  *)
(* two accesses to shared state is one step.                               *)
(***************************************************************************)
EXTENDS ProcIndexOps

CONSTANTS
    QueueSize,      \* SIZE_RING: capacity of commandQueue and openQueue
    MaxTries,       \* maxtries_enqueue
    Faults,         \* the threads whose socket calls may fail
    Unwanted,       \* the open calls that the filter may refuse
    Mortal,         \* the pids whose processes may end
    Clients,        \* the requests that clients may send
    GuidePid,       \* ownPID, the guide for the initial size of the index
    Workloads,      \* what the tracers report: for each kind of call, a
                    \* sequence of calls in the order of their time stamps,
                    \* and which threads are `down' from the start
    VitalsEvery,    \* 1024: iterations between two checks of the processes
    DispatchEvery,  \* 512: iterations between two dispatch batches
    CanExpire       \* TRUE: the counter may reach 424242 iterations

ASSUME PeriodsAssumption ==
    VitalsEvery \in Nat \ {0} /\ DispatchEvery \in Nat \ {0} /\ CanExpire \in BOOLEAN

VARIABLES
    ppc, rfds, processing, tries, chunk, refused,       \* the socket threads
    spc, signalled, cpc, serving, promised, restart,   \* see Control
    stream, tracer, queue, shutting_down, killpipe,     \* shared
    mpc,            \* where the main thread is
    tick,           \* counter modulo VitalsEvery
    ready,          \* ready_calls
    comp,           \* compMode
    temp,           \* temp["exec"] is tempEcall, temp["open"] tempOcall
    test,           \* which operand of the `dead' expression is next
    dead,
    index,          \* surv.procs
    dispatchQueue,  \* surv.dispatchQueue
    archived,       \* what surv_database_dispatch was given, in order
    received,       \* history: the open calls taken from the socket
    lost            \* history: the open calls lost by the main thread: their
                    \* pid was out of range, the index grew over their process,
                    \* or the dispatch queue had no room for it

INSTANCE Parser
INSTANCE Control

\* The calls of a kind that some tracer may report
Reports(k) == UNION {ToSet(w[k]) : w \in Workloads}

ASSUME QueuesAssumption == QueueSize \in Nat \ {0} /\ MaxTries \in Nat \ {0}
ASSUME GuideAssumption == GuidePid \in Nat
ASSUME WorkloadsAssumption ==
    \A w \in Workloads : \A k \in Kinds : w[k] \in Seq(Reports(k))
ASSUME CallsAssumption ==
    /\ \A e \in Reports("exec") : {e.n, e.pid, e.ppid, e.time} \subseteq Nat
    /\ \A o \in Reports("open") : {o.pid, o.time} \subseteq Nat
ASSUME TimeAssumption ==
    \A w \in Workloads : \A k \in Kinds :
        \A i, j \in 1..Len(w[k]) : i < j => w[k][i].time <= w[k][j].time

\* The processes that the index may hold
Procs == ProcsOf(Nat, Reports("open"))

ASSUME PointersAssumption == NULL \notin Procs /\ Wild \notin Procs

parserVars == <<ppc, rfds, processing, tries, chunk, refused, received>>
controlVars == <<spc, signalled, cpc, serving, promised, restart>>
sharedVars == <<stream, tracer, queue, shutting_down, killpipe>>
mainVars == <<mpc, tick, ready, comp, temp, test, dead, index, dispatchQueue, archived, lost>>
vars == <<parserVars, controlVars, sharedVars, mainVars>>

Ended == {"exited", "restarted", "crashed"}

Init ==
    /\ \E w \in Workloads :
          /\ ParserInit(w.down)
          /\ ControlInit(w.down)
          /\ stream = [k \in Kinds |-> w[k]]
          /\ tracer \in [Kinds -> {"absent", "listening"}]
          /\ \A k \in Kinds \ Faults :
                tracer[k] = IF k \in w.down THEN "absent" ELSE "listening"
    /\ queue = [k \in Kinds |-> <<>>]
    /\ shutting_down = FALSE
    /\ killpipe = "open"
    /\ mpc = "top"
    /\ tick = 1 % VitalsEvery
    /\ ready = FALSE
    /\ comp = FALSE
    /\ temp = [k \in Kinds |-> NULL]
    /\ test = 1
    /\ dead = FALSE
    /\ \E w \in Slack : index = NewIndex(GuidePid, w)
    /\ dispatchQueue = <<>>
    /\ archived = <<>>
    /\ received = {}
    /\ lost = {}

-----------------------------------------------------------------------------
(* Applying calls to the index.  A result has the new index, what is to be *)
(* dispatched, the open calls that went down and whether the daemon        *)
(* survives.                                                               *)

Unapplied == [ix |-> index, out |-> <<>>, down |-> {}, ret |-> "ok"]

Then(r, ix, out, down, ret) ==
    [ix |-> ix, out |-> r.out \o out, down |-> UNION {r.down, Overgrown(r.ix, ix), down},
     ret |-> IF r.ret = "crash" THEN r.ret ELSE ret]

ApplyExec(r, e, w) ==
    LET a == AddReplacing(r.ix, NewProc(e.n, e.pid, e.ppid), w)
    IN  Then(r, a.ix, a.out, {}, a.ret)

ApplyLoneExec(r, e, w) ==
    LET a == Add(r.ix, NewProc(e.n, e.pid, e.ppid), w)
    IN  Then(r, a.ix, <<>>, {}, a.ret)

ApplyOpen(r, o, w) ==
    LET a == OpencallAdd(r.ix, o.pid, o, w)
    IN  Then(r, a.ix, <<>>, IF a.ret = "range" THEN {o} ELSE {}, a.ret)

\* (The quantifier over one result has TLC work it out once.)
Effect(result) ==
    \E r \in {result} :
        /\ index' = r.ix
        /\ dispatchQueue' = Enqueue(dispatchQueue, r.out)
        /\ lost' = UNION {lost, r.down, Dropped(dispatchQueue, r.out)}
        /\ mpc' = IF r.ret = "crash" THEN "crashed" ELSE "dead"

-----------------------------------------------------------------------------
(* The main loop *)

\* The head of the loop: the end of the counter raises the shutdown flag, and
\* every so often the processes are checked.  `gone' are the pids that no
\* longer exist.
MainTop ==
    /\ mpc = "top"
    /\ mpc' = IF comp THEN "merge" ELSE "peek"
    /\ shutting_down' \in {shutting_down, shutting_down \/ CanExpire}
    /\ IF tick = 0
       THEN \E gone \in SUBSET {p \in Mortal : Lookup(index, p) # NULL} :
               LET checked == CheckVitals(index, gone)
               IN  /\ index' = checked.ix
                   /\ dispatchQueue' = Enqueue(dispatchQueue, checked.out)
                   /\ lost' = lost \cup Dropped(dispatchQueue, checked.out)
       ELSE UNCHANGED <<index, dispatchQueue, lost>>
    /\ UNCHANGED <<tick, ready, comp, temp, test, dead, archived, stream, tracer, queue, killpipe>>

\* Mutant of ExecFirst: the comparison is the wrong way round.
ExecLast == temp["exec"].time >= temp["open"].time

\* timercmp(&tempEcall->time_stamp, &tempOcall->time_stamp, <=)
ExecFirst == temp["exec"].time <= temp["open"].time

\* compMode: the earlier of the two calls in hand is applied.  The next one of
\* its queue takes its place; if there is none, the other call is applied too
\* and the comparison ends.
MainMerge ==
    /\ mpc = "merge"
    /\ \E w \in Slack :
          LET k    == IF ExecFirst THEN "exec" ELSE "open"
              one  == IF ExecFirst THEN ApplyExec(Unapplied, temp["exec"], w)
                                   ELSE ApplyOpen(Unapplied, temp["open"], w)
              both == IF ExecFirst THEN ApplyOpen(one, temp["open"], w)
                                   ELSE ApplyExec(one, temp["exec"], w)
          IN  \/ /\ queue[k] # <<>>
                 /\ Effect(one)
                 /\ temp' = [temp EXCEPT ![k] = Head(queue[k])]
                 /\ queue' = [queue EXCEPT ![k] = Tail(@)]
                 /\ UNCHANGED <<ready, comp>>
              \/ /\ queue[k] = <<>>
                 /\ Effect(both)
                 /\ ready' = FALSE
                 /\ comp' = FALSE
                 /\ UNCHANGED <<temp, queue>>
    /\ UNCHANGED <<tick, test, dead, archived, stream, tracer, shutting_down, killpipe>>

\* Mutant of MainPeek: an exec call counts only when an open call waits too.
MainPeekBoth ==
    /\ mpc = "peek"
    /\ ready' = (ready \/ \A k \in Kinds : queue[k] # <<>>)
    /\ mpc' = "fetch"
    /\ UNCHANGED <<tick, comp, temp, test, dead, index, dispatchQueue, archived, lost, sharedVars>>

\* Not in compMode: the size of the exec queue is looked at first, ...
MainPeek ==
    /\ mpc = "peek"
    /\ ready' = (ready \/ queue["exec"] # <<>>)
    /\ mpc' = "fetch"
    /\ UNCHANGED <<tick, comp, temp, test, dead, index, dispatchQueue, archived, lost, sharedVars>>

\* ... and then that of the open queue.  With a call in each, both are taken
\* in hand and the loop starts over without counting this iteration; a lone
\* call is applied at once.
MainFetch ==
    /\ mpc = "fetch"
    /\ ready' = (ready /\ queue["open"] # <<>>)
    /\ \E w \in Slack :
          \/ /\ queue["open"] # <<>> /\ ready
             /\ temp' = [k \in Kinds |-> Head(queue[k])]
             /\ queue' = [k \in Kinds |-> Tail(queue[k])]
             /\ comp' = TRUE
             /\ mpc' = "top"
             /\ UNCHANGED <<index, dispatchQueue, lost>>
          \/ /\ queue["open"] # <<>> /\ ~ready
             /\ Effect(ApplyOpen(Unapplied, Head(queue["open"]), w))
             /\ queue' = [queue EXCEPT !["open"] = Tail(@)]
             /\ UNCHANGED <<temp, comp>>
          \/ /\ queue["open"] = <<>> /\ ready
             /\ Effect(ApplyLoneExec(Unapplied, Head(queue["exec"]), w))
             /\ queue' = [queue EXCEPT !["exec"] = Tail(@)]
             /\ UNCHANGED <<temp, comp>>
          \/ /\ queue["open"] = <<>> /\ ~ready
             /\ mpc' = "dead"
             /\ UNCHANGED <<temp, comp, queue, index, dispatchQueue, lost>>
    /\ UNCHANGED <<tick, test, dead, archived, stream, tracer, shutting_down, killpipe>>

\* Mutant of DeadTests: the queues are looked at before the flags.
DeadTestsQueuesFirst ==
    <<shutting_down, queue["open"] = <<>>, queue["exec"] = <<>>,
      ~processing["open"], ~processing["exec"]>>

\* The operands of the expression that ends the loop, in their order.
DeadTests ==
    <<shutting_down, ~processing["open"], ~processing["exec"],
      queue["open"] = <<>>, queue["exec"] = <<>>>>

\* Each operand is a read of shared state; the first false one decides.
MainDead ==
    /\ mpc = "dead"
    /\ LET last == ~DeadTests[test] \/ test = Len(DeadTests)
       IN  /\ mpc' = IF last THEN "dispatch" ELSE "dead"
           /\ test' = IF last THEN 1 ELSE test + 1
           /\ dead' = (last /\ DeadTests[test])
    /\ UNCHANGED <<tick, ready, comp, temp, index, dispatchQueue, archived, lost, sharedVars>>

\* The end of an iteration: the flush if this was the last one, and every so
\* often, or then, the dispatch batch.
MainDispatch ==
    /\ mpc = "dispatch"
    /\ LET flushed == IF dead THEN Flush(index) ELSE [ix |-> index, out |-> <<>>]
           queued == Enqueue(dispatchQueue, flushed.out)
           batch == IF dead \/ tick % DispatchEvery = 0 THEN Batch(queued) ELSE <<>>
           wild == (dead \/ tick % DispatchEvery = 0) /\ Len(batch) < Len(queued)
       IN  /\ index' = flushed.ix
           /\ archived' = archived \o batch
           /\ dispatchQueue' = SubSeq(queued, Len(batch) + 1, Len(queued))
           /\ lost' = lost \cup Dropped(dispatchQueue, flushed.out)
           /\ mpc' = IF wild THEN "crashed" ELSE IF dead THEN "join" ELSE "top"
    /\ tick' = (tick + 1) % VitalsEvery
    /\ UNCHANGED <<ready, comp, temp, test, dead, sharedVars>>

\* The four pthread_join; then the restart flag decides between execvp and exit.
MainJoin ==
    /\ mpc = "join"
    /\ \A k \in Kinds : ppc[k] = "done"
    /\ spc = "done"
    /\ cpc = "done"
    /\ mpc' = IF restart THEN "restarted" ELSE "exited"
    /\ UNCHANGED <<tick, ready, comp, temp, test, dead, index, dispatchQueue, archived, lost, sharedVars>>

MainStep ==
    \/ MainTop
    \/ MainMerge
    \/ MainPeek
    \/ MainFetch
    \/ MainDead
    \/ MainDispatch
    \/ MainJoin

-----------------------------------------------------------------------------
(* The threads of the daemon and its environment *)

MainThread ==
    MainStep /\ UNCHANGED <<parserVars, controlVars>>

ParserThread(k) ==
    /\ mpc \notin Ended
    /\ ParserStep(k)
    /\ received' = received \cup ToSet(chunk'["open"])
    /\ UNCHANGED <<controlVars, mainVars, tracer, shutting_down, killpipe>>

ShutdownThread ==
    /\ mpc \notin Ended
    /\ ShutdownStep
    /\ UNCHANGED <<parserVars, mainVars, stream, tracer, queue>>

ControlThread ==
    /\ mpc \notin Ended
    /\ ControlStep
    /\ UNCHANGED <<parserVars, mainVars, stream, tracer, queue>>

ControlSwept ==
    /\ mpc \notin Ended
    /\ ControlSweepEnd
    /\ UNCHANGED <<parserVars, mainVars, stream, tracer, queue>>

\* A tracer ends after its last report.  (What it reports is in the socket from
\* the start: a late report and a thread that is late to read it look alike.)
TracerCloses(k) ==
    /\ mpc \notin Ended
    /\ tracer[k] = "listening"
    /\ stream[k] = <<>>
    /\ tracer' = [tracer EXCEPT ![k] = "closed"]
    /\ UNCHANGED <<parserVars, controlVars, mainVars, stream, queue, shutting_down, killpipe>>

\* Someone wants the daemon to stop, or asks it something.
Asked ==
    /\ mpc \notin Ended
    /\ Kill \/ \E r \in Clients : ControlClient(r)
    /\ UNCHANGED <<parserVars, mainVars, stream, tracer, queue>>

Next ==
    \/ MainThread
    \/ \E k \in Kinds : ParserThread(k)
    \/ ShutdownThread
    \/ ControlThread
    \/ \E k \in Kinds : TracerCloses(k)
    \/ Asked

Spec == Init /\ [][Next]_vars

\* The scheduler runs every thread that can go on, and a sweep of the control
\* thread ends, for it is one pass over fd_size descriptors.  Nothing is assumed
\* of the tracers, of signals or of clients.
Fairness ==
    /\ WF_vars(MainThread)
    /\ \A k \in Kinds : WF_vars(ParserThread(k))
    /\ WF_vars(ShutdownThread)
    /\ WF_vars(ControlThread)
    /\ SF_vars(ControlSwept)

FairSpec == Spec /\ Fairness

-----------------------------------------------------------------------------
(* Properties *)

InHand(k) == IF comp THEN {temp[k]} ELSE {}

OpensOf(procs) == UNION {ToSet(p.calls) : p \in {q \in procs : IsProc(q)}}

\* What the index reaches: the array and the word behind it
Indexed == {index.procs[i] : i \in 0..index.size}

Behind == {index.procs[index.size]}

\* The open calls that are somewhere in the daemon, in its database or, on
\* purpose, destroyed
Present ==
    UNION {ToSet(chunk["open"]), ToSet(queue["open"]), InHand("open"), refused,
           OpensOf(Indexed), OpensOf(ToSet(dispatchQueue)), OpensOf(ToSet(archived))}

TypeOK ==
    /\ ppc \in [Kinds -> ParserPcs]
    /\ rfds \in [Kinds -> SUBSET {"socket", "killpipe"}]
    /\ processing \in [Kinds -> BOOLEAN]
    /\ tries \in [Kinds -> 0..(MaxTries - 1)]
    /\ \A k \in Kinds : /\ {stream[k], chunk[k], queue[k]} \subseteq Seq(Reports(k))
                        /\ Len(queue[k]) <= QueueSize
                        /\ InHand(k) \subseteq Reports(k)
    /\ refused \subseteq Reports("open") \cup Reports("exec")
    /\ tracer \in [Kinds -> {"absent", "listening", "closed"}]
    /\ killpipe \in {"open", "eof", "closed"}
    /\ spc \in {"sigwait", "flag", "close", "done"}
    /\ cpc \in {"start", "loop", "select", "sweep", "serve", "act", "done"}
    /\ {signalled, promised, restart, shutting_down, ready, comp, dead} \subseteq BOOLEAN
    /\ mpc \in {"top", "merge", "peek", "fetch", "dead", "dispatch", "join"} \cup Ended
    /\ tick \in 0..(VitalsEvery - 1)
    /\ test \in 1..5
    /\ index.size \in 1..(MaxPid + 1)
    /\ index.procs \in [Slots -> Procs \cup {NULL, Wild}]
    /\ dispatchQueue \in Seq(Procs \cup {Wild})
    /\ Len(dispatchQueue) <= DispatchSize
    /\ archived \in Seq(Procs)
    /\ received \subseteq Reports("open")
    /\ lost \subseteq Reports("open")

\* Once the main loop has decided to end, no call is left in a queue or on its
\* way into one, now or later: the unsynchronised reads of the flags and of
\* the queues, in the order of the expression, cannot miss a call.
NoLateCalls ==
    dead => \A k \in Kinds : queue[k] = <<>> /\ chunk[k] = <<>>

\* No open call that was received vanishes on its way: it is waiting, in hand,
\* in the index, in the dispatch queue or in the database, was destroyed on
\* purpose or given up with a full queue, or was lost by the main thread in one
\* of exactly these ways: its pid is out of range, its process found no room in
\* the dispatch queue, or the index grew over the word behind its old array,
\* where its process was.
NoCallVanishes == mpc # "crashed" => received \subseteq Present \cup lost

\* When the main loop is over, every open call that was ever received is in the
\* database, except those destroyed on purpose or given up with a full queue,
\* at most the one in hand, those of the process in the word behind the array,
\* which the flush does not visit, and those lost as NoCallVanishes says.
OnlyCallInHandLost ==
    mpc \in {"join", "exited", "restarted"} =>
        received \subseteq UNION {OpensOf(ToSet(archived)), refused, InHand("open"),
                                 OpensOf(Behind), lost}

\* Calls are merged by time stamp: while the main loop compares, an open call
\* is applied only when no earlier exec call is waiting, and the other way
\* round; and when both calls in hand are of one pid, the open call is booked
\* on the new process exactly when it came after the exec call.
MergesByTime ==
    [][mpc = "merge" /\ mpc' # "crashed" =>
          /\ \A o \in OpensOf(Indexed)' \ OpensOf(Indexed) :
                \A e \in ToSet(queue'["exec"]) \cup InHand("exec")' : o.time < e.time
          /\ \A e \in InHand("exec") \ InHand("exec")' :
                \A o \in ToSet(queue'["open"]) \cup InHand("open")' : e.time <= o.time
          /\ ~comp' /\ temp["exec"].pid = temp["open"].pid /\ InRange(temp["open"].pid) =>
                ((\E p \in Indexed' : /\ IsProc(p) /\ p.exec = temp["exec"].n
                                      /\ temp["open"] \in ToSet(p.calls))
                 <=> temp["exec"].time <= temp["open"].time)]_vars

\* A client that was told "restarting now..." gets its restart, even when the
\* request races with a signal or with the end of the main loop: a daemon that
\* ends after the promise starts anew.
PromiseBinds == promised => mpc # "exited"

\* Everything that gets into a queue is worked off.
QueuesDrain ==
    (comp \/ \E k \in Kinds : queue[k] # <<>>)
        ~> ((~comp /\ \A k \in Kinds : queue[k] = <<>>) \/ mpc \in Ended \cup {"join"})

\* Told to stop, with its tracers gone, the daemon ends: no thread waits for
\* another for ever.
StopsWithoutTracers ==
    (signalled /\ \A k \in Kinds : tracer[k] # "listening") ~> mpc \in Ended

\* Told to stop, the daemon ends.
StopsWhenTold == signalled ~> mpc \in Ended
=============================================================================

--------------------------- MODULE WatchdogProofs ---------------------------
(***************************************************************************)
(* Theorems about the composed daemon, for every workload, queue size,     *)
(* number of retries, set of failing threads and contents of memory: when  *)
(* the main loop may end, what a promise binds, the types, that open calls *)
(* pass on from one place to the next, what is lost at the end, and the    *)
(* order in which the main loop applies the calls.                         *)
(***************************************************************************)
EXTENDS Watchdog, ProcIndexOpsProofs, TLAPS

-----------------------------------------------------------------------------
(* The end of the main loop *)

\* A socket thread from which no call can come once the shutdown flag is up
Quiet(k) == ppc[k] \in {"start", "connect", "loop", "cleanup", "done"}

\* What a thread's flag and its place say about the calls it holds
ThreadsOK ==
    /\ DOMAIN ppc = Kinds /\ DOMAIN processing = Kinds /\ DOMAIN chunk = Kinds
    /\ DOMAIN queue = Kinds
    /\ \A k \in Kinds : /\ ppc[k] \in ParserPcs
                        /\ ~processing[k] => ppc[k] \in {"start", "done"}
                        /\ ppc[k] \notin {"enqueue", "retry"} => chunk[k] = <<>>

\* How far the expression has been evaluated; what its operands have shown
\* stays true while the main thread looks at the others.
TestsOK ==
    /\ test \in 1..5
    /\ mpc # "dead" => test = 1
    /\ dead => mpc \in {"dispatch", "join"} \cup Ended
    /\ test > 1 \/ dead => shutting_down
    /\ test > 2 \/ dead => Quiet("open")
    /\ test > 3 \/ dead => Quiet("exec")
    /\ test > 4 \/ dead => queue["open"] = <<>>
    /\ dead => queue["exec"] = <<>>

EndInv == ThreadsOK /\ TestsOK

LEMMA EndInvInit == Init => EndInv
BY DEF Init, ParserInit, EndInv, ThreadsOK, TestsOK, Quiet, ParserPcs, Kinds

\* What a socket thread may do to the others' view
LEMMA ParserKeeps ==
    ASSUME EndInv, NEW k \in Kinds, ParserThread(k)
    PROVE  EndInv'
<1>1. /\ \A j \in Kinds \ {k} : /\ ppc'[j] = ppc[j] /\ processing'[j] = processing[j]
                                /\ chunk'[j] = chunk[j] /\ queue'[j] = queue[j]
      /\ DOMAIN ppc' = Kinds /\ DOMAIN processing' = Kinds /\ DOMAIN chunk' = Kinds
      /\ DOMAIN queue' = Kinds
  BY DEF EndInv, ThreadsOK, ParserThread, ParserStep, ParserStart, ParserConnect, ParserLoop,
         ParserSelect, ParserRecv, ParserEnqueue, ParserRetry, ParserCleanup, Goto, Written
<1>2. /\ ppc'[k] \in ParserPcs
      /\ ~processing'[k] => ppc'[k] \in {"start", "done"}
      /\ ppc'[k] \notin {"enqueue", "retry"} => chunk'[k] = <<>>
  <2> USE DEF EndInv, ThreadsOK, ParserPcs
  <2>1. CASE ParserStart(k)
    BY <2>1 DEF ParserStart, Goto
  <2>2. CASE ParserConnect(k)
    BY <2>2 DEF ParserConnect, Goto
  <2>3. CASE ParserLoop(k)
    BY <2>3 DEF ParserLoop, Goto
  <2>4. CASE ParserSelect(k)
    <3>1. /\ UNCHANGED <<processing, chunk>> /\ ppc[k] = "select"
          /\ ppc' = [ppc EXCEPT ![k] = "cleanup"] \/ ppc' = [ppc EXCEPT ![k] = "recv"]
      BY <2>4 DEF ParserSelect, Goto
    <3> QED BY <3>1
  <2>5. CASE ParserRecv(k)
    <3>1. /\ UNCHANGED processing /\ ppc[k] = "recv"
          /\ \/ ppc' = [ppc EXCEPT ![k] = "enqueue"]
             \/ ppc' = [ppc EXCEPT ![k] = "cleanup"] /\ UNCHANGED chunk
      BY <2>5 DEF ParserRecv, Goto
    <3> QED BY <3>1
  <2>6. CASE ParserEnqueue(k)
    <3>1. /\ processing' = processing /\ ppc[k] = "enqueue"
          /\ \/ ppc' = [ppc EXCEPT ![k] = "enqueue"]
             \/ ppc' = [ppc EXCEPT ![k] = "retry"]
             \/ ppc' = ppc
             \/ ppc' = [ppc EXCEPT ![k] = "loop"] /\ chunk' = chunk /\ chunk[k] = <<>>
      BY <2>6 DEF ParserEnqueue, Written, Goto
    <3> QED BY <3>1
  <2>7. CASE ParserRetry(k)
    <3>1. /\ processing' = processing /\ ppc[k] = "retry"
          /\ \/ ppc' = [ppc EXCEPT ![k] = "enqueue"]
             \/ ppc' = ppc
             \/ ppc' = [ppc EXCEPT ![k] = "cleanup"] /\ chunk' = [chunk EXCEPT ![k] = <<>>]
      BY <2>7 DEF ParserRetry, Written, Goto
    <3> QED BY <3>1
  <2>8. CASE ParserCleanup(k)
    BY <2>8 DEF ParserCleanup, Goto
  <2> QED BY <2>1, <2>2, <2>3, <2>4, <2>5, <2>6, <2>7, <2>8 DEF ParserThread, ParserStep
<1>3. Quiet(k) /\ shutting_down => Quiet(k)' /\ queue'[k] = queue[k]
  BY DEF EndInv, ThreadsOK, Quiet, ParserThread, ParserStep, ParserStart, ParserConnect,
         ParserLoop, ParserSelect, ParserRecv, ParserEnqueue, ParserRetry, ParserCleanup, Goto
<1>4. UNCHANGED <<test, mpc, dead, shutting_down>>
  BY DEF ParserThread, mainVars
<1>5. ThreadsOK'
  BY <1>1, <1>2 DEF EndInv, ThreadsOK, Quiet
<1>6. \A j \in Kinds : Quiet(j) /\ shutting_down => Quiet(j)' /\ queue'[j] = queue[j]
  BY <1>1, <1>3 DEF Quiet
<1>7. TestsOK'
  BY <1>4, <1>6 DEF EndInv, TestsOK, Kinds
<1> QED BY <1>5, <1>7 DEF EndInv

LEMMA MainKeeps ==
    ASSUME EndInv, MainThread
    PROVE  EndInv'
<1>1. UNCHANGED <<ppc, processing, chunk>>
  BY DEF MainThread, parserVars
<1> USE <1>1 DEF EndInv, ThreadsOK, TestsOK, Quiet
<1>2. CASE MainTop
  BY <1>2 DEF MainTop, Ended
<1>3. CASE MainMerge
  <2>1. /\ UNCHANGED <<test, dead, shutting_down>>
        /\ mpc = "merge" /\ mpc' \in {"crashed", "dead"}
        /\ DOMAIN queue' = Kinds
    BY <1>3 DEF MainMerge, Effect
  <2> QED BY <2>1 DEF Ended
<1>4. CASE MainPeek
  BY <1>4 DEF MainPeek, sharedVars, Ended
<1>5. CASE MainFetch
  <2>1. /\ UNCHANGED <<test, dead, shutting_down>>
        /\ mpc = "fetch" /\ mpc' \in {"crashed", "dead", "top"}
        /\ DOMAIN queue' = Kinds
    BY <1>5 DEF MainFetch, Effect
  <2> QED BY <2>1 DEF Ended
<1>6. CASE MainDead
  <2>1. /\ mpc = "dead" /\ ~dead /\ UNCHANGED <<queue, shutting_down>>
    BY <1>6 DEF MainDead, sharedVars, Ended
  <2>2. CASE ~DeadTests[test]
    <3>1. mpc' = "dispatch" /\ test' = 1 /\ ~dead'
      BY <1>6, <2>2 DEF MainDead
    <3> QED BY <2>1, <3>1
  <2>3. CASE DeadTests[test] /\ test = 5
    <3>1. queue["exec"] = <<>>
      BY <2>3 DEF DeadTests
    <3>2. mpc' = "dispatch" /\ test' = 1 /\ (dead' <=> TRUE)
      BY <1>6, <2>3 DEF MainDead, DeadTests
    <3> QED BY <2>1, <2>3, <3>1, <3>2
  <2>4. CASE DeadTests[test] /\ test # 5
    <3>1. mpc' = "dead" /\ test' = test + 1 /\ ~dead'
      BY <1>6, <2>4 DEF MainDead, DeadTests
    <3>2. /\ test = 1 => shutting_down
          /\ test = 2 => ~processing["open"]
          /\ test = 3 => ~processing["exec"]
          /\ test = 4 => queue["open"] = <<>>
      <4>1. /\ DeadTests[1] = shutting_down
            /\ DeadTests[2] = ~processing["open"]
            /\ DeadTests[3] = ~processing["exec"]
            /\ DeadTests[4] = (queue["open"] = <<>>)
        BY DEF DeadTests
      <4> QED BY <2>4, <4>1
    <3>3. /\ ~processing["open"] => Quiet("open")
          /\ ~processing["exec"] => Quiet("exec")
      BY DEF Kinds
    <3> QED BY <2>1, <2>4, <3>1, <3>2, <3>3
  <2> QED BY <2>2, <2>3, <2>4
<1>7. CASE MainDispatch
  <2>1. /\ UNCHANGED <<test, dead, queue, shutting_down>>
        /\ mpc = "dispatch" /\ mpc' \in {"crashed", "join", "top"}
        /\ dead => mpc' # "top"
    BY <1>7 DEF MainDispatch, sharedVars
  <2> QED BY <2>1 DEF Ended
<1>8. CASE MainJoin
  BY <1>8 DEF MainJoin, sharedVars, Ended
<1> QED BY <1>2, <1>3, <1>4, <1>5, <1>6, <1>7, <1>8 DEF MainThread, MainStep

\* The shutdown flag never goes down, and nobody else touches the queues.
LEMMA OthersKeep ==
    ASSUME EndInv,
           ShutdownThread \/ ControlThread \/ (\E k \in Kinds : TracerCloses(k)) \/ Asked
              \/ UNCHANGED vars
    PROVE  EndInv'
<1>1. /\ UNCHANGED <<ppc, processing, chunk, queue, test, mpc, dead>>
      /\ shutting_down' = shutting_down \/ shutting_down' = TRUE
  <2>1. CASE ShutdownThread
    BY <2>1 DEF ShutdownThread, ShutdownStep, ShutdownSigwait, ShutdownFlag, ShutdownClose,
                parserVars, mainVars
  <2>2. CASE ControlThread
    BY <2>2 DEF ControlThread, ControlStep, ControlStart, ControlLoop, ControlKillpipe,
                ControlSweepEnd, ControlTest, ControlAct, parserVars, mainVars
  <2>3. CASE \E k \in Kinds : TracerCloses(k)
    BY <2>3 DEF TracerCloses, parserVars, mainVars
  <2>4. CASE Asked
    BY <2>4 DEF Asked, Kill, ControlClient, ControlAccept, ControlRead, parserVars, mainVars
  <2>5. CASE UNCHANGED vars
    BY <2>5 DEF vars, parserVars, mainVars, sharedVars
  <2> QED BY <2>1, <2>2, <2>3, <2>4, <2>5
<1> QED BY <1>1 DEF EndInv, ThreadsOK, TestsOK, Quiet

LEMMA EndInvNext == EndInv /\ [Next]_vars => EndInv'
BY ParserKeeps, MainKeeps, OthersKeep DEF Next

\* Once the main loop has decided to end, by unsynchronised reads of two flags
\* and two queues one after the other, no call is in a queue or on its way into
\* one, now or later, whatever the threads were doing in between.
THEOREM EndMissesNothing == Spec => []NoLateCalls
<1>1. EndInv => NoLateCalls
  BY DEF EndInv, ThreadsOK, TestsOK, NoLateCalls, Quiet, Kinds
<1> QED BY <1>1, EndInvInit, EndInvNext, PTL DEF Spec

-----------------------------------------------------------------------------
(* Restart *)

\* The promise and the restart flag are one step, and the flag is never taken
\* back; the main thread reads it when the control thread has ended.
RestartInv ==
    /\ promised \in BOOLEAN /\ restart \in BOOLEAN
    /\ promised => restart
    /\ PromiseBinds

LEMMA RestartInvNext == RestartInv /\ [Next]_vars => RestartInv'
<1> SUFFICES ASSUME RestartInv, [Next]_vars PROVE RestartInv'
  OBVIOUS
<1> USE DEF RestartInv, PromiseBinds
<1>1. CASE MainThread
  <2>1. UNCHANGED <<promised, restart>>
    BY <1>1 DEF MainThread, controlVars
  <2>2. mpc' = "exited" => ~restart
    BY <1>1 DEF MainThread, MainStep, MainTop, MainMerge, MainPeek, MainFetch, MainDead,
                MainDispatch, MainJoin, Effect
  <2> QED BY <2>1, <2>2
<1>2. CASE \E k \in Kinds : ParserThread(k) \/ TracerCloses(k)
  BY <1>2 DEF ParserThread, TracerCloses, controlVars, mainVars
<1>3. CASE ShutdownThread
  BY <1>3 DEF ShutdownThread, ShutdownStep, ShutdownSigwait, ShutdownFlag, ShutdownClose, mainVars
<1>4. CASE ControlThread
  <2>1. mpc' = mpc /\ mpc # "exited"
    BY <1>4 DEF ControlThread, mainVars, Ended
  <2>2. CASE ControlAct
    <3>1. /\ restart' = (restart \/ serving = "restart")
          /\ promised' = (promised \/ serving = "restart")
      BY <2>2 DEF ControlAct
    <3> QED BY <2>1, <3>1, Zenon
  <2>3. CASE UNCHANGED <<promised, restart>>
    BY <2>1, <2>3
  <2> QED BY <1>4, <2>2, <2>3 DEF ControlThread, ControlStep, ControlStart, ControlLoop,
                                  ControlKillpipe, ControlSweepEnd, ControlTest
<1>5. CASE Asked
  BY <1>5 DEF Asked, Kill, ControlClient, ControlAccept, ControlRead, mainVars
<1>6. CASE UNCHANGED vars
  BY <1>6 DEF vars, controlVars, mainVars
<1> QED BY <1>1, <1>2, <1>3, <1>4, <1>5, <1>6 DEF Next

\* A daemon that told a client "restarting now..." does not end for good,
\* however the request races with signals and with the end of the main loop.
THEOREM PromiseHolds == Spec => []PromiseBinds
<1>1. Init => RestartInv
  BY DEF Init, ControlInit, RestartInv, PromiseBinds
<1>2. RestartInv => PromiseBinds
  BY DEF RestartInv
<1> QED BY <1>1, <1>2, RestartInvNext, PTL DEF Spec

-----------------------------------------------------------------------------
(* Types *)

Opens == Reports("open")

\* What the socket of a kind, its thread and its queue hold
SocketOK(k) ==
    /\ ppc[k] \in ParserPcs
    /\ rfds[k] \in SUBSET {"socket", "killpipe"}
    /\ processing[k] \in BOOLEAN
    /\ tries[k] \in 0..(MaxTries - 1)
    /\ stream[k] \in Seq(Reports(k))
    /\ chunk[k] \in Seq(Reports(k))
    /\ queue[k] \in Seq(Reports(k))
    /\ Len(queue[k]) <= QueueSize
    /\ ppc[k] = "retry" => chunk[k] # <<>>

PerKind(f) == f = [k \in Kinds |-> f[k]]

SocketsInv ==
    /\ PerKind(ppc) /\ PerKind(rfds) /\ PerKind(processing) /\ PerKind(tries)
    /\ PerKind(stream) /\ PerKind(chunk) /\ PerKind(queue)
    /\ \A k \in Kinds : SocketOK(k)
    /\ tracer \in [Kinds -> {"absent", "listening", "closed"}]
    /\ refused \subseteq Reports("open") \cup Reports("exec")

LEMMA SocketsInit == Init => SocketsInv
<1> SUFFICES ASSUME Init PROVE SocketsInv
  OBVIOUS
<1>1. PICK w \in Workloads : /\ ParserInit(w.down)
                             /\ stream = [k \in Kinds |-> w[k]]
                             /\ tracer \in [Kinds -> {"absent", "listening"}]
  BY Zenon DEF Init
<1>2. queue = [k \in Kinds |-> <<>>]
  BY DEF Init
<1>3. \A k \in Kinds : w[k] \in Seq(Reports(k))
  BY WorkloadsAssumption
<1>4. \A k \in Kinds : SocketOK(k)
  <2> SUFFICES ASSUME NEW k \in Kinds PROVE SocketOK(k)
    OBVIOUS
  <2>1. /\ ppc[k] \in {"start", "done"} /\ rfds[k] = {} /\ processing[k] = FALSE /\ tries[k] = 0
        /\ chunk[k] = <<>> /\ queue[k] = <<>> /\ stream[k] = w[k]
    BY <1>1, <1>2 DEF ParserInit
  <2>2. stream[k] \in Seq(Reports(k))
    BY <1>3, <2>1
  <2>3. <<>> \in Seq(Reports(k)) /\ Len(<<>>) <= QueueSize /\ 0 \in 0..(MaxTries - 1)
    BY QueuesAssumption
  <2>4. ppc[k] \in ParserPcs /\ ppc[k] # "retry"
    BY <2>1 DEF ParserPcs
  <2>5. processing[k] \in BOOLEAN
    BY <2>1
  <2> QED
    BY <2>1, <2>2, <2>3, <2>4, <2>5 DEF SocketOK
<1> QED
  BY <1>1, <1>2, <1>4 DEF SocketsInv, ParserInit, PerKind

\* A step of a socket thread touches its own kind only.
LEMMA ParserOwn ==
    ASSUME SocketsInv, NEW k \in Kinds, ParserThread(k)
    PROVE  /\ PerKind(ppc)' /\ PerKind(rfds)' /\ PerKind(processing)' /\ PerKind(tries)'
           /\ PerKind(stream)' /\ PerKind(chunk)' /\ PerKind(queue)'
           /\ UNCHANGED tracer
           /\ \A j \in Kinds \ {k} :
                 /\ ppc'[j] = ppc[j] /\ rfds'[j] = rfds[j] /\ processing'[j] = processing[j]
                 /\ tries'[j] = tries[j] /\ stream'[j] = stream[j] /\ chunk'[j] = chunk[j]
                 /\ queue'[j] = queue[j]
<1> USE DEF SocketsInv, PerKind, ParserThread, Goto, Written
<1>1. CASE ParserStart(k)
  BY <1>1 DEF ParserStart
<1>2. CASE ParserConnect(k)
  BY <1>2 DEF ParserConnect
<1>3. CASE ParserLoop(k)
  BY <1>3 DEF ParserLoop
<1>4. CASE ParserSelect(k)
  BY <1>4 DEF ParserSelect
<1>5. CASE ParserRecv(k)
  BY <1>5 DEF ParserRecv
<1>6. CASE ParserEnqueue(k)
  BY <1>6 DEF ParserEnqueue
<1>7. CASE ParserRetry(k)
  BY <1>7 DEF ParserRetry
<1>8. CASE ParserCleanup(k)
  BY <1>8 DEF ParserCleanup
<1> QED
  BY <1>1, <1>2, <1>3, <1>4, <1>5, <1>6, <1>7, <1>8 DEF ParserStep

\* What a socket thread does with the calls it has received: it takes some from
\* the socket, drops or enqueues the first, gives all up, or leaves them alone.
Takes(k) ==
    /\ ppc[k] = "recv" /\ UNCHANGED <<queue, refused>>
    /\ \E n \in 1..Len(stream[k]) : /\ chunk'[k] = SubSeq(stream[k], 1, n)
                                    /\ stream'[k] = SubSeq(stream[k], n + 1, Len(stream[k]))

Drops(k) ==
    /\ k = "open" /\ chunk[k] # <<>> /\ UNCHANGED <<stream, queue>>
    /\ chunk'[k] = Tail(chunk[k])
    /\ refused' = refused \cup {Head(chunk[k])}

Enqueues(k) ==
    /\ chunk[k] # <<>> /\ UNCHANGED <<stream, refused>>
    /\ chunk'[k] = Tail(chunk[k])
    /\ Len(queue[k]) < QueueSize
    /\ queue'[k] = Append(queue[k], Head(chunk[k]))

GivesUp(k) ==
    /\ UNCHANGED <<stream, queue>>
    /\ chunk'[k] = <<>>
    /\ refused' = refused \cup {chunk[k][i] : i \in 1..Len(chunk[k])}

LeavesAlone(k) == UNCHANGED <<stream, chunk, queue, refused>>

LEMMA ParserMoves ==
    ASSUME SocketsInv, EndInv, NEW k \in Kinds, ParserThread(k)
    PROVE  /\ Takes(k) \/ Drops(k) \/ Enqueues(k) \/ GivesUp(k) \/ LeavesAlone(k)
           /\ ppc'[k] \in ParserPcs /\ processing'[k] \in BOOLEAN
           /\ rfds'[k] \in SUBSET {"socket", "killpipe"}
           /\ tries'[k] \in 0..(MaxTries - 1)
           /\ ppc'[k] = "retry" => chunk'[k] # <<>>
<1> USE DEF PerKind, SocketOK
<1>1. /\ ppc[k] \in ParserPcs /\ processing[k] \in BOOLEAN
      /\ rfds[k] \in SUBSET {"socket", "killpipe"}
      /\ tries[k] \in 0..(MaxTries - 1) /\ MaxTries \in Nat \ {0} /\ QueueSize \in Nat
      /\ chunk[k] \in Seq(Reports(k)) /\ queue[k] \in Seq(Reports(k)) /\ Len(queue[k]) \in Nat
      /\ PerKind(ppc) /\ PerKind(rfds) /\ PerKind(processing) /\ PerKind(tries)
      /\ PerKind(stream) /\ PerKind(chunk) /\ PerKind(queue)
  BY QueuesAssumption DEF SocketsInv
<1> USE <1>1
<1>2. ppc'[k] \in ParserPcs /\ (ppc'[k] = "retry" => chunk'[k] # <<>>)
  <2>1. ppc'[k] \in ParserPcs
    BY ParserKeeps DEF EndInv, ThreadsOK
  <2>2. ppc'[k] = "retry" => (ppc[k] = "retry" \/ chunk[k] # <<>>) /\ chunk' = chunk
    BY DEF ParserThread, ParserStep, ParserStart, ParserConnect, ParserLoop, ParserSelect,
           ParserRecv, ParserEnqueue, ParserRetry, ParserCleanup, Goto, Written
  <2> QED
    BY <2>1, <2>2 DEF SocketsInv
<1>3. CASE ParserStart(k)
  BY <1>2, <1>3 DEF ParserStart, LeavesAlone
<1>4. CASE ParserConnect(k)
  BY <1>2, <1>4 DEF ParserConnect, LeavesAlone
<1>5. CASE ParserLoop(k)
  BY <1>2, <1>5 DEF ParserLoop, LeavesAlone
<1>6. CASE ParserSelect(k)
  <2>1. rfds' = rfds \/ rfds' = [rfds EXCEPT ![k] = Readable(k)]
    BY <1>6 DEF ParserSelect
  <2>2. Readable(k) \in SUBSET {"socket", "killpipe"}
    BY DEF Readable
  <2> QED
    BY <1>2, <1>6, <2>1, <2>2 DEF ParserSelect, LeavesAlone
<1>7. CASE ParserRecv(k)
  BY <1>2, <1>7 DEF ParserRecv, Takes, LeavesAlone
<1>8. CASE ParserEnqueue(k)
  <2>1. UNCHANGED <<rfds, processing, stream>> /\ tries'[k] \in 0..(MaxTries - 1)
    BY <1>8 DEF ParserEnqueue
  <2>2. Drops(k) \/ Enqueues(k) \/ LeavesAlone(k)
    BY <1>8 DEF ParserEnqueue, Written, QueueFull, Drops, Enqueues, LeavesAlone
  <2> QED
    BY <1>2, <2>1, <2>2
<1>9. CASE ParserRetry(k)
  <2>1. UNCHANGED <<rfds, processing, stream>> /\ tries'[k] \in 0..(MaxTries - 1)
    BY <1>9 DEF ParserRetry
  <2>2. Enqueues(k) \/ GivesUp(k) \/ LeavesAlone(k)
    <3>1. CASE ~QueueFull(k) /\ Written(k) /\ UNCHANGED <<tries, refused>>
      <4>1. chunk[k] # <<>>
        BY <1>9 DEF SocketsInv, ParserRetry
      <4> QED
        BY <2>1, <3>1, <4>1 DEF Written, QueueFull, Enqueues
    <3>2. CASE UNCHANGED <<chunk, refused, queue>>
      BY <2>1, <3>2 DEF LeavesAlone
    <3>3. CASE /\ refused' = refused \cup {chunk[k][i] : i \in 1..Len(chunk[k])}
               /\ chunk' = [chunk EXCEPT ![k] = <<>>] /\ UNCHANGED queue
      BY <2>1, <3>3 DEF GivesUp
    <3> QED
      BY <1>9, <3>1, <3>2, <3>3 DEF ParserRetry
  <2> QED
    BY <1>2, <2>1, <2>2
<1>10. CASE ParserCleanup(k)
  BY <1>2, <1>10 DEF ParserCleanup, LeavesAlone
<1> QED
  BY <1>3, <1>4, <1>5, <1>6, <1>7, <1>8, <1>9, <1>10 DEF ParserThread, ParserStep

LEMMA ParserTypes ==
    ASSUME SocketsInv, EndInv, NEW k \in Kinds, ParserThread(k)
    PROVE  SocketsInv'
<1> DEFINE R == Reports(k)
<1>1. SocketOK(k)
  BY DEF SocketsInv
<1>2. stream[k] \in Seq(R) /\ chunk[k] \in Seq(R) /\ queue[k] \in Seq(R) /\ Len(queue[k]) <= QueueSize
  BY <1>1 DEF SocketOK
<1>3. refused \subseteq Reports("open") \cup Reports("exec") /\ R \subseteq Reports("open") \cup Reports("exec")
  BY DEF SocketsInv, Kinds
<1>4. QueueSize \in Nat
  BY QueuesAssumption
<1> HIDE DEF R
<1>5. /\ stream'[k] \in Seq(R) /\ chunk'[k] \in Seq(R) /\ queue'[k] \in Seq(R)
      /\ Len(queue'[k]) <= QueueSize
      /\ refused' \subseteq Reports("open") \cup Reports("exec")
  <2>1. CASE Takes(k)
    <3>1. PICK n \in 1..Len(stream[k]) : /\ chunk'[k] = SubSeq(stream[k], 1, n)
                                         /\ stream'[k] = SubSeq(stream[k], n + 1, Len(stream[k]))
      BY <2>1 DEF Takes
    <3>2. queue'[k] = queue[k] /\ refused' = refused
      BY <2>1 DEF Takes
    <3>3. chunk'[k] \in Seq(R) /\ stream'[k] \in Seq(R)
      BY <1>2, <3>1
    <3> QED
      BY <1>2, <1>3, <3>2, <3>3
  <2>2. CASE Drops(k)
    <3>1. Head(chunk[k]) \in R /\ Tail(chunk[k]) \in Seq(R)
      BY <1>2, <2>2 DEF Drops
    <3> QED
      BY <1>2, <1>3, <2>2, <3>1 DEF Drops
  <2>3. CASE Enqueues(k)
    <3>1. Head(chunk[k]) \in R /\ Tail(chunk[k]) \in Seq(R)
      BY <1>2, <2>3 DEF Enqueues
    <3>2. /\ Append(queue[k], Head(chunk[k])) \in Seq(R)
          /\ Len(Append(queue[k], Head(chunk[k]))) <= QueueSize
      BY <1>2, <1>4, <2>3, <3>1 DEF Enqueues
    <3> QED
      BY <1>2, <1>3, <2>3, <3>1, <3>2 DEF Enqueues
  <2>4. CASE GivesUp(k)
    <3>1. {chunk[k][i] : i \in 1..Len(chunk[k])} \subseteq R
      BY <1>2
    <3>2. <<>> \in Seq(R)
      OBVIOUS
    <3> QED
      BY <1>2, <1>3, <2>4, <3>1, <3>2 DEF GivesUp
  <2>5. CASE LeavesAlone(k)
    BY <1>2, <1>3, <2>5 DEF LeavesAlone
  <2> QED
    BY <2>1, <2>2, <2>3, <2>4, <2>5, ParserMoves
<1>6. SocketOK(k)'
  BY <1>5, ParserMoves DEF SocketOK, R
<1>7. ASSUME NEW j \in Kinds \ {k} PROVE SocketOK(j)'
  BY <1>7, ParserOwn DEF SocketsInv, SocketOK
<1>8. UNCHANGED tracer
  BY ParserOwn
<1> QED
  BY <1>5, <1>6, <1>7, <1>8, ParserOwn DEF SocketsInv

\* The control and shutdown threads and the environment leave the sockets, the
\* queues and the main thread alone.
LEMMA OthersLeave ==
    ASSUME ShutdownThread \/ ControlThread \/ (\E k \in Kinds : TracerCloses(k)) \/ Asked
              \/ UNCHANGED vars
    PROVE  /\ UNCHANGED <<parserVars, mainVars, stream, queue>>
           /\ UNCHANGED tracer \/ \E k \in Kinds : tracer' = [tracer EXCEPT ![k] = "closed"]
  BY DEF ShutdownThread, ControlThread, TracerCloses, Asked, vars, sharedVars

LEMMA OthersTypes ==
    ASSUME SocketsInv,
           ShutdownThread \/ ControlThread \/ (\E k \in Kinds : TracerCloses(k)) \/ Asked
              \/ UNCHANGED vars
    PROVE  SocketsInv'
<1>1. UNCHANGED <<ppc, rfds, processing, tries, chunk, refused, stream, queue>>
  BY OthersLeave DEF parserVars
<1>2. tracer' \in [Kinds -> {"absent", "listening", "closed"}]
  BY OthersLeave DEF SocketsInv
<1> QED
  BY <1>1, <1>2 DEF SocketsInv, SocketOK, PerKind

-----------------------------------------------------------------------------
(* The main thread's hands *)

\* While the main loop compares it has a call of each kind in hand; otherwise
\* ready_calls says that an exec call waits, and only until it is fetched.
HandInv ==
    /\ ready \in BOOLEAN /\ comp \in BOOLEAN
    /\ comp => PerKind(temp) /\ \A k \in Kinds : temp[k] \in Reports(k)
    /\ mpc = "merge" => comp
    /\ mpc \in {"peek", "fetch"} => ~comp
    /\ mpc = "fetch" /\ ready => queue["exec"] # <<>>
    /\ mpc # "fetch" /\ ready => comp

\* The queue of kind k gives its first call away.
Gives(k) == queue[k] # <<>> /\ queue'[k] = Tail(queue[k])

MainQueues == PerKind(queue)' /\ \A k \in Kinds : queue'[k] = queue[k] \/ Gives(k)

\* The call in hand that MainMerge applies first, and what comes of one or both
Earlier == IF ExecFirst THEN "exec" ELSE "open"

First(w) == IF ExecFirst THEN ApplyExec(Unapplied, temp["exec"], w)
                         ELSE ApplyOpen(Unapplied, temp["open"], w)

Second(w) == IF ExecFirst THEN ApplyOpen(First(w), temp["open"], w)
                          ELSE ApplyExec(First(w), temp["exec"], w)

MergesOne(w) ==
    /\ queue[Earlier] # <<>>
    /\ Effect(First(w))
    /\ temp' = [temp EXCEPT ![Earlier] = Head(queue[Earlier])]
    /\ queue' = [queue EXCEPT ![Earlier] = Tail(@)]
    /\ UNCHANGED <<ready, comp>>

MergesBoth(w) ==
    /\ queue[Earlier] = <<>>
    /\ Effect(Second(w))
    /\ ready' = FALSE /\ comp' = FALSE
    /\ UNCHANGED <<temp, queue>>

LEMMA MergeCases == MainMerge => mpc = "merge" /\ \E w \in Slack : MergesOne(w) \/ MergesBoth(w)
  BY Zenon DEF MainMerge, MergesOne, MergesBoth, Earlier, First, Second

\* What MainFetch does: it takes a call of each kind in hand, applies a lone
\* call, or finds nothing.
FetchesBoth ==
    /\ queue["open"] # <<>> /\ ready
    /\ temp' = [k \in Kinds |-> Head(queue[k])]
    /\ queue' = [k \in Kinds |-> Tail(queue[k])]
    /\ comp' = TRUE /\ mpc' = "top"
    /\ UNCHANGED <<index, dispatchQueue, lost>>

FetchesOpen(w) ==
    /\ queue["open"] # <<>> /\ ~ready
    /\ Effect(ApplyOpen(Unapplied, Head(queue["open"]), w))
    /\ queue' = [queue EXCEPT !["open"] = Tail(@)]
    /\ UNCHANGED <<temp, comp>>

FetchesExec(w) ==
    /\ queue["open"] = <<>> /\ ready
    /\ Effect(ApplyLoneExec(Unapplied, Head(queue["exec"]), w))
    /\ queue' = [queue EXCEPT !["exec"] = Tail(@)]
    /\ UNCHANGED <<temp, comp>>

FetchesNothing ==
    /\ queue["open"] = <<>> /\ ~ready
    /\ mpc' = "dead"
    /\ UNCHANGED <<temp, comp, queue, index, dispatchQueue, lost>>

LEMMA FetchCases ==
    MainFetch => /\ mpc = "fetch" /\ ready' = (ready /\ queue["open"] # <<>>)
                 /\ \E w \in Slack : FetchesBoth \/ FetchesOpen(w) \/ FetchesExec(w) \/ FetchesNothing
  BY Zenon DEF MainFetch, FetchesBoth, FetchesOpen, FetchesExec, FetchesNothing

LEMMA MainHands ==
    ASSUME SocketsInv, HandInv, MainThread
    PROVE  HandInv' /\ MainQueues
<1>1. /\ PerKind(queue) /\ "exec" \in Kinds /\ "open" \in Kinds /\ Earlier \in Kinds
      /\ \A k \in Kinds : queue[k] \in Seq(Reports(k))
  BY DEF SocketsInv, SocketOK, Kinds, Earlier
<1>2. \A k \in Kinds : queue[k] # <<>> => Head(queue[k]) \in Reports(k)
  BY <1>1
<1>3. UNCHANGED queue => MainQueues
  BY <1>1 DEF MainQueues, PerKind
<1>4. ASSUME NEW k \in Kinds, queue[k] # <<>>, queue' = [queue EXCEPT ![k] = Tail(@)]
      PROVE  MainQueues
  BY <1>1, <1>4 DEF MainQueues, PerKind, Gives
<1>5. CASE MainTop
  BY <1>3, <1>5 DEF MainTop, HandInv, PerKind
<1>6. CASE MainPeek
  <2>1. mpc = "peek" /\ mpc' = "fetch" /\ ~comp /\ UNCHANGED <<comp, temp, queue>> /\ ready = FALSE
    BY <1>6 DEF MainPeek, HandInv, sharedVars
  <2>2. ready' = (queue["exec"] # <<>>)
    BY <1>6, <2>1 DEF MainPeek
  <2> QED
    BY <1>3, <2>1, <2>2 DEF HandInv
<1>7. CASE MainDead
  <2>1. mpc = "dead" /\ mpc' \in {"dead", "dispatch"} /\ UNCHANGED <<ready, comp, temp, queue>>
    BY <1>7 DEF MainDead, sharedVars
  <2> QED
    BY <1>3, <2>1 DEF HandInv, PerKind
<1>8. CASE MainDispatch
  <2>1. /\ mpc = "dispatch" /\ mpc' \in {"crashed", "join", "top"}
        /\ UNCHANGED <<ready, comp, temp, queue>>
    BY <1>8 DEF MainDispatch, sharedVars
  <2> QED
    BY <1>3, <2>1 DEF HandInv, PerKind
<1>9. CASE MainJoin
  BY <1>3, <1>9 DEF MainJoin, HandInv, sharedVars, PerKind
<1>10. CASE MainMerge
  <2>1. PICK w \in Slack : MergesOne(w) \/ MergesBoth(w)
    BY <1>10, MergeCases
  <2>2. mpc = "merge" /\ comp
    BY <1>10 DEF MainMerge, HandInv
  <2>3. mpc' \in {"crashed", "dead"}
    BY <2>1 DEF MergesOne, MergesBoth, Effect
  <2>4. CASE MergesOne(w)
    <3>1. PerKind(temp)' /\ \A k \in Kinds : temp'[k] \in Reports(k)
      BY <1>1, <1>2, <2>2, <2>4 DEF MergesOne, HandInv, PerKind
    <3>2. MainQueues
      BY <1>1, <1>4, <2>4 DEF MergesOne
    <3> QED
      BY <2>2, <2>3, <2>4, <3>1, <3>2 DEF MergesOne, HandInv
  <2>5. CASE MergesBoth(w)
    BY <1>3, <2>3, <2>5 DEF MergesBoth, HandInv
  <2> QED
    BY <2>1, <2>4, <2>5
<1>11. CASE MainFetch
  <2>1. /\ mpc = "fetch" /\ ~comp /\ ready \in BOOLEAN
        /\ ready' = (ready /\ queue["open"] # <<>>)
        /\ ready => queue["exec"] # <<>>
    BY <1>11, FetchCases DEF HandInv
  <2>2. PICK w \in Slack : FetchesBoth \/ FetchesOpen(w) \/ FetchesExec(w) \/ FetchesNothing
    BY <1>11, FetchCases
  <2>3. CASE FetchesBoth
    <3>1. \A k \in Kinds : queue[k] # <<>>
      BY <2>1, <2>3 DEF FetchesBoth, Kinds
    <3>2. MainQueues
      BY <2>3, <3>1 DEF FetchesBoth, MainQueues, Gives, PerKind
    <3>3. PerKind(temp)' /\ \A k \in Kinds : temp'[k] \in Reports(k)
      BY <1>2, <2>3, <3>1 DEF FetchesBoth, PerKind
    <3>4. ready' \in BOOLEAN /\ comp' = TRUE /\ mpc' = "top"
      BY <2>1, <2>3 DEF FetchesBoth
    <3> QED
      BY <3>2, <3>3, <3>4 DEF HandInv
  <2>4. CASE FetchesOpen(w) \/ FetchesExec(w) \/ FetchesNothing
    <3>1. ready' = FALSE /\ comp' = FALSE
      BY <2>1, <2>4 DEF FetchesOpen, FetchesExec, FetchesNothing, HandInv
    <3>2. mpc' \in {"crashed", "dead"}
      BY <2>4 DEF FetchesOpen, FetchesExec, FetchesNothing, Effect
    <3>3. MainQueues
      BY <1>1, <1>3, <1>4, <2>1, <2>4 DEF FetchesOpen, FetchesExec, FetchesNothing
    <3> QED
      BY <3>1, <3>2, <3>3 DEF HandInv
  <2> QED
    BY <2>2, <2>3, <2>4
<1> QED
  BY <1>5, <1>6, <1>7, <1>8, <1>9, <1>10, <1>11 DEF MainThread, MainStep

LEMMA MainTypes ==
    ASSUME SocketsInv, HandInv, MainThread
    PROVE  SocketsInv'
<1>1. UNCHANGED <<ppc, rfds, processing, tries, chunk, refused>>
  BY DEF MainThread, parserVars
<1>2. UNCHANGED <<stream, tracer>>
  BY DEF MainThread, MainStep, MainTop, MainMerge, MainPeek, MainFetch, MainDead, MainDispatch,
         MainJoin, sharedVars
<1>3. MainQueues
  BY MainHands
<1>4. ASSUME NEW k \in Kinds PROVE SocketOK(k)'
  <2> DEFINE q == queue[k]
             q2 == queue'[k]
  <2>1. q \in Seq(Reports(k)) /\ Len(q) <= QueueSize /\ QueueSize \in Nat
    BY QueuesAssumption DEF SocketsInv, SocketOK
  <2>2. q2 = q \/ (q # <<>> /\ q2 = Tail(q))
    BY <1>3 DEF MainQueues, Gives
  <2> HIDE DEF q, q2
  <2>3. q2 \in Seq(Reports(k)) /\ Len(q2) <= QueueSize
    BY <2>1, <2>2
  <2> QED
    BY <1>1, <1>2, <2>3 DEF SocketsInv, SocketOK, q2
<1> QED
  BY <1>1, <1>2, <1>3, <1>4 DEF SocketsInv, MainQueues, PerKind

LEMMA ParserHands ==
    ASSUME SocketsInv, EndInv, HandInv, NEW k \in Kinds, ParserThread(k)
    PROVE  HandInv'
<1>1. UNCHANGED <<mpc, ready, comp, temp>>
  BY DEF ParserThread, mainVars
<1>2. queue["exec"] # <<>> => queue'["exec"] # <<>>
  <2>1. CASE k # "exec"
    <3>1. "exec" \in Kinds \ {k}
      BY <2>1 DEF Kinds
    <3> QED
      BY <3>1, ParserOwn
  <2>2. CASE k = "exec" /\ Enqueues(k)
    <3>1. queue[k] \in Seq(Reports(k)) /\ chunk[k] \in Seq(Reports(k)) /\ chunk[k] # <<>>
      BY <2>2 DEF SocketsInv, SocketOK, Enqueues
    <3>2. Append(queue[k], Head(chunk[k])) # <<>>
      BY <3>1
    <3> QED
      BY <2>2, <3>2 DEF Enqueues
  <2>3. CASE UNCHANGED queue
    BY <2>3
  <2> QED
    BY <2>1, <2>2, <2>3, ParserMoves DEF Takes, Drops, GivesUp, LeavesAlone
<1> QED
  BY <1>1, <1>2 DEF HandInv, PerKind

-----------------------------------------------------------------------------
(* The flags and program counters *)

FlagsInv ==
    /\ killpipe \in {"open", "eof", "closed"}
    /\ spc \in {"sigwait", "flag", "close", "done"}
    /\ cpc \in {"start", "loop", "select", "sweep", "serve", "act", "done"}
    /\ signalled \in BOOLEAN /\ promised \in BOOLEAN /\ restart \in BOOLEAN
    /\ shutting_down \in BOOLEAN /\ dead \in BOOLEAN
    /\ mpc \in {"top", "merge", "peek", "fetch", "dead", "dispatch", "join"} \cup Ended
    /\ tick \in 0..(VitalsEvery - 1)

LEMMA FlagsInit == Init => FlagsInv
<1> SUFFICES ASSUME Init PROVE FlagsInv
  OBVIOUS
<1>1. PICK w \in Workloads : ControlInit(w.down)
  BY Zenon DEF Init
<1>2. tick = 1 % VitalsEvery /\ VitalsEvery \in Nat \ {0}
  BY PeriodsAssumption DEF Init
<1>3. tick \in 0..(VitalsEvery - 1)
  BY <1>2
<1>4. /\ killpipe = "open" /\ shutting_down = FALSE /\ dead = FALSE /\ mpc = "top"
      /\ signalled = FALSE /\ promised = FALSE /\ restart = FALSE /\ spc = "sigwait"
      /\ cpc \in {"start", "done"}
  BY <1>1 DEF Init, ControlInit
<1>5. FALSE \in BOOLEAN
  OBVIOUS
<1> QED
  BY <1>3, <1>4, <1>5 DEF FlagsInv

LEMMA MainFlags ==
    ASSUME FlagsInv, EndInv, MainThread
    PROVE  FlagsInv'
<1>1. UNCHANGED <<spc, cpc, signalled, promised, restart>>
  BY DEF MainThread, controlVars
<1>2. UNCHANGED killpipe
  BY DEF MainThread, MainStep, MainTop, MainMerge, MainPeek, MainFetch, MainDead, MainDispatch,
         MainJoin, sharedVars
<1>3. shutting_down' \in BOOLEAN
  <2>1. CASE MainTop
    <3>1. shutting_down \in BOOLEAN /\ CanExpire \in BOOLEAN
      BY PeriodsAssumption DEF FlagsInv
    <3>2. shutting_down' \in {shutting_down, shutting_down \/ CanExpire}
      BY <2>1 DEF MainTop
    <3> QED
      BY <3>1, <3>2, Zenon
  <2>2. CASE ~MainTop
    <3>1. UNCHANGED shutting_down
      BY <2>2 DEF MainThread, MainStep, MainMerge, MainPeek, MainFetch, MainDead, MainDispatch,
                  MainJoin, sharedVars
    <3> QED
      BY <3>1 DEF FlagsInv
  <2> QED
    BY <2>1, <2>2
<1>4. dead' \in BOOLEAN
  <2>1. CASE MainDead
    <3>1. dead' = ((~DeadTests[test] \/ test = Len(DeadTests)) /\ DeadTests[test])
      BY <2>1 DEF MainDead
    <3> QED
      BY <3>1, Zenon
  <2>2. CASE ~MainDead
    <3>1. UNCHANGED dead
      BY <2>2 DEF MainThread, MainStep, MainTop, MainMerge, MainPeek, MainFetch, MainDispatch,
                  MainJoin
    <3> QED
      BY <3>1 DEF FlagsInv
  <2> QED
    BY <2>1, <2>2
<1>5. mpc' \in {"top", "merge", "peek", "fetch", "dead", "dispatch", "join"} \cup Ended
  BY DEF MainThread, MainStep, MainTop, MainMerge, MainPeek, MainFetch, MainDead, MainDispatch,
         MainJoin, Effect, Ended
<1>6. tick' \in 0..(VitalsEvery - 1)
  <2>1. tick \in 0..(VitalsEvery - 1) /\ VitalsEvery \in Nat \ {0}
    BY PeriodsAssumption DEF FlagsInv
  <2>2. tick' = tick \/ tick' = (tick + 1) % VitalsEvery
    BY DEF MainThread, MainStep, MainTop, MainMerge, MainPeek, MainFetch, MainDead, MainDispatch,
           MainJoin
  <2> QED
    BY <2>1, <2>2
<1> QED
  BY <1>1, <1>2, <1>3, <1>4, <1>5, <1>6 DEF FlagsInv

LEMMA OthersFlags ==
    ASSUME FlagsInv,
           ShutdownThread \/ ControlThread \/ (\E k \in Kinds : TracerCloses(k)) \/ Asked
              \/ (\E k \in Kinds : ParserThread(k)) \/ UNCHANGED vars
    PROVE  FlagsInv'
<1>1. CASE ShutdownThread
  <2>1. UNCHANGED <<cpc, promised, restart, dead, mpc, tick>> /\ ShutdownStep
    BY <1>1 DEF ShutdownThread, ShutdownStep, ShutdownSigwait, ShutdownFlag, ShutdownClose, mainVars
  <2>2. /\ spc' \in {"flag", "close", "done"} /\ killpipe' \in {killpipe, "eof"}
        /\ signalled' = signalled \/ signalled' = FALSE
        /\ shutting_down' = shutting_down \/ shutting_down' = TRUE
    BY <2>1 DEF ShutdownStep, ShutdownSigwait, ShutdownFlag, ShutdownClose
  <2>3. signalled' \in BOOLEAN /\ shutting_down' \in BOOLEAN
    BY <2>2, Zenon DEF FlagsInv
  <2> QED
    BY <2>1, <2>2, <2>3 DEF FlagsInv
<1>2. CASE ControlThread
  <2>1. UNCHANGED <<spc, shutting_down, dead, mpc, tick>> /\ ControlStep
    BY <1>2 DEF ControlThread, ControlStep, ControlStart, ControlLoop, ControlKillpipe,
                ControlSweepEnd, ControlTest, ControlAct, mainVars
  <2>2. /\ cpc' \in {"loop", "done", "select", "sweep", "act"} /\ killpipe' \in {killpipe, "closed"}
    BY <2>1 DEF ControlStep, ControlStart, ControlLoop, ControlKillpipe,
                ControlSweepEnd, ControlTest, ControlAct
  <2>3. /\ signalled' = signalled \/ signalled' = (spc = "sigwait")
        /\ restart' = restart \/ restart' = (restart \/ serving = "restart")
        /\ promised' = promised \/ promised' = (promised \/ serving = "restart")
    BY <2>1 DEF ControlStep, ControlStart, ControlLoop, ControlKillpipe,
                ControlSweepEnd, ControlTest, ControlAct
  <2>4. signalled \in BOOLEAN /\ restart \in BOOLEAN /\ promised \in BOOLEAN
    BY DEF FlagsInv
  <2>5. signalled' \in BOOLEAN /\ restart' \in BOOLEAN /\ promised' \in BOOLEAN
    BY <2>3, <2>4, Zenon
  <2> QED
    BY <2>1, <2>2, <2>5 DEF FlagsInv
<1>3. CASE \E k \in Kinds : TracerCloses(k)
  BY <1>3 DEF TracerCloses, controlVars, mainVars, FlagsInv
<1>4. CASE Asked
  <2>1. /\ UNCHANGED <<dead, mpc, tick, spc, promised, restart, shutting_down, killpipe>>
        /\ cpc' = cpc \/ cpc' \in {"loop", "serve"}
        /\ signalled' = signalled \/ signalled' = TRUE
    BY <1>4 DEF Asked, Kill, ControlClient, ControlAccept, ControlRead, mainVars
  <2>2. signalled' \in BOOLEAN
    BY <2>1, Zenon DEF FlagsInv
  <2> QED
    BY <2>1, <2>2 DEF FlagsInv
<1>5. CASE \E k \in Kinds : ParserThread(k)
  BY <1>5 DEF ParserThread, controlVars, mainVars, FlagsInv
<1>6. CASE UNCHANGED vars
  BY <1>6 DEF vars, controlVars, mainVars, sharedVars, FlagsInv
<1> QED
  BY <1>1, <1>2, <1>3, <1>4, <1>5, <1>6

-----------------------------------------------------------------------------
(* The index, the dispatch queue and the archive *)

Held == Procs \cup {Wild}

StoreInv ==
    /\ GoodIndex(index, Nat, Opens)
    /\ dispatchQueue \in Seq(Held)
    /\ Len(dispatchQueue) <= DispatchSize
    /\ archived \in Seq(Procs)
    /\ lost \subseteq Opens

LEMMA StoreInit == Init => StoreInv
<1> SUFFICES ASSUME Init PROVE StoreInv
  OBVIOUS
<1>1. PICK w \in Slack : index = NewIndex(GuidePid, w)
  BY Zenon DEF Init
<1>2. Distinct(Nat, Opens)
  BY PointersAssumption DEF Distinct, Procs, Opens, Unknown
<1>3. GoodIndex(index, Nat, Opens)
  BY <1>1, <1>2, NewIndexGood, GuideAssumption
<1>4. dispatchQueue = <<>> /\ archived = <<>> /\ lost = {}
  BY DEF Init
<1>5. <<>> \in Seq(Held) /\ <<>> \in Seq(Procs) /\ Len(<<>>) = 0
  OBVIOUS
<1> QED
  BY <1>3, <1>4, <1>5, DispatchAssumption DEF StoreInv

\* The calls that reports name are calls of processes.
LEMMA OpensHavePids == \A o \in Opens : o.pid \in Nat
  BY CallsAssumption DEF Opens

LEMMA InListConcat ==
    ASSUME NEW T, NEW s \in Seq(T), NEW t \in Seq(T), NEW o, InList(s, o) \/ InList(t, o)
    PROVE  InList(s \o t, o)
<1> DEFINE u == s \o t
<1>1. /\ Len(s) \in Nat /\ Len(t) \in Nat /\ Len(u) = Len(s) + Len(t)
      /\ \A n \in 1..Len(s) : u[n] = s[n]
      /\ \A n \in 1..Len(t) : u[Len(s) + n] = t[n]
  OBVIOUS
<1> HIDE DEF u
<1>2. CASE InList(s, o)
  <2>1. PICK n \in 1..Len(s) : IsProc(s[n]) /\ o \in ToSet(s[n].calls)
    BY <1>2 DEF InList
  <2>2. n \in 1..Len(u) /\ u[n] = s[n]
    BY <1>1
  <2>3. InList(u, o)
    BY <2>1, <2>2 DEF InList
  <2> QED
    BY <2>3 DEF u
<1>3. CASE InList(t, o)
  <2>1. PICK n \in 1..Len(t) : IsProc(t[n]) /\ o \in ToSet(t[n].calls)
    BY <1>3 DEF InList
  <2>2. Len(s) + n \in 1..Len(u) /\ u[Len(s) + n] = t[n]
    BY <1>1
  <2>3. InList(u, o)
    BY <2>1, <2>2 DEF InList
  <2> QED
    BY <2>3 DEF u
<1> QED
  BY <1>2, <1>3

\* The result r of applying calls to the index, `new' being the open calls among
\* them: the new calls are in, and nothing is forgotten but what is down.
Carries(r, new) ==
    /\ new \subseteq Opens
    /\ r.down \subseteq Opens
    /\ Conserves(index, r.ix, r.out, new, r.down, Nat, Opens)
    /\ r.ret # "crash" =>
          \A o \in new : InIndex(r.ix, o) \/ InList(r.out, o) \/ o \in r.down

LEMMA UnappliedCarries == StoreInv => Carries(Unapplied, {})
<1> SUFFICES ASSUME StoreInv PROVE Carries(Unapplied, {})
  OBVIOUS
<1>1. Conserves(index, index, <<>>, {}, {}, Nat, Opens)
  BY NothingConserves DEF StoreInv
<1> QED
  BY <1>1 DEF Carries, Unapplied

\* One more operation on top of r
LEMMA CarriesOn ==
    ASSUME StoreInv, NEW r, NEW new, Carries(r, new),
           NEW ix2, NEW out2, NEW ret2, NEW new2 \in SUBSET Opens, NEW down2 \in SUBSET Opens,
           Conserves(r.ix, ix2, out2, new2, Overgrown(r.ix, ix2), Nat, Opens),
           ret2 # "crash" => \A o \in new2 : InIndex(ix2, o) \/ o \in down2
    PROVE  Carries(Then(r, ix2, out2, down2, ret2), new \cup new2)
<1> DEFINE t == Then(r, ix2, out2, down2, ret2)
           T == ProcsOf(Nat, Opens) \cup {Wild}
           over == Overgrown(r.ix, ix2)
<1>1. /\ t.ix = ix2 /\ t.out = r.out \o out2 /\ t.down = UNION {r.down, over, down2}
      /\ t.ret # "crash" => r.ret # "crash" /\ ret2 # "crash"
  BY DEF Then
<1>2. r.out \in Seq(T) /\ out2 \in Seq(T) /\ GoodIndex(r.ix, Nat, Opens)
  BY DEF Carries, Conserves
<1>3. over \subseteq Opens
  BY <1>2, LossesTyped
<1>4. \A o \in Opens : InIndex(r.ix, o) => InIndex(ix2, o) \/ InList(out2, o) \/ o \in over
  BY DEF Conserves
<1>5. Conserves(index, ix2, r.out \o out2, new \cup new2, r.down \cup over, Nat, Opens)
  BY OpensHavePids, ConservesTwice DEF StoreInv, Carries
<1> HIDE DEF T, over
<1>6. Conserves(index, ix2, r.out \o out2, new \cup new2, UNION {r.down, over, down2}, Nat, Opens)
  BY <1>5 DEF Conserves
<1>7. ASSUME t.ret # "crash", NEW o \in new \cup new2
      PROVE  InIndex(ix2, o) \/ InList(r.out \o out2, o) \/ o \in UNION {r.down, over, down2}
  <2>1. CASE o \in new2
    BY <1>1, <1>7, <2>1
  <2>2. CASE o \in new
    <3>1. o \in Opens
      BY <2>2 DEF Carries
    <3>2. InIndex(r.ix, o) \/ InList(r.out, o) \/ o \in r.down
      BY <1>1, <1>7, <2>2 DEF Carries
    <3>3. InList(r.out, o) \/ InList(out2, o) => InList(r.out \o out2, o)
      BY <1>2, InListConcat
    <3> QED
      BY <1>4, <3>1, <3>2, <3>3
  <2> QED
    BY <1>7, <2>1, <2>2
<1>8. new \cup new2 \subseteq Opens /\ UNION {r.down, over, down2} \subseteq Opens
  BY <1>3 DEF Carries
<1> HIDE DEF t
<1>9. Carries(t, new \cup new2)
  BY <1>1, <1>6, <1>7, <1>8 DEF Carries
<1> QED
  BY <1>9 DEF t

LEMMA ExecCarries ==
    ASSUME StoreInv, NEW r, NEW new, Carries(r, new), NEW e \in Reports("exec"), NEW w \in Slack
    PROVE  Carries(ApplyExec(r, e, w), new) /\ Carries(ApplyLoneExec(r, e, w), new)
<1>1. e.n \in Nat /\ e.pid \in Nat /\ e.ppid \in Nat
  BY CallsAssumption
<1>2. GoodIndex(r.ix, Nat, Opens)
  BY DEF Carries, Conserves
<1> DEFINE a == AddReplacing(r.ix, NewProc(e.n, e.pid, e.ppid), w)
           b == Add(r.ix, NewProc(e.n, e.pid, e.ppid), w)
<1>3. Conserves(r.ix, a.ix, a.out, {}, Overgrown(r.ix, a.ix), Nat, Opens)
  BY <1>1, <1>2, AddReplacingConserves
<1>4. Conserves(r.ix, b.ix, <<>>, {}, Overgrown(r.ix, b.ix), Nat, Opens)
  BY <1>1, <1>2, AddConserves
<1>5. /\ ApplyExec(r, e, w) = Then(r, a.ix, a.out, {}, a.ret)
      /\ ApplyLoneExec(r, e, w) = Then(r, b.ix, <<>>, {}, b.ret)
  BY DEF ApplyExec, ApplyLoneExec
<1> HIDE DEF a, b
<1>6. {} \in SUBSET Opens /\ \A o \in {} : FALSE
  OBVIOUS
<1>7. Carries(Then(r, a.ix, a.out, {}, a.ret), new \cup {})
  BY <1>3, <1>6, CarriesOn
<1>8. Carries(Then(r, b.ix, <<>>, {}, b.ret), new \cup {})
  BY <1>4, <1>6, CarriesOn
<1>9. new \cup {} = new
  OBVIOUS
<1> QED
  BY <1>5, <1>7, <1>8, <1>9

LEMMA OpenCarries ==
    ASSUME StoreInv, NEW r, NEW new, Carries(r, new), NEW o \in Opens, NEW w \in Slack
    PROVE  Carries(ApplyOpen(r, o, w), new \cup {o})
<1>1. o.pid \in Nat
  BY OpensHavePids
<1>2. GoodIndex(r.ix, Nat, Opens)
  BY DEF Carries, Conserves
<1> DEFINE a == OpencallAdd(r.ix, o.pid, o, w)
<1>3. /\ Conserves(r.ix, a.ix, <<>>, {o}, Overgrown(r.ix, a.ix), Nat, Opens)
      /\ a.ret = "ok" => InIndex(a.ix, o)
      /\ InRange(o.pid) => a.ret \in {"ok", "crash"}
  BY <1>1, <1>2, OpencallConserves
<1> DEFINE down == IF a.ret = "range" THEN {o} ELSE {}
<1>4. ApplyOpen(r, o, w) = Then(r, a.ix, <<>>, down, a.ret)
  BY DEF ApplyOpen
<1>5. a.ret \in {"ok", "crash", "range"}
  <2>1. ~InRange(o.pid) => a.ret = "range"
    BY DEF OpencallAdd
  <2> HIDE DEF a
  <2> QED
    BY <1>3, <2>1
<1> HIDE DEF a
<1>6. down \in SUBSET Opens /\ (a.ret # "crash" => \A x \in {o} : InIndex(a.ix, x) \/ x \in down)
  BY <1>3, <1>5
<1> HIDE DEF down
<1>7. PICK new2 : new2 = {o}
  OBVIOUS
<1>8. PICK ix2, ret2 : ix2 = a.ix /\ ret2 = a.ret
  OBVIOUS
<1>9. /\ new2 \in SUBSET Opens /\ down \in SUBSET Opens
      /\ Conserves(r.ix, ix2, <<>>, new2, Overgrown(r.ix, ix2), Nat, Opens)
      /\ ret2 # "crash" => \A x \in new2 : InIndex(ix2, x) \/ x \in down
  BY <1>3, <1>6, <1>7, <1>8
<1>10. Carries(Then(r, ix2, <<>>, down, ret2), new \cup new2)
  BY <1>9, CarriesOn
<1> QED
  BY <1>4, <1>7, <1>8, <1>10

\* The open call o is booked on a process somewhere.
Stored(o) == InIndex(index, o) \/ InList(dispatchQueue, o) \/ InList(archived, o)

\* A step of the main thread that books the calls `new' keeps the store in order
\* and loses no call that it does not count as lost.
Keeps(new) ==
    /\ StoreInv'
    /\ lost \subseteq lost'
    /\ mpc' # "crashed" =>
          \A o \in Opens : Stored(o) \/ o \in new => Stored(o)' \/ o \in lost'

LEMMA HeldIs == Held = ProcsOf(Nat, Opens) \cup {Wild}
  BY DEF Held, Procs, Opens

LEMMA NothingKeeps ==
    ASSUME StoreInv, UNCHANGED <<index, dispatchQueue, archived, lost>>
    PROVE  Keeps({})
  BY DEF Keeps, StoreInv, Stored

\* What is in the index or comes out of it is there afterwards.
LEMMA QueuedKeeps ==
    ASSUME StoreInv, NEW ix2, NEW out, NEW new \in SUBSET Opens, NEW down \in SUBSET Opens,
           Conserves(index, ix2, out, new, down, Nat, Opens),
           index' = ix2, dispatchQueue' = Enqueue(dispatchQueue, out), archived' = archived,
           lost' = UNION {lost, down, Dropped(dispatchQueue, out)},
           mpc' # "crashed" =>
              \A o \in new : InIndex(ix2, o) \/ InList(out, o) \/ o \in down
    PROVE  Keeps(new)
<1> DEFINE e == Enqueue(dispatchQueue, out)
           dropped == Dropped(dispatchQueue, out)
<1>1. dispatchQueue \in Seq(Held) /\ out \in Seq(Held) /\ Len(dispatchQueue) <= DispatchSize
  BY HeldIs DEF StoreInv, Conserves
<1>2. e \in Seq(Held) /\ Len(e) <= DispatchSize
  BY <1>1, EnqueueFacts
<1>3. \A o : InList(dispatchQueue, o) \/ InList(out, o) => InList(e, o) \/ o \in dropped
  BY <1>1, EnqueueKeeps
<1>4. dropped \subseteq Opens
  BY <1>1, HeldIs, LossesTyped DEF StoreInv
<1>5. dispatchQueue' = e
  OBVIOUS
<1> HIDE DEF e, dropped
<1>6. lost' = UNION {lost, down, dropped}
  BY DEF dropped
<1>7. StoreInv'
  BY <1>2, <1>4, <1>5, <1>6 DEF StoreInv, Conserves
<1>8. ASSUME mpc' # "crashed", NEW o \in Opens, Stored(o) \/ o \in new
      PROVE  Stored(o)' \/ o \in lost'
  <2>1. InIndex(index, o) => InIndex(ix2, o) \/ InList(out, o) \/ o \in down
    BY DEF Conserves
  <2>2. \/ InIndex(ix2, o) \/ InList(e, o) \/ o \in dropped
        \/ o \in down \/ InList(archived, o)
    BY <1>3, <1>8, <2>1 DEF Stored
  <2> QED
    BY <1>5, <1>6, <2>2 DEF Stored
<1> QED
  BY <1>6, <1>7, <1>8 DEF Keeps

LEMMA EffectKeeps ==
    ASSUME StoreInv, NEW r, NEW new, Carries(r, new), Effect(r), archived' = archived
    PROVE  Keeps(new)
<1>1. /\ index' = r.ix /\ dispatchQueue' = Enqueue(dispatchQueue, r.out)
      /\ lost' = UNION {lost, r.down, Dropped(dispatchQueue, r.out)}
      /\ mpc' # "crashed" => r.ret # "crash"
  BY DEF Effect
<1>2. new \in SUBSET Opens /\ r.down \in SUBSET Opens /\ Conserves(index, r.ix, r.out, new, r.down, Nat, Opens)
  BY DEF Carries
<1> QED
  BY <1>1, <1>2, QueuedKeeps DEF Carries

\* The flush, the dispatch queue and the batch
LEMMA DispatchKeeps ==
    ASSUME StoreInv, MainDispatch
    PROVE  Keeps({})
<1> DEFINE flushed == IF dead THEN Flush(index) ELSE [ix |-> index, out |-> <<>>]
           queued == Enqueue(dispatchQueue, flushed.out)
           now == dead \/ tick % DispatchEvery = 0
           batch == IF now THEN Batch(queued) ELSE <<>>
<1>1. /\ index' = flushed.ix
      /\ archived' = archived \o batch
      /\ dispatchQueue' = SubSeq(queued, Len(batch) + 1, Len(queued))
      /\ lost' = lost \cup Dropped(dispatchQueue, flushed.out)
      /\ mpc' # "crashed" => ~now \/ ~(Len(batch) < Len(queued))
  BY DEF MainDispatch
<1>2. Conserves(index, flushed.ix, flushed.out, {}, {}, Nat, Opens)
  BY NothingConserves, FlushConserves DEF StoreInv
<1> HIDE DEF flushed
<1>3. /\ dispatchQueue \in Seq(Held) /\ flushed.out \in Seq(Held)
      /\ Len(dispatchQueue) <= DispatchSize /\ archived \in Seq(Procs)
  BY <1>2, HeldIs DEF StoreInv, Conserves
<1>4. queued \in Seq(Held) /\ Len(queued) <= DispatchSize
  BY <1>3, EnqueueFacts
<1>5. \A o : InList(dispatchQueue, o) \/ InList(flushed.out, o)
                => InList(queued, o) \/ o \in lost'
  BY <1>1, <1>3, EnqueueKeeps
<1>6. batch \in Seq(Held \ {Wild}) /\ Len(batch) <= Len(queued) /\ \A n \in 1..Len(batch) : batch[n] = queued[n]
  <2>1. <<>> \in Seq(Held \ {Wild}) /\ Len(<<>>) = 0 /\ Len(queued) \in Nat
    BY <1>4
  <2>2. /\ Batch(queued) \in Seq(Held \ {Wild}) /\ Len(Batch(queued)) <= Len(queued)
        /\ \A n \in 1..Len(Batch(queued)) : Batch(queued)[n] = queued[n]
    BY <1>4, BatchFacts
  <2> HIDE DEF queued
  <2> QED
    BY <2>1, <2>2
<1>7. ~now => Len(batch) = 0
  OBVIOUS
<1> HIDE DEF queued, batch, now
<1>8. Held \ {Wild} = Procs
  BY PointersAssumption DEF Held
<1>9. batch \in Seq(Procs)
  BY <1>6, <1>8
<1>10. Len(queued) \in Nat /\ Len(batch) \in Nat /\ Len(archived) \in Nat /\ DispatchSize \in Nat
  BY <1>3, <1>4, <1>9, DispatchAssumption
<1>11. archived \o batch \in Seq(Procs) /\ Len(archived \o batch) = Len(archived) + Len(batch)
  BY <1>3, <1>9
<1> DEFINE rest == SubSeq(queued, Len(batch) + 1, Len(queued))
<1>12. rest \in Seq(Held) /\ Len(rest) = Len(queued) - Len(batch)
  BY <1>4, <1>6, <1>10
<1>13. Len(batch) = 0 => \A n \in 1..Len(queued) : rest[n] = queued[n]
  BY <1>4, <1>6, <1>10
<1> HIDE DEF rest
<1>14. dispatchQueue' = rest /\ Len(rest) <= DispatchSize
  BY <1>1, <1>4, <1>6, <1>10, <1>12 DEF rest
<1>15. StoreInv'
  <2>1. Dropped(dispatchQueue, flushed.out) \subseteq Opens
    BY <1>3, HeldIs, LossesTyped DEF StoreInv
  <2>2. lost' \subseteq Opens
    BY <1>1, <2>1 DEF StoreInv
  <2> QED
    BY <1>1, <1>2, <1>11, <1>12, <1>14, <2>2 DEF StoreInv, Conserves
<1>16. ASSUME mpc' # "crashed", NEW o, InList(queued, o)
       PROVE  InList(dispatchQueue', o) \/ InList(archived', o)
  <2>1. PICK n \in 1..Len(queued) : IsProc(queued[n]) /\ o \in ToSet(queued[n].calls)
    BY <1>16 DEF InList
  <2>2. Len(batch) = 0 \/ Len(batch) = Len(queued)
    BY <1>1, <1>6, <1>7, <1>10, <1>16
  <2>3. CASE Len(batch) = 0
    <3>1. n \in 1..Len(rest) /\ rest[n] = queued[n]
      BY <1>10, <1>12, <1>13, <2>3
    <3>2. InList(rest, o)
      BY <2>1, <3>1 DEF InList
    <3> QED
      BY <1>14, <3>2
  <2>4. CASE Len(batch) = Len(queued)
    <3>1. n \in 1..Len(batch) /\ batch[n] = queued[n]
      BY <1>6, <2>4
    <3>2. InList(batch, o)
      BY <2>1, <3>1 DEF InList
    <3> QED
      BY <1>1, <1>3, <1>9, <3>2, InListConcat
  <2> QED
    BY <2>2, <2>3, <2>4
<1>17. \A o : InList(archived, o) => InList(archived', o)
  BY <1>1, <1>3, <1>9, InListConcat
<1>19. ASSUME mpc' # "crashed", NEW o \in Opens, Stored(o)
       PROVE  Stored(o)' \/ o \in lost'
  <2>1. InIndex(index, o) => InIndex(index', o) \/ InList(flushed.out, o)
    BY <1>1, <1>2 DEF Conserves
  <2> QED
    BY <1>5, <1>16, <1>17, <1>19, <2>1 DEF Stored
<1> QED
  BY <1>1, <1>15, <1>19 DEF Keeps

\* An open call that waits for the main thread, or that it has in hand
Waits(o) == o \in ToSet(queue["open"]) \cup InHand("open")

LEMMA TopKeeps ==
    ASSUME StoreInv, MainTop
    PROVE  Keeps({})
<1>1. CASE tick = 0
  <2>1. PICK gone : /\ index' = CheckVitals(index, gone).ix
                    /\ dispatchQueue' = Enqueue(dispatchQueue, CheckVitals(index, gone).out)
                    /\ lost' = lost \cup Dropped(dispatchQueue, CheckVitals(index, gone).out)
    BY <1>1, Zenon DEF MainTop
  <2>2. LET v == CheckVitals(index, gone) IN Conserves(index, v.ix, v.out, {}, {}, Nat, Opens)
    BY VitalsConserve DEF StoreInv
  <2>3. archived' = archived
    BY DEF MainTop
  <2>4. {} \in SUBSET Opens
    OBVIOUS
  <2>5. lost' = UNION {lost, {}, Dropped(dispatchQueue, CheckVitals(index, gone).out)}
    BY <2>1
  <2> QED
    BY <2>1, <2>2, <2>3, <2>4, <2>5, QueuedKeeps
<1>2. CASE tick # 0
  <2>1. UNCHANGED <<index, dispatchQueue, archived, lost>>
    BY <1>2 DEF MainTop
  <2> QED
    BY <2>1, NothingKeeps
<1> QED
  BY <1>1, <1>2

LEMMA HeadAndTail ==
    ASSUME NEW T, NEW s \in Seq(T), s # <<>>
    PROVE  ToSet(s) = {Head(s)} \cup ToSet(Tail(s))
<1>1. /\ Len(s) \in Nat \ {0} /\ DOMAIN s = 1..Len(s) /\ Head(s) = s[1]
      /\ DOMAIN Tail(s) = 1..(Len(s) - 1)
      /\ \A n \in 1..(Len(s) - 1) : Tail(s)[n] = s[n + 1]
  OBVIOUS
<1>2. ASSUME NEW n \in 1..Len(s) PROVE s[n] \in {Head(s)} \cup ToSet(Tail(s))
  <2>1. n = 1 \/ (n - 1 \in 1..(Len(s) - 1) /\ (n - 1) + 1 = n)
    BY <1>1
  <2> QED
    BY <1>1, <2>1 DEF ToSet
<1>3. ASSUME NEW n \in 1..(Len(s) - 1) PROVE Tail(s)[n] \in ToSet(s)
  <2>1. n + 1 \in 1..Len(s)
    BY <1>1
  <2> QED
    BY <1>1, <2>1 DEF ToSet
<1>4. Head(s) \in ToSet(s)
  <2>1. 1 \in 1..Len(s)
    BY <1>1
  <2> QED
    BY <1>1, <2>1 DEF ToSet
<1>5. ToSet(s) \subseteq {Head(s)} \cup ToSet(Tail(s))
  BY <1>1, <1>2 DEF ToSet
<1>6. ToSet(Tail(s)) \subseteq ToSet(s)
  BY <1>1, <1>3 DEF ToSet
<1> QED
  BY <1>4, <1>5, <1>6

\* What a step of the main thread does with the open calls that wait: it books
\* them, or they go on waiting.
Passes(new) == Keeps(new) /\ \A o : Waits(o) => o \in new \/ Waits(o)'

\* The results of MainMerge, by the call that comes first
LEMMA MergeCarries ==
    ASSUME HandInv, StoreInv, mpc = "merge", NEW w \in Slack
    PROVE  /\ ExecFirst => Carries(First(w), {})
           /\ ~ExecFirst => Carries(First(w), {temp["open"]})
           /\ Carries(Second(w), {temp["open"]})
<1>1. temp["exec"] \in Reports("exec") /\ temp["open"] \in Opens
  BY DEF HandInv, Kinds, Opens
<1>2. Carries(Unapplied, {})
  BY UnappliedCarries
<1>3. {} \cup {temp["open"]} = {temp["open"]}
  OBVIOUS
<1>4. CASE ExecFirst
  <2>1. Carries(First(w), {})
    BY <1>1, <1>2, <1>4, ExecCarries DEF First
  <2>2. Carries(ApplyOpen(First(w), temp["open"], w), {} \cup {temp["open"]})
    BY <1>1, <2>1, OpenCarries
  <2> QED
    BY <1>3, <1>4, <2>1, <2>2 DEF Second
<1>5. CASE ~ExecFirst
  <2>1. Carries(ApplyOpen(Unapplied, temp["open"], w), {} \cup {temp["open"]})
    BY <1>1, <1>2, OpenCarries
  <2>2. Carries(First(w), {temp["open"]})
    BY <1>3, <1>5, <2>1 DEF First
  <2>3. Carries(ApplyExec(First(w), temp["exec"], w), {temp["open"]})
    BY <1>1, <2>2, ExecCarries
  <2> QED
    BY <1>5, <2>2, <2>3 DEF Second
<1> QED
  BY <1>4, <1>5

LEMMA MergePasses ==
    ASSUME SocketsInv, HandInv, StoreInv, MainMerge
    PROVE  \E new : Passes(new)
<1>1. /\ PerKind(queue) /\ PerKind(temp) /\ comp
      /\ temp["exec"] \in Reports("exec") /\ temp["open"] \in Opens
      /\ queue["open"] \in Seq(Opens)
  BY DEF MainMerge, SocketsInv, SocketOK, HandInv, Kinds, Opens
<1>2. PICK w \in Slack : MergesOne(w) \/ MergesBoth(w)
  BY MergeCases
<1>3. UNCHANGED archived
  BY DEF MainMerge
<1>4. /\ ExecFirst => Carries(First(w), {})
      /\ ~ExecFirst => Carries(First(w), {temp["open"]})
      /\ Carries(Second(w), {temp["open"]})
  BY MergeCases, MergeCarries
<1>5. CASE MergesBoth(w)
  <2>1. Keeps({temp["open"]})
    BY <1>3, <1>4, <1>5, EffectKeeps DEF MergesBoth
  <2>2. \A o : Waits(o) => o \in {temp["open"]} \/ Waits(o)'
    BY <1>5 DEF MergesBoth, Waits, InHand
  <2> QED
    BY <2>1, <2>2 DEF Passes
<1>6. CASE MergesOne(w) /\ ExecFirst
  <2>1. Keeps({})
    BY <1>3, <1>4, <1>6, EffectKeeps DEF MergesOne
  <2>2. queue'["open"] = queue["open"] /\ temp'["open"] = temp["open"] /\ comp' = comp
    BY <1>1, <1>6 DEF MergesOne, Earlier, PerKind, Kinds
  <2>3. \A o : Waits(o) => Waits(o)'
    BY <2>2 DEF Waits, InHand
  <2> QED
    BY <2>1, <2>3 DEF Passes
<1>7. CASE MergesOne(w) /\ ~ExecFirst
  <2>1. Keeps({temp["open"]})
    BY <1>3, <1>4, <1>7, EffectKeeps DEF MergesOne
  <2>2. /\ queue["open"] # <<>> /\ queue'["open"] = Tail(queue["open"])
        /\ temp'["open"] = Head(queue["open"]) /\ comp'
    BY <1>1, <1>7 DEF MergesOne, Earlier, PerKind, Kinds
  <2>3. ToSet(queue["open"]) = {temp'["open"]} \cup ToSet(queue'["open"])
    BY <1>1, <2>2, HeadAndTail
  <2>4. \A o : Waits(o) => o \in {temp["open"]} \/ Waits(o)'
    BY <1>1, <2>2, <2>3 DEF Waits, InHand
  <2> QED
    BY <2>1, <2>4 DEF Passes
<1> QED
  BY <1>2, <1>5, <1>6, <1>7

LEMMA FetchPasses ==
    ASSUME SocketsInv, HandInv, StoreInv, MainFetch
    PROVE  \E new : Passes(new)
<1>1. /\ PerKind(queue) /\ comp = FALSE /\ mpc = "fetch"
      /\ ready => queue["exec"] # <<>>
      /\ queue["open"] \in Seq(Opens) /\ queue["exec"] \in Seq(Reports("exec"))
  BY FetchCases DEF SocketsInv, SocketOK, HandInv, Kinds, Opens
<1>2. PICK w \in Slack : FetchesBoth \/ FetchesOpen(w) \/ FetchesExec(w) \/ FetchesNothing
  BY FetchCases
<1>3. UNCHANGED archived
  BY DEF MainFetch
<1>4. Carries(Unapplied, {})
  BY UnappliedCarries
<1>5. CASE FetchesBoth
  <2>1. Keeps({})
    BY <1>3, <1>5, NothingKeeps DEF FetchesBoth
  <2>2. /\ queue["open"] # <<>> /\ queue'["open"] = Tail(queue["open"])
        /\ temp'["open"] = Head(queue["open"]) /\ comp'
    BY <1>5 DEF FetchesBoth, Kinds
  <2>3. ToSet(queue["open"]) = {temp'["open"]} \cup ToSet(queue'["open"])
    BY <1>1, <2>2, HeadAndTail
  <2>4. \A o : Waits(o) => Waits(o)'
    BY <1>1, <2>2, <2>3 DEF Waits, InHand
  <2> QED
    BY <2>1, <2>4 DEF Passes
<1>6. CASE FetchesOpen(w)
  <2> DEFINE o1 == Head(queue["open"])
  <2>1. queue["open"] # <<>> /\ queue'["open"] = Tail(queue["open"]) /\ comp' = comp
    BY <1>1, <1>6 DEF FetchesOpen, PerKind, Kinds
  <2>2. o1 \in Opens
    BY <1>1, <2>1
  <2>3. Effect(ApplyOpen(Unapplied, o1, w))
    BY <1>6 DEF FetchesOpen
  <2>4. ToSet(queue["open"]) = {o1} \cup ToSet(queue'["open"])
    BY <1>1, <2>1, HeadAndTail
  <2> HIDE DEF o1
  <2>5. Carries(ApplyOpen(Unapplied, o1, w), {} \cup {o1})
    BY <1>4, <2>2, OpenCarries
  <2>6. Keeps({} \cup {o1})
    BY <1>3, <2>3, <2>5, EffectKeeps
  <2>7. \A o : Waits(o) => o \in {} \cup {o1} \/ Waits(o)'
    BY <1>1, <2>1, <2>4 DEF Waits, InHand
  <2> QED
    BY <2>6, <2>7 DEF Passes
<1>7. CASE FetchesExec(w)
  <2> DEFINE e1 == Head(queue["exec"])
  <2>1. queue'["open"] = queue["open"] /\ comp' = comp
    BY <1>1, <1>7 DEF FetchesExec, PerKind, Kinds
  <2>2. e1 \in Reports("exec")
    BY <1>1, <1>7 DEF FetchesExec
  <2>3. Effect(ApplyLoneExec(Unapplied, e1, w))
    BY <1>7 DEF FetchesExec
  <2> HIDE DEF e1
  <2>4. Keeps({})
    BY <1>3, <1>4, <2>2, <2>3, ExecCarries, EffectKeeps
  <2>5. \A o : Waits(o) => Waits(o)'
    BY <1>1, <2>1 DEF Waits, InHand
  <2> QED
    BY <2>4, <2>5 DEF Passes
<1>8. CASE FetchesNothing
  <2>1. Keeps({})
    BY <1>3, <1>8, NothingKeeps DEF FetchesNothing
  <2>2. \A o : Waits(o) => Waits(o)'
    BY <1>8 DEF FetchesNothing, Waits, InHand
  <2> QED
    BY <2>1, <2>2 DEF Passes
<1> QED
  BY <1>2, <1>5, <1>6, <1>7, <1>8

LEMMA MainPasses ==
    ASSUME SocketsInv, HandInv, StoreInv, MainThread
    PROVE  \E new : Passes(new)
<1>1. CASE MainMerge
  BY <1>1, MergePasses
<1>2. CASE MainFetch
  BY <1>2, FetchPasses
<1>3. ASSUME UNCHANGED <<queue, comp, temp>>, Keeps({})
      PROVE  \E new : Passes(new)
  <2>1. \A o : Waits(o) => Waits(o)'
    BY <1>3 DEF Waits, InHand
  <2>2. Passes({})
    BY <1>3, <2>1 DEF Passes
  <2> QED
    BY <2>2
<1>4. CASE MainTop
  <2>1. UNCHANGED <<queue, comp, temp>>
    BY <1>4 DEF MainTop
  <2> QED
    BY <1>3, <1>4, <2>1, TopKeeps
<1>5. CASE MainDispatch
  <2>1. UNCHANGED <<queue, comp, temp>>
    BY <1>5 DEF MainDispatch, sharedVars
  <2> QED
    BY <1>3, <1>5, <2>1, DispatchKeeps
<1>6. CASE MainPeek \/ MainDead \/ MainJoin
  <2>1. UNCHANGED <<queue, comp, temp, index, dispatchQueue, archived, lost>>
    BY <1>6 DEF MainPeek, MainDead, MainJoin, sharedVars
  <2> QED
    BY <1>3, <2>1, NothingKeeps
<1> QED
  BY <1>1, <1>2, <1>4, <1>5, <1>6 DEF MainThread, MainStep

-----------------------------------------------------------------------------
(* The types of the daemon *)

DaemonInv ==
    EndInv /\ SocketsInv /\ HandInv /\ FlagsInv /\ StoreInv /\ received \subseteq Opens

LEMMA DaemonInit == Init => DaemonInv
<1> SUFFICES ASSUME Init PROVE DaemonInv
  OBVIOUS
<1>1. mpc = "top" /\ ready = FALSE /\ comp = FALSE
  BY DEF Init
<1>2. HandInv
  BY <1>1 DEF HandInv
<1>3. received \subseteq Opens
  BY DEF Init
<1> QED
  BY <1>2, <1>3, EndInvInit, SocketsInit, FlagsInit, StoreInit DEF DaemonInv

LEMMA DaemonNext == DaemonInv /\ [Next]_vars => DaemonInv'
<1> SUFFICES ASSUME DaemonInv, [Next]_vars PROVE DaemonInv'
  OBVIOUS
<1>1. EndInv'
  BY EndInvNext DEF DaemonInv
<1>2. CASE MainThread
  <2>1. HandInv' /\ SocketsInv' /\ FlagsInv'
    BY <1>2, MainHands, MainTypes, MainFlags DEF DaemonInv
  <2>2. StoreInv'
    BY <1>2, MainPasses DEF DaemonInv, Passes, Keeps
  <2>3. received' \subseteq Opens
    BY <1>2 DEF MainThread, parserVars, DaemonInv
  <2> QED
    BY <1>1, <2>1, <2>2, <2>3 DEF DaemonInv
<1>3. ASSUME NEW k \in Kinds, ParserThread(k) PROVE DaemonInv'
  <2>1. HandInv' /\ SocketsInv' /\ FlagsInv'
    BY <1>3, ParserHands, ParserTypes, OthersFlags DEF DaemonInv
  <2>2. UNCHANGED <<index, dispatchQueue, archived, lost>>
    BY <1>3 DEF ParserThread, mainVars
  <2>3. StoreInv'
    BY <2>2 DEF DaemonInv, StoreInv
  <2>4. chunk'["open"] \in Seq(Opens)
    BY <2>1 DEF SocketsInv, SocketOK, Kinds, Opens
  <2>5. ToSet(chunk'["open"]) \subseteq Opens
    BY <2>4 DEF ToSet
  <2>6. received' \subseteq Opens
    BY <1>3, <2>5 DEF ParserThread, DaemonInv
  <2> QED
    BY <1>1, <2>1, <2>3, <2>6 DEF DaemonInv
<1>4. CASE ShutdownThread \/ ControlThread \/ (\E k \in Kinds : TracerCloses(k)) \/ Asked
              \/ UNCHANGED vars
  <2>1. UNCHANGED <<parserVars, mainVars, queue>>
    BY <1>4, OthersLeave
  <2>2. UNCHANGED <<mpc, ready, comp, temp, queue, index, dispatchQueue, archived, lost, received>>
    BY <2>1 DEF mainVars, parserVars
  <2>3. HandInv' /\ StoreInv' /\ received' \subseteq Opens
    BY <2>2 DEF DaemonInv, HandInv, StoreInv, PerKind
  <2>4. SocketsInv' /\ FlagsInv'
    BY <1>4, OthersTypes, OthersFlags DEF DaemonInv
  <2> QED
    BY <1>1, <2>3, <2>4 DEF DaemonInv
<1> QED
  BY <1>2, <1>3, <1>4 DEF Next

LEMMA DaemonInvariant == Spec => []DaemonInv
  BY DaemonInit, DaemonNext, PTL DEF Spec

\* Every queue keeps within its capacity and holds calls of its kind only, what
\* is in the index, in the dispatch queue and in the archive are processes (the
\* word behind the array and the dispatch queue may hold a wild pointer, the
\* archive never does), and every thread is where its code can be.
THEOREM DaemonTypes == Spec => []TypeOK
<1>1. DaemonInv => TypeOK
  <2> SUFFICES ASSUME DaemonInv PROVE TypeOK
    OBVIOUS
  <2>1. /\ ppc \in [Kinds -> ParserPcs] /\ rfds \in [Kinds -> SUBSET {"socket", "killpipe"}]
        /\ processing \in [Kinds -> BOOLEAN] /\ tries \in [Kinds -> 0..(MaxTries - 1)]
    BY DEF DaemonInv, SocketsInv, SocketOK, PerKind
  <2>2. ASSUME NEW k \in Kinds
        PROVE  /\ {stream[k], chunk[k], queue[k]} \subseteq Seq(Reports(k))
               /\ Len(queue[k]) <= QueueSize
               /\ InHand(k) \subseteq Reports(k)
    BY DEF DaemonInv, SocketsInv, SocketOK, HandInv, InHand
  <2>3. /\ refused \subseteq Reports("open") \cup Reports("exec")
        /\ tracer \in [Kinds -> {"absent", "listening", "closed"}]
    BY DEF DaemonInv, SocketsInv
  <2>4. {signalled, promised, restart, shutting_down, ready, comp, dead} \subseteq BOOLEAN
    BY Zenon DEF DaemonInv, FlagsInv, HandInv
  <2>5. index.size \in 1..(MaxPid + 1) /\ index.procs \in [Slots -> Procs \cup {NULL, Wild}]
    <3>1. GoodIndex(index, Nat, Opens)
      BY DEF DaemonInv, StoreInv
    <3>2. \A i \in Slots : index.procs[i] \in Procs \cup {NULL, Wild}
      BY <3>1 DEF GoodIndex, GoodWords, GoodAt, Procs, Opens
    <3> QED
      BY <3>1, <3>2 DEF GoodIndex
  <2>6. test \in 1..5
    BY DEF DaemonInv, EndInv, TestsOK
  <2>7. dispatchQueue \in Seq(Procs \cup {Wild}) /\ Len(dispatchQueue) <= DispatchSize /\ archived \in Seq(Procs)
    BY DEF DaemonInv, StoreInv, Held
  <2>8. received \subseteq Reports("open") /\ lost \subseteq Reports("open")
    BY DEF DaemonInv, StoreInv, Opens
  <2> QED
    BY <2>1, <2>2, <2>3, <2>4, <2>5, <2>6, <2>7, <2>8 DEF TypeOK, DaemonInv, FlagsInv
<1> QED
  BY <1>1, DaemonInvariant, PTL

-----------------------------------------------------------------------------
(* Where the open calls are *)

\* Present, place by place
Received(o) == o \in ToSet(chunk["open"]) \/ Waits(o) \/ o \in refused \/ Stored(o)

ReceivedIs == \A o : o \in Present <=> Received(o)

\* What waits or is stored is an open call of a report.
KnownOpens == \A o : Waits(o) \/ Stored(o) => o \in Opens

LEMMA InListIs ==
    ASSUME NEW T, NEW s \in Seq(T), NEW o
    PROVE  o \in OpensOf(ToSet(s)) <=> InList(s, o)
<1>1. DOMAIN s = 1..Len(s)
  OBVIOUS
<1>2. ToSet(s) = {s[n] : n \in 1..Len(s)}
  BY <1>1 DEF ToSet
<1>3. ASSUME InList(s, o) PROVE o \in OpensOf(ToSet(s))
  <2>1. PICK n \in 1..Len(s) : IsProc(s[n]) /\ o \in ToSet(s[n].calls)
    BY <1>3 DEF InList
  <2>2. s[n] \in {q \in ToSet(s) : IsProc(q)}
    BY <1>2, <2>1
  <2> QED
    BY <2>1, <2>2, Zenon DEF OpensOf
<1>4. ASSUME o \in OpensOf(ToSet(s)) PROVE InList(s, o)
  <2>1. PICK p \in {q \in ToSet(s) : IsProc(q)} : o \in ToSet(p.calls)
    BY <1>4, Zenon DEF OpensOf
  <2>2. PICK n \in 1..Len(s) : s[n] = p
    BY <1>2, <2>1
  <2> QED
    BY <2>1, <2>2 DEF InList
<1> QED
  BY <1>3, <1>4

LEMMA InIndexIs == \A o : o \in OpensOf(Indexed) <=> InIndex(index, o)
  BY Zenon DEF OpensOf, Indexed, InIndex

LEMMA ReceivedLemma == DaemonInv => ReceivedIs
<1> SUFFICES ASSUME DaemonInv, NEW o PROVE o \in Present <=> Received(o)
  BY DEF ReceivedIs
<1>1. o \in OpensOf(Indexed) <=> InIndex(index, o)
  BY InIndexIs
<1>2. /\ o \in OpensOf(ToSet(dispatchQueue)) <=> InList(dispatchQueue, o)
      /\ o \in OpensOf(ToSet(archived)) <=> InList(archived, o)
  BY InListIs DEF DaemonInv, StoreInv
<1>3. o \in Present <=>
         \/ o \in ToSet(chunk["open"]) \/ o \in ToSet(queue["open"]) \/ o \in InHand("open")
         \/ o \in refused \/ o \in OpensOf(Indexed) \/ o \in OpensOf(ToSet(dispatchQueue))
         \/ o \in OpensOf(ToSet(archived))
  BY DEF Present
<1> QED
  BY <1>1, <1>2, <1>3 DEF Received, Waits, Stored

LEMMA ListedOpens ==
    ASSUME NEW s \in Seq(Held), NEW o, InList(s, o)
    PROVE  o \in Opens
<1>1. PICK n \in 1..Len(s) : IsProc(s[n]) /\ o \in ToSet(s[n].calls)
  BY DEF InList
<1>2. s[n] \in Procs
  BY <1>1 DEF IsProc, Held
<1>3. s[n].calls \in Seq(Opens)
  BY <1>2 DEF Procs, ProcsOf, Opens
<1> QED
  BY <1>1, <1>3 DEF ToSet

LEMMA KnownLemma == DaemonInv => KnownOpens
<1> SUFFICES ASSUME DaemonInv, NEW o, Waits(o) \/ Stored(o) PROVE o \in Opens
  BY DEF KnownOpens
<1>1. Waits(o) => o \in Opens
  <2>1. queue["open"] \in Seq(Opens) /\ InHand("open") \subseteq Opens
    BY DEF DaemonInv, SocketsInv, SocketOK, HandInv, InHand, Kinds, Opens
  <2>2. ToSet(queue["open"]) \subseteq Opens
    BY <2>1 DEF ToSet
  <2> QED
    BY <2>1, <2>2 DEF Waits
<1>2. InIndex(index, o) => o \in Opens
  BY CallInWord DEF InIndex, DaemonInv, StoreInv
<1>3. dispatchQueue \in Seq(Held) /\ archived \in Seq(Held)
  <2>1. archived \in Seq(Procs) /\ Procs \subseteq Held
    BY DEF DaemonInv, StoreInv, Held
  <2> QED
    BY <2>1 DEF DaemonInv, StoreInv
<1> QED
  BY <1>1, <1>2, <1>3, ListedOpens DEF Stored

\* A socket thread passes on what it has received, or destroys it.
LEMMA ParserPasses ==
    ASSUME DaemonInv, NEW k \in Kinds, ParserThread(k), NEW o, Received(o)
    PROVE  Received(o)'
<1>1. UNCHANGED <<comp, temp, index, dispatchQueue, archived>>
  BY DEF ParserThread, mainVars
<1>2. Stored(o) => Stored(o)'
  BY <1>1 DEF Stored
<1>3. o \in InHand("open") => o \in InHand("open")'
  BY <1>1 DEF InHand
<1>4. /\ Takes(k) \/ Drops(k) \/ Enqueues(k) \/ GivesUp(k) \/ LeavesAlone(k)
      /\ SocketOK(k) /\ (ppc[k] \notin {"enqueue", "retry"} => chunk[k] = <<>>)
  BY ParserMoves DEF DaemonInv, SocketsInv, EndInv, ThreadsOK
<1>5. refused \subseteq refused'
  BY <1>4 DEF Takes, Drops, Enqueues, GivesUp, LeavesAlone
<1>6. o \in ToSet(queue["open"]) => o \in ToSet(queue'["open"])
  <2>1. CASE k = "open" /\ Enqueues(k)
    <3>1. /\ queue[k] \in Seq(Opens) /\ Head(chunk[k]) \in Opens
          /\ queue'[k] = Append(queue[k], Head(chunk[k]))
      BY <1>4, <2>1 DEF SocketOK, Enqueues, Opens
    <3>2. ToSet(queue'[k]) = ToSet(queue[k]) \cup {Head(chunk[k])}
      BY <3>1, AppendSet
    <3> QED
      BY <2>1, <3>2
  <2>2. CASE k # "open"
    <3>1. queue'["open"] = queue["open"]
      BY <2>2, ParserOwn DEF DaemonInv, Kinds
    <3> QED
      BY <3>1
  <2>3. CASE UNCHANGED queue
    BY <2>3
  <2> QED
    BY <1>4, <2>1, <2>2, <2>3 DEF Takes, Drops, GivesUp, LeavesAlone
<1>7. o \in ToSet(chunk["open"]) =>
         o \in ToSet(chunk'["open"]) \cup ToSet(queue'["open"]) \cup refused'
  <2>1. CASE k # "open"
    <3>1. chunk'["open"] = chunk["open"]
      BY <2>1, ParserOwn DEF DaemonInv, Kinds
    <3> QED
      BY <3>1
  <2>2. CASE k = "open"
    <3>1. chunk[k] \in Seq(Opens) /\ queue[k] \in Seq(Opens)
      BY <1>4, <2>2 DEF SocketOK, Opens
    <3>2. chunk[k] # <<>> => /\ ToSet(chunk[k]) = {Head(chunk[k])} \cup ToSet(Tail(chunk[k]))
                             /\ Head(chunk[k]) \in Opens
      BY <3>1, HeadAndTail
    <3>3. CASE Takes(k)
      <4>1. chunk[k] = <<>>
        BY <1>4, <3>3 DEF Takes
      <4> QED
        BY <2>2, <4>1 DEF ToSet
    <3>4. CASE Drops(k)
      BY <2>2, <3>2, <3>4 DEF Drops
    <3>5. CASE Enqueues(k)
      <4>1. ToSet(queue'[k]) = ToSet(queue[k]) \cup {Head(chunk[k])}
        BY <3>1, <3>2, <3>5, AppendSet DEF Enqueues
      <4> QED
        BY <2>2, <3>2, <3>5, <4>1 DEF Enqueues
    <3>6. CASE GivesUp(k)
      <4>1. ToSet(chunk[k]) = {chunk[k][i] : i \in 1..Len(chunk[k])}
        BY <3>1 DEF ToSet
      <4> QED
        BY <2>2, <3>6, <4>1 DEF GivesUp
    <3>7. CASE LeavesAlone(k)
      BY <3>7 DEF LeavesAlone
    <3> QED
      BY <1>4, <3>3, <3>4, <3>5, <3>6, <3>7
  <2> QED
    BY <2>1, <2>2
<1> QED
  BY <1>2, <1>3, <1>5, <1>6, <1>7 DEF Received, Waits

\* A step of the main thread books what it takes, or loses it in a known way.
LEMMA MainLoses ==
    ASSUME DaemonInv, MainThread, mpc' # "crashed", NEW o, Received(o)
    PROVE  Received(o)' \/ o \in lost'
<1>1. UNCHANGED <<chunk, refused>>
  BY DEF MainThread, parserVars
<1>2. PICK new : Passes(new)
  BY MainPasses DEF DaemonInv
<1>3. Waits(o) \/ Stored(o) => o \in Opens
  BY KnownLemma DEF KnownOpens
<1>4. Waits(o) \/ Stored(o) => Waits(o)' \/ Stored(o)' \/ o \in lost'
  BY <1>2, <1>3 DEF Passes, Keeps
<1> QED
  BY <1>1, <1>4 DEF Received

\* Where every open call ever received is
CallsInv == mpc # "crashed" => \A o \in received : Received(o) \/ o \in lost

LEMMA CallsInvNext == DaemonInv /\ CallsInv /\ [Next]_vars => CallsInv'
<1> SUFFICES ASSUME DaemonInv, CallsInv, [Next]_vars, mpc' # "crashed", NEW o \in received'
             PROVE  Received(o)' \/ o \in lost'
  BY DEF CallsInv
<1>1. CASE MainThread
  <2>1. mpc # "crashed"
    BY <1>1 DEF MainThread, MainStep, MainTop, MainMerge, MainPeek, MainFetch, MainDead,
                MainDispatch, MainJoin
  <2>2. o \in received
    BY <1>1 DEF MainThread, parserVars
  <2>3. lost \subseteq lost'
    BY <1>1, MainPasses DEF DaemonInv, Passes, Keeps
  <2> QED
    BY <1>1, <2>1, <2>2, <2>3, MainLoses DEF CallsInv
<1>2. ASSUME NEW k \in Kinds, ParserThread(k) PROVE Received(o)' \/ o \in lost'
  <2>1. /\ mpc # "crashed" /\ lost' = lost
        /\ o \in received \/ o \in ToSet(chunk'["open"])
    BY <1>2 DEF ParserThread, mainVars
  <2>2. o \in ToSet(chunk'["open"]) => Received(o)'
    BY DEF Received
  <2>3. Received(o) => Received(o)'
    BY <1>2, ParserPasses
  <2> QED
    BY <2>1, <2>2, <2>3 DEF CallsInv
<1>3. CASE ShutdownThread \/ ControlThread \/ (\E k \in Kinds : TracerCloses(k)) \/ Asked
              \/ UNCHANGED vars
  <2>1. UNCHANGED <<parserVars, mainVars, queue>>
    BY <1>3, OthersLeave
  <2>2. UNCHANGED <<chunk, refused, received, queue, mpc, comp, temp, index, dispatchQueue,
                    archived, lost>>
    BY <2>1 DEF parserVars, mainVars
  <2> QED
    BY <2>2 DEF CallsInv, Received, Waits, InHand, Stored
<1> QED
  BY <1>1, <1>2, <1>3 DEF Next

LEMMA CallsInvariant == Spec => []CallsInv
<1>1. Init => CallsInv
  BY DEF Init, CallsInv
<1> QED
  BY <1>1, CallsInvNext, DaemonInvariant, PTL DEF Spec

\* No step of any thread makes an open call vanish that the daemon received, be
\* it ever so long ago: it passes from the socket thread to its queue, to the
\* main thread's hand, to a process in the index, to the dispatch queue and to
\* the archive, or is destroyed on purpose, or the main thread lost it to a pid
\* out of range, to a dispatch queue without room for its process, or to an
\* index that grew over the word behind its array.
THEOREM CallsPassOn == Spec => []NoCallVanishes
<1>1. DaemonInv /\ CallsInv => NoCallVanishes
  BY ReceivedLemma DEF CallsInv, ReceivedIs, NoCallVanishes
<1> QED
  BY <1>1, DaemonInvariant, CallsInvariant, PTL

-----------------------------------------------------------------------------
(* What is lost at the end *)

\* The main thread gets to the joins by the flush and the last batch.
GoneInv ==
    mpc \in {"join", "exited", "restarted"} =>
        /\ dead
        /\ dispatchQueue = <<>>
        /\ \A i \in 0..(index.size - 1) : index.procs[i] = NULL

LEMMA LastDispatch ==
    ASSUME StoreInv, MainDispatch, mpc' = "join"
    PROVE  GoneInv'
<1> DEFINE queued == Enqueue(dispatchQueue, Flush(index).out)
           batch == Batch(queued)
<1>1. /\ dead /\ dead' = dead
      /\ index' = Flush(index).ix
      /\ dispatchQueue' = SubSeq(queued, Len(batch) + 1, Len(queued))
      /\ ~(Len(batch) < Len(queued))
  BY DEF MainDispatch
<1>2. /\ Conserves(index, Flush(index).ix, Flush(index).out, {}, {}, Nat, Opens)
      /\ \A i \in 0..(Flush(index).ix.size - 1) : Flush(index).ix.procs[i] = NULL
  BY FlushConserves DEF StoreInv
<1>3. queued \in Seq(Held)
  BY <1>2, HeldIs, EnqueueFacts DEF StoreInv, Conserves
<1>4. Len(batch) <= Len(queued) /\ batch \in Seq(Held \ {Wild})
  BY <1>3, BatchFacts
<1> HIDE DEF queued, batch
<1>5. Len(batch) = Len(queued) /\ Len(queued) \in Nat
  BY <1>1, <1>3, <1>4
<1>6. SubSeq(queued, Len(queued) + 1, Len(queued)) = <<>>
  BY <1>3, <1>5
<1>7. dispatchQueue' = <<>>
  BY <1>1, <1>5, <1>6
<1> QED
  BY <1>1, <1>2, <1>7 DEF GoneInv

LEMMA GoneNext == DaemonInv /\ GoneInv /\ [Next]_vars => GoneInv'
<1> SUFFICES ASSUME DaemonInv, GoneInv, [Next]_vars PROVE GoneInv'
  OBVIOUS
<1>1. CASE MainThread
  <2>1. CASE MainDispatch
    <3>1. mpc' \in {"crashed", "join", "top"}
      BY <2>1 DEF MainDispatch
    <3> QED
      BY <2>1, <3>1, LastDispatch DEF DaemonInv, GoneInv
  <2>2. CASE MainJoin
    BY <2>2 DEF MainJoin, GoneInv
  <2>3. CASE MainTop \/ MainMerge \/ MainPeek \/ MainFetch \/ MainDead
    <3>1. mpc' \in {"merge", "peek", "crashed", "dead", "fetch", "top", "dispatch"}
      BY <2>3 DEF MainTop, MainMerge, MainPeek, MainFetch, MainDead, Effect
    <3> QED
      BY <3>1 DEF GoneInv
  <2> QED
    BY <1>1, <2>1, <2>2, <2>3 DEF MainThread, MainStep
<1>2. CASE \E k \in Kinds : ParserThread(k)
  BY <1>2 DEF ParserThread, mainVars, GoneInv
<1>3. CASE ShutdownThread \/ ControlThread \/ (\E k \in Kinds : TracerCloses(k)) \/ Asked
              \/ UNCHANGED vars
  BY <1>3, OthersLeave DEF mainVars, GoneInv
<1> QED
  BY <1>1, <1>2, <1>3 DEF Next

\* A daemon that has ended its loop has every open call it ever received in
\* the archive, except those that a socket thread destroyed or gave up, at most
\* the one in the main thread's hand, those of the process in the word behind
\* the index, and those that the main thread lost to a pid out of range, to a
\* dispatch queue without room (of the flush or before) or to a growing index.
THEOREM EndLosesLittle == Spec => []OnlyCallInHandLost
<1>1. Init => GoneInv
  BY DEF Init, GoneInv
<1>2. DaemonInv /\ CallsInv /\ GoneInv => OnlyCallInHandLost
  <2> SUFFICES ASSUME DaemonInv, CallsInv, GoneInv, mpc \in {"join", "exited", "restarted"},
                      NEW o \in received
               PROVE  o \in UNION {OpensOf(ToSet(archived)), refused, InHand("open"),
                                   OpensOf(Behind), lost}
    BY DEF OnlyCallInHandLost
  <2>1. Received(o) \/ o \in lost
    BY DEF CallsInv
  <2>2. dead /\ dispatchQueue = <<>> /\ \A i \in 0..(index.size - 1) : index.procs[i] = NULL
    BY DEF GoneInv
  <2>3. queue["open"] = <<>> /\ chunk["open"] = <<>>
    BY <2>2 DEF DaemonInv, EndInv, ThreadsOK, TestsOK, Quiet, Kinds
  <2>4. o \notin ToSet(queue["open"]) /\ o \notin ToSet(chunk["open"]) /\ ~InList(dispatchQueue, o)
    BY <2>2, <2>3 DEF ToSet, InList
  <2>5. InList(archived, o) => o \in OpensOf(ToSet(archived))
    BY InListIs DEF DaemonInv, StoreInv
  <2>6. ASSUME InIndex(index, o) PROVE o \in OpensOf(Behind)
    <3>1. PICK i \in 0..index.size : IsProc(index.procs[i]) /\ o \in ToSet(index.procs[i].calls)
      BY <2>6 DEF InIndex
    <3>2. index.size \in Nat
      BY DEF DaemonInv, StoreInv, GoodIndex
    <3>3. i \notin 0..(index.size - 1)
      BY <2>2, <3>1 DEF IsProc
    <3>4. i = index.size
      BY <3>2, <3>3
    <3> QED
      BY <3>1, <3>4, Zenon DEF OpensOf, Behind
  <2> QED
    BY <2>1, <2>4, <2>5, <2>6 DEF Received, Waits, Stored
<1> QED
  BY <1>1, <1>2, GoneNext, DaemonInvariant, CallsInvariant, PTL DEF Spec

-----------------------------------------------------------------------------
(* Calls stay in the order of their time stamps *)

Before(A, B) == \A a \in A, b \in B : a.time <= b.time

Sorted(s) == \A i, j \in 1..Len(s) : i < j => s[i].time <= s[j].time

LEMMA SortedTail ==
    ASSUME NEW T, NEW s \in Seq(T), Sorted(s), s # <<>>
    PROVE  Sorted(Tail(s)) /\ Before({Head(s)}, ToSet(Tail(s)))
<1>1. /\ Len(s) \in Nat \ {0} /\ Head(s) = s[1] /\ Len(Tail(s)) = Len(s) - 1
      /\ DOMAIN Tail(s) = 1..(Len(s) - 1)
      /\ \A n \in 1..(Len(s) - 1) : Tail(s)[n] = s[n + 1]
  OBVIOUS
<1>2. ASSUME NEW i \in 1..(Len(s) - 1), NEW j \in 1..(Len(s) - 1), i < j
      PROVE  Tail(s)[i].time <= Tail(s)[j].time
  <2>1. i + 1 \in 1..Len(s) /\ j + 1 \in 1..Len(s) /\ i + 1 < j + 1
    BY <1>1, <1>2
  <2>2. s[i + 1].time <= s[j + 1].time
    BY <2>1 DEF Sorted
  <2> QED
    BY <1>1, <2>2
<1>3. ASSUME NEW j \in 1..(Len(s) - 1) PROVE s[1].time <= Tail(s)[j].time
  <2>1. 1 \in 1..Len(s) /\ j + 1 \in 1..Len(s) /\ 1 < j + 1
    BY <1>1
  <2>2. s[1].time <= s[j + 1].time
    BY <2>1 DEF Sorted
  <2> QED
    BY <1>1, <2>2
<1> QED
  BY <1>1, <1>2, <1>3 DEF Sorted, Before, ToSet

LEMMA SortedAppend ==
    ASSUME NEW T, NEW s \in Seq(T), NEW x \in T, Sorted(s), Before(ToSet(s), {x})
    PROVE  Sorted(Append(s, x))
<1> DEFINE t == Append(s, x)
<1>1. /\ Len(s) \in Nat /\ Len(t) = Len(s) + 1 /\ t[Len(s) + 1] = x /\ DOMAIN s = 1..Len(s)
      /\ \A n \in 1..Len(s) : t[n] = s[n]
  OBVIOUS
<1> HIDE DEF t
<1>2. ASSUME NEW i \in 1..Len(t), NEW j \in 1..Len(t), i < j PROVE t[i].time <= t[j].time
  <2>1. i \in 1..Len(s) /\ (j \in 1..Len(s) \/ j = Len(s) + 1)
    BY <1>1, <1>2
  <2>2. CASE j \in 1..Len(s)
    BY <1>1, <1>2, <2>1, <2>2 DEF Sorted
  <2>3. CASE j = Len(s) + 1
    <3>1. s[i] \in ToSet(s)
      BY <1>1, <2>1 DEF ToSet
    <3> QED
      BY <1>1, <2>1, <2>3, <3>1 DEF Before
  <2> QED
    BY <2>1, <2>2, <2>3
<1> QED
  BY <1>2 DEF Sorted, t

LEMMA RestLen ==
    ASSUME NEW T, NEW s \in Seq(T), NEW m \in Nat, m <= Len(s)
    PROVE  Len(SubSeq(s, m + 1, Len(s))) = Len(s) - m
<1>1. Len(s) \in Nat
  OBVIOUS
<1> QED
  BY <1>1

LEMMA SortedSplit ==
    ASSUME NEW T, NEW s \in Seq(T), Sorted(s), NEW m \in 1..Len(s)
    PROVE  /\ Sorted(SubSeq(s, 1, m)) /\ Sorted(SubSeq(s, m + 1, Len(s)))
           /\ Before(ToSet(SubSeq(s, 1, m)), ToSet(SubSeq(s, m + 1, Len(s))))
           /\ ToSet(SubSeq(s, 1, m)) \subseteq ToSet(s)
           /\ ToSet(SubSeq(s, m + 1, Len(s))) \subseteq ToSet(s)
<1> DEFINE a == SubSeq(s, 1, m)
           b == SubSeq(s, m + 1, Len(s))
           l == Len(s) - m
<1>1. /\ Len(s) \in Nat /\ DOMAIN s = 1..Len(s) /\ m \in Nat /\ l \in Nat /\ Len(s) = m + l
      /\ Len(a) = m /\ DOMAIN a = 1..m /\ \A n \in 1..m : a[n] = s[n]
      /\ Len(b) = l /\ DOMAIN b = 1..l /\ \A n \in 1..l : b[n] = s[m + n]
  <2>1. Len(s) \in Nat /\ DOMAIN s = 1..Len(s) /\ m \in Nat /\ l \in Nat /\ Len(s) = m + l
    OBVIOUS
  <2>2. Len(a) = m /\ \A n \in 1..m : a[n] = s[n]
    <3>1. 1..m \subseteq 1..Len(s)
      BY <2>1
    <3> QED
      BY <2>1, <3>1
  <2>3. Len(b) = l /\ \A n \in 1..l : b[n] = s[m + n]
    <3>1. Len(b) = l
      <4>1. m <= Len(s) /\ m \in Nat
        OBVIOUS
      <4>2. Len(SubSeq(s, m + 1, Len(s))) = Len(s) - m
        BY <4>1, RestLen
      <4> QED
        BY <4>2 DEF b, l
    <3>2. ASSUME NEW n \in 1..l PROVE b[n] = s[m + n]
      <4>1. n \in 1..(Len(s) - (m + 1) + 1) /\ (m + 1) + n - 1 = m + n
        BY <2>1
      <4>2. b[n] = s[(m + 1) + n - 1]
        BY <2>1, <4>1
      <4> QED
        BY <4>1, <4>2
    <3> QED
      BY <3>1, <3>2
  <2>4. a \in Seq(T) /\ b \in Seq(T)
    BY <2>1
  <2> HIDE DEF a, b, l
  <2>5. DOMAIN a = 1..Len(a) /\ DOMAIN b = 1..Len(b)
    BY <2>4
  <2> QED
    BY <2>1, <2>2, <2>3, <2>5
<1> HIDE DEF a, b, l
<1>2. /\ \A n \in 1..m : n \in 1..Len(s)
      /\ \A n \in 1..l : m + n \in 1..Len(s)
      /\ \A i \in 1..m, j \in 1..l : i < m + j
      /\ \A i, j \in 1..l : i < j => m + i < m + j
  BY <1>1
<1>3. Sorted(a)
  BY <1>1, <1>2 DEF Sorted
<1>4. Sorted(b)
  <2> SUFFICES ASSUME NEW i \in 1..l, NEW j \in 1..l, i < j PROVE b[i].time <= b[j].time
    BY <1>1 DEF Sorted
  <2>1. s[m + i].time <= s[m + j].time
    BY <1>2 DEF Sorted
  <2> QED
    BY <1>1, <2>1
<1>5. Before(ToSet(a), ToSet(b))
  <2> SUFFICES ASSUME NEW i \in 1..m, NEW j \in 1..l PROVE a[i].time <= b[j].time
    BY <1>1 DEF Before, ToSet
  <2>1. s[i].time <= s[m + j].time
    BY <1>2 DEF Sorted
  <2> QED
    BY <1>1, <2>1
<1>6. ToSet(a) \subseteq ToSet(s) /\ ToSet(b) \subseteq ToSet(s)
  BY <1>1, <1>2 DEF ToSet
<1> QED
  BY <1>3, <1>4, <1>5, <1>6 DEF a, b

\* Four stations that a call of a kind passes: h in hand, q queued, c received
\* and s in the socket.  The calls in each, and from one to the next, are in order.
Ordered(h, q, c, s) ==
    /\ Sorted(q) /\ Sorted(c) /\ Sorted(s)
    /\ Before(ToSet(q), ToSet(c)) /\ Before(ToSet(q), ToSet(s)) /\ Before(ToSet(c), ToSet(s))
    /\ Before(h, ToSet(q)) /\ Before(h, ToSet(c)) /\ Before(h, ToSet(s))

OrderInv == \A k \in Kinds : Ordered(InHand(k), queue[k], chunk[k], stream[k])

LEMMA OrderInit == Init => OrderInv
<1> SUFFICES ASSUME Init, NEW k \in Kinds PROVE Ordered(InHand(k), queue[k], chunk[k], stream[k])
  BY DEF OrderInv
<1>1. PICK w \in Workloads : ParserInit(w.down) /\ stream = [j \in Kinds |-> w[j]]
  BY Zenon DEF Init
<1>2. queue[k] = <<>> /\ chunk[k] = <<>> /\ InHand(k) = {} /\ stream[k] = w[k]
  BY <1>1 DEF Init, ParserInit, InHand
<1>3. Sorted(w[k])
  BY TimeAssumption DEF Sorted
<1>4. Sorted(<<>>) /\ ToSet(<<>>) = {}
  BY DEF Sorted, ToSet
<1> QED
  BY <1>2, <1>3, <1>4 DEF Ordered, Before

LEMMA ParserOrder ==
    ASSUME DaemonInv, OrderInv, NEW k \in Kinds, ParserThread(k)
    PROVE  OrderInv'
<1>1. UNCHANGED <<comp, temp>>
  BY DEF ParserThread, mainVars
<1>2. \A j \in Kinds : InHand(j)' = InHand(j)
  BY <1>1 DEF InHand
<1>3. ASSUME NEW j \in Kinds \ {k} PROVE Ordered(InHand(j), queue[j], chunk[j], stream[j])'
  BY <1>2, <1>3, ParserOwn DEF DaemonInv, OrderInv
<1> DEFINE h == InHand(k)
           q == queue[k]
           c == chunk[k]
           s == stream[k]
           q2 == queue'[k]
           c2 == chunk'[k]
           s2 == stream'[k]
           R == Reports(k)
<1>4. /\ q \in Seq(R) /\ c \in Seq(R) /\ s \in Seq(R)
      /\ ppc[k] = "recv" => c = <<>>
      /\ Ordered(h, q, c, s)
  BY DEF DaemonInv, SocketsInv, SocketOK, EndInv, ThreadsOK, OrderInv
<1>5. \/ /\ c = <<>> /\ q2 = q
         /\ \E n \in 1..Len(s) : c2 = SubSeq(s, 1, n) /\ s2 = SubSeq(s, n + 1, Len(s))
      \/ s2 = s /\ q2 = q /\ c # <<>> /\ c2 = Tail(c)
      \/ s2 = s /\ c # <<>> /\ c2 = Tail(c) /\ q2 = Append(q, Head(c))
      \/ s2 = s /\ q2 = q /\ c2 = <<>>
      \/ s2 = s /\ q2 = q /\ c2 = c
  BY <1>4, ParserMoves DEF DaemonInv, Takes, Drops, Enqueues, GivesUp, LeavesAlone
<1> HIDE DEF h, q, c, s, q2, c2, s2, R
<1>6. Sorted(<<>>) /\ ToSet(<<>>) = {}
  BY DEF Sorted, ToSet
<1>7. Ordered(h, q2, c2, s2)
  <2>1. CASE /\ c = <<>> /\ q2 = q
             /\ \E n \in 1..Len(s) : c2 = SubSeq(s, 1, n) /\ s2 = SubSeq(s, n + 1, Len(s))
    <3>1. /\ Sorted(c2) /\ Sorted(s2) /\ Before(ToSet(c2), ToSet(s2))
          /\ ToSet(c2) \subseteq ToSet(s) /\ ToSet(s2) \subseteq ToSet(s)
      BY <1>4, <2>1, SortedSplit DEF Ordered
    <3> QED
      BY <1>4, <2>1, <3>1 DEF Ordered, Before
  <2>2. CASE c # <<>> /\ c2 = Tail(c)
    <3>1. Sorted(c2) /\ Before({Head(c)}, ToSet(c2)) /\ ToSet(c) = {Head(c)} \cup ToSet(c2) /\ Head(c) \in R
      BY <1>4, <2>2, SortedTail, HeadAndTail DEF Ordered
    <3>2. CASE s2 = s /\ q2 = q
      BY <1>4, <3>1, <3>2 DEF Ordered, Before
    <3>3. CASE s2 = s /\ q2 = Append(q, Head(c))
      <4>1. Before(ToSet(q), {Head(c)})
        BY <1>4, <3>1 DEF Ordered, Before
      <4>2. Sorted(q2) /\ ToSet(q2) = ToSet(q) \cup {Head(c)}
        BY <1>4, <3>1, <3>3, <4>1, SortedAppend, AppendSet DEF Ordered
      <4> QED
        BY <1>4, <3>1, <3>3, <4>2 DEF Ordered, Before
    <3> QED
      BY <1>4, <1>5, <2>1, <2>2, <3>2, <3>3
  <2>3. CASE s2 = s /\ q2 = q /\ c2 = <<>>
    BY <1>4, <1>6, <2>3 DEF Ordered, Before
  <2>4. CASE s2 = s /\ q2 = q /\ c2 = c
    BY <1>4, <2>4
  <2> QED
    BY <1>5, <2>1, <2>2, <2>3, <2>4
<1>8. Ordered(InHand(k), queue[k], chunk[k], stream[k])'
  <2>1. InHand(k)' = h /\ queue'[k] = q2 /\ chunk'[k] = c2 /\ stream'[k] = s2
    BY <1>2 DEF h, q2, c2, s2
  <2> QED
    BY <1>7, <2>1
<1> QED
  BY <1>3, <1>8 DEF OrderInv

\* A call that comes into the main thread's hand is the first of its queue.
HandsOver(k) ==
    \/ queue'[k] = queue[k] /\ InHand(k)' \subseteq InHand(k)
    \/ Gives(k) /\ InHand(k)' \subseteq {Head(queue[k])}

LEMMA MainHandsOver ==
    ASSUME DaemonInv, MainThread, NEW k \in Kinds
    PROVE  HandsOver(k)
<1>1. PerKind(queue) /\ "exec" \in Kinds /\ "open" \in Kinds
  BY DEF DaemonInv, SocketsInv, Kinds
<1>2. CASE UNCHANGED <<queue, comp, temp>>
  BY <1>2 DEF HandsOver, InHand
<1>3. CASE MainMerge
  <2>1. PICK w \in Slack : MergesOne(w) \/ MergesBoth(w)
    BY <1>3, MergeCases
  <2>2. comp /\ PerKind(temp) /\ Earlier \in Kinds
    BY <1>3 DEF MainMerge, DaemonInv, HandInv, Earlier, Kinds
  <2>3. CASE MergesOne(w) /\ k = Earlier
    BY <1>1, <2>2, <2>3 DEF MergesOne, HandsOver, Gives, InHand, PerKind
  <2>4. CASE MergesOne(w) /\ k # Earlier
    BY <1>1, <2>2, <2>4 DEF MergesOne, HandsOver, InHand, PerKind
  <2>5. CASE MergesBoth(w)
    BY <2>5 DEF MergesBoth, HandsOver, InHand
  <2> QED
    BY <2>1, <2>3, <2>4, <2>5
<1>4. CASE MainFetch
  <2>1. PICK w \in Slack : FetchesBoth \/ FetchesOpen(w) \/ FetchesExec(w) \/ FetchesNothing
    BY <1>4, FetchCases
  <2>2. comp = FALSE /\ (ready => queue["exec"] # <<>>)
    BY <1>4, FetchCases DEF DaemonInv, HandInv
  <2>3. CASE FetchesBoth
    BY <2>2, <2>3 DEF FetchesBoth, HandsOver, Gives, InHand, Kinds
  <2>4. CASE FetchesOpen(w) \/ FetchesExec(w)
    <3>1. InHand(k)' = {}
      BY <2>2, <2>4 DEF FetchesOpen, FetchesExec, InHand
    <3>2. queue'[k] = queue[k] \/ Gives(k)
      BY <1>1, <2>2, <2>4 DEF FetchesOpen, FetchesExec, Gives, PerKind
    <3> QED
      BY <3>1, <3>2 DEF HandsOver
  <2>5. CASE FetchesNothing
    BY <2>5 DEF FetchesNothing, HandsOver, InHand
  <2> QED
    BY <2>1, <2>3, <2>4, <2>5
<1> QED
  BY <1>2, <1>3, <1>4 DEF MainThread, MainStep, MainTop, MainPeek, MainDead, MainDispatch, MainJoin,
                          sharedVars

LEMMA MainOrder ==
    ASSUME DaemonInv, OrderInv, MainThread
    PROVE  OrderInv'
<1> SUFFICES ASSUME NEW k \in Kinds
             PROVE  Ordered(InHand(k), queue[k], chunk[k], stream[k])'
  BY DEF OrderInv
<1>1. UNCHANGED <<chunk, stream>>
  BY DEF MainThread, parserVars, MainStep, MainTop, MainMerge, MainPeek, MainFetch, MainDead,
         MainDispatch, MainJoin, sharedVars
<1>2. HandsOver(k)
  BY MainHandsOver
<1>3. queue[k] \in Seq(Reports(k)) /\ Ordered(InHand(k), queue[k], chunk[k], stream[k])
  BY DEF DaemonInv, SocketsInv, SocketOK, OrderInv
<1>4. CASE queue'[k] = queue[k] /\ InHand(k)' \subseteq InHand(k)
  BY <1>1, <1>3, <1>4 DEF Ordered, Before
<1>5. CASE Gives(k) /\ InHand(k)' \subseteq {Head(queue[k])}
  <2>1. queue[k] # <<>> /\ queue'[k] = Tail(queue[k])
    BY <1>5 DEF Gives
  <2>2. /\ Sorted(queue'[k]) /\ Before({Head(queue[k])}, ToSet(queue'[k]))
        /\ ToSet(queue[k]) = {Head(queue[k])} \cup ToSet(queue'[k])
    BY <1>3, <2>1, SortedTail, HeadAndTail DEF Ordered
  <2> QED
    BY <1>1, <1>3, <1>5, <2>2 DEF Ordered, Before
<1> QED
  BY <1>2, <1>4, <1>5 DEF HandsOver

LEMMA OrderNext == DaemonInv /\ OrderInv /\ [Next]_vars => OrderInv'
<1> SUFFICES ASSUME DaemonInv, OrderInv, [Next]_vars PROVE OrderInv'
  OBVIOUS
<1>1. CASE ShutdownThread \/ ControlThread \/ (\E k \in Kinds : TracerCloses(k)) \/ Asked
              \/ UNCHANGED vars
  <2>1. UNCHANGED <<parserVars, mainVars, stream, queue>>
    BY <1>1, OthersLeave
  <2>2. UNCHANGED <<comp, temp, chunk, stream, queue>>
    BY <2>1 DEF parserVars, mainVars
  <2> QED
    BY <2>2 DEF OrderInv, Ordered, InHand
<1> QED
  BY <1>1, ParserOrder, MainOrder DEF Next

-----------------------------------------------------------------------------
(* The merge *)

\* The three things that MergesByTime says of a step
OpenNotEarly ==
    \A o \in OpensOf(Indexed)' \ OpensOf(Indexed) :
        \A e \in ToSet(queue'["exec"]) \cup InHand("exec")' : o.time < e.time

ExecNotEarly ==
    \A e \in InHand("exec") \ InHand("exec")' :
        \A o \in ToSet(queue'["open"]) \cup InHand("open")' : e.time <= o.time

BookedByTime ==
    ~comp' /\ temp["exec"].pid = temp["open"].pid /\ InRange(temp["open"].pid) =>
        ((\E p \in Indexed' : /\ IsProc(p) /\ p.exec = temp["exec"].n
                              /\ temp["open"] \in ToSet(p.calls))
         <=> temp["exec"].time <= temp["open"].time)

\* The open calls that get into the index are the ones applied.
LEMMA NewInIndex ==
    ASSUME NEW r, NEW new, Carries(r, new), Effect(r),
           NEW o \in OpensOf(Indexed)' \ OpensOf(Indexed)
    PROVE  o \in new
<1>1. index' = r.ix
  BY DEF Effect
<1>2. o \in OpensOf(Indexed)' => InIndex(index', o)
  BY Zenon DEF OpensOf, Indexed, InIndex
<1>3. ~InIndex(index, o)
  BY InIndexIs
<1>4. InIndex(r.ix, o) /\ GoodIndex(r.ix, Nat, Opens)
  BY <1>1, <1>2 DEF Carries, Conserves
<1>5. o \in Opens
  BY <1>4, CallInWord DEF InIndex
<1> QED
  BY <1>3, <1>4, <1>5 DEF Carries, Conserves

\* What MainMerge finds: the calls in hand, and the rest of their queues
LEMMA MergeFacts ==
    ASSUME DaemonInv, OrderInv, mpc = "merge"
    PROVE  /\ comp /\ PerKind(queue) /\ PerKind(temp)
           /\ InHand("exec") = {temp["exec"]} /\ InHand("open") = {temp["open"]}
           /\ temp["exec"] \in Reports("exec") /\ temp["open"] \in Opens
           /\ temp["exec"].time \in Nat /\ temp["open"].time \in Nat
           /\ queue["open"] \in Seq(Opens) /\ queue["exec"] \in Seq(Reports("exec"))
           /\ \A e \in ToSet(queue["exec"]) : e.time \in Nat /\ temp["exec"].time <= e.time
           /\ \A o \in ToSet(queue["open"]) : o.time \in Nat /\ temp["open"].time <= o.time
<1>1. /\ comp /\ PerKind(queue) /\ PerKind(temp)
      /\ temp["exec"] \in Reports("exec") /\ temp["open"] \in Opens
      /\ queue["open"] \in Seq(Opens) /\ queue["exec"] \in Seq(Reports("exec"))
  BY DEF DaemonInv, SocketsInv, SocketOK, HandInv, Kinds, Opens
<1>2. InHand("exec") = {temp["exec"]} /\ InHand("open") = {temp["open"]}
  BY <1>1 DEF InHand
<1>3. /\ Before(InHand("exec"), ToSet(queue["exec"]))
      /\ Before(InHand("open"), ToSet(queue["open"]))
  BY DEF OrderInv, Ordered, Kinds
<1>4. ToSet(queue["open"]) \subseteq Opens /\ ToSet(queue["exec"]) \subseteq Reports("exec")
  BY <1>1 DEF ToSet
<1>5. /\ \A e \in Reports("exec") : e.time \in Nat
      /\ \A o \in Opens : o.time \in Nat
  BY CallsAssumption DEF Opens
<1> QED
  BY <1>1, <1>2, <1>3, <1>4, <1>5 DEF Before

LEMMA OneInTime ==
    ASSUME DaemonInv, OrderInv, mpc = "merge", NEW w \in Slack, MergesOne(w)
    PROVE  OpenNotEarly /\ ExecNotEarly /\ BookedByTime
<1> DEFINE e1 == temp["exec"]
           o1 == temp["open"]
<1>1. /\ comp /\ PerKind(queue) /\ PerKind(temp)
      /\ InHand("exec") = {e1} /\ e1.time \in Nat /\ o1.time \in Nat
      /\ \A e \in ToSet(queue["exec"]) : e.time \in Nat /\ e1.time <= e.time
      /\ \A o \in ToSet(queue["open"]) : o.time \in Nat /\ o1.time <= o.time
  BY MergeFacts
<1>2. comp' /\ BookedByTime
  BY <1>1 DEF MergesOne, BookedByTime
<1>3. ExecFirst <=> e1.time <= o1.time
  BY DEF ExecFirst
<1>4. InHand("exec")' = {temp'["exec"]} /\ InHand("open")' = {temp'["open"]}
  BY <1>2 DEF InHand
<1>5. CASE ExecFirst
  <2>1. OpenNotEarly
    <3>1. Carries(First(w), {}) /\ Effect(First(w))
      BY <1>5, MergeCarries DEF DaemonInv, MergesOne
    <3> QED
      BY <3>1, NewInIndex DEF OpenNotEarly
  <2>2. queue'["open"] = queue["open"] /\ temp'["open"] = o1
    BY <1>1, <1>5 DEF MergesOne, Earlier, PerKind, Kinds
  <2> HIDE DEF e1, o1
  <2>3. \A o \in ToSet(queue["open"]) : e1.time <= o.time
    BY <1>1, <1>3, <1>5
  <2>4. ExecNotEarly
    BY <1>1, <1>3, <1>4, <1>5, <2>2, <2>3 DEF ExecNotEarly
  <2> QED
    BY <1>2, <2>1, <2>4
<1>6. CASE ~ExecFirst
  <2>1. queue'["exec"] = queue["exec"] /\ temp'["exec"] = e1
    BY <1>1, <1>6 DEF MergesOne, Earlier, PerKind, Kinds
  <2>2. Carries(First(w), {o1}) /\ Effect(First(w))
    BY <1>6, MergeCarries DEF DaemonInv, MergesOne
  <2> HIDE DEF e1, o1
  <2>3. o1.time < e1.time /\ \A e \in ToSet(queue["exec"]) : o1.time < e.time
    BY <1>1, <1>3, <1>6
  <2>4. OpenNotEarly
    BY <1>4, <2>1, <2>2, <2>3, NewInIndex DEF OpenNotEarly
  <2>5. ExecNotEarly
    BY <1>1, <1>4, <2>1 DEF ExecNotEarly
  <2> QED
    BY <1>2, <2>4, <2>5
<1> QED
  BY <1>5, <1>6

\* With both calls in hand applied, the later of the two decides: an open call
\* finds the new process, an exec call drives out the process that has the call.
LEMMA BothBooked ==
    ASSUME DaemonInv, mpc = "merge", NEW w \in Slack, MergesBoth(w), mpc' # "crashed",
           temp["exec"].pid = temp["open"].pid, InRange(temp["open"].pid)
    PROVE  (\E p \in Indexed' : /\ IsProc(p) /\ p.exec = temp["exec"].n
                                /\ temp["open"] \in ToSet(p.calls))
              <=> ExecFirst
<1> DEFINE e1 == temp["exec"]
           o1 == temp["open"]
           pid == o1.pid
           new == NewProc(e1.n, pid, e1.ppid)
<1>1. /\ e1 \in Reports("exec") /\ o1 \in Opens /\ e1.n \in Nat /\ e1.ppid \in Nat
      /\ e1.pid = pid /\ pid \in Nat /\ InRange(pid) /\ pid \in 0..MaxPid /\ o1.pid = pid
  BY CallsAssumption DEF DaemonInv, HandInv, Kinds, Opens, InRange
<1>2. index' = Second(w).ix /\ Second(w).ret # "crash"
  BY DEF MergesBoth, Effect
<1>3. GoodIndex(index, Nat, Opens) /\ GoodIndex(First(w).ix, Nat, Opens) /\ GoodIndex(index', Nat, Opens)
  BY <1>2, MergeCarries DEF DaemonInv, StoreInv, Carries, Conserves
<1>4. Indexed' = {index'.procs[i] : i \in 0..index'.size}
  BY DEF Indexed
<1>5. CASE ExecFirst
  <2> DEFINE a == AddReplacing(index, new, w)
             b == OpencallAdd(First(w).ix, pid, o1, w)
  <2>1. First(w).ix = a.ix /\ First(w).ret = a.ret
    BY <1>1, <1>5 DEF First, ApplyExec, Then, Unapplied
  <2>2. Second(w).ix = b.ix /\ First(w).ret # "crash"
    BY <1>2, <1>5 DEF Second, ApplyOpen, Then
  <2> HIDE DEF e1, o1, pid
  <2>3. Entered(First(w).ix.procs[pid + 1], e1.n) /\ pid + 1 \in 0..First(w).ix.size
    <3>1. a.ret # "crash"
      BY <2>1, <2>2
    <3>2. Entered(a.ix.procs[pid + 1], e1.n) /\ pid + 1 \in 0..a.ix.size
      BY <1>1, <1>3, <3>1, AddReplacingEnters
    <3> HIDE DEF a
    <3> QED
      BY <2>1, <3>2
  <2>4. /\ pid + 1 \in 0..b.ix.size /\ IsProc(b.ix.procs[pid + 1])
        /\ b.ix.procs[pid + 1].exec = First(w).ix.procs[pid + 1].exec
        /\ o1 \in ToSet(b.ix.procs[pid + 1].calls)
    <3>1. IsProc(First(w).ix.procs[pid + 1])
      BY <2>3 DEF Entered
    <3> QED
      BY <1>1, <1>3, <2>3, <3>1, OpencallTakes
  <2> HIDE DEF a, b
  <2>5. /\ index'.procs[pid + 1] \in Indexed' /\ IsProc(index'.procs[pid + 1])
        /\ index'.procs[pid + 1].exec = e1.n /\ o1 \in ToSet(index'.procs[pid + 1].calls)
    BY <1>2, <1>4, <2>2, <2>3, <2>4 DEF Entered
  <2> QED
    BY <1>5, <2>5 DEF e1, o1
<1>6. CASE ~ExecFirst
  <2> DEFINE a == AddReplacing(First(w).ix, new, w)
  <2>1. Second(w).ix = a.ix /\ a.ret # "crash"
    BY <1>1, <1>2, <1>6 DEF Second, ApplyExec, Then
  <2> HIDE DEF e1, o1, pid
  <2>2. Entered(a.ix.procs[pid + 1], e1.n)
    BY <1>1, <1>3, <2>1, AddReplacingEnters
  <2> HIDE DEF a
  <2>3. index'.procs[pid + 1].calls = <<>>
    BY <1>2, <2>1, <2>2 DEF Entered
  <2>4. ASSUME NEW p \in Indexed', IsProc(p), o1 \in ToSet(p.calls) PROVE FALSE
    <3>1. PICK i \in 0..index'.size : index'.procs[i] = p
      BY <1>4, <2>4
    <3>2. o1.pid + 1 = i
      BY <1>3, <2>4, <3>1, CallInWord
    <3>3. p.calls = <<>>
      BY <1>1, <2>3, <3>1, <3>2
    <3> QED
      BY <2>4, <3>3 DEF ToSet
  <2> QED
    BY <1>6, <2>4 DEF o1
<1> QED
  BY <1>5, <1>6

LEMMA BothInTime ==
    ASSUME DaemonInv, OrderInv, mpc = "merge", NEW w \in Slack, MergesBoth(w), mpc' # "crashed"
    PROVE  OpenNotEarly /\ ExecNotEarly /\ BookedByTime
<1> DEFINE e1 == temp["exec"]
           o1 == temp["open"]
<1>1. /\ InHand("exec") = {e1} /\ e1.time \in Nat /\ o1.time \in Nat
      /\ \A e \in ToSet(queue["exec"]) : e.time \in Nat /\ e1.time <= e.time
      /\ \A o \in ToSet(queue["open"]) : o.time \in Nat /\ o1.time <= o.time
  BY MergeFacts
<1>2. queue' = queue /\ comp' = FALSE
  BY DEF MergesBoth
<1>3. ExecFirst <=> e1.time <= o1.time
  BY DEF ExecFirst
<1>4. InHand("exec")' = {} /\ InHand("open")' = {}
  BY <1>2 DEF InHand
<1>5. BookedByTime
  BY <1>3, BothBooked DEF BookedByTime
<1>6. /\ ExecFirst => ToSet(queue["exec"]) = {}
      /\ ~ExecFirst => ToSet(queue["open"]) = {}
  BY DEF MergesBoth, Earlier, ToSet
<1>7. Carries(Second(w), {o1}) /\ Effect(Second(w))
  BY MergeCarries DEF DaemonInv, MergesBoth
<1> HIDE DEF e1, o1
<1>8. \A e \in ToSet(queue["exec"]) : o1.time < e.time
  BY <1>1, <1>3, <1>6
<1>9. \A o \in ToSet(queue["open"]) : e1.time <= o.time
  BY <1>1, <1>3, <1>6
<1>10. OpenNotEarly
  BY <1>2, <1>4, <1>7, <1>8, NewInIndex DEF OpenNotEarly
<1>11. ExecNotEarly
  BY <1>1, <1>2, <1>4, <1>9 DEF ExecNotEarly
<1> QED
  BY <1>5, <1>10, <1>11

\* The two streams of calls are merged by their time stamps, whatever the
\* socket threads add to the queues meanwhile: no call in hand is overtaken by
\* a later one of the other kind, and of two calls of one pid in hand the open
\* call is booked on the process that was running when it was made.
THEOREM MergeIsByTime == Spec => MergesByTime
<1> DEFINE Step ==
             mpc = "merge" /\ mpc' # "crashed" =>
                /\ \A o \in OpensOf(Indexed)' \ OpensOf(Indexed) :
                      \A e \in ToSet(queue'["exec"]) \cup InHand("exec")' : o.time < e.time
                /\ \A e \in InHand("exec") \ InHand("exec")' :
                      \A o \in ToSet(queue'["open"]) \cup InHand("open")' : e.time <= o.time
                /\ ~comp' /\ temp["exec"].pid = temp["open"].pid /\ InRange(temp["open"].pid) =>
                      ((\E p \in Indexed' : /\ IsProc(p) /\ p.exec = temp["exec"].n
                                            /\ temp["open"] \in ToSet(p.calls))
                       <=> temp["exec"].time <= temp["open"].time)
<1>1. DaemonInv /\ OrderInv /\ [Next]_vars => Step
  <2> SUFFICES ASSUME DaemonInv, OrderInv, [Next]_vars, mpc = "merge", mpc' # "crashed"
               PROVE  OpenNotEarly /\ ExecNotEarly /\ BookedByTime
    BY DEF OpenNotEarly, ExecNotEarly, BookedByTime
  <2>1. CASE MainThread
    <3>1. MainMerge
      BY <2>1 DEF MainThread, MainStep, MainTop, MainPeek, MainFetch, MainDead, MainDispatch, MainJoin
    <3> QED
      BY <3>1, MergeCases, OneInTime, BothInTime
  <2>2. CASE UNCHANGED <<comp, temp, index>>
    <3>1. comp
      BY DEF DaemonInv, HandInv
    <3>2. BookedByTime
      BY <2>2, <3>1 DEF BookedByTime
    <3>3. ExecNotEarly
      BY <2>2 DEF ExecNotEarly, InHand
    <3>4. OpensOf(Indexed)' = OpensOf(Indexed)
      BY <2>2 DEF OpensOf, Indexed
    <3>5. OpenNotEarly
      BY <3>4 DEF OpenNotEarly
    <3> QED
      BY <3>2, <3>3, <3>5
  <2>3. CASE \E k \in Kinds : ParserThread(k)
    BY <2>2, <2>3 DEF ParserThread, mainVars
  <2>4. CASE ShutdownThread \/ ControlThread \/ (\E k \in Kinds : TracerCloses(k)) \/ Asked
                \/ UNCHANGED vars
    BY <2>2, <2>4, OthersLeave DEF mainVars
  <2> QED
    BY <2>1, <2>3, <2>4 DEF Next
<1>2. DaemonInv /\ OrderInv /\ [Next]_vars => [Step]_vars
  BY <1>1
<1> HIDE DEF Step
<1>3. Spec => [][Step]_vars
  BY <1>2, OrderInit, OrderNext, DaemonInvariant, PTL DEF Spec
<1> QED
  BY <1>3 DEF MergesByTime, Step
=============================================================================

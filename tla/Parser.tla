------------------------------- MODULE Parser -------------------------------
(***************************************************************************)
(* The two socket threads of the watchdog, surv_handleExecCallSocket and   *)
(* surv_handleOpenCallSocket.  They run the same code on two sockets, so   *)
(* the state is indexed by the kind of call.  A thread connects to its     *)
(* tracer, waits for data, turns lines into calls and puts the calls into  *)
(* its queue; it holds its `processing' flag up while it does.             *)
(*                                                                         *)
(* Lines are not modelled: what arrives on a socket is a sequence of       *)
(* calls, and a recv takes any number of them.  The queue is the FIFO that *)
(* RingBuffer implements in its safe uses.                                 *)
(***************************************************************************)
EXTENDS Naturals, Sequences

CONSTANTS
    QueueSize,      \* SIZE_RING: capacity of a queue
    MaxTries,       \* maxtries_enqueue, 3 in the code
    Faults,         \* the threads whose socket calls may fail: "exec", "open"
                    \* and "ctrl", the control thread
    Unwanted        \* the open calls that the filter, as it is when they are
                    \* parsed, may refuse

Kinds == {"exec", "open"}

VARIABLES
    ppc,            \* ppc[k]: where the thread is
    rfds,           \* rfds[k]: what select watches; select overwrites it
    processing,     \* surv.processing_execcall_socket / _opencall_socket
    tries,          \* tries[k]: failed retries to enqueue the current call
    chunk,          \* chunk[k]: calls received but not yet enqueued
    refused,        \* calls the thread destroyed: filtered out or given up
    stream,         \* stream[k]: calls in the socket, oldest first
    tracer,         \* tracer[k]: "absent", "listening" or "closed" (end of file)
    queue,          \* queue["exec"] is surv.commandQueue, queue["open"] openQueue
    shutting_down,  \* surv.shutting_down
    killpipe        \* "open"; "eof" once the write end is closed; "closed"
                    \* once the control thread has closed the read end too

ParserPcs == {"start", "connect", "loop", "select", "recv", "enqueue", "retry",
              "cleanup", "done"}

\* `down' are the threads that have already ended on a failure.
ParserInit(down) ==
    /\ ppc = [k \in Kinds |-> IF k \in down THEN "done" ELSE "start"]
    /\ rfds = [k \in Kinds |-> {}]
    /\ processing = [k \in Kinds |-> FALSE]
    /\ tries = [k \in Kinds |-> 0]
    /\ chunk = [k \in Kinds |-> <<>>]
    /\ refused = {}

Goto(k, pc) == ppc' = [ppc EXCEPT ![k] = pc]

-----------------------------------------------------------------------------
(* Start and connect *)

\* socket() and sb_init; on failure the thread ends with its flag still down.
ParserStart(k) ==
    /\ ppc[k] = "start"
    /\ \/ /\ Goto(k, "connect")
          /\ processing' = [processing EXCEPT ![k] = TRUE]
       \/ /\ k \in Faults
          /\ Goto(k, "done")
          /\ UNCHANGED processing
    /\ UNCHANGED <<rfds, tries, chunk, refused, stream, queue>>

\* connect() fails without a tracer (return value 3).
ParserConnect(k) ==
    /\ ppc[k] = "connect"
    /\ IF tracer[k] # "listening"
       THEN Goto(k, "cleanup") /\ UNCHANGED rfds
       ELSE Goto(k, "loop") /\ rfds' = [rfds EXCEPT ![k] = {"socket", "killpipe"}]
    /\ UNCHANGED <<processing, tries, chunk, refused, stream, queue>>

-----------------------------------------------------------------------------
(* The receive loop *)

\* Mutant of ParserLoop: a thread that sees the shutdown lowers its flag and
\* then takes one more turn.
ParserLoopEarlyFlag(k) ==
    /\ ppc[k] = "loop"
    /\ Goto(k, IF shutting_down /\ ~processing[k] THEN "cleanup" ELSE "select")
    /\ processing' = [processing EXCEPT ![k] = ~shutting_down]
    /\ UNCHANGED <<rfds, tries, chunk, refused, stream, queue>>

\* while(!surv->shutting_down)
ParserLoop(k) ==
    /\ ppc[k] = "loop"
    /\ Goto(k, IF shutting_down THEN "cleanup" ELSE "select")
    /\ UNCHANGED <<rfds, processing, tries, chunk, refused, stream, queue>>

\* A socket with data or at its end is readable, a pipe at its end too.
Readable(k) ==
    {fd \in rfds[k] : \/ fd = "socket" /\ (stream[k] # <<>> \/ tracer[k] = "closed")
                      \/ fd = "killpipe" /\ killpipe = "eof"}

\* select() leaves the readable descriptors in rfds, and only those are
\* watched the next time.  It fails on a descriptor that has been closed.
ParserSelect(k) ==
    /\ ppc[k] = "select"
    /\ IF "killpipe" \in rfds[k] /\ killpipe = "closed"
       THEN Goto(k, "cleanup") /\ UNCHANGED rfds
       ELSE /\ Readable(k) # {}
            /\ rfds' = [rfds EXCEPT ![k] = Readable(k)]
            /\ Goto(k, "recv")
    /\ UNCHANGED <<processing, tries, chunk, refused, stream, queue>>

\* recv() on the socket, whichever descriptor was readable: it blocks until
\* there is data or the tracer has closed.
ParserRecv(k) ==
    /\ ppc[k] = "recv"
    /\ \/ \E n \in 1..Len(stream[k]) :
             /\ chunk' = [chunk EXCEPT ![k] = SubSeq(stream[k], 1, n)]
             /\ stream' = [stream EXCEPT ![k] = SubSeq(@, n + 1, Len(@))]
             /\ Goto(k, "enqueue")
       \/ /\ stream[k] = <<>>
          /\ tracer[k] = "closed"
          /\ Goto(k, "cleanup")
          /\ UNCHANGED <<chunk, stream>>
    /\ UNCHANGED <<rfds, processing, tries, refused, queue>>

-----------------------------------------------------------------------------
(* Enqueueing *)

QueueFull(k) == Len(queue[k]) >= QueueSize

Written(k) ==
    /\ queue' = [queue EXCEPT ![k] = Append(@, Head(chunk[k]))]
    /\ chunk' = [chunk EXCEPT ![k] = Tail(@)]
    /\ Goto(k, "enqueue")

\* The next line of the chunk: an open call whose path has no prefix in the
\* filter is destroyed, any other call is written to the queue.
ParserEnqueue(k) ==
    /\ ppc[k] = "enqueue"
    /\ \/ /\ chunk[k] = <<>>
          /\ Goto(k, "loop")
          /\ UNCHANGED <<tries, chunk, refused, queue>>
       \/ /\ chunk[k] # <<>>
          /\ ~QueueFull(k)
          /\ Written(k)
          /\ UNCHANGED <<tries, refused>>
       \/ /\ chunk[k] # <<>>
          /\ QueueFull(k)
          /\ tries' = [tries EXCEPT ![k] = 0]
          /\ Goto(k, "retry")
          /\ UNCHANGED <<chunk, refused, queue>>
       \/ /\ k = "open"
          /\ chunk[k] # <<>>
          /\ Head(chunk[k]) \in Unwanted
          /\ refused' = refused \cup {Head(chunk[k])}
          /\ chunk' = [chunk EXCEPT ![k] = Tail(@)]
          /\ UNCHANGED <<ppc, tries, queue>>
    /\ UNCHANGED <<rfds, processing, stream>>

\* Mutant of ParserRetry: it is tried once too often.
ParserRetryOnceMore(k) ==
    /\ ppc[k] = "retry"
    /\ \/ ~QueueFull(k) /\ Written(k) /\ UNCHANGED <<tries, refused>>
       \/ /\ QueueFull(k)
          /\ tries[k] < MaxTries
          /\ tries' = [tries EXCEPT ![k] = @ + 1]
          /\ UNCHANGED <<ppc, chunk, refused, queue>>
    /\ UNCHANGED <<rfds, processing, stream>>

\* One of the retries, each followed by a sleep.  After the last the call and
\* the rest of the chunk are given up and the thread ends (return value 4).
ParserRetry(k) ==
    /\ ppc[k] = "retry"
    /\ \/ ~QueueFull(k) /\ Written(k) /\ UNCHANGED <<tries, refused>>
       \/ /\ QueueFull(k)
          /\ tries[k] + 1 < MaxTries
          /\ tries' = [tries EXCEPT ![k] = @ + 1]
          /\ UNCHANGED <<ppc, chunk, refused, queue>>
       \/ /\ QueueFull(k)
          /\ tries[k] + 1 >= MaxTries
          /\ refused' = refused \cup {chunk[k][i] : i \in 1..Len(chunk[k])}
          /\ chunk' = [chunk EXCEPT ![k] = <<>>]
          /\ Goto(k, "cleanup")
          /\ UNCHANGED <<tries, queue>>
    /\ UNCHANGED <<rfds, processing, stream>>

\* The flag goes down last, after everything is enqueued.
ParserCleanup(k) ==
    /\ ppc[k] = "cleanup"
    /\ processing' = [processing EXCEPT ![k] = FALSE]
    /\ Goto(k, "done")
    /\ UNCHANGED <<rfds, tries, chunk, refused, stream, queue>>

ParserStep(k) ==
    \/ ParserStart(k)
    \/ ParserConnect(k)
    \/ ParserLoop(k)
    \/ ParserSelect(k)
    \/ ParserRecv(k)
    \/ ParserEnqueue(k)
    \/ ParserRetry(k)
    \/ ParserCleanup(k)
=============================================================================

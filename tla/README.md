# A TLA+ model of DirSurveiller

DirSurveiller records which process opened which file. A tracer (`src/tracer`)
reports exec and open calls over two Unix sockets; the watchdog daemon
(`src/watchdog`) books the open calls on the processes that made them and archives
both in a Berkeley DB, which its control client reads. This directory holds TLA+
modules for tracer, daemon, client and archive, TLC configurations and TLAPS
proofs. Line numbers without a file are those of `src/watchdog/src/watchdog.c`.

## 1. Inventory

| Component | State | Operations | Works with |
|---|---|---|---|
| Ring buffer queue (`g_ringBuffer`, containers.c) | slots, free-running 32-bit `read` and `write` | init, write, read, size, empty, full | `commandQueue` and `openQueue` carry calls from a socket thread to the main thread, `dispatchQueue` is the main thread's alone |
| Process index (`procindex`, 263-430) | array of processes by pid, its size | add, opencall_add, trackparents, retrieve, and the functions of the surveiller that move processes on: addExecCall, check_proc_vitals, flush | main thread only; fills the dispatch queue |
| Socket threads (541-921) | receive buffer, retries, `processing_*` flag, descriptor set | connect, select, recv, parse, filter, enqueue, retry, clean up | tracer sockets, queues, kill pipe |
| Line parser (`stringBuffer` of containers.c, scan loops 643-711, 841-904) | unfinished line, field buffers, the number of the field | append, grow, scan, delete head | inside the socket threads |
| Shutdown thread (923-940) | waits for a signal | `shutting_down`, closes the kill pipe | everyone who reads the flag or selects on the pipe |
| Control thread (996-1156) | listening socket, one descriptor per client, the last request | accept, sweep, shutdown, restart, get_status, add_filter | signals the shutdown thread, sets `restart`, closes the read end of the kill pipe, answers clients |
| Main loop (1220-1435) | `compMode`, two calls in hand, `ready_calls`, `counter`, `dead` | merge, fetch, vitals, end test, flush, dispatch, join, restart | all of the above |
| Open call filter (241-259) | prefix tree of libart | add, filter | control thread writes, open thread reads |
| Archive (database.c, 1186-1219) | four Berkeley DB tables, handles of each process | open, put, get, retrieve by path, close | main thread of the daemon writes, watchdog_ctrl reads |
| watchdog_ctrl | options | sends requests, reads the archive, starts a daemon | control thread, archive |
| bashtrace_wrapper | two processes, two pipes, two listening sockets | fork, ready and start handshake, accept, exec, SIGTERM | starts the script with the daemon's connections as its output and error |
| bashtrace.sh | lock file, kernel probes, three arrays by pid, awk's output buffer | lock, set and remove probes, filter events | kernel trace on one side, wrapper and daemon on the other |
| opentrace, ftracer | - | prototypes, not built | - |

What is hard here: five threads share queues, flags and a pipe without a lock;
the condition that ends the main loop is a sequence of unsynchronised reads;
calls are in a socket, a buffer, a queue, the main loop's hands, the index, the
dispatch queue or the archive, and every hand-over can fail; the array of
processes, the call buffers, the line buffer and all queues have boundaries;
shutting down needs four threads to notice in time; clients come and go while the
daemon ends or restarts; wrapper and child must not wait for each other whatever
fails; the kernel loses events and uses pids again. PROJECT.json lists these
hazards at their lines.

What makes the components correct:

* a queue is a bounded FIFO, across the wrap-around of its counters;
* the index finds a process under its own pid, holds every accepted open call
  exactly once, and hands it on with its process;
* the lines of the tracer become calls, in order, wherever recv cuts them;
* calls are applied in the order of their time stamps;
* no call is lost between socket and archive except by a decision of the code
  (filter, full queue after the retries);
* an archived open call leads to the process that made it, and a query by path
  returns all of them, while the daemon goes on writing;
* the daemon ends when it is told to, a promised restart happens, and a client is
  answered or hung up on;
* wrapper and child end together, leave no probe and no lock behind, and speak to
  one daemon; the filter reports the right file and the right parent.

## 2. Modules

| Module | Models |
|---|---|
| `Fifo` | Abstract bounded FIFO: what was sent and what was taken. |
| `RingBuffer` | `g_ringBuffer` with one producer and one consumer, each access a step. Implements `Fifo`. |
| `ProcIndexOps` | The functions of `procindex`, and of the surveiller around it, as operators. |
| `ProcIndex` | The index and the dispatch queue as a state machine, the operations in any order. |
| `LineReader` | Abstract reader of lines: one call per good line, in order. |
| `LineParser`, `MCLineParser` | `stringBuffer` and the scan loop, byte by byte. Implements `LineReader`. Inputs for TLC. |
| `Parser` | The two socket threads, above the level of bytes. |
| `Control` | The shutdown and the control thread, signals and requests. |
| `Watchdog`, `MCWatchdog` | The composition: main loop, `Parser`, `Control`, `ProcIndexOps` and the tracers. Workloads for TLC. |
| `Access` | `Control` again, with the connections of its clients and watchdog_ctrl at their other end. |
| `Database`, `MCDatabase` | The archive: `surv_database_dispatch` put by put, and a client's retrieval by path. Processes and paths for TLC. |
| `Wrapper` | bashtrace_wrapper: parent, child, pipes, sockets, and the daemon that connects. |
| `TraceScript` | bashtrace.sh and its awk filter, and the kernel as far as the trace shows it. |
| `Tracer` | The composition of `Wrapper` and `TraceScript`. |
| `ProcIndexOpsProofs` | Lemmas about the operators of `ProcIndexOps`, which the next two use. |
| `ProcIndexProofs`, `WatchdogProofs` | Theorems about the index by itself and in the composed daemon. |
| `RingBufferProofs`, `LineParserProofs`, `AccessProofs`, `DatabaseProofs`, `TracerProofs` | Theorems about those modules. |

**RingBuffer.** `write` and `read` are counters modulo `Modulus` (2^32 in the
code), which `Size` divides. `rb->buffer[mask(rb->write++)] = content` is two
accesses, and C leaves their order to the compiler as long as one thread looks:
`WriteOrders` and `ReadOrders` are the orders considered. `OneThread` says that
producer and consumer are the same thread, as for the dispatch queue. `sent` and
`got` are history variables, and the state of `Fifo` under the refinement.

**ProcIndexOps, ProcIndex.** The process `pid` lives in word `pid+1`, while the
bounds tests guarantee only `size >= pid+1`; the word behind the array is part
of the model, and holds one of the values in `Slack` whenever an array is
allocated. `GrownSize` is the size that repeated doubling reaches. A process
keeps the fields that steer the code: exec call, pid, ppid, tracked, deadness,
its open calls and the size of their buffer. A null or wild pointer followed is
a crash. Allocation is assumed to succeed. What vitals, replacement and flush
write to a full dispatch queue is dropped, as in the code, which ignores the
return value. Two history variables serve the properties: `lost` has the open calls
that went down with a process that found the queue full, or with the one behind an
array that grew (`Dropped`, `Overgrown`); `newest` the newest exec call of each pid.

**LineParser.** The layer below `Parser`. The tracer sends lines of fields; `Recv`
takes any piece of them, `Grow` and `Copy` are sb_appendl, `ScanNewline`, `ScanTab`
and `ScanOther` the branches of the scan loop, `DeleteHead` moves the unfinished
field to the front. The loop looks at one byte more than was received: that byte is
what an earlier piece, or whoever had the memory before (`Garbage`), left there. A
failing recv returns -1, which is appended as a length (`RecvError`, after which the
model stops in `overrun`); a field beyond the last buffer ends in `wild`. A field is
the sequence of its characters (`Plain`: no tab, newline or end of a string, which the
trace does not put into a field); numbers in it are not converted.

**Parser.** One step per access to shared state: the flag, connect, each turn of
the loop, select, recv, each write to the queue, each retry, the flag again. A recv
takes any number of the calls in the socket. `select` overwrites its descriptor set,
so that a thread that has once been woken by data no longer watches the kill pipe,
and fails on the pipe's read end after the control thread has closed it. `Unwanted`
are the calls the filter may refuse. A queue is the FIFO of section 4, one step per
operation: what the run `ring_source_order` finds is not in this module. A recv that
fails is left to `LineParser`.

**Control.** `killpipe` is open, at its end (the shutdown thread has closed the
write end) or closed (the control thread has closed the read end: it takes the
end of the pipe for a client that has gone). The control thread is split where
another thread can intervene: between the test of `shutting_down` and what
follows from it. Requests for status and filter changes are `"other"`.

**Watchdog.** The main loop: `MainTop` (head of the loop), `MainMerge` (compMode),
`MainPeek` and `MainFetch` (the two looks at the queues outside compMode),
`MainDead` (one operand of the end condition per step), `MainDispatch` (flush,
dispatch batch, counter), `MainJoin`. Everything between two accesses to shared
state is one step. `tick` is the counter modulo `VitalsEvery`. The tracers'
reports are in the sockets from the start: a report that comes late and a thread
that reads late look alike. `Faults` are threads whose socket calls may fail, the
`down` of a workload those that have already ended on a failure. Two history
variables follow the open calls: `received` has those that any recv returned, `lost`
those that the main thread lost to a pid out of range, a full dispatch queue or an
array that grew. Both only grow, so that a call is accounted for until the end.

**Access.** The steps of `Control`, each with what it does to a connection:
connections wait in the backlog, are accepted one per turn, are swept when readable,
answered, and closed when the client has gone. A client connects, asks, waits and
leaves, or is killed at any time. It reads once, into 200 bytes (watchdog_ctrl.c:341,
442), while an answer may have 256: to an add_filter with a path of some 177 to 232
characters (`"long"`) a part of the answer stays unread. A client that closes or is
killed with bytes unread resets its connection; read then returns -1, and the request
still in `buf` is served for it, where write raises SIGPIPE. Requests that do not fit
the daemon's own buffer of 256 bytes are not modelled. `over` says how the daemon ended: a restart (execvp) keeps the accepted
connections open in a program that does not know them.

**Database.** The daemon and a client each open the environment for themselves
(`CreateDatabase`, with the handles that each error path of `createDatabase`
leaves) and share the tables `execs` and `opens`; the secondary index is the set
`OfPath`. `PutExec` and `PutOpen` are one transaction each, as in the code: in
between the daemon may die (`DaemonStops`), another put fail, or the client read.
A put through a null handle ends the daemon, one through a handle that was never
opened fails and is only logged. Keys are those of the code: an exec call has time
stamp and pid, compared by `KeyComp`; an open call has time stamp, the last 99
characters of the path, and what stands behind a short suffix in a buffer on the
stack (`Rests`). A path is its name, its suffix and whether the suffix fills the
buffer. `RetrieveSet`, `RetrieveExec` and `RetrieveNext` are the three reads of
`retrieveRecords_Path`; the order of the cursor is that of the keys. Berkeley DB is
external: puts are atomic and durable, reads of open handles succeed. Its page
locks only take interleavings away; that they may deadlock is listed as a hazard. The
bytes that pad the structure of a key (database.h:55-58) are nobody's: the model takes
them for equal, so that two calls with full, equal suffixes collide for certain.
`failed`, `done` and `before` are history variables.

**Wrapper.** `fds` says which process holds which end of the two pipes; a read
returns when there is a byte or nobody holds the other end. The child listens on one
socket after the other and accepts on one after the other; a connection is named
after the start of the daemon that made it, and stays in the backlog when that
daemon is gone. The daemon, as the environment, connects each socket once, hangs up,
and starts anew. SIGTERM reaches the parent in any state of it. That its read of the handshake fails
with -1 is left out: the parent then ends as it does on SIGTERM.

**TraceScript.** The script sets its trap, takes the lock, sets the probes, traces,
and runs its end section. A kernel event (fork, exec, name of a file, return of an
open, exit) changes `proc`, the truth, and, unless it is lost, goes through the
filter, which keeps `lastfile`, `getppid` and `seen`. Open calls are buffered by awk,
and exec calls written at once. `wrong` and `veterans` are history variables: what the
filter reported against the truth, and the pids that earlier processes used. openat
and creat go through do_sys_open too and give the probe a name, but only the return of
open is traced (bashtrace.sh:137, 197): `OpenUntraced` leaves a name in `lastfile`
without any loss, and `strays` are the pids that have done so.

**Tracer.** The script is the wrapper's command: a daemon that hangs up breaks its
pipe, SIGTERM goes from the parent to the script. `Starts` has two initial states: a
fresh start, and a script that traces and has all its events before it, so that the
filter can be explored in depth without the start-up in front of every history.

## 3. Runs

Passing runs:

| Run | Shows | Bounds |
|---|---|---|
| `ring_one_thread` | The queue in one thread, in either order of the accesses, implements `Fifo` (`QueueSpec`), and the size from the wrapped counters is exact. | 2 slots, counters modulo 4, 6 writes: the queue fills and the counters wrap. |
| `index_sound` | `IndexSound`, `OneOwner`; `KnownLosses`: a step forgets exactly open calls of the process that an array grows over, and of processes without room in the dispatch queue; `AcceptedAreArchived`: at exit every accepted open call is archived but these and those of the process behind the array; `BookedOnNewest`: an open call goes to the newest process of its pid. | Pids at the boundary and beyond pid_max, wild memory behind the array, dispatch queue of one. |
| `calls` | `NoLateCalls`: when the main loop decides to end, nothing is in a queue or on its way, now or later. `NoCallVanishes`: every open call ever received is somewhere, was destroyed or given up on purpose, or was lost to a pid out of range, a full dispatch queue or a growing array; `OnlyCallInHandLost`: at the end it is archived but for these, one in hand and the process behind the array; `MergesByTime`. | Six workloads of 2 or 3 calls, which make the array grow over a process, name a pid out of range and fill the dispatch queue; pids up to 5 and one beyond; queues of one place, the dispatch queue too (always full or empty), 2 retries, a process that dies at any time, signal or counter's end at any time, control thread running in one workload. |
| `ends` | `QueuesDrain` and `StopsWithoutTracers` under fairness; `PromiseBinds`: a daemon that promised a restart does not end for good. | One exec and one open call, or none; start-up failures of the open and the control thread; signals and a restart request at any time. |
| `lines` | `ReadsLines`: the calls are those of the lines, in order, whatever the pieces; `ScanInBounds`; `StaleByteNeedsCause`, `WildOnlyWhen`: what a byte behind the data, or a tab in a path, can do. | Any two of six lines (two good, four of them bad in different ways) and a good one; three fields; pieces of 1 or 2 bytes; a buffer of 4, so that it grows up to twice; fresh memory of any content; recv failing at any time. |
| `clients` | `ClientsServed`, `ConnectionsClosed` and `PromiseKept` under fairness; `OnlyResetKills`: SIGPIPE ends the daemon only if a client left bytes of its answer unread. | Two clients, four kinds of request: one is served while the other connects, asks or leaves. |
| `archive` | `NoOrphans`, `AllStored`, `RetrievalComplete` and `CallerFirst` while puts and opens fail, the daemon dies and restarts, and the client is interrupted. | Three processes, two of one pid (the first known by open calls only), the third a child of the second; five open calls: three of one short path, whose times let a put land in front of the cursor and behind it, and two at one instant of long paths with the same end. |
| `tracer` | `WiredTogether`: output and error go to one daemon; `LeavesNoTrace`; `MistakesNeedLosses` and `ExecsNeedReuse`: what it takes for the filter to report a wrong file, a wrong parent, or to leave an exec call out; `ChildNotStranded`, `WrapperEnds` and `ConnectedIsServed` under fairness. | Two starts of the daemon, every step of the start-up failing, SIGTERM at any time; three pids, two files, four events of which two may be lost, awk's buffer of two. |

Runs that find a violation; each is a disagreement between code and a comment
(quoted under "findings" in PROJECT.json):

| Run | Shows |
|---|---|
| `ring_source_order` | Between two threads, in source order (the counter advances first), the consumer can take a slot the producer has not filled. An unoptimised build has this order. |
| `index_parent` | An exec call whose parent is indexed follows a null pointer (line 324 reads `pid` where `ppid` is meant). |
| `hangs` | Woken by the kill pipe a socket thread calls recv and blocks: a signal does not end the daemon while a tracer is connected and silent. |
| `archive_parents` | A retrieved record names the process that made the call and never its parents: `parentEcall` is neither written nor read, though database.h says the parents follow. |

What the passing properties except, and so tell about the code:

* With pid+1 = size a process is stored behind the array, and lost when the index
  grows (`KnownLosses`, `NoCallVanishes`) or, since the flush does not visit that word,
  when the daemon ends (`OnlyCallInHandLost`); a full dispatch queue loses what is
  written to it.
* An exec call that finds no open call waiting (line 1369) is given up if its pid is
  still indexed (`AddLoneExecCall`), while in compMode it replaces the old process
  (`AddExecCall`); the open calls that follow are then booked on the old one, and
  `BookedOnNewest` does not count the exec call given up. An open call that comes
  after a lone exec call was applied is late: `MergesByTime` is about calls in the hand
  and in the queues.
* An exec call is stored without its parent (`Add` sets ppid to 0, line 322), or, with
  the parent in the index, crashes the daemon (`index_parent`). Parents are therefore
  never tracked and the parent's time stamp never set, whatever watchdog.h:64 and 71 say.
* The loop may end with two calls in hand, which are not archived
  (`OnlyCallInHandLost`). The calls of a socket thread that gives up are lost too; they
  are in `refused`, with those the filter destroyed.
* After 424242 iterations the main loop raises `shutting_down` itself (line 1302). The
  shutdown thread is then still in sigwait and the kill pipe open, so that the final
  join waits for a signal from outside; `StopsWithoutTracers` is about a daemon that
  was signalled.
* A line with the wrong number of fields leaves its newline in the buffer, and a
  buffer that has grown holds fresh memory: the byte behind the data may then be a
  separator, which cuts the line being read in two (`StaleByteNeedsCause`). A path
  with two tabs more than fields writes behind the field buffers (`WildOnlyWhen`). A
  failing recv appends -1 bytes (`RecvError`).
* A client that is killed while it waits, or whose answer is longer than its buffer,
  ends the daemon by SIGPIPE (`OnlyResetKills`), if another client's request was served
  before and is served again for the reset connection. A client that is connected when the daemon restarts waits for
  ever: execvp hands its connection to a program that does not know it
  (`ClientsServed`).
* Processes known by open calls only have the time stamp 0. All those of one pid
  share an archive key, so that the second is not stored and its open calls are
  booked on the first; `CallerFirst` leaves them out.
* A daemon that starts too early is refused on one socket and not on the other. The
  wrapper then waits in accept, and after the restart of the daemon that the status
  message advises, output and error may go to two daemons, one of them gone
  (`WiredTogether`). The listening sockets stay open in the command, so that a daemon
  that restarts later connects to a backlog that nobody serves (`ConnectedIsServed`
  is about the first to connect).
* A fork deletes the seen mark of the parent instead of the child's, so that the first
  exec call on a pid used before may not be reported (`ExecsNeedReuse`). awk's
  buffered open calls come after the exec call that flushed them; the daemon merges
  by time stamp what is in its queues.

watchdog_ctrl never sends remove_filter: the branch at watchdog_ctrl.c:463 tests the
option for adding.

Every passing run has, for each of its properties, a mutant: a change of one
definition like a slip in the code (operator named after the definition it
replaces), under which TLC finds the property violated.

**Why the bounds suffice.** Queues of one place make full and empty alternate at
every step; three calls make one in each hand and one in a queue; two pids give a
process and its successor, its child or a neighbour. The counters of the code
(512, 1024) only decide how often vitals and dispatch happen; with a period of 1
they happen in every iteration, and `gone` may be empty, so vitals also skips any
number of iterations. The six workloads of `calls` together reach every way of losing
a call: at the end of some behaviour `lost` has one out of range, one that was grown
over and one without room. In the archive two long paths with one suffix collide for
certain, two short ones (`Rests` of two values) may or may not. A piece of two bytes
can end before, at and behind a separator; what the scan does depends on the piece
and on one byte behind it. A wrong file needs a name, a lost return, a lost name and
a return (or an openat, a lost name and a return), and an exec call left out a fork and
an exec on each of two lives of a pid: four events hold each of them. The theorems
cover every number of events. Deadlock is checked in the runs of `Database`, whose daemon
and client start over; elsewhere it is not: programs end, and a daemon with silent
tracers rests.

**Fairness.** `FairSpec` of `Watchdog` has weak fairness for each thread: the
scheduler runs every thread that can go on, and the threads use no lock. The `sleep`
calls of the code delay, they do not block. Strong fairness is assumed of one step,
the end of the control thread's sweep: a sweep is one pass over fd_size descriptors,
and in the model, which does not count them, it could otherwise go on serving. In
`Access` daemon threads and clients that wait in read are weakly fair, in `Tracer`
parent, child and script. Nothing is assumed of tracers, signals, the kernel's events,
the daemon seen from the tracer, or of clients that have not asked.

## 4. Proofs

Every safety property, action property and refinement that a passing run checks is
also a theorem, for every value of the constants.

**Induction.** The library's induction theorems take an operator as a parameter, which
the provers cannot instantiate. Where the data of a model has no bound, the proofs use
the set form instead: a non-empty set of natural numbers has a least element (`WFMin`),
so a set that has 0 and with each number the next one has them all (`Induction`). With
it `ProcIndexOpsProofs` shows that a finite set of numbers can be put in order
(`InOrder`, the loops over the array), and `LineParserProofs` what `FlattenSeq` returns.

`RingBufferProofs` (for every `Size`, `Modulus` it divides, set of elements and
number of writes):

* `TypeCorrect`: `Spec => []TypeOK`, with the invariant that a pending write
  holds an element.
* `SizeExact`, `RingImplementsFifo`: `SafeUse` (one thread, or both sides access
  the slot before the counter) implies `SizeIsExact` and the refinement of `Fifo`.
  The inductive invariant `RingInv` says that the counters are the numbers of
  completed writes and reads modulo `Modulus`, that at most `Size` elements lie
  between them, and that every such element is in its slot. The refinement alone
  is not inductive: it says nothing of the slots. Both theorems need that the
  counters can tell 0..Size apart, an assumption on the constants that TLC
  evaluates in every run.

`ProcIndexOpsProofs` (for any sets of exec and open calls, so that `ProcIndex` and
`Watchdog` can both cite it): what each operator does to a sound index. `Moves` says
which word changed, what left the index and in which order; `Conserves`, that an open
call in the index stays there, is in what left, or is among the calls counted as lost;
`EnqueueKeeps`, that what enters the dispatch queue is in it or in `Dropped`.

`ProcIndexProofs` (for every pid_max, guide pid, set of pids, buffer and queue
size, and contents of the word behind the array):

* `IndexIsSound`: from the invariant `IndexInv`, which adds the
  shape of the index (its size between 1 and pid_max + 1, every word null, wild or
  a sound process of that word's pid, wild only behind the array). One lemma per
  operator (growing, storing, adding, taking a call, vitals, flush) carries the
  invariant over each action. With `QueueInv` it also gives the types
  (`TypesAreRight`).
* `ExitArchives` (`AcceptedAreArchived`): in every state that has not crashed, an
  accepted open call is archived, queued, in the index or in `lost`; the flush empties
  every word of the array, word 0 included, which it skips, because `IndexInv` says
  that no process is there, and nothing fills a word afterwards (`Emptied`).
* `LossesAreKnown` (`KnownLosses`): an open call is looked for in the archive, the
  queue and the index, and each operation is followed through `Moves`.
* `NewestIsBooked` (`BookedOnNewest`): with `IndexedNewest`, every process in the index
  comes from the newest exec call of its pid or from none: surv_addExecCall either
  enters a new call in the word of its pid, crashes, or refuses a pid out of range.
* `OneOwnerAlways` (`OneOwner`): processes are numbered by the place they are at, and a
  step only moves them or makes one. The property is not inductive alone: a call made
  again could already be held. `Fresh` says that all calls held are older than the next.

`LineParserProofs` (for every input, piece and buffer size, contents of memory):

* `ParserTypes`; `ScanStaysInBounds`: an unfinished field starts at the head of the
  buffer whenever a piece arrives (`FieldAtHead`), and sb_appendl grows until there is
  a byte to spare.
* `StaleBytesHarmless` (`StaleByteNeedsCause`): with `NoStaleSeparator`, as long as
  every line had its number of fields and the buffer its first size, the only
  separators in the whole buffer are those received and not yet scanned: the scan
  overwrites each one that ends a field or a call. The property alone is not inductive,
  for it says nothing of the bytes that will one day stand behind the data.
* `ReadsAllLines` (`ReadsLines`, the refinement of `LineReader`) and `WildIsExplained`
  (`WildOnlyWhen`), from `ParserInv`. It says where the thread is: the bytes that have
  left the buffer and the finished part of what is in it end inside some field of the
  line being read (`InLine`, by `Inside`), or behind the last line (`AtEnd`); what is
  not read yet is in the buffer as it was sent (`Buffered`). The complete fields are the
  fields of the line if it is undamaged (`FirstFields`), and in any case parts of its
  characters that follow each other (`Parts`), so that even a damaged call has nothing
  from elsewhere. `FieldOnWire` and `CharOnWire` say where on the wire a field and a
  character are; a separator that was received is therefore the end of the field being
  read (`Piece`), and a newline with the right count makes the line's own call.

`WatchdogProofs` (for every workload, queue size, number of retries, set of faults
and of clients):

* `DaemonTypes`: `DaemonInv` joins the invariants of the socket threads, of the main
  thread's hands (`HandInv`: compMode means a call of each kind in hand), of the flags
  and of index, dispatch queue and archive (`StoreInv`, by `ProcIndexOpsProofs`). A wild
  pointer in the dispatch queue never gets to the archive: the daemon crashes on it.
* `EndMissesNothing` (`NoLateCalls`): the five operands of the end condition are read
  one after the other, and each stays true once read (`TestsOK`): with
  `shutting_down` up, a thread whose flag is down is before its first or behind its
  last piece and can not get to another (`Quiet`), so that its queue, found empty
  after that, stays empty. The order of the operands is what the proof rests on.
* `CallsPassOn` (`NoCallVanishes`): thread by thread, what leaves a piece is in the
  queue or refused, what leaves a queue is in hand, what leaves a hand is in the index
  or has a pid out of range, and `Conserves` follows it from there. With `lost` never
  shrinking this makes `CallsInv`, an invariant about every call ever received.
* `EndLosesLittle` (`OnlyCallInHandLost`): by `CallsInv`, `NoLateCalls` and `GoneInv`,
  which says that when the main thread joins, the array and the dispatch queue are
  empty.
* `MergeIsByTime` (`MergesByTime`): `OrderInv`, the calls of a kind are in order along
  hand, queue, piece and socket, whatever the socket threads do in between.
* `PromiseHolds` (`PromiseBinds`): `restart` is set before the promise and never
  taken back.

`AccessProofs` (for every set of clients and of requests):

* `OnlyResetsKill` (`OnlyResetKills`): `ServeInv` ties the three pieces of
  state of a connection together: whoever is being served waits or has left, a
  request that is not read has a client that waits, a readable connection has a
  request, a client that has gone or one that has reset it. So a write finds its client
  waiting, unless it left bytes unread. `AccessTypes`.

`DatabaseProofs` (for every sequence of processes, set of paths, contents of the
key buffer and set of faults):

* `ArchiveNoOrphans`, `ArchiveAllStored`, `ArchiveTypes`: from the invariant `IInv`,
  which adds what holds in the middle of a process: once an open call is due, the exec
  call was put or seen to fail (`CallerPutFirst`), and the open calls before the one
  due are archived (`PrefixRecorded`). Without them neither property is inductive.
  The argument is that no step takes a record away (`OnlyGrows`).
* `RetrievesAll` (`RetrievalComplete`): what was archived when the cursor was set is
  in the result or ahead of the cursor, and the result is behind it (`Ahead`, `Behind`);
  a put may land on either side, and keys are unique (`KeysUnique`).
* `CallerIsFirst` (`CallerFirst`): an exec call that is archived is that of its key
  (`ExecSound`), and an open call in the result keeps the answer its look-up had.

`TracerProofs` (for every set of pids and files, number of events, losses and daemons):

* `NothingLeftBehind` (`LeavesNoTrace`): `ScriptInv` says where in the script probes and
  lock may be there; every way out of those places goes through the end section.
* `WrongNeedsLosses` (`MistakesNeedLosses`): a name that waits in `lastfile` while its
  process opens nothing has lost the return of its open, or is that of an openat or
  creat; one that waits while its process opens another file has lost that file's name
  too (`NameOK`). A parent that
  is known without losses is the parent (`ParentOK`).
* `MissingNeedsReuse` (`ExecsNeedReuse`): a mark in `seen` belongs to the process that
  has the pid or to one before it (`SeenOK`).
* `BothWiresOneDaemon` (`WiredTogether`): unless a daemon ended half connected, the two
  backlogs hold the same daemons up to the connection the present one has yet to make
  (`SameBacklogs`), and between the two accepts the daemon accepted first is the next
  on the other socket (`PartnerNext`).
* `TracerTypes`.

**Assumed of the constants**, and evaluated by TLC in every run of the module: sizes and
bounds are natural numbers, most of them positive; null and wild pointers are no
processes. Beyond that: each tracer reports its calls in the order of their time stamps
(`TimeAssumption`: the kernel's trace has that order, and awk's buffering breaks it only
between the two kinds); an open call is one process's, and no pid has two exec calls of
one time stamp (`DistinctAssumption` of `Database`); the fields of a line hold neither
separators nor ends of strings (`PlainAssumption`), and a line has at least one field
(`InputsAssumption`).

Model-checked only: the properties under fairness, which the prover cannot treat
(it has no rules for WF, SF and ENABLED): `QueuesDrain`, `StopsWithoutTracers`,
`ClientsServed`, `ConnectionsClosed`, `PromiseKept`, `ChildNotStranded`, `WrapperEnds`,
`ConnectedIsServed`.

## 5. Not modelled

* Berkeley DB's page locks (a put and a cursor may wait for each other), recovery of
  the environment after a crash, reads that fail; the JSON and text output.
* What the client does after its signal handler has closed the databases under it.
* libart's tree, and its unsynchronised use by two threads.
* Failing allocation; the log files; texts of answers and of trace lines; the
  unsynchronised use of `status_msg` (line 1030).
* What a failing recv leads to (`overrun`), and what a write behind the field buffers
  does (`wild`): the model stops there.
* SIGPIPE in the composition with the other threads: `Access` has the daemon's death,
  `Watchdog` has clients that stay.
* Options of watchdog_ctrl and the race of two `--start`s; two scripts that test the
  lock at the same moment (bashtrace.sh:80).
* The destructors, which run after the threads have ended.
* opentrace and ftracer, which the build does not contain; the vector and the
  character ring, which the daemon's logic does not use beyond what is modelled.

## 6. Plan

Done are the modules, runs and theorems above. Left:

1. Lemmas that a proof of liveness would rest on, as far as they are safety: what each
   thread waits for, and who can still provide it.
2. The options of watchdog_ctrl with two daemons starting at once.

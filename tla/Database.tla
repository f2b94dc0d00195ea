------------------------------ MODULE Database ------------------------------
(***************************************************************************)
(* The archive (database.c).  The daemon writes one process at a time with *)
(* surv_database_dispatch: the exec call, then its open calls, each put a  *)
(* transaction of its own.  A client (watchdog_ctrl, get_from_database)    *)
(* reads the open calls of a path through the secondary index, and for     *)
(* each of them the exec call.  Both open the database environment for     *)
(* themselves, and nothing but the transactions keeps them apart.          *)
(*                                                                         *)
(* Berkeley DB is external: a put is atomic and lasts, and with            *)
(* DB_NOOVERWRITE it fails on a key that is there.  Its locks only take    *)
(* interleavings away; that they may block for ever is not modelled.       *)
(***************************************************************************)
EXTENDS Integers, Sequences, FiniteSets

CONSTANTS
    Jobs,           \* the processes dispatched, in order: records of cmd, pid,
                    \* time, ppid, ptime and calls, a sequence of open calls
                    \* (records of id, time and path)
    Paths,          \* paths: records of name, suffix (the last 99 characters)
                    \* and fills (the suffix takes all of the key's buffer)
    BootTime,       \* surv.boot_time, added to time stamps
    Rests,          \* what may follow a short suffix in the key's buffer,
                    \* which is never cleared
    Faults          \* what may go wrong: subset of {"put", "open", "crash", "signal"}

ASSUME JobsAssumption ==
    /\ Len(Jobs) \in Nat
    /\ \A i \in 1..Len(Jobs) :
          /\ Jobs[i].time \in Nat
          /\ Jobs[i].pid \in Nat \ {0}
          /\ Len(Jobs[i].calls) \in Nat
          /\ \A j \in 1..Len(Jobs[i].calls) :
                Jobs[i].calls[j].path \in Paths /\ Jobs[i].calls[j].time \in Nat
\* An open call belongs to one process, and no pid has two exec calls of one
\* time stamp; 0 stands for no exec call.
ASSUME DistinctAssumption ==
    \A i, m \in 1..Len(Jobs) :
        (\/ \E j \in 1..Len(Jobs[i].calls), k \in 1..Len(Jobs[m].calls) :
               Jobs[i].calls[j] = Jobs[m].calls[k]
         \/ /\ Jobs[i].time # 0 /\ Jobs[i].time = Jobs[m].time
            /\ Jobs[i].pid = Jobs[m].pid) => i = m
ASSUME BootAssumption == BootTime \in Nat
ASSUME RestsAssumption == Rests \subseteq Nat

VARIABLES
    execs,          \* execCalls.db: records of key and data
    opens,          \* openCalls.db, indexed by path in openCallsFilepath.db
    handles,        \* handles[who][table]: "null", "created" or "open"
    job,            \* number of the process being dispatched
    next,           \* the open call to put next; 0: the exec call
    dpc,            \* the daemon: "down", "up" or "crashed"
    cpc,            \* the client: "off", "set", "chain", "next", "done", "crashed"
    wanted,         \* the path the client asks for; {} before
    cursor,         \* the open call record its cursor is at
    key,            \* next_eCallKey
    chain,          \* the exec calls found for that record
    result,         \* recordList: the records retrieved
    failed,         \* history: exec keys and calls whose put failed
    done,           \* history: the processes dispatched completely
    before          \* history: `opens' when the client set its cursor

daemonVars == <<execs, opens, job, next, dpc, failed, done>>
clientVars == <<cpc, wanted, cursor, key, chain, result, before>>
vars == <<daemonVars, clientVars, handles>>

-----------------------------------------------------------------------------
(* Records and keys *)

ZeroKey == [time |-> 0, pid |-> 0]

\* Mutant of ExecKey: the time stamp is left out.
ExecKeyPidOnly(p) == [time |-> BootTime, pid |-> p.pid]

\* The record of surv_database_dispatch and db_execCall_genKey.  A process
\* that is known by open calls only has the time stamp 0.
ExecKey(p) == [time |-> p.time + BootTime, pid |-> p.pid]

\* The order of execCalls.db: db_execCall_KeyComp.
KeyComp(k1, k2) ==
    IF k1.time # k2.time THEN (IF k1.time > k2.time THEN 1 ELSE -1) ELSE k1.pid - k2.pid

\* db_execCall_marshall writes time stamp, pid, ppid and the strings;
\* parentEcall is not written.
Marshall(p) == [time |-> p.time + BootTime, pid |-> p.pid, ppid |-> p.ppid, cmd |-> p.cmd]

\* db_execCall_unmarshall, into a record cleared by db_execCall_init
Unmarshall(d) ==
    [time |-> d.time, pid |-> d.pid, ppid |-> d.ppid, cmd |-> d.cmd, parentEcall |-> ZeroKey]

\* db_openCall_genKey: the whole struct is the key, also what stands in its
\* buffer behind the end of a short suffix.
OpenKeys(c) ==
    {[time |-> c.time + BootTime, suffix |-> c.path.suffix, rest |-> r] :
        r \in IF c.path.fills THEN {0} ELSE Rests}

\* The record of an open call, with the key of its process (db_openCall_marshall)
OpenRecord(k, p, c) == [key |-> k, eCallKey |-> ExecKey(p), call |-> c]

\* db_get_execCall_by_key: the exec call under a key, if there is one
ExecCallByKey(k) == {Unmarshall(e.data) : e \in {x \in execs : KeyComp(x.key, k) = 0}}

-----------------------------------------------------------------------------
(* Opening and closing *)

\* The handles of db_manager.  "openCalls" stands for those of the primary
\* database, its index and the association of the two: "open" when all three
\* succeeded, "null" when createDatabase returned before that.
Tables == {"openCalls", "execCalls"}

NoHandles == [t \in Tables |-> "null"]

Init ==
    /\ execs = {}
    /\ opens = {}
    /\ handles = [who \in {"daemon", "client"} |-> NoHandles]
    /\ job = 1
    /\ next = 0
    /\ dpc = "down"
    /\ cpc = "off"
    /\ wanted = {}
    /\ cursor = {}
    /\ key = ZeroKey
    /\ chain = <<>>
    /\ result = <<>>
    /\ failed = {}
    /\ done = {}
    /\ before = {}

\* What createDatabase may leave behind.  It returns at the first error it
\* tests for: that of opening openCalls.db shows in associate, that of opening
\* execCalls.db not at all, and leaves a handle that was only created.
CreateOutcomes ==
    {h \in [Tables -> {"null", "created", "open"}] :
        /\ h["openCalls"] # "created"
        /\ h["execCalls"] # "null" => h["openCalls"] = "open"}

\* Neither caller of createDatabase looks at what it returns.
CreateDatabase(who) ==
    \E h \in CreateOutcomes :
        /\ (\E t \in Tables : h[t] # "open") => "open" \in Faults
        /\ handles' = [handles EXCEPT ![who] = h]

\* db_man_close, or the end of the process
Close(who) == handles' = [handles EXCEPT ![who] = NoHandles]

DaemonStarts ==
    /\ dpc = "down"
    /\ dpc' = "up"
    /\ CreateDatabase("daemon")
    /\ UNCHANGED <<execs, opens, job, next, failed, done, clientVars>>

\* The daemon ends between two processes and closes its handles, or it dies:
\* what it had not put yet of the process in hand is gone.
DaemonStops ==
    /\ \/ /\ dpc = "up" /\ next = 0
          /\ UNCHANGED job
       \/ /\ dpc = "up" /\ next # 0 /\ "crash" \in Faults
          /\ job' = job + 1
       \/ /\ dpc = "crashed"
          /\ job' = job + 1
    /\ dpc' = "down"
    /\ Close("daemon")
    /\ next' = 0
    /\ UNCHANGED <<execs, opens, failed, done, clientVars>>

-----------------------------------------------------------------------------
(* surv_database_dispatch, put by put *)

Busy == dpc = "up" /\ job <= Len(Jobs)

\* Mutant of Following: the index runs one too far.
FollowingOnceMore(n) ==
    LET last == n > Len(Jobs[job].calls)
    IN  /\ next' = IF last THEN 0 ELSE n + 1
        /\ job' = IF last THEN job + 1 ELSE job
        /\ done' = IF last THEN done \cup {job} ELSE done
        /\ UNCHANGED dpc

\* The dispatch goes on behind the n-th open call.
Following(n) ==
    LET last == n = Len(Jobs[job].calls)
    IN  /\ next' = IF last THEN 0 ELSE n + 1
        /\ job' = IF last THEN job + 1 ELSE job
        /\ done' = IF last THEN done \cup {job} ELSE done
        /\ UNCHANGED dpc

\* Mutant of PutExec: the exec call of a process known by open calls only is
\* not put.
PutExecKnown ==
    /\ Busy /\ next = 0
    /\ execs' = IF Jobs[job].time = 0 THEN execs
                ELSE execs \cup {[key |-> ExecKey(Jobs[job]), data |-> Marshall(Jobs[job])]}
    /\ Following(0)
    /\ UNCHANGED <<opens, failed, handles, clientVars>>

\* db_add_execCall; an error is logged, and the open calls follow all the same.
\* A put through a null handle ends the daemon.
PutExec ==
    /\ Busy /\ next = 0
    /\ LET k == ExecKey(Jobs[job])
           there == \E e \in execs : KeyComp(e.key, k) = 0
       IN  \/ /\ handles["daemon"]["execCalls"] = "null"
              /\ dpc' = "crashed"
              /\ UNCHANGED <<execs, job, next, failed, done>>
           \/ /\ handles["daemon"]["execCalls"] = "open"
              /\ execs' = IF there THEN execs
                          ELSE execs \cup {[key |-> k, data |-> Marshall(Jobs[job])]}
              /\ Following(0)
              /\ UNCHANGED failed
           \/ /\ \/ handles["daemon"]["execCalls"] = "created"
                 \/ handles["daemon"]["execCalls"] = "open" /\ "put" \in Faults
              /\ failed' = failed \cup {k}
              /\ Following(0)
              /\ UNCHANGED execs
    /\ UNCHANGED <<opens, handles, clientVars>>

\* Mutant of PutOpen: the last open call is left out.
PutOpenButLast ==
    /\ Busy /\ next # 0
    /\ LET c == Jobs[job].calls[next]
       IN  \E k \in OpenKeys(c) :
              opens' = IF next = Len(Jobs[job].calls) THEN opens
                       ELSE opens \cup {OpenRecord(k, Jobs[job], c)}
    /\ Following(next)
    /\ UNCHANGED <<execs, failed, handles, clientVars>>

\* db_add_openCall.  Behind PutExec the handle of openCalls.db is an open one.
PutOpen ==
    /\ Busy /\ next # 0
    /\ LET c == Jobs[job].calls[next]
       IN  \/ /\ \E k \in OpenKeys(c) :
                    opens' = IF \E o \in opens : o.key = k THEN opens
                             ELSE opens \cup {OpenRecord(k, Jobs[job], c)}
              /\ UNCHANGED failed
           \/ /\ "put" \in Faults
              /\ failed' = failed \cup {c}
              /\ UNCHANGED opens
    /\ Following(next)
    /\ UNCHANGED <<execs, handles, clientVars>>

-----------------------------------------------------------------------------
(* get_from_database and retrieveRecords_Path *)

ClientStarts(path) ==
    /\ cpc = "off"
    /\ cpc' = "set"
    /\ wanted' = path
    /\ CreateDatabase("client")
    /\ UNCHANGED <<daemonVars, cursor, key, chain, result, before>>

\* The cursor's order among the records of a path: that of their keys, byte
\* by byte, which for the small numbers of an instance is that of numbers.
Precedes(o1, o2) ==
    \/ o1.key.time < o2.key.time
    \/ o1.key.time = o2.key.time /\ o1.key.rest < o2.key.rest

\* The cursor goes to the first of `records', if there is one.
MoveTo(records) ==
    \/ /\ records = {}
       /\ cpc' = "done"
       /\ UNCHANGED <<cursor, key, chain>>
    \/ \E o \in records :
          /\ \A p \in records : p = o \/ Precedes(o, p)
          /\ cursor' = o
          /\ key' = o.eCallKey
          /\ chain' = <<>>
          /\ cpc' = "chain"

OfPath == {o \in opens : o.call.path = wanted}

\* The cursor and DB_SET.  A cursor that could not be made is an uninitialised
\* pointer, and an index that is not associated yields keys for records: what
\* the client does with either is undefined and taken for its end.
RetrieveSet ==
    /\ cpc = "set"
    /\ \/ /\ handles["client"]["openCalls"] # "open"
          /\ cpc' = "crashed"
          /\ UNCHANGED <<cursor, key, chain, before>>
       \/ /\ handles["client"]["openCalls"] = "open"
          /\ before' = opens
          /\ MoveTo(OfPath)
    /\ UNCHANGED <<daemonVars, handles, wanted, result>>

\* Mutant of RetrieveNext: the last record is left out.
RetrieveNextShort ==
    /\ cpc = "next"
    /\ MoveTo({o \in OfPath : Precedes(cursor, o) /\ \E p \in OfPath : Precedes(o, p)})
    /\ UNCHANGED <<daemonVars, handles, wanted, result, before>>

\* DB_NEXT_DUP
RetrieveNext ==
    /\ cpc = "next"
    /\ MoveTo({o \in OfPath : Precedes(cursor, o)})
    /\ UNCHANGED <<daemonVars, handles, wanted, result, before>>

\* One turn of the loop over the exec calls: db_get_execCall_by_key, and on to
\* the parentEcall of what was found, as far as there is one.
RetrieveExec ==
    /\ cpc = "chain"
    /\ \/ /\ key.pid = 0
          /\ result' = Append(result, [open |-> cursor, execCalls |-> chain])
          /\ cpc' = "next"
          /\ UNCHANGED <<key, chain>>
       \/ /\ key.pid # 0
          /\ handles["client"]["execCalls"] = "null"
          /\ cpc' = "crashed"
          /\ UNCHANGED <<key, chain, result>>
       \/ /\ key.pid # 0
          /\ handles["client"]["execCalls"] = "open"
          /\ \E eCall \in ExecCallByKey(key) :
                /\ chain' = Append(chain, eCall)
                /\ key' = eCall.parentEcall
          /\ UNCHANGED <<cpc, result>>
       \/ /\ key.pid # 0
          /\ \/ handles["client"]["execCalls"] = "created"
             \/ handles["client"]["execCalls"] = "open" /\ ExecCallByKey(key) = {}
          /\ key' = [key EXCEPT !.pid = 0]
          /\ UNCHANGED <<chain, cpc, result>>
    /\ UNCHANGED <<daemonVars, handles, wanted, cursor, before>>

\* handle_signal closes the databases and returns.  The client goes on with
\* handles that were freed, which is undefined and taken for its end.
HandleSignal ==
    /\ "signal" \in Faults
    /\ cpc \in {"set", "chain", "next", "done"}
    /\ cpc' = "crashed"
    /\ Close("client")
    /\ UNCHANGED <<daemonVars, wanted, cursor, key, chain, result, before>>

\* The output, and the end of the client
ClientEnds ==
    /\ cpc \in {"done", "crashed"}
    /\ cpc' = "off"
    /\ Close("client")
    /\ wanted' = {} /\ cursor' = {} /\ key' = ZeroKey /\ chain' = <<>>
    /\ result' = <<>> /\ before' = {}
    /\ UNCHANGED daemonVars

-----------------------------------------------------------------------------
Next ==
    \/ DaemonStarts
    \/ DaemonStops
    \/ PutExec
    \/ PutOpen
    \/ \E path \in Paths : ClientStarts(path)
    \/ RetrieveSet
    \/ RetrieveNext
    \/ RetrieveExec
    \/ HandleSignal
    \/ ClientEnds

Spec == Init /\ [][Next]_vars

-----------------------------------------------------------------------------
(* Properties *)

\* The variables have their types; the open call to put next is one of the
\* process in hand.
TypeOK ==
    /\ job \in 1..(Len(Jobs) + 1)
    /\ next \in Nat
    /\ next # 0 => job <= Len(Jobs) /\ next <= Len(Jobs[job].calls)
    /\ dpc \in {"down", "up", "crashed"}
    /\ cpc \in {"off", "set", "chain", "next", "done", "crashed"}
    /\ handles \in [{"daemon", "client"} -> [Tables -> {"null", "created", "open"}]]
    /\ done \subseteq 1..Len(Jobs)

Stored(k) == \E e \in execs : KeyComp(e.key, k) = 0

\* Whatever crashes between two puts of surv_database_dispatch and whoever
\* reads in the meantime, an open call in openCalls.db has its exec call in
\* execCalls.db, unless the put of that exec call was seen to fail.
NoOrphans == \A o \in opens : Stored(o.eCallKey) \/ o.eCallKey \in failed

Recorded(c) ==
    \/ c \in failed
    \/ \E o \in opens : o.key.time = c.time + BootTime /\ o.key.suffix = c.path.suffix

\* Once surv_database_dispatch has gone through a process, each of its open
\* calls is in openCalls.db, unless its put failed or it has the time stamp
\* and the suffix of another open call that is (the key has no more).
AllStored == \A i \in done : \A j \in 1..Len(Jobs[i].calls) : Recorded(Jobs[i].calls[j])

\* retrieveRecords_Path returns every open call of the path that was archived
\* when it set its cursor, and none twice, while the daemon goes on putting
\* open calls of the same path in front of the cursor and behind it.
RetrievalComplete ==
    /\ cpc = "done" =>
          \A o \in before : o.call.path = wanted => \E i \in 1..Len(result) : result[i].open = o
    /\ \A i, j \in 1..Len(result) : result[i].open = result[j].open => i = j

Caller(c) == CHOOSE i \in 1..Len(Jobs) : \E j \in 1..Len(Jobs[i].calls) : Jobs[i].calls[j] = c

\* In a retrieved record the first exec call is that of the process which
\* made the open call (database.h, db_full_Record), and it is there unless
\* its put failed or the client could not open execCalls.db.  Processes known
\* by open calls only are left out: all those of one pid share a key.
CallerFirst ==
    \A i \in 1..Len(result) :
        LET r == result[i]
            p == Jobs[Caller(r.open.call)]
        IN  \/ p.time = 0
            \/ r.execCalls = <<>> /\ (\/ r.open.eCallKey \in failed
                                     \/ handles["client"]["execCalls"] # "open")
            \/ r.execCalls # <<>> /\ r.execCalls[1].cmd = p.cmd

\* database.h says of a full record: "where th first execCall is the one that
\* called the open syscall and next are the parent processes".
ParentsFollow ==
    \A i \in 1..Len(result) :
        LET r == result[i]
            n == Caller(r.open.call)
        IN  \A q \in 1..(n - 1) :
               (/\ r.execCalls # <<>>
                /\ Jobs[q].pid = Jobs[n].ppid /\ Jobs[q].time = Jobs[n].ptime
                /\ Stored(ExecKey(Jobs[q])))
                  => Len(r.execCalls) > 1 /\ r.execCalls[2].cmd = Jobs[q].cmd
=============================================================================

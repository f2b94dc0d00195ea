--------------------------- MODULE DatabaseProofs ---------------------------
(***************************************************************************)
(* Proofs about Database, for every sequence of processes, every path and  *)
(* every fault.  The daemon: types, NoOrphans and AllStored, by IInv.  The *)
(* client: RetrievalComplete and CallerFirst, by CInv, which adds what is  *)
(* in the archive (ArchInv) and where the cursor stands (ClientInv).       *)
(***************************************************************************)
EXTENDS Database, TLAPS

\* The exec call of the process in hand has been put, or its put failed,
\* before the first of its open calls is.
CallerPutFirst ==
    next # 0 => Stored(ExecKey(Jobs[job])) \/ ExecKey(Jobs[job]) \in failed

\* The open calls in front of the one to put next have been gone through.
PrefixRecorded ==
    next # 0 => \A j \in 1..(next - 1) : Recorded(Jobs[job].calls[j])

\* A daemon that crashed had a process in hand.
CrashedInHand == dpc = "crashed" => job <= Len(Jobs)

IInv == TypeOK /\ CrashedInHand /\ NoOrphans /\ CallerPutFirst /\ AllStored /\ PrefixRecorded

\* Jobs is a sequence as far as the proofs look at it.
LEMMA LenNat == Len(Jobs) \in Nat
BY JobsAssumption

\* The key of a process is equal to itself in the order of execCalls.db.
LEMMA KeyReflexive == ASSUME NEW i \in 1..Len(Jobs) PROVE KeyComp(ExecKey(Jobs[i]), ExecKey(Jobs[i])) = 0
<1>1. Jobs[i].pid \in Int
  BY JobsAssumption
<1> QED
  BY <1>1 DEF KeyComp, ExecKey

\* What is stored stays stored: no operation of database.c deletes a record.
LEMMA StoredStays == ASSUME NEW k, Stored(k), execs \subseteq execs' PROVE Stored(k)'
BY DEF Stored

\* An open call that was gone through stays so.
LEMMA RecordedStays ==
    ASSUME NEW c, Recorded(c), opens \subseteq opens', failed \subseteq failed'
    PROVE  Recorded(c)'
BY DEF Recorded

\* Every step only adds to the archive and to the history of failed puts.
LEMMA OnlyGrows ==
    ASSUME IInv, [Next]_vars
    PROVE  execs \subseteq execs' /\ opens \subseteq opens' /\ failed \subseteq failed'
<1>1. CASE DaemonStarts  BY <1>1 DEF DaemonStarts
<1>2. CASE DaemonStops  BY <1>2 DEF DaemonStops
<1>3. CASE PutExec  BY <1>3 DEF PutExec
<1>4. CASE PutOpen  BY <1>4 DEF PutOpen
<1>5. ASSUME NEW path \in Paths, ClientStarts(path)
      PROVE  execs \subseteq execs' /\ opens \subseteq opens' /\ failed \subseteq failed'
  BY <1>5 DEF ClientStarts, daemonVars
<1>6. CASE RetrieveSet  BY <1>6 DEF RetrieveSet, daemonVars
<1>7. CASE RetrieveNext  BY <1>7 DEF RetrieveNext, daemonVars
<1>8. CASE RetrieveExec  BY <1>8 DEF RetrieveExec, daemonVars
<1>9. CASE ClientEnds  BY <1>9 DEF ClientEnds, daemonVars
<1>10. CASE HandleSignal  BY <1>10 DEF HandleSignal, daemonVars
<1>11. CASE UNCHANGED vars  BY <1>11 DEF vars, daemonVars
<1> QED
  BY <1>1, <1>2, <1>3, <1>4, <1>5, <1>6, <1>7, <1>8, <1>9, <1>10, <1>11 DEF Next

-----------------------------------------------------------------------------
\* Initially nothing is archived and nothing is in hand.
LEMMA InitIInv == Init => IInv
<1> SUFFICES ASSUME Init PROVE IInv
  OBVIOUS
<1>1. Len(Jobs) \in Nat
  BY LenNat
<1>2. TypeOK
  BY <1>1 DEF Init, TypeOK, NoHandles, Tables
<1> QED
  BY <1>2 DEF Init, IInv, CrashedInHand, NoOrphans, CallerPutFirst, AllStored, PrefixRecorded

\* A step that leaves the daemon alone and keeps the types keeps the rest.
LEMMA ClientStep ==
    ASSUME IInv, UNCHANGED daemonVars,
           cpc' \in {"off", "set", "chain", "next", "done", "crashed"},
           handles' \in [{"daemon", "client"} -> [Tables -> {"null", "created", "open"}]]
    PROVE  IInv'
BY DEF IInv, daemonVars, TypeOK, CrashedInHand, NoOrphans, CallerPutFirst, AllStored,
       PrefixRecorded, Stored, Recorded

\* createDatabase leaves handles of their types.
LEMMA CreateType ==
    ASSUME TypeOK, NEW who \in {"daemon", "client"}, CreateDatabase(who)
    PROVE  handles' \in [{"daemon", "client"} -> [Tables -> {"null", "created", "open"}]]
BY DEF TypeOK, CreateDatabase, CreateOutcomes

\* Going on to the next open call: the position stays within the process in
\* hand, and a process is done only behind its last open call.
LEMMA FollowingStep ==
    ASSUME IInv, Busy, NEW p, p = job,
           NEW n \in Nat, n = next, n <= Len(Jobs[p].calls), Following(n),
           execs \subseteq execs', opens \subseteq opens', failed \subseteq failed',
           NoOrphans',
           Stored(ExecKey(Jobs[p]))' \/ ExecKey(Jobs[p]) \in failed',
           n # 0 => Recorded(Jobs[p].calls[n])',
           UNCHANGED <<cpc, handles>>
    PROVE  IInv'
<1>1. p \in 1..Len(Jobs) /\ Len(Jobs) \in Nat /\ Len(Jobs[p].calls) \in Nat
  BY LenNat, JobsAssumption DEF IInv, TypeOK, Busy
<1>2. TypeOK'
  BY <1>1 DEF IInv, TypeOK, Following, Busy
<1>3. CrashedInHand'
  BY DEF Following, Busy, CrashedInHand
<1>4. CallerPutFirst'
  BY <1>1 DEF Following, CallerPutFirst
<1>5. \A j \in 1..n : Recorded(Jobs[p].calls[j])'
  <2> SUFFICES ASSUME NEW j \in 1..n PROVE Recorded(Jobs[p].calls[j])'
    OBVIOUS
  <2>1. CASE j = n  BY <2>1
  <2>2. CASE j # n
    <3>1. j \in 1..(next - 1) /\ next # 0
      BY <2>2
    <3>2. Recorded(Jobs[p].calls[j])
      BY <3>1 DEF IInv, PrefixRecorded
    <3> QED
      BY <3>2, RecordedStays
  <2> QED
    BY <2>1, <2>2
<1>6. PrefixRecorded'
  BY <1>5, <1>1 DEF Following, PrefixRecorded
<1>7. AllStored'
  <2> SUFFICES ASSUME NEW i \in done', NEW j \in 1..Len(Jobs[i].calls)
               PROVE  Recorded(Jobs[i].calls[j])'
    BY DEF AllStored
  <2>1. CASE i \in done
    <3>1. Recorded(Jobs[i].calls[j])
      BY <2>1 DEF IInv, AllStored
    <3> QED
      BY <3>1, RecordedStays
  <2>2. CASE i \notin done
    <3>1. i = p /\ n = Len(Jobs[p].calls)
      BY <2>2 DEF Following
    <3> QED
      BY <3>1, <1>5
  <2> QED
    BY <2>1, <2>2
<1> QED
  BY <1>2, <1>3, <1>4, <1>6, <1>7 DEF IInv

-----------------------------------------------------------------------------
\* A start of the daemon finds no process in hand.
LEMMA StartStep == ASSUME IInv, DaemonStarts PROVE IInv'
<1>1. handles' \in [{"daemon", "client"} -> [Tables -> {"null", "created", "open"}]]
  BY CreateType DEF IInv, DaemonStarts
<1>2. TypeOK'
  BY <1>1 DEF IInv, TypeOK, DaemonStarts, clientVars
<1> QED
  BY <1>2 DEF IInv, DaemonStarts, CrashedInHand, NoOrphans, CallerPutFirst, AllStored,
              PrefixRecorded, Stored, Recorded

\* An end or a crash of the daemon drops the process in hand and no record.
LEMMA StopStep == ASSUME IInv, DaemonStops PROVE IInv'
<1>1. handles' \in [{"daemon", "client"} -> [Tables -> {"null", "created", "open"}]]
  BY DEF IInv, TypeOK, DaemonStops, Close, NoHandles
<1>2. TypeOK'
  BY <1>1, LenNat DEF IInv, TypeOK, CrashedInHand, DaemonStops, clientVars
<1> QED
  BY <1>2 DEF IInv, DaemonStops, CrashedInHand, NoOrphans, CallerPutFirst, AllStored,
              PrefixRecorded, Stored, Recorded

\* The put of an exec call, also one that fails or crashes.
LEMMA PutExecStep == ASSUME IInv, PutExec, [Next]_vars PROVE IInv'
<1>1. PICK p : p = job
  OBVIOUS
<1>2. p \in 1..Len(Jobs) /\ Len(Jobs[p].calls) \in Nat /\ next = 0
  BY <1>1, LenNat, JobsAssumption DEF IInv, TypeOK, PutExec, Busy
<1>3. execs \subseteq execs' /\ opens \subseteq opens' /\ failed \subseteq failed'
  BY OnlyGrows
<1>4. NoOrphans'
  BY <1>3, StoredStays DEF IInv, NoOrphans, PutExec
<1>5. CASE handles["daemon"]["execCalls"] = "null"
  <2>1. /\ UNCHANGED <<execs, opens, job, next, failed, done, handles, cpc>>
        /\ dpc' = "crashed" /\ job <= Len(Jobs)
    BY <1>5 DEF PutExec, Busy, clientVars
  <2> QED
    BY <2>1 DEF IInv, TypeOK, CrashedInHand, NoOrphans, CallerPutFirst, AllStored,
                PrefixRecorded, Stored, Recorded
<1>6. CASE handles["daemon"]["execCalls"] # "null"
  <2>1. Following(0) /\ Busy /\ UNCHANGED <<cpc, handles>>
    BY <1>6 DEF PutExec, clientVars
  <2>2. Stored(ExecKey(Jobs[p]))' \/ ExecKey(Jobs[p]) \in failed'
    <3>1. KeyComp(ExecKey(Jobs[p]), ExecKey(Jobs[p])) = 0
      BY <1>2, KeyReflexive
    <3>2. \/ ExecKey(Jobs[p]) \in failed'
          \/ /\ \E e \in execs : KeyComp(e.key, ExecKey(Jobs[p])) = 0
             /\ execs' = execs
          \/ [key |-> ExecKey(Jobs[p]), data |-> Marshall(Jobs[p])] \in execs'
      BY <1>1, <1>6 DEF PutExec
    <3> QED
      BY <3>1, <3>2 DEF Stored
  <2> QED
    BY <1>1, <1>2, <1>3, <1>4, <2>1, <2>2, FollowingStep
<1> QED
  BY <1>5, <1>6

\* The put of an open call, also one that fails or meets its own key.
LEMMA PutOpenStep == ASSUME IInv, PutOpen, [Next]_vars PROVE IInv'
<1>1. PICK p : p = job
  OBVIOUS
<1>2. PICK n : n = next
  OBVIOUS
<1>3. /\ p \in 1..Len(Jobs) /\ n \in Nat /\ n # 0 /\ n <= Len(Jobs[p].calls)
      /\ Busy /\ Following(n) /\ UNCHANGED <<execs, cpc, handles>>
  BY <1>1, <1>2, LenNat DEF IInv, TypeOK, PutOpen, Busy, clientVars
<1>4. execs \subseteq execs' /\ opens \subseteq opens' /\ failed \subseteq failed'
  BY OnlyGrows
<1>5. Stored(ExecKey(Jobs[p])) \/ ExecKey(Jobs[p]) \in failed
  BY <1>1, <1>2, <1>3 DEF IInv, CallerPutFirst
<1>6. Stored(ExecKey(Jobs[p]))' \/ ExecKey(Jobs[p]) \in failed'
  BY <1>4, <1>5, StoredStays
<1>7. NoOrphans'
  <2> SUFFICES ASSUME NEW o \in opens' PROVE Stored(o.eCallKey)' \/ o.eCallKey \in failed'
    BY DEF NoOrphans
  <2>1. o \in opens \/ o.eCallKey = ExecKey(Jobs[p])
    BY <1>1, <1>2 DEF PutOpen, OpenRecord
  <2>2. CASE o \in opens
    BY <2>2, <1>4, StoredStays DEF IInv, NoOrphans
  <2> QED
    BY <2>1, <2>2, <1>6
<1>8. Recorded(Jobs[p].calls[n])'
  <2> DEFINE c == Jobs[p].calls[n]
  <2>1. CASE c \in failed'  BY <2>1 DEF Recorded
  <2>2. CASE \E k \in OpenKeys(c) : \E o \in opens' : o.key = k
    <3>1. PICK k \in OpenKeys(c), o \in opens' : o.key = k
      BY <2>2
    <3>2. k.time = c.time + BootTime /\ k.suffix = c.path.suffix
      BY <3>1 DEF OpenKeys
    <3> QED
      BY <3>1, <3>2 DEF Recorded
  <2>3. \/ c \in failed'
        \/ \E k \in OpenKeys(c) : \E o \in opens' : o.key = k
    BY <1>1, <1>2 DEF PutOpen, OpenRecord
  <2> QED
    BY <2>1, <2>2, <2>3
<1> QED
  BY <1>1, <1>2, <1>3, <1>4, <1>6, <1>7, <1>8, FollowingStep

\* The inductive step: one case for each action.
LEMMA NextIInv == IInv /\ [Next]_vars => IInv'
<1> SUFFICES ASSUME IInv, [Next]_vars PROVE IInv'
  OBVIOUS
<1>1. CASE DaemonStarts  BY <1>1, StartStep
<1>2. CASE DaemonStops  BY <1>2, StopStep
<1>3. CASE PutExec  BY <1>3, PutExecStep
<1>4. CASE PutOpen  BY <1>4, PutOpenStep
<1>5. ASSUME NEW path \in Paths, ClientStarts(path) PROVE IInv'
  <2>1. handles' \in [{"daemon", "client"} -> [Tables -> {"null", "created", "open"}]]
    BY <1>5, CreateType DEF IInv, ClientStarts
  <2> QED
    BY <1>5, <2>1, ClientStep DEF ClientStarts
<1>6. CASE RetrieveSet
  BY <1>6, ClientStep DEF IInv, TypeOK, RetrieveSet, MoveTo
<1>7. CASE RetrieveNext
  BY <1>7, ClientStep DEF IInv, TypeOK, RetrieveNext, MoveTo
<1>8. CASE RetrieveExec
  <2>1. UNCHANGED <<daemonVars, handles>> /\ cpc' \in {"chain", "next", "crashed"}
    BY <1>8, Zenon DEF RetrieveExec
  <2> QED
    BY <2>1, ClientStep DEF IInv, TypeOK
<1>9. CASE ClientEnds
  BY <1>9, ClientStep DEF IInv, TypeOK, ClientEnds, Close, NoHandles
<1>10. CASE HandleSignal
  BY <1>10, ClientStep DEF IInv, TypeOK, HandleSignal, Close, NoHandles
<1>11. CASE UNCHANGED vars
  BY <1>11, ClientStep DEF IInv, TypeOK, vars, clientVars
<1> QED
  BY <1>1, <1>2, <1>3, <1>4, <1>5, <1>6, <1>7, <1>8, <1>9, <1>10, <1>11 DEF Next

\* Whatever fails or crashes between the puts of surv_database_dispatch, no
\* open call is archived without its exec call, unless the put of that exec
\* call was seen to fail.
THEOREM ArchiveNoOrphans == Spec => []NoOrphans
<1>1. IInv => NoOrphans
  BY DEF IInv
<1> QED
  BY InitIInv, NextIInv, <1>1, PTL DEF Spec

\* Every open call of a process that surv_database_dispatch has gone through
\* is archived, as far as its key tells it from others and its put succeeded.
THEOREM ArchiveAllStored == Spec => []AllStored
<1>1. IInv => AllStored
  BY DEF IInv
<1> QED
  BY InitIInv, NextIInv, <1>1, PTL DEF Spec

\* surv_database_dispatch stays within the open calls of the process it puts,
\* and the handles and program counters of daemon and client keep their types.
THEOREM ArchiveTypes == Spec => []TypeOK
<1>1. IInv => TypeOK
  BY DEF IInv
<1> QED
  BY InitIInv, NextIInv, <1>1, PTL DEF Spec

-----------------------------------------------------------------------------
(* What is in the archive *)

\* An open call in openCalls.db is one of a process, under a key of its own
\* and with the key of that process.
OpenSound ==
    \A o \in opens :
        /\ o.key.time \in Nat /\ o.key.rest \in Nat
        /\ o.key = [time |-> o.key.time, suffix |-> o.call.path.suffix, rest |-> o.key.rest]
        /\ \E i \in 1..Len(Jobs) :
              /\ o.eCallKey = ExecKey(Jobs[i])
              /\ \E j \in 1..Len(Jobs[i].calls) : o.call = Jobs[i].calls[j]

KeysUnique == \A o, p \in opens : o.key = p.key => o = p

ExecSound ==
    \A e \in execs :
        \E i \in 1..Len(Jobs) : e.key = ExecKey(Jobs[i]) /\ e.data = Marshall(Jobs[i])

ArchInv == OpenSound /\ KeysUnique /\ ExecSound

\* The keys that db_openCall_genKey may make of a call
LEMMA KeyShape ==
    ASSUME NEW i \in 1..Len(Jobs), NEW j \in 1..Len(Jobs[i].calls), NEW k \in OpenKeys(Jobs[i].calls[j])
    PROVE  /\ k.time \in Nat /\ k.rest \in Nat
           /\ k = [time |-> k.time, suffix |-> Jobs[i].calls[j].path.suffix, rest |-> k.rest]
<1> DEFINE c == Jobs[i].calls[j]
<1>1. c.time + BootTime \in Nat
  BY JobsAssumption, BootAssumption
<1> HIDE DEF c
<1>2. PICK r \in IF c.path.fills THEN {0} ELSE Rests :
          k = [time |-> c.time + BootTime, suffix |-> c.path.suffix, rest |-> r]
  BY DEF OpenKeys, c
<1>3. (IF c.path.fills THEN {0} ELSE Rests) \subseteq Nat
  BY RestsAssumption
<1>4. r \in Nat
  BY <1>2, <1>3, Zenon
<1> QED
  BY <1>1, <1>2, <1>4 DEF c

LEMMA ArchStep == ASSUME IInv, ArchInv, [Next]_vars PROVE ArchInv'
<1>1. CASE PutExec
  <2>1. job \in 1..Len(Jobs)
    BY <1>1, LenNat DEF IInv, TypeOK, PutExec, Busy
  <2>2. \A e \in execs' : e \in execs \/ e = [key |-> ExecKey(Jobs[job]), data |-> Marshall(Jobs[job])]
    BY <1>1 DEF PutExec
  <2>3. \A e \in execs' : \/ e \in execs
                          \/ e.key = ExecKey(Jobs[job]) /\ e.data = Marshall(Jobs[job])
    BY <2>2
  <2>4. opens' = opens
    BY <1>1 DEF PutExec
  <2> QED
    BY <2>1, <2>3, <2>4 DEF ArchInv, OpenSound, KeysUnique, ExecSound
<1>2. CASE PutOpen
  <2> DEFINE c == Jobs[job].calls[next]
  <2>1. job \in 1..Len(Jobs) /\ next \in 1..Len(Jobs[job].calls) /\ execs' = execs
    BY <1>2, LenNat, JobsAssumption DEF IInv, TypeOK, PutOpen, Busy
  <2>2. \/ opens' = opens
        \/ \E k \in OpenKeys(c) : /\ \A o \in opens : o.key # k
                                  /\ opens' = opens \cup {OpenRecord(k, Jobs[job], c)}
    BY <1>2 DEF PutOpen
  <2>3. CASE opens' = opens
    BY <2>1, <2>3 DEF ArchInv, OpenSound, KeysUnique, ExecSound
  <2>4. ASSUME NEW k \in OpenKeys(c), \A o \in opens : o.key # k,
               opens' = opens \cup {OpenRecord(k, Jobs[job], c)}
        PROVE  ArchInv'
    <3> DEFINE n == OpenRecord(k, Jobs[job], c)
    <3>1. n.key = k /\ n.eCallKey = ExecKey(Jobs[job]) /\ n.call = c
      BY DEF OpenRecord
    <3>2. k.time \in Nat /\ k.rest \in Nat /\ k = [time |-> k.time, suffix |-> c.path.suffix, rest |-> k.rest]
      BY <2>1, KeyShape
    <3> HIDE DEF n, c
    <3>3. \A o \in opens' : o \in opens \/ o = n
      BY <2>4 DEF n
    <3>4. OpenSound'
      <4> SUFFICES ASSUME NEW o \in opens'
                   PROVE  /\ o.key.time \in Nat /\ o.key.rest \in Nat
                          /\ o.key = [time |-> o.key.time, suffix |-> o.call.path.suffix, rest |-> o.key.rest]
                          /\ \E i \in 1..Len(Jobs) :
                                /\ o.eCallKey = ExecKey(Jobs[i])
                                /\ \E j \in 1..Len(Jobs[i].calls) : o.call = Jobs[i].calls[j]
        BY DEF OpenSound
      <4>1. CASE o \in opens
        BY <4>1 DEF ArchInv, OpenSound
      <4>2. CASE o = n
        BY <2>1, <3>1, <3>2, <4>2 DEF c
      <4> QED
        BY <3>3, <4>1, <4>2
    <3>5. KeysUnique'
      BY <2>4, <3>1, <3>3 DEF ArchInv, KeysUnique
    <3>6. ExecSound'
      BY <2>1 DEF ArchInv, ExecSound
    <3> QED
      BY <3>4, <3>5, <3>6 DEF ArchInv
  <2> QED
    BY <2>2, <2>3, <2>4
<1>3. ASSUME execs' = execs, opens' = opens PROVE ArchInv'
  BY <1>3 DEF ArchInv, OpenSound, KeysUnique, ExecSound
<1>4. CASE DaemonStarts \/ DaemonStops
  BY <1>3, <1>4 DEF DaemonStarts, DaemonStops
<1>5. ASSUME NEW path \in Paths, ClientStarts(path) PROVE ArchInv'
  BY <1>3, <1>5 DEF ClientStarts, daemonVars
<1>6. CASE RetrieveSet \/ RetrieveNext \/ RetrieveExec \/ HandleSignal \/ ClientEnds
  <2>1. UNCHANGED daemonVars
    BY <1>6, Zenon DEF RetrieveSet, RetrieveNext, RetrieveExec, HandleSignal, ClientEnds
  <2> QED
    BY <1>3, <2>1 DEF daemonVars
<1>7. CASE UNCHANGED vars
  BY <1>3, <1>7 DEF vars, daemonVars
<1> QED
  BY <1>1, <1>2, <1>4, <1>5, <1>6, <1>7 DEF Next

-----------------------------------------------------------------------------
(* What the client retrieves *)

\* The exec calls that a lookup may find, and the records made of them
Chains == {<<>>} \cup {<<Unmarshall(Marshall(Jobs[i]))>> : i \in 1..Len(Jobs)}

Records == [open : opens, execCalls : Chains]

\* The exec call under the key of `o' was found.
Found(o, ch) == \E e \in execs : ch = <<Unmarshall(e.data)>> /\ KeyComp(e.key, o.eCallKey) = 0

\* There is a reason for which none was.
Excused(o) == o.eCallKey \in failed \/ handles["client"]["execCalls"] # "open"

Resolved(o, ch) == Found(o, ch) \/ (ch = <<>> /\ Excused(o))

AllResolved == \A i \in 1..Len(result) : Resolved(result[i].open, result[i].execCalls)

Got(o) == \E i \in 1..Len(result) : result[i].open = o

NoneTwice == \A i, j \in 1..Len(result) : result[i].open = result[j].open => i = j

\* The client has not read anything yet.
Fresh == cpc \in {"off", "set"} => result = <<>>

\* What was archived when the cursor was set is retrieved, or the cursor is at
\* it, or still comes to it.
Ahead ==
    cpc \in {"chain", "next"} =>
        \A o \in before : o.call.path = wanted =>
            Got(o) \/ (o = cursor /\ cpc = "chain") \/ Precedes(cursor, o)

\* What has been retrieved is behind the cursor, or under it.
Behind ==
    cpc \in {"chain", "next"} =>
        /\ cursor \in opens
        /\ \A i \in 1..Len(result) : \/ result[i].open = cursor /\ cpc = "next"
                                     \/ Precedes(result[i].open, cursor)

AllGot == cpc = "done" => \A o \in before : o.call.path = wanted => Got(o)

\* The turns of the loop over the exec calls: not looked up yet, found, or not
\* found.
Lookup ==
    cpc = "chain" =>
        \/ chain = <<>> /\ key = cursor.eCallKey
        \/ chain \in Chains /\ key.pid = 0 /\ Resolved(cursor, chain)

ResultType == result \in Seq(Records) /\ before \subseteq opens

ClientInv ==
    /\ ResultType /\ AllResolved /\ NoneTwice /\ Fresh
    /\ Ahead /\ Behind /\ AllGot /\ Lookup

CInv == IInv /\ ArchInv /\ ClientInv

\* The cursor's order is one.
LEMMA PrecedesOrder ==
    ASSUME OpenSound, NEW o1 \in opens, NEW o2 \in opens, NEW o3 \in opens
    PROVE  /\ ~Precedes(o1, o1)
           /\ Precedes(o1, o2) /\ Precedes(o2, o3) => Precedes(o1, o3)
<1>1. /\ o1.key.time \in Nat /\ o1.key.rest \in Nat
      /\ o2.key.time \in Nat /\ o2.key.rest \in Nat
      /\ o3.key.time \in Nat /\ o3.key.rest \in Nat
  BY DEF OpenSound
<1> QED
  BY <1>1 DEF Precedes

LEMMA ResultFacts ==
    ASSUME ResultType
    PROVE  /\ Len(result) \in Nat
           /\ \A i \in 1..Len(result) : result[i].open \in opens /\ result[i].execCalls \in Chains
<1>1. result \in Seq(Records)
  BY DEF ResultType
<1>2. Len(result) \in Nat /\ \A i \in 1..Len(result) : result[i] \in Records
  BY <1>1
<1> QED
  BY <1>2 DEF Records

LEMMA ResultGrows ==
    ASSUME ResultType, opens \subseteq opens', UNCHANGED <<result, before>>
    PROVE  ResultType'
<1>1. Records \subseteq Records'
  BY DEF Records
<1>2. result \in Seq(Records')
  <2> DEFINE R == Records
             T == Records'
  <2>1. result \in Seq(R) /\ R \subseteq T
    BY <1>1 DEF ResultType
  <2> HIDE DEF R, T
  <2>2. result \in Seq(T)
    BY <2>1
  <2> QED
    BY <2>2 DEF T
<1> QED
  BY <1>2 DEF ResultType

LEMMA ResolvedStays ==
    ASSUME NEW o, NEW ch, Resolved(o, ch), execs \subseteq execs', failed \subseteq failed',
           \/ handles'["client"] = handles["client"]
           \/ handles'["client"]["execCalls"] # "open"
    PROVE  Resolved(o, ch)'
BY DEF Resolved, Found, Excused

\* A step of the daemon only adds records, in front of the cursor or behind it.
LEMMA DaemonKeeps ==
    ASSUME ClientInv, UNCHANGED clientVars,
           execs \subseteq execs', opens \subseteq opens', failed \subseteq failed',
           handles'["client"] = handles["client"]
    PROVE  ClientInv'
<1> USE DEF clientVars
<1>1. ResultType'
  BY ResultGrows DEF ClientInv
<1>2. AllResolved'
  <2> SUFFICES ASSUME NEW i \in 1..Len(result) PROVE Resolved(result[i].open, result[i].execCalls)'
    BY DEF AllResolved
  <2>1. Resolved(result[i].open, result[i].execCalls)
    BY DEF ClientInv, AllResolved
  <2>2. \A o, ch : Resolved(o, ch) => Resolved(o, ch)'
    BY ResolvedStays
  <2>3. result' = result
    OBVIOUS
  <2> QED
    BY <2>1, <2>2, <2>3
<1>3. NoneTwice' /\ Fresh' /\ Ahead' /\ AllGot'
  BY DEF ClientInv, NoneTwice, Fresh, Ahead, AllGot, Got, Precedes
<1>4. Behind'
  BY DEF ClientInv, Behind, Precedes
<1>5. Lookup'
  <2>1. \A o, ch : Resolved(o, ch) => Resolved(o, ch)'
    BY ResolvedStays
  <2> QED
    BY <2>1 DEF ClientInv, Lookup, Chains
<1> QED
  BY <1>1, <1>2, <1>3, <1>4, <1>5 DEF ClientInv

\* A step that leaves the archive alone and reads nothing keeps what was read.
LEMMA ReadingKeeps ==
    ASSUME ClientInv, UNCHANGED daemonVars, UNCHANGED result, before' \in {before, opens},
           \/ handles'["client"] = handles["client"]
           \/ handles'["client"]["execCalls"] # "open"
    PROVE  ResultType' /\ AllResolved' /\ NoneTwice'
<1> USE DEF daemonVars
<1>1. ResultType'
  <2>1. Records' = Records
    BY DEF Records, Chains
  <2> QED
    BY <2>1 DEF ClientInv, ResultType
<1>2. AllResolved'
  <2> SUFFICES ASSUME NEW i \in 1..Len(result) PROVE Resolved(result[i].open, result[i].execCalls)'
    BY DEF AllResolved
  <2>1. Resolved(result[i].open, result[i].execCalls)
    BY DEF ClientInv, AllResolved
  <2>2. \A o, ch : Resolved(o, ch) => Resolved(o, ch)'
    BY ResolvedStays
  <2>3. result' = result
    OBVIOUS
  <2> QED
    BY <2>1, <2>2, <2>3
<1>3. NoneTwice'
  BY DEF ClientInv, NoneTwice
<1> QED
  BY <1>1, <1>2, <1>3

\* A client with an empty result that is not reading
LEMMA IdleClient ==
    ASSUME result' = <<>>, before' \subseteq opens', cpc' \in {"off", "set", "crashed"}
    PROVE  ClientInv'
<1>1. Len(result') = 0 /\ result' \in Seq(Records')
  OBVIOUS
<1>2. 1..0 = {}
  OBVIOUS
<1> QED
  BY <1>1, <1>2 DEF ClientInv, ResultType, AllResolved, NoneTwice, Fresh, Ahead, Behind, AllGot, Lookup

\* DB_SET: the cursor goes to the first record of the path.
LEMMA SetStep == ASSUME CInv, RetrieveSet PROVE ClientInv'
<1>1. /\ UNCHANGED daemonVars /\ UNCHANGED <<result, handles, wanted>> /\ result = <<>>
  BY DEF RetrieveSet, CInv, ClientInv, Fresh
<1>2. CASE handles["client"]["openCalls"] # "open"
  <2>1. cpc' = "crashed" /\ before' = before /\ opens' = opens
    BY <1>1, <1>2 DEF RetrieveSet, daemonVars
  <2> QED
    BY <1>1, <2>1, IdleClient DEF CInv, ClientInv, ResultType
<1>3. CASE handles["client"]["openCalls"] = "open"
  <2>1. before' = opens /\ MoveTo(OfPath)
    BY <1>3 DEF RetrieveSet
  <2>2. ResultType' /\ AllResolved' /\ NoneTwice'
    BY <1>1, <2>1, ReadingKeeps DEF CInv
  <2>3. Len(result') = 0 /\ 1..0 = {}
    BY <1>1
  <2>4. \A o \in before' : o.call.path = wanted' => o \in OfPath
    BY <1>1, <2>1 DEF OfPath
  <2>5. CASE OfPath = {} /\ cpc' = "done"
    BY <2>2, <2>4, <2>5 DEF ClientInv, Fresh, Ahead, Behind, AllGot, Lookup
  <2>6. ASSUME NEW o \in OfPath, \A p \in OfPath : p = o \/ Precedes(o, p),
               cursor' = o, key' = o.eCallKey, chain' = <<>>, cpc' = "chain"
        PROVE  ClientInv'
    <3>1. Ahead'
      BY <2>4, <2>6 DEF Ahead, Precedes
    <3>2. Behind'
      BY <1>1, <2>3, <2>6 DEF Behind, OfPath, daemonVars
    <3>3. Lookup'
      BY <2>6 DEF Lookup
    <3> QED
      BY <2>2, <2>6, <3>1, <3>2, <3>3 DEF ClientInv, Fresh, AllGot
  <2> QED
    BY <2>1, <2>5, <2>6, Zenon DEF MoveTo
<1> QED
  BY <1>2, <1>3

\* DB_NEXT_DUP: no record that was there lies between the old and the new place.
LEMMA NextStep == ASSUME CInv, RetrieveNext PROVE ClientInv'
<1> DEFINE rest == {o \in OfPath : Precedes(cursor, o)}
<1>1. UNCHANGED daemonVars /\ UNCHANGED <<result, handles, wanted, before>> /\ cpc = "next" /\ MoveTo(rest)
  BY DEF RetrieveNext
<1>2. ResultType' /\ AllResolved' /\ NoneTwice'
  BY <1>1, ReadingKeeps DEF CInv
<1>3. \A o \in before : o.call.path = wanted => Got(o) \/ o \in rest
  BY <1>1 DEF CInv, ClientInv, Ahead, ResultType, OfPath
<1>4. \A o : Got(o) => Got(o)'
  BY <1>1 DEF Got
<1>5. CASE rest = {} /\ cpc' = "done"
  BY <1>1, <1>2, <1>3, <1>4, <1>5 DEF ClientInv, Fresh, Ahead, Behind, AllGot, Lookup
<1>6. ASSUME NEW o \in rest, \A p \in rest : p = o \/ Precedes(o, p),
             cursor' = o, key' = o.eCallKey, chain' = <<>>, cpc' = "chain"
      PROVE  ClientInv'
  <2>1. o \in opens /\ cursor \in opens /\ Precedes(cursor, o) /\ opens' = opens
    BY <1>1 DEF OfPath, CInv, ClientInv, Behind, daemonVars
  <2>2. Ahead'
    BY <1>1, <1>3, <1>4, <1>6 DEF Ahead, Precedes
  <2>3. ASSUME NEW i \in 1..Len(result) PROVE Precedes(result[i].open, o)
    <3>1. result[i].open \in opens
      BY ResultFacts DEF CInv, ClientInv
    <3>2. result[i].open = cursor \/ Precedes(result[i].open, cursor)
      BY <1>1 DEF CInv, ClientInv, Behind
    <3> QED
      BY <2>1, <3>1, <3>2, PrecedesOrder DEF CInv, ArchInv
  <2>4. Behind'
    BY <1>1, <1>6, <2>1, <2>3 DEF Behind, Precedes
  <2>5. Lookup'
    BY <1>6 DEF Lookup
  <2> QED
    BY <1>2, <1>6, <2>2, <2>4, <2>5 DEF ClientInv, Fresh, AllGot
<1> HIDE DEF rest
<1> QED
  BY <1>1, <1>5, <1>6, Zenon DEF MoveTo

\* The key under the cursor is that of a process.
LEMMA CursorKey ==
    ASSUME CInv, cpc = "chain"
    PROVE  cursor \in opens /\ \E i \in 1..Len(Jobs) : cursor.eCallKey = ExecKey(Jobs[i]) /\ Jobs[i].pid # 0
<1>1. cursor \in opens
  BY DEF CInv, ClientInv, Behind
<1>2. PICK i \in 1..Len(Jobs) : cursor.eCallKey = ExecKey(Jobs[i])
  BY <1>1 DEF CInv, ArchInv, OpenSound
<1>3. Jobs[i].pid # 0
  BY JobsAssumption
<1> QED
  BY <1>1, <1>2, <1>3

\* The record is appended: those before it are of records in front of it.
LEMMA AppendStep ==
    ASSUME CInv, cpc = "chain", key.pid = 0, cpc' = "next",
           result' = Append(result, [open |-> cursor, execCalls |-> chain]),
           UNCHANGED <<daemonVars, handles, wanted, cursor, before>>
    PROVE  ClientInv'
<1> DEFINE r == [open |-> cursor, execCalls |-> chain]
           n == Len(result)
<1>1. cursor \in opens
  BY CursorKey
<1>2. chain \in Chains /\ Resolved(cursor, chain)
  <2>1. PICK i \in 1..Len(Jobs) : cursor.eCallKey = ExecKey(Jobs[i]) /\ Jobs[i].pid # 0
    BY CursorKey
  <2>2. cursor.eCallKey.pid # 0
    BY <2>1 DEF ExecKey
  <2> QED
    BY <2>2 DEF CInv, ClientInv, Lookup
<1>3. r \in Records /\ r.open = cursor /\ r.execCalls = chain
  BY <1>1, <1>2 DEF Records
<1>4. Records' = Records /\ opens' = opens
  BY DEF Records, Chains, daemonVars
<1>5. result \in Seq(Records) /\ n \in Nat
  BY DEF CInv, ClientInv, ResultType
<1> HIDE DEF r, n
<1>6. result' = Append(result, r)
  BY DEF r
<1>7. /\ result' \in Seq(Records) /\ Len(result') = n + 1 /\ result'[n + 1] = r
      /\ \A i \in 1..n : result'[i] = result[i]
  BY <1>3, <1>5, <1>6 DEF n
<1>8. \A i \in 1..(n + 1) : i \in 1..n \/ i = n + 1
  BY <1>5
<1>9. ResultType'
  BY <1>4, <1>7 DEF ResultType, CInv, ClientInv
<1>10. AllResolved'
  <2>1. \A o, ch : Resolved(o, ch) => Resolved(o, ch)'
    BY ResolvedStays DEF daemonVars
  <2>2. \A i \in 1..n : Resolved(result[i].open, result[i].execCalls)
    BY DEF CInv, ClientInv, AllResolved, n
  <2>3. ASSUME NEW i \in 1..(n + 1) PROVE Resolved(result'[i].open, result'[i].execCalls)
    BY <1>2, <1>3, <1>7, <1>8, <2>2
  <2>4. \A i \in 1..(n + 1) : Resolved(result[i].open, result[i].execCalls)'
    BY <2>1, <2>3
  <2> QED
    BY <1>7, <2>4 DEF AllResolved
<1>11. \A i \in 1..n : Precedes(result[i].open, cursor) /\ result[i].open # cursor
  <2> SUFFICES ASSUME NEW i \in 1..n PROVE Precedes(result[i].open, cursor) /\ result[i].open # cursor
    OBVIOUS
  <2>1. Precedes(result[i].open, cursor)
    BY DEF CInv, ClientInv, Behind, n
  <2> QED
    BY <1>1, <2>1, PrecedesOrder DEF CInv, ArchInv
<1>12. NoneTwice'
  <2>1. \A i, j \in 1..n : result[i].open = result[j].open => i = j
    BY DEF CInv, ClientInv, NoneTwice, n
  <2>2. ASSUME NEW i \in 1..(n + 1), NEW j \in 1..(n + 1), result'[i].open = result'[j].open
        PROVE  i = j
    BY <1>3, <1>7, <1>8, <1>11, <2>1, <2>2
  <2> QED
    BY <1>7, <2>2 DEF NoneTwice
<1>13. n + 1 \in 1..(n + 1) /\ 1..n \subseteq 1..(n + 1)
  BY <1>5
<1>14. Ahead'
  <2>1. \A o : Got(o) \/ o = cursor => Got(o)'
    BY <1>3, <1>7, <1>13 DEF Got, n
  <2> QED
    BY <2>1 DEF CInv, ClientInv, Ahead, Precedes
<1>15. Behind'
  BY <1>1, <1>3, <1>4, <1>7, <1>8, <1>11 DEF Behind, Precedes
<1> QED
  BY <1>9, <1>10, <1>12, <1>14, <1>15 DEF ClientInv, Fresh, AllGot, Lookup

\* A turn of the loop that looks up the exec call
LEMMA LookupStep ==
    ASSUME CInv, cpc = "chain", key.pid # 0,
           UNCHANGED <<daemonVars, handles, wanted, cursor, before, cpc, result>>,
           \/ \E eCall \in ExecCallByKey(key) : chain' = Append(chain, eCall) /\ key' = eCall.parentEcall
           \/ /\ \/ handles["client"]["execCalls"] = "created"
                 \/ handles["client"]["execCalls"] = "open" /\ ExecCallByKey(key) = {}
              /\ key' = [key EXCEPT !.pid = 0] /\ chain' = chain
    PROVE  ClientInv'
<1>1. ResultType' /\ AllResolved' /\ NoneTwice'
  BY ReadingKeeps DEF CInv
<1>2. Fresh' /\ Ahead' /\ AllGot'
  BY DEF CInv, ClientInv, Fresh, Ahead, AllGot, Got, Precedes
<1>3. Behind'
  BY DEF CInv, ClientInv, Behind, Precedes, daemonVars
<1>4. chain = <<>> /\ key = cursor.eCallKey
  BY DEF CInv, ClientInv, Lookup
<1>5. PICK i \in 1..Len(Jobs) : key = ExecKey(Jobs[i])
  BY <1>4, CursorKey
<1>6. chain' \in Chains /\ key'.pid = 0 /\ Resolved(cursor, chain')
  <2>1. ASSUME NEW eCall \in ExecCallByKey(key), chain' = Append(chain, eCall), key' = eCall.parentEcall
        PROVE  chain' \in Chains /\ key'.pid = 0 /\ Resolved(cursor, chain')
    <3>1. PICK e \in execs : KeyComp(e.key, key) = 0 /\ eCall = Unmarshall(e.data)
      BY <2>1 DEF ExecCallByKey
    <3>2. PICK m \in 1..Len(Jobs) : e.data = Marshall(Jobs[m])
      BY <3>1 DEF CInv, ArchInv, ExecSound
    <3>3. chain' = <<eCall>>
      BY <1>4, <2>1
    <3>4. key'.pid = 0
      BY <2>1, <3>1 DEF Unmarshall, ZeroKey
    <3>5. chain' \in Chains
      BY <3>1, <3>2, <3>3 DEF Chains
    <3>6. Resolved(cursor, chain')
      BY <1>4, <3>1, <3>3 DEF Resolved, Found
    <3> QED
      BY <3>4, <3>5, <3>6
  <2>2. CASE /\ \/ handles["client"]["execCalls"] = "created"
                \/ handles["client"]["execCalls"] = "open" /\ ExecCallByKey(key) = {}
             /\ key' = [key EXCEPT !.pid = 0] /\ chain' = chain
    <3>1. key'.pid = 0
      BY <1>5, <2>2 DEF ExecKey
    <3>2. Excused(cursor)
      <4>1. CASE handles["client"]["execCalls"] = "created"
        BY <4>1 DEF Excused
      <4>2. CASE ExecCallByKey(key) = {}
        <5>1. ~Stored(cursor.eCallKey)
          BY <1>4, <4>2 DEF ExecCallByKey, Stored
        <5>2. cursor \in opens
          BY CursorKey
        <5> QED
          BY <5>1, <5>2 DEF CInv, IInv, NoOrphans, Excused
      <4> QED
        BY <2>2, <4>1, <4>2
    <3> QED
      BY <1>4, <2>2, <3>1, <3>2 DEF Chains, Resolved
  <2> QED
    BY <2>1, <2>2
<1>7. Lookup'
  BY <1>6 DEF Lookup, Resolved, Found, Excused, daemonVars, Chains
<1> QED
  BY <1>1, <1>2, <1>3, <1>7 DEF ClientInv

LEMMA ExecStep == ASSUME CInv, RetrieveExec PROVE ClientInv'
<1>1. cpc = "chain" /\ UNCHANGED <<daemonVars, handles, wanted, cursor, before>>
  BY DEF RetrieveExec
<1>2. CASE /\ key.pid = 0 /\ cpc' = "next"
           /\ result' = Append(result, [open |-> cursor, execCalls |-> chain])
  BY <1>1, <1>2, AppendStep
<1>3. CASE cpc' = "crashed" /\ result' = result
  <2>1. ResultType' /\ AllResolved' /\ NoneTwice'
    BY <1>1, <1>3, ReadingKeeps DEF CInv
  <2> QED
    BY <1>3, <2>1 DEF ClientInv, Fresh, Ahead, Behind, AllGot, Lookup
<1>4. CASE /\ key.pid # 0 /\ UNCHANGED <<cpc, result>>
           /\ \/ \E eCall \in ExecCallByKey(key) :
                    chain' = Append(chain, eCall) /\ key' = eCall.parentEcall
              \/ /\ \/ handles["client"]["execCalls"] = "created"
                    \/ handles["client"]["execCalls"] = "open" /\ ExecCallByKey(key) = {}
                 /\ key' = [key EXCEPT !.pid = 0] /\ chain' = chain
  BY <1>1, <1>4, LookupStep
<1> QED
  BY <1>2, <1>3, <1>4, Zenon DEF RetrieveExec

\* A step of the daemon leaves the client's handles alone.
LEMMA DaemonHandles ==
    ASSUME IInv, DaemonStarts \/ DaemonStops \/ PutExec \/ PutOpen
    PROVE  UNCHANGED clientVars /\ handles'["client"] = handles["client"]
<1>1. handles \in [{"daemon", "client"} -> [Tables -> {"null", "created", "open"}]]
  BY DEF IInv, TypeOK
<1>2. \A h : handles' = [handles EXCEPT !["daemon"] = h] => handles'["client"] = handles["client"]
  BY <1>1
<1>3. CASE DaemonStarts
  BY <1>2, <1>3 DEF DaemonStarts, CreateDatabase
<1>4. CASE DaemonStops
  BY <1>2, <1>4 DEF DaemonStops, Close
<1>5. CASE PutExec
  BY <1>5, Zenon DEF PutExec
<1>6. CASE PutOpen
  BY <1>6, Zenon DEF PutOpen
<1> QED
  BY <1>3, <1>4, <1>5, <1>6

LEMMA InitCInv == Init => CInv
<1> SUFFICES ASSUME Init PROVE CInv
  OBVIOUS
<1>1. IInv
  BY InitIInv
<1>2. ArchInv
  BY DEF Init, ArchInv, OpenSound, KeysUnique, ExecSound
<1>3. ClientInv
  <2>1. Len(result) = 0 /\ result \in Seq(Records) /\ 1..0 = {}
    BY DEF Init
  <2> QED
    BY <2>1 DEF Init, ClientInv, ResultType, AllResolved, NoneTwice, Fresh, Ahead, Behind, AllGot, Lookup
<1> QED
  BY <1>1, <1>2, <1>3 DEF CInv

\* The inductive step for the client, one case for each of its actions
LEMMA NextCInv == CInv /\ [Next]_vars => CInv'
<1> SUFFICES ASSUME CInv, [Next]_vars PROVE CInv'
  OBVIOUS
<1>1. IInv' /\ ArchInv'
  BY NextIInv, ArchStep DEF CInv
<1>2. execs \subseteq execs' /\ opens \subseteq opens' /\ failed \subseteq failed'
  BY OnlyGrows DEF CInv
<1>3. CASE DaemonStarts \/ DaemonStops \/ PutExec \/ PutOpen
  <2>1. ClientInv'
    BY <1>2, <1>3, DaemonHandles, DaemonKeeps DEF CInv
  <2> QED
    BY <1>1, <2>1 DEF CInv
<1>4. ASSUME NEW path \in Paths, ClientStarts(path) PROVE CInv'
  <2>1. result' = <<>> /\ before' = before /\ opens' = opens /\ cpc' = "set"
    BY <1>4 DEF ClientStarts, daemonVars, CInv, ClientInv, Fresh
  <2>2. ClientInv'
    BY <2>1, IdleClient DEF CInv, ClientInv, ResultType
  <2> QED
    BY <1>1, <2>2 DEF CInv
<1>5. CASE RetrieveSet  BY <1>1, <1>5, SetStep DEF CInv
<1>6. CASE RetrieveNext  BY <1>1, <1>6, NextStep DEF CInv
<1>7. CASE RetrieveExec  BY <1>1, <1>7, ExecStep DEF CInv
<1>8. CASE HandleSignal
  <2>1. UNCHANGED daemonVars /\ UNCHANGED <<result, before>> /\ cpc' = "crashed"
    BY <1>8 DEF HandleSignal
  <2>2. handles'["client"]["execCalls"] # "open"
    BY <1>8 DEF HandleSignal, Close, NoHandles, Tables, CInv, IInv, TypeOK
  <2>3. ResultType' /\ AllResolved' /\ NoneTwice'
    BY <2>1, <2>2, ReadingKeeps DEF CInv
  <2>4. ClientInv'
    BY <2>1, <2>3 DEF ClientInv, Fresh, Ahead, Behind, AllGot, Lookup
  <2> QED
    BY <1>1, <2>4 DEF CInv
<1>9. CASE ClientEnds
  <2>1. result' = <<>> /\ before' = {} /\ cpc' = "off"
    BY <1>9 DEF ClientEnds
  <2>2. ClientInv'
    BY <2>1, IdleClient
  <2> QED
    BY <1>1, <2>2 DEF CInv
<1>10. CASE UNCHANGED vars
  <2>1. UNCHANGED clientVars /\ handles'["client"] = handles["client"]
    BY <1>10 DEF vars
  <2>2. ClientInv'
    BY <1>2, <2>1, DaemonKeeps DEF CInv
  <2> QED
    BY <1>1, <2>2 DEF CInv
<1> QED
  BY <1>3, <1>4, <1>5, <1>6, <1>7, <1>8, <1>9, <1>10 DEF Next

\* retrieveRecords_Path returns every open call of the path that was archived
\* when it set its cursor, and none twice, whatever the daemon archives in the
\* meantime.
THEOREM RetrievesAll == Spec => []RetrievalComplete
<1>1. CInv => RetrievalComplete
  BY DEF CInv, ClientInv, AllGot, NoneTwice, Got, RetrievalComplete
<1> QED
  BY InitCInv, NextCInv, <1>1, PTL DEF Spec

\* Keys that the order of execCalls.db takes for equal are those of one time
\* stamp and one pid, and for a process with an exec call, of one process.
LEMMA KeyOfOne ==
    ASSUME NEW i \in 1..Len(Jobs), NEW m \in 1..Len(Jobs), Jobs[i].time # 0,
           KeyComp(ExecKey(Jobs[m]), ExecKey(Jobs[i])) = 0
    PROVE  m = i
<1>1. /\ Jobs[i].time \in Nat /\ Jobs[m].time \in Nat /\ BootTime \in Nat
      /\ Jobs[i].pid \in Nat /\ Jobs[m].pid \in Nat
  BY JobsAssumption, BootAssumption
<1>2. Jobs[i].time = Jobs[m].time /\ Jobs[i].pid = Jobs[m].pid
  BY <1>1 DEF KeyComp, ExecKey
<1> QED
  BY <1>2, DistinctAssumption

\* A retrieved open call comes with the exec call of the process that made it,
\* unless the put of that one failed or the client could not open
\* execCalls.db.
THEOREM CallerIsFirst == Spec => []CallerFirst
<1>1. CInv => CallerFirst
  <2> SUFFICES ASSUME CInv, NEW i \in 1..Len(result), NEW r, r = result[i],
                      NEW p, p = Jobs[Caller(r.open.call)], p.time # 0
               PROVE  \/ r.execCalls = <<>> /\ (\/ r.open.eCallKey \in failed
                                               \/ handles["client"]["execCalls"] # "open")
                      \/ r.execCalls # <<>> /\ r.execCalls[1].cmd = p.cmd
    BY DEF CallerFirst
  <2>1. r.open \in opens
    BY ResultFacts DEF CInv, ClientInv
  <2>2. PICK n \in 1..Len(Jobs) : /\ r.open.eCallKey = ExecKey(Jobs[n])
                                  /\ \E j \in 1..Len(Jobs[n].calls) : r.open.call = Jobs[n].calls[j]
    BY <2>1 DEF CInv, ArchInv, OpenSound
  <2>3. Caller(r.open.call) = n
    <3>1. /\ Caller(r.open.call) \in 1..Len(Jobs)
          /\ \E j \in 1..Len(Jobs[Caller(r.open.call)].calls) :
                Jobs[Caller(r.open.call)].calls[j] = r.open.call
      BY <2>2 DEF Caller
    <3> QED
      BY <2>2, <3>1, DistinctAssumption
  <2>4. p = Jobs[n]
    BY <2>3
  <2>5. Resolved(r.open, r.execCalls)
    BY DEF CInv, ClientInv, AllResolved
  <2>6. CASE r.execCalls = <<>> /\ Excused(r.open)
    BY <2>6 DEF Excused
  <2>7. CASE Found(r.open, r.execCalls)
    <3>1. PICK e \in execs : /\ r.execCalls = <<Unmarshall(e.data)>>
                             /\ KeyComp(e.key, r.open.eCallKey) = 0
      BY <2>7 DEF Found
    <3>2. PICK m \in 1..Len(Jobs) : e.key = ExecKey(Jobs[m]) /\ e.data = Marshall(Jobs[m])
      BY <3>1 DEF CInv, ArchInv, ExecSound
    <3>3. m = n
      BY <2>2, <2>4, <3>1, <3>2, KeyOfOne
    <3>4. Unmarshall(e.data).cmd = p.cmd
      BY <2>4, <3>2, <3>3 DEF Unmarshall, Marshall
    <3> QED
      BY <3>1, <3>4
  <2> QED
    BY <2>5, <2>6, <2>7 DEF Resolved
<1> QED
  BY InitCInv, NextCInv, <1>1, PTL DEF Spec
=============================================================================

------------------------- MODULE ProcIndexOpsProofs -------------------------
(***************************************************************************)
(* What the operators of ProcIndexOps return, word by word and place by    *)
(* place, whatever the processes look like.                                *)
(*                                                                         *)
(* Loops over the array visit the words of a set in increasing order, and  *)
(* that such an order exists is shown by induction.  The induction is over *)
(* sets: a non-empty set of numbers has a least element (WFMin), and the   *)
(* numbers for which a claim fails have none.                              *)
(***************************************************************************)
EXTENDS ProcIndexOps, FiniteSetTheorems, WellFoundedInduction, TLAPS

-----------------------------------------------------------------------------
(* Induction *)

\* A non-empty set of natural numbers has a least element.
LEMMA LeastNatural ==
    ASSUME NEW T, T \subseteq Nat, T # {}
    PROVE  \E x \in T : \A y \in T : x <= y
<1> DEFINE R == OpToRel(<, Nat)
<1>1. IsWellFoundedOn(R, Nat)
  BY NatLessThanWellFounded
<1> HIDE DEF R
<1>2. PICK x \in T : \A y \in T : ~(<<y, x>> \in R)
  BY <1>1, WFMin
<1>3. \A y \in T : x <= y
  <2> SUFFICES ASSUME NEW y \in T, ~(x <= y) PROVE FALSE
    OBVIOUS
  <2>1. <<y, x>> \in R
    BY DEF R, OpToRel
  <2> QED
    BY <1>2, <2>1
<1> QED
  BY <1>3

\* What holds of 0 and is handed on from each number to the next holds of all.
LEMMA Induction ==
    ASSUME NEW S, 0 \in S, \A n \in Nat : n \in S => n + 1 \in S
    PROVE  Nat \subseteq S
<1> DEFINE T == Nat \ S
<1>1. SUFFICES ASSUME T # {} PROVE FALSE
  OBVIOUS
<1>2. PICK x \in T : \A y \in T : x <= y
  BY <1>1, LeastNatural
<1>3. x - 1 \in Nat /\ x - 1 \notin T
  BY <1>2
<1> QED
  BY <1>2, <1>3

-----------------------------------------------------------------------------
(* The order of a loop *)

\* s lists the elements of S in increasing order.
Lists(s, S) ==
    /\ s \in [1..Cardinality(S) -> S]
    /\ \A m, n \in 1..Cardinality(S) : m < n => s[m] < s[n]
    /\ \A i \in S : \E n \in 1..Cardinality(S) : s[n] = i

LEMMA OrderStep ==
    ASSUME NEW n \in Nat, NEW S \in SUBSET (0..n), n \in S,
           \E t : Lists(t, S \ {n})
    PROVE  \E s : Lists(s, S)
<1> DEFINE T == S \ {n}
           c == Cardinality(T)
<1>1. IsFiniteSet(S) /\ IsFiniteSet(T) /\ c \in Nat /\ Cardinality(S) = c + 1
  <2>1. IsFiniteSet(0..n)
    BY FS_Interval
  <2>2. IsFiniteSet(S)
    BY <2>1, FS_Subset
  <2>3. IsFiniteSet(T) /\ c = Cardinality(S) - 1
    BY <2>2, FS_RemoveElement
  <2> QED
    BY <2>2, <2>3, FS_CardinalityType
<1>2. PICK t : Lists(t, T)
  OBVIOUS
<1> DEFINE s == [m \in 1..(c + 1) |-> IF m = c + 1 THEN n ELSE t[m]]
<1>3. /\ t \in [1..c -> T]
      /\ \A k, m \in 1..c : k < m => t[k] < t[m]
      /\ \A i \in T : \E m \in 1..c : t[m] = i
  BY <1>2 DEF Lists
<1>4. \A i \in T : i \in Nat /\ i < n /\ i \in S
  OBVIOUS
<1> HIDE DEF c, T
<1>5. \A m \in 1..c : s[m] = t[m] /\ t[m] \in T
  <2> SUFFICES ASSUME NEW m \in 1..c PROVE s[m] = t[m] /\ t[m] \in T
    OBVIOUS
  <2>1. m \in 1..(c + 1) /\ m # c + 1
    BY <1>1
  <2> QED
    BY <1>3, <2>1
<1>6. s[c + 1] = n
  BY <1>1
<1>7. s \in [1..(c + 1) -> S]
  <2> SUFFICES ASSUME NEW m \in 1..(c + 1) PROVE (IF m = c + 1 THEN n ELSE t[m]) \in S
    OBVIOUS
  <2>1. m # c + 1 => m \in 1..c
    BY <1>1
  <2> QED
    BY <1>3, <1>4, <2>1
<1> HIDE DEF s
<1>8. \A k, m \in 1..(c + 1) : k < m => s[k] < s[m]
  <2> SUFFICES ASSUME NEW k \in 1..(c + 1), NEW m \in 1..(c + 1), k < m PROVE s[k] < s[m]
    OBVIOUS
  <2>1. k \in 1..c
    BY <1>1
  <2>2. s[k] = t[k] /\ t[k] < n
    BY <1>5, <1>4, <2>1
  <2>3. CASE m = c + 1
    BY <2>2, <2>3, <1>6
  <2>4. CASE m # c + 1
    <3>1. m \in 1..c
      BY <1>1, <2>4
    <3> QED
      BY <2>1, <3>1, <1>3, <1>5
  <2> QED
    BY <2>3, <2>4
<1>9. \A i \in S : \E m \in 1..(c + 1) : s[m] = i
  <2> SUFFICES ASSUME NEW i \in S PROVE \E m \in 1..(c + 1) : s[m] = i
    OBVIOUS
  <2>1. CASE i = n
    BY <2>1, <1>1, <1>6
  <2>2. CASE i # n
    <3>1. PICK m \in 1..c : t[m] = i
      BY <2>2, <1>3 DEF T
    <3>2. m \in 1..(c + 1)
      BY <1>1
    <3> QED
      BY <3>1, <3>2, <1>5
  <2> QED
    BY <2>1, <2>2
<1> QED
  BY <1>1, <1>7, <1>8, <1>9 DEF Lists

LEMMA OrderExists ==
    ASSUME NEW n \in Nat, NEW S \in SUBSET (0..n)
    PROVE  \E s : Lists(s, S)
<1> DEFINE Claim == {m \in Nat : \A U \in SUBSET (0..(m - 1)) : \E s : Lists(s, U)}
<1>1. 0 \in Claim
  <2> SUFFICES ASSUME NEW U \in SUBSET (0..(0 - 1)) PROVE \E s : Lists(s, U)
    OBVIOUS
  <2>1. U = {}
    OBVIOUS
  <2>2. Cardinality(U) = 0
    BY <2>1, FS_EmptySet
  <2>3. [m \in 1..0 |-> m] \in [1..0 -> U]
    OBVIOUS
  <2>4. Lists([m \in 1..0 |-> m], U)
    BY <2>1, <2>2, <2>3 DEF Lists
  <2> QED
    BY <2>4
<1>2. ASSUME NEW m \in Nat, m \in Claim PROVE m + 1 \in Claim
  <2> SUFFICES ASSUME NEW U \in SUBSET (0..m) PROVE \E s : Lists(s, U)
    OBVIOUS
  <2>1. U \ {m} \in SUBSET (0..(m - 1))
    OBVIOUS
  <2>2. \E s : Lists(s, U \ {m})
    BY <1>2, <2>1
  <2>3. CASE m \in U
    BY <2>2, <2>3, OrderStep
  <2>4. CASE m \notin U
    <3>1. U \ {m} = U
      BY <2>4
    <3> QED
      BY <2>2, <3>1
  <2> QED
    BY <2>3, <2>4
<1>3. n + 1 \in Claim
  <2> HIDE DEF Claim
  <2> QED
    BY <1>1, <1>2, Induction
<1> QED
  BY <1>3

\* A loop over the words of a set visits each of them, once.
LEMMA InOrderLists ==
    ASSUME NEW n \in Nat, NEW S \in SUBSET (0..n)
    PROVE  Lists(InOrder(S), S) /\ Cardinality(S) \in Nat
<1>1. \E s \in [1..Cardinality(S) -> S] :
         /\ \A m, k \in 1..Cardinality(S) : m < k => s[m] < s[k]
         /\ \A i \in S : \E k \in 1..Cardinality(S) : s[k] = i
  BY OrderExists DEF Lists
<1>2. Lists(InOrder(S), S)
  BY <1>1 DEF InOrder, Lists
<1>3. IsFiniteSet(S)
  <2>1. IsFiniteSet(0..n)
    BY FS_Interval
  <2> QED
    BY <2>1, FS_Subset
<1> QED
  BY <1>2, <1>3, FS_CardinalityType

\* The processes `out' that a loop over the array takes out, in the order `at':
\* one for each word of the set, and none twice.
TakesOut(out, at, procs, where) ==
    /\ Len(out) \in Nat
    /\ out = [k \in 1..Len(out) |-> procs[at[k]]]
    /\ \A k \in 1..Len(out) : at[k] \in where /\ out[k] = procs[at[k]]
    /\ \A k, m \in 1..Len(out) : k # m => at[k] # at[m]
    /\ \A i \in where : \E k \in 1..Len(out) : out[k] = procs[i]

LEMMA ProcsAtFacts ==
    ASSUME NEW n \in Nat, NEW where \in SUBSET (0..n), NEW procs
    PROVE  TakesOut(ProcsAt(procs, where), InOrder(where), procs, where)
<1> DEFINE out == ProcsAt(procs, where)
           at == InOrder(where)
           c == Cardinality(where)
<1>1. Lists(at, where) /\ c \in Nat
  BY InOrderLists
<1>2. out = [k \in 1..c |-> procs[at[k]]]
  BY DEF ProcsAt
<1> HIDE DEF out, at, c
<1>3. /\ \A k \in 1..c : at[k] \in where
      /\ \A k, m \in 1..c : k < m => at[k] < at[m]
      /\ \A i \in where : \E k \in 1..c : at[k] = i
  BY <1>1 DEF Lists, c
<1>4. Len(out) = c
  BY <1>1, <1>2
<1>5. \A k, m \in 1..c : k # m => at[k] # at[m]
  <2> SUFFICES ASSUME NEW k \in 1..c, NEW m \in 1..c, k # m PROVE at[k] # at[m]
    OBVIOUS
  <2>1. at[k] \in where /\ at[m] \in where
    BY <1>3
  <2>2. where \subseteq Int
    OBVIOUS
  <2>3. at[k] \in Int /\ at[m] \in Int
    BY <2>1, <2>2
  <2>4. k < m \/ m < k
    OBVIOUS
  <2> QED
    BY <1>3, <2>3, <2>4
<1>6. \A k \in 1..c : out[k] = procs[at[k]]
  BY <1>2
<1> QED
  BY <1>1, <1>2, <1>3, <1>4, <1>5, <1>6 DEF out, at, TakesOut

-----------------------------------------------------------------------------
(* The dispatch queue *)

\* Enqueue keeps what was queued and adds as much as there is room for.
LEMMA EnqueueFacts ==
    ASSUME NEW T, NEW queue \in Seq(T), NEW out \in Seq(T), Len(queue) <= DispatchSize
    PROVE  LET e == Enqueue(queue, out)
           IN  /\ e \in Seq(T)
               /\ Len(e) <= DispatchSize
               /\ Len(queue) <= Len(e) /\ Len(e) <= Len(queue) + Len(out)
               /\ \A n \in 1..Len(queue) : e[n] = queue[n]
               /\ \A n \in (Len(queue) + 1)..Len(e) : e[n] = out[n - Len(queue)]
               /\ Len(e) # DispatchSize => Len(e) = Len(queue) + Len(out)
<1> USE DispatchAssumption
<1> DEFINE all == queue \o out
           e == Enqueue(queue, out)
<1>1. /\ all \in Seq(T) /\ Len(all) = Len(queue) + Len(out)
      /\ \A n \in 1..Len(queue) : all[n] = queue[n]
      /\ \A n \in (Len(queue) + 1)..Len(all) : all[n] = out[n - Len(queue)]
  OBVIOUS
<1>2. Len(queue) \in Nat /\ Len(out) \in Nat
  OBVIOUS
<1> HIDE DEF all
<1>3. CASE Len(all) <= DispatchSize
  <2>1. e = all
    BY <1>3 DEF Enqueue, all
  <2> QED
    BY <1>1, <1>2, <1>3, <2>1
<1>4. CASE ~(Len(all) <= DispatchSize)
  <2>1. e = SubSeq(all, 1, DispatchSize)
    BY <1>4 DEF Enqueue, all
  <2>2. e \in Seq(T) /\ Len(e) = DispatchSize /\ \A n \in 1..DispatchSize : e[n] = all[n]
    BY <1>1, <1>2, <1>4, <2>1
  <2> QED
    BY <1>1, <1>2, <1>4, <2>2
<1> QED
  BY <1>3, <1>4

\* The batch is the part of the queue before the first wild pointer.
LEMMA BatchFacts ==
    ASSUME NEW T, NEW queue \in Seq(T)
    PROVE  LET b == Batch(queue)
           IN  /\ b \in Seq(T \ {Wild})
               /\ Len(b) <= Len(queue)
               /\ \A n \in 1..Len(b) : b[n] = queue[n]
<1> DEFINE good == {n \in 0..Len(queue) : \A i \in 1..n : queue[i] # Wild}
           c == CHOOSE n \in good : n + 1 \notin good
<1>1. \E n \in good : n + 1 \notin good
  <2> DEFINE bad == Nat \ good
  <2>1. Len(queue) + 1 \in bad
    OBVIOUS
  <2>2. 0 \in good
    OBVIOUS
  <2> HIDE DEF good
  <2>3. PICK m \in bad : \A y \in bad : m <= y
    BY <2>1, LeastNatural
  <2>4. m # 0
    BY <2>2
  <2>5. m - 1 \in good /\ (m - 1) + 1 \notin good
    BY <2>3, <2>4
  <2> QED
    BY <2>5
<1>2. c \in good
  BY <1>1
<1>3. Batch(queue) = SubSeq(queue, 1, c)
  BY DEF Batch
<1>4. c \in 0..Len(queue) /\ \A i \in 1..c : queue[i] # Wild
  BY <1>2
<1> HIDE DEF c, good
<1> DEFINE b == SubSeq(queue, 1, c)
<1>5. Len(b) = c /\ \A n \in 1..c : b[n] = queue[n] /\ b[n] \in T
  BY <1>4
<1>6. b \in Seq(T)
  BY <1>4
<1>7. b = [n \in 1..c |-> b[n]] /\ \A n \in 1..c : b[n] \in T \ {Wild}
  BY <1>4, <1>5, <1>6
<1> HIDE DEF b
<1>8. b \in Seq(T \ {Wild})
  <2>1. b \in [1..c -> T \ {Wild}]
    BY <1>7
  <2> QED
    BY <2>1, <1>4
<1> QED
  BY <1>3, <1>4, <1>5, <1>8 DEF b

-----------------------------------------------------------------------------
(* A sound index *)

\* E are the names of the exec calls and O the open calls: the lemmas hold for
\* any such sets, if pointers can be told from processes.
Distinct(E, O) ==
    /\ Unknown \in E
    /\ NULL \notin ProcsOf(E, O) /\ Wild \notin ProcsOf(E, O)

\* A process as it may be found in word i.
GoodAt(i, p, E, O) ==
    /\ p \in ProcsOf(E, O)
    /\ p.pid + 1 = i
    /\ p.ppid = 0
    /\ ProcSound(p)

\* Every word holds null or a good process; only words outside the array may
\* be wild.
GoodWords(procs, size, E, O) ==
    /\ DOMAIN procs = Slots
    /\ \A i \in Slots :
          \/ procs[i] = NULL
          \/ procs[i] = Wild /\ i >= size
          \/ GoodAt(i, procs[i], E, O)

GoodIndex(ix, E, O) ==
    /\ ix = [size |-> ix.size, procs |-> ix.procs]
    /\ ix.size \in 1..(MaxPid + 1)
    /\ ix.procs = [i \in Slots |-> ix.procs[i]]
    /\ GoodWords(ix.procs, ix.size, E, O)
    /\ Distinct(E, O)

-----------------------------------------------------------------------------
(* The operators keep an index good *)

\* Doubling ends between the need and the maximum, and never shrinks.
LEMMA GrownSizeBounds ==
    ASSUME NEW size \in 1..(MaxPid + 1), NEW pid \in 0..MaxPid
    PROVE  /\ GrownSize(size, pid + 1) \in 1..(MaxPid + 1)
           /\ GrownSize(size, pid + 1) >= size
           /\ GrownSize(size, pid + 1) >= pid + 1
<1> USE MaxPidAssumption
<1> DEFINE need == pid + 1
           Fits(s) == /\ \E k \in 0..MaxPid : s = size * 2^k
                      /\ need <= s /\ s < 2 * need
<1>1. CASE need <= size
  BY <1>1 DEF GrownSize
<1>2. CASE need > size /\ \E s \in need..(MaxPid + 1) : Fits(s)
  <2> DEFINE c == CHOOSE s \in need..(MaxPid + 1) : Fits(s)
  <2>1. c \in need..(MaxPid + 1)
    BY <1>2
  <2>2. GrownSize(size, need) = c
    <3>1. ~(need <= size)
      BY <1>2
    <3> QED
      BY <1>2, <3>1, Zenon DEF GrownSize
  <2> HIDE DEF c
  <2> QED
    BY <1>2, <2>1, <2>2
<1>3. CASE need > size /\ ~ \E s \in need..(MaxPid + 1) : Fits(s)
  <2>1. GrownSize(size, need) = MaxPid + 1
    BY <1>3 DEF GrownSize
  <2> QED
    BY <2>1
<1> QED
  BY <1>1, <1>2, <1>3

LEMMA GrowGood ==
    ASSUME NEW E, NEW O, NEW ix, GoodIndex(ix, E, O), NEW pid \in 0..MaxPid, NEW w \in Slack
    PROVE  /\ GoodIndex(Grow(ix, pid, w), E, O)
           /\ Grow(ix, pid, w).size >= pid + 1
<1> USE MaxPidAssumption
<1> DEFINE new == GrownSize(ix.size, pid + 1)
<1>1. new \in 1..(MaxPid + 1) /\ new >= ix.size /\ new >= pid + 1
  BY GrownSizeBounds DEF GoodIndex
<1> HIDE DEF new
<1>2. CASE new = ix.size
  BY <1>1, <1>2 DEF Grow, new
<1>3. CASE new # ix.size
  <2> DEFINE pr == [i \in Slots |-> IF i < ix.size THEN ix.procs[i]
                                    ELSE IF i = new THEN w ELSE NULL]
  <2>1. Grow(ix, pid, w) = [size |-> new, procs |-> pr]
    BY <1>3 DEF Grow, new
  <2>2. GoodWords(pr, new, E, O)
    <3> SUFFICES ASSUME NEW i \in Slots
                 PROVE  pr[i] = NULL \/ (pr[i] = Wild /\ i >= new) \/ GoodAt(i, pr[i], E, O)
      BY DEF GoodWords
    <3>1. CASE i < ix.size
      <4>1. pr[i] = ix.procs[i]
        BY <3>1
      <4>2. ~(i >= ix.size)
        BY <3>1 DEF Slots, GoodIndex
      <4> QED
        BY <4>1, <4>2 DEF GoodIndex, GoodWords
    <3>2. CASE ~(i < ix.size)
      BY <1>1, <3>2, SlackAssumption DEF Slots
    <3> QED
      BY <3>1, <3>2
  <2>3. pr = [i \in Slots |-> pr[i]]
    OBVIOUS
  <2> HIDE DEF pr
  <2> QED
    BY <1>1, <2>1, <2>2, <2>3 DEF GoodIndex
<1> QED
  BY <1>2, <1>3

\* Storing null, or a good process of that pid, keeps the index good.
LEMMA StoreGood ==
    ASSUME NEW E, NEW O, NEW ix, GoodIndex(ix, E, O), NEW pid \in 0..MaxPid, NEW p,
           p = NULL \/ GoodAt(pid + 1, p, E, O)
    PROVE  /\ GoodIndex(Store(ix, pid, p), E, O)
           /\ Store(ix, pid, p).procs[pid + 1] = p
           /\ Store(ix, pid, p).size = ix.size
<1> USE MaxPidAssumption
<1> DEFINE pr == [ix.procs EXCEPT ![pid + 1] = p]
<1>1. Store(ix, pid, p) = [size |-> ix.size, procs |-> pr]
  BY DEF Store, GoodIndex
<1>2. pid + 1 \in Slots
  BY DEF Slots
<1>3. /\ DOMAIN pr = Slots
      /\ pr[pid + 1] = p
      /\ \A i \in Slots : i # pid + 1 => pr[i] = ix.procs[i]
      /\ pr = [i \in Slots |-> pr[i]]
  BY <1>2 DEF GoodIndex
<1> HIDE DEF pr
<1>4. GoodWords(pr, ix.size, E, O)
  BY <1>3 DEF GoodWords, GoodIndex
<1> QED
  BY <1>1, <1>3, <1>4 DEF GoodIndex

\* A new process, its parent forgotten, is good.
LEMMA NewProcGood ==
    ASSUME NEW E, NEW O, NEW exec \in E, NEW pid \in 0..MaxPid, NEW ppid \in Nat
    PROVE  /\ NewProc(exec, pid, ppid).pid = pid
           /\ NewProc(exec, pid, ppid).ppid = ppid
           /\ GoodAt(pid + 1, [NewProc(exec, pid, ppid) EXCEPT !.ppid = 0], E, O)
<1> DEFINE c == NewProc(exec, pid, ppid)
           p == [c EXCEPT !.ppid = 0]
<1>1. /\ c \in ProcsOf(E, O) /\ c.pid = pid /\ c.ppid = ppid /\ c.tracked = FALSE
      /\ c.calls = <<>> /\ c.callBuff_size = CallBuffSize
  BY CallBuffAssumption DEF NewProc, ProcsOf
<1> HIDE DEF c
<1>2. /\ p \in ProcsOf(E, O) /\ p.pid = pid /\ p.ppid = 0 /\ p.tracked = FALSE
      /\ p.calls = <<>> /\ p.callBuff_size = CallBuffSize
  BY <1>1 DEF ProcsOf
<1> HIDE DEF p
<1>3. ProcSound(p)
  BY <1>2, CallBuffAssumption DEF ProcSound
<1>4. GoodAt(pid + 1, p, E, O)
  BY <1>2, <1>3 DEF GoodAt
<1> QED
  BY <1>1, <1>4 DEF c, p

\* procindex_add keeps the index good; a call that is not refused for its pid
\* finds its slot taken, crashes, or is in its slot afterwards.
LEMMA AddGood ==
    ASSUME NEW E, NEW O, NEW ix, GoodIndex(ix, E, O), NEW w \in Slack,
           NEW exec \in E, NEW pid \in Nat, NEW ppid \in Nat
    PROVE  LET a == Add(ix, NewProc(exec, pid, ppid), w)
           IN  /\ GoodIndex(a.ix, E, O)
               /\ a.ret \in {"exists", "ok"} => InRange(pid) /\ a.ix.size >= pid + 1
               /\ a.ret = "ok" => GoodAt(pid + 1, a.ix.procs[pid + 1], E, O)
<1> DEFINE call == NewProc(exec, pid, ppid)
           g == Grow(ix, pid, w)
           a == Add(ix, call, w)
<1>1. call.pid = pid /\ call.ppid = ppid
  BY DEF NewProc
<1>2. CASE ~InRange(pid)
  <2>1. a = [ix |-> ix, ret |-> "range"]
    BY <1>1, <1>2 DEF Add
  <2> QED
    BY <2>1
<1>3. CASE InRange(pid)
  <2>1. pid \in 0..MaxPid
    BY <1>3 DEF InRange
  <2>2. GoodIndex(g, E, O) /\ g.size >= pid + 1
    BY <2>1, GrowGood
  <2> DEFINE p == [call EXCEPT !.ppid = 0]
  <2>3. GoodAt(pid + 1, p, E, O)
    BY <2>1, NewProcGood
  <2>4. /\ GoodIndex(Store(g, pid, p), E, O)
        /\ Store(g, pid, p).procs[pid + 1] = p
        /\ Store(g, pid, p).size = g.size
    BY <2>1, <2>2, <2>3, StoreGood
  <2>5. \/ a = [ix |-> g, ret |-> "exists"]
        \/ a = [ix |-> g, ret |-> "crash"]
        \/ a = [ix |-> Store(g, pid, p), ret |-> "ok"]
    BY <1>1, <1>3 DEF Add
  <2> HIDE DEF g, p, call, a
  <2>6. /\ GoodIndex(a.ix, E, O)
        /\ a.ix.size >= pid + 1
        /\ a.ret = "ok" => GoodAt(pid + 1, a.ix.procs[pid + 1], E, O)
    <3>1. CASE a = [ix |-> g, ret |-> "exists"]
      BY <3>1, <2>2
    <3>2. CASE a = [ix |-> g, ret |-> "crash"]
      BY <3>2, <2>2
    <3>3. CASE a = [ix |-> Store(g, pid, p), ret |-> "ok"]
      BY <3>3, <2>2, <2>3, <2>4
    <3> QED
      BY <2>5, <3>1, <3>2, <3>3
  <2> QED
    BY <1>3, <2>6 DEF a, call
<1> QED
  BY <1>2, <1>3

LEMMA RetrieveGood ==
    ASSUME NEW E, NEW O, NEW ix, GoodIndex(ix, E, O), NEW pid \in 0..MaxPid
    PROVE  GoodIndex(Retrieve(ix, pid), E, O)
  BY StoreGood DEF Retrieve

LEMMA AddReplacingGood ==
    ASSUME NEW E, NEW O, NEW ix, GoodIndex(ix, E, O), NEW w \in Slack,
           NEW exec \in E, NEW pid \in Nat, NEW ppid \in Nat
    PROVE  GoodIndex(AddReplacing(ix, NewProc(exec, pid, ppid), w).ix, E, O)
<1> DEFINE call == NewProc(exec, pid, ppid)
           first == Add(ix, call, w)
           second == Add(Retrieve(first.ix, pid), call, w)
<1>1. call.pid = pid
  BY DEF NewProc
<1>2. GoodIndex(first.ix, E, O) /\ (first.ret = "exists" => InRange(pid))
  BY AddGood
<1>3. first.ret = "exists" => GoodIndex(Retrieve(first.ix, pid), E, O)
  BY <1>2, RetrieveGood DEF InRange
<1>4. first.ret = "exists" => GoodIndex(second.ix, E, O)
  BY <1>3, AddGood
<1>5. AddReplacing(ix, call, w).ix = IF first.ret = "exists" THEN second.ix ELSE first.ix
  BY <1>1 DEF AddReplacing
<1> QED
  BY <1>2, <1>4, <1>5

\* A good process that takes an open call of its pid is good again, whether
\* its buffer is doubled or not.
LEMMA WithCallGood ==
    ASSUME NEW E, NEW O, NEW i, NEW p, GoodAt(i, p, E, O), NEW o \in O, o.pid = p.pid
    PROVE  GoodAt(i, [WithCall(p, o) EXCEPT !.tracked = TRUE], E, O)
<1> DEFINE q == [WithCall(p, o) EXCEPT !.tracked = TRUE]
           room == IF Len(p.calls) + 2 = p.callBuff_size
                   THEN 2 * p.callBuff_size ELSE p.callBuff_size
<1>1. /\ p \in ProcsOf(E, O)
      /\ p.calls \in Seq(O)
      /\ p.callBuff_size \in Nat
      /\ Len(p.calls) \in Nat
      /\ Len(p.calls) + 2 <= p.callBuff_size
  BY DEF GoodAt, ProcsOf, ProcSound
<1>2. /\ q.exec = p.exec /\ q.pid = p.pid /\ q.ppid = p.ppid /\ q.deadness = p.deadness
      /\ q.tracked = TRUE
      /\ q.calls = Append(p.calls, o)
      /\ q.callBuff_size = room
  BY <1>1 DEF WithCall, ProcsOf
<1>3. room \in Nat /\ Len(p.calls) + 3 <= room
  BY <1>1
<1>4. Append(p.calls, o) \in Seq(O) /\ Len(Append(p.calls, o)) = Len(p.calls) + 1
  BY <1>1
<1>5. q \in ProcsOf(E, O)
  BY <1>1, <1>3, <1>4 DEF WithCall, ProcsOf
<1>6. \A n \in 1..Len(q.calls) : q.calls[n].pid = q.pid
  BY <1>1, <1>2, <1>4 DEF GoodAt, ProcSound
<1>7. q.calls # <<>>
  BY <1>1, <1>2, <1>4
<1> HIDE DEF q, room
<1>8. ProcSound(q)
  BY <1>1, <1>2, <1>3, <1>4, <1>6, <1>7 DEF ProcSound
<1>9. GoodAt(i, q, E, O)
  BY <1>2, <1>5, <1>8 DEF GoodAt
<1> QED
  BY <1>9 DEF q

\* procindex_trackparents marks no one: a process in the index has no parent.
LEMMA NoAncestors ==
    ASSUME NEW procs, NEW pid, procs[pid + 1].ppid = 0
    PROVE  UntrackedAncestors(procs, pid) = {}
  BY Zenon DEF UntrackedAncestors

LEMMA TakeCallGood ==
    ASSUME NEW E, NEW O, NEW ix, GoodIndex(ix, E, O), NEW pid \in 0..MaxPid, NEW o \in O, o.pid = pid,
           GoodAt(pid + 1, ix.procs[pid + 1], E, O)
    PROVE  GoodIndex([ix EXCEPT !.procs = TakeCall(@, pid, o)], E, O)
<1> USE MaxPidAssumption
<1> DEFINE p == ix.procs[pid + 1]
           q == [WithCall(p, o) EXCEPT !.tracked = TRUE]
           pr == TakeCall(ix.procs, pid, o)
<1>1. GoodAt(pid + 1, q, E, O)
  <2>1. p.pid = pid
    BY DEF GoodAt, ProcsOf
  <2> QED
    BY <2>1, WithCallGood
<1>2. p.ppid = 0
  BY DEF GoodAt
<1>3. UntrackedAncestors(ix.procs, pid) = {}
  BY <1>2, NoAncestors
<1>4. pr = [i \in Slots |-> IF i = pid + 1 THEN q ELSE ix.procs[i]]
  BY <1>3 DEF TakeCall
<1>5. [ix EXCEPT !.procs = TakeCall(@, pid, o)] = [size |-> ix.size, procs |-> pr]
  BY DEF GoodIndex
<1> HIDE DEF q, pr
<1>6. /\ DOMAIN pr = Slots
      /\ pr = [i \in Slots |-> pr[i]]
      /\ \A i \in Slots : pr[i] = IF i = pid + 1 THEN q ELSE ix.procs[i]
  BY <1>4
<1>7. GoodWords(pr, ix.size, E, O)
  BY <1>1, <1>6 DEF GoodWords, GoodIndex
<1> QED
  BY <1>5, <1>6, <1>7 DEF GoodIndex

LEMMA OpencallAddGood ==
    ASSUME NEW E, NEW O, NEW ix, GoodIndex(ix, E, O), NEW w \in Slack, NEW pid \in Nat,
           NEW o \in O, o.pid = pid
    PROVE  GoodIndex(OpencallAdd(ix, pid, o, w).ix, E, O)
<1> USE MaxPidAssumption
<1> DEFINE g == Grow(ix, pid, w)
           target == g.procs[pid + 1]
           dummy == Add(g, NewProc(Unknown, pid, 0), w)
           Taken(i) == [ix |-> [i EXCEPT !.procs = TakeCall(@, pid, o)], ret |-> "ok"]
           r == OpencallAdd(ix, pid, o, w)
<1>1. CASE ~InRange(pid)
  BY <1>1 DEF OpencallAdd
<1>2. CASE InRange(pid)
  <2>1. pid \in 0..MaxPid
    BY <1>2 DEF InRange
  <2>2. GoodIndex(g, E, O) /\ g.size >= pid + 1
    BY <2>1, GrowGood
  <2>3. Unknown \in E
    BY DEF GoodIndex, Distinct
  <2>4. /\ GoodIndex(dummy.ix, E, O)
        /\ dummy.ret = "ok" => GoodAt(pid + 1, dummy.ix.procs[pid + 1], E, O)
    BY <2>2, <2>3, AddGood
  <2>5. target = NULL => dummy.ret \in {"crash", "ok"}
    <3>1. NewProc(Unknown, pid, 0).pid = pid
      BY DEF NewProc
    <3>2. Grow(g, pid, w) = g
      BY <2>1, <2>2 DEF Grow, GrownSize, GoodIndex
    <3> HIDE DEF g
    <3> QED
      BY <1>2, <3>1, <3>2 DEF Add
  <2>6. \/ target = Wild /\ r = [ix |-> g, ret |-> "crash"]
        \/ target # Wild /\ target # NULL /\ r = Taken(g)
        \/ target = NULL /\ dummy.ret = "crash" /\ r = dummy
        \/ target = NULL /\ dummy.ret # "crash" /\ r = Taken(dummy.ix)
    BY <1>2, Zenon DEF OpencallAdd
  <2>7. CASE target = Wild /\ r = [ix |-> g, ret |-> "crash"]
    BY <2>2, <2>7
  <2>8. CASE target # Wild /\ target # NULL /\ r = Taken(g)
    <3>1. GoodAt(pid + 1, target, E, O)
      BY <2>1, <2>2, <2>8 DEF GoodIndex, GoodWords, Slots
    <3>2. GoodIndex([g EXCEPT !.procs = TakeCall(@, pid, o)], E, O)
      BY <2>1, <2>2, <3>1, TakeCallGood
    <3> QED
      BY <2>8, <3>2
  <2>9. CASE target = NULL /\ dummy.ret = "crash" /\ r = dummy
    BY <2>4, <2>9
  <2>10. CASE target = NULL /\ dummy.ret # "crash" /\ r = Taken(dummy.ix)
    <3>1. GoodAt(pid + 1, dummy.ix.procs[pid + 1], E, O)
      BY <2>4, <2>5, <2>10
    <3>2. GoodIndex([dummy.ix EXCEPT !.procs = TakeCall(@, pid, o)], E, O)
      BY <2>1, <2>4, <3>1, TakeCallGood
    <3> QED
      BY <2>10, <3>2
  <2> HIDE DEF target, dummy, Taken, r, g
  <2> QED
    BY <2>6, <2>7, <2>8, <2>9, <2>10 DEF r
<1> QED
  BY <1>1, <1>2

LEMMA VitalsGood ==
    ASSUME NEW E, NEW O, NEW gone, NEW i, NEW p, p = NULL \/ GoodAt(i, p, E, O)
    PROVE  VitalsOf(p, gone) = NULL \/ GoodAt(i, VitalsOf(p, gone), E, O)
<1>1. CASE VitalsOf(p, gone) \in {p, NULL}
  BY <1>1
<1>2. CASE VitalsOf(p, gone) \notin {p, NULL}
  <2> DEFINE q == [p EXCEPT !.deadness = @ + 1]
  <2>1. VitalsOf(p, gone) = q /\ p # NULL /\ ~(p.deadness > 2)
    BY <1>2 DEF VitalsOf
  <2>2. GoodAt(i, p, E, O)
    BY <2>1
  <2>3. /\ q \in ProcsOf(E, O) /\ q.pid = p.pid /\ q.ppid = p.ppid /\ q.tracked = p.tracked
        /\ q.calls = p.calls /\ q.callBuff_size = p.callBuff_size
    BY <2>1, <2>2 DEF GoodAt, ProcsOf
  <2> HIDE DEF q
  <2>4. GoodAt(i, q, E, O)
    BY <2>2, <2>3 DEF GoodAt, ProcSound
  <2> QED
    BY <2>1, <2>4
<1> QED
  BY <1>1, <1>2

\* surv_check_proc_vitals keeps the index good.
LEMMA CheckVitalsGood ==
    ASSUME NEW E, NEW O, NEW ix, GoodIndex(ix, E, O), NEW gone
    PROVE  GoodIndex(CheckVitals(ix, gone).ix, E, O)
<1> DEFINE pr == [i \in Slots |-> IF i < ix.size THEN VitalsOf(ix.procs[i], gone)
                                  ELSE ix.procs[i]]
<1>1. CheckVitals(ix, gone).ix = [size |-> ix.size, procs |-> pr]
  BY DEF CheckVitals, GoodIndex
<1>2. GoodWords(pr, ix.size, E, O)
  <2> SUFFICES ASSUME NEW i \in Slots
               PROVE  \/ pr[i] = NULL
                      \/ pr[i] = Wild /\ i >= ix.size
                      \/ GoodAt(i, pr[i], E, O)
    BY DEF GoodWords
  <2>1. \/ ix.procs[i] = NULL
        \/ ix.procs[i] = Wild /\ i >= ix.size
        \/ GoodAt(i, ix.procs[i], E, O)
    BY DEF GoodIndex, GoodWords
  <2>2. CASE i < ix.size
    <3>1. ~(i >= ix.size)
      BY <2>2 DEF GoodIndex, Slots
    <3>2. pr[i] = VitalsOf(ix.procs[i], gone)
      BY <2>2
    <3> QED
      BY <2>1, <3>1, <3>2, VitalsGood
  <2>3. CASE ~(i < ix.size)
    BY <2>1, <2>3
  <2> QED
    BY <2>2, <2>3
<1>3. pr = [i \in Slots |-> pr[i]]
  OBVIOUS
<1> HIDE DEF pr
<1> QED
  BY <1>1, <1>2, <1>3 DEF GoodIndex

\* surv_flush_procindex keeps the index good and leaves nothing in the array.
LEMMA FlushGood ==
    ASSUME NEW E, NEW O, NEW ix, GoodIndex(ix, E, O)
    PROVE  /\ GoodIndex(Flush(ix).ix, E, O)
           /\ \A i \in 0..(Flush(ix).ix.size - 1) : Flush(ix).ix.procs[i] = NULL
<1> USE MaxPidAssumption
<1> DEFINE pr == [i \in Slots |-> IF i \in 1..(ix.size - 1) THEN NULL ELSE ix.procs[i]]
           f == Flush(ix).ix
<1>1. f = [size |-> ix.size, procs |-> pr]
  BY DEF Flush, GoodIndex
<1>2. GoodWords(pr, ix.size, E, O) /\ pr = [i \in Slots |-> pr[i]]
  BY DEF GoodIndex, GoodWords
<1>3. ix.procs[0] = NULL
  <2>1. 0 \in Slots /\ ~(0 >= ix.size)
    BY DEF Slots, GoodIndex
  <2>2. ~GoodAt(0, ix.procs[0], E, O)
    BY DEF GoodAt, ProcsOf
  <2> QED
    BY <2>1, <2>2 DEF GoodIndex, GoodWords
<1>4. \A i \in 0..(ix.size - 1) : pr[i] = NULL
  BY <1>3 DEF Slots, GoodIndex
<1> HIDE DEF pr, f
<1>5. GoodIndex(f, E, O) /\ f.size = ix.size /\ f.procs = pr
  BY <1>1, <1>2 DEF GoodIndex
<1> QED
  BY <1>4, <1>5 DEF f

\* procindex_init
LEMMA NewIndexGood ==
    ASSUME NEW E, NEW O, Distinct(E, O), NEW guide \in Nat, NEW w \in Slack
    PROVE  GoodIndex(NewIndex(guide, w), E, O)
<1> USE MaxPidAssumption
<1> DEFINE s == InitialSize(guide)
           pr == [i \in Slots |-> IF i = s THEN w ELSE NULL]
<1>1. s \in 1..(MaxPid + 1)
  BY DEF InitialSize
<1>2. NewIndex(guide, w) = [size |-> s, procs |-> pr]
  BY DEF NewIndex
<1> HIDE DEF s
<1>3. GoodWords(pr, s, E, O)
  BY <1>1, SlackAssumption DEF GoodWords, Slots
<1> QED
  BY <1>1, <1>2, <1>3 DEF GoodIndex

-----------------------------------------------------------------------------
(* Where the processes of an index go *)

Same(p, q) == p.exec = q.exec /\ p.calls = q.calls

\* An operation turns ix into ix2 and takes `out' out of it: what is in ix2,
\* but for the word x, was in the same word before; what is taken out was in
\* the words `where' and is no longer there; and open calls are lost only with
\* the word behind the old array.
Moves(ix, ix2, out, x, where) ==
    /\ ix2.size >= ix.size
    /\ \A i \in 0..ix2.size :
          i # x /\ IsProc(ix2.procs[i])
              => i \in 0..ix.size /\ IsProc(ix.procs[i]) /\ Same(ix2.procs[i], ix.procs[i])
    /\ \A n \in 1..Len(out) :
          IsProc(out[n]) => /\ where[n] \in 0..ix.size
                            /\ out[n] = ix.procs[where[n]]
                            /\ where[n] = x \/ ~IsProc(ix2.procs[where[n]])
    /\ \A m, n \in 1..Len(out) :
          m # n /\ IsProc(out[m]) /\ IsProc(out[n]) => where[m] # where[n]
    /\ \A i \in 0..ix.size :
          IsProc(ix.procs[i]) /\ ix.procs[i].calls # <<>>
              => \/ i = ix.size /\ ix2.size > ix.size
                 \/ \E n \in 1..Len(out) : out[n] = ix.procs[i]
                 \/ /\ IsProc(ix2.procs[i])
                    /\ ToSet(ix.procs[i].calls) \subseteq ToSet(ix2.procs[i].calls)

\* No word: operations that enter nothing.
Nowhere == -1

LEMMA MovesNothing ==
    ASSUME NEW E, NEW O, NEW ix, GoodIndex(ix, E, O)
    PROVE  Moves(ix, ix, <<>>, Nowhere, <<>>)
<1>1. ix.size \in Nat
  BY DEF GoodIndex
<1> QED
  BY <1>1 DEF Moves, Same

LEMMA GrowWords ==
    ASSUME NEW E, NEW O, NEW ix, GoodIndex(ix, E, O), NEW pid \in 0..MaxPid, NEW w \in Slack
    PROVE  LET g == Grow(ix, pid, w)
           IN  /\ g.size >= ix.size
               /\ \A i \in 0..g.size : IsProc(g.procs[i]) => i \in 0..ix.size /\ g.procs[i] = ix.procs[i]
               /\ \A i \in 0..ix.size : g.procs[i] = ix.procs[i] \/ (i = ix.size /\ g.size > ix.size)
               /\ pid + 1 <= ix.size => g = ix
<1> USE MaxPidAssumption
<1> DEFINE new == GrownSize(ix.size, pid + 1)
           g == Grow(ix, pid, w)
<1>1. new \in 1..(MaxPid + 1) /\ new >= ix.size /\ new >= pid + 1
  BY GrownSizeBounds DEF GoodIndex
<1>2. ix.size \in 1..(MaxPid + 1)
  BY DEF GoodIndex
<1>3. pid + 1 <= ix.size => new = ix.size
  BY DEF GrownSize
<1> HIDE DEF new
<1>4. CASE new = ix.size
  <2>1. g = ix
    BY <1>4 DEF Grow, new
  <2> HIDE DEF g
  <2> QED
    BY <1>2, <2>1 DEF g
<1>5. CASE new # ix.size
  <2> DEFINE pr == [i \in Slots |-> IF i < ix.size THEN ix.procs[i]
                                    ELSE IF i = new THEN w ELSE NULL]
  <2>1. g = [size |-> new, procs |-> pr]
    BY <1>5 DEF Grow, new
  <2>2. \A i \in 0..new : pr[i] = IF i < ix.size THEN ix.procs[i] ELSE IF i = new THEN w ELSE NULL
    BY <1>1 DEF Slots
  <2>3. ~IsProc(w) /\ ~IsProc(NULL)
    BY SlackAssumption DEF IsProc
  <2> HIDE DEF pr, g
  <2>4. new > ix.size /\ ~(pid + 1 <= ix.size)
    BY <1>1, <1>2, <1>3, <1>5
  <2>5. g.size = new /\ g.procs = pr
    BY <2>1
  <2>6. \A i \in 0..new : IsProc(pr[i]) => i \in 0..ix.size /\ pr[i] = ix.procs[i]
    <3> SUFFICES ASSUME NEW i \in 0..new, IsProc(pr[i]) PROVE i \in 0..ix.size /\ pr[i] = ix.procs[i]
      OBVIOUS
    <3>1. i < ix.size
      BY <2>2, <2>3
    <3> QED
      BY <3>1, <2>2, <1>2
  <2>7. \A i \in 0..ix.size : pr[i] = ix.procs[i] \/ i = ix.size
    BY <1>1, <1>2, <2>2, <2>4
  <2> QED
    BY <1>1, <2>4, <2>5, <2>6, <2>7 DEF g
<1> QED
  BY <1>4, <1>5

LEMMA GrowMoves ==
    ASSUME NEW E, NEW O, NEW ix, GoodIndex(ix, E, O), NEW pid \in 0..MaxPid, NEW w \in Slack
    PROVE  Moves(ix, Grow(ix, pid, w), <<>>, Nowhere, <<>>)
<1> DEFINE g == Grow(ix, pid, w)
<1>1. /\ g.size >= ix.size
      /\ \A i \in 0..g.size : IsProc(g.procs[i]) => i \in 0..ix.size /\ g.procs[i] = ix.procs[i]
      /\ \A i \in 0..ix.size : g.procs[i] = ix.procs[i] \/ (i = ix.size /\ g.size > ix.size)
  BY GrowWords
<1> HIDE DEF g
<1>2. Moves(ix, g, <<>>, Nowhere, <<>>)
  BY <1>1 DEF Moves, Same
<1> QED
  BY <1>2 DEF g

LEMMA StoreWords ==
    ASSUME NEW E, NEW O, NEW ix, GoodIndex(ix, E, O), NEW pid \in 0..MaxPid, NEW p
    PROVE  /\ Store(ix, pid, p).size = ix.size
           /\ Store(ix, pid, p).procs[pid + 1] = p
           /\ \A i \in Slots : i # pid + 1 => Store(ix, pid, p).procs[i] = ix.procs[i]
<1> DEFINE pr == [ix.procs EXCEPT ![pid + 1] = p]
<1>1. Store(ix, pid, p) = [size |-> ix.size, procs |-> pr]
  BY DEF Store, GoodIndex
<1>2. pid + 1 \in Slots
  BY MaxPidAssumption DEF Slots
<1>3. pr[pid + 1] = p /\ \A i \in Slots : i # pid + 1 => pr[i] = ix.procs[i]
  BY <1>2 DEF GoodIndex
<1> HIDE DEF pr
<1> QED
  BY <1>1, <1>3

\* How a process looks that has just been entered.
Entered(p, exec) == IsProc(p) /\ p.exec = exec /\ p.calls = <<>>

\* The ways procindex_add may end.
LEMMA AddCases ==
    ASSUME NEW E, NEW O, NEW ix, GoodIndex(ix, E, O), NEW w \in Slack,
           NEW exec \in E, NEW pid \in Nat, NEW ppid \in Nat
    PROVE  LET a == Add(ix, NewProc(exec, pid, ppid), w)
               g == Grow(ix, pid, w)
           IN  \/ ~InRange(pid) /\ a.ret = "range" /\ a.ix = ix
               \/ InRange(pid) /\ a.ret = "exists" /\ a.ix = g /\ g.procs[pid + 1] # NULL
               \/ InRange(pid) /\ a.ret = "crash" /\ a.ix = g /\ g.procs[pid + 1] = NULL
               \/ /\ InRange(pid) /\ a.ret = "ok" /\ g.procs[pid + 1] = NULL
                  /\ a.ix.size = g.size
                  /\ Entered(a.ix.procs[pid + 1], exec)
                  /\ \A i \in Slots : i # pid + 1 => a.ix.procs[i] = g.procs[i]
<1> DEFINE call == NewProc(exec, pid, ppid)
           p == [call EXCEPT !.ppid = 0]
           g == Grow(ix, pid, w)
           a == Add(ix, call, w)
<1>1. call.pid = pid /\ p.exec = exec /\ p.calls = <<>>
  BY DEF NewProc
<1>2. \/ ~InRange(pid) /\ a = [ix |-> ix, ret |-> "range"]
      \/ InRange(pid) /\ g.procs[pid + 1] # NULL /\ a = [ix |-> g, ret |-> "exists"]
      \/ InRange(pid) /\ g.procs[pid + 1] = NULL /\ a = [ix |-> g, ret |-> "crash"]
      \/ InRange(pid) /\ g.procs[pid + 1] = NULL /\ a = [ix |-> Store(g, pid, p), ret |-> "ok"]
  BY <1>1 DEF Add
<1>3. ASSUME InRange(pid)
      PROVE  /\ Store(g, pid, p).size = g.size
             /\ Entered(Store(g, pid, p).procs[pid + 1], exec)
             /\ \A i \in Slots : i # pid + 1 => Store(g, pid, p).procs[i] = g.procs[i]
  <2>1. pid \in 0..MaxPid
    BY <1>3 DEF InRange
  <2>2. GoodIndex(g, E, O)
    BY <2>1, GrowGood
  <2>3. p \in ProcsOf(E, O)
    BY <2>1, NewProcGood DEF GoodAt
  <2>4. IsProc(p)
    BY <2>3 DEF IsProc, GoodIndex, Distinct
  <2> HIDE DEF g, p
  <2>5. Store(g, pid, p).procs[pid + 1] = p
    BY <2>1, <2>2, StoreWords
  <2>6. Entered(Store(g, pid, p).procs[pid + 1], exec)
    BY <1>1, <2>4, <2>5 DEF Entered
  <2> QED
    BY <2>1, <2>2, <2>6, StoreWords
<1> HIDE DEF a, g, p, call
<1>4. \/ ~InRange(pid) /\ a.ret = "range" /\ a.ix = ix
      \/ InRange(pid) /\ g.procs[pid + 1] # NULL /\ a.ret = "exists" /\ a.ix = g
      \/ InRange(pid) /\ g.procs[pid + 1] = NULL /\ a.ret = "crash" /\ a.ix = g
      \/ InRange(pid) /\ g.procs[pid + 1] = NULL /\ a.ret = "ok" /\ a.ix = Store(g, pid, p)
  BY <1>2
<1> QED
  BY <1>3, <1>4 DEF a, g, call

\* procindex_add enters a process in a word that held none, or nothing.
LEMMA AddMoves ==
    ASSUME NEW E, NEW O, NEW ix, GoodIndex(ix, E, O), NEW w \in Slack,
           NEW exec \in E, NEW pid \in Nat, NEW ppid \in Nat
    PROVE  LET a == Add(ix, NewProc(exec, pid, ppid), w)
           IN  \/ Moves(ix, a.ix, <<>>, Nowhere, <<>>)
               \/ /\ Moves(ix, a.ix, <<>>, pid + 1, <<>>)
                  /\ Entered(a.ix.procs[pid + 1], exec)
<1> DEFINE a == Add(ix, NewProc(exec, pid, ppid), w)
           g == Grow(ix, pid, w)
<1>1. CASE ~InRange(pid) /\ a.ret = "range" /\ a.ix = ix
  BY <1>1, MovesNothing
<1>2. CASE InRange(pid) /\ a.ix = g
  BY <1>2, GrowMoves DEF InRange
<1>3. ASSUME InRange(pid), g.procs[pid + 1] = NULL, a.ix.size = g.size,
             Entered(a.ix.procs[pid + 1], exec),
             \A i \in Slots : i # pid + 1 => a.ix.procs[i] = g.procs[i]
      PROVE  Moves(ix, a.ix, <<>>, pid + 1, <<>>)
  <2>1. pid \in 0..MaxPid
    BY <1>3 DEF InRange
  <2>2. /\ g.size >= ix.size
        /\ \A i \in 0..g.size : IsProc(g.procs[i]) => i \in 0..ix.size /\ g.procs[i] = ix.procs[i]
        /\ \A i \in 0..ix.size : g.procs[i] = ix.procs[i] \/ (i = ix.size /\ g.size > ix.size)
    BY <2>1, GrowWords
  <2>3. g.size \in 1..(MaxPid + 1) /\ ix.size \in 1..(MaxPid + 1)
    BY <2>1, GrowGood DEF GoodIndex
  <2>4. \A i \in 0..g.size : i \in Slots
    BY <2>3, MaxPidAssumption DEF Slots
  <2>5. \A i \in 0..ix.size : i \in Slots
    BY <2>3, MaxPidAssumption DEF Slots
  <2> HIDE DEF a, g
  <2>6. ~IsProc(NULL)
    BY DEF IsProc
  <2>7. \A i \in 0..a.ix.size : i # pid + 1 /\ IsProc(a.ix.procs[i])
           => i \in 0..ix.size /\ IsProc(ix.procs[i]) /\ Same(a.ix.procs[i], ix.procs[i])
    BY <1>3, <2>2, <2>4 DEF Same
  <2>8. ASSUME NEW i \in 0..ix.size, IsProc(ix.procs[i])
        PROVE  \/ i = ix.size /\ a.ix.size > ix.size
               \/ a.ix.procs[i] = ix.procs[i]
    BY <1>3, <2>2, <2>5, <2>6, <2>8
  <2> QED
    BY <1>3, <2>2, <2>7, <2>8 DEF Moves
<1>4. \/ ~InRange(pid) /\ a.ret = "range" /\ a.ix = ix
      \/ InRange(pid) /\ a.ret = "exists" /\ a.ix = g /\ g.procs[pid + 1] # NULL
      \/ InRange(pid) /\ a.ret = "crash" /\ a.ix = g /\ g.procs[pid + 1] = NULL
      \/ /\ InRange(pid) /\ a.ret = "ok" /\ g.procs[pid + 1] = NULL
         /\ a.ix.size = g.size
         /\ Entered(a.ix.procs[pid + 1], exec)
         /\ \A i \in Slots : i # pid + 1 => a.ix.procs[i] = g.procs[i]
  BY AddCases
<1> HIDE DEF a, g
<1> QED
  BY <1>1, <1>2, <1>3, <1>4 DEF a

\* What surv_addExecCall with the result r does to the index: nothing, or it
\* adds the process of the call, or it takes an old one of that pid out too.
Replaced(ix, r, exec, pid, E, O) ==
    \/ r.out = <<>> /\ Moves(ix, r.ix, <<>>, Nowhere, <<>>)
    \/ /\ r.out = <<>> /\ Moves(ix, r.ix, <<>>, pid + 1, <<>>)
       /\ Entered(r.ix.procs[pid + 1], exec)
    \/ /\ r.out \in Seq(ProcsOf(E, O) \cup {Wild})
       /\ Moves(ix, r.ix, r.out, pid + 1, <<pid + 1>>)
       /\ r.ix.procs[pid + 1] = NULL \/ Entered(r.ix.procs[pid + 1], exec)

\* surv_addExecCall takes an old process of the same pid out of the index; the
\* only process in the index that was not there before is the one of the call.
LEMMA AddReplacingMoves ==
    ASSUME NEW E, NEW O, NEW ix, GoodIndex(ix, E, O), NEW w \in Slack,
           NEW exec \in E, NEW pid \in Nat, NEW ppid \in Nat
    PROVE  Replaced(ix, AddReplacing(ix, NewProc(exec, pid, ppid), w), exec, pid, E, O)
<1> USE DEF Replaced
<1> USE MaxPidAssumption
<1> DEFINE call == NewProc(exec, pid, ppid)
           first == Add(ix, call, w)
           second == Add(Retrieve(first.ix, pid), call, w)
           g == Grow(ix, pid, w)
           r == AddReplacing(ix, call, w)
<1>1. call.pid = pid
  BY DEF NewProc
<1>2. /\ first.ret # "exists" => r = [ix |-> first.ix, ret |-> first.ret, out |-> <<>>]
      /\ first.ret = "exists"
            => r = [ix |-> second.ix, ret |-> second.ret, out |-> <<Lookup(first.ix, pid)>>]
  BY <1>1 DEF AddReplacing
<1>3. CASE first.ret # "exists"
  <2>1. \/ Moves(ix, first.ix, <<>>, Nowhere, <<>>)
        \/ Moves(ix, first.ix, <<>>, pid + 1, <<>>) /\ Entered(first.ix.procs[pid + 1], exec)
    BY AddMoves
  <2> HIDE DEF first, r, call
  <2>2. r.ix = first.ix /\ r.out = <<>>
    BY <1>2, <1>3
  <2> QED
    BY <2>1, <2>2 DEF r, call
<1>4. CASE first.ret = "exists"
  <2>1. InRange(pid) /\ first.ix = g /\ g.procs[pid + 1] # NULL
    BY <1>4, AddCases
  <2>2. pid \in 0..MaxPid
    BY <2>1 DEF InRange
  <2>3. GoodIndex(g, E, O) /\ g.size >= pid + 1 /\ g.size \in 1..(MaxPid + 1) /\ ix.size \in 1..(MaxPid + 1)
    BY <2>2, GrowGood DEF GoodIndex
  <2>4. /\ g.size >= ix.size
        /\ \A i \in 0..g.size : IsProc(g.procs[i]) => i \in 0..ix.size /\ g.procs[i] = ix.procs[i]
        /\ \A i \in 0..ix.size : g.procs[i] = ix.procs[i] \/ (i = ix.size /\ g.size > ix.size)
    BY <2>2, GrowWords
  <2> DEFINE h == Store(g, pid, NULL)
  <2> HIDE DEF g
  <2>5. Retrieve(g, pid) = h /\ Lookup(g, pid) = g.procs[pid + 1]
    BY <2>1, <2>3 DEF Retrieve, Lookup
  <2>6. GoodIndex(h, E, O) /\ h.procs[pid + 1] = NULL /\ h.size = g.size
    BY <2>2, <2>3, StoreGood
  <2>7. \A i \in Slots : i # pid + 1 => h.procs[i] = g.procs[i]
    BY <2>2, <2>3, StoreWords
  <2> HIDE DEF h
  <2>8. Grow(h, pid, w) = h
    BY <2>2, <2>3, <2>6, GrowWords
  <2> DEFINE a == Add(h, call, w)
  <2>9. \/ ~InRange(pid) /\ a.ret = "range" /\ a.ix = h
        \/ InRange(pid) /\ a.ret = "exists" /\ a.ix = h /\ h.procs[pid + 1] # NULL
        \/ InRange(pid) /\ a.ret = "crash" /\ a.ix = h /\ h.procs[pid + 1] = NULL
        \/ /\ InRange(pid) /\ a.ret = "ok" /\ h.procs[pid + 1] = NULL
           /\ a.ix.size = h.size
           /\ Entered(a.ix.procs[pid + 1], exec)
           /\ \A i \in Slots : i # pid + 1 => a.ix.procs[i] = h.procs[i]
    BY <2>6, <2>8, AddCases
  <2>10. r = [ix |-> a.ix, ret |-> a.ret, out |-> <<g.procs[pid + 1]>>]
    BY <1>2, <1>4, <2>1, <2>5
  <2> HIDE DEF a, r, call, first, second
  <2>11. r.ix = a.ix /\ r.out = <<g.procs[pid + 1]>>
    BY <2>10
  <2>12. /\ r.ix.size = g.size
         /\ \A i \in Slots : i # pid + 1 => r.ix.procs[i] = g.procs[i]
         /\ r.ix.procs[pid + 1] = NULL \/ Entered(r.ix.procs[pid + 1], exec)
    BY <2>1, <2>6, <2>7, <2>9, <2>11
  <2>13. pid + 1 \in 0..g.size /\ pid + 1 \in Slots
    BY <2>2, <2>3 DEF Slots
  <2>14. r.out \in Seq(ProcsOf(E, O) \cup {Wild})
    <3>1. g.procs[pid + 1] \in ProcsOf(E, O) \cup {Wild}
      BY <2>1, <2>3, <2>13 DEF GoodIndex, GoodWords, GoodAt
    <3> QED
      BY <2>11, <3>1
  <2>15. Moves(ix, r.ix, r.out, pid + 1, <<pid + 1>>)
    <3>1. \A i \in 0..g.size : i \in Slots
      BY <2>3 DEF Slots
    <3>2. \A i \in 0..ix.size : i \in Slots
      BY <2>3 DEF Slots
    <3>3. \A i \in 0..r.ix.size :
             i # pid + 1 /\ IsProc(r.ix.procs[i])
                => i \in 0..ix.size /\ IsProc(ix.procs[i]) /\ Same(r.ix.procs[i], ix.procs[i])
      BY <2>4, <2>12, <3>1 DEF Same
    <3>4. Len(r.out) = 1 /\ r.out[1] = g.procs[pid + 1]
      BY <2>11
    <3>5. IsProc(r.out[1]) => pid + 1 \in 0..ix.size /\ r.out[1] = ix.procs[pid + 1]
      BY <2>4, <2>13, <3>4
    <3>6. \A n \in 1..Len(r.out) : n = 1
      BY <3>4
    <3>7. ASSUME NEW i \in 0..ix.size
          PROVE  \/ i = ix.size /\ r.ix.size > ix.size
                 \/ \E n \in 1..Len(r.out) : r.out[n] = ix.procs[i]
                 \/ r.ix.procs[i] = ix.procs[i]
      BY <2>4, <2>12, <3>2, <3>4
    <3>8. <<pid + 1>>[1] = pid + 1
      OBVIOUS
    <3>9. \A n \in 1..Len(r.out) :
             IsProc(r.out[n]) => /\ <<pid + 1>>[n] \in 0..ix.size
                                 /\ r.out[n] = ix.procs[<<pid + 1>>[n]]
                                 /\ <<pid + 1>>[n] = pid + 1
      BY <3>5, <3>6, <3>8
    <3> QED
      BY <2>4, <2>12, <3>3, <3>6, <3>7, <3>9 DEF Moves
  <2> QED
    BY <2>12, <2>14, <2>15 DEF r, call
<1> QED
  BY <1>3, <1>4

LEMMA AppendSet ==
    ASSUME NEW T, NEW s \in Seq(T), NEW o \in T
    PROVE  ToSet(Append(s, o)) = ToSet(s) \cup {o}
<1>1. DOMAIN s = 1..Len(s) /\ DOMAIN Append(s, o) = 1..(Len(s) + 1) /\ Len(s) \in Nat
  OBVIOUS
<1>2. /\ \A n \in 1..Len(s) : Append(s, o)[n] = s[n]
      /\ Append(s, o)[Len(s) + 1] = o
  OBVIOUS
<1>3. \A n \in 1..(Len(s) + 1) : n \in 1..Len(s) \/ n = Len(s) + 1
  BY <1>1
<1>4. \A n \in 1..Len(s) : n \in 1..(Len(s) + 1)
  BY <1>1
<1>5. Len(s) + 1 \in 1..(Len(s) + 1)
  BY <1>1
<1> QED
  BY <1>1, <1>2, <1>3, <1>4, <1>5 DEF ToSet

\* In ix2 the process in word x has taken the call o, and nothing else happened.
TakesCall(ix, ix2, x, o) ==
    /\ ix2.size = ix.size
    /\ \A i \in Slots : i # x => ix2.procs[i] = ix.procs[i]
    /\ ix2.procs[x].exec = ix.procs[x].exec
    /\ ix2.procs[x].calls = Append(ix.procs[x].calls, o)

LEMMA TakeCallWords ==
    ASSUME NEW E, NEW O, NEW ix, GoodIndex(ix, E, O), NEW pid \in 0..MaxPid, NEW o \in O,
           GoodAt(pid + 1, ix.procs[pid + 1], E, O)
    PROVE  TakesCall(ix, [ix EXCEPT !.procs = TakeCall(@, pid, o)], pid + 1, o)
<1> USE MaxPidAssumption
<1> DEFINE p == ix.procs[pid + 1]
           q == [WithCall(p, o) EXCEPT !.tracked = TRUE]
           pr == TakeCall(ix.procs, pid, o)
           ix2 == [ix EXCEPT !.procs = TakeCall(@, pid, o)]
<1>1. p \in ProcsOf(E, O) /\ p.ppid = 0
  BY DEF GoodAt
<1>2. UntrackedAncestors(ix.procs, pid) = {}
  BY <1>1, NoAncestors
<1>3. pr = [i \in Slots |-> IF i = pid + 1 THEN q ELSE ix.procs[i]]
  BY <1>2 DEF TakeCall
<1>4. ix2 = [size |-> ix.size, procs |-> pr]
  BY DEF GoodIndex
<1>5. q.exec = p.exec /\ q.calls = Append(p.calls, o)
  BY <1>1 DEF WithCall, ProcsOf
<1>6. pid + 1 \in Slots
  BY DEF Slots
<1> HIDE DEF q, pr, ix2
<1>7. ix2.size = ix.size /\ ix2.procs = pr
  BY <1>4
<1>8. \A i \in Slots : pr[i] = IF i = pid + 1 THEN q ELSE ix.procs[i]
  BY <1>3
<1> QED
  BY <1>5, <1>6, <1>7, <1>8 DEF ix2, TakesCall

\* What procindex_opencall_add leaves of the word of the pid: the process that
\* was there with one call more, or a dummy with the call.
TakenBy(ix, ix2, x, o) ==
    LET p == ix2.procs[x]
    IN  \/ /\ x \in 0..ix.size /\ IsProc(ix.procs[x])
           /\ p.exec = ix.procs[x].exec /\ p.calls = Append(ix.procs[x].calls, o)
        \/ p.exec = Unknown /\ p.calls = <<o>>

LEMMA OpencallMoves ==
    ASSUME NEW E, NEW O, NEW ix, GoodIndex(ix, E, O), NEW w \in Slack, NEW pid \in Nat,
           NEW o \in O, o.pid = pid
    PROVE  LET r == OpencallAdd(ix, pid, o, w)
           IN  \/ r.ret # "ok" /\ Moves(ix, r.ix, <<>>, Nowhere, <<>>)
               \/ /\ r.ret = "ok" /\ Moves(ix, r.ix, <<>>, pid + 1, <<>>)
                  /\ pid + 1 \in 0..r.ix.size /\ IsProc(r.ix.procs[pid + 1])
                  /\ TakenBy(ix, r.ix, pid + 1, o)
                  /\ o \in ToSet(r.ix.procs[pid + 1].calls)
<1> USE MaxPidAssumption
<1> DEFINE g == Grow(ix, pid, w)
           target == g.procs[pid + 1]
           dummy == Add(g, NewProc(Unknown, pid, 0), w)
           Taken(i) == [ix |-> [i EXCEPT !.procs = TakeCall(@, pid, o)], ret |-> "ok"]
           r == OpencallAdd(ix, pid, o, w)
<1>1. CASE ~InRange(pid)
  <2>1. r = [ix |-> ix, ret |-> "range"]
    BY <1>1 DEF OpencallAdd
  <2> QED
    BY <2>1, MovesNothing
<1>2. CASE InRange(pid)
  <2>1. pid \in 0..MaxPid
    BY <1>2 DEF InRange
  <2>2. /\ GoodIndex(g, E, O) /\ g.size >= pid + 1 /\ g.size \in 1..(MaxPid + 1)
        /\ ix.size \in 1..(MaxPid + 1)
    BY <2>1, GrowGood DEF GoodIndex
  <2>3. /\ g.size >= ix.size
        /\ \A i \in 0..g.size : IsProc(g.procs[i]) => i \in 0..ix.size /\ g.procs[i] = ix.procs[i]
        /\ \A i \in 0..ix.size : g.procs[i] = ix.procs[i] \/ (i = ix.size /\ g.size > ix.size)
    BY <2>1, GrowWords
  <2>4. Moves(ix, g, <<>>, Nowhere, <<>>)
    BY <2>1, GrowMoves
  <2>5. \/ target = Wild /\ r = [ix |-> g, ret |-> "crash"]
        \/ target # Wild /\ target # NULL /\ r = Taken(g)
        \/ target = NULL /\ dummy.ret = "crash" /\ r = dummy
        \/ target = NULL /\ dummy.ret # "crash" /\ r = Taken(dummy.ix)
    BY <1>2, Zenon DEF OpencallAdd
  <2>6. pid + 1 \in Slots /\ pid + 1 \in 0..g.size
    BY <2>1, <2>2 DEF Slots
  <2> HIDE DEF g
  <2>7. Grow(g, pid, w) = g
    BY <2>1, <2>2, GrowWords
  <2>8. Unknown \in E
    BY DEF GoodIndex, Distinct
  <2>9. \/ dummy.ret = "exists" /\ g.procs[pid + 1] # NULL
        \/ dummy.ret = "crash" /\ dummy.ix = g /\ g.procs[pid + 1] = NULL
        \/ /\ dummy.ret = "ok" /\ g.procs[pid + 1] = NULL
           /\ dummy.ix.size = g.size
           /\ Entered(dummy.ix.procs[pid + 1], Unknown)
           /\ \A i \in Slots : i # pid + 1 => dummy.ix.procs[i] = g.procs[i]
    BY <1>2, <2>2, <2>7, <2>8, AddCases
  <2>10. GoodIndex(dummy.ix, E, O) /\ (dummy.ret = "ok" => GoodAt(pid + 1, dummy.ix.procs[pid + 1], E, O))
    BY <2>2, <2>8, AddGood
  <2>11. ASSUME NEW h, GoodIndex(h, E, O), GoodAt(pid + 1, h.procs[pid + 1], E, O), h.size = g.size,
                \A i \in Slots : i # pid + 1 => h.procs[i] = g.procs[i],
                \/ h.procs[pid + 1] = g.procs[pid + 1]
                \/ g.procs[pid + 1] = NULL /\ Entered(h.procs[pid + 1], Unknown)
         PROVE  LET ix2 == [h EXCEPT !.procs = TakeCall(@, pid, o)]
                IN  /\ Moves(ix, ix2, <<>>, pid + 1, <<>>)
                    /\ pid + 1 \in 0..ix2.size /\ IsProc(ix2.procs[pid + 1])
                    /\ TakenBy(ix, ix2, pid + 1, o)
                    /\ o \in ToSet(ix2.procs[pid + 1].calls)
    <3> DEFINE ix2 == [h EXCEPT !.procs = TakeCall(@, pid, o)]
               p == h.procs[pid + 1]
    <3>1. /\ ix2.size = h.size
          /\ \A i \in Slots : i # pid + 1 => ix2.procs[i] = h.procs[i]
          /\ ix2.procs[pid + 1].exec = p.exec
          /\ ix2.procs[pid + 1].calls = Append(p.calls, o)
      <4>1. TakesCall(h, ix2, pid + 1, o)
        BY <2>1, <2>11, TakeCallWords
      <4> QED
        BY <4>1 DEF TakesCall
    <3>2. p \in ProcsOf(E, O) /\ p.calls \in Seq(O) /\ IsProc(p)
      BY <2>11 DEF GoodAt, ProcsOf, IsProc, GoodIndex, Distinct
    <3>3. IsProc(ix2.procs[pid + 1])
      <4>1. GoodIndex(ix2, E, O)
        BY <2>1, <2>11, TakeCallGood
      <4>2. ix2.procs[pid + 1] \notin {NULL, Wild}
        <5>1. p.pid = pid
          BY <2>11 DEF GoodAt, ProcsOf
        <5>2. GoodAt(pid + 1, [WithCall(p, o) EXCEPT !.tracked = TRUE], E, O)
          BY <2>11, <5>1, WithCallGood
        <5>3. UntrackedAncestors(h.procs, pid) = {}
          BY <2>11, NoAncestors DEF GoodAt
        <5>4. TakeCall(h.procs, pid, o)[pid + 1] = [WithCall(p, o) EXCEPT !.tracked = TRUE]
          BY <2>6, <5>3 DEF TakeCall
        <5>5. ix2.procs = TakeCall(h.procs, pid, o)
          BY <2>11 DEF GoodIndex
        <5> QED
          BY <5>2, <5>4, <5>5 DEF GoodAt, GoodIndex, Distinct
      <4> QED
        BY <4>2 DEF IsProc
    <3> HIDE DEF ix2
    <3>4. ToSet(ix2.procs[pid + 1].calls) = ToSet(p.calls) \cup {o}
      BY <3>1, <3>2, AppendSet
    <3>5. \A i \in 0..g.size : i \in Slots
      BY <2>2 DEF Slots
    <3>6. \A i \in 0..ix.size : i \in Slots
      BY <2>2 DEF Slots
    <3>7. \A i \in 0..ix2.size :
             i # pid + 1 /\ IsProc(ix2.procs[i])
                => i \in 0..ix.size /\ IsProc(ix.procs[i]) /\ Same(ix2.procs[i], ix.procs[i])
      BY <2>3, <2>11, <3>1, <3>5 DEF Same
    <3>8. ASSUME NEW i \in 0..ix.size, IsProc(ix.procs[i])
          PROVE  \/ i = ix.size /\ ix2.size > ix.size
                 \/ /\ IsProc(ix2.procs[i])
                    /\ ToSet(ix.procs[i].calls) \subseteq ToSet(ix2.procs[i].calls)
      <4>1. CASE i # pid + 1
        BY <2>3, <2>11, <3>1, <3>6, <3>8, <4>1
      <4>2. CASE i = pid + 1
        <5>1. ~IsProc(NULL)
          BY DEF IsProc
        <5> QED
          BY <2>3, <2>11, <3>1, <3>3, <3>4, <3>8, <4>2, <5>1
      <4> QED
        BY <4>1, <4>2
    <3>9. ix2.size >= ix.size
      BY <2>3, <2>11, <3>1
    <3>10. Moves(ix, ix2, <<>>, pid + 1, <<>>)
      BY <3>7, <3>8, <3>9 DEF Moves
    <3>11. TakenBy(ix, ix2, pid + 1, o)
      <4>1. CASE p = g.procs[pid + 1]
        BY <2>3, <2>6, <3>1, <3>2, <4>1 DEF TakenBy
      <4>2. CASE Entered(p, Unknown)
        BY <3>1, <4>2 DEF TakenBy, Entered
      <4> QED
        BY <2>11, <4>1, <4>2
    <3> QED
      BY <2>6, <2>11, <3>1, <3>3, <3>4, <3>10, <3>11 DEF ix2
  <2>12. CASE target = Wild /\ r = [ix |-> g, ret |-> "crash"]
    BY <2>4, <2>12
  <2>13. CASE target # Wild /\ target # NULL /\ r = Taken(g)
    <3>1. GoodAt(pid + 1, target, E, O)
      BY <2>2, <2>6, <2>13 DEF GoodIndex, GoodWords
    <3>2. r.ix = [g EXCEPT !.procs = TakeCall(@, pid, o)] /\ r.ret = "ok"
      BY <2>13
    <3> HIDE DEF r
    <3> QED
      BY <2>2, <2>11, <3>1, <3>2 DEF r
  <2>14. CASE target = NULL /\ dummy.ret = "crash" /\ r = dummy
    BY <2>4, <2>9, <2>14
  <2>15. CASE target = NULL /\ dummy.ret # "crash" /\ r = Taken(dummy.ix)
    <3>1. r.ix = [dummy.ix EXCEPT !.procs = TakeCall(@, pid, o)] /\ r.ret = "ok"
      BY <2>15
    <3> HIDE DEF r, dummy
    <3> QED
      BY <2>9, <2>10, <2>11, <2>15, <3>1 DEF r
  <2> HIDE DEF target, dummy, Taken, r
  <2> QED
    BY <2>5, <2>12, <2>13, <2>14, <2>15 DEF r
<1> QED
  BY <1>1, <1>2

\* A loop takes the processes of the words W out of the array: the common part
\* of surv_check_proc_vitals and surv_flush_procindex.
LEMMA LoopMoves ==
    ASSUME NEW E, NEW O, NEW ix, GoodIndex(ix, E, O), NEW ix2, NEW W \in SUBSET (0..(ix.size - 1)),
           ix2.size = ix.size,
           \A i \in W : IsProc(ix.procs[i]) /\ ix2.procs[i] = NULL,
           \A i \in 0..ix.size : IsProc(ix2.procs[i])
               => IsProc(ix.procs[i]) /\ Same(ix2.procs[i], ix.procs[i]),
           \A i \in 0..ix.size : IsProc(ix.procs[i]) /\ ix.procs[i].calls # <<>>
               => i \in W \/ (IsProc(ix2.procs[i]) /\ ix2.procs[i].calls = ix.procs[i].calls)
    PROVE  /\ ProcsAt(ix.procs, W) \in Seq(ProcsOf(E, O) \cup {Wild})
           /\ Moves(ix, ix2, ProcsAt(ix.procs, W), Nowhere, InOrder(W))
<1> DEFINE out == ProcsAt(ix.procs, W)
           at == InOrder(W)
<1>1. ix.size \in 1..(MaxPid + 1) /\ ix.size - 1 \in Nat
  BY MaxPidAssumption DEF GoodIndex
<1>2. /\ Len(out) \in Nat
      /\ out = [k \in 1..Len(out) |-> ix.procs[at[k]]]
      /\ \A k \in 1..Len(out) : at[k] \in W /\ out[k] = ix.procs[at[k]]
      /\ \A k, m \in 1..Len(out) : k # m => at[k] # at[m]
      /\ \A i \in W : \E k \in 1..Len(out) : out[k] = ix.procs[i]
  <2> DEFINE n == ix.size - 1
  <2>1. n \in Nat /\ W \in SUBSET (0..n)
    BY <1>1
  <2> HIDE DEF n
  <2>2. TakesOut(out, at, ix.procs, W)
    BY <2>1, ProcsAtFacts
  <2> QED
    BY <2>2 DEF TakesOut
<1>3. \A i \in W : i \in 0..ix.size
  BY <1>1
<1>4. \A i \in W : ix.procs[i] \in ProcsOf(E, O)
  <2> SUFFICES ASSUME NEW i \in W PROVE ix.procs[i] \in ProcsOf(E, O)
    OBVIOUS
  <2>1. i \in Slots
    BY <1>1, MaxPidAssumption DEF Slots
  <2> QED
    BY <2>1 DEF GoodIndex, GoodWords, GoodAt, IsProc
<1> HIDE DEF out, at
<1>5. out \in Seq(ProcsOf(E, O) \cup {Wild})
  <2>1. \A k \in 1..Len(out) : ix.procs[at[k]] \in ProcsOf(E, O) \cup {Wild}
    BY <1>2, <1>4
  <2>2. out \in [1..Len(out) -> ProcsOf(E, O) \cup {Wild}]
    BY <1>2, <2>1, Zenon
  <2> QED
    BY <1>2, <2>2
<1>6. ~IsProc(NULL)
  BY DEF IsProc
<1>7. \A n \in 1..Len(out) :
         /\ at[n] \in 0..ix.size
         /\ out[n] = ix.procs[at[n]]
         /\ ~IsProc(ix2.procs[at[n]])
  <2> SUFFICES ASSUME NEW n \in 1..Len(out)
               PROVE  /\ at[n] \in 0..ix.size
                      /\ out[n] = ix.procs[at[n]]
                      /\ ~IsProc(ix2.procs[at[n]])
    OBVIOUS
  <2>1. at[n] \in W /\ out[n] = ix.procs[at[n]]
    BY <1>2
  <2> QED
    BY <1>3, <1>6, <2>1
<1>8. ix2.size >= ix.size
  BY <1>1
<1>9. Moves(ix, ix2, out, Nowhere, at)
  BY <1>2, <1>7, <1>8 DEF Moves
<1> QED
  BY <1>5, <1>9 DEF out, at

LEMMA VitalsMoves ==
    ASSUME NEW E, NEW O, NEW ix, GoodIndex(ix, E, O), NEW gone
    PROVE  LET v == CheckVitals(ix, gone)
           IN  /\ v.out \in Seq(ProcsOf(E, O) \cup {Wild})
               /\ \E where : Moves(ix, v.ix, v.out, Nowhere, where)
<1> USE MaxPidAssumption
<1> DEFINE W == {i \in TrackedIn(ix.procs, 0, ix.size - 1) : ix.procs[i].pid \in gone}
           pr == [i \in Slots |-> IF i < ix.size THEN VitalsOf(ix.procs[i], gone)
                                  ELSE ix.procs[i]]
           v == CheckVitals(ix, gone)
<1>1. v = [ix |-> [size |-> ix.size, procs |-> pr], out |-> ProcsAt(ix.procs, W)]
  BY DEF CheckVitals, GoodIndex
<1>2. ix.size \in 1..(MaxPid + 1)
  BY DEF GoodIndex
<1>3. \A i \in 0..ix.size : i \in Slots
  BY <1>2 DEF Slots
<1>4. \A i \in 0..ix.size : pr[i] = IF i < ix.size THEN VitalsOf(ix.procs[i], gone) ELSE ix.procs[i]
  BY <1>3
<1>5. \A i \in 0..ix.size : i < ix.size => ix.procs[i] = NULL \/ GoodAt(i, ix.procs[i], E, O)
  <2> SUFFICES ASSUME NEW i \in 0..ix.size, i < ix.size
               PROVE  ix.procs[i] = NULL \/ GoodAt(i, ix.procs[i], E, O)
    OBVIOUS
  <2>1. ~(i >= ix.size)
    BY <1>2
  <2> QED
    BY <1>3, <2>1 DEF GoodIndex, GoodWords
<1>6. \A i \in W : /\ i \in 0..(ix.size - 1) /\ i \in 0..ix.size /\ i < ix.size
                   /\ ix.procs[i] # NULL /\ ix.procs[i].tracked /\ ix.procs[i].pid \in gone
  BY <1>2 DEF TrackedIn
<1>7. ASSUME NEW i \in 0..ix.size, i < ix.size, ix.procs[i] # NULL, ix.procs[i].tracked,
             ix.procs[i].pid \in gone
      PROVE  i \in W
  BY <1>2, <1>7 DEF TrackedIn
<1> HIDE DEF W, pr, v
<1>8. v.ix.size = ix.size /\ v.ix.procs = pr /\ v.out = ProcsAt(ix.procs, W)
  BY <1>1
<1>9. \A i \in W : IsProc(ix.procs[i]) /\ pr[i] = NULL
  <2> SUFFICES ASSUME NEW i \in W PROVE IsProc(ix.procs[i]) /\ pr[i] = NULL
    OBVIOUS
  <2>1. GoodAt(i, ix.procs[i], E, O)
    BY <1>5, <1>6
  <2>2. IsProc(ix.procs[i])
    BY <2>1 DEF GoodAt, IsProc, GoodIndex, Distinct
  <2>3. pr[i] = VitalsOf(ix.procs[i], gone)
    BY <1>4, <1>6
  <2> QED
    BY <1>6, <2>2, <2>3 DEF VitalsOf
<1>10. ASSUME NEW i \in 0..ix.size, IsProc(pr[i])
       PROVE  IsProc(ix.procs[i]) /\ Same(pr[i], ix.procs[i])
  <2>1. CASE ~(i < ix.size)
    BY <1>4, <1>10, <2>1 DEF Same
  <2>2. CASE i < ix.size
    <3> DEFINE p == ix.procs[i]
    <3>1. pr[i] = VitalsOf(p, gone)
      BY <1>4, <2>2
    <3>2. p # NULL
      BY <1>10, <3>1 DEF VitalsOf, IsProc
    <3>3. p \in ProcsOf(E, O)
      BY <1>5, <2>2, <3>2 DEF GoodAt
    <3>4. IsProc(p)
      BY <3>3 DEF IsProc, GoodIndex, Distinct
    <3>5. pr[i] = p \/ pr[i] = [p EXCEPT !.deadness = @ + 1]
      BY <1>10, <3>1 DEF VitalsOf, IsProc
    <3>6. Same(pr[i], p)
      BY <3>3, <3>5 DEF Same, ProcsOf
    <3> QED
      BY <3>4, <3>6
  <2> QED
    BY <2>1, <2>2
<1>11. ASSUME NEW i \in 0..ix.size, IsProc(ix.procs[i]), ix.procs[i].calls # <<>>
       PROVE  i \in W \/ (IsProc(pr[i]) /\ pr[i].calls = ix.procs[i].calls)
  <2>1. CASE ~(i < ix.size)
    BY <1>4, <1>11, <2>1
  <2>2. CASE i < ix.size
    <3>1. ix.procs[i] # NULL /\ GoodAt(i, ix.procs[i], E, O)
      BY <1>5, <1>11, <2>2 DEF IsProc
    <3>2. ix.procs[i].tracked
      BY <1>11, <3>1 DEF GoodAt, ProcSound
    <3>3. ix.procs[i].pid \notin gone => pr[i] = ix.procs[i]
      BY <1>4, <2>2 DEF VitalsOf
    <3> QED
      BY <1>7, <1>11, <2>2, <3>1, <3>2, <3>3
  <2> QED
    BY <2>1, <2>2
<1>12. W \in SUBSET (0..(ix.size - 1))
  BY <1>6
<1>13. /\ ProcsAt(ix.procs, W) \in Seq(ProcsOf(E, O) \cup {Wild})
       /\ Moves(ix, v.ix, ProcsAt(ix.procs, W), Nowhere, InOrder(W))
  BY <1>8, <1>9, <1>10, <1>11, <1>12, LoopMoves
<1> QED
  BY <1>8, <1>13 DEF v

LEMMA FlushMoves ==
    ASSUME NEW E, NEW O, NEW ix, GoodIndex(ix, E, O)
    PROVE  LET f == Flush(ix)
           IN  /\ f.out \in Seq(ProcsOf(E, O) \cup {Wild})
               /\ \E where : Moves(ix, f.ix, f.out, Nowhere, where)
<1> USE MaxPidAssumption
<1> DEFINE W == TrackedIn(ix.procs, 1, ix.size - 1)
           pr == [i \in Slots |-> IF i \in 1..(ix.size - 1) THEN NULL ELSE ix.procs[i]]
           f == Flush(ix)
<1>1. f = [ix |-> [size |-> ix.size, procs |-> pr], out |-> ProcsAt(ix.procs, W)]
  BY DEF Flush, GoodIndex
<1>2. ix.size \in 1..(MaxPid + 1)
  BY DEF GoodIndex
<1>3. \A i \in 0..ix.size : i \in Slots
  BY <1>2 DEF Slots
<1>4. \A i \in 0..ix.size : pr[i] = IF i \in 1..(ix.size - 1) THEN NULL ELSE ix.procs[i]
  BY <1>3
<1>5. \A i \in 1..(ix.size - 1) : ix.procs[i] = NULL \/ GoodAt(i, ix.procs[i], E, O)
  <2> SUFFICES ASSUME NEW i \in 1..(ix.size - 1)
               PROVE  ix.procs[i] = NULL \/ GoodAt(i, ix.procs[i], E, O)
    OBVIOUS
  <2>1. ~(i >= ix.size) /\ i \in Slots
    BY <1>2 DEF Slots
  <2> QED
    BY <2>1 DEF GoodIndex, GoodWords
<1>6. \A i \in W : i \in 1..(ix.size - 1) /\ ix.procs[i] # NULL
  BY DEF TrackedIn
<1>7. \A i \in 1..(ix.size - 1) : ix.procs[i] # NULL /\ ix.procs[i].tracked => i \in W
  BY DEF TrackedIn
<1> HIDE DEF W, pr, f
<1>8. f.ix.size = ix.size /\ f.ix.procs = pr /\ f.out = ProcsAt(ix.procs, W)
  BY <1>1
<1>9. W \in SUBSET (0..(ix.size - 1)) /\ \A i \in W : i \in 0..ix.size
  BY <1>2, <1>6
<1>10. \A i \in W : IsProc(ix.procs[i]) /\ pr[i] = NULL
  <2> SUFFICES ASSUME NEW i \in W PROVE IsProc(ix.procs[i]) /\ pr[i] = NULL
    OBVIOUS
  <2>1. GoodAt(i, ix.procs[i], E, O)
    BY <1>5, <1>6
  <2> QED
    BY <1>4, <1>6, <1>9, <2>1 DEF GoodAt, IsProc, GoodIndex, Distinct
<1>11. \A i \in 0..ix.size : IsProc(pr[i]) => IsProc(ix.procs[i]) /\ Same(pr[i], ix.procs[i])
  BY <1>4 DEF IsProc, Same
<1>12. ASSUME NEW i \in 0..ix.size, IsProc(ix.procs[i]), ix.procs[i].calls # <<>>
       PROVE  i \in W \/ (IsProc(pr[i]) /\ pr[i].calls = ix.procs[i].calls)
  <2>1. CASE i \notin 1..(ix.size - 1)
    BY <1>4, <1>12, <2>1
  <2>2. CASE i \in 1..(ix.size - 1)
    <3>1. ix.procs[i] # NULL /\ GoodAt(i, ix.procs[i], E, O)
      BY <1>5, <1>12, <2>2 DEF IsProc
    <3>2. ix.procs[i].tracked
      BY <1>12, <3>1 DEF GoodAt, ProcSound
    <3> QED
      BY <1>7, <2>2, <3>1, <3>2
  <2> QED
    BY <2>1, <2>2
<1>13. /\ ProcsAt(ix.procs, W) \in Seq(ProcsOf(E, O) \cup {Wild})
       /\ Moves(ix, f.ix, ProcsAt(ix.procs, W), Nowhere, InOrder(W))
  BY <1>8, <1>9, <1>10, <1>11, <1>12, LoopMoves
<1> QED
  BY <1>8, <1>13 DEF f

-----------------------------------------------------------------------------
(* Where the open calls of an index go *)

\* The call o is in the buffer of a process in the index, or in a list.
InIndex(ix, o) == \E i \in 0..ix.size : IsProc(ix.procs[i]) /\ o \in ToSet(ix.procs[i].calls)
InList(procs, o) == \E n \in 1..Len(procs) : IsProc(procs[n]) /\ o \in ToSet(procs[n].calls)

\* CallsOf, call by call
LEMMA CallsOfIs ==
    ASSUME NEW procs, NEW o
    PROVE  o \in CallsOf(procs) <=> InList(procs, o)
  BY Zenon DEF CallsOf, InList

\* An operation turns ix into ix2, takes the processes `out' out and enters the
\* open calls `new': no other call gets into the index, and none is forgotten
\* but those in `lost'.
Conserves(ix, ix2, out, new, lost, E, O) ==
    /\ GoodIndex(ix2, E, O)
    /\ ix2.size >= ix.size
    /\ out \in Seq(ProcsOf(E, O) \cup {Wild})
    /\ \A o \in O : InIndex(ix, o) => InIndex(ix2, o) \/ InList(out, o) \/ o \in lost
    /\ \A o \in O : InIndex(ix2, o) => InIndex(ix, o) \/ o \in new

\* A call in the buffer of a process in word i was made by the pid of that word.
LEMMA CallInWord ==
    ASSUME NEW E, NEW O, NEW ix, GoodIndex(ix, E, O), NEW i \in 0..ix.size, IsProc(ix.procs[i]),
           NEW o, o \in ToSet(ix.procs[i].calls)
    PROVE  o \in O /\ o.pid + 1 = i /\ ix.procs[i].calls # <<>>
<1> DEFINE p == ix.procs[i]
<1>1. i \in Slots
  BY MaxPidAssumption DEF GoodIndex, Slots
<1>2. GoodAt(i, p, E, O)
  BY <1>1 DEF GoodIndex, GoodWords, IsProc
<1> HIDE DEF p
<1>3. p.calls \in Seq(O) /\ p.pid + 1 = i /\ \A n \in 1..Len(p.calls) : p.calls[n].pid = p.pid
  BY <1>2 DEF GoodAt, ProcsOf, ProcSound
<1>4. PICK n \in DOMAIN p.calls : p.calls[n] = o
  BY Zenon DEF ToSet, p
<1>5. n \in 1..Len(p.calls)
  BY <1>3
<1> QED
  BY <1>3, <1>4, <1>5 DEF p

LEMMA MovesConserve ==
    ASSUME NEW E, NEW O, NEW ix, GoodIndex(ix, E, O), NEW ix2, GoodIndex(ix2, E, O),
           NEW out \in Seq(ProcsOf(E, O) \cup {Wild}), NEW x, NEW where, Moves(ix, ix2, out, x, where),
           NEW new, x \in 0..ix2.size /\ IsProc(ix2.procs[x])
                       => \A o \in O : o \in ToSet(ix2.procs[x].calls) => InIndex(ix, o) \/ o \in new
    PROVE  Conserves(ix, ix2, out, new, Overgrown(ix, ix2), E, O)
<1>1. ix.size \in Nat /\ ix2.size \in Nat /\ ix2.size >= ix.size
  BY MaxPidAssumption DEF GoodIndex, Moves
<1>2. ASSUME NEW o \in O, InIndex(ix, o)
      PROVE  InIndex(ix2, o) \/ InList(out, o) \/ o \in Overgrown(ix, ix2)
  <2>1. PICK i \in 0..ix.size : IsProc(ix.procs[i]) /\ o \in ToSet(ix.procs[i].calls)
    BY <1>2 DEF InIndex
  <2>2. o.pid + 1 = i /\ ix.procs[i].calls # <<>>
    BY <2>1, CallInWord
  <2>3. \/ i = ix.size /\ ix2.size > ix.size
        \/ \E n \in 1..Len(out) : out[n] = ix.procs[i]
        \/ /\ IsProc(ix2.procs[i])
           /\ ToSet(ix.procs[i].calls) \subseteq ToSet(ix2.procs[i].calls)
    BY <2>1, <2>2 DEF Moves
  <2>4. CASE i = ix.size /\ ix2.size > ix.size
    <3> DEFINE behind == <<ix.procs[ix.size]>>
    <3>1. InList(behind, o)
      <4>1. 1 \in 1..Len(behind) /\ behind[1] = ix.procs[i]
        BY <2>4
      <4> HIDE DEF behind
      <4> QED
        BY <2>1, <4>1 DEF InList
    <3>2. o \in CallsOf(behind)
      BY <3>1, CallsOfIs
    <3> QED
      BY <2>4, <3>2 DEF Overgrown
  <2>5. CASE \E n \in 1..Len(out) : out[n] = ix.procs[i]
    BY <2>1, <2>5 DEF InList
  <2>6. CASE /\ IsProc(ix2.procs[i])
             /\ ToSet(ix.procs[i].calls) \subseteq ToSet(ix2.procs[i].calls)
    <3>1. i \in 0..ix2.size
      BY <1>1
    <3> QED
      BY <2>1, <2>6, <3>1 DEF InIndex
  <2> QED
    BY <2>3, <2>4, <2>5, <2>6
<1>3. ASSUME NEW o \in O, InIndex(ix2, o) PROVE InIndex(ix, o) \/ o \in new
  <2>1. PICK i \in 0..ix2.size : IsProc(ix2.procs[i]) /\ o \in ToSet(ix2.procs[i].calls)
    BY <1>3 DEF InIndex
  <2>2. CASE i = x
    BY <2>1, <2>2
  <2>3. CASE i # x
    BY <2>1, <2>3 DEF Moves, Same, InIndex
  <2> QED
    BY <2>2, <2>3
<1> QED
  BY <1>1, <1>2, <1>3 DEF Conserves

LEMMA EnteredHoldsNone ==
    ASSUME NEW p, NEW exec, Entered(p, exec), NEW o
    PROVE  o \notin ToSet(p.calls)
  BY DEF Entered, ToSet

LEMMA NothingConserves ==
    ASSUME NEW E, NEW O, NEW ix, GoodIndex(ix, E, O)
    PROVE  Conserves(ix, ix, <<>>, {}, {}, E, O)
<1>1. ix.size \in Nat
  BY DEF GoodIndex
<1> QED
  BY <1>1 DEF Conserves

LEMMA AddConserves ==
    ASSUME NEW E, NEW O, NEW ix, GoodIndex(ix, E, O), NEW w \in Slack,
           NEW exec \in E, NEW pid \in Nat, NEW ppid \in Nat
    PROVE  LET a == Add(ix, NewProc(exec, pid, ppid), w)
           IN  Conserves(ix, a.ix, <<>>, {}, Overgrown(ix, a.ix), E, O)
<1> DEFINE ix2 == Add(ix, NewProc(exec, pid, ppid), w).ix
<1>1. GoodIndex(ix2, E, O)
  BY AddGood
<1>2. \/ Moves(ix, ix2, <<>>, Nowhere, <<>>)
      \/ Moves(ix, ix2, <<>>, pid + 1, <<>>) /\ Entered(ix2.procs[pid + 1], exec)
  BY AddMoves
<1>3. Nowhere \notin 0..ix2.size
  BY DEF Nowhere
<1>4. <<>> \in Seq(ProcsOf(E, O) \cup {Wild})
  OBVIOUS
<1> HIDE DEF ix2
<1>5. CASE Moves(ix, ix2, <<>>, Nowhere, <<>>)
  BY <1>1, <1>3, <1>4, <1>5, MovesConserve DEF ix2
<1>6. CASE Moves(ix, ix2, <<>>, pid + 1, <<>>) /\ Entered(ix2.procs[pid + 1], exec)
  <2>1. \A o \in O : o \notin ToSet(ix2.procs[pid + 1].calls)
    BY <1>6, EnteredHoldsNone
  <2> QED
    BY <1>1, <1>4, <1>6, <2>1, MovesConserve DEF ix2
<1> QED
  BY <1>2, <1>5, <1>6

LEMMA AddReplacingConserves ==
    ASSUME NEW E, NEW O, NEW ix, GoodIndex(ix, E, O), NEW w \in Slack,
           NEW exec \in E, NEW pid \in Nat, NEW ppid \in Nat
    PROVE  LET r == AddReplacing(ix, NewProc(exec, pid, ppid), w)
           IN  Conserves(ix, r.ix, r.out, {}, Overgrown(ix, r.ix), E, O)
<1> DEFINE r == AddReplacing(ix, NewProc(exec, pid, ppid), w)
<1>1. GoodIndex(r.ix, E, O)
  BY AddReplacingGood
<1>2. \/ r.out = <<>> /\ Moves(ix, r.ix, <<>>, Nowhere, <<>>)
      \/ /\ r.out = <<>> /\ Moves(ix, r.ix, <<>>, pid + 1, <<>>)
         /\ Entered(r.ix.procs[pid + 1], exec)
      \/ /\ r.out \in Seq(ProcsOf(E, O) \cup {Wild})
         /\ Moves(ix, r.ix, r.out, pid + 1, <<pid + 1>>)
         /\ r.ix.procs[pid + 1] = NULL \/ Entered(r.ix.procs[pid + 1], exec)
  <2>1. Replaced(ix, r, exec, pid, E, O)
    BY AddReplacingMoves
  <2> HIDE DEF r
  <2> QED
    BY <2>1 DEF Replaced
<1> HIDE DEF r
<1>3. r.out \in Seq(ProcsOf(E, O) \cup {Wild})
  <2>1. <<>> \in Seq(ProcsOf(E, O) \cup {Wild})
    OBVIOUS
  <2> QED
    BY <1>2, <2>1
<1>4. CASE Moves(ix, r.ix, r.out, Nowhere, <<>>)
  <2>1. Nowhere \notin 0..r.ix.size
    BY DEF Nowhere
  <2> QED
    BY <1>1, <1>3, <1>4, <2>1, MovesConserve DEF r
<1>5. ASSUME NEW where, Moves(ix, r.ix, r.out, pid + 1, where),
             r.ix.procs[pid + 1] = NULL \/ Entered(r.ix.procs[pid + 1], exec)
      PROVE  Conserves(ix, r.ix, r.out, {}, Overgrown(ix, r.ix), E, O)
  <2>1. IsProc(r.ix.procs[pid + 1]) => \A o \in O : o \notin ToSet(r.ix.procs[pid + 1].calls)
    <3>1. ~IsProc(NULL)
      BY DEF IsProc
    <3> QED
      BY <1>5, <3>1, EnteredHoldsNone
  <2> QED
    BY <1>1, <1>3, <1>5, <2>1, MovesConserve
<1> QED
  BY <1>2, <1>4, <1>5 DEF r

\* procindex_opencall_add enters its call and no other, unless it refuses the
\* pid or crashes.
LEMMA OpencallConserves ==
    ASSUME NEW E, NEW O, NEW ix, GoodIndex(ix, E, O), NEW w \in Slack, NEW pid \in Nat,
           NEW o \in O, o.pid = pid
    PROVE  LET r == OpencallAdd(ix, pid, o, w)
           IN  /\ Conserves(ix, r.ix, <<>>, {o}, Overgrown(ix, r.ix), E, O)
               /\ r.ret = "ok" => InIndex(r.ix, o)
               /\ InRange(pid) => r.ret \in {"ok", "crash"}
<1> DEFINE r == OpencallAdd(ix, pid, o, w)
<1>1. GoodIndex(r.ix, E, O)
  BY OpencallAddGood
<1>2. \/ r.ret # "ok" /\ Moves(ix, r.ix, <<>>, Nowhere, <<>>)
      \/ /\ r.ret = "ok" /\ Moves(ix, r.ix, <<>>, pid + 1, <<>>)
         /\ pid + 1 \in 0..r.ix.size /\ IsProc(r.ix.procs[pid + 1])
         /\ TakenBy(ix, r.ix, pid + 1, o)
         /\ o \in ToSet(r.ix.procs[pid + 1].calls)
  BY OpencallMoves
<1>3. InRange(pid) => r.ret \in {"ok", "crash"}
  <2> DEFINE g == Grow(ix, pid, w)
             dummy == Add(g, NewProc(Unknown, pid, 0), w)
             Taken(i) == [ix |-> [i EXCEPT !.procs = TakeCall(@, pid, o)], ret |-> "ok"]
  <2>1. InRange(pid) =>
            \/ r = [ix |-> g, ret |-> "crash"]
            \/ r = Taken(g)
            \/ dummy.ret = "crash" /\ r = dummy
            \/ r = Taken(dummy.ix)
    BY Zenon DEF OpencallAdd
  <2> HIDE DEF g, dummy, r
  <2> QED
    BY <2>1
<1>4. Nowhere \notin 0..r.ix.size
  BY DEF Nowhere
<1>5. <<>> \in Seq(ProcsOf(E, O) \cup {Wild})
  OBVIOUS
<1> HIDE DEF r
<1>6. CASE r.ret # "ok" /\ Moves(ix, r.ix, <<>>, Nowhere, <<>>)
  <2>1. Conserves(ix, r.ix, <<>>, {o}, Overgrown(ix, r.ix), E, O)
    BY <1>1, <1>4, <1>5, <1>6, MovesConserve
  <2> QED
    BY <1>3, <1>6, <2>1 DEF r
<1>7. CASE /\ r.ret = "ok" /\ Moves(ix, r.ix, <<>>, pid + 1, <<>>)
           /\ pid + 1 \in 0..r.ix.size /\ IsProc(r.ix.procs[pid + 1])
           /\ TakenBy(ix, r.ix, pid + 1, o)
           /\ o \in ToSet(r.ix.procs[pid + 1].calls)
  <2>1. ASSUME NEW c \in O, c \in ToSet(r.ix.procs[pid + 1].calls)
        PROVE  InIndex(ix, c) \/ c \in {o}
    <3>1. CASE /\ pid + 1 \in 0..ix.size /\ IsProc(ix.procs[pid + 1])
               /\ r.ix.procs[pid + 1].calls = Append(ix.procs[pid + 1].calls, o)
      <4> DEFINE p == ix.procs[pid + 1]
      <4>1. p.calls \in Seq(O)
        <5>1. pid + 1 \in Slots
          BY <3>1, MaxPidAssumption DEF GoodIndex, Slots
        <5> QED
          BY <3>1, <5>1 DEF GoodIndex, GoodWords, GoodAt, IsProc, ProcsOf
      <4>2. c \in ToSet(p.calls) \cup {o}
        <5> HIDE DEF p
        <5>1. ToSet(Append(p.calls, o)) = ToSet(p.calls) \cup {o}
          BY <4>1, AppendSet
        <5> QED
          BY <2>1, <3>1, <5>1 DEF p
      <4> QED
        BY <3>1, <4>2 DEF InIndex
    <3>2. CASE r.ix.procs[pid + 1].calls = <<o>>
      BY <2>1, <3>2 DEF ToSet
    <3> QED
      BY <1>7, <3>1, <3>2 DEF TakenBy
  <2>2. Conserves(ix, r.ix, <<>>, {o}, Overgrown(ix, r.ix), E, O)
    BY <1>1, <1>5, <1>7, <2>1, MovesConserve
  <2> QED
    BY <1>3, <1>7, <2>2 DEF r, InIndex
<1> QED
  BY <1>2, <1>6, <1>7

LEMMA VitalsConserve ==
    ASSUME NEW E, NEW O, NEW ix, GoodIndex(ix, E, O), NEW gone
    PROVE  LET v == CheckVitals(ix, gone)
           IN  Conserves(ix, v.ix, v.out, {}, {}, E, O)
<1> DEFINE v == CheckVitals(ix, gone)
<1>1. GoodIndex(v.ix, E, O)
  BY CheckVitalsGood
<1>2. v.out \in Seq(ProcsOf(E, O) \cup {Wild}) /\ \E where : Moves(ix, v.ix, v.out, Nowhere, where)
  BY VitalsMoves
<1>3. Overgrown(ix, v.ix) = {}
  <2>1. v.ix.size = ix.size
    BY DEF CheckVitals, GoodIndex
  <2> HIDE DEF v
  <2>2. ix.size \in Nat
    BY DEF GoodIndex
  <2> QED
    BY <2>1, <2>2 DEF Overgrown
<1> HIDE DEF v
<1>4. PICK where : Moves(ix, v.ix, v.out, Nowhere, where)
  BY <1>2
<1>5. Nowhere \notin 0..v.ix.size
  BY DEF Nowhere
<1>6. Conserves(ix, v.ix, v.out, {}, Overgrown(ix, v.ix), E, O)
  BY <1>1, <1>2, <1>4, <1>5, MovesConserve
<1>7. Conserves(ix, v.ix, v.out, {}, {}, E, O)
  BY <1>3, <1>6
<1> QED
  BY <1>1, <1>7 DEF v

LEMMA FlushConserves ==
    ASSUME NEW E, NEW O, NEW ix, GoodIndex(ix, E, O)
    PROVE  LET f == Flush(ix)
           IN  /\ Conserves(ix, f.ix, f.out, {}, {}, E, O)
               /\ \A i \in 0..(f.ix.size - 1) : f.ix.procs[i] = NULL
<1> DEFINE f == Flush(ix)
<1>1. GoodIndex(f.ix, E, O) /\ \A i \in 0..(f.ix.size - 1) : f.ix.procs[i] = NULL
  BY FlushGood
<1>2. f.out \in Seq(ProcsOf(E, O) \cup {Wild}) /\ \E where : Moves(ix, f.ix, f.out, Nowhere, where)
  BY FlushMoves
<1>3. Overgrown(ix, f.ix) = {}
  <2>1. f.ix.size = ix.size
    BY DEF Flush, GoodIndex
  <2> HIDE DEF f
  <2>2. ix.size \in Nat
    BY DEF GoodIndex
  <2> QED
    BY <2>1, <2>2 DEF Overgrown
<1> HIDE DEF f
<1>4. PICK where : Moves(ix, f.ix, f.out, Nowhere, where)
  BY <1>2
<1>5. Nowhere \notin 0..f.ix.size
  BY DEF Nowhere
<1>6. Conserves(ix, f.ix, f.out, {}, Overgrown(ix, f.ix), E, O)
  BY <1>1, <1>2, <1>4, <1>5, MovesConserve
<1>7. Conserves(ix, f.ix, f.out, {}, {}, E, O)
  BY <1>3, <1>6
<1> QED
  BY <1>1, <1>7 DEF f

\* Two operations one after the other
LEMMA ConservesTwice ==
    ASSUME NEW E, NEW O, \A o \in O : o.pid \in Nat, NEW ix, GoodIndex(ix, E, O),
           NEW ix1, NEW out1, NEW new1, NEW lost1, Conserves(ix, ix1, out1, new1, lost1, E, O),
           NEW ix2, NEW out2, NEW new2, NEW lost2, Conserves(ix1, ix2, out2, new2, lost2, E, O)
    PROVE  Conserves(ix, ix2, out1 \o out2, new1 \cup new2, lost1 \cup lost2, E, O)
<1> DEFINE T == ProcsOf(E, O) \cup {Wild}
           out == out1 \o out2
<1>1. ix.size \in Nat /\ ix1.size \in Nat /\ ix2.size \in Nat
  BY MaxPidAssumption DEF Conserves, GoodIndex
<1>2. out1 \in Seq(T) /\ out2 \in Seq(T)
  BY DEF Conserves
<1> HIDE DEF T
<1>3. /\ out \in Seq(T)
      /\ Len(out1) \in Nat /\ Len(out2) \in Nat /\ Len(out) = Len(out1) + Len(out2)
      /\ \A n \in 1..Len(out1) : out[n] = out1[n]
      /\ \A n \in 1..Len(out2) : out[Len(out1) + n] = out2[n]
  BY <1>2
<1> HIDE DEF out
<1>4. \A o : InList(out1, o) \/ InList(out2, o) => InList(out, o)
  <2>1. \A n \in 1..Len(out1) : n \in 1..Len(out)
    BY <1>3
  <2>2. \A n \in 1..Len(out2) : Len(out1) + n \in 1..Len(out)
    BY <1>3
  <2> QED
    BY <1>3, <2>1, <2>2 DEF InList
<1>5. /\ GoodIndex(ix2, E, O) /\ ix1.size >= ix.size /\ ix2.size >= ix1.size
      /\ \A o \in O : InIndex(ix, o) => InIndex(ix1, o) \/ InList(out1, o) \/ o \in lost1
      /\ \A o \in O : InIndex(ix1, o) => InIndex(ix2, o) \/ InList(out2, o) \/ o \in lost2
      /\ \A o \in O : InIndex(ix2, o) => InIndex(ix1, o) \/ o \in new2
      /\ \A o \in O : InIndex(ix1, o) => InIndex(ix, o) \/ o \in new1
  BY DEF Conserves
<1>6. ix2.size >= ix.size
  BY <1>1, <1>5
<1>7. Conserves(ix, ix2, out, new1 \cup new2, lost1 \cup lost2, E, O)
  BY <1>3, <1>4, <1>5, <1>6 DEF Conserves, T
<1> QED
  BY <1>7 DEF out

-----------------------------------------------------------------------------
(* What is in the word of a call *)

\* An exec call that surv_addExecCall has neither refused nor crashed on is in
\* the index afterwards, without open calls.
LEMMA AddReplacingEnters ==
    ASSUME NEW E, NEW O, NEW ix, GoodIndex(ix, E, O), NEW w \in Slack,
           NEW exec \in E, NEW pid \in Nat, NEW ppid \in Nat, InRange(pid),
           AddReplacing(ix, NewProc(exec, pid, ppid), w).ret # "crash"
    PROVE  LET r == AddReplacing(ix, NewProc(exec, pid, ppid), w)
           IN  Entered(r.ix.procs[pid + 1], exec) /\ pid + 1 \in 0..r.ix.size
<1> USE MaxPidAssumption
<1> DEFINE call == NewProc(exec, pid, ppid)
           first == Add(ix, call, w)
           second == Add(Retrieve(first.ix, pid), call, w)
           g == Grow(ix, pid, w)
           r == AddReplacing(ix, call, w)
<1>1. call.pid = pid /\ pid \in 0..MaxPid /\ r.ret # "crash"
  BY DEF NewProc, InRange
<1>2. /\ first.ret # "exists" => r = [ix |-> first.ix, ret |-> first.ret, out |-> <<>>]
      /\ first.ret = "exists"
            => r = [ix |-> second.ix, ret |-> second.ret, out |-> <<Lookup(first.ix, pid)>>]
  BY <1>1 DEF AddReplacing
<1>3. /\ GoodIndex(first.ix, E, O)
      /\ first.ret \in {"exists", "ok"} => first.ix.size >= pid + 1
  BY AddGood
<1>4. \/ first.ret = "exists" /\ first.ix = g /\ g.procs[pid + 1] # NULL
      \/ first.ret = "crash"
      \/ first.ret = "ok" /\ Entered(first.ix.procs[pid + 1], exec)
  BY AddCases
<1>5. CASE first.ret # "exists"
  <2> HIDE DEF first, r, call
  <2>1. r.ix = first.ix /\ r.ret = first.ret
    BY <1>2, <1>5
  <2>2. first.ret = "ok" /\ Entered(first.ix.procs[pid + 1], exec)
    BY <1>1, <1>4, <1>5, <2>1
  <2>3. pid + 1 \in 0..first.ix.size
    BY <1>1, <1>3, <2>2 DEF GoodIndex
  <2> QED
    BY <2>1, <2>2, <2>3 DEF r, call
<1>6. CASE first.ret = "exists"
  <2> DEFINE f == first.ix
             h == Store(f, pid, NULL)
             a == Add(h, call, w)
  <2>1. f = g /\ g.procs[pid + 1] # NULL
    BY <1>4, <1>6
  <2>2. GoodIndex(f, E, O) /\ f.size >= pid + 1 /\ f.procs[pid + 1] # NULL
    BY <1>3, <1>6, <2>1
  <2>3. Retrieve(f, pid) = h
    <3> HIDE DEF f
    <3> QED
      BY <2>2 DEF Retrieve, Lookup
  <2>4. r.ix = a.ix /\ r.ret = a.ret
    <3>1. r = [ix |-> a.ix, ret |-> a.ret, out |-> <<Lookup(first.ix, pid)>>]
      BY <1>2, <1>6, <2>3
    <3> HIDE DEF r, a
    <3> QED
      BY <3>1
  <2> HIDE DEF f, first, r
  <2>5. GoodIndex(h, E, O) /\ h.procs[pid + 1] = NULL /\ h.size = f.size
    BY <1>1, <2>2, StoreGood
  <2> HIDE DEF h
  <2>6. Grow(h, pid, w) = h
    BY <1>1, <2>2, <2>5, GrowWords
  <2>7. \/ a.ret = "crash"
        \/ a.ret = "ok" /\ Entered(a.ix.procs[pid + 1], exec)
    BY <2>5, <2>6, AddCases
  <2>8. GoodIndex(a.ix, E, O) /\ (a.ret = "ok" => a.ix.size >= pid + 1)
    BY <2>5, AddGood
  <2> HIDE DEF a, call
  <2>9. Entered(r.ix.procs[pid + 1], exec) /\ r.ix.size >= pid + 1 /\ GoodIndex(r.ix, E, O)
    BY <1>1, <2>4, <2>7, <2>8
  <2>10. pid + 1 \in 0..r.ix.size
    BY <1>1, <2>9 DEF GoodIndex
  <2> QED
    BY <2>9, <2>10 DEF r, call
<1> QED
  BY <1>5, <1>6

\* A process that is in the index takes an open call of its pid.
LEMMA OpencallTakes ==
    ASSUME NEW E, NEW O, NEW ix, GoodIndex(ix, E, O), NEW w \in Slack, NEW pid \in 0..MaxPid,
           pid + 1 \in 0..ix.size, IsProc(ix.procs[pid + 1]), NEW o \in O, o.pid = pid
    PROVE  LET r == OpencallAdd(ix, pid, o, w)
           IN  /\ pid + 1 \in 0..r.ix.size /\ IsProc(r.ix.procs[pid + 1])
               /\ r.ix.procs[pid + 1].exec = ix.procs[pid + 1].exec
               /\ o \in ToSet(r.ix.procs[pid + 1].calls)
<1> USE MaxPidAssumption
<1> DEFINE ix2 == [ix EXCEPT !.procs = TakeCall(@, pid, o)]
           r == OpencallAdd(ix, pid, o, w)
<1>1. Grow(ix, pid, w) = ix
  <2>1. pid + 1 <= ix.size
    BY DEF GoodIndex
  <2> QED
    BY <2>1, GrowWords
<1>2. InRange(pid) /\ ix.procs[pid + 1] # NULL /\ ix.procs[pid + 1] # Wild
  BY DEF InRange, IsProc
<1>3. r = [ix |-> ix2, ret |-> "ok"]
  BY <1>1, <1>2, Zenon DEF OpencallAdd
<1>4. GoodAt(pid + 1, ix.procs[pid + 1], E, O)
  <2>1. pid + 1 \in Slots
    BY DEF Slots
  <2> QED
    BY <1>2, <2>1 DEF GoodIndex, GoodWords
<1>5. TakesCall(ix, ix2, pid + 1, o)
  BY <1>4, TakeCallWords
<1>6. /\ r.ret = "ok" => /\ pid + 1 \in 0..r.ix.size /\ IsProc(r.ix.procs[pid + 1])
                         /\ o \in ToSet(r.ix.procs[pid + 1].calls)
  BY OpencallMoves
<1> HIDE DEF ix2, r
<1>7. r.ret = "ok" /\ r.ix = ix2
  BY <1>3
<1> QED
  BY <1>5, <1>6, <1>7 DEF TakesCall, r

\* What is queued or to be queued is in the queue afterwards, unless it was
\* dropped.
LEMMA EnqueueKeeps ==
    ASSUME NEW T, NEW queue \in Seq(T), NEW out \in Seq(T), Len(queue) <= DispatchSize,
           NEW o, InList(queue, o) \/ InList(out, o)
    PROVE  InList(Enqueue(queue, out), o) \/ o \in Dropped(queue, out)
<1> DEFINE all == queue \o out
           e == Enqueue(queue, out)
           rest == SubSeq(all, DispatchSize + 1, Len(queue) + Len(out))
<1>1. /\ Len(queue) \in Nat /\ Len(out) \in Nat /\ Len(all) = Len(queue) + Len(out)
      /\ \A n \in 1..Len(queue) : all[n] = queue[n]
      /\ \A n \in 1..Len(out) : all[Len(queue) + n] = out[n]
      /\ all \in Seq(T)
  OBVIOUS
<1>2. DispatchSize \in Nat
  BY DispatchAssumption
<1>3. o \in CallsOf(rest) => o \in Dropped(queue, out)
  BY DEF Dropped
<1>4. InList(all, o)
  <2>1. \A n \in 1..Len(queue) : n \in 1..Len(all)
    BY <1>1
  <2>2. \A n \in 1..Len(out) : Len(queue) + n \in 1..Len(all)
    BY <1>1
  <2> HIDE DEF all
  <2> QED
    BY <1>1, <2>1, <2>2 DEF InList
<1>5. e = IF Len(all) <= DispatchSize THEN all ELSE SubSeq(all, 1, DispatchSize)
  BY DEF Enqueue
<1> HIDE DEF all, e
<1>6. CASE Len(all) <= DispatchSize
  BY <1>4, <1>5, <1>6 DEF e
<1>7. CASE ~(Len(all) <= DispatchSize)
  <2>1. PICK n \in 1..Len(all) : IsProc(all[n]) /\ o \in ToSet(all[n].calls)
    BY <1>4 DEF InList
  <2>2. CASE n <= DispatchSize
    <3>1. n \in 1..Len(e) /\ e[n] = all[n]
      BY <1>1, <1>2, <1>5, <1>7, <2>2
    <3>2. InList(e, o)
      BY <2>1, <3>1 DEF InList
    <3> QED
      BY <3>2 DEF e
  <2>3. CASE ~(n <= DispatchSize)
    <3> DEFINE k == n - DispatchSize
    <3>1. k \in 1..Len(rest) /\ rest[k] = all[n]
      BY <1>1, <1>2, <1>7, <2>3
    <3> HIDE DEF k, rest
    <3>2. InList(rest, o)
      BY <2>1, <3>1 DEF InList
    <3> QED
      BY <1>3, <3>2, CallsOfIs
  <2> QED
    BY <2>2, <2>3
<1> QED
  BY <1>6, <1>7

\* What is lost is an open call.
LEMMA LossesTyped ==
    ASSUME NEW E, NEW O, NEW ix, GoodIndex(ix, E, O), NEW ix2,
           NEW queue \in Seq(ProcsOf(E, O) \cup {Wild}), NEW out \in Seq(ProcsOf(E, O) \cup {Wild})
    PROVE  Overgrown(ix, ix2) \subseteq O /\ Dropped(queue, out) \subseteq O
<1> DEFINE T == ProcsOf(E, O) \cup {Wild}
           rest == SubSeq(queue \o out, DispatchSize + 1, Len(queue) + Len(out))
<1>1. ASSUME NEW o \in Overgrown(ix, ix2) PROVE o \in O
  <2>1. o \in CallsOf(<<ix.procs[ix.size]>>)
    BY <1>1 DEF Overgrown
  <2>2. InList(<<ix.procs[ix.size]>>, o)
    BY <2>1, CallsOfIs
  <2>3. IsProc(ix.procs[ix.size]) /\ o \in ToSet(ix.procs[ix.size].calls)
    BY <2>2 DEF InList
  <2>4. ix.size \in 0..ix.size
    BY DEF GoodIndex
  <2> QED
    BY <2>3, <2>4, CallInWord
<1>2. ASSUME NEW o \in Dropped(queue, out) PROVE o \in O
  <2>1. rest \in Seq(T)
    <3>1. queue \o out \in Seq(T) /\ Len(queue \o out) = Len(queue) + Len(out) /\ DispatchSize + 1 \in 1..(DispatchSize + 1)
      BY DispatchAssumption
    <3> HIDE DEF T
    <3> QED
      BY <3>1, DispatchAssumption
  <2> HIDE DEF rest
  <2>2. o \in CallsOf(rest)
    BY <1>2 DEF Dropped, rest
  <2>3. PICK n \in 1..Len(rest) : IsProc(rest[n]) /\ o \in ToSet(rest[n].calls)
    BY <2>2, CallsOfIs DEF InList
  <2>4. rest[n] \in T
    BY <2>1
  <2>5. rest[n].calls \in Seq(O)
    BY <2>3, <2>4 DEF IsProc, ProcsOf
  <2> QED
    BY <2>3, <2>5 DEF ToSet
<1> QED
  BY <1>1, <1>2
=============================================================================

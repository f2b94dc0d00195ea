-------------------------- MODULE RingBufferProofs --------------------------
(***************************************************************************)
(* Proofs about g_ringBuffer, for every size, every counter width and      *)
(* every number of writes: type correctness in all uses, and, in the two   *)
(* uses in which the ring is safe, the exact size and the refinement of    *)
(* the bounded FIFO.                                                       *)
(***************************************************************************)
EXTENDS RingBuffer, TLAPS

-----------------------------------------------------------------------------
(* Arithmetic of masks and of wrapping counters *)

\* Quotient and remainder of an integer.
LEMMA DivMod ==
    ASSUME NEW x \in Int, NEW s \in Nat \ {0}
    PROVE  /\ x % s \in 0..(s - 1)
           /\ x \div s \in Int
           /\ x = s * (x \div s) + (x % s)
  OBVIOUS

\* A remainder is determined by any decomposition of the number.
LEMMA ModUnique ==
    ASSUME NEW s \in Nat \ {0}, NEW q \in Int, NEW r \in 0..(s - 1)
    PROVE  (s * q + r) % s = r
<1> DEFINE x == s * q + r
<1>1. x \in Int
  OBVIOUS
<1>2. /\ x % s \in 0..(s - 1)
      /\ x \div s \in Int
      /\ x = s * (x \div s) + (x % s)
  BY <1>1, DivMod
<1> DEFINE p == x \div s
           t == x % s
<1>3. s * (q - p) = t - r
  BY <1>2
<1>4. q - p = 0
  <2>1. t - r < s /\ t - r > -s
    BY <1>2
  <2> DEFINE d == q - p
  <2>2. d \in Int
    BY <1>2
  <2>3. s * d < s /\ s * d > -s
    BY <1>3, <2>1
  <2> HIDE DEF d
  <2>4. d < 1 /\ d > -1
    BY <2>2, <2>3
  <2> QED
    BY <2>2, <2>4 DEF d
<1> QED
  BY <1>2, <1>3, <1>4

\* Reducing by a multiple of s first does not change the remainder by s.
LEMMA ModShift ==
    ASSUME NEW s \in Nat \ {0}, NEW k \in Nat \ {0}, NEW m \in Nat \ {0}, m = s * k,
           NEW x \in Int, NEW d \in Int
    PROVE  ((x % m) + d) % s = (x + d) % s
<1>1. PICK q \in Int, t \in 0..(m - 1) : x = m * q + t /\ t = x % m
  BY DivMod
<1>2. t + d \in Int
  OBVIOUS
<1>3. PICK p \in Int, r \in 0..(s - 1) : t + d = s * p + r /\ r = (t + d) % s
  BY <1>2, DivMod
<1>4. k * q + p \in Int
  OBVIOUS
<1>5. x + d = s * (k * q + p) + r
  <2>1. m * q = s * (k * q)
    OBVIOUS
  <2>2. k * q \in Int
    OBVIOUS
  <2>3. s * (k * q) + s * p = s * (k * q + p)
    BY <2>2
  <2>4. x + d = m * q + (s * p + r)
    BY <1>1, <1>3
  <2> QED
    BY <2>1, <2>2, <2>3, <2>4
<1>6. (s * (k * q + p) + r) % s = r
  BY <1>4, ModUnique
<1> QED
  BY <1>1, <1>3, <1>5, <1>6

\* Two positions of one window of s consecutive numbers have two slots.
LEMMA WindowInjective ==
    ASSUME NEW s \in Nat \ {0}, NEW i \in Int, NEW j \in Int, i < j, j < i + s
    PROVE  i % s # j % s
<1> DEFINE p == i \div s
           q == j \div s
<1>1. p \in Int /\ i = s * p + (i % s) /\ i % s \in Int
  BY DivMod
<1>2. q \in Int /\ j = s * q + (j % s) /\ j % s \in Int
  BY DivMod
<1> SUFFICES ASSUME i % s = j % s PROVE FALSE
  OBVIOUS
<1> DEFINE d == q - p
<1>3. d \in Int /\ s * d = j - i
  BY <1>1, <1>2
<1>4. s * d > 0 /\ s * d < s
  BY <1>3
<1> HIDE DEF d
<1>5. d > 0 /\ d < 1
  BY <1>3, <1>4
<1> QED
  BY <1>3, <1>5

\* The difference of two wrapped counters is the distance of the counters.
LEMMA WrappedDifference ==
    ASSUME NEW m \in Nat \ {0}, NEW a \in Int, NEW b \in Int,
           a - b \in 0..(m - 1)
    PROVE  ((a % m) - (b % m)) % m = a - b
<1> DEFINE p == a \div m
           q == b \div m
<1>1. p \in Int /\ a = m * p + (a % m) /\ a % m \in Int
  BY DivMod
<1>2. q \in Int /\ b = m * q + (b % m) /\ b % m \in Int
  BY DivMod
<1>3. (a % m) - (b % m) = m * (q - p) + (a - b)
  BY <1>1, <1>2
<1>4. q - p \in Int
  BY <1>1, <1>2
<1>5. (m * (q - p) + (a - b)) % m = a - b
  BY <1>4, ModUnique
<1> QED
  BY <1>3, <1>5

-----------------------------------------------------------------------------
(* Type correctness, in whatever order and by whatever threads *)

\* What the writer carries is a queued pointer while a write is under way.
WvalInv == wpc # "idle" => wval \in Elems

\* The counters have a successor in range (Modulus is a positive multiple of
\* the size) and every counter value has a slot.
LEMMA SuccMaskType ==
    ASSUME NEW c \in Int
    PROVE  /\ Modulus \in Nat \ {0}
           /\ Succ(c) \in 0..(Modulus - 1)
           /\ Mask(c) \in 0..(Size - 1)
<1>1. Modulus \in Nat \ {0}
  BY SizeAssumption, ModulusAssumption
<1>2. Succ(c) \in 0..(Modulus - 1)
  BY <1>1, DivMod DEF Succ
<1>3. Mask(c) \in 0..(Size - 1)
  BY SizeAssumption, DivMod DEF Mask
<1> QED
  BY <1>1, <1>2, <1>3

LEMMA TypeStep ==
    ASSUME TypeOK, WvalInv, [Next]_vars
    PROVE  TypeOK' /\ WvalInv'
<1> USE OrdersAssumption DEF TypeOK, WvalInv, Pcs, Orders
<1>1. ASSUME NEW e \in Elems, WriteBegin(e) PROVE TypeOK' /\ WvalInv'
  BY <1>1 DEF WriteBegin
<1>2. CASE WriteSlot
  <2>1. (IF wpc = "slot" THEN write - 1 ELSE write) \in Int
    BY ModulusAssumption
  <2>2. Mask(IF wpc = "slot" THEN write - 1 ELSE write) \in 0..(Size - 1)
    BY <2>1, SuccMaskType
  <2> QED
    BY <1>2, <2>2 DEF WriteSlot
<1>3. CASE WriteCounter
  <2>1. Succ(write) \in 0..(Modulus - 1)
    BY SuccMaskType
  <2>2. Append(sent, wval) \in Seq(Elems)
    BY <1>3 DEF WriteCounter
  <2> QED
    BY <1>3, <2>1, <2>2 DEF WriteCounter
<1>4. CASE ReadBegin
  BY <1>4 DEF ReadBegin
<1>5. CASE ReadSlot
  <2> DEFINE i == Mask(IF rpc = "slot" THEN read - 1 ELSE read)
  <2>1. (IF rpc = "slot" THEN read - 1 ELSE read) \in Int
    OBVIOUS
  <2>2. i \in 0..(Size - 1)
    BY <2>1, SuccMaskType
  <2>3. buffer[i] \in Elems \cup {NULL}
    BY <2>2
  <2>4. Append(got, buffer[i]) \in Seq(Elems \cup {NULL})
    BY <2>3
  <2> QED
    BY <1>5, <2>4 DEF ReadSlot
<1>6. CASE ReadCounter
  <2>1. Succ(read) \in 0..(Modulus - 1)
    BY SuccMaskType
  <2> QED
    BY <1>6, <2>1 DEF ReadCounter
<1>7. CASE UNCHANGED vars
  BY <1>7 DEF vars
<1> QED
  BY <1>1, <1>2, <1>3, <1>4, <1>5, <1>6, <1>7 DEF Next

LEMMA TypeInit == Init => TypeOK /\ WvalInv
  BY SizeAssumption, ModulusAssumption
  DEF Init, TypeOK, WvalInv, Pcs, Orders

\* Whatever the order of the steps and the number of threads, the counters of
\* g_ringBuffer stay u_int32_t values, every access hits a slot of the
\* allocated buffer, and only queued pointers are ever published.
THEOREM TypeCorrect == Spec => []TypeOK
<1>1. Init => TypeOK /\ WvalInv
  BY TypeInit
<1>2. TypeOK /\ WvalInv /\ [Next]_vars => (TypeOK /\ WvalInv)'
  BY TypeStep
<1> QED
  BY <1>1, <1>2, PTL DEF Spec

-----------------------------------------------------------------------------
(* The inductive invariant *)

\* The two uses in which the ring works: one thread on both sides, or the
\* slot filled before its counter is published and emptied before it is
\* released.
SafeUse ==
    \/ OneThread
    \/ WriteOrders = {"slot_first"} /\ ReadOrders = {"slot_first"}

\* How often read++ has happened: an element is counted in `got' when its slot
\* is read, which may be before or after.
Taken ==
    Len(got) + (CASE rpc = "slot" -> 1 [] rpc = "counter" -> -1 [] OTHER -> 0)

\* The counters are the two totals, wrapped.
CountersInv ==
    /\ write = Len(sent) % Modulus
    /\ read = Taken % Modulus

\* The totals stay within one ring of each other, and an access that has
\* passed its test still has its room or its element.
BoundsInv ==
    /\ 0 <= Taken
    /\ Taken <= Len(sent)
    /\ Len(sent) <= Taken + Size
    /\ wpc \in {"slot_first", "counter_first", "counter"} => Len(sent) < Taken + Size
    /\ rpc \in {"slot_first", "counter_first", "counter"} => Taken < Len(sent)

\* Which threads can be inside an access at once, and how.
DisciplineInv ==
    \/ OneThread /\ (wpc = "idle" \/ rpc = "idle")
    \/ /\ ~OneThread
       /\ wpc \in {"idle", "slot_first", "counter"}
       /\ rpc \in {"idle", "slot_first", "counter"}

\* Every pending element is in its slot, except the one being written.
SlotsInv ==
    /\ \A j \in (Len(got) + 1)..Len(sent) :
          \/ j = Len(sent) /\ wpc = "slot"
          \/ buffer[(j - 1) % Size] = sent[j]
    /\ wpc = "counter" => buffer[Len(sent) % Size] = wval
    /\ wpc = "slot" => Len(sent) > 0 /\ sent[Len(sent)] = wval

RingInv ==
    TypeOK /\ WvalInv /\ CountersInv /\ BoundsInv /\ DisciplineInv /\ SlotsInv

-----------------------------------------------------------------------------
(* Facts that the steps of the invariant proof share *)

LEMMA Wrap ==
    ASSUME NEW x \in Int
    PROVE  /\ Succ(x % Modulus) = (x + 1) % Modulus
           /\ Mask(x % Modulus) = x % Size
           /\ Mask((x % Modulus) - 1) = (x - 1) % Size
<1>1. Modulus \in Nat \ {0}
  BY SuccMaskType
<1>2. Succ(x % Modulus) = (x + 1) % Modulus
  <2>1. Modulus = Modulus * 1
    BY <1>1
  <2> QED
    BY <1>1, <2>1, 1 \in Nat \ {0}, 1 \in Int, ModShift, Zenon DEF Succ
<1>3. PICK k \in 1..Modulus : Modulus = Size * k
  BY ModulusAssumption
<1>4. \A d \in Int : ((x % Modulus) + d) % Size = (x + d) % Size
  <2>1. k \in Nat \ {0}
    OBVIOUS
  <2> QED
    BY <1>1, <1>3, <2>1, SizeAssumption, ModShift, Zenon
<1>5. x % Modulus \in Int
  BY <1>1, DivMod
<1>6. Mask(x % Modulus) = x % Size
  <2>1. ((x % Modulus) + 0) % Size = (x + 0) % Size
    BY <1>4
  <2>2. (x % Modulus) + 0 = x % Modulus /\ x + 0 = x
    BY <1>5
  <2> QED
    BY <2>1, <2>2 DEF Mask
<1>7. Mask((x % Modulus) - 1) = (x - 1) % Size
  <2>1. ((x % Modulus) + (-1)) % Size = (x + (-1)) % Size
    BY <1>4
  <2>2. (x % Modulus) + (-1) = (x % Modulus) - 1 /\ x + (-1) = x - 1
    BY <1>5
  <2> QED
    BY <2>1, <2>2 DEF Mask
<1> QED
  BY <1>2, <1>6, <1>7

LEMMA TakenType == TypeOK => Taken \in Int /\ Len(sent) \in Nat /\ Len(got) \in Nat
  BY DEF TypeOK, Taken

\* write - read in 32 bits is the distance of the two totals.
LEMMA OccupancyIsDistance ==
    ASSUME TypeOK, CountersInv, BoundsInv
    PROVE  Occupancy = Len(sent) - Taken
<1>1. Taken \in Int /\ Len(sent) \in Int
  BY TakenType
<1>2. Len(sent) - Taken \in 0..(Modulus - 1)
  BY <1>1, SizeAssumption, ModulusAssumption DEF BoundsInv
<1>3. ((Len(sent) % Modulus) - (Taken % Modulus)) % Modulus = Len(sent) - Taken
  BY <1>1, <1>2, SuccMaskType, WrappedDifference
<1> QED
  BY <1>3 DEF Occupancy, CountersInv

LEMMA RingInit == Init => RingInv
<1> SUFFICES ASSUME Init PROVE RingInv
  OBVIOUS
<1>1. TypeOK /\ WvalInv
  BY TypeInit
<1>2. Len(sent) = 0 /\ Len(got) = 0 /\ Taken = 0
  BY DEF Init, Taken
<1>3. 0 % Modulus = 0
  <2>1. (Modulus * 0 + 0) % Modulus = 0
    BY SuccMaskType, ModUnique
  <2> QED
    BY <2>1, SuccMaskType
<1> QED
  BY <1>1, <1>2, <1>3, SizeAssumption, OrdersAssumption
  DEF Init, RingInv, CountersInv, BoundsInv, DisciplineInv, SlotsInv

-----------------------------------------------------------------------------
(* The steps of the writer *)

LEMMA WriteBeginStep ==
    ASSUME SafeUse, RingInv, NEW e \in Elems, WriteBegin(e)
    PROVE  RingInv'
<1> USE DEF RingInv
<1>1. TypeOK' /\ WvalInv'
  BY TypeStep DEF Next
<1>2. /\ wpc = "idle" /\ wpc' \in WriteOrders /\ wval' = e
      /\ UNCHANGED <<buffer, write, read, rpc, sent, got>>
      /\ OneThread => rpc = "idle"
  BY DEF WriteBegin
<1>3. Taken' = Taken
  BY <1>2 DEF Taken
<1>4. Len(sent) < Taken + Size
  BY OccupancyIsDistance, TakenType, SizeAssumption DEF WriteBegin, Full, BoundsInv
<1>5. CountersInv'
  BY <1>2, <1>3 DEF CountersInv
<1>6. BoundsInv'
  BY <1>2, <1>3, <1>4 DEF BoundsInv
<1>7. DisciplineInv'
  BY <1>2 DEF DisciplineInv, SafeUse
<1>8. SlotsInv'
  BY <1>2, OrdersAssumption DEF SlotsInv, Orders
<1> QED
  BY <1>1, <1>5, <1>6, <1>7, <1>8

LEMMA WriteSlotStep ==
    ASSUME SafeUse, RingInv, WriteSlot
    PROVE  RingInv'
<1> USE DEF RingInv
<1> DEFINE W == Len(sent)
<1>1. TypeOK' /\ WvalInv'
  BY TypeStep DEF Next
<1>2. /\ wpc \in {"slot_first", "slot"}
      /\ wpc' = IF wpc = "slot" THEN "idle" ELSE "counter"
      /\ UNCHANGED <<write, read, wval, rpc, sent, got>>
  BY DEF WriteSlot
<1>3. Taken' = Taken
  BY <1>2 DEF Taken
<1>4. Taken \in Int /\ W \in Nat /\ Len(got) \in Nat
  BY TakenType
<1>5. CountersInv'
  BY <1>2, <1>3 DEF CountersInv
<1>6. BoundsInv'
  BY <1>2, <1>3 DEF BoundsInv
<1>7. DisciplineInv'
  BY <1>2 DEF DisciplineInv
<1>8. SlotsInv'
  <2>1. CASE wpc = "slot_first"
    <3>1. buffer' = [buffer EXCEPT ![W % Size] = wval]
      <4>1. Mask(write) = W % Size
        BY <1>4, Wrap DEF CountersInv
      <4> QED
        BY <2>1, <4>1 DEF WriteSlot
    <3>2. W % Size \in 0..(Size - 1)
      BY <1>4, SizeAssumption, DivMod
    <3>3. buffer'[W % Size] = wval
      BY <3>1, <3>2 DEF TypeOK
    <3>4. rpc # "slot"
      BY <2>1 DEF DisciplineInv
    <3>5. Len(got) >= Taken /\ W < Taken + Size
      BY <3>4, <2>1, <1>4 DEF Taken, BoundsInv
    <3>6. ASSUME NEW j \in (Len(got) + 1)..W
          PROVE  buffer'[(j - 1) % Size] = sent[j]
      <4>1. j - 1 < W /\ W < (j - 1) + Size /\ j - 1 \in Int
        BY <3>5, <1>4, SizeAssumption
      <4>2. (j - 1) % Size # W % Size
        BY <4>1, <1>4, SizeAssumption, WindowInjective, W \in Int, Zenon
      <4>3. buffer[(j - 1) % Size] = sent[j]
        BY <2>1 DEF SlotsInv
      <4>4. (j - 1) % Size \in 0..(Size - 1)
        BY <4>1, SizeAssumption, DivMod
      <4> QED
        BY <3>1, <4>2, <4>3, <4>4 DEF TypeOK
    <3> QED
      BY <1>2, <2>1, <3>3, <3>6 DEF SlotsInv
  <2>2. CASE wpc = "slot"
    <3>1. W > 0 /\ sent[W] = wval
      BY <2>2 DEF SlotsInv
    <3>2. buffer' = [buffer EXCEPT ![(W - 1) % Size] = wval]
      <4>1. Mask(write - 1) = (W - 1) % Size
        BY <1>4, Wrap DEF CountersInv
      <4> QED
        BY <2>2, <4>1 DEF WriteSlot
    <3>3. (W - 1) % Size \in 0..(Size - 1)
      BY <1>4, SizeAssumption, DivMod
    <3>4. rpc = "idle"
      BY <2>2 DEF DisciplineInv
    <3>5. Len(got) = Taken /\ W <= Taken + Size
      BY <3>4, <1>4 DEF Taken, BoundsInv
    <3>6. ASSUME NEW j \in (Len(got) + 1)..W
          PROVE  buffer'[(j - 1) % Size] = sent[j]
      <4>1. CASE j = W
        BY <4>1, <3>1, <3>2, <3>3 DEF TypeOK
      <4>2. CASE j # W
        <5>1. j - 1 < W - 1 /\ W - 1 < (j - 1) + Size /\ j - 1 \in Int /\ W - 1 \in Int
          BY <4>2, <3>5, <1>4, SizeAssumption
        <5>2. (j - 1) % Size # (W - 1) % Size
          BY <5>1, SizeAssumption, WindowInjective
        <5>3. buffer[(j - 1) % Size] = sent[j]
          BY <4>2 DEF SlotsInv
        <5>4. (j - 1) % Size \in 0..(Size - 1)
          BY <5>1, SizeAssumption, DivMod
        <5> QED
          BY <3>2, <5>2, <5>3, <5>4 DEF TypeOK
      <4> QED
        BY <4>1, <4>2
    <3> QED
      BY <1>2, <2>2, <3>6 DEF SlotsInv
  <2> QED
    BY <1>2, <2>1, <2>2
<1> QED
  BY <1>1, <1>5, <1>6, <1>7, <1>8

LEMMA WriteCounterStep ==
    ASSUME SafeUse, RingInv, WriteCounter
    PROVE  RingInv'
<1> USE DEF RingInv
<1> DEFINE W == Len(sent)
<1>1. TypeOK' /\ WvalInv'
  BY TypeStep DEF Next
<1>2. /\ wpc \in {"counter_first", "counter"}
      /\ wpc' = IF wpc = "counter" THEN "idle" ELSE "slot"
      /\ write' = Succ(write)
      /\ sent' = Append(sent, wval)
      /\ UNCHANGED <<buffer, read, wval, rpc, got>>
  BY DEF WriteCounter
<1>3. Taken' = Taken
  BY <1>2 DEF Taken
<1>4. Taken \in Int /\ W \in Nat /\ Len(got) \in Nat
  BY TakenType
<1>5. /\ Len(sent') = W + 1
      /\ sent'[W + 1] = wval
      /\ \A j \in 1..W : sent'[j] = sent[j]
  BY <1>2 DEF TypeOK, WvalInv
<1>6. CountersInv'
  BY <1>2, <1>3, <1>4, <1>5, Wrap DEF CountersInv
<1>7. BoundsInv'
  BY <1>2, <1>3, <1>4, <1>5, SizeAssumption DEF BoundsInv
<1>8. DisciplineInv'
  BY <1>2 DEF DisciplineInv
<1>9. SlotsInv'
  <2>1. ASSUME NEW j \in (Len(got) + 1)..W
        PROVE  buffer'[(j - 1) % Size] = sent'[j]
    <3>1. buffer[(j - 1) % Size] = sent[j]
      BY <1>2 DEF SlotsInv
    <3>2. sent'[j] = sent[j]
      BY <1>4, <1>5
    <3> QED
      BY <3>1, <3>2, <1>2
  <2>2. CASE wpc = "counter"
    <3>1. buffer'[((W + 1) - 1) % Size] = sent'[W + 1]
      BY <2>2, <1>2, <1>4, <1>5 DEF SlotsInv
    <3>2. \A j \in (Len(got) + 1)..(W + 1) : buffer'[(j - 1) % Size] = sent'[j]
      BY <2>1, <3>1, <1>4
    <3> QED
      BY <1>2, <1>5, <2>2, <3>2 DEF SlotsInv
  <2>3. CASE wpc = "counter_first"
    BY <1>2, <1>4, <1>5, <2>1, <2>3 DEF SlotsInv
  <2> QED
    BY <1>2, <2>2, <2>3
<1> QED
  BY <1>1, <1>6, <1>7, <1>8, <1>9

-----------------------------------------------------------------------------
(* The steps of the reader *)

LEMMA ReadBeginStep ==
    ASSUME SafeUse, RingInv, ReadBegin
    PROVE  RingInv'
<1> USE DEF RingInv
<1>1. TypeOK' /\ WvalInv'
  BY TypeStep DEF Next
<1>2. /\ rpc = "idle" /\ rpc' \in ReadOrders
      /\ UNCHANGED <<buffer, write, read, wpc, wval, sent, got>>
      /\ OneThread => wpc = "idle"
  BY DEF ReadBegin
<1>3. rpc' \in Orders
  BY <1>2, OrdersAssumption
<1>4. Taken' = Taken
  BY <1>2, <1>3 DEF Taken, Orders
<1>5. Taken < Len(sent)
  BY TakenType DEF ReadBegin, Empty, BoundsInv, CountersInv
<1>6. CountersInv'
  BY <1>2, <1>4 DEF CountersInv
<1>7. BoundsInv'
  BY <1>2, <1>4, <1>5 DEF BoundsInv
<1>8. DisciplineInv'
  BY <1>2 DEF DisciplineInv, SafeUse
<1>9. SlotsInv'
  BY <1>2 DEF SlotsInv
<1> QED
  BY <1>1, <1>6, <1>7, <1>8, <1>9

\* What the reader is about to return is the oldest pending element.
LEMMA ReadsOldest ==
    ASSUME RingInv, rpc \in {"slot_first", "slot"}
    PROVE  /\ Len(got) < Len(sent)
           /\ buffer[Mask(IF rpc = "slot" THEN read - 1 ELSE read)] = sent[Len(got) + 1]
<1> USE DEF RingInv
<1>1. Taken \in Int /\ Len(sent) \in Nat /\ Len(got) \in Nat
  BY TakenType
<1>2. wpc # "slot"
  BY DEF DisciplineInv
<1>3. Len(got) < Len(sent)
  BY <1>1 DEF BoundsInv, Taken
<1>4. Mask(IF rpc = "slot" THEN read - 1 ELSE read) = Len(got) % Size
  <2>1. CASE rpc = "slot"
    <3>1. Taken = Len(got) + 1
      BY <2>1 DEF Taken
    <3>2. Mask((Taken % Modulus) - 1) = (Taken - 1) % Size
      BY <1>1, Wrap
    <3>3. Taken - 1 = Len(got)
      BY <3>1, <1>1
    <3> QED
      BY <2>1, <3>2, <3>3 DEF CountersInv
  <2>2. CASE rpc = "slot_first"
    <3>1. Taken = Len(got)
      BY <2>2, <1>1 DEF Taken
    <3>2. Mask(Taken % Modulus) = Taken % Size
      BY <1>1, Wrap
    <3> QED
      BY <2>2, <3>1, <3>2 DEF CountersInv
  <2> QED
    BY <2>1, <2>2
<1>5. buffer[Len(got) % Size] = sent[Len(got) + 1]
  <2>1. Len(got) + 1 \in (Len(got) + 1)..Len(sent)
    BY <1>1, <1>3
  <2>2. buffer[((Len(got) + 1) - 1) % Size] = sent[Len(got) + 1]
    BY <1>2, <2>1 DEF SlotsInv
  <2>3. (Len(got) + 1) - 1 = Len(got)
    BY <1>1
  <2> QED
    BY <2>2, <2>3
<1> QED
  BY <1>3, <1>4, <1>5

LEMMA ReadSlotStep ==
    ASSUME SafeUse, RingInv, ReadSlot
    PROVE  RingInv'
<1> USE DEF RingInv
<1>1. TypeOK' /\ WvalInv'
  BY TypeStep DEF Next
<1>2. /\ rpc \in {"slot_first", "slot"}
      /\ rpc' = IF rpc = "slot" THEN "idle" ELSE "counter"
      /\ UNCHANGED <<buffer, write, read, wpc, wval, sent>>
  BY DEF ReadSlot
<1>3. Len(got') = Len(got) + 1
  BY DEF ReadSlot, TypeOK
<1>4. Taken \in Int /\ Len(sent) \in Nat /\ Len(got) \in Nat
  BY TakenType
<1>5. Taken' = Taken
  BY <1>2, <1>3, <1>4 DEF Taken
<1>6. CountersInv'
  BY <1>2, <1>5 DEF CountersInv
<1>7. BoundsInv'
  BY <1>2, <1>5 DEF BoundsInv
<1>8. DisciplineInv'
  BY <1>2 DEF DisciplineInv
<1>9. SlotsInv'
  <2>1. \A j \in (Len(got') + 1)..Len(sent) : j \in (Len(got) + 1)..Len(sent)
    BY <1>3, <1>4
  <2> QED
    BY <1>2, <2>1 DEF SlotsInv
<1> QED
  BY <1>1, <1>6, <1>7, <1>8, <1>9

LEMMA ReadCounterStep ==
    ASSUME SafeUse, RingInv, ReadCounter
    PROVE  RingInv'
<1> USE DEF RingInv
<1>1. TypeOK' /\ WvalInv'
  BY TypeStep DEF Next
<1>2. /\ rpc \in {"counter_first", "counter"}
      /\ rpc' = IF rpc = "counter" THEN "idle" ELSE "slot"
      /\ read' = Succ(read)
      /\ UNCHANGED <<buffer, write, wpc, wval, sent, got>>
  BY DEF ReadCounter
<1>3. Taken \in Int /\ Len(sent) \in Nat /\ Len(got) \in Nat
  BY TakenType
<1>4. Taken' = Taken + 1
  BY <1>2, <1>3 DEF Taken
<1>5. CountersInv'
  BY <1>2, <1>3, <1>4, Wrap DEF CountersInv
<1>6. BoundsInv'
  BY <1>2, <1>3, <1>4, SizeAssumption DEF BoundsInv
<1>7. DisciplineInv'
  BY <1>2 DEF DisciplineInv
<1>8. SlotsInv'
  BY <1>2 DEF SlotsInv
<1> QED
  BY <1>1, <1>5, <1>6, <1>7, <1>8

-----------------------------------------------------------------------------
(* The theorems *)

LEMMA RingStep == ASSUME SafeUse PROVE RingInv /\ [Next]_vars => RingInv'
<1> SUFFICES ASSUME RingInv, [Next]_vars PROVE RingInv'
  OBVIOUS
<1>1. CASE UNCHANGED vars
  <2>1. TypeOK' /\ WvalInv'
    BY <1>1, TypeStep DEF RingInv
  <2>2. Taken' = Taken
    BY <1>1 DEF vars, Taken
  <2>3. CountersInv' /\ BoundsInv'
    BY <1>1, <2>2 DEF vars, RingInv, CountersInv, BoundsInv
  <2>4. DisciplineInv' /\ SlotsInv'
    BY <1>1 DEF vars, RingInv, DisciplineInv, SlotsInv
  <2> QED
    BY <2>1, <2>3, <2>4 DEF RingInv
<1> QED
  BY <1>1, WriteBeginStep, WriteSlotStep, WriteCounterStep,
     ReadBeginStep, ReadSlotStep, ReadCounterStep DEF Next

\* The inductive invariant holds throughout every safe use of the ring.
THEOREM RingInvariant == ASSUME SafeUse PROVE Spec => []RingInv
<1>1. Init => RingInv
  BY RingInit
<1>2. RingInv /\ [Next]_vars => RingInv'
  BY RingStep
<1> QED
  BY <1>1, <1>2, PTL DEF Spec

\* In every safe use, between accesses, g_ringBuffer_size is exactly the
\* number of elements written and not yet read, for any size of the ring, any
\* width of the counters and any number of wrap-arounds.
THEOREM SizeExact == ASSUME SafeUse PROVE Spec => []SizeIsExact
<1>1. RingInv => SizeIsExact
  <2> SUFFICES ASSUME RingInv, wpc = "idle", rpc = "idle"
               PROVE  Occupancy = Len(sent) - Len(got)
    BY DEF SizeIsExact
  <2>1. Taken = Len(got)
    BY TakenType DEF RingInv, Taken
  <2> QED
    BY <2>1, OccupancyIsDistance DEF RingInv
<1> QED
  BY <1>1, RingInvariant, PTL

\* In every safe use g_ringBuffer implements the bounded FIFO: nothing is
\* lost, duplicated, reordered or overwritten.
THEOREM RingImplementsFifo == ASSUME SafeUse PROVE Spec => QueueSpec
<1>1. Init => Queue!Init
  BY DEF Init, Queue!Init
<1>2. RingInv /\ [Next]_vars => [Queue!Next]_(Queue!fifoVars)
  <2> SUFFICES ASSUME RingInv, [Next]_vars
               PROVE  Queue!Next \/ UNCHANGED <<sent, got>>
    BY DEF Queue!fifoVars
  <2>1. Taken \in Int /\ Len(sent) \in Nat /\ Len(got) \in Nat
    BY TakenType DEF RingInv
  <2>2. CASE WriteCounter
    <3>1. wpc \in {"counter_first", "counter"}
      BY <2>2 DEF WriteCounter
    <3>2. rpc # "slot"
      BY <3>1 DEF RingInv, DisciplineInv
    <3>3. Len(sent) - Len(got) < Size
      BY <2>1, <3>1, <3>2, SizeAssumption DEF RingInv, BoundsInv, Taken
    <3>4. wval \in Elems
      BY <3>1 DEF RingInv, WvalInv
    <3>5. Queue!Put(wval)
      BY <2>2, <3>3 DEF WriteCounter, Queue!Put
    <3> QED
      BY <3>4, <3>5 DEF Queue!Next
  <2>3. CASE ReadSlot
    BY <2>3, ReadsOldest DEF ReadSlot, Queue!Next, Queue!Get
  <2>4. CASE UNCHANGED vars
    BY <2>4 DEF vars
  <2>5. ASSUME NEW e \in Elems, WriteBegin(e) PROVE UNCHANGED <<sent, got>>
    BY <2>5 DEF WriteBegin
  <2>6. CASE WriteSlot
    BY <2>6 DEF WriteSlot
  <2>7. CASE ReadBegin
    BY <2>7 DEF ReadBegin
  <2>8. CASE ReadCounter
    BY <2>8 DEF ReadCounter
  <2> QED
    BY <2>2, <2>3, <2>4, <2>5, <2>6, <2>7, <2>8 DEF Next
<1> QED
  BY <1>1, <1>2, RingInvariant, PTL DEF Spec, QueueSpec, Queue!Spec
=============================================================================

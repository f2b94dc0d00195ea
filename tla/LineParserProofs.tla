-------------------------- MODULE LineParserProofs --------------------------
(***************************************************************************)
(* For every number of fields, size of the buffers, input, cut into pieces *)
(* and contents of fresh memory: the scan of the receive buffer stays      *)
(* inside it, a byte behind the data does harm only for a cause, only long *)
(* lines make the thread write elsewhere, and the calls are those of the   *)
(* lines (LineParser implements LineReader).                               *)
(*                                                                         *)
(* The last of these is about concatenations of any length.  They are      *)
(* taken apart by induction over sets of numbers, as in                    *)
(* ProcIndexOpsProofs: the lemmas on FlattenSeq, then where lines, fields  *)
(* and characters are on the wire, then what a step of the scan reads.     *)
(***************************************************************************)
EXTENDS LineParser, WellFoundedInduction, TLAPS

\* The numbers that the argument is about.  Everything else of TypeOK, and what
\* the bytes are, does not matter.
Numbers ==
    /\ size \in Nat
    /\ end_pos \in Nat
    /\ i \in Nat
    /\ lfield_start \in Nat
    /\ Len(buf) \in Nat

\* Between two scans the field that is being read starts at the head of the
\* buffer; without this the next scan could begin in front of its field.
FieldAtHead == pc \in {"recv", "append"} => lfield_start = 0

BoundsInv == Numbers /\ FieldAtHead /\ ScanInBounds

\* A piece has the length that recv returned.
LEMMA PieceHasLength ==
    ASSUME NEW n \in 1..ChunkSize, Recv(n)
    PROVE  Len(buf') \in Nat
<1> DEFINE w == Wire
           piece(t) == [b \in 1..n |-> w[t + b]]
<1>1. buf' = piece(taken)
  BY DEF Recv
<1>2. n \in Nat
  BY BufferAssumption
<1>3. ASSUME NEW t PROVE Len(piece(t)) \in Nat
  <2>. HIDE DEF w
  <2>. QED
    BY <1>2
<1>. QED
  BY <1>1, <1>3

\* The buffer is empty at first.
LEMMA BoundsInit == Init => BoundsInv
BY BufferAssumption DEF Init, BoundsInv, Numbers, FieldAtHead, ScanInBounds

\* Every step keeps the data shorter than the buffer and the scan inside it.
LEMMA BoundsStep == BoundsInv /\ [Next]_vars => BoundsInv'
<1> SUFFICES ASSUME BoundsInv, [Next]_vars PROVE BoundsInv'
  OBVIOUS
<1>. USE DEF BoundsInv, Numbers, FieldAtHead, ScanInBounds, sbuf, parse
<1>1. ASSUME NEW n \in 1..ChunkSize, Recv(n) PROVE BoundsInv'
  BY <1>1, PieceHasLength DEF Recv
<1>2. CASE RecvEnd \/ RecvError
  BY <1>2 DEF RecvEnd, RecvError
<1>3. CASE Grow
  BY <1>3 DEF Grow
<1>4. CASE Copy
  BY <1>4 DEF Copy, Fits
<1>5. CASE ScanNewline
  BY <1>5 DEF ScanNewline, Scanning
<1>6. CASE ScanTab
  BY <1>6 DEF ScanTab, Scanning
<1>7. CASE ScanOther
  BY <1>7 DEF ScanOther
<1>8. CASE DeleteHead
  BY <1>8 DEF DeleteHead, Finished
<1>9. CASE UNCHANGED vars
  BY <1>9 DEF vars
<1>. QED
  BY <1>1, <1>2, <1>3, <1>4, <1>5, <1>6, <1>7, <1>8, <1>9 DEF Next

-----------------------------------------------------------------------------
(* Stale bytes *)

Separators == {Tab, NewLine}

\* As long as every line had its fields and the buffer its first size, the
\* separators in the buffer are received and not scanned yet.  That is more than
\* the property: it is about all the bytes that may one day stand behind the data.
NoStaleSeparator ==
    ~leftover /\ size = InitSize =>
        \A j \in 0..(size - 1) :
            string[j] \in Separators => (pc = "scan" /\ i <= j /\ j < end_pos) \/ pc = "wild"

CleanInv ==
    /\ BoundsInv
    /\ DOMAIN string = 0..(size - 1)
    /\ size >= InitSize
    /\ hit \in BOOLEAN /\ leftover \in BOOLEAN
    /\ NoStaleSeparator
    /\ StaleByteNeedsCause

LEMMA CleanInit == Init => CleanInv
<1> SUFFICES ASSUME Init PROVE CleanInv
  OBVIOUS
<1>1. BoundsInv
  BY BoundsInit
<1>2. DOMAIN string = 0..(size - 1) /\ size >= InitSize
  BY BufferAssumption DEF Init
<1>3. \A j \in 0..(size - 1) : string[j] \notin Separators
  BY CharsAssumption DEF Init, Separators
<1>. QED
  BY <1>1, <1>2, <1>3 DEF Init, CleanInv, NoStaleSeparator, StaleByteNeedsCause

\* A step that does not scan leaves the history alone.
LEMMA CleanBetweenScans ==
    ASSUME CleanInv, BoundsInv',
           (\E n \in 1..ChunkSize : Recv(n)) \/ RecvEnd \/ RecvError \/ Grow \/ Copy \/ DeleteHead
    PROVE  CleanInv'
<1>. USE DEF CleanInv, StaleByteNeedsCause, history
<1>1. ASSUME NEW n \in 1..ChunkSize, Recv(n) PROVE CleanInv'
  BY <1>1 DEF Recv, NoStaleSeparator, sbuf
<1>2. CASE RecvEnd \/ RecvError
  <2>1. /\ pc = "recv"
        /\ string' = string /\ size' = size
        /\ hit' = hit /\ leftover' = leftover
    BY <1>2 DEF RecvEnd, RecvError, sbuf
  <2>2. ~leftover /\ size = InitSize => \A j \in 0..(size - 1) : string[j] \notin Separators
    BY <2>1 DEF NoStaleSeparator
  <2>. QED
    BY <2>1, <2>2 DEF NoStaleSeparator
<1>3. CASE Grow
  <2>1. size' > InitSize /\ DOMAIN string' = 0..(size' - 1)
    BY <1>3, BufferAssumption DEF Grow, BoundsInv, Numbers
  <2>. QED
    BY <1>3, <2>1, BufferAssumption DEF Grow, NoStaleSeparator
<1>4. CASE Copy
  <2>1. DOMAIN string' = 0..(size' - 1) /\ size' = size /\ UNCHANGED history
    BY <1>4 DEF Copy
  <2>2. ASSUME ~leftover, size = InitSize, NEW j \in 0..(size - 1), string'[j] \in Separators
        PROVE  pc' = "scan" /\ i' <= j /\ j < end_pos'
    <3>1. string[j] \notin Separators
      BY <1>4, <2>2 DEF Copy, NoStaleSeparator
    <3>2. j \in end_pos..(end_pos + Len(buf) - 1)
      BY <1>4, <2>2, <3>1 DEF Copy
    <3>. QED
      BY <1>4, <3>2 DEF Copy, BoundsInv, Numbers
  <2>. QED
    BY <2>1, <2>2 DEF NoStaleSeparator
<1>5. CASE DeleteHead
  <2>1. DOMAIN string' = 0..(size' - 1) /\ size' = size /\ UNCHANGED history
    BY <1>5 DEF DeleteHead
  <2>2. ASSUME ~leftover, size = InitSize, NEW j \in 0..(size - 1)
        PROVE  string'[j] \notin Separators
    <3>1. \A k \in 0..(size - 1) : string[k] \notin Separators
      BY <1>5, <2>2 DEF DeleteHead, NoStaleSeparator, BoundsInv, Numbers
    <3>2. Finished \in Nat /\ Finished <= end_pos
      BY DEF Finished, BoundsInv, Numbers
    <3>3. j < end_pos - Finished => j + Finished \in 0..(size - 1)
      BY <3>2 DEF BoundsInv, Numbers, ScanInBounds
    <3>. QED
      BY <1>5, <3>1, <3>2, <3>3, CharsAssumption DEF DeleteHead, Separators
  <2>. QED
    BY <2>1, <2>2 DEF NoStaleSeparator
<1>. QED
  BY <1>1, <1>2, <1>3, <1>4, <1>5

\* The separator that is scanned was received, or there is a cause.
LEMMA SeparatorReceived ==
    ASSUME CleanInv, pc = "scan", i <= end_pos, string[i] \in Separators
    PROVE  Stale => leftover \/ size > InitSize
BY BufferAssumption
   DEF CleanInv, NoStaleSeparator, Stale, BoundsInv, Numbers, ScanInBounds

LEMMA CleanScan ==
    ASSUME CleanInv, BoundsInv', ScanNewline \/ ScanTab \/ ScanOther
    PROVE  CleanInv'
<1>. USE DEF CleanInv
<1>0. i \in 0..(size - 1) /\ i \in Nat /\ size \in Nat /\ end_pos \in Nat
  BY DEF ScanNewline, ScanTab, ScanOther, Scanning, BoundsInv, Numbers, ScanInBounds
<1>1. CASE ScanOther
  BY <1>0, <1>1 DEF ScanOther, NoStaleSeparator, StaleByteNeedsCause, history, sbuf, Separators
<1>2. CASE ScanNewline
  <2>1. Stale => leftover \/ size > InitSize
    BY <1>2, SeparatorReceived DEF ScanNewline, Scanning, Separators
  <2>2. DOMAIN string' = 0..(size' - 1) /\ size' = size /\ pc' = pc /\ i' = i + 1 /\ end_pos' = end_pos
    BY <1>2 DEF ScanNewline, Terminated
  <2>3. ASSUME ~leftover', size = InitSize, NEW j \in 0..(size - 1), string'[j] \in Separators
        PROVE  pc = "scan" /\ i + 1 <= j /\ j < end_pos
    <3>1. ~leftover /\ curr_field = NFields - 1
      BY <1>0, <1>2, <2>1, <2>3 DEF ScanNewline
    <3>2. string' = [string EXCEPT ![i] = Nul]
      BY <1>2, <3>1 DEF ScanNewline, Terminated
    <3>3. j # i /\ string[j] \in Separators
      BY <1>0, <2>3, <3>2, CharsAssumption DEF Separators
    <3>4. pc = "scan" /\ i <= j /\ j < end_pos
      BY <1>2, <2>3, <3>1, <3>3 DEF NoStaleSeparator, ScanNewline, Scanning
    <3>. QED
      BY <1>0, <3>3, <3>4
  <2>4. leftover' \in BOOLEAN /\ hit' \in BOOLEAN /\ StaleByteNeedsCause'
    BY <1>2, <2>1 DEF ScanNewline, StaleByteNeedsCause
  <2>. QED
    BY <2>2, <2>3, <2>4 DEF NoStaleSeparator
<1>3. CASE ScanTab
  <2>1. Stale => leftover \/ size > InitSize
    BY <1>3, SeparatorReceived DEF ScanTab, Scanning, Separators
  <2>2. DOMAIN string' = 0..(size' - 1) /\ size' = size /\ i' = i + 1 /\ end_pos' = end_pos
    BY <1>3 DEF ScanTab, Terminated
  <2>3. ASSUME ~leftover, size = InitSize, NEW j \in 0..(size - 1), string'[j] \in Separators
        PROVE  (pc' = "scan" /\ i + 1 <= j /\ j < end_pos) \/ pc' = "wild"
    <3>1. CASE curr_field < NFields
      <4>1. string' = [string EXCEPT ![i] = Nul] /\ pc' = pc
        BY <1>3, <3>1 DEF ScanTab, Terminated
      <4>2. j # i /\ string[j] \in Separators
        BY <1>0, <2>3, <4>1, CharsAssumption DEF Separators
      <4>3. pc = "scan" /\ i <= j /\ j < end_pos
        BY <1>3, <2>3, <4>2 DEF NoStaleSeparator, ScanTab, Scanning
      <4>. QED
        BY <1>0, <4>1, <4>2, <4>3
    <3>2. CASE ~(curr_field < NFields)
      BY <1>3, <3>2 DEF ScanTab
    <3>. QED
      BY <3>1, <3>2
  <2>4. leftover' = leftover /\ hit' \in BOOLEAN /\ StaleByteNeedsCause'
    BY <1>3, <2>1, <2>2 DEF ScanTab, StaleByteNeedsCause
  <2>. QED
    BY <2>2, <2>3, <2>4 DEF NoStaleSeparator
<1>. QED
  BY <1>1, <1>2, <1>3

LEMMA CleanStep == CleanInv /\ [Next]_vars => CleanInv'
<1> SUFFICES ASSUME CleanInv, [Next]_vars PROVE CleanInv'
  OBVIOUS
<1>1. BoundsInv'
  BY BoundsStep DEF CleanInv
<1>2. CASE UNCHANGED vars
  BY <1>1, <1>2 DEF CleanInv, NoStaleSeparator, StaleByteNeedsCause, vars, sbuf, parse, history
<1>. QED
  BY <1>1, <1>2, CleanBetweenScans, CleanScan DEF Next

-----------------------------------------------------------------------------

\* A byte that was not received for the line being read ends no field and no
\* line, unless a line with the wrong number of fields came before or the
\* buffer has grown.
THEOREM StaleBytesHarmless == Spec => []StaleByteNeedsCause
<1>1. CleanInv => StaleByteNeedsCause
  BY DEF CleanInv
<1>. QED
  BY CleanInit, CleanStep, <1>1, PTL DEF Spec

\* The scan reads one byte beyond the received data, and that byte always
\* belongs to the buffer: sb_appendl keeps one byte free.
THEOREM ScanStaysInBounds == Spec => []ScanInBounds
<1>1. BoundsInv => ScanInBounds
  BY DEF BoundsInv
<1>. QED
  BY BoundsInit, BoundsStep, <1>1, PTL DEF Spec

-----------------------------------------------------------------------------
(* Types *)

ParserType ==
    /\ taken \in Nat
    /\ pc \in {"recv", "append", "scan", "ended", "overrun", "wild"}
    /\ Len(buf) <= ChunkSize
    /\ curr_field \in 0..NFields
    /\ DOMAIN fields = 1..NFields
    /\ passed \in Nat

\* recv is told the size of its buffer.
LEMMA PieceFits ==
    ASSUME NEW n \in 1..ChunkSize, Recv(n)
    PROVE  Len(buf') <= ChunkSize
<1> DEFINE w == Wire
           piece(t) == [b \in 1..n |-> w[t + b]]
<1>1. buf' = piece(taken)
  BY DEF Recv
<1>2. n \in Nat /\ n <= ChunkSize
  BY BufferAssumption
<1>3. ASSUME NEW t PROVE Len(piece(t)) = n
  <2>. HIDE DEF w
  <2>. QED
    BY <1>2
<1>4. Len(piece(taken)) = n
  BY <1>3
<1>. HIDE DEF piece
<1>. QED
  BY <1>1, <1>2, <1>4

LEMMA TypeStep == CleanInv /\ ParserType /\ [Next]_vars => ParserType'
<1> SUFFICES ASSUME CleanInv, ParserType, [Next]_vars PROVE ParserType'
  OBVIOUS
<1>. USE DEF ParserType
<1>1. ASSUME NEW n \in 1..ChunkSize, Recv(n) PROVE ParserType'
  <2>1. Len(buf') <= ChunkSize /\ n \in Nat
    BY <1>1, PieceFits, BufferAssumption
  <2>2. taken' = taken + n /\ pc' = "append" /\ UNCHANGED <<curr_field, fields, passed>>
    BY <1>1 DEF Recv, parse, history
  <2>. QED
    BY <2>1, <2>2
<1>2. CASE RecvEnd \/ RecvError \/ Grow \/ Copy \/ DeleteHead \/ ScanOther \/ UNCHANGED vars
  <2>1. /\ UNCHANGED <<taken, buf, curr_field, fields, passed>>
        /\ pc' \in {pc, "ended", "overrun", "scan", "recv"}
    BY <1>2 DEF RecvEnd, RecvError, Grow, Copy, DeleteHead, ScanOther, vars, parse, history
  <2>. QED
    BY <2>1
<1>3. CASE ScanNewline
  <2>1. /\ UNCHANGED <<taken, buf, pc>> /\ curr_field' = 0 /\ fields' = NoFields
        /\ passed' \in {passed, passed + 1}
    BY <1>3 DEF ScanNewline, FieldOfNextLine
  <2>2. 0 \in 0..NFields
    BY FieldsAssumption
  <2>. QED
    BY <2>1, <2>2 DEF NoFields
<1>4. CASE ScanTab
  <2>1. /\ UNCHANGED <<taken, buf, passed>> /\ pc' \in {pc, "wild"}
        /\ \/ curr_field < NFields /\ fields' = Completed /\ curr_field' = curr_field + 1
           \/ UNCHANGED <<fields, curr_field>>
    BY <1>4 DEF ScanTab
  <2>2. DOMAIN Completed = DOMAIN fields
    BY DEF Completed
  <2>3. DOMAIN fields' = 1..NFields
    BY <2>1, <2>2
  <2>4. curr_field' \in 0..NFields
    BY <2>1, FieldsAssumption
  <2>. QED
    BY <2>1, <2>3, <2>4
<1>. QED
  BY <1>1, <1>2, <1>3, <1>4 DEF Next

LEMMA TypeInit == Init => ParserType
<1> SUFFICES ASSUME Init PROVE ParserType
  OBVIOUS
<1>1. taken = 0 /\ pc = "recv" /\ Len(buf) = 0 /\ curr_field = 0 /\ fields = NoFields /\ passed = 0
  BY DEF Init
<1>. QED
  BY <1>1, FieldsAssumption, BufferAssumption DEF ParserType, NoFields

\* In particular no field number passes the end of `fields' while the scan goes
\* on, and a piece fits into the buffer that recv fills.
THEOREM ParserTypes == Spec => []TypeOK
<1>1. CleanInv /\ ParserType => TypeOK
  <2> SUFFICES ASSUME CleanInv, ParserType PROVE TypeOK
    OBVIOUS
  <2>1. size \in Nat \ {0}
    BY BufferAssumption DEF CleanInv, BoundsInv, Numbers
  <2>. QED
    BY <2>1 DEF CleanInv, BoundsInv, Numbers, ParserType, TypeOK
<1>. QED
  BY CleanInit, CleanStep, TypeInit, TypeStep, <1>1, PTL DEF Spec

-----------------------------------------------------------------------------
(* Induction *)

\* A non-empty set of natural numbers has a least element.
LEMMA LeastNatural ==
    ASSUME NEW T, T \subseteq Nat, T # {}
    PROVE  \E x \in T : \A y \in T : x <= y
<1> DEFINE R == OpToRel(<, Nat)
<1>1. IsWellFoundedOn(R, Nat)
  BY NatLessThanWellFounded
<1> HIDE DEF R
<1>2. PICK x \in T : \A y \in T : ~(<<y, x>> \in R)
  BY <1>1, WFMin
<1>3. \A y \in T : x <= y
  <2> SUFFICES ASSUME NEW y \in T, ~(x <= y) PROVE FALSE
    OBVIOUS
  <2>1. <<y, x>> \in R
    BY DEF R, OpToRel
  <2> QED
    BY <1>2, <2>1
<1> QED
  BY <1>3

\* What holds of 0 and is handed on from each number to the next holds of all.
LEMMA Induction ==
    ASSUME NEW S, 0 \in S, \A n \in Nat : n \in S => n + 1 \in S
    PROVE  Nat \subseteq S
<1> DEFINE T == Nat \ S
<1>1. SUFFICES ASSUME T # {} PROVE FALSE
  OBVIOUS
<1>2. PICK x \in T : \A y \in T : x <= y
  BY <1>1, LeastNatural
<1>3. x - 1 \in Nat /\ x - 1 \notin T
  BY <1>2
<1> QED
  BY <1>2, <1>3

-----------------------------------------------------------------------------
(* Sequences of sequences *)

Joins(s, f) == f = [k \in 1..Len(s) |-> IF k = 1 THEN s[k] ELSE f[k - 1] \o s[k]]

LEMMA FlattenIs ==
    ASSUME NEW s, Len(s) # 0
    PROVE  FlattenSeq(s) = (CHOOSE f : Joins(s, f))[Len(s)]
BY Zenon DEF FlattenSeq, Joins

LEMMA JoinsExists ==
    ASSUME NEW s, Len(s) \in Nat
    PROVE  \E f : Joins(s, f)
<1> DEFINE N == Len(s)
           Upto(n, f) == f = [k \in 1..n |-> IF k = 1 THEN s[k] ELSE f[k - 1] \o s[k]]
           S == {n \in Nat : \E f : Upto(n, f)}
<1>1. 0 \in S
  <2>1. Upto(0, [k \in 1..0 |-> <<>>])
    OBVIOUS
  <2> QED BY <2>1
<1>2. ASSUME NEW n \in Nat, n \in S PROVE n + 1 \in S
  <2>1. PICK f : Upto(n, f)
    BY <1>2
  <2> DEFINE g == [k \in 1..(n + 1) |-> IF k = n + 1 THEN (IF k = 1 THEN s[k] ELSE f[k - 1] \o s[k]) ELSE f[k]]
  <2>2. \A k \in 1..n : f[k] = IF k = 1 THEN s[k] ELSE f[k - 1] \o s[k]
    BY <2>1
  <2>3. \A k \in 1..n : g[k] = f[k]
    OBVIOUS
  <2>4. \A k \in 1..(n+1) : g[k] = IF k = 1 THEN s[k] ELSE g[k - 1] \o s[k]
    <3> TAKE k \in 1..(n + 1)
    <3>1. k # 1 => k - 1 \in 1..n
      OBVIOUS
    <3>2. CASE k = n + 1
      BY <2>3, <3>1, <3>2
    <3>3. CASE k \in 1..n
      BY <2>2, <2>3, <3>1, <3>3
    <3> QED BY <3>2, <3>3
  <2>5. Upto(n + 1, g)
    <3> DEFINE h == [k \in 1..(n+1) |-> IF k = 1 THEN s[k] ELSE g[k - 1] \o s[k]]
    <3>1. DOMAIN g = 1..(n+1) /\ g = [k \in DOMAIN g |-> g[k]]
      OBVIOUS
    <3> HIDE DEF g
    <3>2. g = h
      BY <2>4, <3>1
    <3> QED BY <3>2
  <2> HIDE DEF g, Upto
  <2> QED BY <2>5
<1>3. N \in S
  BY <1>1, <1>2, Induction
<1> QED BY <1>3 DEF Joins

LEMMA FlattenJoins ==
    ASSUME NEW s, Len(s) \in Nat, Len(s) # 0
    PROVE  \E f : /\ FlattenSeq(s) = f[Len(s)]
                  /\ \A k \in 1..Len(s) : f[k] = IF k = 1 THEN s[k] ELSE f[k - 1] \o s[k]
<1> DEFINE f == CHOOSE f : Joins(s, f)
<1>1. Joins(s, f)
  BY JoinsExists
<1>2. FlattenSeq(s) = f[Len(s)]
  BY FlattenIs
<1> HIDE DEF f
<1>3. \A k \in 1..Len(s) : f[k] = IF k = 1 THEN s[k] ELSE f[k - 1] \o s[k]
  BY <1>1 DEF Joins
<1> QED
  BY <1>2, <1>3

Upto(s, k) == FlattenSeq(SubSeq(s, 1, k))

LEMMA UptoStep ==
    ASSUME NEW X, NEW s \in Seq(Seq(X))
    PROVE  /\ Upto(s, 0) = <<>>
           /\ \A k \in 0..(Len(s) - 1) : Upto(s, k + 1) = Upto(s, k) \o s[k + 1]
           /\ Upto(s, Len(s)) = FlattenSeq(s)
<1>1. Upto(s, 0) = <<>>
  <2>1. SubSeq(s, 1, 0) = <<>> /\ Len(<<>>) = 0
    OBVIOUS
  <2> QED
    BY <2>1 DEF Upto, FlattenSeq
<1>2. SubSeq(s, 1, Len(s)) = s
  OBVIOUS
<1>3. ASSUME NEW k \in 0..(Len(s) - 1) PROVE Upto(s, k + 1) = Upto(s, k) \o s[k + 1]
  <2> DEFINE a == SubSeq(s, 1, k)
             b == SubSeq(s, 1, k + 1)
  <2>1. /\ k \in Nat
        /\ Len(a) = k /\ \A j \in 1..k : a[j] = s[j]
        /\ Len(b) = k + 1 /\ \A j \in 1..(k + 1) : b[j] = s[j]
    OBVIOUS
  <2> HIDE DEF a, b
  <2>2. PICK g : /\ FlattenSeq(b) = g[Len(b)]
                 /\ \A j \in 1..Len(b) : g[j] = IF j = 1 THEN b[j] ELSE g[j - 1] \o b[j]
    <3>1. Len(b) \in Nat /\ Len(b) # 0
      BY <2>1
    <3> QED
      BY <3>1, FlattenJoins
  <2>3. /\ FlattenSeq(b) = g[k + 1]
        /\ \A j \in 1..(k + 1) : g[j] = IF j = 1 THEN s[j] ELSE g[j - 1] \o s[j]
    BY <2>1, <2>2
  <2>4. CASE k = 0
    <3>1. FlattenSeq(b) = s[1] /\ s[1] \in Seq(X)
      BY <2>3, <2>4
    <3>2. <<>> \o s[1] = s[1] /\ k + 1 = 1
      BY <2>4, <3>1
    <3> QED
      BY <1>1, <2>4, <3>1, <3>2, Zenon DEF Upto, b
  <2>5. CASE k # 0
    <3>1. PICK f : /\ FlattenSeq(a) = f[Len(a)]
                   /\ \A j \in 1..Len(a) : f[j] = IF j = 1 THEN a[j] ELSE f[j - 1] \o a[j]
      <4>1. Len(a) \in Nat /\ Len(a) # 0
        BY <2>1, <2>5
      <4> QED
        BY <4>1, FlattenJoins
    <3>2. /\ FlattenSeq(a) = f[k]
          /\ \A j \in 1..k : f[j] = IF j = 1 THEN s[j] ELSE f[j - 1] \o s[j]
      BY <2>1, <3>1
    <3> DEFINE S == {n \in Nat : n + 1 \in 1..k => g[n + 1] = f[n + 1]}
    <3>3. 0 \in S
      BY <2>1, <2>3, <3>2
    <3>4. ASSUME NEW n \in Nat, n \in S PROVE n + 1 \in S
      <4> SUFFICES ASSUME n + 2 \in 1..k PROVE g[n + 2] = f[n + 2]
        BY <2>1
      <4>0. n + 1 \in 1..k /\ n + 2 \in 1..(k + 1) /\ n + 2 # 1 /\ (n + 2) - 1 = n + 1
        BY <2>1
      <4>1. g[n + 1] = f[n + 1]
        BY <3>4, <4>0
      <4>2. g[n + 2] = g[n + 1] \o s[n + 2]
        BY <2>3, <4>0
      <4>3. f[n + 2] = f[n + 1] \o s[n + 2]
        BY <3>2, <4>0
      <4> QED
        BY <4>1, <4>2, <4>3
    <3>5. k - 1 \in S
      <4>1. Nat \subseteq S
        <5> HIDE DEF S
        <5> QED
          BY <3>3, <3>4, Induction
      <4>2. k - 1 \in Nat
        BY <2>1, <2>5
      <4> QED
        BY <4>1, <4>2
    <3>6. g[k] = f[k]
      BY <2>1, <2>5, <3>5
    <3>7. k + 1 \in 1..(k + 1) /\ k + 1 # 1 /\ (k + 1) - 1 = k
      BY <2>1, <2>5
    <3>8. g[k + 1] = g[k] \o s[k + 1]
      BY <2>3, <3>7
    <3> QED
      BY <2>3, <3>2, <3>6, <3>8 DEF Upto, a, b
  <2> QED
    BY <2>4, <2>5
<1> QED
  BY <1>1, <1>2, <1>3 DEF Upto

LEMMA Concatenation ==
    ASSUME NEW X, NEW a \in Seq(X), NEW b \in Seq(X)
    PROVE  /\ a \o b \in Seq(X)
           /\ Len(a \o b) = Len(a) + Len(b)
           /\ \A j \in 1..Len(a) : (a \o b)[j] = a[j]
           /\ \A j \in 1..Len(b) : (a \o b)[Len(a) + j] = b[j]
OBVIOUS

LEMMA UptoIsSeq ==
    ASSUME NEW X, NEW s \in Seq(Seq(X))
    PROVE  \A k \in 0..Len(s) : Upto(s, k) \in Seq(X)
<1>0. Len(s) \in Nat
  OBVIOUS
<1> DEFINE S == {n \in Nat : n \in 0..Len(s) => Upto(s, n) \in Seq(X)}
<1>1. 0 \in S
  <2>1. <<>> \in Seq(X)
    OBVIOUS
  <2>2. Upto(s, 0) = <<>>
    BY UptoStep
  <2> QED
    BY <2>1, <2>2
<1>2. ASSUME NEW n \in Nat, n \in S PROVE n + 1 \in S
  <2> SUFFICES ASSUME n + 1 \in 0..Len(s) PROVE Upto(s, n + 1) \in Seq(X)
    OBVIOUS
  <2>0. n \in 0..Len(s) /\ n \in 0..(Len(s) - 1) /\ n + 1 \in 1..Len(s)
    BY <1>0
  <2>1. Upto(s, n) \in Seq(X)
    BY <1>2, <2>0
  <2>2. Upto(s, n + 1) = Upto(s, n) \o s[n + 1]
    BY <2>0, UptoStep
  <2>3. s[n + 1] \in Seq(X)
    BY <2>0
  <2> QED
    BY <2>1, <2>2, <2>3, Concatenation
<1>3. Nat \subseteq S
  BY <1>1, <1>2, Induction
<1> QED
  BY <1>3

\* What the first k pieces make is the beginning of what all make.
LEMMA UptoPrefix ==
    ASSUME NEW X, NEW s \in Seq(Seq(X)), NEW k \in 0..Len(s)
    PROVE  \A m \in k..Len(s) :
              /\ Len(Upto(s, k)) <= Len(Upto(s, m))
              /\ \A j \in 1..Len(Upto(s, k)) : Upto(s, m)[j] = Upto(s, k)[j]
<1> DEFINE P(m) == /\ Len(Upto(s, k)) <= Len(Upto(s, m))
                   /\ \A j \in 1..Len(Upto(s, k)) : Upto(s, m)[j] = Upto(s, k)[j]
           S == {n \in Nat : k + n \in k..Len(s) => P(k + n)}
<1>0. k \in Nat /\ Len(s) \in Nat /\ Upto(s, k) \in Seq(X)
  BY UptoIsSeq
<1>1. 0 \in S
  BY <1>0
<1>2. ASSUME NEW n \in Nat, n \in S PROVE n + 1 \in S
  <2> SUFFICES ASSUME k + n + 1 \in k..Len(s) PROVE P(k + n + 1)
    BY <1>0
  <2>1. P(k + n)
    BY <1>0, <1>2
  <2> DEFINE a == Upto(s, k + n)
             b == Upto(s, k + n + 1)
  <2>2. a \in Seq(X) /\ s[k + n + 1] \in Seq(X)
    BY <1>0, UptoIsSeq
  <2>3. b = a \o s[k + n + 1]
    <3>1. k + n \in 0..(Len(s) - 1)
      BY <1>0
    <3> QED
      BY <3>1, UptoStep
  <2> HIDE DEF a, b
  <2>4. Len(a) <= Len(b) /\ \A j \in 1..Len(a) : b[j] = a[j]
    BY <2>2, <2>3
  <2>5. Len(Upto(s, k)) <= Len(a) /\ \A j \in 1..Len(Upto(s, k)) : a[j] = Upto(s, k)[j]
    BY <2>1 DEF a
  <2>6. Len(Upto(s, k)) \in Nat /\ Len(a) \in Nat /\ Len(b) \in Nat
    BY <1>0, <2>2, <2>3
  <2>7. Len(Upto(s, k)) <= Len(b) /\ \A j \in 1..Len(Upto(s, k)) : b[j] = Upto(s, k)[j]
    BY <2>4, <2>5, <2>6
  <2> QED
    BY <2>7 DEF b
<1>3. Nat \subseteq S
  <2> HIDE DEF S
  <2> QED
    BY <1>1, <1>2, Induction
<1> QED
  <2> SUFFICES ASSUME NEW m \in k..Len(s) PROVE P(m)
    OBVIOUS
  <2>1. m - k \in Nat /\ k + (m - k) = m
    BY <1>0
  <2> QED
    BY <1>3, <2>1

\* Where piece k is in what all pieces make.
LEMMA FlattenAt ==
    ASSUME NEW X, NEW s \in Seq(Seq(X)), NEW k \in 1..Len(s)
    PROVE  /\ FlattenSeq(s) \in Seq(X)
           /\ Len(Upto(s, k - 1)) \in Nat
           /\ Len(Upto(s, k)) = Len(Upto(s, k - 1)) + Len(s[k])
           /\ Len(Upto(s, k)) <= Len(FlattenSeq(s))
           /\ \A j \in 1..Len(s[k]) : FlattenSeq(s)[Len(Upto(s, k - 1)) + j] = s[k][j]
<1> DEFINE a == Upto(s, k - 1)
           b == Upto(s, k)
           w == FlattenSeq(s)
<1>1. k \in Nat /\ Len(s) \in Nat /\ k - 1 \in 0..(Len(s) - 1) /\ k - 1 \in 0..Len(s) /\ k \in 0..Len(s) /\ Len(s) \in k..Len(s)
      /\ Len(s) \in 0..Len(s) /\ (k - 1) + 1 = k
  OBVIOUS
<1>2. w = Upto(s, Len(s))
  BY UptoStep
<1>3. a \in Seq(X) /\ b \in Seq(X) /\ w \in Seq(X) /\ s[k] \in Seq(X)
  BY <1>1, <1>2, UptoIsSeq
<1>4. b = a \o s[k]
  BY <1>1, UptoStep
<1>5. Len(b) <= Len(w) /\ \A j \in 1..Len(b) : w[j] = b[j]
  BY <1>1, <1>2, UptoPrefix
<1> HIDE DEF a, b, w
<1>6. Len(a) \in Nat /\ Len(s[k]) \in Nat /\ Len(b) = Len(a) + Len(s[k])
      /\ \A j \in 1..Len(s[k]) : b[Len(a) + j] = s[k][j]
  BY <1>3, <1>4
<1>7. \A j \in 1..Len(s[k]) : w[Len(a) + j] = s[k][j]
  BY <1>5, <1>6
<1> QED
  BY <1>3, <1>5, <1>6, <1>7 DEF a, b, w

LEMMA SubSeqFacts ==
    ASSUME NEW X, NEW c \in Seq(X), NEW a \in Nat, NEW b \in Nat, a <= b, b <= Len(c)
    PROVE  /\ SubSeq(c, a + 1, b) \in Seq(X)
           /\ Len(SubSeq(c, a + 1, b)) = b - a
           /\ \A j \in 1..(b - a) : SubSeq(c, a + 1, b)[j] = c[a + j]
OBVIOUS

LEMMA SameSeq ==
    ASSUME NEW X, NEW a \in Seq(X), NEW b \in Seq(X), Len(a) = Len(b),
           \A j \in 1..Len(a) : a[j] = b[j]
    PROVE  a = b
OBVIOUS

\* Two neighbouring parts of a sequence make one.
LEMMA SubSeqJoin ==
    ASSUME NEW X, NEW c \in Seq(X)
    PROVE  \A a, b, d \in Nat :
              a <= b /\ b <= d /\ d <= Len(c)
                 => SubSeq(c, a + 1, b) \o SubSeq(c, b + 1, d) = SubSeq(c, a + 1, d)
<1> SUFFICES ASSUME NEW a \in Nat, NEW b \in Nat, NEW d \in Nat,
                    a <= b, b <= d, d <= Len(c)
             PROVE  SubSeq(c, a + 1, b) \o SubSeq(c, b + 1, d) = SubSeq(c, a + 1, d)
  OBVIOUS
<1> DEFINE p == SubSeq(c, a + 1, b)
           q == SubSeq(c, b + 1, d)
           r == SubSeq(c, a + 1, d)
<1>1. /\ p \in Seq(X) /\ Len(p) = b - a /\ \A j \in 1..(b - a) : p[j] = c[a + j]
      /\ q \in Seq(X) /\ Len(q) = d - b /\ \A j \in 1..(d - b) : q[j] = c[b + j]
      /\ r \in Seq(X) /\ Len(r) = d - a /\ \A j \in 1..(d - a) : r[j] = c[a + j]
  <2>1. Len(c) \in Nat /\ b <= Len(c) /\ a <= d
    OBVIOUS
  <2> QED
    BY <2>1, SubSeqFacts
<1> HIDE DEF p, q, r
<1> DEFINE t == p \o q
<1>2. /\ t \in Seq(X) /\ Len(t) = Len(p) + Len(q)
      /\ \A j \in 1..Len(p) : t[j] = p[j]
      /\ \A j \in 1..Len(q) : t[Len(p) + j] = q[j]
  <2>1. p \in Seq(X) /\ q \in Seq(X)
    BY <1>1
  <2> QED
    BY <2>1, Concatenation
<1> HIDE DEF t
<1>3. ASSUME NEW j \in 1..(d - a) PROVE t[j] = r[j]
  <2>1. CASE j <= b - a
    BY <1>1, <1>2, <2>1
  <2>2. CASE ~(j <= b - a)
    <3> DEFINE n == j - (b - a)
    <3>1. n \in 1..(d - b) /\ b - a + n = j /\ b + n = a + j
      BY <2>2
    <3> HIDE DEF n
    <3> QED
      BY <1>1, <1>2, <3>1
  <2> QED
    BY <2>1, <2>2
<1>4. Len(t) = d - a
  BY <1>1, <1>2
<1>5. t = r
  BY <1>1, <1>2, <1>3, <1>4, SameSeq
<1> QED
  BY <1>5 DEF t, p, q, r

\* Parts of a sequence that follow each other, put together.
LEMMA FlattenParts ==
    ASSUME NEW X, NEW c \in Seq(X), NEW N \in Nat, NEW o \in [1..(N + 1) -> 0..Len(c)],
           NEW s \in Seq(Seq(X)), Len(s) = N,
           \A k \in 1..N : o[k] <= o[k + 1] /\ s[k] = SubSeq(c, o[k] + 1, o[k + 1])
    PROVE  FlattenSeq(s) = SubSeq(c, o[1] + 1, o[N + 1]) /\ o[1] <= o[N + 1]
<1> DEFINE P(n) == o[1] <= o[n + 1] /\ Upto(s, n) = SubSeq(c, o[1] + 1, o[n + 1])
           S == {n \in Nat : n \in 0..N => P(n)}
<1>0. \A k \in 1..(N + 1) : o[k] \in Nat /\ o[k] <= Len(c)
  OBVIOUS
<1>1. 0 \in S
  <2>1. SubSeq(c, o[1] + 1, o[1]) = <<>> /\ o[1] <= o[1]
    <3>1. o[1] \in Nat
      BY <1>0
    <3> QED
      BY <3>1
  <2>2. Upto(s, 0) = <<>>
    BY UptoStep
  <2>3. P(0)
    <3>1. 0 + 1 = 1
      OBVIOUS
    <3> QED
      BY <2>1, <2>2, <3>1, Zenon
  <2> HIDE DEF P
  <2> QED
    BY <2>3
<1>2. ASSUME NEW n \in Nat, n \in S PROVE n + 1 \in S
  <2> SUFFICES ASSUME n + 1 \in 0..N PROVE P(n + 1)
    OBVIOUS
  <2>1. /\ n \in 0..N /\ n \in 0..(Len(s) - 1) /\ n + 1 \in 1..N /\ n + 1 \in 1..(N + 1)
        /\ 1 \in 1..(N + 1) /\ n + 2 \in 1..(N + 1) /\ (n + 1) + 1 = n + 2
    OBVIOUS
  <2>2. P(n)
    BY <1>2, <2>1
  <2>3. Upto(s, n + 1) = Upto(s, n) \o s[n + 1]
    BY <2>1, UptoStep
  <2>4. o[n + 1] <= o[n + 2] /\ s[n + 1] = SubSeq(c, o[n + 1] + 1, o[n + 2])
    BY <2>1
  <2>5. /\ o[1] \in Nat /\ o[n + 1] \in Nat /\ o[n + 2] \in Nat /\ o[n + 2] <= Len(c)
        /\ o[1] <= o[n + 1] /\ o[1] <= o[n + 2]
    BY <1>0, <2>1, <2>2, <2>4
  <2>6. SubSeq(c, o[1] + 1, o[n + 1]) \o SubSeq(c, o[n + 1] + 1, o[n + 2])
            = SubSeq(c, o[1] + 1, o[n + 2])
    <3> DEFINE x == o[1]
               y == o[n + 1]
               z == o[n + 2]
    <3>1. x \in Nat /\ y \in Nat /\ z \in Nat /\ x <= y /\ y <= z /\ z <= Len(c)
      BY <2>4, <2>5
    <3> HIDE DEF x, y, z
    <3>2. SubSeq(c, x + 1, y) \o SubSeq(c, y + 1, z) = SubSeq(c, x + 1, z)
      <4>1. \A a, b, d \in Nat :
               a <= b /\ b <= d /\ d <= Len(c)
                  => SubSeq(c, a + 1, b) \o SubSeq(c, b + 1, d) = SubSeq(c, a + 1, d)
        BY SubSeqJoin
      <4> QED
        BY <3>1, <4>1, Zenon
    <3> QED
      BY <3>2 DEF x, y, z
  <2> QED
    <3>1. Upto(s, n + 1) = SubSeq(c, o[1] + 1, o[n + 2])
      BY <2>2, <2>3, <2>4, <2>6, Zenon
    <3> QED
      BY <2>1, <2>5, <3>1, Zenon
<1>3. Nat \subseteq S
  <2> HIDE DEF S
  <2> QED
    BY <1>1, <1>2, Induction
<1>4. P(N)
  BY <1>3
<1>5. Upto(s, N) = FlattenSeq(s)
  BY UptoStep
<1> QED
  BY <1>4, <1>5

-----------------------------------------------------------------------------
(* Lines on the wire *)

Bytes == Plain \cup Separators
Lines == Seq(Seq(Plain)) \ {<<>>}

EndOf(line, f) == IF f = Len(line) THEN NewLine ELSE Tab
WireFields(line) == [f \in 1..Len(line) |-> Append(line[f], EndOf(line, f))]
WireLines(in) == [l \in 1..Len(in) |-> WireLine(in[l])]

\* The bytes in front of a line, in front of a field in its line, and in front
\* of the c-th character of a field; the characters of a line in front of that one.
LineAt(in, l) == Len(Upto(WireLines(in), l - 1))
FieldAt(line, f) == Len(Upto(WireFields(line), f - 1))
At(in, l, f, c) == LineAt(in, l) + FieldAt(in[l], f) + c
CharAt(line, f, c) == Len(Upto(line, f - 1)) + c

\* In w, `field' follows the first p bytes, and the byte `end' follows it.
Holds(w, p, field, end) ==
    /\ p \in Nat
    /\ p + Len(field) + 1 <= Len(w)
    /\ \A e \in 1..Len(field) : w[p + e] = field[e]
    /\ w[p + Len(field) + 1] = end

LEMMA FieldInLine ==
    ASSUME NEW line \in Lines, NEW f \in 1..Len(line)
    PROVE  /\ WireLine(line) \in Seq(Bytes)
           /\ Holds(WireLine(line), FieldAt(line, f), line[f], EndOf(line, f))
           /\ FieldAt(line, 1) = 0
           /\ f < Len(line) => FieldAt(line, f + 1) = FieldAt(line, f) + Len(line[f]) + 1
           /\ f = Len(line) => Len(WireLine(line)) = FieldAt(line, f) + Len(line[f]) + 1
<1> DEFINE s == WireFields(line)
<1>1. \A g \in 1..Len(line) : line[g] \in Seq(Plain) /\ EndOf(line, g) \in Bytes
  BY DEF Lines, EndOf, Bytes, Separators
<1>2. \A g \in 1..Len(line) :
         /\ s[g] \in Seq(Bytes)
         /\ Len(s[g]) = Len(line[g]) + 1
         /\ \A e \in 1..Len(line[g]) : s[g][e] = line[g][e]
         /\ s[g][Len(line[g]) + 1] = EndOf(line, g)
  <2> SUFFICES ASSUME NEW g \in 1..Len(line)
               PROVE  /\ s[g] \in Seq(Bytes)
                      /\ Len(s[g]) = Len(line[g]) + 1
                      /\ \A e \in 1..Len(line[g]) : s[g][e] = line[g][e]
                      /\ s[g][Len(line[g]) + 1] = EndOf(line, g)
    OBVIOUS
  <2> DEFINE x == line[g]
             y == EndOf(line, g)
  <2>1. s[g] = Append(x, y)
    BY DEF WireFields
  <2>2. x \in Seq(Bytes) /\ y \in Bytes
    BY <1>1 DEF Bytes
  <2> HIDE DEF x, y, s
  <2>3. /\ Append(x, y) \in Seq(Bytes)
        /\ Len(Append(x, y)) = Len(x) + 1
        /\ \A e \in 1..Len(x) : Append(x, y)[e] = x[e]
        /\ Append(x, y)[Len(x) + 1] = y
    BY <2>2
  <2> QED
    BY <2>1, <2>3 DEF x, y
<1>3. s \in Seq(Seq(Bytes)) /\ Len(s) = Len(line) /\ Len(line) \in Nat
  <2>1. Len(line) \in Nat
    BY DEF Lines
  <2>2. s = [g \in 1..Len(line) |-> s[g]]
    BY DEF WireFields
  <2> HIDE DEF s
  <2> QED
    BY <1>2, <2>1, <2>2
<1>4. WireLine(line) = FlattenSeq(s)
  BY DEF WireLine, WireFields, EndOf
<1> DEFINE w == WireLine(line)
           p == FieldAt(line, f)
<1>5. /\ w \in Seq(Bytes)
      /\ p \in Nat
      /\ Len(Upto(s, f)) = p + Len(s[f])
      /\ Len(Upto(s, f)) <= Len(w)
      /\ \A j \in 1..Len(s[f]) : w[p + j] = s[f][j]
  <2>1. f \in 1..Len(s)
    BY <1>3
  <2>2. p = Len(Upto(s, f - 1))
    BY DEF FieldAt
  <2> HIDE DEF s
  <2>3. /\ FlattenSeq(s) \in Seq(Bytes)
        /\ Len(Upto(s, f - 1)) \in Nat
        /\ Len(Upto(s, f)) = Len(Upto(s, f - 1)) + Len(s[f])
        /\ Len(Upto(s, f)) <= Len(FlattenSeq(s))
        /\ \A j \in 1..Len(s[f]) : FlattenSeq(s)[Len(Upto(s, f - 1)) + j] = s[f][j]
    BY <1>3, <2>1, FlattenAt
  <2> HIDE DEF p
  <2> QED
    BY <1>4, <2>2, <2>3, Zenon
<1>6. Upto(s, 0) = <<>> /\ Upto(s, Len(s)) = FlattenSeq(s)
  <2> HIDE DEF s
  <2> QED
    BY <1>3, UptoStep
<1>7. FieldAt(line, 1) = 0
  <2>1. 1 - 1 = 0 /\ Len(<<>>) = 0
    OBVIOUS
  <2> QED
    BY <1>6, <2>1, Zenon DEF FieldAt
<1>8. FieldAt(line, f + 1) = Len(Upto(s, f))
  <2>1. (f + 1) - 1 = f
    BY <1>3
  <2> QED
    BY <2>1, Zenon DEF FieldAt
<1>9. f = Len(line) => Len(w) = Len(Upto(s, f))
  BY <1>3, <1>4, <1>6
<1> HIDE DEF s, w, p
<1>10. Len(line[f]) \in Nat
  BY <1>1
<1>11. /\ Len(s[f]) = Len(line[f]) + 1
       /\ \A e \in 1..Len(line[f]) : s[f][e] = line[f][e]
       /\ s[f][Len(line[f]) + 1] = EndOf(line, f)
  BY <1>2
<1>12. Len(Upto(s, f)) = p + Len(line[f]) + 1
  BY <1>5, <1>10, <1>11
<1>13. Holds(w, p, line[f], EndOf(line, f))
  <2>1. \A e \in 1..Len(line[f]) : w[p + e] = line[f][e]
    BY <1>5, <1>10, <1>11
  <2>2. w[p + Len(line[f]) + 1] = EndOf(line, f)
    <3>1. Len(line[f]) + 1 \in 1..Len(s[f]) /\ p + (Len(line[f]) + 1) = p + Len(line[f]) + 1
      BY <1>5, <1>10, <1>11
    <3> QED
      BY <1>5, <1>11, <3>1
  <2> QED
    BY <1>5, <1>10, <1>12, <2>1, <2>2 DEF Holds
<1> QED
  BY <1>5, <1>7, <1>8, <1>9, <1>12, <1>13 DEF w, p

LEMMA InputIs ==
    ASSUME input \in Inputs
    PROVE  input \in Seq(Lines)
BY InputsAssumption DEF Lines

\* Where the lines are on the wire.
LEMMA LineOnWire ==
    ASSUME input \in Inputs, NEW l \in 1..Len(input)
    PROVE  /\ Wire \in Seq(Bytes)
           /\ LineAt(input, l) \in Nat
           /\ LineAt(input, l + 1) = LineAt(input, l) + Len(WireLine(input[l]))
           /\ LineAt(input, l + 1) <= Len(Wire)
           /\ \A j \in 1..Len(WireLine(input[l])) : Wire[LineAt(input, l) + j] = WireLine(input[l])[j]
<1> DEFINE s == WireLines(input)
<1>1. input \in Seq(Lines)
  BY InputIs
<1>2. \A k \in 1..Len(input) : input[k] \in Lines
  BY <1>1
<1>3. \A k \in 1..Len(input) : WireLine(input[k]) \in Seq(Bytes)
  <2> SUFFICES ASSUME NEW k \in 1..Len(input) PROVE WireLine(input[k]) \in Seq(Bytes)
    OBVIOUS
  <2> DEFINE line == input[k]
  <2>1. line \in Lines /\ 1 \in 1..Len(line)
    BY <1>2 DEF Lines
  <2> HIDE DEF line
  <2>2. WireLine(line) \in Seq(Bytes)
    BY <2>1, FieldInLine
  <2> QED
    BY <2>2 DEF line
<1>4. s \in Seq(Seq(Bytes)) /\ Len(s) = Len(input) /\ Len(input) \in Nat
  <2>1. Len(input) \in Nat
    BY <1>1
  <2>2. s = [k \in 1..Len(input) |-> WireLine(input[k])]
    BY DEF WireLines
  <2> HIDE DEF s
  <2> QED
    BY <1>3, <2>1, <2>2
<1>5. s[l] = WireLine(input[l])
  BY DEF WireLines
<1>6. Wire = FlattenSeq(s)
  BY DEF Wire, WireLines
<1>7. (l + 1) - 1 = l /\ l \in 1..Len(s)
  BY <1>4
<1> HIDE DEF s
<1>8. /\ FlattenSeq(s) \in Seq(Bytes)
      /\ Len(Upto(s, l - 1)) \in Nat
      /\ Len(Upto(s, l)) = Len(Upto(s, l - 1)) + Len(s[l])
      /\ Len(Upto(s, l)) <= Len(FlattenSeq(s))
      /\ \A j \in 1..Len(s[l]) : FlattenSeq(s)[Len(Upto(s, l - 1)) + j] = s[l][j]
  BY <1>4, <1>7, FlattenAt
<1>9. LineAt(input, l) = Len(Upto(s, l - 1)) /\ LineAt(input, l + 1) = Len(Upto(s, l))
  BY <1>7, Zenon DEF LineAt, s
<1> QED
  BY <1>5, <1>6, <1>8, <1>9, Zenon

LEMMA WireEnds ==
    ASSUME input \in Inputs
    PROVE  /\ LineAt(input, 1) = 0
           /\ LineAt(input, Len(input) + 1) = Len(Wire)
           /\ Len(Wire) \in Nat
<1> DEFINE s == WireLines(input)
<1>1. input \in Seq(Lines)
  BY InputIs
<1>2. \A k \in 1..Len(input) : WireLine(input[k]) \in Seq(Bytes)
  <2> SUFFICES ASSUME NEW k \in 1..Len(input) PROVE WireLine(input[k]) \in Seq(Bytes)
    OBVIOUS
  <2> DEFINE line == input[k]
  <2>1. line \in Lines /\ 1 \in 1..Len(line)
    BY <1>1 DEF Lines
  <2> HIDE DEF line
  <2>2. WireLine(line) \in Seq(Bytes)
    BY <2>1, FieldInLine
  <2> QED
    BY <2>2 DEF line
<1>3. s \in Seq(Seq(Bytes)) /\ Len(s) = Len(input) /\ Len(input) \in Nat
  <2>1. Len(input) \in Nat
    BY <1>1
  <2>2. s = [k \in 1..Len(input) |-> WireLine(input[k])]
    BY DEF WireLines
  <2> HIDE DEF s
  <2> QED
    BY <1>2, <2>1, <2>2
<1>4. Wire = FlattenSeq(s)
  BY DEF Wire, WireLines
<1> HIDE DEF s
<1>5. Upto(s, 0) = <<>> /\ Upto(s, Len(s)) = FlattenSeq(s)
  BY <1>3, UptoStep
<1>6. Upto(s, Len(s)) \in Seq(Bytes)
  <2>1. Len(s) \in 0..Len(s)
    BY <1>3
  <2> QED
    BY <1>3, <2>1, UptoIsSeq
<1>7. 1 - 1 = 0 /\ Len(<<>>) = 0 /\ (Len(input) + 1) - 1 = Len(s)
  BY <1>3
<1>8. LineAt(input, 1) = Len(Upto(s, 0)) /\ LineAt(input, Len(input) + 1) = Len(Upto(s, Len(s)))
  BY <1>7, Zenon DEF LineAt, s
<1>9. Len(Wire) \in Nat
  BY <1>4, <1>5, <1>6
<1> QED
  BY <1>4, <1>5, <1>7, <1>8, <1>9, Zenon

\* Where the fields are on the wire.
LEMMA FieldOnWire ==
    ASSUME input \in Inputs, NEW l \in 1..Len(input), NEW f \in 1..Len(input[l])
    PROVE  /\ Holds(Wire, At(input, l, f, 0), input[l][f], EndOf(input[l], f))
           /\ f < Len(input[l]) => At(input, l, f + 1, 0) = At(input, l, f, 0) + Len(input[l][f]) + 1
           /\ f = Len(input[l]) => LineAt(input, l + 1) = At(input, l, f, 0) + Len(input[l][f]) + 1
           /\ At(input, l, 1, 0) = LineAt(input, l)
<1> DEFINE line == input[l]
           p == LineAt(input, l)
           q == FieldAt(line, f)
           w == Wire
           v == WireLine(line)
           n == Len(line[f])
<1>1. line \in Lines
  BY InputIs
<1>2. f \in Nat /\ line[f] \in Seq(Plain) /\ n \in Nat
  BY <1>1 DEF Lines
<1>3. /\ p \in Nat
      /\ LineAt(input, l + 1) = p + Len(v)
      /\ LineAt(input, l + 1) <= Len(w)
      /\ \A j \in 1..Len(v) : w[p + j] = v[j]
      /\ w \in Seq(Bytes)
  BY LineOnWire
<1>4. /\ v \in Seq(Bytes)
      /\ Holds(v, q, line[f], EndOf(line, f))
      /\ FieldAt(line, 1) = 0
      /\ f < Len(line) => FieldAt(line, f + 1) = q + n + 1
      /\ f = Len(line) => Len(v) = q + n + 1
  <2> HIDE DEF line
  <2>1. f \in 1..Len(line)
    BY DEF line
  <2> QED
    BY <1>1, <2>1, FieldInLine
<1>5. /\ At(input, l, f, 0) = p + q + 0
      /\ At(input, l, f + 1, 0) = p + FieldAt(line, f + 1) + 0
      /\ At(input, l, 1, 0) = p + FieldAt(line, 1) + 0
  BY DEF At
<1> HIDE DEF line, p, q, w, v
<1>6. /\ q \in Nat
      /\ q + n + 1 <= Len(v)
      /\ \A e \in 1..n : v[q + e] = line[f][e]
      /\ v[q + n + 1] = EndOf(line, f)
  BY <1>4 DEF Holds
<1> HIDE DEF n
<1>7. Len(v) \in Nat /\ Len(w) \in Nat
  BY <1>3, <1>4
<1>13. /\ p \in Nat /\ q \in Nat /\ n \in Nat
      /\ q + n + 1 <= Len(v) /\ p + Len(v) <= Len(w)
  BY <1>2, <1>3, <1>6
<1>14. LineAt(input, l + 1) = p + Len(v)
  BY <1>3
<1>8. At(input, l, f, 0) = p + q
  BY <1>5, <1>13
<1>9. Holds(w, p + q, line[f], EndOf(line, f))
  <2>1. p + q \in Nat /\ p + q + n + 1 <= Len(w)
    BY <1>7, <1>13
  <2>2. ASSUME NEW e \in 1..n PROVE w[p + q + e] = line[f][e]
    <3>1. q + e \in 1..Len(v) /\ p + (q + e) = p + q + e
      BY <1>7, <1>13
    <3> QED
      BY <1>3, <1>6, <3>1
  <2>3. w[p + q + n + 1] = EndOf(line, f)
    <3>1. q + n + 1 \in 1..Len(v) /\ p + (q + n + 1) = p + q + n + 1
      BY <1>7, <1>13
    <3> QED
      BY <1>3, <1>6, <3>1
  <2> QED
    BY <2>1, <2>2, <2>3 DEF Holds, n
<1>10. f < Len(line) => At(input, l, f + 1, 0) = p + q + n + 1
  <2>1. f < Len(line) => FieldAt(line, f + 1) = q + n + 1
    BY <1>4
  <2> QED
    BY <1>5, <1>13, <2>1
<1>11. f = Len(line) => LineAt(input, l + 1) = p + q + n + 1
  <2>1. f = Len(line) => Len(v) = q + n + 1
    BY <1>4
  <2> QED
    BY <1>14, <1>13, <2>1
<1>12. At(input, l, 1, 0) = p
  BY <1>4, <1>5, <1>13
<1> QED
  BY <1>8, <1>9, <1>10, <1>11, <1>12 DEF line, p, w, n

\* Where its characters are.
LEMMA CharOnWire ==
    ASSUME input \in Inputs, NEW l \in 1..Len(input), NEW f \in 1..Len(input[l]), NEW c \in Nat
    PROVE  At(input, l, f, 0) \in Nat /\ At(input, l, f, c) = At(input, l, f, 0) + c
<1> DEFINE a == LineAt(input, l)
           line == input[l]
           b == FieldAt(line, f)
<1>1. a \in Nat
  BY LineOnWire
<1>2. b \in Nat
  <2>1. line \in Lines /\ f \in 1..Len(line)
    BY InputIs
  <2> HIDE DEF line
  <2>2. Holds(WireLine(line), FieldAt(line, f), line[f], EndOf(line, f))
    BY <2>1, FieldInLine
  <2> QED
    BY <2>2 DEF Holds
<1>3. At(input, l, f, c) = a + b + c /\ At(input, l, f, 0) = a + b + 0
  BY DEF At
<1> HIDE DEF a, b
<1> QED
  BY <1>1, <1>2, <1>3

\* The d bytes of w behind its first p are no separators.
NoSeparators(w, p, d) == \A e \in 1..d : w[p + e] \notin Separators

\* With these bytes the field goes on behind its c-th character.
GoesOn(w, p, field, end, c, d) ==
    /\ c + d <= Len(field)
    /\ \A e \in 1..d : w[p + c + e] = field[c + e]
    /\ w[p + c + d + 1] \in Separators => c + d = Len(field) /\ w[p + c + d + 1] = end

\* Reading on from the c-th character of a field: bytes that are no separators
\* are characters of the field, and the first separator is its end.
LEMMA ReadOn ==
    ASSUME NEW w, NEW p, NEW field \in Seq(Plain), NEW end \in Separators,
           Holds(w, p, field, end), NEW c \in 0..Len(field), NEW d \in Nat,
           NoSeparators(w, p + c, d)
    PROVE  GoesOn(w, p, field, end, c, d)
<1> USE DEF NoSeparators, GoesOn
<1> DEFINE n == Len(field)
<1>1. p \in Nat /\ n \in Nat /\ c \in Nat /\ c <= n
  BY DEF Holds
<1>2. /\ \A e \in 1..n : w[p + e] = field[e]
      /\ w[p + n + 1] = end
  BY DEF Holds
<1>3. \A e \in 1..n : field[e] \notin Separators
  <2> SUFFICES ASSUME NEW e \in 1..n PROVE field[e] \notin Separators
    OBVIOUS
  <2>1. field[e] \in Plain
    OBVIOUS
  <2> QED
    BY <2>1, PlainAssumption DEF Separators
<1> HIDE DEF n
<1>4. c + d <= n
  <2> SUFFICES ASSUME ~(c + d <= n) PROVE FALSE
    OBVIOUS
  <2>1. n + 1 - c \in 1..d /\ p + c + (n + 1 - c) = p + n + 1
    BY <1>1
  <2> QED
    BY <1>2, <2>1
<1>5. ASSUME NEW e \in 1..d PROVE w[p + c + e] = field[c + e]
  <2>1. c + e \in 1..n /\ p + (c + e) = p + c + e
    BY <1>1, <1>4
  <2> QED
    BY <1>2, <2>1
<1>6. ASSUME w[p + c + d + 1] \in Separators
      PROVE  c + d = n /\ w[p + c + d + 1] = end
  <2>1. CASE c + d = n
    <3>1. p + c + d + 1 = p + n + 1
      BY <1>1, <2>1
    <3> QED
      BY <1>2, <2>1, <3>1
  <2>2. CASE c + d # n
    <3>1. c + d + 1 \in 1..n /\ p + (c + d + 1) = p + c + d + 1
      BY <1>1, <1>4, <2>2
    <3> QED
      BY <1>2, <1>3, <1>6, <3>1
  <2> QED
    BY <2>1, <2>2
<1> QED
  BY <1>4, <1>5, <1>6 DEF n

\* The d characters of field f behind its c-th are together in the line.
CharFacts(line, f, c, d) ==
    /\ FlattenSeq(line) \in Seq(Plain)
    /\ CharAt(line, f, c) \in Nat
    /\ CharAt(line, f, c) + d = CharAt(line, f, c + d)
    /\ CharAt(line, f, c + d) <= Len(FlattenSeq(line))
    /\ SubSeq(FlattenSeq(line), CharAt(line, f, c) + 1, CharAt(line, f, c + d))
          = [k \in 1..d |-> line[f][c + k]]
    /\ c + d = Len(line[f]) /\ f < Len(line)
          => CharAt(line, f + 1, 0) = CharAt(line, f, c + d)

LEMMA CharsOfLine ==
    ASSUME NEW line \in Lines, NEW f \in 1..Len(line), NEW c \in Nat, NEW d \in Nat,
           c + d <= Len(line[f])
    PROVE  CharFacts(line, f, c, d)
<1> USE DEF CharFacts
<1> DEFINE t == FlattenSeq(line)
           a == Len(Upto(line, f - 1))
           n == Len(line[f])
<1>1. line \in Seq(Seq(Plain)) /\ line[f] \in Seq(Plain) /\ f \in Nat
  BY DEF Lines
<1>2. /\ t \in Seq(Plain)
      /\ a \in Nat
      /\ Len(Upto(line, f)) = a + n
      /\ Len(Upto(line, f)) <= Len(t)
      /\ \A j \in 1..n : t[a + j] = line[f][j]
  BY <1>1, FlattenAt
<1>3. /\ CharAt(line, f, c) = a + c
      /\ CharAt(line, f, c + d) = a + (c + d)
  BY DEF CharAt
<1>4. CharAt(line, f + 1, 0) = Len(Upto(line, f)) + 0
  <2>1. (f + 1) - 1 = f
    BY <1>1
  <2> QED
    BY <2>1, Zenon DEF CharAt
<1>5. n \in Nat
  BY <1>1
<1> HIDE DEF t, a, n
<1>6. Len(t) \in Nat
  BY <1>2
<1>7. c + d <= n
  BY DEF n
<1> DEFINE x == a + c
           y == a + (c + d)
           r == SubSeq(t, x + 1, y)
           u == [k \in 1..d |-> line[f][c + k]]
<1>8. x \in Nat /\ y \in Nat /\ x <= y /\ y <= Len(t) /\ y - x = d
  BY <1>2, <1>5, <1>6, <1>7
<1>9. r \in Seq(Plain) /\ Len(r) = d /\ \A j \in 1..d : r[j] = t[x + j]
  <2> HIDE DEF x, y
  <2>1. /\ r \in Seq(Plain)
        /\ Len(r) = y - x
        /\ \A j \in 1..(y - x) : r[j] = t[x + j]
    BY <1>2, <1>8, SubSeqFacts
  <2> QED
    BY <1>8, <2>1
<1>10. \A j \in 1..d : t[x + j] = line[f][c + j]
  <2> SUFFICES ASSUME NEW j \in 1..d PROVE t[x + j] = line[f][c + j]
    OBVIOUS
  <2>1. c + j \in 1..n /\ a + (c + j) = x + j
    BY <1>2, <1>5, <1>7
  <2> QED
    BY <1>2, <2>1
<1>11. r = u
  <2> HIDE DEF r, x, y
  <2>1. \A j \in 1..d : r[j] = line[f][c + j]
    BY <1>9, <1>10
  <2>2. r = [j \in 1..d |-> r[j]]
    BY <1>9
  <2> QED
    BY <2>1, <2>2, Zenon
<1>12. c + d = n => a + n + 0 = y
  BY <1>2, <1>5
<1>13. x + d = y
  BY <1>2
<1>14. SubSeq(t, CharAt(line, f, c) + 1, CharAt(line, f, c + d)) = u
  BY <1>3, <1>11, Zenon
<1>15. c + d = n => CharAt(line, f + 1, 0) = CharAt(line, f, c + d)
  <2>1. CharAt(line, f + 1, 0) = a + n + 0
    BY <1>2, <1>4, Zenon
  <2> QED
    BY <1>3, <1>12, <2>1
<1> HIDE DEF u
<1>16. /\ CharAt(line, f, c) \in Nat
       /\ CharAt(line, f, c) + d = CharAt(line, f, c + d)
       /\ CharAt(line, f, c + d) <= Len(t)
  BY <1>3, <1>8, <1>13
<1> QED
  BY <1>2, <1>14, <1>15, <1>16, Zenon DEF t, n, u

-----------------------------------------------------------------------------
(* The fields of the line being read *)

\* The bytes of the buffer that sb_append is given when no byte of the field is
\* the end of a string.
LEMMA CompletedIs ==
    ASSUME lfield_start \in Nat, i \in Nat, lfield_start <= i,
           \A j \in lfield_start..(i - 1) : string[j] # Nul
    PROVE  Completed = [fields EXCEPT ![curr_field + 1] =
                           @ \o [k \in 1..(i - lfield_start) |-> string[lfield_start + k - 1]]]
<1> DEFINE Ends(j) == /\ j = i \/ string[j] = Nul
                      /\ \A k \in lfield_start..(j - 1) : string[k] # Nul
           last == CHOOSE j \in lfield_start..i : Ends(j)
<1>1. i \in lfield_start..i /\ Ends(i)
  OBVIOUS
<1>2. last \in lfield_start..i /\ Ends(last)
  <2>1. \E j \in lfield_start..i : Ends(j)
    BY <1>1
  <2> HIDE DEF Ends
  <2> QED
    BY <2>1
<1>3. last = i
  <2> HIDE DEF last
  <2> SUFFICES ASSUME last # i PROVE FALSE
    OBVIOUS
  <2>1. last \in lfield_start..(i - 1)
    BY <1>2
  <2> QED
    BY <1>2, <2>1
<1>4. Completed = [fields EXCEPT ![curr_field + 1] =
                      @ \o [k \in 1..(last - lfield_start) |-> string[lfield_start + k - 1]]]
  BY DEF Completed
<1> HIDE DEF last
<1> QED
  BY <1>3, <1>4

\* The fields fs, of which n are complete, are parts of `chars' that follow
\* each other and end with its q-th character.
Parts(fs, n, chars, q) ==
    \E o \in [1..(NFields + 1) -> 0..q] :
        /\ \A k \in 1..NFields : o[k] <= o[k + 1]
        /\ fs = [k \in 1..NFields |-> SubSeq(chars, o[k] + 1, o[k + 1])]
        /\ \A k \in (n + 1)..(NFields + 1) : o[k] = q

\* Nothing is between two neighbouring characters.
LEMMA NothingBetween ==
    ASSUME NEW chars, NEW q \in Nat
    PROVE  SubSeq(chars, q + 1, q) = <<>>
OBVIOUS

\* No field has anything yet.
LEMMA PartsNone ==
    ASSUME NEW chars, NEW q \in Nat
    PROVE  Parts(NoFields, 0, chars, q)
<1> DEFINE o == [k \in 1..(NFields + 1) |-> q]
<1>1. NFields \in Nat
  BY FieldsAssumption
<1>2. o \in [1..(NFields + 1) -> 0..q]
  OBVIOUS
<1>3. \A k \in 1..(NFields + 1) : o[k] = q
  OBVIOUS
<1>4. \A k \in 1..NFields : k \in 1..(NFields + 1) /\ k + 1 \in 1..(NFields + 1)
  BY <1>1
<1> HIDE DEF o
<1>5. ASSUME NEW k \in 1..NFields
      PROVE  o[k] <= o[k + 1] /\ SubSeq(chars, o[k] + 1, o[k + 1]) = <<>>
  <2>1. o[k] = q /\ o[k + 1] = q
    BY <1>3, <1>4
  <2>2. SubSeq(chars, q + 1, q) = <<>>
    BY NothingBetween
  <2> QED
    BY <2>1, <2>2
<1>6. NoFields = [k \in 1..NFields |-> SubSeq(chars, o[k] + 1, o[k + 1])]
  BY <1>5 DEF NoFields
<1>7. \A k \in (0 + 1)..(NFields + 1) : o[k] = q
  BY <1>3
<1> QED
  BY <1>2, <1>5, <1>6, <1>7, Zenon DEF Parts

\* The next field gets the characters that follow.
LEMMA PartsGrow ==
    ASSUME NEW X, NEW chars \in Seq(X), NEW n \in 0..(NFields - 1), NEW q \in Nat, NEW r \in Nat,
           q <= r, r <= Len(chars),
           NEW fs, Parts(fs, n, chars, q)
    PROVE  Parts([fs EXCEPT ![n + 1] = @ \o SubSeq(chars, q + 1, r)], n + 1, chars, r)
<1> DEFINE fs2 == [fs EXCEPT ![n + 1] = @ \o SubSeq(chars, q + 1, r)]
<1>1. PICK o \in [1..(NFields + 1) -> 0..q] :
          /\ \A k \in 1..NFields : o[k] <= o[k + 1]
          /\ fs = [k \in 1..NFields |-> SubSeq(chars, o[k] + 1, o[k + 1])]
          /\ \A k \in (n + 1)..(NFields + 1) : o[k] = q
  BY DEF Parts
<1>2. NFields \in Nat /\ NFields > 1 /\ n \in Nat /\ n < NFields
  BY FieldsAssumption
<1> DEFINE o2 == [k \in 1..(NFields + 1) |-> IF k <= n + 1 THEN o[k] ELSE r]
<1>3. o2 \in [1..(NFields + 1) -> 0..r]
  <2>1. \A k \in 1..(NFields + 1) : o[k] \in 0..r /\ r \in 0..r
    OBVIOUS
  <2> QED
    BY <2>1
<1>4. /\ \A k \in 1..(n + 1) : o2[k] = o[k]
      /\ \A k \in (n + 2)..(NFields + 1) : o2[k] = r
  BY <1>2
<1>5. o[n + 1] = q
  BY <1>1, <1>2
<1>6. /\ \A k \in 1..NFields : fs[k] = SubSeq(chars, o[k] + 1, o[k + 1])
      /\ \A k \in 1..NFields : k # n + 1 => fs2[k] = fs[k]
      /\ fs2[n + 1] = fs[n + 1] \o SubSeq(chars, q + 1, r)
      /\ fs2 = [k \in 1..NFields |-> fs2[k]]
  <2> DEFINE new == SubSeq(chars, q + 1, r)
             old(k) == SubSeq(chars, o[k] + 1, o[k + 1])
  <2>1. fs = [k \in 1..NFields |-> old(k)] /\ n + 1 \in 1..NFields
    BY <1>1, <1>2
  <2> HIDE DEF new, old
  <2>2. /\ \A k \in 1..NFields : fs[k] = old(k)
        /\ \A k \in 1..NFields : k # n + 1 => fs2[k] = fs[k]
        /\ fs2[n + 1] = fs[n + 1] \o new
        /\ fs2 = [k \in 1..NFields |-> fs2[k]]
    <3> DEFINE new2 == fs[n + 1] \o new
    <3>1. fs2 = [fs EXCEPT ![n + 1] = new2]
      BY DEF new
    <3> HIDE DEF new2, fs2
    <3>2. /\ \A k \in 1..NFields : fs[k] = old(k)
          /\ \A k \in 1..NFields : k # n + 1 => fs2[k] = fs[k]
          /\ fs2[n + 1] = new2
          /\ fs2 = [k \in 1..NFields |-> fs2[k]]
      BY <2>1, <3>1
    <3> QED
      BY <3>2 DEF new2
  <2> QED
    BY <2>2 DEF new, old
<1>7. fs[n + 1] = <<>>
  <2>1. n + 1 \in 1..NFields /\ n + 2 \in (n + 1)..(NFields + 1) /\ (n + 1) + 1 = n + 2
    BY <1>2
  <2>2. fs[n + 1] = SubSeq(chars, o[n + 1] + 1, o[n + 2]) /\ o[n + 2] = q
    BY <1>1, <1>6, <2>1
  <2>3. SubSeq(chars, q + 1, q) = <<>>
    BY NothingBetween
  <2> QED
    BY <1>5, <2>2, <2>3
<1>8. <<>> \o SubSeq(chars, q + 1, r) = SubSeq(chars, q + 1, r)
  <2> DEFINE s == SubSeq(chars, q + 1, r)
  <2>1. s \in Seq(X)
    BY SubSeqFacts
  <2> HIDE DEF s
  <2>2. <<>> \o s = s
    BY <2>1
  <2> QED
    BY <2>2 DEF s
<1> HIDE DEF fs2, o2
<1>9. ASSUME NEW k \in 1..NFields
      PROVE  o2[k] <= o2[k + 1] /\ fs2[k] = SubSeq(chars, o2[k] + 1, o2[k + 1])
  <2>1. CASE k <= n
    <3>1. k \in 1..(n + 1) /\ k + 1 \in 1..(n + 1) /\ k # n + 1
      BY <1>2, <2>1
    <3>2. o2[k] = o[k] /\ o2[k + 1] = o[k + 1] /\ fs2[k] = fs[k]
      BY <1>4, <1>6, <3>1
    <3>3. o[k] <= o[k + 1] /\ fs[k] = SubSeq(chars, o[k] + 1, o[k + 1])
      BY <1>1, <1>6
    <3> QED
      BY <3>2, <3>3
  <2>2. CASE k = n + 1
    <3>1. k \in 1..(n + 1) /\ k + 1 \in (n + 2)..(NFields + 1)
      BY <1>2, <2>2
    <3>2. o2[k] = q /\ o2[k + 1] = r
      BY <1>4, <1>5, <2>2, <3>1
    <3>3. fs2[k] = SubSeq(chars, q + 1, r)
      BY <1>6, <1>7, <1>8, <2>2
    <3> QED
      BY <3>2, <3>3
  <2>3. CASE k > n + 1
    <3>1. /\ k \in (n + 2)..(NFields + 1) /\ k + 1 \in (n + 2)..(NFields + 1)
          /\ k \in (n + 1)..(NFields + 1) /\ k + 1 \in (n + 1)..(NFields + 1) /\ k # n + 1
      BY <1>2, <2>3
    <3>2. o2[k] = r /\ o2[k + 1] = r /\ o[k] = q /\ o[k + 1] = q /\ fs2[k] = fs[k]
      BY <1>1, <1>4, <1>6, <3>1
    <3>3. fs[k] = SubSeq(chars, o[k] + 1, o[k + 1])
      BY <1>6
    <3>4. SubSeq(chars, q + 1, q) = <<>> /\ SubSeq(chars, r + 1, r) = <<>>
      BY NothingBetween
    <3> QED
      BY <3>2, <3>3, <3>4
  <2> QED
    BY <1>2, <2>1, <2>2, <2>3
<1>10. \A k \in ((n + 1) + 1)..(NFields + 1) : o2[k] = r
  BY <1>2, <1>4
<1>11. fs2 = [k \in 1..NFields |-> SubSeq(chars, o2[k] + 1, o2[k + 1])]
  BY <1>6, <1>9
<1>12. Parts(fs2, n + 1, chars, r)
  BY <1>3, <1>9, <1>10, <1>11, Zenon DEF Parts
<1> QED
  BY <1>12 DEF fs2

\* Put together, the fields are one part of the characters.
LEMMA PartsTogether ==
    ASSUME NEW X, NEW chars \in Seq(X), NEW n, NEW q \in Nat, q <= Len(chars),
           NEW fs, Parts(fs, n, chars, q)
    PROVE  /\ fs \in Seq(Seq(X))
           /\ Len(fs) = NFields
           /\ \E a \in 1..(Len(chars) + 1), b \in 0..Len(chars) :
                 SubSeq(chars, a, b) = FlattenSeq(fs)
<1>1. PICK o \in [1..(NFields + 1) -> 0..q] :
          /\ \A k \in 1..NFields : o[k] <= o[k + 1]
          /\ fs = [k \in 1..NFields |-> SubSeq(chars, o[k] + 1, o[k + 1])]
  BY DEF Parts
<1>2. NFields \in Nat /\ Len(chars) \in Nat
  BY FieldsAssumption
<1>3. \A k \in 1..(NFields + 1) : o[k] \in Nat /\ o[k] <= Len(chars)
  BY <1>2
<1>4. \A k \in 1..NFields : fs[k] \in Seq(X)
  <2> SUFFICES ASSUME NEW k \in 1..NFields PROVE fs[k] \in Seq(X)
    OBVIOUS
  <2> DEFINE x == o[k]
             y == o[k + 1]
  <2>1. k \in 1..(NFields + 1) /\ k + 1 \in 1..(NFields + 1)
    BY <1>2
  <2>2. x \in Nat /\ y \in Nat /\ x <= y /\ y <= Len(chars) /\ fs[k] = SubSeq(chars, x + 1, y)
    BY <1>1, <1>3, <2>1
  <2> HIDE DEF x, y
  <2>3. SubSeq(chars, x + 1, y) \in Seq(X)
    BY <2>2, SubSeqFacts
  <2> QED
    BY <2>2, <2>3
<1>5. fs \in Seq(Seq(X)) /\ Len(fs) = NFields
  <2>1. fs \in [1..NFields -> Seq(X)]
    <3>1. fs = [k \in 1..NFields |-> fs[k]]
      BY <1>1, Zenon
    <3> QED
      BY <1>4, <3>1
  <2> QED
    BY <1>2, <2>1
<1>6. o \in [1..(NFields + 1) -> 0..Len(chars)]
  <2>1. \A k \in 1..(NFields + 1) : o[k] \in 0..Len(chars)
    BY <1>2, <1>3
  <2> QED
    BY <2>1
<1>7. FlattenSeq(fs) = SubSeq(chars, o[1] + 1, o[NFields + 1])
  BY <1>1, <1>2, <1>5, <1>6, FlattenParts
<1>8. o[1] + 1 \in 1..(Len(chars) + 1) /\ o[NFields + 1] \in 0..Len(chars)
  <2>1. 1 \in 1..(NFields + 1) /\ NFields + 1 \in 1..(NFields + 1)
    BY <1>2
  <2>2. o[1] \in 0..Len(chars) /\ o[NFields + 1] \in 0..Len(chars)
    BY <1>6, <2>1
  <2> QED
    BY <1>2, <2>2
<1> QED
  BY <1>5, <1>7, <1>8

-----------------------------------------------------------------------------
(* Reading lines *)

\* The bytes of the tracer that are in the buffer or have left it, those that
\* have left it, and those in front of what is read of the field being read
Got == IF pc = "append" THEN taken - Len(buf) ELSE taken
Gone == Got - end_pos
Place == Gone + Finished

Line == input[passed + 1]

\* The first n fields are those of the line, and the others are empty.
FirstFields(fs, n, line) == \A k \in 1..NFields : fs[k] = IF k <= n THEN line[k] ELSE <<>>

\* The thread has come to the c-th character of field f.  A line that is not
\* damaged has its fields one by one.
Inside(f, c) ==
    /\ Place = At(input, passed + 1, f, c)
    /\ Parts(fields, curr_field, FlattenSeq(Line), CharAt(Line, f, c))
    /\ ~hit => c = 0 /\ f = curr_field + 1 /\ FirstFields(fields, curr_field, Line)

InLine ==
    /\ passed < Len(input)
    /\ \E f \in 1..Len(Line) : \E c \in 0..Len(Line[f]) : Inside(f, c)

\* After the last line only the byte behind the data can be scanned.
AtEnd ==
    /\ passed = Len(input)
    /\ Place = Len(Wire)
    /\ pc = "scan" /\ i <= end_pos => ~hit /\ curr_field = 0

\* What is not read yet is in the buffer as it was sent.
Buffered ==
    /\ Got \in Nat /\ Gone \in Nat /\ taken <= Len(Wire)
    /\ pc = "append" => Len(buf) > 0 /\ \A b \in 1..Len(buf) : buf[b] = Wire[Got + b]
    /\ \A j \in Finished..(end_pos - 1) : string[j] = Wire[Gone + j + 1]
    /\ pc = "scan" => \A j \in lfield_start..(i - 1) : j < end_pos => string[j] \notin Separators

Reading == pc \in {"recv", "append", "scan"}

ReadInv ==
    /\ input \in Inputs
    /\ calls \in Seq(Seq(Seq(Plain)))
    /\ Reading => Buffered /\ (InLine \/ AtEnd)
    /\ WildOnlyWhen

ParserInv == CleanInv /\ ParserType /\ ReadInv

\* The numbers of the scan
LEMMA ScanNumbers ==
    ASSUME ParserInv, pc = "scan"
    PROVE  /\ i \in Nat /\ end_pos \in Nat /\ lfield_start \in Nat /\ size \in Nat /\ taken \in Nat
           /\ lfield_start <= i /\ i <= end_pos + 1 /\ end_pos < size
           /\ DOMAIN string = 0..(size - 1)
           /\ curr_field \in 0..NFields /\ NFields \in Nat /\ passed \in Nat
           /\ Got = taken /\ Gone = taken - end_pos /\ Gone \in Nat
           /\ Finished = IF lfield_start > end_pos THEN end_pos ELSE lfield_start
           /\ Place = Gone + Finished /\ taken <= Len(Wire) /\ Len(Wire) \in Nat
<1>1. CleanInv /\ ParserType /\ input \in Inputs /\ Buffered
  BY DEF ParserInv, ReadInv, Reading
<1>2. Len(Wire) \in Nat
  BY <1>1, WireEnds
<1>3. Got = taken /\ Gone = taken - end_pos
  BY DEF Got, Gone
<1> HIDE DEF Got, Gone
<1> QED
  BY <1>1, <1>2, <1>3, FieldsAssumption
     DEF CleanInv, BoundsInv, Numbers, ScanInBounds, ParserType, Buffered, Finished, Place

\* What lies between the place in the line and the byte to be scanned belongs to
\* the field being read, and sb_append is given just that.
LEMMA Piece ==
    ASSUME ParserInv, pc = "scan", i <= end_pos, passed < Len(input),
           NEW f \in 1..Len(Line), NEW c \in 0..Len(Line[f]), Inside(f, c)
    PROVE  LET d == i - lfield_start
               new == SubSeq(FlattenSeq(Line), CharAt(Line, f, c) + 1, CharAt(Line, f, c + d))
           IN  /\ Line \in Lines
               /\ d \in Nat /\ c + d <= Len(Line[f])
               /\ new = [k \in 1..d |-> Line[f][c + k]]
               /\ Completed = [fields EXCEPT ![curr_field + 1] = @ \o new]
               /\ Gone + i = At(input, passed + 1, f, c + d)
               /\ i < end_pos /\ string[i] \in Separators
                     => c + d = Len(Line[f]) /\ string[i] = EndOf(Line, f)
<1> DEFINE d == i - lfield_start
           p == At(input, passed + 1, f, 0)
           w == Wire
           n == Len(Line[f])
           end == EndOf(Line, f)
<1>1. /\ i \in Nat /\ end_pos \in Nat /\ lfield_start \in Nat
      /\ lfield_start <= i /\ Gone \in Nat
      /\ Place = Gone + lfield_start
      /\ Finished = lfield_start
      /\ passed \in Nat
  BY ScanNumbers
<1>2. /\ input \in Inputs /\ passed + 1 \in 1..Len(input)
      /\ \A j \in lfield_start..(end_pos - 1) : string[j] = w[Gone + j + 1]
      /\ \A j \in lfield_start..(i - 1) : j < end_pos => string[j] \notin Separators
  <2>1. input \in Inputs /\ Buffered
    BY DEF ParserInv, ReadInv, Reading
  <2>2. Len(input) \in Nat
    <3>1. input \in Seq(Lines)
      BY <2>1, InputIs
    <3> QED
      BY <3>1
  <2> QED
    BY <1>1, <2>1, <2>2 DEF Buffered
<1>3. Line \in Lines
  <2>1. input \in Seq(Lines)
    BY <1>2, InputIs
  <2> QED
    BY <1>2, <2>1 DEF Line
<1>4. Line[f] \in Seq(Plain) /\ n \in Nat /\ end \in Separators /\ c \in Nat /\ c <= n /\ f \in Nat
  BY <1>3 DEF Lines, EndOf, Separators
<1>5. Holds(w, p, Line[f], end)
  BY <1>2, FieldOnWire DEF Line
<1>6. p \in Nat
  BY <1>5 DEF Holds
<1>7. /\ At(input, passed + 1, f, c) = p + c
      /\ At(input, passed + 1, f, c + d) = p + (c + d)
  <2>1. c \in Nat /\ c + d \in Nat
    BY <1>1, <1>4
  <2> HIDE DEF d
  <2> QED
    BY <1>2, <2>1, CharOnWire DEF Line
<1>8. Gone + lfield_start = p + c
  BY <1>1, <1>7 DEF Inside
<1>9. d \in Nat /\ lfield_start + d = i
  BY <1>1
<1> HIDE DEF p, w, end, d, n
<1>10. \A e \in 1..d : /\ w[p + c + e] = string[lfield_start + e - 1]
                       /\ string[lfield_start + e - 1] \notin Separators
  <2> SUFFICES ASSUME NEW e \in 1..d
               PROVE  /\ w[p + c + e] = string[lfield_start + e - 1]
                      /\ string[lfield_start + e - 1] \notin Separators
    OBVIOUS
  <2> DEFINE j == lfield_start + e - 1
  <2>1. /\ j \in lfield_start..(end_pos - 1) /\ j \in lfield_start..(i - 1) /\ j < end_pos
        /\ Gone + j + 1 = p + c + e
    BY <1>1, <1>4, <1>6, <1>8, <1>9
  <2> HIDE DEF j
  <2>2. string[j] = w[Gone + j + 1] /\ string[j] \notin Separators
    BY <1>2, <2>1
  <2> QED
    BY <2>1, <2>2 DEF j
<1>11. /\ c + d <= n
       /\ \A e \in 1..d : w[p + c + e] = Line[f][c + e]
       /\ w[p + c + d + 1] \in Separators => c + d = n /\ w[p + c + d + 1] = end
  <2>1. NoSeparators(w, p + c, d)
    BY <1>10 DEF NoSeparators
  <2> DEFINE field == Line[f]
  <2>2. field \in Seq(Plain) /\ Holds(w, p, field, end) /\ c \in 0..Len(field)
    BY <1>4, <1>5
  <2> HIDE DEF field
  <2>3. GoesOn(w, p, field, end, c, d)
    BY <1>4, <1>9, <2>1, <2>2, ReadOn
  <2> QED
    BY <2>3 DEF field, n, GoesOn
<1>12. i < end_pos => string[i] = w[p + c + d + 1]
  <2> SUFFICES ASSUME i < end_pos PROVE string[i] = w[p + c + d + 1]
    OBVIOUS
  <2>1. i \in lfield_start..(end_pos - 1) /\ Gone + i + 1 = p + c + d + 1
    BY <1>1, <1>4, <1>6, <1>8, <1>9
  <2> QED
    BY <1>2, <2>1
<1> DEFINE new == SubSeq(FlattenSeq(Line), CharAt(Line, f, c) + 1, CharAt(Line, f, c + d))
<1>13. new = [k \in 1..d |-> Line[f][c + k]]
  <2>1. c + d <= Len(Line[f])
    BY <1>11 DEF n
  <2>2. CharFacts(Line, f, c, d)
    BY <1>3, <1>4, <1>9, <2>1, CharsOfLine
  <2> QED
    BY <2>2 DEF CharFacts, new
<1> HIDE DEF new
<1>14. \A e \in 1..d : string[lfield_start + e - 1] = Line[f][c + e]
  BY <1>10, <1>11
<1>15. \A e \in 1..d : Line[f][c + e] # Nul
  <2> SUFFICES ASSUME NEW e \in 1..d PROVE Line[f][c + e] # Nul
    OBVIOUS
  <2>1. c + e \in 1..n
    BY <1>4, <1>9, <1>11
  <2>2. Line[f][c + e] \in Plain
    BY <1>4, <2>1 DEF n
  <2> QED
    BY <2>2, PlainAssumption
<1>16. \A j \in lfield_start..(i - 1) : string[j] # Nul
  <2> SUFFICES ASSUME NEW j \in lfield_start..(i - 1) PROVE string[j] # Nul
    OBVIOUS
  <2> DEFINE e == j - lfield_start + 1
  <2>1. e \in 1..d /\ lfield_start + e - 1 = j
    BY <1>1, <1>9
  <2> HIDE DEF e
  <2> QED
    BY <1>14, <1>15, <2>1
<1>17. [k \in 1..(i - lfield_start) |-> string[lfield_start + k - 1]] = new
  <2>1. [k \in 1..(i - lfield_start) |-> string[lfield_start + k - 1]]
           = [k \in 1..d |-> string[lfield_start + k - 1]]
    BY DEF d
  <2>2. [k \in 1..d |-> string[lfield_start + k - 1]] = [k \in 1..d |-> Line[f][c + k]]
    BY <1>14
  <2> QED
    BY <1>13, <2>1, <2>2
<1>18. Completed = [fields EXCEPT ![curr_field + 1] = @ \o new]
  <2>1. Completed = [fields EXCEPT ![curr_field + 1] =
                        @ \o [k \in 1..(i - lfield_start) |-> string[lfield_start + k - 1]]]
    BY <1>1, <1>16, CompletedIs
  <2> QED
    BY <1>17, <2>1
<1>19. Gone + i = At(input, passed + 1, f, c + d)
  BY <1>1, <1>4, <1>6, <1>7, <1>8, <1>9
<1> QED
  BY <1>3, <1>9, <1>11, <1>12, <1>13, <1>18, <1>19 DEF new, n, end, d

\* A separator that is scanned ends the field being read.
LEMMA ScanSeparator ==
    ASSUME ParserInv, ScanNewline \/ ScanTab, pc' = "scan"
    PROVE  /\ pc = "scan" /\ i <= end_pos /\ string[i] \in Separators
           /\ UNCHANGED <<input, taken, end_pos, size>>
           /\ i' = i + 1 /\ lfield_start' = i + 1
           /\ \A j \in 0..(size - 1) : j # i => string'[j] = string[j]
           /\ Gone' = Gone /\ Place' = Gone + (IF Stale THEN end_pos ELSE i + 1)
           /\ Buffered'
<1>1. /\ pc = "scan" /\ i <= end_pos /\ string[i] \in Separators
      /\ UNCHANGED <<input, taken, end_pos, size>>
      /\ i' = i + 1 /\ lfield_start' = i + 1
      /\ string' = string \/ string' = Terminated
  BY DEF ScanNewline, ScanTab, Scanning, Separators
<1>2. /\ i \in Nat /\ end_pos \in Nat /\ taken \in Nat /\ Gone \in Nat /\ Got = taken
      /\ lfield_start \in Nat /\ lfield_start <= i /\ end_pos < size /\ size \in Nat
      /\ DOMAIN string = 0..(size - 1) /\ Gone = taken - end_pos /\ taken <= Len(Wire)
      /\ Finished = IF lfield_start > end_pos THEN end_pos ELSE lfield_start
  BY <1>1, ScanNumbers
<1>3. \A j \in 0..(size - 1) : j # i => string'[j] = string[j]
  BY <1>1, <1>2 DEF Terminated
<1>4. Got' = Got /\ Gone' = Gone /\ Wire' = Wire
  BY <1>1, <1>2 DEF Got, Gone, Wire
<1>5. Finished' = IF Stale THEN end_pos ELSE i + 1
  BY <1>1, <1>2 DEF Finished, Stale
<1>6. Place' = Gone + (IF Stale THEN end_pos ELSE i + 1)
  BY <1>4, <1>5 DEF Place
<1>7. \A j \in Finished..(end_pos - 1) : string[j] = Wire[Gone + j + 1]
  BY <1>1 DEF ParserInv, ReadInv, Reading, Buffered
<1>8. ASSUME NEW j \in Finished'..(end_pos' - 1) PROVE string'[j] = Wire'[Gone' + j + 1]
  <2>1. j \in Finished..(end_pos - 1) /\ j # i /\ j \in 0..(size - 1)
    BY <1>1, <1>2, <1>5 DEF Stale
  <2> QED
    BY <1>3, <1>4, <1>7, <2>1
<1>9. Buffered'
  <2>1. Got' \in Nat /\ Gone' \in Nat /\ taken' <= Len(Wire')
    BY <1>1, <1>2, <1>4
  <2>2. \A j \in (lfield_start')..(i' - 1) : FALSE
    BY <1>1, <1>2
  <2> QED
    BY <1>8, <2>1, <2>2 DEF Buffered
<1> QED
  BY <1>1, <1>3, <1>4, <1>6, <1>9

\* After the last line only the byte behind the data is left to be scanned.
LEMMA EndIsStale ==
    ASSUME ParserInv, pc = "scan", i <= end_pos, AtEnd
    PROVE  Stale /\ ~hit /\ curr_field = 0
<1>1. /\ i \in Nat /\ end_pos \in Nat /\ taken \in Nat /\ Gone \in Nat /\ lfield_start \in Nat
      /\ lfield_start <= i /\ Gone = taken - end_pos /\ taken <= Len(Wire) /\ Len(Wire) \in Nat
      /\ Place = Gone + Finished
      /\ Finished = IF lfield_start > end_pos THEN end_pos ELSE lfield_start
  BY ScanNumbers
<1>2. Place = Len(Wire) /\ ~hit /\ curr_field = 0
  BY DEF AtEnd
<1> HIDE DEF Place, Finished, Gone
<1>3. i = end_pos
  BY <1>1, <1>2
<1> QED
  BY <1>2, <1>3 DEF Stale

LEMMA SeparatorAtEnd ==
    ASSUME ParserInv, ScanNewline \/ ScanTab, pc' = "scan", AtEnd
    PROVE  AtEnd' /\ calls' = calls /\ passed' = passed /\ (ScanNewline => hit' = hit)
<1>1. /\ pc = "scan" /\ i <= end_pos
      /\ UNCHANGED <<input, taken, end_pos, size>>
      /\ i' = i + 1
      /\ Gone' = Gone /\ Place' = Gone + (IF Stale THEN end_pos ELSE i + 1)
  BY ScanSeparator
<1>2. Stale /\ ~hit /\ curr_field = 0
  BY <1>1, EndIsStale
<1>3. /\ i \in Nat /\ end_pos \in Nat /\ taken \in Nat /\ Gone \in Nat /\ lfield_start \in Nat
      /\ lfield_start <= i /\ Gone = taken - end_pos /\ taken <= Len(Wire) /\ Len(Wire) \in Nat
      /\ Place = Gone + Finished /\ NFields \in Nat
      /\ Finished = IF lfield_start > end_pos THEN end_pos ELSE lfield_start
  BY <1>1, ScanNumbers
<1>4. Place = Len(Wire) /\ passed = Len(input)
  BY DEF AtEnd
<1>5. Finished = end_pos
  <2> HIDE DEF Finished, Place, Gone
  <2> QED
    BY <1>3, <1>4
<1>6. curr_field # NFields - 1
  BY <1>2, FieldsAssumption
<1>7. passed' = passed /\ calls' = calls
  BY <1>2, <1>6 DEF ScanNewline, ScanTab
<1>8. ScanNewline => hit' = hit
  <2>1. ~(lfield_start < i)
    <3>1. lfield_start >= end_pos
      BY <1>3, <1>5
    <3> QED
      BY <1>2, <1>3, <3>1 DEF Stale
  <2>2. hit = FALSE
    BY <1>2 DEF ParserInv, CleanInv
  <2>3. ~(curr_field > 0)
    BY <1>2
  <2>4. ScanNewline => hit' = (Stale /\ (hit \/ curr_field > 0 \/ lfield_start < i))
    BY DEF ScanNewline
  <2> QED
    BY <2>1, <2>2, <2>3, <2>4, Zenon
<1>9. Place' = Len(Wire') /\ ~(i' <= end_pos') /\ passed' = Len(input')
  <2>1. Wire' = Wire
    BY <1>1 DEF Wire
  <2>2. Place' = Place
    <3>1. Place' = Gone + end_pos /\ Place = Gone + end_pos
      BY <1>1, <1>2, <1>3, <1>5
    <3> QED
      BY <3>1
  <2>3. ~(i' <= end_pos')
    BY <1>1, <1>2, <1>3 DEF Stale
  <2> QED
    BY <1>1, <1>4, <1>7, <2>1, <2>2, <2>3
<1> QED
  BY <1>7, <1>8, <1>9 DEF AtEnd

\* The line being read, and the characters of a field that ends now.
LEMMA PieceParts ==
    ASSUME ParserInv, pc = "scan", i <= end_pos, passed < Len(input), curr_field < NFields,
           NEW f \in 1..Len(Line), NEW c \in 0..Len(Line[f]), Inside(f, c)
    PROVE  LET r == CharAt(Line, f, c + (i - lfield_start))
           IN  /\ Parts(Completed, curr_field + 1, FlattenSeq(Line), r)
               /\ FlattenSeq(Line) \in Seq(Plain)
               /\ r \in Nat /\ r <= Len(FlattenSeq(Line))
               /\ c + (i - lfield_start) = Len(Line[f]) /\ f < Len(Line)
                     => r = CharAt(Line, f + 1, 0)
<1> DEFINE d == i - lfield_start
           chars == FlattenSeq(Line)
           q == CharAt(Line, f, c)
           r == CharAt(Line, f, c + d)
           new == SubSeq(chars, q + 1, r)
<1>1. /\ Line \in Lines
      /\ d \in Nat /\ c + d <= Len(Line[f])
      /\ Completed = [fields EXCEPT ![curr_field + 1] = @ \o new]
  BY Piece
<1>2. c \in Nat
  <2>1. Len(Line[f]) \in Nat
    BY <1>1 DEF Lines
  <2> QED
    BY <2>1
<1>3. Parts(fields, curr_field, chars, q)
  BY DEF Inside
<1>4. curr_field \in 0..(NFields - 1)
  <2>1. curr_field \in 0..NFields /\ NFields \in Nat
    BY ScanNumbers
  <2> QED
    BY <2>1
<1>5. CharFacts(Line, f, c, d)
  <2> HIDE DEF d
  <2> QED
    BY <1>1, <1>2, CharsOfLine
<1>6. /\ chars \in Seq(Plain) /\ q \in Nat /\ q + d = r /\ r <= Len(chars)
      /\ c + d = Len(Line[f]) /\ f < Len(Line) => CharAt(Line, f + 1, 0) = r
  BY <1>5 DEF CharFacts
<1> HIDE DEF d, chars, q, r
<1>7. r \in Nat /\ q <= r
  BY <1>1, <1>6
<1>8. Parts(Completed, curr_field + 1, chars, r)
  BY <1>1, <1>3, <1>4, <1>6, <1>7, PartsGrow
<1> QED
  BY <1>6, <1>7, <1>8 DEF d, chars, r

\* The line and the place that a separator leads to
LEMMA PlaceAfter ==
    ASSUME ParserInv, ScanNewline \/ ScanTab, pc' = "scan", passed < Len(input),
           NEW f \in 1..Len(Line), NEW c \in 0..Len(Line[f]), Inside(f, c)
    PROVE  LET d == i - lfield_start
           IN  /\ input' = input /\ passed \in Nat /\ Len(input) \in Nat
               /\ Line \in Lines /\ c + d \in 0..Len(Line[f])
               /\ Stale => Place' = At(input, passed + 1, f, c + d)
               /\ ~Stale => /\ c + d = Len(Line[f]) /\ string[i] = EndOf(Line, f)
                            /\ f < Len(Line) => Place' = At(input, passed + 1, f + 1, 0)
                            /\ f = Len(Line) => Place' = LineAt(input, passed + 2)
<1> DEFINE d == i - lfield_start
<1>1. /\ pc = "scan" /\ i <= end_pos /\ string[i] \in Separators
      /\ UNCHANGED <<input, taken, end_pos, size>>
      /\ Place' = Gone + (IF Stale THEN end_pos ELSE i + 1)
  BY ScanSeparator
<1>2. /\ i \in Nat /\ end_pos \in Nat /\ passed \in Nat /\ Gone \in Nat
  BY <1>1, ScanNumbers
<1>3. /\ Line \in Lines
      /\ d \in Nat /\ c + d <= Len(Line[f])
      /\ Gone + i = At(input, passed + 1, f, c + d)
      /\ i < end_pos => c + d = Len(Line[f]) /\ string[i] = EndOf(Line, f)
  BY <1>1, Piece
<1> HIDE DEF d
<1>4. c \in Nat /\ Len(Line[f]) \in Nat /\ Len(input) \in Nat
  <2>1. Len(Line[f]) \in Nat
    BY <1>3 DEF Lines
  <2>2. input \in Seq(Lines)
    BY InputIs DEF ParserInv, ReadInv
  <2> QED
    BY <2>1, <2>2
<1>5. c + d \in 0..Len(Line[f])
  BY <1>3, <1>4
<1>6. Stale => Place' = At(input, passed + 1, f, c + d)
  BY <1>1, <1>3 DEF Stale
<1>7. ASSUME ~Stale
      PROVE  /\ c + d = Len(Line[f]) /\ string[i] = EndOf(Line, f)
             /\ f < Len(Line) => Place' = At(input, passed + 1, f + 1, 0)
             /\ f = Len(Line) => Place' = LineAt(input, passed + 2)
  <2>1. i < end_pos /\ Place' = Gone + i + 1
    BY <1>1, <1>2, <1>7 DEF Stale
  <2> DEFINE l == passed + 1
             n == Len(Line[f])
  <2>2. c + d = n /\ string[i] = EndOf(Line, f)
    BY <1>3, <2>1
  <2>3. l \in 1..Len(input) /\ Line = input[l] /\ passed + 2 = l + 1
    BY <1>2, <1>4 DEF Line
  <2>4. input \in Inputs
    BY DEF ParserInv, ReadInv
  <2> HIDE DEF l
  <2>5. /\ At(input, l, f, 0) \in Nat
        /\ At(input, l, f, n) = At(input, l, f, 0) + n
    BY <1>4, <2>3, <2>4, CharOnWire
  <2>6. /\ f < Len(Line) => At(input, l, f + 1, 0) = At(input, l, f, 0) + n + 1
        /\ f = Len(Line) => LineAt(input, l + 1) = At(input, l, f, 0) + n + 1
    BY <2>3, <2>4, FieldOnWire
  <2>7. Gone + i = At(input, l, f, n)
    BY <1>3, <2>2 DEF l
  <2> HIDE DEF n
  <2>8. Place' = At(input, l, f, 0) + n + 1
    BY <2>1, <2>5, <2>7
  <2> QED
    BY <2>2, <2>3, <2>6, <2>8 DEF l, n
<1> QED
  BY <1>1, <1>2, <1>3, <1>4, <1>5, <1>6, <1>7 DEF d

\* A field more of a line that is not damaged
LEMMA FieldMore ==
    ASSUME NEW fs, DOMAIN fs = 1..NFields, NEW n \in 0..(NFields - 1), NEW line, NEW new,
           FirstFields(fs, n, line),
           line[n + 1] \in Seq(Plain), new = line[n + 1]
    PROVE  FirstFields([fs EXCEPT ![n + 1] = @ \o new], n + 1, line)
<1> USE DEF FirstFields
<1>1. n + 1 \in 1..NFields /\ n \in Nat /\ NFields \in Nat
  BY FieldsAssumption
<1>2. fs[n + 1] = <<>>
  BY <1>1
<1>3. <<>> \o new = new
  <2>1. new \in Seq(Plain)
    OBVIOUS
  <2> QED
    BY <2>1
<1> DEFINE x == fs[n + 1] \o new
           fs2 == [fs EXCEPT ![n + 1] = x]
<1>4. x = line[n + 1]
  BY <1>2, <1>3
<1> HIDE DEF x
<1>5. \A k \in 1..NFields : fs2[k] = IF k = n + 1 THEN x ELSE fs[k]
  BY <1>1
<1> HIDE DEF fs2
<1>6. \A k \in 1..NFields : fs2[k] = IF k <= n + 1 THEN line[k] ELSE <<>>
  BY <1>1, <1>4, <1>5
<1> QED
  BY <1>6 DEF fs2, x

\* What the piece of a line that is not damaged is.
LEMMA PieceWhole ==
    ASSUME ParserInv, pc = "scan", i <= end_pos, passed < Len(input), curr_field < NFields,
           NEW f \in 1..Len(Line), NEW c \in 0..Len(Line[f]), Inside(f, c), ~hit,
           c + (i - lfield_start) = Len(Line[f])
    PROVE  /\ c = 0 /\ f = curr_field + 1
           /\ FirstFields(Completed, curr_field + 1, Line)
<1> DEFINE d == i - lfield_start
           new == SubSeq(FlattenSeq(Line), CharAt(Line, f, c) + 1, CharAt(Line, f, c + d))
<1>1. /\ Line \in Lines
      /\ d \in Nat
      /\ new = [k \in 1..d |-> Line[f][c + k]]
      /\ Completed = [fields EXCEPT ![curr_field + 1] = @ \o new]
  BY Piece
<1> HIDE DEF new
<1>2. c = 0 /\ f = curr_field + 1 /\ FirstFields(fields, curr_field, Line)
  BY DEF Inside
<1>3. Line[f] \in Seq(Plain)
  BY <1>1 DEF Lines
<1>4. new = Line[f]
  <2>1. d = Len(Line[f])
    BY <1>1, <1>2
  <2> HIDE DEF d
  <2>2. new = [k \in 1..d |-> Line[f][k]]
    BY <1>1, <1>2
  <2> DEFINE field == Line[f]
  <2>3. field \in Seq(Plain) /\ d = Len(field) /\ new = [k \in 1..d |-> field[k]]
    BY <1>3, <2>1, <2>2
  <2> HIDE DEF field
  <2>4. new = field
    BY <2>3
  <2> QED
    BY <2>4 DEF field
<1>5. DOMAIN fields = 1..NFields /\ curr_field \in 0..(NFields - 1)
  <2>1. curr_field \in 0..NFields /\ NFields \in Nat
    BY ScanNumbers
  <2> QED
    BY <2>1 DEF ParserInv, ParserType
<1>6. Line[curr_field + 1] \in Seq(Plain) /\ new = Line[curr_field + 1]
  BY <1>2, <1>3, <1>4
<1>7. FirstFields([fields EXCEPT ![curr_field + 1] = @ \o new], curr_field + 1, Line)
  BY <1>2, <1>5, <1>6, FieldMore
<1> QED
  BY <1>1, <1>2, <1>7

LEMMA TabInLine ==
    ASSUME ParserInv, ScanTab, pc' = "scan", InLine
    PROVE  InLine'
<1>1. /\ pc = "scan" /\ i <= end_pos
      /\ input' = input /\ passed' = passed /\ Line' = Line
      /\ curr_field < NFields /\ fields' = Completed /\ curr_field' = curr_field + 1
      /\ string[i] = Tab
      /\ hit' = (hit \/ Stale)
  BY DEF ScanTab, Scanning, Line
<1>0. PICK f \in 1..Len(Line) : \E c \in 0..Len(Line[f]) : Inside(f, c)
  BY DEF InLine
<1>2. PICK c \in 0..Len(Line[f]) : Inside(f, c)
  BY <1>0
<1>3. passed < Len(input)
  BY DEF InLine
<1> DEFINE d == i - lfield_start
           chars == FlattenSeq(Line)
           r == CharAt(Line, f, c + d)
<1>4. /\ Line \in Lines /\ c + d \in 0..Len(Line[f])
      /\ Stale => Place' = At(input, passed + 1, f, c + d)
      /\ ~Stale => /\ c + d = Len(Line[f]) /\ string[i] = EndOf(Line, f)
                   /\ f < Len(Line) => Place' = At(input, passed + 1, f + 1, 0)
  BY <1>2, <1>3, PlaceAfter
<1>5. /\ Parts(Completed, curr_field + 1, chars, r)
      /\ c + d = Len(Line[f]) /\ f < Len(Line) => r = CharAt(Line, f + 1, 0)
  BY <1>1, <1>2, <1>3, PieceParts
<1>6. CASE Stale
  <2>1. hit'
    BY <1>1, <1>6
  <2>2. PICK g \in 0..Len(Line[f]) : g = c + d
    BY <1>4
  <2>3. /\ Place' = At(input, passed + 1, f, g)
        /\ Parts(Completed, curr_field + 1, chars, CharAt(Line, f, g))
    BY <1>4, <1>5, <1>6, <2>2
  <2> HIDE DEF chars, r
  <2>4. Inside(f, g)'
    BY <1>1, <2>1, <2>3 DEF Inside, chars
  <2> QED
    BY <1>1, <1>3, <2>4 DEF InLine
<1>7. CASE ~Stale
  <2>1. f \in Nat /\ Len(Line) \in Nat
    BY <1>4 DEF Lines
  <2>2. f < Len(Line)
    BY <1>1, <1>4, <1>7, <2>1, CharsAssumption DEF EndOf
  <2>3. Place' = At(input, passed + 1, f + 1, 0) /\ r = CharAt(Line, f + 1, 0)
    BY <1>4, <1>5, <1>7, <2>2
  <2>4. ASSUME ~hit'
        PROVE  f + 1 = curr_field' + 1 /\ FirstFields(fields', curr_field', Line)
    <3>1. ~hit
      BY <1>1, <2>4
    <3>2. c + d = Len(Line[f])
      BY <1>4, <1>7
    <3>3. f = curr_field + 1 /\ FirstFields(Completed, curr_field + 1, Line)
      BY <1>1, <1>2, <1>3, <3>1, <3>2, PieceWhole
    <3> QED
      BY <1>1, <3>3
  <2> HIDE DEF d, chars, r
  <2>5. Inside(f + 1, 0)'
    BY <1>1, <1>5, <2>3, <2>4 DEF Inside, chars
  <2>6. f + 1 \in 1..Len(Line) /\ 0 \in 0..Len(Line[f + 1])
    <3>1. f + 1 \in 1..Len(Line)
      BY <2>1, <2>2
    <3>2. Line[f + 1] \in Seq(Plain)
      BY <1>4, <3>1 DEF Lines
    <3> QED
      BY <3>1, <3>2
  <2> QED
    BY <1>1, <1>3, <2>5, <2>6 DEF InLine
<1> QED
  BY <1>6, <1>7

LEMMA NewlineInLine ==
    ASSUME ParserInv, ScanNewline, InLine
    PROVE  (InLine \/ AtEnd)'
<1>1. /\ pc = "scan" /\ pc' = "scan" /\ i <= end_pos
      /\ input' = input
      /\ fields' = NoFields /\ curr_field' = 0
      /\ string[i] = NewLine
      /\ passed' = IF Stale THEN passed ELSE passed + 1
      /\ hit' = (Stale /\ (hit \/ curr_field > 0 \/ lfield_start < i))
  BY DEF ScanNewline, Scanning, FieldOfNextLine
<1>0. PICK f \in 1..Len(Line) : \E c \in 0..Len(Line[f]) : Inside(f, c)
  BY DEF InLine
<1>2. PICK c \in 0..Len(Line[f]) : Inside(f, c)
  BY <1>0
<1>3. passed < Len(input)
  BY DEF InLine
<1> DEFINE d == i - lfield_start
<1>4. /\ Line \in Lines /\ c + d \in 0..Len(Line[f]) /\ passed \in Nat /\ Len(input) \in Nat
      /\ Stale => Place' = At(input, passed + 1, f, c + d)
      /\ ~Stale => /\ string[i] = EndOf(Line, f)
                   /\ f = Len(Line) => Place' = LineAt(input, passed + 2)
  BY <1>1, <1>2, <1>3, PlaceAfter
<1>5. CASE Stale
  <2>1. PICK g \in 0..Len(Line[f]) : g = c + d
    BY <1>4
  <2>2. /\ passed' = passed /\ Line' = Line
        /\ Place' = At(input, passed + 1, f, g)
    BY <1>1, <1>4, <1>5, <2>1 DEF Line
  <2>3. Parts(NoFields, 0, FlattenSeq(Line), CharAt(Line, f, g))
    <3>1. g \in Nat /\ g + 0 <= Len(Line[f])
      <4>1. Len(Line[f]) \in Nat
        BY <1>4 DEF Lines
      <4> QED
        BY <4>1
    <3>2. CharFacts(Line, f, g, 0)
      BY <1>4, <3>1, CharsOfLine
    <3>3. CharAt(Line, f, g) \in Nat
      BY <3>2 DEF CharFacts
    <3> QED
      BY <3>3, PartsNone
  <2>4. ASSUME ~hit' PROVE g = 0 /\ f = 0 + 1 /\ FirstFields(NoFields, 0, Line)
    <3>1. ~hit /\ ~(curr_field > 0) /\ ~(lfield_start < i)
      BY <1>1, <1>5, <2>4
    <3>2. c = 0 /\ f = curr_field + 1
      BY <1>2, <3>1 DEF Inside
    <3>3. /\ curr_field \in 0..NFields /\ NFields \in Nat
          /\ lfield_start \in Nat /\ i \in Nat /\ lfield_start <= i
      BY <1>1, ScanNumbers
    <3>4. curr_field = 0 /\ d = 0
      BY <3>1, <3>3
    <3>5. FirstFields(NoFields, 0, Line)
      BY DEF FirstFields, NoFields
    <3> QED
      BY <2>1, <3>2, <3>4, <3>5
  <2>5. Inside(f, g)'
    BY <1>1, <2>2, <2>3, <2>4 DEF Inside
  <2> QED
    BY <1>1, <1>3, <2>2, <2>5 DEF InLine
<1>6. CASE ~Stale
  <2>1. f \in Nat /\ Len(Line) \in Nat
    BY <1>4 DEF Lines
  <2>2. f = Len(Line)
    BY <1>1, <1>4, <1>6, CharsAssumption DEF EndOf
  <2>3. Place' = LineAt(input, passed + 2) /\ passed' = passed + 1 /\ hit' = FALSE
    BY <1>1, <1>4, <1>6, <2>2
  <2>4. input \in Inputs
    BY DEF ParserInv, ReadInv
  <2>5. CASE passed + 1 < Len(input)
    <3> DEFINE l == passed + 2
    <3>1. l \in 1..Len(input) /\ passed' + 1 = l /\ passed' < Len(input')
      BY <1>1, <1>4, <2>3, <2>5
    <3>2. Line' = input[l]
      BY <1>1, <3>1 DEF Line
    <3> HIDE DEF l
    <3> DEFINE line == input[l]
    <3>3. line \in Lines
      BY <2>4, <3>1, InputIs
    <3>4. 1 \in 1..Len(line) /\ 0 \in 0..Len(line[1]) /\ 0 + 0 <= Len(line[1])
      <4>1. 1 \in 1..Len(line)
        BY <3>3 DEF Lines
      <4>2. line[1] \in Seq(Plain)
        BY <3>3, <4>1 DEF Lines
      <4> HIDE DEF line
      <4> QED
        BY <4>1, <4>2
    <3>5. At(input, l, 1, 0) = LineAt(input, l)
      BY <2>4, <3>1, <3>4, FieldOnWire
    <3> HIDE DEF line
    <3>6. CharFacts(line, 1, 0, 0)
      BY <3>3, <3>4, CharsOfLine
    <3>7. Parts(NoFields, 0, FlattenSeq(line), CharAt(line, 1, 0))
      <4>1. CharAt(line, 1, 0) \in Nat
        BY <3>6 DEF CharFacts
      <4> QED
        BY <4>1, PartsNone
    <3>8. FirstFields(NoFields, 0, line)
      BY DEF FirstFields, NoFields
    <3>9. Line' = line /\ Place' = At(input, l, 1, 0)
      BY <2>3, <3>2, <3>5 DEF line, l
    <3>10. Inside(1, 0)'
      BY <1>1, <3>1, <3>7, <3>8, <3>9 DEF Inside
    <3> QED
      BY <3>1, <3>4, <3>9, <3>10 DEF InLine
  <2>6. CASE ~(passed + 1 < Len(input))
    <3>1. passed + 1 = Len(input) /\ passed + 2 = Len(input) + 1
      BY <1>3, <1>4, <2>6
    <3>2. LineAt(input, Len(input) + 1) = Len(Wire)
      BY <2>4, WireEnds
    <3>3. Wire' = Wire
      BY <1>1 DEF Wire
    <3> QED
      BY <1>1, <2>3, <3>1, <3>2, <3>3 DEF AtEnd
  <2> QED
    BY <2>5, <2>6
<1> QED
  BY <1>5, <1>6

\* A call is made of the characters that a line has side by side.
PartOf(part, line) ==
    LET c == FlattenSeq(line)
    IN  \E a \in 1..(Len(c) + 1), b \in 0..Len(c) : SubSeq(c, a, b) = FlattenSeq(part)

IsCall(line) == Len(line) = NFields /\ Dot \in ToSet(line[1])

\* What the end of a line makes of it: if it is not damaged, its fields.
LEMMA NewlineReads ==
    ASSUME ParserInv, ScanNewline, InLine
    PROVE  /\ \/ calls' = calls
              \/ /\ calls' = Append(calls, Completed)
                 /\ Completed \in Seq(Seq(Plain))
                 /\ IsCall(Completed) /\ PartOf(Completed, Line)
           /\ ~Stale /\ ~hit
                => calls' = IF IsCall(Line) THEN Append(calls, Line) ELSE calls
<1>1. /\ pc = "scan" /\ pc' = "scan" /\ i <= end_pos
      /\ string[i] = NewLine
      /\ calls' = IF curr_field = NFields - 1 /\ Aligned(Completed)
                  THEN Append(calls, Completed) ELSE calls
  BY DEF ScanNewline, Scanning
<1>0. PICK f \in 1..Len(Line) : \E c \in 0..Len(Line[f]) : Inside(f, c)
  BY DEF InLine
<1>2. PICK c \in 0..Len(Line[f]) : Inside(f, c)
  BY <1>0
<1>3. passed < Len(input)
  BY DEF InLine
<1>4. NFields \in Nat /\ curr_field \in 0..NFields
  BY <1>1, ScanNumbers
<1>5. ASSUME curr_field = NFields - 1
      PROVE  /\ Completed \in Seq(Seq(Plain)) /\ Len(Completed) = NFields
             /\ PartOf(Completed, Line)
  <2> DEFINE chars == FlattenSeq(Line)
             r == CharAt(Line, f, c + (i - lfield_start))
             n == curr_field + 1
  <2>1. curr_field < NFields
    BY <1>4, <1>5
  <2>2. /\ Parts(Completed, n, chars, r)
        /\ chars \in Seq(Plain)
        /\ r \in Nat /\ r <= Len(chars)
    BY <1>1, <1>2, <1>3, <2>1, PieceParts
  <2> HIDE DEF chars, r, n
  <2>3. /\ Completed \in Seq(Seq(Plain))
        /\ Len(Completed) = NFields
        /\ \E a \in 1..(Len(chars) + 1), b \in 0..Len(chars) :
              SubSeq(chars, a, b) = FlattenSeq(Completed)
    BY <2>2, PartsTogether
  <2> QED
    BY <2>3 DEF PartOf, chars
<1>6. \/ calls' = calls
      \/ /\ calls' = Append(calls, Completed)
         /\ Completed \in Seq(Seq(Plain))
         /\ IsCall(Completed) /\ PartOf(Completed, Line)
  BY <1>1, <1>5 DEF IsCall, Aligned
<1>7. ASSUME ~Stale, ~hit
      PROVE  calls' = IF IsCall(Line) THEN Append(calls, Line) ELSE calls
  <2>1. /\ Line \in Lines
        /\ c + (i - lfield_start) = Len(Line[f]) /\ string[i] = EndOf(Line, f)
    BY <1>1, <1>2, <1>3, <1>7, PlaceAfter
  <2>2. f = Len(Line) /\ Len(Line) \in Nat
    BY <1>1, <2>1, CharsAssumption DEF EndOf, Lines
  <2>3. f = curr_field + 1
    BY <1>2, <1>7 DEF Inside
  <2>4. CASE curr_field = NFields - 1
    <3>1. curr_field < NFields
      BY <1>4, <2>4
    <3>2. FirstFields(Completed, curr_field + 1, Line)
      BY <1>1, <1>2, <1>3, <1>7, <2>1, <3>1, PieceWhole
    <3>3. Len(Line) = NFields
      BY <1>4, <2>2, <2>3, <2>4
    <3>4. Completed \in Seq(Seq(Plain)) /\ Len(Completed) = NFields
      BY <1>5, <2>4
    <3>5. \A k \in 1..NFields : Completed[k] = Line[k]
      BY <1>4, <2>4, <3>2 DEF FirstFields
    <3>6. Completed = Line
      <4>1. Line \in Seq(Seq(Plain))
        BY <2>1 DEF Lines
      <4> DEFINE p == Completed
                 q == Line
                 X == Seq(Plain)
      <4>2. p \in Seq(X) /\ q \in Seq(X) /\ Len(p) = Len(q) /\ \A k \in 1..Len(p) : p[k] = q[k]
        BY <3>3, <3>4, <3>5, <4>1
      <4> HIDE DEF p, q, X
      <4>3. p = q
        BY <4>2, SameSeq
      <4> QED
        BY <4>3 DEF p, q
    <3> QED
      BY <1>1, <2>4, <3>3, <3>6 DEF IsCall, Aligned
  <2>5. CASE curr_field # NFields - 1
    <3>1. Len(Line) # NFields
      BY <1>4, <2>2, <2>3, <2>5
    <3> QED
      BY <1>1, <2>5, <3>1 DEF IsCall
  <2> QED
    BY <2>4, <2>5
<1> QED
  BY <1>6, <1>7

-----------------------------------------------------------------------------
(* Receiving and the rest of the scan *)

\* Where no separator is scanned, the place stays what it is.
LEMMA PlaceStays ==
    ASSUME InLine \/ AtEnd,
           UNCHANGED <<input, fields, curr_field, passed, hit>>, Place' = Place,
           (pc' = "scan" /\ i' <= end_pos') => (InLine \/ (pc = "scan" /\ i <= end_pos))
    PROVE  (InLine \/ AtEnd)'
<1>1. Line' = Line /\ Wire' = Wire
  BY DEF Line, Wire
<1>2. CASE InLine
  <2>1. PICK f \in 1..Len(Line) : \E c \in 0..Len(Line[f]) : Inside(f, c)
    BY <1>2 DEF InLine
  <2>2. PICK c \in 0..Len(Line[f]) : Inside(f, c)
    BY <2>1
  <2>3. Inside(f, c)'
    BY <1>1, <2>2 DEF Inside
  <2>4. passed < Len(input)
    BY <1>2 DEF InLine
  <2> QED
    BY <1>1, <2>3, <2>4 DEF InLine
<1>3. CASE AtEnd /\ ~InLine
  <2>1. passed = Len(input) /\ Place = Len(Wire)
    BY <1>3 DEF AtEnd
  <2>2. pc' = "scan" /\ i' <= end_pos' => ~hit' /\ curr_field' = 0
    BY <1>3 DEF AtEnd
  <2> QED
    BY <1>1, <2>1, <2>2 DEF AtEnd
<1> QED
  BY <1>2, <1>3

\* A piece is what follows on the wire.
LEMMA PieceIs ==
    ASSUME NEW n \in 1..ChunkSize, Recv(n)
    PROVE  Len(buf') = n /\ \A b \in 1..n : buf'[b] = Wire[taken + b]
<1> DEFINE w == Wire
           piece(t) == [b \in 1..n |-> w[t + b]]
<1>1. buf' = piece(taken) /\ n \in Nat
  BY BufferAssumption DEF Recv
<1>2. ASSUME NEW t PROVE Len(piece(t)) = n /\ \A b \in 1..n : piece(t)[b] = w[t + b]
  <2> HIDE DEF w
  <2> QED
    BY <1>1
<1>3. Len(piece(taken)) = n /\ \A b \in 1..n : piece(taken)[b] = w[taken + b]
  BY <1>2
<1> HIDE DEF piece
<1> QED
  BY <1>1, <1>3

\* After the last line no piece can follow.
LEMMA NoPieceAtEnd ==
    ASSUME ParserInv, pc = "recv" \/ pc = "append", AtEnd
    PROVE  pc = "recv" /\ taken = Len(Wire)
<1>1. CleanInv /\ ParserType /\ Buffered /\ input \in Inputs
  BY DEF ParserInv, ReadInv, Reading
<1>2. Len(Wire) \in Nat
  BY <1>1, WireEnds
<1>3. /\ taken \in Nat /\ end_pos \in Nat /\ Len(buf) \in Nat /\ lfield_start \in Nat
      /\ taken <= Len(Wire) /\ (pc = "append" => Len(buf) > 0)
  BY <1>1 DEF CleanInv, BoundsInv, Numbers, ParserType, Buffered
<1>4. Got - end_pos + Finished = Len(Wire) /\ Got = IF pc = "append" THEN taken - Len(buf) ELSE taken
  BY DEF AtEnd, Place, Gone, Got
<1>5. Finished <= end_pos /\ Finished \in Nat
  BY <1>3 DEF Finished
<1> HIDE DEF Got, Finished
<1> QED
  BY <1>2, <1>3, <1>4, <1>5

LEMMA ReceivingKeeps ==
    ASSUME ParserInv, Reading,
           (\E n \in 1..ChunkSize : Recv(n)) \/ Grow \/ Copy \/ ScanOther \/ DeleteHead
    PROVE  Buffered' /\ (InLine \/ AtEnd)'
<1>1. /\ CleanInv /\ ParserType /\ input \in Inputs
      /\ Buffered /\ (InLine \/ AtEnd)
  BY DEF ParserInv, ReadInv
<1>2. /\ taken \in Nat /\ end_pos \in Nat /\ Len(buf) \in Nat /\ lfield_start \in Nat
      /\ i \in Nat /\ size \in Nat /\ end_pos < size
      /\ Got \in Nat /\ Gone \in Nat /\ taken <= Len(Wire) /\ Len(Wire) \in Nat
      /\ pc \in {"recv", "append"} => lfield_start = 0
      /\ DOMAIN string = 0..(size - 1)
  BY <1>1, WireEnds
     DEF CleanInv, BoundsInv, Numbers, ScanInBounds, FieldAtHead, ParserType, Buffered
<1>3. \A j \in Finished..(end_pos - 1) : string[j] = Wire[Gone + j + 1]
  BY <1>1 DEF Buffered
<1>4. Finished = IF lfield_start > end_pos THEN end_pos ELSE lfield_start
  BY DEF Finished
<1>5. ASSUME NEW n \in 1..ChunkSize, Recv(n) PROVE Buffered' /\ (InLine \/ AtEnd)'
  <2>1. /\ pc = "recv" /\ pc' = "append" /\ taken' = taken + n /\ taken + n <= Len(Wire)
        /\ UNCHANGED <<input, string, size, end_pos, i, curr_field, lfield_start, fields, passed, hit>>
        /\ Wire' = Wire /\ n \in Nat /\ n > 0
    BY <1>5, BufferAssumption DEF Recv, sbuf, parse, history, Wire
  <2>2. Len(buf') = n /\ \A b \in 1..n : buf'[b] = Wire[taken + b]
    BY <1>5, PieceIs
  <2>3. Got = taken /\ Got' = taken /\ Gone' = Gone /\ Finished' = Finished /\ Place' = Place
    <3>1. Got = taken /\ Got' = taken' - Len(buf') /\ Finished' = Finished
      BY <2>1 DEF Got, Finished
    <3>2. Got' = taken
      BY <1>2, <2>1, <2>2, <3>1
    <3> QED
      BY <2>1, <3>1, <3>2 DEF Gone, Place
  <2>4. Buffered'
    <3>1. Got' \in Nat /\ Gone' \in Nat /\ taken' <= Len(Wire') /\ Len(buf') > 0
      BY <1>2, <2>1, <2>2, <2>3
    <3>2. \A b \in 1..Len(buf') : buf'[b] = Wire'[Got' + b]
      BY <2>1, <2>2, <2>3
    <3>3. \A j \in Finished'..(end_pos' - 1) : string'[j] = Wire'[Gone' + j + 1]
      BY <1>3, <2>1, <2>3
    <3> QED
      BY <2>1, <3>1, <3>2, <3>3 DEF Buffered
  <2> QED
    BY <1>1, <2>1, <2>3, <2>4, PlaceStays
<1>6. CASE Grow
  <2>1. /\ pc = "append" /\ pc' = "append" /\ size' = 2 * size
        /\ UNCHANGED <<input, taken, buf, end_pos, i, curr_field, lfield_start, fields, passed, hit>>
        /\ Wire' = Wire
    BY <1>6 DEF Grow, parse, history, Wire
  <2>2. \A j \in 0..(size - 1) : string'[j] = string[j]
    <3>1. \E fresh : string' = [j \in 0..(2 * size - 1) |-> IF j < size THEN string[j] ELSE fresh[j]]
      BY <1>6 DEF Grow
    <3>2. \A j \in 0..(size - 1) : j \in 0..(2 * size - 1) /\ j < size
      BY <1>2
    <3> QED
      BY <3>1, <3>2
  <2>3. Got' = Got /\ Gone' = Gone /\ Finished' = Finished /\ Place' = Place
    BY <2>1 DEF Got, Gone, Finished, Place
  <2>4. \A j \in Finished'..(end_pos' - 1) : string'[j] = Wire'[Gone' + j + 1]
    <3>1. \A j \in Finished..(end_pos - 1) : j \in 0..(size - 1)
      BY <1>2, <1>4
    <3> QED
      BY <1>3, <2>1, <2>2, <2>3, <3>1
  <2>5. Len(buf) > 0 /\ \A b \in 1..Len(buf) : buf[b] = Wire[Got + b]
    BY <1>1, <2>1 DEF Buffered
  <2>6. Buffered'
    BY <1>2, <2>1, <2>3, <2>4, <2>5 DEF Buffered
  <2> QED
    BY <1>1, <2>1, <2>3, <2>6, PlaceStays
<1>7. CASE Copy
  <2>1. /\ pc = "append" /\ pc' = "scan" /\ end_pos' = end_pos + Len(buf) /\ i' = 0
        /\ UNCHANGED <<input, taken, buf, size, curr_field, lfield_start, fields, passed, hit>>
        /\ end_pos + Len(buf) < size
        /\ Wire' = Wire
    BY <1>7 DEF Copy, Fits, history, Wire
  <2>2. string' = [j \in DOMAIN string |->
                      IF j \in end_pos..(end_pos + Len(buf) - 1) THEN buf[j - end_pos + 1]
                                                                ELSE string[j]]
    BY <1>7 DEF Copy
  <2>3. Got = taken - Len(buf) /\ Got' = taken /\ lfield_start = 0 /\ Finished = 0 /\ Finished' = 0
    BY <1>2, <1>4, <2>1 DEF Got, Finished
  <2>4. Gone' = Gone /\ Place' = Place
    <3>1. Gone = Got - end_pos /\ Gone' = Got' - end_pos'
      BY DEF Gone
    <3>2. Gone' = Gone
      <4> HIDE DEF Gone, Got
      <4> QED
        BY <1>2, <2>1, <2>3, <3>1
    <3> QED
      BY <2>3, <3>2 DEF Place
  <2>5. Len(buf) > 0 /\ \A b \in 1..Len(buf) : buf[b] = Wire[Got + b]
    BY <1>1, <2>1 DEF Buffered
  <2>6. ASSUME NEW j \in 0..(end_pos + Len(buf) - 1) PROVE string'[j] = Wire[Gone + j + 1]
    <3>1. j \in DOMAIN string
      BY <1>2, <2>1
    <3>2. CASE j < end_pos
      <4>1. string'[j] = string[j] /\ j \in Finished..(end_pos - 1)
        BY <1>2, <2>2, <2>3, <3>1, <3>2
      <4> QED
        BY <1>3, <4>1
    <3>3. CASE ~(j < end_pos)
      <4> DEFINE b == j - end_pos + 1
      <4>1. j \in end_pos..(end_pos + Len(buf) - 1) /\ b \in 1..Len(buf)
        BY <1>2, <3>3
      <4>2. string'[j] = buf[b]
        BY <2>2, <3>1, <4>1
      <4>3. Got + b = Gone + j + 1
        <5>1. Got = Gone + end_pos
          BY <1>2 DEF Gone
        <5> HIDE DEF Got, Gone
        <5> QED
          BY <1>2, <5>1
      <4> HIDE DEF b
      <4> QED
        BY <2>5, <4>1, <4>2, <4>3
    <3> QED
      BY <3>2, <3>3
  <2>7. Buffered'
    <3>1. Got' \in Nat /\ Gone' \in Nat /\ taken' <= Len(Wire')
      BY <1>2, <2>1, <2>3, <2>4
    <3>2. \A j \in Finished'..(end_pos' - 1) : string'[j] = Wire'[Gone' + j + 1]
      <4>1. Finished' = 0 /\ end_pos' = end_pos + Len(buf) /\ Gone' = Gone /\ Wire' = Wire
        BY <2>1, <2>3, <2>4
      <4>2. \A j \in 0..(end_pos + Len(buf) - 1) : string'[j] = Wire[Gone + j + 1]
        BY <2>6
      <4>3. ASSUME NEW m, m = 0, NEW n, n = end_pos + Len(buf)
            PROVE  m..(n - 1) = 0..(end_pos + Len(buf) - 1)
        <5>1. end_pos \in Nat /\ Len(buf) \in Nat
          BY <1>2
        <5> QED
          BY <4>3, <5>1
      <4>4. Finished'..(end_pos' - 1) = 0..(end_pos + Len(buf) - 1)
        BY <4>1, <4>3
      <4> QED
        BY <4>1, <4>2, <4>4
    <3>3. lfield_start' = 0 /\ i' = 0
      BY <2>1, <2>3
    <3>4. \A j \in (lfield_start')..(i' - 1) : FALSE
      BY <3>3
    <3> QED
      BY <2>1, <3>1, <3>2, <3>4 DEF Buffered
  <2>8. InLine
    BY <1>1, <2>1, NoPieceAtEnd
  <2> QED
    BY <2>1, <2>4, <2>7, <2>8, PlaceStays
<1>8. CASE ScanOther
  <2>1. /\ pc = "scan" /\ pc' = "scan" /\ i <= end_pos /\ i' = i + 1 /\ string[i] \notin Separators
        /\ UNCHANGED <<input, taken, buf, string, size, end_pos, curr_field, lfield_start, fields,
                       passed, hit>>
        /\ Wire' = Wire
    BY <1>8 DEF ScanOther, Separators, sbuf, history, Wire
  <2>2. Got' = Got /\ Gone' = Gone /\ Finished' = Finished /\ Place' = Place
    BY <2>1 DEF Got, Gone, Finished, Place
  <2>3. \A j \in lfield_start..(i - 1) : j < end_pos => string[j] \notin Separators
    BY <1>1, <2>1 DEF Buffered
  <2>4. \A j \in (lfield_start')..(i' - 1) : j < end_pos' => string'[j] \notin Separators
    <3>1. \A j \in lfield_start..((i + 1) - 1) : j = i \/ j \in lfield_start..(i - 1)
      BY <1>2
    <3> QED
      BY <2>1, <2>3, <3>1
  <2>5. Buffered'
    BY <1>2, <1>3, <2>1, <2>2, <2>4 DEF Buffered
  <2> QED
    BY <1>1, <2>1, <2>2, <2>5, PlaceStays
<1>9. CASE DeleteHead
  <2> DEFINE g == Finished
  <2>1. /\ pc = "scan" /\ pc' = "recv" /\ end_pos' = end_pos - g /\ lfield_start' = 0
        /\ UNCHANGED <<input, taken, buf, size, i, curr_field, fields, passed, hit>>
        /\ Wire' = Wire
    BY <1>9 DEF DeleteHead, history, Wire
  <2>2. string' = [j \in DOMAIN string |->
                      IF j = end_pos - g THEN Nul
                      ELSE IF j < end_pos - g THEN string[j + g] ELSE string[j]]
    BY <1>9 DEF DeleteHead
  <2>3. g \in Nat /\ g <= end_pos
    BY <1>2, <1>4
  <2>4. \A j \in g..(end_pos - 1) : string[j] = Wire[Gone + j + 1]
    BY <1>3
  <2>5. Place = Gone + g /\ Gone = Got - end_pos /\ Got = taken
    BY <2>1 DEF Place, Gone, Got
  <2>6. Got' = taken /\ Gone' = taken - end_pos' /\ Place' = Gone' + Finished'
    BY <2>1 DEF Place, Gone, Got
  <2>7. Finished' = IF lfield_start' > end_pos' THEN end_pos' ELSE lfield_start'
    BY DEF Finished
  <2> HIDE DEF g
  <2>8. Finished' = 0
    BY <1>2, <2>1, <2>3, <2>7
  <2>9. Gone' = Gone + g /\ Place' = Place
    <3> HIDE DEF Gone, Got, Place
    <3>1. Gone' = Gone + g
      BY <1>2, <2>1, <2>3, <2>5, <2>6
    <3> QED
      BY <1>2, <2>3, <2>5, <2>6, <2>8, <3>1
  <2>10. ASSUME NEW j \in 0..(end_pos - g - 1) PROVE string'[j] = Wire[Gone + g + j + 1]
    <3>1. j \in DOMAIN string /\ j # end_pos - g /\ j < end_pos - g
      BY <1>2, <2>3
    <3>2. j + g \in g..(end_pos - 1) /\ Gone + (j + g) + 1 = Gone + g + j + 1
      <4> HIDE DEF Gone
      <4> QED
        BY <1>2, <2>3
    <3> QED
      BY <2>2, <2>4, <3>1, <3>2
  <2>11. Buffered'
    <3>1. Got' \in Nat /\ Gone' \in Nat /\ taken' <= Len(Wire')
      <4> HIDE DEF Gone, Got
      <4> QED
        BY <1>2, <2>1, <2>3, <2>5, <2>6, <2>9
    <3>2. \A j \in Finished'..(end_pos' - 1) : string'[j] = Wire'[Gone' + j + 1]
      BY <2>1, <2>8, <2>9, <2>10
    <3> QED
      BY <2>1, <3>1, <3>2 DEF Buffered
  <2> QED
    BY <1>1, <2>1, <2>9, <2>11, PlaceStays
<1> QED
  BY <1>5, <1>6, <1>7, <1>8, <1>9

-----------------------------------------------------------------------------
(* What is read, and what a line can do to the buffers of the fields *)

\* At first nothing is read.
LEMMA ReadInit == Init => ReadInv
<1> SUFFICES ASSUME Init PROVE ReadInv
  OBVIOUS
<1>1. /\ input \in Inputs /\ taken = 0 /\ pc = "recv" /\ end_pos = 0 /\ lfield_start = 0
      /\ curr_field = 0 /\ fields = NoFields /\ calls = <<>> /\ passed = 0 /\ hit = FALSE
  BY DEF Init
<1>2. Got = 0 /\ Gone = 0 /\ Finished = 0 /\ Place = 0
  BY <1>1 DEF Got, Gone, Finished, Place
<1>3. /\ LineAt(input, 1) = 0 /\ LineAt(input, Len(input) + 1) = Len(Wire)
      /\ Len(Wire) \in Nat /\ input \in Seq(Lines)
  BY <1>1, WireEnds, InputIs
<1>4. Len(input) \in Nat
  BY <1>3
<1>5. Buffered
  <2>1. \A j \in Finished..(end_pos - 1) : FALSE
    BY <1>1, <1>2
  <2> QED
    BY <1>1, <1>2, <1>3, <2>1 DEF Buffered
<1>6. CASE Len(input) = 0
  <2>1. Len(Wire) = 0
    <3> HIDE DEF Wire
    <3> QED
      BY <1>3, <1>6
  <2> QED
    BY <1>1, <1>2, <1>5, <1>6, <2>1 DEF ReadInv, WildOnlyWhen, AtEnd
<1>7. CASE Len(input) > 0
  <2>1. 1 \in 1..Len(input) /\ Line = input[1]
    BY <1>1, <1>4, <1>7 DEF Line
  <2>2. Line \in Lines
    BY <1>3, <2>1
  <2>3. 1 \in 1..Len(Line) /\ 0 \in 0..Len(Line[1]) /\ CharAt(Line, 1, 0) \in Nat
    <3>1. Line \in Seq(Seq(Plain)) /\ Line # <<>>
      BY <2>2 DEF Lines
    <3>2. 1 \in 1..Len(Line)
      BY <3>1
    <3>3. Line[1] \in Seq(Plain)
      BY <3>1, <3>2
    <3>4. 0 \in 0..Len(Line[1])
      BY <3>3
    <3>5. Len(Upto(Line, 1 - 1)) \in Nat
      <4> DEFINE s == Line
      <4>1. s \in Seq(Seq(Plain)) /\ 1 \in 1..Len(s)
        BY <3>1, <3>2
      <4> HIDE DEF s
      <4>2. Len(Upto(s, 1 - 1)) \in Nat
        BY <4>1, FlattenAt
      <4> QED
        BY <4>2 DEF s
    <3>6. CharAt(Line, 1, 0) \in Nat
      BY <3>5 DEF CharAt
    <3> QED
      BY <3>2, <3>4, <3>6
  <2>4. At(input, passed + 1, 1, 0) = 0
    <3>1. 1 \in 1..Len(input[1]) /\ passed + 1 = 1
      BY <1>1, <2>1, <2>3
    <3>2. At(input, 1, 1, 0) = LineAt(input, 1)
      BY <1>1, <2>1, <3>1, FieldOnWire
    <3> QED
      BY <1>3, <3>1, <3>2, Zenon
  <2>5. Parts(fields, curr_field, FlattenSeq(Line), CharAt(Line, 1, 0))
    BY <1>1, <2>2, <2>3, PartsNone
  <2>6. FirstFields(fields, curr_field, Line)
    BY <1>1 DEF FirstFields, NoFields
  <2>7. Inside(1, 0)
    BY <1>1, <1>2, <2>4, <2>5, <2>6 DEF Inside
  <2>8. InLine
    BY <1>1, <1>7, <2>3, <2>7 DEF InLine
  <2> QED
    BY <1>1, <1>5, <2>8 DEF ReadInv, WildOnlyWhen
<1> QED
  BY <1>4, <1>6, <1>7

\* A field is written outside the buffers only by a line that has one more.
LEMMA WildIsLong ==
    ASSUME ParserInv, ScanTab, pc' = "wild"
    PROVE  WildOnlyWhen'
<1>1. /\ pc = "scan" /\ i <= end_pos /\ string[i] = Tab
      /\ input' = input /\ passed' = passed /\ hit' = (hit \/ Stale)
      /\ ~(curr_field < NFields)
  BY DEF ScanTab, Scanning
<1>2. curr_field \in 0..NFields /\ NFields \in Nat /\ i \in Nat /\ end_pos \in Nat
  BY <1>1, ScanNumbers
<1>3. curr_field = NFields /\ curr_field # 0
  BY <1>1, <1>2, FieldsAssumption
<1>4. InLine
  <2>1. InLine \/ AtEnd
    BY <1>1 DEF ParserInv, ReadInv, Reading
  <2> QED
    BY <1>1, <1>3, <2>1, EndIsStale
<1>5. passed < Len(input)
  BY <1>4 DEF InLine
<1>6. PICK f \in 1..Len(Line) : \E c \in 0..Len(Line[f]) : Inside(f, c)
  BY <1>4 DEF InLine
<1>7. PICK c \in 0..Len(Line[f]) : Inside(f, c)
  BY <1>6
<1>8. ASSUME ~hit, ~Stale PROVE Len(Line) > NFields + 1
  <2>1. i < end_pos /\ string[i] \in Separators
    BY <1>1, <1>2, <1>8 DEF Stale, Separators
  <2>2. Line \in Lines /\ string[i] = EndOf(Line, f)
    BY <1>1, <1>5, <1>7, <2>1, Piece
  <2>3. f = NFields + 1
    BY <1>3, <1>7, <1>8 DEF Inside
  <2>4. f # Len(Line) /\ Len(Line) \in Nat
    BY <1>1, <2>2, CharsAssumption DEF EndOf, Lines
  <2> QED
    BY <1>2, <2>3, <2>4
<1>9. hit' \/ Len(Line) > NFields + 1
  BY <1>1, <1>8
<1> QED
  BY <1>1, <1>9 DEF WildOnlyWhen, Line

\* Every step keeps what is read.
LEMMA ReadStep == ParserInv /\ [Next]_vars => ReadInv'
<1> SUFFICES ASSUME ParserInv, [Next]_vars PROVE ReadInv'
  OBVIOUS
<1>1. ReadInv
  BY DEF ParserInv
<1>2. ASSUME NEW n \in 1..ChunkSize, Recv(n) PROVE ReadInv'
  <2>1. Reading /\ pc' = "append" /\ UNCHANGED <<input, calls>>
    BY <1>2 DEF Recv, Reading, parse
  <2>2. Buffered' /\ (InLine \/ AtEnd)'
    BY <1>2, <2>1, ReceivingKeeps
  <2> QED
    BY <1>1, <2>1, <2>2 DEF ReadInv, WildOnlyWhen
<1>3. CASE Grow \/ Copy \/ ScanOther \/ DeleteHead
  <2>1. Reading /\ pc' \in {"append", "scan", "recv"} /\ UNCHANGED <<input, calls>>
    BY <1>3 DEF Grow, Copy, ScanOther, DeleteHead, Reading, parse
  <2>2. Buffered' /\ (InLine \/ AtEnd)'
    BY <1>3, <2>1, ReceivingKeeps
  <2> QED
    BY <1>1, <2>1, <2>2 DEF ReadInv, WildOnlyWhen
<1>4. CASE RecvEnd \/ RecvError
  <2>1. pc' \in {"ended", "overrun"} /\ UNCHANGED <<input, calls>>
    BY <1>4 DEF RecvEnd, RecvError, parse
  <2>2. ~Reading' /\ WildOnlyWhen'
    BY <2>1 DEF Reading, WildOnlyWhen
  <2> QED
    BY <1>1, <2>1, <2>2 DEF ReadInv
<1>5. CASE ScanNewline
  <2>1. pc = "scan" /\ pc' = "scan" /\ input' = input
    BY <1>5 DEF ScanNewline, Scanning
  <2>2. Buffered'
    BY <1>5, <2>1, ScanSeparator
  <2>3. InLine \/ AtEnd
    BY <1>1, <2>1 DEF ReadInv, Reading
  <2>4. (InLine \/ AtEnd)' /\ calls' \in Seq(Seq(Seq(Plain)))
    <3>1. calls \in Seq(Seq(Seq(Plain)))
      BY <1>1 DEF ReadInv
    <3>2. CASE InLine
      <4>1. (InLine \/ AtEnd)'
        BY <1>5, <3>2, NewlineInLine
      <4>2. calls' = calls \/ (calls' = Append(calls, Completed) /\ Completed \in Seq(Seq(Plain)))
        BY <1>5, <3>2, NewlineReads
      <4>3. calls' \in Seq(Seq(Seq(Plain)))
        <5> DEFINE X == Seq(Seq(Plain))
                   call == Completed
        <5>1. calls \in Seq(X) /\ (calls' = calls \/ (calls' = Append(calls, call) /\ call \in X))
          BY <3>1, <4>2
        <5> HIDE DEF X, call
        <5>2. calls' \in Seq(X)
          BY <5>1
        <5> QED
          BY <5>2 DEF X
      <4> QED
        BY <4>1, <4>3
    <3>3. CASE AtEnd
      BY <1>5, <2>1, <3>1, <3>3, SeparatorAtEnd
    <3> QED
      BY <2>3, <3>2, <3>3
  <2> QED
    BY <1>1, <2>1, <2>2, <2>4 DEF ReadInv, WildOnlyWhen
<1>6. CASE ScanTab
  <2>1. pc = "scan" /\ pc' \in {"scan", "wild"} /\ UNCHANGED <<input, calls>>
    BY <1>6 DEF ScanTab, Scanning
  <2>2. CASE pc' = "wild"
    <3>1. WildOnlyWhen' /\ ~Reading'
      BY <1>6, <2>2, WildIsLong DEF Reading
    <3> QED
      BY <1>1, <2>1, <3>1 DEF ReadInv
  <2>3. CASE pc' = "scan"
    <3>1. Buffered'
      BY <1>6, <2>3, ScanSeparator
    <3>2. InLine \/ AtEnd
      BY <1>1, <2>1 DEF ReadInv, Reading
    <3>3. (InLine \/ AtEnd)'
      BY <1>6, <2>3, <3>2, TabInLine, SeparatorAtEnd
    <3> QED
      BY <1>1, <2>1, <2>3, <3>1, <3>3 DEF ReadInv, WildOnlyWhen
  <2> QED
    BY <2>1, <2>2, <2>3
<1>7. CASE UNCHANGED vars
  <2>1. /\ input' = input /\ taken' = taken /\ pc' = pc /\ buf' = buf /\ string' = string
        /\ size' = size /\ end_pos' = end_pos /\ i' = i /\ curr_field' = curr_field
        /\ lfield_start' = lfield_start /\ fields' = fields /\ calls' = calls
        /\ passed' = passed /\ hit' = hit
        /\ Wire' = Wire /\ Line' = Line
    BY <1>7 DEF vars, sbuf, parse, history, Wire, Line
  <2>2. Got' = Got /\ Gone' = Gone /\ Finished' = Finished /\ Place' = Place /\ Reading' = Reading
    BY <2>1 DEF Got, Gone, Finished, Place, Reading
  <2>3. WildOnlyWhen'
    BY <1>1, <2>1 DEF ReadInv, WildOnlyWhen
  <2>4. ASSUME Reading PROVE Buffered' /\ (InLine \/ AtEnd)'
    <3>1. Buffered /\ (InLine \/ AtEnd)
      BY <1>1, <2>4 DEF ReadInv
    <3>2. Buffered'
      BY <2>1, <2>2, <3>1 DEF Buffered
    <3>3. (pc' = "scan" /\ i' <= end_pos') = (pc = "scan" /\ i <= end_pos)
      BY <2>1
    <3>4. CASE AtEnd
      <4>1. passed = Len(input) /\ Place = Len(Wire)
        BY <3>4 DEF AtEnd
      <4>2. passed' = Len(input') /\ Place' = Len(Wire')
        BY <2>1, <2>2, <4>1
      <4>3. pc' = "scan" /\ i' <= end_pos' => ~hit' /\ curr_field' = 0
        <5>1. pc = "scan" /\ i <= end_pos => ~hit /\ curr_field = 0
          BY <3>4 DEF AtEnd
        <5> QED
          BY <2>1, <3>3, <5>1, Zenon
      <4> QED
        BY <3>2, <4>2, <4>3, Zenon DEF AtEnd
    <3>5. CASE InLine
      <4>1. UNCHANGED <<input, fields, curr_field, passed, hit>> /\ Place' = Place
        BY <2>1, <2>2
      <4> QED
        BY <3>2, <3>5, <4>1, PlaceStays
    <3> QED
      BY <3>1, <3>2, <3>4, <3>5
  <2> QED
    BY <1>1, <2>1, <2>2, <2>3, <2>4 DEF ReadInv
<1> QED
  BY <1>2, <1>3, <1>4, <1>5, <1>6, <1>7 DEF Next

LEMMA ParserStart == Init => ParserInv
<1> SUFFICES ASSUME Init PROVE ParserInv
  OBVIOUS
<1>1. ParserType
  BY TypeInit
<1> QED
  BY <1>1, CleanInit, ReadInit DEF ParserInv

LEMMA ParserStep == ParserInv /\ [Next]_vars => ParserInv'
<1> SUFFICES ASSUME ParserInv, [Next]_vars PROVE ParserInv'
  OBVIOUS
<1>1. CleanInv /\ ParserType
  BY DEF ParserInv
<1> QED
  BY <1>1, CleanStep, TypeStep, ReadStep DEF ParserInv

\* A field is written to memory that is none of the buffers only when the line
\* being read has two fields too many, or when a byte behind the data has been
\* taken for the end of one.  No other input harms the memory of the thread.
THEOREM WildIsExplained == Spec => []WildOnlyWhen
<1>1. ParserInv => WildOnlyWhen
  BY DEF ParserInv, ReadInv
<1>. QED
  BY ParserStart, ParserStep, <1>1, PTL DEF Spec

-----------------------------------------------------------------------------
(* The calls are those of the lines *)

\* The abstract reader means the same by a call and by a part of a line.
LEMMA SameWords ==
    ASSUME NEW part, NEW line
    PROVE  (Reader!IsCall(line) <=> IsCall(line)) /\ (Reader!PartOf(part, line) <=> PartOf(part, line))
BY Zenon DEF Reader!IsCall, IsCall, Reader!PartOf, PartOf, Reader!FlattenSeq, FlattenSeq,
             Reader!ToSet, ToSet

\* The lines that are left, and what is left after one more.
LEMMA LeftOver ==
    ASSUME NEW X, NEW s \in Seq(X), NEW n \in Nat, n < Len(s)
    PROVE  LET rest == SubSeq(s, n + 1, Len(s))
           IN  /\ rest # <<>> /\ Head(rest) = s[n + 1]
               /\ Tail(rest) = SubSeq(s, n + 2, Len(s))
<1> DEFINE m == Len(s)
           rest == SubSeq(s, n + 1, m)
           less == SubSeq(s, n + 2, m)
<1>1. m \in Nat /\ n + 1 \in 1..m
  OBVIOUS
<1>2. rest \in Seq(X) /\ Len(rest) = m - n /\ \A k \in 1..(m - n) : rest[k] = s[n + k]
  BY <1>1
<1>3. less \in Seq(X) /\ Len(less) = m - n - 1 /\ \A k \in 1..(m - n - 1) : less[k] = s[n + 1 + k]
  BY <1>1
<1> HIDE DEF rest, less
<1>4. rest # <<>> /\ Head(rest) = s[n + 1]
  BY <1>1, <1>2
<1>5. Tail(rest) \in Seq(X) /\ Len(Tail(rest)) = m - n - 1
      /\ \A k \in 1..(m - n - 1) : Tail(rest)[k] = rest[k + 1]
  BY <1>1, <1>2, <1>4
<1>6. \A k \in 1..(m - n - 1) : Tail(rest)[k] = less[k]
  <2> SUFFICES ASSUME NEW k \in 1..(m - n - 1) PROVE Tail(rest)[k] = less[k]
    OBVIOUS
  <2>1. k + 1 \in 1..(m - n) /\ n + (k + 1) = n + 1 + k
    BY <1>1
  <2> QED
    BY <1>2, <1>3, <1>5, <2>1
<1>7. Tail(rest) = less
  BY <1>3, <1>5, <1>6, SameSeq
<1> QED
  BY <1>4, <1>7 DEF rest, less, m

\* A call more, seen from the end
LEMMA OneMore ==
    ASSUME NEW X, NEW s \in Seq(X), NEW x \in X
    PROVE  Len(Append(s, x)) = Len(s) + 1 /\ Front(Append(s, x)) = s /\ Last(Append(s, x)) = x
<1> DEFINE t == Append(s, x)
<1>1. t \in Seq(X) /\ Len(t) = Len(s) + 1 /\ t[Len(s) + 1] = x /\ \A k \in 1..Len(s) : t[k] = s[k]
  OBVIOUS
<1> HIDE DEF t
<1>2. (Len(s) + 1) - 1 = Len(s) /\ Len(s) \in Nat
  OBVIOUS
<1>3. SubSeq(t, 1, Len(s)) \in Seq(X) /\ Len(SubSeq(t, 1, Len(s))) = Len(s)
      /\ \A k \in 1..Len(s) : SubSeq(t, 1, Len(s))[k] = t[k]
  BY <1>1, <1>2
<1>4. SubSeq(t, 1, Len(s)) = s
  BY <1>1, <1>3, SameSeq
<1>5. Front(t) = s
  BY <1>1, <1>2, <1>4 DEF Front
<1>6. Last(t) = x
  BY <1>1 DEF Last
<1> QED
  BY <1>1, <1>5, <1>6 DEF t

Left == SubSeq(input, passed + 1, Len(input))

\* Before a line has ended it is the first that is left.
LEMMA LeftIs ==
    ASSUME ParserInv, InLine
    PROVE  /\ Left # <<>> /\ Head(Left) = Line
           /\ Tail(Left) = SubSeq(input, passed + 2, Len(input))
<1>1. input \in Seq(Lines) /\ passed \in Nat /\ passed < Len(input)
  BY InputIs DEF ParserInv, ReadInv, ParserType, InLine
<1> QED
  BY <1>1, LeftOver DEF Left, Line

\* The end of a line makes no call, or one of its characters.
LEMMA NewlinePart ==
    ASSUME ParserInv, ScanNewline, InLine
    PROVE  Reader!PartRead
<1> DEFINE X == Seq(Seq(Plain))
           call == Completed
<1>1. \/ calls' = calls
      \/ calls' = Append(calls, call) /\ call \in X /\ IsCall(call) /\ PartOf(call, Line)
  BY NewlineReads
<1>2. Left # <<>> /\ Head(Left) = Line
  BY LeftIs
<1>3. calls \in Seq(X)
  BY DEF ParserInv, ReadInv
<1> HIDE DEF X, call
<1>4. CASE calls' = Append(calls, call) /\ call \in X /\ IsCall(call) /\ PartOf(call, Line)
  <2>1. Len(calls') = Len(calls) + 1 /\ Front(calls') = calls /\ Last(calls') = call
    BY <1>3, <1>4, OneMore
  <2>2. Reader!IsCall(call) /\ Reader!PartOf(call, Line)
    BY <1>4, SameWords
  <2>3. Reader!Front(calls') = calls /\ Reader!Last(calls') = call
    BY <2>1 DEF Reader!Front, Front, Reader!Last, Last
  <2> QED
    BY <1>2, <2>1, <2>2, <2>3 DEF Reader!PartRead, Left
<1> QED
  BY <1>1, <1>4 DEF Reader!PartRead

\* The scan of a newline is the end of a line for the reader, or damages it.
LEMMA NewlineIsRead ==
    ASSUME ParserInv, ScanNewline, InLine
    PROVE  Reader!ReaderNext \/ UNCHANGED <<Left, calls, hit>>
<1>1. /\ pc = "scan" /\ input' = input
      /\ passed' = IF Stale THEN passed ELSE passed + 1
      /\ hit' = (Stale /\ (hit \/ curr_field > 0 \/ lfield_start < i))
      /\ curr_field # NFields - 1 => calls' = calls
  BY DEF ScanNewline, Scanning
<1>2. Left # <<>> /\ Head(Left) = Line /\ Tail(Left) = SubSeq(input, passed + 2, Len(input))
  BY LeftIs
<1>3. Reader!PartRead
  BY NewlinePart
<1>4. hit \in BOOLEAN /\ hit' \in BOOLEAN /\ passed \in Nat /\ curr_field \in 0..NFields /\ NFields \in Nat
  BY <1>1, ScanNumbers DEF ParserInv, CleanInv
<1>5. CASE Stale
  <2>1. Left' = Left
    BY <1>1, <1>5 DEF Left
  <2>2. CASE hit'
    BY <1>3, <2>1, <2>2 DEF Reader!ReaderNext, Reader!LineDamaged, Left
  <2>3. CASE ~hit'
    <3>1. hit = FALSE /\ hit' = FALSE /\ ~(curr_field > 0)
      BY <1>1, <1>4, <1>5, <2>3, Zenon
    <3>2. curr_field # NFields - 1
      BY <1>4, <3>1, FieldsAssumption
    <3> QED
      BY <1>1, <2>1, <3>1, <3>2
  <2> QED
    BY <2>2, <2>3
<1>6. CASE ~Stale
  <2>1. hit' = FALSE /\ passed' = passed + 1
    BY <1>1, <1>4, <1>6, Zenon
  <2>2. Left' = Tail(Left)
    <3>1. (passed + 1) + 1 = passed + 2
      BY <1>4
    <3> QED
      BY <1>1, <1>2, <2>1, <3>1 DEF Left
  <2>3. CASE hit
    BY <1>2, <1>3, <2>1, <2>2, <2>3 DEF Reader!ReaderNext, Reader!DamagedLineRead, Left
  <2>4. CASE ~hit
    <3>1. calls' = IF IsCall(Line) THEN Append(calls, Line) ELSE calls
      BY <1>6, <2>4, NewlineReads
    <3>2. calls' = IF Reader!IsCall(Head(Left)) THEN Append(calls, Head(Left)) ELSE calls
      BY <1>2, <3>1, SameWords
    <3>3. hit' = hit
      BY <1>4, <2>1, <2>4
    <3> QED
      BY <1>2, <2>2, <2>4, <3>2, <3>3 DEF Reader!ReaderNext, Reader!LineRead, Left
  <2> QED
    BY <2>3, <2>4
<1> QED
  BY <1>5, <1>6

\* The parser implements the reader of lines: whatever pieces recv returns,
\* whatever fresh memory holds and wherever the buffer grows, every line that is
\* not damaged becomes the call that it is, in order, and a line that a byte
\* behind the data has damaged makes nothing but what is made of its characters.
THEOREM ReadsAllLines == Spec => ReadsLines
<1>1. Init => Reader!ReaderInit
  BY DEF Init, Reader!ReaderInit
<1>2. ParserInv /\ [Next]_vars => [Reader!ReaderNext]_<<SubSeq(input, passed + 1, Len(input)), calls, hit>>
  <2> SUFFICES ASSUME ParserInv, [Next]_vars
               PROVE  Reader!ReaderNext \/ UNCHANGED <<Left, calls, hit>>
    BY Zenon DEF Left
  <2>1. CASE ScanNewline
    <3>1. pc = "scan" /\ pc' = "scan" /\ input' = input
      BY <2>1 DEF ScanNewline, Scanning
    <3>2. InLine \/ AtEnd
      BY <3>1 DEF ParserInv, ReadInv, Reading
    <3>3. CASE AtEnd
      BY <2>1, <3>1, <3>3, SeparatorAtEnd DEF Left
    <3> QED
      BY <2>1, <3>2, <3>3, NewlineIsRead
  <2>2. CASE ScanTab
    <3>1. input' = input /\ passed' = passed /\ calls' = calls /\ hit' = (hit \/ Stale)
      BY <2>2 DEF ScanTab
    <3>2. Left' = Left
      BY <3>1 DEF Left
    <3>3. hit \in BOOLEAN /\ hit' \in BOOLEAN
      BY <3>1 DEF ParserInv, CleanInv
    <3>4. CASE hit'
      BY <3>1, <3>2, <3>4 DEF Reader!ReaderNext, Reader!LineDamaged, Reader!PartRead, Left
    <3>5. CASE ~hit'
      <4>1. hit' = hit
        BY <3>1, <3>3, <3>5, Zenon
      <4> QED
        BY <3>1, <3>2, <4>1
    <3> QED
      BY <3>4, <3>5
  <2>3. CASE RecvEnd \/ RecvError \/ Grow \/ Copy \/ ScanOther \/ DeleteHead \/ UNCHANGED vars
    <3>1. UNCHANGED <<input, passed, calls, hit>>
      BY <2>3 DEF RecvEnd, RecvError, Grow, Copy, ScanOther, DeleteHead, vars, parse, history
    <3> QED
      BY <3>1 DEF Left
  <2>4. ASSUME NEW n \in 1..ChunkSize, Recv(n) PROVE UNCHANGED <<Left, calls, hit>>
    BY <2>4 DEF Recv, parse, history, Left
  <2> QED
    BY <2>1, <2>2, <2>3, <2>4 DEF Next
<1> QED
  BY ParserStart, ParserStep, <1>1, <1>2, PTL DEF Spec, ReadsLines, Reader!ReaderSpec
=============================================================================

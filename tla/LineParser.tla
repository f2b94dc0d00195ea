----------------------------- MODULE LineParser -----------------------------
(***************************************************************************)
(* How a socket thread turns the bytes from its tracer into calls: the     *)
(* receive loop of surv_handleOpenCallSocket (surv_handleExecCallSocket    *)
(* has the same) with the stringBuffer that it keeps its input in.         *)
(*                                                                         *)
(* Parser has calls in its sockets; this module is the layer below.  The   *)
(* tracer sends lines of fields, and recv cuts them into pieces.  What has *)
(* been received is appended to sbuf and scanned, byte by byte, up to and  *)
(* including the byte behind it, which nobody has written for this piece.  *)
(* A tab ends a field, a newline a line.  In the end the fields that are   *)
(* complete leave the buffer, and the rest waits for the next piece.       *)
(*                                                                         *)
(* The buffers of the fields are the sequences they hold; allocation is    *)
(* assumed to succeed, and fresh memory holds anything.                    *)
(***************************************************************************)
EXTENDS Integers, Sequences, SequencesExt

CONSTANTS
    NFields,        \* field_num, 5 in the code
    ChunkSize,      \* sizeof(buf): the most that one recv returns
    InitSize,       \* the initial size of sbuf
    Inputs,         \* what a tracer may send: sequences of lines, a line being
                    \* a sequence of fields, a field one of plain characters
    Plain,          \* the plain characters
    Dot,            \* the one of a time stamp
    Tab, NewLine, Nul,          \* the other characters with a meaning
    Garbage,        \* what fresh memory may hold
    Failing         \* TRUE: recv may fail

ASSUME FieldsAssumption == NFields \in Nat /\ NFields > 1
ASSUME CharsAssumption == Tab # NewLine /\ Nul \notin {Tab, NewLine}
ASSUME PlainAssumption == {Tab, NewLine, Nul} \cap Plain = {}
ASSUME InputsAssumption == Inputs \subseteq Seq(Seq(Seq(Plain)) \ {<<>>})
ASSUME BufferAssumption == ChunkSize \in Nat \ {0} /\ InitSize \in Nat \ {0}

VARIABLES
    input,          \* the lines of the tracer
    taken,          \* the number of bytes received
    pc,             \* where the thread is
    buf,            \* the bytes of the last recv
    string, size, end_pos,      \* sbuf
    i,              \* the byte to be scanned
    curr_field, lfield_start, fields,
    calls,          \* the calls made, each the sequence of its fields
    passed,         \* history: the lines whose newline was scanned
    hit,            \* history: a byte that was not received has changed what is
                    \* made of the line being read
    leftover        \* history: a line with too few or too many fields has ended

sbuf == <<string, size, end_pos>>
parse == <<i, curr_field, lfield_start, fields, calls>>
history == <<passed, hit, leftover>>
vars == <<input, taken, pc, buf, sbuf, parse, history>>

\* What a line is on the wire
WireLine(line) == FlattenSeq([f \in 1..Len(line) |->
                                 Append(line[f], IF f = Len(line) THEN NewLine ELSE Tab)])
Wire == FlattenSeq([l \in 1..Len(input) |-> WireLine(input[l])])

NoFields == [f \in 1..NFields |-> <<>>]

Init ==
    /\ input \in Inputs
    /\ taken = 0
    /\ pc = "recv"
    /\ buf = <<>>
    /\ string = [j \in 0..(InitSize - 1) |-> Nul]
    /\ size = InitSize
    /\ end_pos = 0
    /\ i = 0
    /\ curr_field = 0
    /\ lfield_start = 0
    /\ fields = NoFields
    /\ calls = <<>>
    /\ passed = 0
    /\ hit = FALSE
    /\ leftover = FALSE

-----------------------------------------------------------------------------
(* Receiving *)

\* Mutant of Recv: recv is told one byte more than buf has.
RecvOneMore(n) ==
    /\ pc = "recv"
    /\ taken + n + 1 <= Len(Wire)
    /\ buf' = [b \in 1..(n + 1) |-> Wire[taken + b]]
    /\ taken' = taken + n + 1
    /\ pc' = "append"
    /\ UNCHANGED <<input, sbuf, parse, history>>

\* recv returns some of the bytes that the tracer has sent, ...
Recv(n) ==
    /\ pc = "recv"
    /\ taken + n <= Len(Wire)
    /\ buf' = [b \in 1..n |-> Wire[taken + b]]
    /\ taken' = taken + n
    /\ pc' = "append"
    /\ UNCHANGED <<input, sbuf, parse, history>>

\* ... or 0 when the tracer has gone, be it in the middle of a line.
RecvEnd ==
    /\ pc = "recv"
    /\ pc' = "ended"
    /\ UNCHANGED <<input, taken, buf, sbuf, parse, history>>

\* A failed recv is appended as SIZE_MAX bytes.  end_pos + SIZE_MAX wraps to
\* end_pos - 1: an empty buffer grows until realloc fails, which ends the
\* thread, a non-empty one is large enough for memcpy to run wild.
RecvError ==
    /\ pc = "recv"
    /\ Failing
    /\ pc' = IF end_pos = 0 THEN "ended" ELSE "overrun"
    /\ UNCHANGED <<input, taken, buf, sbuf, parse, history>>

-----------------------------------------------------------------------------
(* sb_appendl *)

\* Mutant of Fits: there is no room for a byte behind the data.
FitsTight == end_pos + Len(buf) <= size

Fits == end_pos + Len(buf) < size

\* One turn of the loop: realloc to twice the size
Grow ==
    /\ pc = "append"
    /\ ~Fits
    /\ \E fresh \in [size..(2 * size - 1) -> Garbage] :
          string' = [j \in 0..(2 * size - 1) |-> IF j < size THEN string[j] ELSE fresh[j]]
    /\ size' = 2 * size
    /\ UNCHANGED <<input, taken, pc, buf, end_pos, parse, history>>

\* memcpy, and nothing is written behind the data; then the scan begins.
Copy ==
    /\ pc = "append"
    /\ Fits
    /\ string' = [j \in DOMAIN string |->
                     IF j \in end_pos..(end_pos + Len(buf) - 1) THEN buf[j - end_pos + 1]
                                                               ELSE string[j]]
    /\ end_pos' = end_pos + Len(buf)
    /\ i' = 0
    /\ pc' = "scan"
    /\ UNCHANGED <<input, taken, buf, size, curr_field, lfield_start, fields, calls, history>>

-----------------------------------------------------------------------------
(* The scan *)

Scanning(c) == pc = "scan" /\ i <= end_pos /\ string[i] = c

\* A byte behind the data was not received for this line.
Stale == i = end_pos

\* sb_append(fields + curr_field, sbuf.string + lfield_start), with byte i
\* already replaced by the end of a string
Completed ==
    LET last == CHOOSE j \in lfield_start..i :
                   /\ j = i \/ string[j] = Nul
                   /\ \A k \in lfield_start..(j - 1) : string[k] # Nul
    IN  [fields EXCEPT ![curr_field + 1] =
            @ \o [k \in 1..(last - lfield_start) |-> string[lfield_start + k - 1]]]

\* Mutant of Terminated: the separator stays in the buffer.
Unterminated == string

\* sbuf.string[i] = '\0'
Terminated == [string EXCEPT ![i] = Nul]

\* Mutant of FieldOfNextLine: only a complete line starts the count again.
FieldAfterCall == IF curr_field = NFields - 1 THEN 0 ELSE curr_field

FieldOfNextLine == 0

\* openCall_init and execCall_init: the time stamp must have a dot.
Aligned(fs) == Dot \in ToSet(fs[1])

\* The end of a line: with the right number of fields it is a call, unless
\* its time stamp is none.  Any other line is forgotten; its newline stays in
\* the buffer.
ScanNewline ==
    /\ Scanning(NewLine)
    /\ IF curr_field = NFields - 1
       THEN /\ string' = Terminated
            /\ calls' = IF Aligned(Completed) THEN Append(calls, Completed) ELSE calls
       ELSE UNCHANGED <<string, calls>>
    /\ lfield_start' = i + 1
    /\ curr_field' = FieldOfNextLine
    /\ fields' = NoFields
    /\ i' = i + 1
    /\ passed' = IF Stale THEN passed ELSE passed + 1
    /\ hit' = (Stale /\ (hit \/ curr_field > 0 \/ lfield_start < i))
    /\ leftover' = (leftover \/ (~Stale /\ curr_field # NFields - 1))
    /\ UNCHANGED <<input, taken, pc, buf, size, end_pos>>

\* The end of a field.  There are buffers for NFields fields; the field after
\* the last one too many is written to memory that is none of them.
ScanTab ==
    /\ Scanning(Tab)
    /\ IF curr_field < NFields
       THEN /\ string' = Terminated
            /\ fields' = Completed
            /\ curr_field' = curr_field + 1
            /\ UNCHANGED pc
       ELSE /\ pc' = "wild"
            /\ UNCHANGED <<string, fields, curr_field>>
    /\ lfield_start' = i + 1
    /\ i' = i + 1
    /\ hit' = (hit \/ Stale)
    /\ UNCHANGED <<input, taken, buf, size, end_pos, calls, passed, leftover>>

ScanOther ==
    /\ pc = "scan"
    /\ i <= end_pos
    /\ string[i] \notin {Tab, NewLine}
    /\ i' = i + 1
    /\ UNCHANGED <<input, taken, pc, buf, sbuf, curr_field, lfield_start, fields, calls, history>>

\* Mutant of Finished: the field that is still incomplete goes too.
AllScanned == end_pos

\* What leaves the buffer: everything up to the start of the field being read,
\* which is behind the data when a stale byte was a separator.
Finished == IF lfield_start > end_pos THEN end_pos ELSE lfield_start

\* The end of the scan: sb_deletehead(&sbuf, lfield_start).
DeleteHead ==
    /\ pc = "scan"
    /\ i > end_pos
    /\ string' = [j \in DOMAIN string |->
                     IF j = end_pos - Finished THEN Nul
                     ELSE IF j < end_pos - Finished THEN string[j + Finished] ELSE string[j]]
    /\ end_pos' = end_pos - Finished
    /\ lfield_start' = 0
    /\ pc' = "recv"
    /\ UNCHANGED <<input, taken, buf, size, i, curr_field, fields, calls, history>>

Next ==
    \/ \E n \in 1..ChunkSize : Recv(n)
    \/ RecvEnd
    \/ RecvError
    \/ Grow
    \/ Copy
    \/ ScanNewline
    \/ ScanTab
    \/ ScanOther
    \/ DeleteHead

Spec == Init /\ [][Next]_vars

-----------------------------------------------------------------------------
(* Properties *)

TypeOK ==
    /\ taken \in Nat
    /\ pc \in {"recv", "append", "scan", "ended", "overrun", "wild"}
    /\ Len(buf) <= ChunkSize
    /\ size \in Nat \ {0} /\ end_pos \in Nat /\ i \in Nat /\ lfield_start \in Nat
    /\ DOMAIN string = 0..(size - 1)
    /\ curr_field \in 0..NFields
    /\ DOMAIN fields = 1..NFields
    /\ passed \in Nat
    /\ {hit, leftover} \subseteq BOOLEAN

\* The scan goes one byte beyond the data that sb_appendl has copied, and that
\* byte is always inside the allocated buffer; so is what sb_deletehead moves.
ScanInBounds ==
    /\ end_pos < size
    /\ pc = "scan" => i <= end_pos + 1 /\ lfield_start <= i

\* The byte behind the data is one that an earlier piece has left there, or one
\* of fresh memory.  It can end a field or a line only after a line with the
\* wrong number of fields, whose newline stays in the buffer, or after the
\* buffer has grown.
StaleByteNeedsCause == hit => leftover \/ size > InitSize

\* A field is written outside the buffers of the fields only for a line with
\* two fields too many, or one that a stale byte has given more.
WildOnlyWhen ==
    pc = "wild" => hit \/ Len(input[passed + 1]) > NFields + 1

\* Whatever pieces the lines arrive in, the calls are those of the lines, in
\* order; and a byte behind the data damages the line being read and no other.
Reader == INSTANCE LineReader WITH
    left <- SubSeq(input, passed + 1, Len(input)),
    damaged <- hit
ReadsLines == Reader!ReaderSpec
=============================================================================

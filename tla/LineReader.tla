----------------------------- MODULE LineReader -----------------------------
(***************************************************************************)
(* What the socket threads promise about the lines they receive: every     *)
(* line with the right fields becomes one call, in order, whatever pieces  *)
(* the lines arrive in, and no other line does.  A line may be damaged     *)
(* while it is read; then parts of it may be taken for calls, or nothing,  *)
(* and the lines after it are read as if nothing had happened.             *)
(*                                                                         *)
(* A line is the sequence of its fields, a field a sequence of characters. *)
(***************************************************************************)
EXTENDS Naturals, Sequences, SequencesExt

CONSTANTS
    NFields,        \* field_num: the number of fields of a call
    Dot             \* the character that the time stamp must contain

VARIABLES
    left,           \* the lines that have not ended yet, oldest first
    calls,          \* the calls made from lines
    damaged         \* the line that is being read is damaged

\* The fields make a call: their number is right and the first is a time stamp.
IsCall(line) == Len(line) = NFields /\ Dot \in ToSet(line[1])

\* The characters of `part' stand together in `line', perhaps not in the same
\* fields.
PartOf(part, line) ==
    LET c == FlattenSeq(line)
    IN  \E a \in 1..(Len(c) + 1), b \in 0..Len(c) : SubSeq(c, a, b) = FlattenSeq(part)

ReaderInit == calls = <<>> /\ ~damaged

LineRead ==
    /\ left # <<>>
    /\ ~damaged
    /\ calls' = IF IsCall(Head(left)) THEN Append(calls, Head(left)) ELSE calls
    /\ left' = Tail(left)
    /\ UNCHANGED damaged

PartRead ==
    \/ calls' = calls
    \/ /\ left # <<>>
       /\ Len(calls') = Len(calls) + 1
       /\ Front(calls') = calls
       /\ IsCall(Last(calls'))
       /\ PartOf(Last(calls'), Head(left))

LineDamaged ==
    /\ damaged'
    /\ PartRead
    /\ UNCHANGED left

DamagedLineRead ==
    /\ left # <<>>
    /\ damaged
    /\ PartRead
    /\ damaged' = FALSE
    /\ left' = Tail(left)

ReaderNext == LineRead \/ LineDamaged \/ DamagedLineRead

ReaderSpec == ReaderInit /\ [][ReaderNext]_<<left, calls, damaged>>
=============================================================================

----------------------------- MODULE RingBuffer -----------------------------
(***************************************************************************)
(* The lock-free ring buffer g_ringBuffer of containers.c: `SIZE_RING'     *)
(* slots and two free running u_int32_t counters.  One thread writes and   *)
(* one thread reads (commandQueue and openQueue: a socket thread and the   *)
(* main loop), or a single thread does both (dispatchQueue: the main       *)
(* loop).                                                                  *)
(*                                                                         *)
(* An access has three steps: the full/empty test, and then the counter    *)
(* and the slot, in one of two orders.  As written,                        *)
(*     rb->buffer[g_ringBuffer_mask(rb->write++)] = content                *)
(* bumps the counter before it fills the slot.  Counters and slots are     *)
(* plain memory, so the other order is a legal outcome of the build too:   *)
(* WriteOrders and ReadOrders say which orders a model admits.             *)
(***************************************************************************)
EXTENDS Integers, Sequences

CONSTANTS
    Size,           \* SIZE_RING, 1024 in the code
    Modulus,        \* 2^32: the counters are u_int32_t
    Elems,          \* the pointers that are queued
    NULL,           \* what calloc leaves in a slot
    WriteOrders,    \* the orders g_ringBuffer_write may take its two steps in
    ReadOrders,     \* the same for g_ringBuffer_read
    OneThread,      \* TRUE: reader and writer are the same thread
    MaxWrites       \* bound: how many elements are written in a behaviour

Orders == {"slot_first", "counter_first"}

\* SIZE_RING is a power of two well below 2^32: the slot of a counter value
\* survives the wrap-around, and a full ring is told from an empty one.
ASSUME SizeAssumption == Size \in Nat \ {0}
ASSUME ModulusAssumption ==
    /\ Modulus \in Nat
    /\ Size < Modulus
    /\ \E k \in 1..Modulus : Modulus = Size * k
ASSUME ElemsAssumption == NULL \notin Elems
ASSUME OrdersAssumption ==
    /\ WriteOrders \subseteq Orders
    /\ ReadOrders \subseteq Orders
    /\ OneThread \in BOOLEAN
ASSUME MaxWritesAssumption == MaxWrites \in Nat

VARIABLES
    buffer,     \* rb->buffer
    write,      \* rb->write
    read,       \* rb->read
    wpc,        \* where the writer is in g_ringBuffer_write
    wval,       \* its argument, content
    rpc,        \* where the reader is in g_ringBuffer_read
    sent,       \* history: the elements whose write was published, in order
    got         \* history: the elements the reader returned, in order

vars == <<buffer, write, read, wpc, wval, rpc, sent, got>>

\* "idle": outside; an order: both steps to come, in that order; "slot" and
\* "counter": the first step is done and this one remains.
Pcs == {"idle", "slot", "counter"} \cup Orders

TypeOK ==
    /\ buffer \in [0..(Size - 1) -> Elems \cup {NULL}]
    /\ write \in 0..(Modulus - 1)
    /\ read \in 0..(Modulus - 1)
    /\ wpc \in Pcs
    /\ rpc \in Pcs
    /\ wval \in Elems \cup {NULL}
    /\ sent \in Seq(Elems)
    /\ got \in Seq(Elems \cup {NULL})

-----------------------------------------------------------------------------
\* val & (SIZE_RING - 1)
Mask(val) == val % Size

\* rb->write - rb->read, in 32 bit arithmetic
Occupancy == (write - read) % Modulus

\* Mutant of Full: the comparison is off by one.
FullOffByOne == Occupancy > Size

Full == Occupancy = Size

Empty == read = write

\* Mutants of Succ: the counter never wraps; the counter wraps at the size
\* of the ring instead of running free.
SuccUnbounded(counter) == counter + 1
SuccAtSize(counter) == (counter + 1) % Size

\* write++ and read++ on a u_int32_t
Succ(counter) == (counter + 1) % Modulus

Init ==
    /\ buffer = [i \in 0..(Size - 1) |-> NULL]
    /\ write = 0
    /\ read = 0
    /\ wpc = "idle"
    /\ rpc = "idle"
    /\ wval = NULL
    /\ sent = <<>>
    /\ got = <<>>

-----------------------------------------------------------------------------
(* g_ringBuffer_write.  A write that finds the ring full returns 1 and     *)
(* changes nothing.                                                        *)

WriteBegin(e) ==
    /\ wpc = "idle"
    /\ OneThread => rpc = "idle"
    /\ Len(sent) < MaxWrites
    /\ ~Full
    /\ wval' = e
    /\ wpc' \in WriteOrders
    /\ UNCHANGED <<buffer, write, read, rpc, sent, got>>

WriteSlot ==
    /\ wpc \in {"slot_first", "slot"}
    /\ buffer' = [buffer EXCEPT ![Mask(IF wpc = "slot" THEN write - 1 ELSE write)] = wval]
    /\ wpc' = IF wpc = "slot" THEN "idle" ELSE "counter"
    /\ UNCHANGED <<write, read, wval, rpc, sent, got>>

WriteCounter ==
    /\ wpc \in {"counter_first", "counter"}
    /\ write' = Succ(write)
    /\ sent' = Append(sent, wval)
    /\ wpc' = IF wpc = "counter" THEN "idle" ELSE "slot"
    /\ UNCHANGED <<buffer, read, wval, rpc, got>>

-----------------------------------------------------------------------------
(* g_ringBuffer_read.  A read that finds the ring empty returns 1 and      *)
(* leaves *content alone.                                                  *)

ReadBegin ==
    /\ rpc = "idle"
    /\ OneThread => wpc = "idle"
    /\ ~Empty
    /\ rpc' \in ReadOrders
    /\ UNCHANGED <<buffer, write, read, wpc, wval, sent, got>>

ReadSlot ==
    /\ rpc \in {"slot_first", "slot"}
    /\ got' = Append(got, buffer[Mask(IF rpc = "slot" THEN read - 1 ELSE read)])
    /\ rpc' = IF rpc = "slot" THEN "idle" ELSE "counter"
    /\ UNCHANGED <<buffer, write, read, wpc, wval, sent>>

ReadCounter ==
    /\ rpc \in {"counter_first", "counter"}
    /\ read' = Succ(read)
    /\ rpc' = IF rpc = "counter" THEN "idle" ELSE "slot"
    /\ UNCHANGED <<buffer, write, wpc, wval, sent, got>>

Next ==
    \/ \E e \in Elems : WriteBegin(e)
    \/ WriteSlot
    \/ WriteCounter
    \/ ReadBegin
    \/ ReadSlot
    \/ ReadCounter

Spec == Init /\ [][Next]_vars

-----------------------------------------------------------------------------
(* Properties *)

\* The ring is a bounded FIFO: g_ringBuffer_read returns the elements given
\* to g_ringBuffer_write, each once, in order, and never more than SIZE_RING
\* are pending, across every wrap-around of the slots and of the counters.
Queue == INSTANCE Fifo WITH Capacity <- Size
QueueSpec == Queue!Spec

\* Between two accesses g_ringBuffer_size is the number of pending elements:
\* the ring is never taken for empty while it holds something (the main loop
\* would not fetch it, and would exit without it), nor for full too early.
SizeIsExact ==
    wpc = "idle" /\ rpc = "idle" => Occupancy = Len(sent) - Len(got)
=============================================================================

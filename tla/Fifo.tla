-------------------------------- MODULE Fifo --------------------------------
(***************************************************************************)
(* What the watchdog expects of each of its queues (watchdog.h, struct     *)
(* surveiller: "Queue of calls that stores ..."): a bounded first-in       *)
(* first-out buffer.  The state is the history of what was put in and of   *)
(* what was taken out; the content is the part of `sent' not yet in `got'. *)
(***************************************************************************)
EXTENDS Naturals, Sequences

CONSTANTS
    Elems,      \* what may be queued: pointers to calls
    Capacity    \* how many elements the queue holds

VARIABLES
    sent,       \* everything ever put into the queue, in order
    got         \* everything ever taken out of it, in order

fifoVars == <<sent, got>>

Init == sent = <<>> /\ got = <<>>

Put(e) ==
    /\ Len(sent) - Len(got) < Capacity
    /\ sent' = Append(sent, e)
    /\ UNCHANGED got

Get ==
    /\ Len(got) < Len(sent)
    /\ got' = Append(got, sent[Len(got) + 1])
    /\ UNCHANGED sent

Next == Get \/ \E e \in Elems : Put(e)

Spec == Init /\ [][Next]_fifoVars
=============================================================================

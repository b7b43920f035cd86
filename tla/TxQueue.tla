------------------------------ MODULE TxQueue ------------------------------
(***************************************************************************)
(* What the transmit path promises the guest, free of rings and indices:   *)
(* a queue whose buffers are consumed once, in order, and come back once,  *)
(* in order, with at most Capacity of them outstanding.                    *)
(***************************************************************************)
EXTENDS Naturals, Sequences

CONSTANTS
    Buffers,     \* what is handed over: the head of a descriptor chain
    Capacity     \* vring.num

VARIABLES
    pending,     \* made available, not consumed
    done,        \* consumed, not visible to the guest yet
    returned     \* visible to the guest, not taken back

vars == <<pending, done, returned>>

Outstanding == pending \o done \o returned

Init == pending = <<>> /\ done = <<>> /\ returned = <<>>

Submit(b) ==
    /\ Len(Outstanding) < Capacity
    /\ \A k \in 1..Len(Outstanding) : Outstanding[k] # b
    /\ pending' = Append(pending, b)
    /\ UNCHANGED <<done, returned>>

Consume ==
    /\ pending # <<>>
    /\ pending' = Tail(pending)
    /\ done' = Append(done, Head(pending))
    /\ UNCHANGED returned

Publish ==
    /\ done # <<>>
    /\ returned' = returned \o done
    /\ done' = <<>>
    /\ UNCHANGED pending

TakeBack ==
    /\ returned # <<>>
    /\ returned' = Tail(returned)
    /\ UNCHANGED <<pending, done>>

Next == (\E b \in Buffers : Submit(b)) \/ Consume \/ Publish \/ TakeBack

Safety == Init /\ [][Next]_vars

Fairness == WF_vars(Consume) /\ WF_vars(Publish)
=============================================================================

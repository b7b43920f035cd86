--------------------------- MODULE MCGuestMemory ---------------------------
(* Model checking of the server's memory table.                             *)
EXTENDS GuestMemory

\* pc.ram, a block without a descriptor, and two blocks of devices.
Ram  == [offset |-> 0, length |-> 3, host |-> 4, fd |-> TRUE,  memory |-> 10]
Rom  == [offset |-> 3, length |-> 1, host |-> 0, fd |-> FALSE, memory |-> 16]
Vga  == [offset |-> 4, length |-> 2, host |-> 1, fd |-> TRUE,  memory |-> 13]
Card == [offset |-> 6, length |-> 1, host |-> 3, fd |-> TRUE,  memory |-> 15]

\* A device is plugged in, and it is removed and leaves its place to another.
Plugging == {<<Ram, Rom, Vga>>, <<Ram, Vga, Card>>, <<Ram, Card>>}
=============================================================================

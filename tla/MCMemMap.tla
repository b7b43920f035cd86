------------------------------ MODULE MCMemMap ------------------------------
(* Model checking of the memory map: the RAM blocks happen to be adjacent   *)
(* in QEMU's address space, so that regions of different blocks merge.      *)
EXTENDS MemMap

\* A block of two pages, one of one, and a display's: sections are longer than a
\* page, and deleting the one in the middle of three splits a region.
Blocks == [h \in 0..3 |-> <<"ram", "ram", "card", "vga">>[h + 1]]

\* All layouts in which no page of RAM is at two places and the display's is not
\* the first.  The second page of the first block may be seen through a read-only
\* alias.
NoAliases ==
    {v \in Views : /\ \A p, q \in Pages : v[p].ram = v[q].ram /\ v[p].ram # None => p = q
                   /\ v[0].ram # 3
                   /\ \A p \in Pages : v[p].readonly => p = 1 /\ v[p].ram = 1}
=============================================================================

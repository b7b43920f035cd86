---------------------------- MODULE MCDirtyLog ----------------------------
EXTENDS DirtyLog

RamSection(first, n)  == [first |-> first, size |-> n, mr |-> "ram", offset |-> first]
CardSection(first, n) == [first |-> first, size |-> n, mr |-> "card", offset |-> 0]

\* RAM in the pages 0 and 1, as one section or as two that share a chunk of the
\* log, and the RAM of a card that the guest places at page 3 or nowhere.
WholeRam == {RamSection(0, 2)}
SplitRam == {RamSection(0, 1), RamSection(1, 1)}
Card     == {CardSection(3, 1)}

SomeLayouts == {WholeRam, WholeRam \cup Card, SplitRam}

SomeBlocks == {<<"ram", 0>>, <<"ram", 1>>, <<"card", 0>>}
=============================================================================

-------------------------------- MODULE MCFlow --------------------------------
EXTENDS FlowCoordinator

E(a, b) == [frm |-> a, to |-> b, on |-> "success"]
R(a, b) == [frm |-> a, to |-> b, on |-> "error"]

\* A step and its review, which hears of success and of failure and names
\* itself until it is satisfied.
Review == [order |-> <<1, 2>>, edges |-> {E(1, 2), R(1, 2), E(2, 2)}, one |-> {2},
           spawned |-> TRUE]

\* Two branches that join.
Join == [order |-> <<1, 2, 3>>, edges |-> {E(1, 3), E(2, 3)}, one |-> {},
         spawned |-> FALSE]

\* What replaces the first flow: nothing happens in it that does not happen
\* in the first.
Empty == [order |-> <<>>, edges |-> {}, one |-> {}, spawned |-> FALSE]

MCTemplates == {Review, Join}
MCLater == {Empty}

MCNode == 1..3
================================================================================

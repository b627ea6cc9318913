---------------------------- MODULE MCBookServer ----------------------------
(* Instances of BookServer for TLC.                                        *)
EXTENDS BookServer, TLC

\* Two books; "c" is a title and an ISBN that no book has.
MCStrings == {"a", "b", "c"}
MCCatalog == <<[title |-> "a", isbn |-> "b", price |-> 12],
               [title |-> "b", isbn |-> "b", price |-> 1]>>

Order(x, y, n) == [op |-> "order", x |-> x, y |-> y, n |-> n]
Pay(orderno, amount) == [op |-> "pay", orderno |-> orderno, amount |-> amount]
Display(M, X, Z) == [op |-> "display", M |-> M, X |-> X, Z |-> Z]
Browsing == [op |-> "browse"]
Short == [op |-> "short"]

\* The two orders that the repository ships, the dearer one first and longer by a
\* digit, as there.
MCShipped == <<Printed(1, 12), Printed(2, 1)>>
NoOrders == <<>>

\* Orders of different totals, payments of the first, the second and no order.
MixedRequests == {Order("a", "c", 1), Order("c", "b", 1),
                  Pay(1, 12), Pay(2, 1), Pay(7, 12)}
SerialRequests == {Order("a", "c", 1), Order("c", "b", 1), Order("c", "c", 1),
                   Pay(1, 1), Pay(2, 12), Pay(3, 12), Pay(7, 12), Browsing, Short,
                   Display(2, 1, 2), Display(3, 1, 2)}

Symmetry == Permutations(Procs)
=============================================================================

-------------------------- MODULE MCDatagramServer --------------------------
(* Instances of DatagramServer for TLC.                                    *)
EXTENDS DatagramServer

\* A word of the header of books.txt, two of its books, and one that it does not hold.
MCWords == {"Title", "Ugly", "Clean", "Nix"}
MCBooks == <<[holds |-> {"Title"}, price |-> 0], [holds |-> {"Ugly"}, price |-> 3],
             [holds |-> {"Clean"}, price |-> 2]>>
NoLog == <<>>

Pay2(orderno) == [op |-> "pay", orderno |-> orderno, amount |-> 2]
Order(x, n) == [op |-> "order", x |-> x, n |-> n]
\* Three of the first book come to 9, which as an int of four bits is -7.
AllRequests == {[op |-> "display", m |-> 2, x |-> 1, z |-> 1],
                [op |-> "display", m |-> 2, x |-> 1, z |-> 2],
                [op |-> "search", word |-> "Nix"], [op |-> "search", word |-> "Title"],
                Order("Ugly", 1), Order("Ugly", 3), Order("Nix", 1), Pay2(1), Pay2(2), Pay2(-2)}
=============================================================================

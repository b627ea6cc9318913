--------------------------- MODULE MCThreadServer ---------------------------
(* Instances of ThreadServer for TLC.                                      *)
EXTENDS ThreadServer

\* Two of the words of books.txt, below its header, and one that it does not hold.
MCWords == {"Ugly", "Clean", "Nix"}
MCBooks == <<[holds |-> {}, price |-> 0], [holds |-> {"Ugly"}, price |-> 3],
             [holds |-> {"Clean"}, price |-> 2]>>
NoLog == <<>>

\* The answers of books_server.c that free meets as literals.
ThreadLiterals == {"Book Not Found", "Internal Server Error"}

\* A catalogue of the first book, and one of none.
Display(m, x, z) == [op |-> "display", m |-> m, x |-> x, z |-> z]
Order(x) == [op |-> "order", x |-> x, n |-> 1]
Find(word) == [op |-> "search", word |-> word]
Pay2(orderno, amount) == [op |-> "pay", orderno |-> orderno, amount |-> amount]

AllRequests == {Display(2, 1, 1), Display(2, 1, 2), Find("Nix"), Order("Ugly"), Order("Nix"),
                Pay2(1, 2)}
BillRequests == {Find("Ugly"), Order("Ugly"), Order("Clean"), Pay2(1, 2)}
=============================================================================

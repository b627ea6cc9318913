------------------------------ MODULE OrderLog ------------------------------
(***************************************************************************)
(* The book functions of interface.h, which three servers share: books.txt *)
(* is searched for a substring, orders.txt is a log of "<title> <number>"  *)
(* lines to which OrderBook appends and of which PayForBook bills one.     *)
(* A log is the sequence of its lines.  The empty sequence is a missing    *)
(* file or an empty one, such as fopen makes before fclose writes the      *)
(* first line; a server says when it may be the latter.  Books[1] is the   *)
(* header of books.txt, in which words are found as in any other line.     *)
(***************************************************************************)
EXTENDS Integers, Sequences

CONSTANTS Words,     \* the words users type
          Books,     \* the lines of books.txt, in order, the header first
          IntHalf    \* an int is in -IntHalf..(IntHalf - 1)

\* Of a line of books.txt: the words that strstr finds in it, and the number
\* after its last space.
BookLine == [holds : SUBSET Words, price : Int]
OrderLine == [title : Words, n : Int]

\* struct Data, with the fields that each choice fills in.
Request == [op : {"display"}, m : Int, x : Int, z : Int]
           \cup [op : {"search"}, word : Words]
           \cup [op : {"order"}, x : Words, n : Int]
           \cup [op : {"pay"}, orderno : Int, amount : Int]

\* The line that a request adds to orders.txt.
LineOf(r) == [title |-> r.x, n |-> r.n]

ASSUME BooksAssumption == Books \in Seq(BookLine)
ASSUME IntAssumption == IntHalf \in Nat \ {0}

NoBook == 0
NoSuchOrder == -1

\* SearchBook: the first line that holds the word.
SearchBook(word) ==
  LET hits == {i \in 1..Len(Books) : word \in Books[i].holds}
  IN  IF hits = {} THEN NoBook
                   ELSE CHOOSE i \in hits : \A j \in hits : i <= j

\* DisplayCatalog: how many lines are wanted, and which lines, counted from
\* zero, it appends to the response; the header never is one of them.
Entries(m, x, z) == IF x + m < z THEN m ELSE z - x
Displayed(m, x, z) ==
  LET first == IF x < 1 THEN 1 ELSE x
  IN  {i \in 1..(Len(Books) - 1) : first <= i /\ i < first + Entries(m, x, z)}

\* Mutant (not the code): line 113 takes the number of lines for too high.
BilledStrict(log, orderno) ==
  IF orderno \in 0..(Len(log) - 1) THEN orderno + 1
  ELSE IF orderno >= Len(log) THEN 0 ELSE Len(log)

\* PayForBook: the line in the buffer after the loop of lines 104-110, which
\* counts from zero; a loop that runs to the end leaves the last line there,
\* and the test of line 113 lets it pass for Len(log) and for what is negative.
Billed(log, orderno) ==
  IF orderno \in 0..(Len(log) - 1) THEN orderno + 1
  ELSE IF orderno > Len(log) THEN 0 ELSE Len(log)

\* PayForBook: the product of two ints, which wraps around.
Total(price, n) == ((price * n + IntHalf) % (2 * IntHalf)) - IntHalf

\* PayForBook: what it may return.  In an empty file it finds no order, unless
\* the number is not above zero: then it bills what lay in its buffer.  getBookTitle
\* does not terminate the title it copies, so what SearchBook looks for is the
\* title and what lay behind it: the first line that holds that is one of those
\* that hold the title.
PayForBook(log, orderno) ==
  IF log = <<>> /\ orderno <= 0 THEN -IntHalf..(IntHalf - 1)
  ELSE IF Billed(log, orderno) = 0 THEN {NoSuchOrder}
  ELSE LET line == log[Billed(log, orderno)]
           hits == {i \in 1..Len(Books) : line.title \in Books[i].holds}
       IN  {Total(Books[i].price, line.n) : i \in hits}

\* PayForBook: whether it may end the process.  fgets on a missing file does, what
\* lay in the buffer may, and so may the free of SearchBook's static answer, which
\* it returns if no line holds the title.
PayMayCrash(log, orderno) == log = <<>> \/ Billed(log, orderno) # 0
=============================================================================

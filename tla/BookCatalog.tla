---------------------------- MODULE BookCatalog -----------------------------
(***************************************************************************)
(* The book catalogue of concurrent-connectionless/server.c, which         *)
(* putBooksInDataStructures reads from books2.txt before the server's loop *)
(* and which never changes afterwards: the lines of the file after the     *)
(* header, each reduced to the columns the order path looks at.            *)
(***************************************************************************)
EXTENDS Integers, Sequences

CONSTANTS Strings,    \* the strings users type and books carry
          Catalog     \* the books, in the order of the file

Book == [title : Strings, isbn : Strings, price : Int]

ASSUME CatalogAssumption == Catalog \in Seq(Book)

NoBook == 0

\* SearchBook: the first line whose column 2 or 4 is the string; once a line
\* has matched, the inner loop leaves every later line at its first column.
SearchBook(string) ==
  LET hits == {i \in 1..Len(Catalog) :
                  string \in {Catalog[i].title, Catalog[i].isbn}}
  IN  IF hits = {} THEN NoBook
                   ELSE CHOOSE i \in hits : \A j \in hits : i <= j

\* OrderBook: the book is looked up by x and, when that finds nothing, by y.
BookToOrder(x, y) ==
  IF SearchBook(x) # NoBook THEN SearchBook(x) ELSE SearchBook(y)

\* OrderBook: price * n, with the price of column 7.
TotalPrice(x, y, n) == Catalog[BookToOrder(x, y)].price * n

\* DisplayCatalog(M, X, Z): the array that holds the header at index 0 and the
\* books from 1 on; the books that its buffer is measured by (Z is compared as
\* an unsigned number, to which a negative one is a large one); and the books
\* that it then copies into the buffer.
NumOfBooks == Len(Catalog) + 1
UpperLimit(X) == IF X < 1 THEN 1 ELSE X
LowerLimit(Z) == IF Z < 0 \/ Z > NumOfBooks THEN NumOfBooks ELSE Z + 1
Measured(X, Z) == UpperLimit(X)..(LowerLimit(Z) - 1)
Copied(M, X) == UpperLimit(X)..M

\* DisplayCatalog stays within the array and within its buffer.
CatalogFits(M, X, Z) ==
  /\ Copied(M, X) \subseteq Measured(X, Z)
  /\ Measured(X, Z) \subseteq 1..Len(Catalog)
=============================================================================

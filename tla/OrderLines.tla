----------------------------- MODULE OrderLines -----------------------------
(***************************************************************************)
(* The order files of the concurrent connectionless book server            *)
(* (concurrent-connectionless/server.c).  created_orders.txt and           *)
(* paid_orders.txt hold one line "<order number>\t<total price>\n" per     *)
(* order; a file is here the sequence of its lines.  The operators are the *)
(* computations that OrderBook and PayForBook make on those lines.         *)
(*                                                                         *)
(* A buffer written at offset 0 over an older text may end in the middle   *)
(* of one of its lines, of which it leaves the end.  So a line is the one  *)
(* that was printed and how many bytes it has lost at its front.           *)
(***************************************************************************)
EXTENDS Integers, Sequences, FiniteSets

Line == [num : Int, total : Int, cut : Nat]

\* What fprintf("%d\t%d\n") prints.
Printed(num, total) == [num |-> num, total |-> total, cut |-> 0]
Whole(s) == \A i \in 1..Len(s) : s[i].cut = 0

\* The characters of "%d", for an int of at most ten digits, and the number that
\* is left without the first k of them.
Magnitude(n) == IF n < 0 THEN -n ELSE n
Chars(n) == (IF n < 0 THEN 2 ELSE 1) + Cardinality({d \in 1..9 : Magnitude(n) >= 10^d})
LastDigits(n, k) == IF k = 0 THEN n ELSE Magnitude(n) % 10^(Chars(n) - k)

\* sscanf(line, "%d\t%d"): it finds both numbers if some of the first is left.
\* Otherwise it skips white space and takes what is left of the total for the
\* first number; of a line that is only its newline it finds nothing.
HasBoth(l) == l.cut < Chars(l.num)
HasNumber(l) == l.cut < Chars(l.num) + 1 + Chars(l.total)
Number(l) ==
  IF HasBoth(l) THEN LastDigits(l.num, l.cut)
  ELSE IF l.cut = Chars(l.num) THEN l.total
  ELSE LastDigits(l.total, l.cut - Chars(l.num) - 1)

Last(S) == CHOOSE i \in S : \A j \in S : j <= i

\* OrderBook: lastOrderNumber after the fgets/sscanf loop, 0 for an empty file.
LastNumber(s) ==
  LET numbered == {i \in 1..Len(s) : HasNumber(s[i])}
  IN  IF numbered = {} THEN 0 ELSE Number(s[Last(numbered)])

\* PayForBook: currentTotalPrice after the getline/sscanf loop, if any line has one.
LastTotal(s) == s[Last({i \in 1..Len(s) : HasBoth(s[i])})].total

\* The positions of the lines that carry order number n.
IsOf(l, n) == HasBoth(l) /\ Number(l) = n
Matches(s, n) == {i \in 1..Len(s) : IsOf(s[i], n)}

\* PayForBook: wasOrderCreated.
WasCreated(s, n) == Matches(s, n) # {}

\* PayForBook: paidLine, overwritten by every match, so the last one stays.
PaidLine(s, n) == s[Last(Matches(s, n))]

\* The k-th smallest member of a finite set of numbers.
Nth(S, k) == CHOOSE i \in S : Cardinality({j \in S : j < i}) = k - 1

\* PayForBook: what is printed to temp.txt, every line that has both numbers
\* but those of order n.
IsKept(l, n) == HasBoth(l) /\ Number(l) # n
Kept(s, n) == {i \in 1..Len(s) : IsKept(s[i], n)}
Without(s, n) ==
  [k \in 1..Cardinality(Kept(s, n)) |-> s[Nth(Kept(s, n), k)]]

\* The bytes of a text, by line and place: in each line two numbers, a tab and a
\* newline, but for what the line has lost.
Size(l) == Chars(l.num) + 1 + Chars(l.total) + 1 - l.cut
Bytes(s) == UNION {{i} \X (1..Size(s[i])) : i \in 1..Len(s)}
Before(s, i) == Cardinality({b \in Bytes(s) : b[1] < i})

\* A text from its n-th byte on: the lines that reach beyond it, the first of
\* them without what lies before it.
Beyond(s, n) ==
  LET left == Cardinality({i \in 1..Len(s) : Before(s, i + 1) > n})
      Cut(l, k) == IF k > 0 THEN [l EXCEPT !.cut = @ + k] ELSE l
  IN  [k \in 1..left |-> LET i == Len(s) - left + k
                         IN  Cut(s[i], n - Before(s, i))]

\* A buffer written at offset 0 of a file that already holds "old".
Overlay(new, old) == new \o Beyond(old, Cardinality(Bytes(new)))

\* Vocabulary of the properties.
Lines(s) == {s[i] : i \in 1..Len(s)}
Copies(s, l) == Cardinality({i \in 1..Len(s) : s[i] = l})
Ascending(s) == Whole(s) /\ \A i, j \in 1..Len(s) : i < j => s[i].num < s[j].num
=============================================================================

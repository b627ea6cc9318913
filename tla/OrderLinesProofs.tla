-------------------------- MODULE OrderLinesProofs --------------------------
(***************************************************************************)
(* Facts about the operators of OrderLines, for every order file.          *)
(***************************************************************************)
EXTENDS OrderLines, FiniteSetTheorems, TLAPS

\* The members of a finite set of integers have pairwise different ranks, so
\* its k-th smallest member exists for every k up to its size.
LEMMA NthType ==
  ASSUME NEW S \in SUBSET Int, IsFiniteSet(S), NEW k \in 1..Cardinality(S)
  PROVE  /\ Nth(S, k) \in S
         /\ Cardinality({j \in S : j < Nth(S, k)}) = k - 1
  <1> DEFINE below(i) == {j \in S : j < i}
             rank == [i \in S |-> Cardinality(below(i)) + 1]
             N == Cardinality(S)
  <1>1. N \in Nat
    BY FS_CardinalityType
  <1>2. ASSUME NEW i \in S
        PROVE  IsFiniteSet(below(i)) /\ Cardinality(below(i)) \in 0..(N - 1)
    <2>1. below(i) \in SUBSET S /\ below(i) # S
      <3>1. i \notin below(i)
        OBVIOUS
      <3> QED BY <3>1
    <2>2. IsFiniteSet(below(i)) /\ Cardinality(below(i)) <= N
          /\ (N = Cardinality(below(i)) => S = below(i))
      BY <2>1, FS_Subset
    <2>3. Cardinality(below(i)) \in Nat
      BY <2>2, FS_CardinalityType
    <2> QED BY <1>1, <2>1, <2>2, <2>3
  <1>3. rank \in [S -> 1..N]
    BY <1>1, <1>2
  <1>4. ASSUME NEW i \in S, NEW j \in S, i < j
        PROVE  Cardinality(below(i)) < Cardinality(below(j))
    <2>0. \A l \in S : l < i => l < j
      <3> SUFFICES ASSUME NEW l \in S, l < i PROVE l < j
        OBVIOUS
      <3>1. l \in Int /\ i \in Int /\ j \in Int
        OBVIOUS
      <3> QED BY <1>4, <3>1
    <2>1. below(i) \in SUBSET below(j) /\ i \in below(j) /\ i \notin below(i)
      <3>1. i \in Int /\ ~(i < i)
        OBVIOUS
      <3> QED BY <1>4, <2>0, <3>1
    <2>2. below(i) # below(j)
      BY <2>1
    <2>3. IsFiniteSet(below(j))
      BY <1>2
    <2>4. Cardinality(below(i)) <= Cardinality(below(j))
          /\ (Cardinality(below(j)) = Cardinality(below(i)) => below(j) = below(i))
      BY <2>1, <2>3, FS_Subset
    <2> HIDE DEF below
    <2> QED BY <1>2, <2>2, <2>4
  <1>5. \A i, j \in S : rank[i] = rank[j] => i = j
    <2> SUFFICES ASSUME NEW i \in S, NEW j \in S, rank[i] = rank[j]
                 PROVE  i = j
      OBVIOUS
    <2>1. Cardinality(below(i)) \in Int /\ Cardinality(below(j)) \in Int
      BY <1>2
    <2>2. Cardinality(below(i)) + 1 = Cardinality(below(j)) + 1
      OBVIOUS
    <2>3. i \in Int /\ j \in Int
      OBVIOUS
    <2> HIDE DEF below
    <2>4. ~(i < j) /\ ~(j < i)
      BY <1>4, <2>1, <2>2
    <2> QED BY <2>3, <2>4
  <1>6. rank \in Injection(S, 1..N)
    BY <1>3, <1>5 DEF Injection, IsInjective
  <1>7. IsFiniteSet(1..N) /\ Cardinality(1..N) = N
    BY <1>1, FS_Interval
  <1>8. rank \in Surjection(S, 1..N)
    <2> HIDE DEF rank
    <2> QED BY <1>6, <1>7, FS_Injection
  <1>9. PICK i \in S : rank[i] = k
    <2> HIDE DEF rank
    <2> QED BY <1>8 DEF Surjection
  <1>10. Cardinality(below(i)) = k - 1
    <2>1. Cardinality(below(i)) + 1 = k
      BY <1>9
    <2>2. Cardinality(below(i)) \in Int
      BY <1>2
    <2> HIDE DEF below
    <2> QED BY <2>1, <2>2
  <1> QED BY <1>10 DEF Nth

\* Larger ranks belong to larger members.
LEMMA NthAscends ==
  ASSUME NEW S \in SUBSET Int, IsFiniteSet(S),
         NEW k \in 1..Cardinality(S), NEW m \in 1..Cardinality(S), k < m
  PROVE  Nth(S, k) < Nth(S, m)
  <1> DEFINE a == Nth(S, k)
             b == Nth(S, m)
             belowA == {j \in S : j < a}
             belowB == {j \in S : j < b}
  <1>1. a \in S /\ Cardinality(belowA) = k - 1
    BY NthType
  <1>2. b \in S /\ Cardinality(belowB) = m - 1
    BY NthType
  <1>3. a \in Int /\ b \in Int
    BY <1>1, <1>2
  <1>4. ASSUME b <= a PROVE FALSE
    <2>1. belowB \in SUBSET belowA
      <3> SUFFICES ASSUME NEW j \in S, j < b PROVE j < a
        OBVIOUS
      <3> HIDE DEF a, b
      <3>1. j \in Int
        OBVIOUS
      <3> QED BY <1>3, <1>4, <3>1
    <2>2. IsFiniteSet(belowA)
      <3>1. belowA \in SUBSET S
        OBVIOUS
      <3> QED BY <3>1, FS_Subset
    <2>3. Cardinality(belowB) <= Cardinality(belowA)
      <3> HIDE DEF belowA, belowB
      <3> QED BY <2>1, <2>2, FS_Subset
    <2>4. m - 1 <= k - 1
      BY <1>1, <1>2, <2>3
    <2>5. k \in Int /\ m \in Int
      OBVIOUS
    <2> QED BY <2>4, <2>5
  <1> QED
    <2> HIDE DEF a, b
    <2>1. a < b
      BY <1>3, <1>4
    <2> QED BY <2>1 DEF a, b

-----------------------------------------------------------------------------
(* What sscanf finds in a line.                                            *)

LEMMA UpToFinite ==
  ASSUME NEW m \in Nat PROVE IsFiniteSet(1..m) /\ Cardinality(1..m) = m
  <1>1. IsFiniteSet(1..m) /\ Cardinality(1..m) = IF 1 > m THEN 0 ELSE m - 1 + 1
    BY FS_Interval
  <1> QED BY <1>1

\* An int of at most ten digits and its sign.
LEMMA CharsType ==
  ASSUME NEW n \in Int PROVE Chars(n) \in 1..11
  <1> DEFINE D == {d \in 1..9 : Magnitude(n) >= 10^d}
  <1>1. IsFiniteSet(1..9) /\ Cardinality(1..9) = 9
    <2>1. 9 \in Nat
      OBVIOUS
    <2> QED BY ONLY <2>1, UpToFinite
  <1>2. D \in SUBSET (1..9)
    OBVIOUS
  <1>3. Cardinality(D) \in Nat /\ Cardinality(D) <= 9
    <2> HIDE DEF D
    <2> QED BY <1>1, <1>2, FS_Subset, FS_CardinalityType
  <1>4. Chars(n) = (IF n < 0 THEN 2 ELSE 1) + Cardinality(D)
    BY DEF Chars
  <1> HIDE DEF D
  <1> QED BY <1>3, <1>4

LEMMA LastDigitsType ==
  ASSUME NEW n \in Int, NEW k \in Nat, k < Chars(n)
  PROVE  LastDigits(n, k) \in Int
  <1>1. CASE k = 0
    BY <1>1 DEF LastDigits
  <1>2. CASE k # 0
    <2> DEFINE j == Chars(n) - k
    <2>1. j \in 1..10
      BY <1>2, CharsType
    <2>2. 10^j \in Int /\ 10^j > 0
      <3> HIDE DEF j
      <3>1. \/ j = 1 \/ j = 2 \/ j = 3 \/ j = 4 \/ j = 5
            \/ j = 6 \/ j = 7 \/ j = 8 \/ j = 9 \/ j = 10
        BY <2>1
      <3>2. /\ 10^1 > 0 /\ 10^2 > 0 /\ 10^3 > 0 /\ 10^4 > 0 /\ 10^5 > 0
            /\ 10^6 > 0 /\ 10^7 > 0 /\ 10^8 > 0 /\ 10^9 > 0 /\ 10^10 > 0
        OBVIOUS
      <3>3. 10^j > 0
        BY <3>1, <3>2
      <3> QED BY <2>1, <3>3
    <2>3. Magnitude(n) \in Int
      BY DEF Magnitude
    <2> HIDE DEF j
    <2>4. Magnitude(n) % 10^j \in Int
      BY <2>2, <2>3
    <2> QED BY <1>2, <2>4 DEF LastDigits, j
  <1> QED BY <1>1, <1>2

LEMMA NumberType ==
  ASSUME NEW l \in Line, HasNumber(l) PROVE Number(l) \in Int
  <1>1. l.num \in Int /\ l.total \in Int /\ l.cut \in Nat
    BY DEF Line
  <1>2. Chars(l.num) \in Int /\ Chars(l.total) \in Int
    BY <1>1, CharsType
  <1>3. CASE HasBoth(l)
    BY <1>1, <1>3, LastDigitsType DEF HasBoth, Number
  <1>4. CASE l.cut = Chars(l.num)
    BY <1>1, <1>2, <1>4 DEF HasBoth, Number
  <1>5. CASE ~HasBoth(l) /\ l.cut # Chars(l.num)
    <2> DEFINE k == l.cut - Chars(l.num) - 1
    <2>1. k \in Nat /\ k < Chars(l.total)
      BY <1>1, <1>2, <1>5 DEF HasBoth, HasNumber
    <2>2. LastDigits(l.total, k) \in Int
      <3> HIDE DEF k
      <3> QED BY <1>1, <2>1, LastDigitsType
    <2> QED BY <1>5, <2>2 DEF Number
  <1> QED BY <1>3, <1>4, <1>5

\* A line that has lost nothing reads as it was printed.
LEMMA WholeLine ==
  ASSUME NEW l \in Line, l.cut = 0
  PROVE  HasBoth(l) /\ HasNumber(l) /\ Number(l) = l.num
  <1>1. l.num \in Int /\ l.total \in Int
    BY DEF Line
  <1>2. Chars(l.num) \in 1..11 /\ Chars(l.total) \in 1..11
    BY <1>1, CharsType
  <1> QED BY <1>1, <1>2 DEF HasBoth, HasNumber, Number, LastDigits

LEMMA PrintedType ==
  ASSUME NEW n \in Int, NEW m \in Int
  PROVE  /\ Printed(n, m) \in Line
         /\ Printed(n, m).num = n /\ Printed(n, m).total = m /\ Printed(n, m).cut = 0
  BY DEF Printed, Line

\* Positions of a file, when there are any, have a last one.
LEMMA LastType ==
  ASSUME NEW m \in Nat, NEW S \in SUBSET (1..m), S # {}
  PROVE  Last(S) \in S /\ \A j \in S : j <= Last(S)
  <1>1. S \in SUBSET Int /\ IsFiniteSet(S)
    <2>1. IsFiniteSet(1..m)
      BY UpToFinite
    <2>2. IsFiniteSet(S)
      BY <2>1, FS_Subset
    <2> QED BY <2>2
  <1>2. Cardinality(S) \in Nat /\ Cardinality(S) # 0
    BY <1>1, FS_CardinalityType, FS_EmptySet
  <1> DEFINE top == Nth(S, Cardinality(S))
  <1>3. top \in S /\ Cardinality({j \in S : j < top}) = Cardinality(S) - 1
    <2>1. Cardinality(S) \in 1..Cardinality(S)
      BY <1>2
    <2> QED BY <1>1, <2>1, NthType
  <1>4. \A j \in S : j <= top
    <2> SUFFICES ASSUME NEW j \in S, ~(j <= top) PROVE FALSE
      OBVIOUS
    <2> DEFINE B == {i \in S : i < top}
    <2>1. top \in Int /\ j \in Int
      <3> HIDE DEF top
      <3> QED BY <1>1, <1>3
    <2>2. IsFiniteSet(S \ {top}) /\ Cardinality(S \ {top}) = Cardinality(S) - 1
      <3> HIDE DEF top
      <3> QED BY <1>1, <1>3, FS_RemoveElement
    <2>3. B \in SUBSET (S \ {top}) /\ j \notin B /\ j \in S \ {top}
      <3> HIDE DEF top
      <3> QED BY <2>1
    <2>4. Cardinality(B) = Cardinality(S \ {top})
      BY <1>3, <2>2
    <2>5. S \ {top} = B
      <3> HIDE DEF top, B
      <3> QED BY <2>2, <2>3, <2>4, FS_Subset
    <2> QED BY <2>3, <2>5
  <1> HIDE DEF top
  <1>5. \E i \in S : \A j \in S : j <= i
    BY <1>3, <1>4
  <1> QED BY <1>5 DEF Last

LEMMA LastNumberType ==
  ASSUME NEW s \in Seq(Line)
  PROVE  LastNumber(s) \in Int
  <1> DEFINE S == {i \in 1..Len(s) : HasNumber(s[i])}
  <1>1. CASE S = {}
    BY <1>1 DEF LastNumber
  <1>2. CASE S # {}
    <2>1. Last(S) \in S
      <3>1. S \in SUBSET (1..Len(s)) /\ Len(s) \in Nat
        OBVIOUS
      <3> HIDE DEF S
      <3> QED BY <1>2, <3>1, LastType
    <2>2. s[Last(S)] \in Line /\ HasNumber(s[Last(S)])
      BY <2>1
    <2>3. Number(s[Last(S)]) \in Int
      BY <2>2, NumberType
    <2> QED BY <1>2, <2>3 DEF LastNumber
  <1> QED BY <1>1, <1>2

\* In a file of whole lines the numbers that count are those of the last line.
LEMMA LastOfWhole ==
  ASSUME NEW s \in Seq(Line), Whole(s), s # <<>>
  PROVE  LastNumber(s) = s[Len(s)].num /\ LastTotal(s) = s[Len(s)].total
  <1>1. \A i \in 1..Len(s) :
           HasBoth(s[i]) /\ HasNumber(s[i]) /\ Number(s[i]) = s[i].num
    <2> SUFFICES ASSUME NEW i \in 1..Len(s)
                 PROVE  HasBoth(s[i]) /\ HasNumber(s[i]) /\ Number(s[i]) = s[i].num
      OBVIOUS
    <2>1. s[i] \in Line /\ s[i].cut = 0
      BY DEF Whole
    <2> QED BY <2>1, WholeLine
  <1> DEFINE S == {i \in 1..Len(s) : HasNumber(s[i])}
             T == {i \in 1..Len(s) : HasBoth(s[i])}
  <1>2. S = 1..Len(s) /\ T = 1..Len(s)
    BY <1>1
  <1>3. Len(s) \in Nat /\ Len(s) \in 1..Len(s)
    OBVIOUS
  <1>4. Last(1..Len(s)) = Len(s)
    <2> DEFINE I == 1..Len(s)
    <2>1. Last(I) \in I /\ \A j \in I : j <= Last(I)
      BY <1>3, LastType
    <2> QED BY <1>3, <2>1
  <1> QED BY <1>1, <1>2, <1>3, <1>4 DEF LastNumber, LastTotal

\* The paid line is one of the file's lines and carries the order number.
LEMMA PaidLineIsLine ==
  ASSUME NEW s \in Seq(Line), NEW n, WasCreated(s, n)
  PROVE  PaidLine(s, n) \in Lines(s) /\ IsOf(PaidLine(s, n), n)
  <1> DEFINE M == Matches(s, n)
  <1>1. M \in SUBSET (1..Len(s)) /\ M # {} /\ Len(s) \in Nat
    BY DEF WasCreated, Matches
  <1>2. Last(M) \in M
    <2> HIDE DEF M
    <2> QED BY <1>1, LastType
  <1> QED BY <1>2 DEF PaidLine, Matches, Lines

\* What is kept for temp.txt is a subsequence of the file, in its order.
LEMMA KeptFinite ==
  ASSUME NEW s \in Seq(Line), NEW n
  PROVE  /\ Kept(s, n) \in SUBSET (1..Len(s))
         /\ Kept(s, n) \in SUBSET Int
         /\ IsFiniteSet(Kept(s, n))
         /\ Cardinality(Kept(s, n)) \in Nat
  <1>1. Kept(s, n) \in SUBSET (1..Len(s))
    BY DEF Kept
  <1>2. IsFiniteSet(1..Len(s))
    BY FS_Interval
  <1> QED BY <1>1, <1>2, FS_Subset, FS_CardinalityType

LEMMA WithoutType ==
  ASSUME NEW s \in Seq(Line), NEW n
  PROVE  /\ Without(s, n) \in Seq(Line)
         /\ Lines(Without(s, n)) \subseteq Lines(s)
  <1> DEFINE K == Kept(s, n)
             w == Without(s, n)
  <1>1. /\ K \in SUBSET (1..Len(s)) /\ K \in SUBSET Int /\ IsFiniteSet(K)
        /\ Cardinality(K) \in Nat
    BY KeptFinite
  <1>2. \A k \in 1..Cardinality(K) : Nth(K, k) \in 1..Len(s)
    <2> HIDE DEF K
    <2> QED BY <1>1, NthType
  <1>3. w = [k \in 1..Cardinality(K) |-> s[Nth(K, k)]]
    BY DEF Without
  <1>4. \A k \in 1..Cardinality(K) : w[k] \in Line /\ w[k] \in Lines(s)
    BY <1>2, <1>3 DEF Lines
  <1>5. w \in Seq(Line) /\ Len(w) = Cardinality(K)
    <2> HIDE DEF K
    <2> QED BY <1>1, <1>3, <1>4
  <1> QED
    <2> HIDE DEF K, w
    <2>1. Lines(w) \subseteq Lines(s)
      BY <1>4, <1>5 DEF Lines
    <2> QED BY <1>5, <2>1 DEF w

\* A line has at most 24 bytes.
LEMMA SizeBound ==
  ASSUME NEW l \in Line PROVE Size(l) \in Int /\ Size(l) <= 24
  <1>1. l.num \in Int /\ l.total \in Int /\ l.cut \in Nat
    BY DEF Line
  <1>2. Chars(l.num) \in 1..11 /\ Chars(l.total) \in 1..11
    BY <1>1, CharsType
  <1> DEFINE a == Chars(l.num)  b == Chars(l.total)  c == l.cut
  <1>3. a \in 1..11 /\ b \in 1..11 /\ c \in Nat
    BY <1>1, <1>2
  <1>4. Size(l) = a + 1 + b + 1 - c
    BY DEF Size
  <1> HIDE DEF a, b, c
  <1> QED BY <1>3, <1>4

\* A buffer written over an older text leaves lines and ends of lines.
LEMMA BytesFinite ==
  ASSUME NEW s \in Seq(Line), NEW i
  PROVE  Cardinality(Bytes(s)) \in Nat /\ Before(s, i) \in Nat
  <1> DEFINE all == (1..Len(s)) \X (1..24)
  <1>1. IsFiniteSet(1..Len(s)) /\ IsFiniteSet(1..24)
    <2>1. Len(s) \in Nat /\ 24 \in Nat
      OBVIOUS
    <2> QED BY ONLY <2>1, UpToFinite
  <1>2. IsFiniteSet(all)
    BY <1>1, FS_Product
  <1>3. ASSUME NEW k \in 1..Len(s) PROVE {k} \X (1..Size(s[k])) \subseteq all
    <2>1. s[k] \in Line
      OBVIOUS
    <2>2. Size(s[k]) \in Int /\ Size(s[k]) <= 24
      BY <2>1, SizeBound
    <2> DEFINE z == Size(s[k])
    <2>3. z \in Int /\ z <= 24
      BY <2>2
    <2> HIDE DEF z
    <2>4. 1..z \subseteq 1..24
      BY <2>3
    <2> QED BY <2>4 DEF z
  <1>4. Bytes(s) \in SUBSET all
    <2> HIDE DEF all
    <2> QED BY <1>3 DEF Bytes
  <1>5. {b \in Bytes(s) : b[1] < i} \in SUBSET all
    BY <1>4
  <1> HIDE DEF all
  <1>6. IsFiniteSet(Bytes(s)) /\ IsFiniteSet({b \in Bytes(s) : b[1] < i})
    BY <1>2, <1>4, <1>5, FS_Subset
  <1> QED BY <1>6, FS_CardinalityType DEF Before

LEMMA BeyondType ==
  ASSUME NEW s \in Seq(Line), NEW n \in Nat
  PROVE  Beyond(s, n) \in Seq(Line)
  <1> DEFINE R == {i \in 1..Len(s) : Before(s, i + 1) > n}
             left == Cardinality(R)
             Cut(l, k) == IF k > 0 THEN [l EXCEPT !.cut = @ + k] ELSE l
             at(k) == Len(s) - left + k
  <1>1. IsFiniteSet(1..Len(s)) /\ Cardinality(1..Len(s)) = Len(s)
    <2>1. Len(s) \in Nat
      OBVIOUS
    <2> QED BY ONLY <2>1, UpToFinite
  <1>2. R \in SUBSET (1..Len(s))
    OBVIOUS
  <1>3. left \in Nat /\ left <= Len(s)
    <2> HIDE DEF R
    <2> QED BY <1>1, <1>2, FS_Subset, FS_CardinalityType
  <1>4. Beyond(s, n) = [k \in 1..left |-> Cut(s[at(k)], n - Before(s, at(k)))]
    BY DEF Beyond
  <1> HIDE DEF left
  <1>5. ASSUME NEW k \in 1..left
        PROVE  Cut(s[at(k)], n - Before(s, at(k))) \in Line
    <2>1. at(k) \in 1..Len(s)
      BY <1>3
    <2>2. s[at(k)] \in Line /\ n - Before(s, at(k)) \in Int
      <3> HIDE DEF at
      <3> QED BY <2>1, BytesFinite
    <2> DEFINE l == s[at(k)]
               c == n - Before(s, at(k))
    <2>3. l \in Line /\ c \in Int
      BY <2>2
    <2> HIDE DEF l, c
    <2>4. Cut(l, c) \in Line
      BY <2>3 DEF Line
    <2> QED BY <2>4 DEF l, c
  <1> HIDE DEF Cut, at
  <1> QED BY <1>3, <1>4, <1>5

LEMMA OverlayType ==
  ASSUME NEW new \in Seq(Line), NEW old \in Seq(Line)
  PROVE  Overlay(new, old) \in Seq(Line)
  <1>1. Beyond(old, Cardinality(Bytes(new))) \in Seq(Line)
    BY BytesFinite, BeyondType
  <1> QED BY <1>1 DEF Overlay

\* A buffer written to an empty file is the file.
LEMMA OverlayEmpty ==
  ASSUME NEW s \in Seq(Line) PROVE Overlay(s, <<>>) = s
  <1> DEFINE n == Cardinality(Bytes(s))
             R == {i \in 1..Len(<<>>) : Before(<<>>, i + 1) > n}
  <1>1. R = {}
    OBVIOUS
  <1>2. Cardinality(R) = 0
    BY <1>1, FS_EmptySet
  <1>3. Beyond(<<>>, n) = <<>>
    BY <1>2 DEF Beyond
  <1> QED BY <1>3 DEF Overlay

LEMMA AppendLines ==
  ASSUME NEW s \in Seq(Line), NEW l \in Line
  PROVE  /\ Append(s, l) \in Seq(Line)
         /\ Lines(Append(s, l)) = Lines(s) \cup {l}
  <1>1. /\ Append(s, l) \in Seq(Line) /\ Len(Append(s, l)) = Len(s) + 1
        /\ \A i \in 1..Len(s) : Append(s, l)[i] = s[i]
        /\ Append(s, l)[Len(s) + 1] = l
    OBVIOUS
  <1>2. Lines(Append(s, l)) \subseteq Lines(s) \cup {l}
    BY <1>1 DEF Lines
  <1>3. Lines(s) \cup {l} \subseteq Lines(Append(s, l))
    BY <1>1 DEF Lines
  <1> QED BY <1>1, <1>2, <1>3

-----------------------------------------------------------------------------
(* How often a line occurs.                                                *)

LEMMA PositionsFinite ==
  ASSUME NEW s \in Seq(Line), NEW l
  PROVE  /\ IsFiniteSet({i \in 1..Len(s) : s[i] = l})
         /\ Copies(s, l) \in Nat
  <1>1. IsFiniteSet(1..Len(s)) /\ {i \in 1..Len(s) : s[i] = l} \in SUBSET (1..Len(s))
    BY FS_Interval
  <1>2. IsFiniteSet({i \in 1..Len(s) : s[i] = l})
    BY <1>1, FS_Subset
  <1> QED BY <1>2, FS_CardinalityType DEF Copies

\* A line has a copy exactly if it is one of the lines.
LEMMA CopiesOfLines ==
  ASSUME NEW s \in Seq(Line), NEW l
  PROVE  l \in Lines(s) <=> Copies(s, l) # 0
  <1>1. IsFiniteSet({i \in 1..Len(s) : s[i] = l})
    BY PositionsFinite
  <1>2. l \in Lines(s) <=> {i \in 1..Len(s) : s[i] = l} # {}
    BY DEF Lines
  <1> QED BY <1>1, <1>2, FS_EmptySet DEF Copies

LEMMA CopiesOfNone == ASSUME NEW l PROVE Copies(<<>>, l) = 0
  <1>1. <<>> \in Seq(Line) /\ l \notin Lines(<<>>)
    BY DEF Lines
  <1> QED BY <1>1, CopiesOfLines

LEMMA AppendCopies ==
  ASSUME NEW s \in Seq(Line), NEW e \in Line, NEW l
  PROVE  Copies(Append(s, e), l) = Copies(s, l) + (IF l = e THEN 1 ELSE 0)
  <1> DEFINE at(q) == {i \in 1..Len(q) : q[i] = l}
             n == Len(s) + 1
  <1>1. /\ Len(Append(s, e)) = n /\ Append(s, e)[n] = e /\ n \notin 1..Len(s)
        /\ \A i \in 1..Len(s) : Append(s, e)[i] = s[i]
        /\ 1..n = (1..Len(s)) \cup {n}
    OBVIOUS
  <1>2. IsFiniteSet(at(s)) /\ Copies(s, l) \in Nat
    BY PositionsFinite
  <1>3. n \notin at(s)
    BY <1>1
  <1>4. CASE l = e
    <2>1. at(Append(s, e)) = at(s) \cup {n}
      BY <1>1, <1>4
    <2>2. Cardinality(at(s) \cup {n}) = Cardinality(at(s)) + 1
      <3> HIDE DEF at
      <3> QED BY <1>2, <1>3, FS_AddElement
    <2> QED BY <1>4, <2>1, <2>2 DEF Copies
  <1>5. CASE l # e
    <2>1. at(Append(s, e)) = at(s)
      BY <1>1, <1>5
    <2>2. Copies(Append(s, e), l) = Copies(s, l)
      BY <2>1 DEF Copies
    <2> QED BY <1>2, <1>5, <2>2
  <1> QED BY <1>4, <1>5

-----------------------------------------------------------------------------
(* What is left of a file without one order.                               *)

\* Every member of a finite set of integers is the k-th smallest for some k.
LEMMA NthOnto ==
  ASSUME NEW S \in SUBSET Int, IsFiniteSet(S), NEW i \in S
  PROVE  \E k \in 1..Cardinality(S) : Nth(S, k) = i
  <1> DEFINE N == Cardinality(S)
             nth == [k \in 1..N |-> Nth(S, k)]
  <1>1. N \in Nat
    BY FS_CardinalityType
  <1>2. IsFiniteSet(1..N) /\ Cardinality(1..N) = N
    BY <1>1, FS_Interval
  <1>3. nth \in [1..N -> S]
    BY NthType
  <1>4. \A k, m \in 1..N : nth[k] = nth[m] => k = m
    <2> SUFFICES ASSUME NEW k \in 1..N, NEW m \in 1..N, nth[k] = nth[m], k # m
                 PROVE  FALSE
      OBVIOUS
    <2>1. Nth(S, k) \in Int /\ Nth(S, m) \in Int /\ Nth(S, k) = Nth(S, m)
      BY NthType
    <2>2. k < m \/ m < k
      BY <1>1
    <2> QED BY <2>1, <2>2, NthAscends
  <1>5. nth \in Injection(1..N, S)
    BY <1>3, <1>4 DEF Injection, IsInjective
  <1>6. nth \in Surjection(1..N, S)
    <2> HIDE DEF nth
    <2> QED BY <1>2, <1>5, FS_Injection
  <1>7. \E k \in 1..N : nth[k] = i
    <2> HIDE DEF nth
    <2> QED BY <1>6 DEF Surjection
  <1> QED BY <1>7

\* The rest of a file, position by position.
LEMMA WithoutPositions ==
  ASSUME NEW s \in Seq(Line), NEW n
  PROVE  LET K == Kept(s, n)
             w == Without(s, n)
         IN  /\ Len(w) = Cardinality(K)
             /\ \A k \in 1..Len(w) : Nth(K, k) \in K /\ w[k] = s[Nth(K, k)]
             /\ \A k, m \in 1..Len(w) : k < m => Nth(K, k) < Nth(K, m)
             /\ \A i \in K : \E k \in 1..Len(w) : Nth(K, k) = i
  <1> DEFINE K == Kept(s, n)
             w == Without(s, n)
  <1>1. K \in SUBSET Int /\ IsFiniteSet(K) /\ Cardinality(K) \in Nat
    BY KeptFinite
  <1>2. w = [k \in 1..Cardinality(K) |-> s[Nth(K, k)]] /\ w \in Seq(Line)
    BY WithoutType DEF Without
  <1>3. Len(w) = Cardinality(K)
    <2> HIDE DEF K
    <2> QED BY <1>1, <1>2
  <1> HIDE DEF K
  <1>4. \A k \in 1..Len(w) : Nth(K, k) \in K /\ w[k] = s[Nth(K, k)]
    BY <1>1, <1>2, <1>3, NthType
  <1>5. \A k, m \in 1..Len(w) : k < m => Nth(K, k) < Nth(K, m)
    BY <1>1, <1>3, NthAscends
  <1>6. \A i \in K : \E k \in 1..Len(w) : Nth(K, k) = i
    BY <1>1, <1>3, NthOnto
  <1> HIDE DEF w
  <1> QED BY <1>3, <1>4, <1>5, <1>6 DEF K, w

\* The paid order is gone and every other line is there as often as before.
LEMMA WithoutCopies ==
  ASSUME NEW s \in Seq(Line), NEW n, NEW l \in Line
  PROVE  Copies(Without(s, n), l) = IF IsKept(l, n) THEN Copies(s, l) ELSE 0
  <1> DEFINE K == Kept(s, n)
             w == Without(s, n)
             P == {k \in 1..Len(w) : w[k] = l}
             Q == {i \in 1..Len(s) : s[i] = l}
             to == [k \in P |-> Nth(K, k)]
  <1>1. /\ \A k \in 1..Len(w) : Nth(K, k) \in K /\ w[k] = s[Nth(K, k)]
        /\ \A k, m \in 1..Len(w) : k < m => Nth(K, k) < Nth(K, m)
        /\ \A i \in K : \E k \in 1..Len(w) : Nth(K, k) = i
    BY WithoutPositions
  <1>2. K \in SUBSET (1..Len(s)) /\ w \in Seq(Line)
    BY KeptFinite, WithoutType
  <1>3. \A i \in 1..Len(s) : i \in K <=> IsKept(s[i], n)
    BY DEF Kept
  <1>4. CASE ~IsKept(l, n)
    <2>1. l \notin Lines(w)
      <3> SUFFICES ASSUME NEW k \in 1..Len(w), w[k] = l PROVE FALSE
        BY DEF Lines
      <3> HIDE DEF K, w
      <3>1. Nth(K, k) \in K /\ l = s[Nth(K, k)]
        BY <1>1
      <3>2. IsKept(s[Nth(K, k)], n)
        BY <1>2, <1>3, <3>1
      <3> QED BY <1>4, <3>1, <3>2
    <2>2. Copies(w, l) = 0
      <3> HIDE DEF w
      <3> QED BY <1>2, <2>1, CopiesOfLines
    <2> QED BY <1>4, <2>2
  <1>5. CASE IsKept(l, n)
    <2> HIDE DEF K, w
    <2>1. to \in [P -> Q]
      BY <1>1, <1>2
    <2>2. \A k, m \in P : to[k] = to[m] => k = m
      <3> SUFFICES ASSUME NEW k \in P, NEW m \in P, to[k] = to[m], k # m
                   PROVE  FALSE
        OBVIOUS
      <3>1. k \in 1..Len(w) /\ m \in 1..Len(w) /\ Nth(K, k) = Nth(K, m)
        OBVIOUS
      <3>2. Nth(K, k) \in 1..Len(s)
        BY <1>1, <1>2, <3>1
      <3>3. k < m \/ m < k
        BY <3>1
      <3>4. Nth(K, k) < Nth(K, m) \/ Nth(K, m) < Nth(K, k)
        BY <1>1, <3>1, <3>3
      <3> HIDE DEF P, Q, to
      <3> QED BY <3>1, <3>2, <3>4
    <2>3. \A i \in Q : \E k \in P : to[k] = i
      BY <1>1, <1>3, <1>5
    <2>4. to \in Bijection(P, Q)
      BY <2>1, <2>2, <2>3 DEF Bijection, Injection, IsInjective, Surjection
    <2>5. ExistsBijection(P, Q)
      BY <2>4 DEF ExistsBijection
    <2>6. IsFiniteSet(P)
      BY <1>2, PositionsFinite
    <2>7. Cardinality(P) = Cardinality(Q)
      <3> HIDE DEF P, Q
      <3> QED BY <2>5, <2>6, FS_Bijection
    <2> QED BY <1>5, <2>7 DEF Copies, w
  <1> QED BY <1>4, <1>5

\* A receipt is a line that the file has and the rest of it has no more.
LEMMA WithoutAndReceipt ==
  ASSUME NEW s \in Seq(Line), NEW n, WasCreated(s, n), NEW l \in Line
  PROVE  Copies(Without(s, n), l) + (IF l = PaidLine(s, n) THEN 1 ELSE 0)
           <= Copies(s, l)
  <1>1. PaidLine(s, n) \in Lines(s) /\ ~IsKept(PaidLine(s, n), n)
    BY PaidLineIsLine DEF IsOf, IsKept
  <1>2. Copies(s, l) \in Nat /\ (l \in Lines(s) <=> Copies(s, l) # 0)
    BY PositionsFinite, CopiesOfLines
  <1> QED BY <1>1, <1>2, WithoutCopies

-----------------------------------------------------------------------------
(* Ascending order numbers.                                                *)

LEMMA AppendAscends ==
  ASSUME NEW s \in Seq(Line), Ascending(s), NEW e \in Line,
         e.num = LastNumber(s) + 1, e.cut = 0
  PROVE  Ascending(Append(s, e))
  <1>1. /\ Len(Append(s, e)) = Len(s) + 1 /\ Append(s, e)[Len(s) + 1] = e
        /\ \A i \in 1..Len(s) : Append(s, e)[i] = s[i]
    OBVIOUS
  <1>2. \A i \in 1..Len(s) : s[i].num < e.num
    <2> SUFFICES ASSUME NEW i \in 1..Len(s) PROVE s[i].num < e.num
      OBVIOUS
    <2>1. s # <<>> /\ Len(s) \in 1..Len(s)
      OBVIOUS
    <2>2. s[i].num \in Int /\ s[Len(s)].num \in Int
      <3>1. s[i] \in Line /\ s[Len(s)] \in Line
        BY <2>1
      <3> QED BY <3>1 DEF Line
    <2>3. s[i].num <= s[Len(s)].num
      BY <2>1, <2>2 DEF Ascending
    <2>4. e.num = s[Len(s)].num + 1
      BY <2>1, LastOfWhole DEF Ascending
    <2> QED BY <2>2, <2>3, <2>4
  <1> QED BY <1>1, <1>2 DEF Ascending, Whole

LEMMA WithoutAscends ==
  ASSUME NEW s \in Seq(Line), Ascending(s), NEW n
  PROVE  Ascending(Without(s, n))
  <1> DEFINE K == Kept(s, n)
             w == Without(s, n)
  <1>1. /\ \A k \in 1..Len(w) : Nth(K, k) \in K /\ w[k] = s[Nth(K, k)]
        /\ \A k, m \in 1..Len(w) : k < m => Nth(K, k) < Nth(K, m)
    BY WithoutPositions
  <1>2. K \in SUBSET (1..Len(s))
    BY KeptFinite
  <1> HIDE DEF K, w
  <1>3. \A k, m \in 1..Len(w) : k < m => w[k].num < w[m].num
    BY <1>1, <1>2 DEF Ascending
  <1>4. Whole(w)
    BY <1>1, <1>2 DEF Ascending, Whole
  <1> QED BY <1>3, <1>4 DEF Ascending, w

\* With ascending numbers a line occurs at most once, and a number names it.
LEMMA AscendingNames ==
  ASSUME NEW s \in Seq(Line), Ascending(s)
  PROVE  /\ \A l \in Lines(s), k \in Lines(s) : l.num = k.num => l = k
         /\ \A l \in Lines(s) : Copies(s, l) = 1
  <1>1. \A i, j \in 1..Len(s) : s[i].num = s[j].num => i = j
    <2> SUFFICES ASSUME NEW i \in 1..Len(s), NEW j \in 1..Len(s),
                        s[i].num = s[j].num, i # j
                 PROVE  FALSE
      OBVIOUS
    <2>1. s[i].num \in Int /\ s[j].num \in Int /\ (i < j \/ j < i)
      <3>1. s[i] \in Line /\ s[j] \in Line
        OBVIOUS
      <3> QED BY <3>1 DEF Line
    <2> QED BY <2>1 DEF Ascending
  <1>2. ASSUME NEW l \in Lines(s) PROVE Copies(s, l) = 1
    <2>1. PICK i \in 1..Len(s) : s[i] = l
      BY DEF Lines
    <2>2. {j \in 1..Len(s) : s[j] = l} = {i}
      BY <1>1, <2>1
    <2> QED BY <2>2, FS_Singleton DEF Copies
  <1> QED BY <1>1, <1>2 DEF Lines
=============================================================================

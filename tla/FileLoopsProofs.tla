-------------------------- MODULE FileLoopsProofs ---------------------------
(***************************************************************************)
(* Theorems about the loops of OrderFileLoops, CatalogLoops and            *)
(* BookFileLoops: whatever the file and the numbers, the code's loops      *)
(* compute the formulas that the servers' modules use for them.            *)
(***************************************************************************)
EXTENDS MCFileLoops, OrderLinesProofs

-----------------------------------------------------------------------------
\* What one more line changes in the computations over an order file.

LEMMA GrownSequence ==
  ASSUME NEW s \in Seq(Line), NEW e \in Line
  PROVE  /\ Len(Append(s, e)) = Len(s) + 1 /\ Append(s, e)[Len(s) + 1] = e
         /\ \A k \in 1..Len(s) : Append(s, e)[k] = s[k]
         /\ Len(s) \in Nat
         /\ 1..Len(Append(s, e)) = (1..Len(s)) \cup {Len(s) + 1}
  OBVIOUS

\* The last position of a set that has the position behind all others, or not.
LEMMA LastBeyond ==
  ASSUME NEW m \in Nat, NEW S \in SUBSET (1..m)
  PROVE  Last(S \cup {m + 1}) = m + 1
  <1> DEFINE T == S \cup {m + 1}
  <1>1. T \in SUBSET (1..(m + 1)) /\ T # {} /\ m + 1 \in Nat /\ m + 1 \in T
    OBVIOUS
  <1>2. Last(T) \in T /\ \A j \in T : j <= Last(T)
    <2> HIDE DEF T
    <2> QED BY <1>1, LastType
  <1> HIDE DEF T
  <1>3. Last(T) \in 1..(m + 1) /\ m + 1 <= Last(T)
    BY <1>1, <1>2
  <1>4. Last(T) = m + 1
    BY <1>3
  <1> QED BY <1>4 DEF T

\* The lines of an order in a file with one more line.
LEMMA PaidLineAppend ==
  ASSUME NEW s \in Seq(Line), NEW e \in Line, NEW n
  PROVE  /\ WasCreated(Append(s, e), n) <=> WasCreated(s, n) \/ IsOf(e, n)
         /\ IsOf(e, n) => PaidLine(Append(s, e), n) = e
         /\ ~IsOf(e, n) /\ WasCreated(s, n) => PaidLine(Append(s, e), n) = PaidLine(s, n)
  <1> DEFINE t == Append(s, e)
             M == Matches(s, n)
  <1>1. /\ Len(t) = Len(s) + 1 /\ t[Len(s) + 1] = e
        /\ \A k \in 1..Len(s) : t[k] = s[k]
        /\ Len(s) \in Nat
        /\ 1..Len(t) = (1..Len(s)) \cup {Len(s) + 1}
    BY GrownSequence
  <1> HIDE DEF t
  <1>2. Matches(t, n) = IF IsOf(e, n) THEN M \cup {Len(s) + 1} ELSE M
    <2>1. \A k : k \in Matches(t, n) <=> k \in M \/ (k = Len(s) + 1 /\ IsOf(e, n))
      BY <1>1 DEF Matches
    <2> HIDE DEF M
    <2> QED BY <2>1
  <1>3. M \in SUBSET (1..Len(s))
    BY DEF Matches
  <1>4. WasCreated(t, n) <=> WasCreated(s, n) \/ IsOf(e, n)
    BY <1>2 DEF WasCreated
  <1>5. ASSUME IsOf(e, n) PROVE PaidLine(t, n) = e
    <2>1. Last(Matches(t, n)) = Len(s) + 1
      <3> HIDE DEF M
      <3> QED BY <1>1, <1>2, <1>3, <1>5, LastBeyond
    <2> QED BY <2>1, <1>1 DEF PaidLine
  <1>6. ASSUME ~IsOf(e, n), WasCreated(s, n) PROVE PaidLine(t, n) = PaidLine(s, n)
    <2>1. Matches(t, n) = M
      BY <1>2, <1>6
    <2>2. Last(M) \in 1..Len(s)
      <3>1. M # {}
        BY <1>6 DEF WasCreated
      <3> HIDE DEF M
      <3> QED BY <3>1, <1>1, <1>3, LastType
    <2> QED BY <2>1, <2>2, <1>1 DEF PaidLine
  <1> QED BY <1>4, <1>5, <1>6 DEF t

\* The numbers that OrderBook and PayForBook have read with one more line.
LEMMA LastAppend ==
  ASSUME NEW s \in Seq(Line), NEW e \in Line
  PROVE  /\ LastNumber(Append(s, e)) = IF HasNumber(e) THEN Number(e) ELSE LastNumber(s)
         /\ HasBoth(e) => LastTotal(Append(s, e)) = e.total
         /\ ~HasBoth(e) /\ (\E j \in 1..Len(s) : HasBoth(s[j]))
              => LastTotal(Append(s, e)) = LastTotal(s)
  <1> DEFINE t == Append(s, e)
             S == {j \in 1..Len(s) : HasNumber(s[j])}
             B == {j \in 1..Len(s) : HasBoth(s[j])}
  <1>1. /\ Len(t) = Len(s) + 1 /\ t[Len(s) + 1] = e
        /\ \A k \in 1..Len(s) : t[k] = s[k]
        /\ Len(s) \in Nat
        /\ 1..Len(t) = (1..Len(s)) \cup {Len(s) + 1}
    BY GrownSequence
  <1> HIDE DEF t
  <1>2. /\ {j \in 1..Len(t) : HasNumber(t[j])}
             = IF HasNumber(e) THEN S \cup {Len(s) + 1} ELSE S
        /\ {j \in 1..Len(t) : HasBoth(t[j])}
             = IF HasBoth(e) THEN B \cup {Len(s) + 1} ELSE B
    BY <1>1
  <1>3. S \in SUBSET (1..Len(s)) /\ B \in SUBSET (1..Len(s))
    OBVIOUS
  <1>4. /\ LastNumber(s) = IF S = {} THEN 0 ELSE Number(s[Last(S)])
        /\ LastTotal(s) = s[Last(B)].total
    BY DEF LastNumber, LastTotal
  <1>5. B # {} <=> \E j \in 1..Len(s) : HasBoth(s[j])
    OBVIOUS
  <1> HIDE DEF S, B
  <1>6. Last(S \cup {Len(s) + 1}) = Len(s) + 1 /\ Last(B \cup {Len(s) + 1}) = Len(s) + 1
    BY <1>1, <1>3, LastBeyond
  <1>7. /\ S # {} => Last(S) \in 1..Len(s)
        /\ B # {} => Last(B) \in 1..Len(s)
    BY <1>1, <1>3, LastType
  <1>8. LastNumber(t) = IF HasNumber(e) THEN Number(e) ELSE LastNumber(s)
    <2>1. CASE HasNumber(e)
      BY <2>1, <1>1, <1>2, <1>6 DEF LastNumber
    <2>2. CASE ~HasNumber(e)
      BY <2>2, <1>1, <1>2, <1>4, <1>7 DEF LastNumber
    <2> QED BY <2>1, <2>2
  <1>9. HasBoth(e) => LastTotal(t) = e.total
    BY <1>1, <1>2, <1>6 DEF LastTotal
  <1>10. ~HasBoth(e) /\ B # {} => LastTotal(t) = LastTotal(s)
    BY <1>1, <1>2, <1>4, <1>7 DEF LastTotal
  <1> QED BY <1>5, <1>8, <1>9, <1>10 DEF t

\* A line beyond all those that are kept is the last one kept.
LEMMA NthBeyond ==
  ASSUME NEW S \in SUBSET Int, IsFiniteSet(S), NEW m \in Int, \A b \in S : b < m
  PROVE  /\ Cardinality(S \cup {m}) = Cardinality(S) + 1
         /\ \A k \in 1..Cardinality(S) : Nth(S \cup {m}, k) = Nth(S, k)
         /\ Nth(S \cup {m}, Cardinality(S) + 1) = m
  <1> DEFINE T == S \cup {m}
             N == Cardinality(S)
             below(X, a) == {b \in X : b < a}
  <1>1. N \in Nat /\ m \notin S
    BY FS_CardinalityType
  <1>2. T \in SUBSET Int /\ IsFiniteSet(T) /\ Cardinality(T) = N + 1
    BY <1>1, FS_AddElement
  <1>3. \A a \in S : below(T, a) = below(S, a)
    OBVIOUS
  <1>4. below(T, m) = S
    <2>1. ~(m < m)
      OBVIOUS
    <2> QED BY <2>1
  <1>5. \A k \in 1..(N + 1) :
           Nth(T, k) \in T /\ Cardinality(below(T, Nth(T, k))) = k - 1
    <2> SUFFICES ASSUME NEW k \in 1..(N + 1)
                 PROVE  Nth(T, k) \in T /\ Cardinality(below(T, Nth(T, k))) = k - 1
      OBVIOUS
    <2>1. k \in 1..Cardinality(T)
      BY <1>2
    <2> HIDE DEF T, N
    <2> QED BY <2>1, <1>2, NthType
  <1>6. ASSUME NEW k \in 1..N PROVE Nth(T, k) = Nth(S, k)
    <2> DEFINE a == Nth(T, k)
    <2>1. k \in 1..(N + 1) /\ k - 1 # N
      BY <1>1
    <2>2. a \in T /\ Cardinality(below(T, a)) = k - 1
      BY <2>1, <1>5
    <2>3. a \in S
      BY <2>1, <2>2, <1>4
    <2>4. Cardinality(below(S, a)) = k - 1
      BY <2>2, <2>3, <1>3
    <2> HIDE DEF a, N
    <2>5. PICK i0 \in 1..N : Nth(S, i0) = a
      BY <2>3, NthOnto DEF N
    <2>6. Cardinality(below(S, a)) = i0 - 1
      BY <2>5, NthType DEF N
    <2>7. i0 = k
      BY <2>4, <2>6, <1>1
    <2> QED BY <2>5, <2>7 DEF a
  <1>7. Nth(T, N + 1) = m
    <2> DEFINE a == Nth(T, N + 1)
    <2>1. a \in T /\ Cardinality(below(T, a)) = N
      BY <1>1, <1>5
    <2> HIDE DEF a
    <2>2. ASSUME a \in S PROVE FALSE
      <3>1. Cardinality(below(S, a)) = N
        BY <2>1, <2>2, <1>3
      <3>2. below(S, a) \in SUBSET S /\ a \notin below(S, a)
        BY <2>2
      <3> QED BY <3>1, <3>2, <2>2, FS_Subset DEF N
    <2> QED BY <2>1, <2>2 DEF a
  <1> QED BY <1>2, <1>6, <1>7

\* The filter of PayForBook's loop, line by line.
LEMMA WithoutAppend ==
  ASSUME NEW s \in Seq(Line), NEW e \in Line, NEW n
  PROVE  Without(Append(s, e), n)
           = IF IsKept(e, n) THEN Append(Without(s, n), e) ELSE Without(s, n)
  <1> DEFINE t == Append(s, e)
             K == Kept(s, n)
             N == Cardinality(K)
             L == Len(s) + 1
             w == Without(s, n)
  <1>1. /\ Len(t) = L /\ t[L] = e /\ Len(s) \in Nat
        /\ \A k \in 1..Len(s) : t[k] = s[k]
        /\ 1..Len(t) = (1..Len(s)) \cup {L}
    BY GrownSequence
  <1>2. L \notin 1..Len(s)
    BY <1>1
  <1>5. /\ K \in SUBSET (1..Len(s)) /\ K \in SUBSET Int
        /\ IsFiniteSet(K) /\ N \in Nat
    BY KeptFinite
  <1>6. \A k \in 1..N : Nth(K, k) \in K
    BY <1>5, NthType
  <1>7. w = [k \in 1..N |-> s[Nth(K, k)]] /\ w \in Seq(Line)
    BY WithoutType DEF Without
  <1>8. Len(w) = N
    BY <1>5, <1>7
  <1> HIDE DEF t, w, N
  <1>3. Kept(t, n) = IF IsKept(e, n) THEN K \cup {L} ELSE K
    <2>1. \A k : k \in Kept(t, n) <=> k \in K \/ (k = L /\ IsKept(e, n))
      BY <1>1, <1>2 DEF Kept
    <2> HIDE DEF K, L
    <2> QED BY <2>1
  <1>9. CASE ~IsKept(e, n)
    <2>1. Kept(t, n) = K
      BY <1>3, <1>9
    <2>2. \A k \in 1..N : t[Nth(K, k)] = s[Nth(K, k)]
      BY <1>1, <1>5, <1>6
    <2>3. Without(t, n) = [k \in 1..N |-> t[Nth(K, k)]]
      BY <2>1 DEF Without, N
    <2>4. Without(t, n) = w
      BY <2>2, <2>3, <1>7
    <2> QED BY <2>4, <1>9 DEF t, w
  <1>10. CASE IsKept(e, n)
    <2>1. Kept(t, n) = K \cup {L}
      BY <1>3, <1>10
    <2>2. /\ Cardinality(K \cup {L}) = N + 1
          /\ \A k \in 1..N : Nth(K \cup {L}, k) = Nth(K, k)
          /\ Nth(K \cup {L}, N + 1) = L
      <3>1. L \in Int /\ \A b \in K : b < L
        BY <1>1, <1>5
      <3> HIDE DEF K, L
      <3> QED BY <3>1, <1>5, NthBeyond DEF N
    <2>3. Without(t, n) = [k \in 1..(N + 1) |-> t[Nth(K \cup {L}, k)]]
      BY <2>1, <2>2 DEF Without
    <2>4. /\ \A k \in 1..N : t[Nth(K \cup {L}, k)] = s[Nth(K, k)]
          /\ t[Nth(K \cup {L}, N + 1)] = e
      BY <2>2, <1>1, <1>5, <1>6
    <2>5. /\ Append(w, e) = [k \in 1..(N + 1) |-> IF k = N + 1 THEN e ELSE w[k]]
      BY <1>5, <1>7, <1>8
    <2>6. \A k \in 1..N : w[k] = s[Nth(K, k)]
      BY <1>7
    <2>7. \A k \in 1..(N + 1) : k # N + 1 => k \in 1..N
      BY <1>5
    <2>8. Without(t, n) = Append(w, e)
      <3> DEFINE f(k) == t[Nth(K \cup {L}, k)]
                 g(k) == IF k = N + 1 THEN e ELSE w[k]
      <3>1. \A k \in 1..(N + 1) : f(k) = g(k)
        BY <2>4, <2>6, <2>7
      <3>2. Without(t, n) = [k \in 1..(N + 1) |-> f(k)]
        BY <2>3
      <3>3. Append(w, e) = [k \in 1..(N + 1) |-> g(k)]
        BY <2>5
      <3> HIDE DEF f, g
      <3> QED BY <3>1, <3>2, <3>3
    <2> QED BY <2>8, <1>10 DEF t, w
  <1> QED BY <1>9, <1>10

-----------------------------------------------------------------------------
\* OrderBook and PayForBook of the concurrent connectionless server.

LoopTypes ==
  /\ file \in Seq(Line) /\ orderno \in Int
  /\ at \in 0..Len(file)

LEMMA LoopsInit == Init => LoopTypes /\ LoopsCompute
  <1> SUFFICES ASSUME Init PROVE LoopTypes /\ LoopsCompute
    OBVIOUS
  <1>1. LoopTypes
    <2>1. PICK n \in 0..MaxLines : file \in [1..n -> FileLines]
      BY DEF Init
    <2>2. n \in Nat /\ FileLines \subseteq Line
      BY LoopsAssumption
    <2>3. \A k \in 1..n : file[k] \in Line
      BY <2>1, <2>2
    <2>4. file = [k \in 1..n |-> file[k]]
      BY <2>1
    <2>5. file \in Seq(Line)
      BY <2>2, <2>3, <2>4
    <2> QED BY <2>5, LoopsAssumption DEF Init, LoopTypes
  <1>2. SubSeq(file, 1, at) = <<>>
    BY <1>1 DEF Init, LoopTypes
  <1>3. WasCreated(<<>>, orderno) = FALSE /\ Without(<<>>, orderno) = <<>>
    <2>1. Matches(<<>>, orderno) = {} /\ Kept(<<>>, orderno) = {}
      BY DEF Matches, Kept
    <2>2. Cardinality({}) = 0
      BY FS_EmptySet
    <2>3. Without(<<>>, orderno) = [k \in 1..0 |-> <<>>[Nth({}, k)]]
      BY <2>1, <2>2 DEF Without
    <2> QED BY <2>1, <2>3 DEF WasCreated
  <1>4. at = 0 /\ last = 0 /\ was = FALSE /\ kept = <<>>
    BY DEF Init
  <1>5. LastNumber(<<>>) = 0 /\ 1..at = {}
    BY <1>4 DEF LastNumber
  <1> QED BY Zenon, <1>1, <1>2, <1>3, <1>4, <1>5 DEF LoopsCompute

LEMMA LoopsStep ==
  LoopTypes /\ LoopsCompute /\ [Next]_vars => LoopTypes' /\ LoopsCompute'
  <1> SUFFICES ASSUME LoopTypes, LoopsCompute, [Next]_vars
               PROVE  LoopTypes' /\ LoopsCompute'
    OBVIOUS
  <1>1. CASE ReadLine
    <2> DEFINE s == SubSeq(file, 1, at)
               e == file[at + 1]
    <2>1. at + 1 \in 1..Len(file) /\ at' = at + 1 /\ file' = file /\ orderno' = orderno
      BY <1>1 DEF ReadLine, LoopTypes
    <2>2. LoopTypes' /\ e \in Line /\ s \in Seq(Line)
      BY <2>1 DEF LoopTypes
    <2>3. SubSeq(file, 1, at)' = Append(s, e)
      BY <2>1 DEF LoopTypes
    <2>4. /\ last = LastNumber(s)
          /\ (\E j \in 1..at : HasBoth(s[j])) => current.total = LastTotal(s)
          /\ was = WasCreated(s, orderno)
          /\ was => paidLine = PaidLine(s, orderno)
          /\ kept = Without(s, orderno)
      BY DEF LoopsCompute
    <2>5. /\ last' = IF HasNumber(e) THEN Number(e) ELSE last
          /\ current' = Scanned(e, current)
          /\ IF HasBoth(e) /\ current'.num = orderno
             THEN was' = TRUE /\ paidLine' = e
             ELSE was' = was /\ paidLine' = paidLine
          /\ kept' = IF HasBoth(e) /\ current'.num # orderno THEN Append(kept, e) ELSE kept
      BY <1>1, <2>1 DEF ReadLine
    <2> HIDE DEF s, e
    <2>6. HasBoth(e) => HasNumber(e)
      <3>1. e.num \in Int /\ e.total \in Int /\ e.cut \in Nat
        BY <2>2 DEF Line
      <3>2. Chars(e.num) \in Int /\ Chars(e.total) \in 1..11
        BY <3>1, CharsType
      <3> QED BY <3>1, <3>2 DEF HasBoth, HasNumber
    <2>7. /\ HasBoth(e) => current'.num = Number(e)
          /\ current'.total = IF HasBoth(e) THEN e.total ELSE current.total
      BY <2>5, <2>6 DEF Scanned
    <2>8. /\ IsOf(e, orderno) => was' = TRUE /\ paidLine' = e
          /\ ~IsOf(e, orderno) => was' = was /\ paidLine' = paidLine
          /\ kept' = IF IsKept(e, orderno) THEN Append(kept, e) ELSE kept
      BY <2>5, <2>7 DEF IsOf, IsKept
    <2>9. LastNumber(Append(s, e)) = last'
      BY <2>2, <2>4, <2>5, LastAppend
    <2>10. (\E j \in 1..(at + 1) : HasBoth(Append(s, e)[j]))
              => current'.total = LastTotal(Append(s, e))
      <3>1. Len(s) = at /\ at \in Nat
        BY <2>1 DEF s, LoopTypes
      <3>2. CASE HasBoth(e)
        BY <3>2, <2>2, <2>7, LastAppend
      <3>3. CASE ~HasBoth(e)
        <4>1. \A j \in 1..(at + 1) : HasBoth(Append(s, e)[j])
                 => j \in 1..at /\ HasBoth(s[j])
          BY <2>2, <3>1, <3>3, GrownSequence
        <4> QED BY <4>1, <3>1, <3>3, <2>2, <2>4, <2>7, LastAppend
      <3> QED BY <3>2, <3>3
    <2>11. /\ WasCreated(Append(s, e), orderno) <=> WasCreated(s, orderno) \/ IsOf(e, orderno)
           /\ IsOf(e, orderno) => PaidLine(Append(s, e), orderno) = e
           /\ ~IsOf(e, orderno) /\ WasCreated(s, orderno)
                => PaidLine(Append(s, e), orderno) = PaidLine(s, orderno)
      BY <2>2, PaidLineAppend
    <2>12. was' = WasCreated(Append(s, e), orderno)
      BY <2>4, <2>8, <2>11 DEF WasCreated
    <2>13. was' => paidLine' = PaidLine(Append(s, e), orderno)
      BY <2>4, <2>8, <2>11
    <2>14. kept' = Without(Append(s, e), orderno)
      BY <2>2, <2>4, <2>8, WithoutAppend
    <2>15. LoopsCompute'
      BY <2>1, <2>3, <2>9, <2>10, <2>12, <2>13, <2>14 DEF LoopsCompute
    <2> QED BY <2>2, <2>15
  <1>2. CASE UNCHANGED vars
    BY <1>2 DEF vars, LoopTypes, LoopsCompute
  <1> QED BY <1>1, <1>2 DEF Next

\* After any number of lines of any created_orders.txt, order numbers that
\* occur twice and lines without both numbers included, the loops of OrderBook
\* (server.c:389-393) and PayForBook (server.c:476-493) hold in their variables,
\* and have printed to temp.txt, what the operators of OrderLines say of the
\* lines they have read.
THEOREM LoopsAreOperators == Spec => []LoopsCompute
  <1>1. Init => LoopTypes /\ LoopsCompute
    BY LoopsInit
  <1>2. (LoopTypes /\ LoopsCompute) /\ [Next]_vars => (LoopTypes /\ LoopsCompute)'
    BY LoopsStep
  <1> QED BY <1>1, <1>2, PTL DEF Spec

-----------------------------------------------------------------------------
\* DisplayCatalog of the concurrent connectionless server.

Start == UpperLimit(params.X)
Stop == LowerLimit(params.Z)

\* How many books the buffer is measured by, and whether all are in the array.
Room == IF Start < Stop THEN Stop - Start ELSE 0
InRoom == Start < Stop => Stop - 1 <= Len(Catalog)

\* While the loops measure, the length grows by a line and a byte for each
\* book; while they copy, the string grows by a line.  The index only grows, so
\* that a loop was in the array and in the buffer if its last step was.
DisplayTypes ==
  /\ params \in [M : Limits, X : Limits, Z : Limits]
  /\ i \in Int /\ Start <= i
  /\ catalogLength \in Int /\ allocated \in Int /\ used \in Int
  /\ outside \in BOOLEAN
Measuring ==
  allocated = 0 =>
    /\ i = Start \/ i <= Stop
    /\ catalogLength = (Width + 1) * (i - Start) + Width + 1
    /\ outside <=> Start < i /\ Len(Catalog) < i - 1
Copying ==
  allocated # 0 =>
    /\ i = Start \/ i <= params.M + 1
    /\ allocated = (Width + 1) * Room + Width + 2
    /\ used = Width * (i - Start) + Width + 1
    /\ outside <=> \/ ~InRoom
                   \/ Start < i /\ (Len(Catalog) < i - 1 \/ allocated < used)
DisplayInv == DisplayTypes /\ Measuring /\ Copying

\* One more book is one more line.
LEMMA OneMoreLine ==
  ASSUME NEW w \in Int, NEW a \in Int, NEW b \in Int, NEW c \in Int
  PROVE  /\ w * (a + 1 - b) + c + 1 = (w * (a - b) + c + 1) + w
         /\ w * (a - b) + c + 1 \in Int
  <1>1. w * (a - b) \in Int /\ w * (a + 1 - b) = w * (a - b) + w
    OBVIOUS
  <1> DEFINE x == w * (a - b)
             y == w * (a + 1 - b)
  <1> HIDE DEF x, y
  <1>2. y + c + 1 = (x + c + 1) + w /\ x + c + 1 \in Int
    BY <1>1 DEF x, y
  <1> QED BY <1>2 DEF x, y

LEMMA LimitsType ==
  ASSUME params \in [M : Limits, X : Limits, Z : Limits]
  PROVE  /\ Start \in Int /\ Stop \in Int /\ Start >= 1 /\ params.M \in Int
         /\ Room \in Nat
         /\ Len(Catalog) \in Nat /\ Width \in Nat /\ Width > Len(Catalog) + 1
  <1>1. params.M \in Int /\ params.X \in Int /\ params.Z \in Int
    BY WidthAssumption
  <1>2. Len(Catalog) \in Nat
    BY CatalogAssumption
  <1>3. Start \in Int /\ Stop \in Int /\ Start >= 1
    BY <1>1, <1>2 DEF Start, Stop, UpperLimit, LowerLimit, NumOfBooks
  <1> QED BY <1>1, <1>2, <1>3, WidthAssumption DEF Room

LEMMA DisplayStarts == DisplayInit => DisplayInv
  <1> SUFFICES ASSUME DisplayInit PROVE DisplayInv
    OBVIOUS
  <1>1. /\ params \in [M : Limits, X : Limits, Z : Limits]
        /\ i = Start /\ catalogLength = Width + 1
        /\ allocated = 0 /\ used = 0 /\ outside = FALSE
    BY DEF DisplayInit, Start
  <1>2. Start \in Int /\ Width \in Nat
    BY <1>1, LimitsType
  <1>3. (Width + 1) * (i - Start) = 0
    <2>1. i - Start = 0
      BY <1>1, <1>2
    <2> QED BY <2>1, <1>2
  <1>4. DisplayTypes
    <2>1. outside \in BOOLEAN
      BY <1>1, Zenon
    <2> QED BY <2>1, <1>1, <1>2 DEF DisplayTypes
  <1>5. catalogLength = (Width + 1) * (i - Start) + Width + 1
    BY <1>1, <1>2, <1>3
  <1>6. ~(Start < i) /\ ~outside
    BY <1>1, <1>2
  <1> QED BY <1>1, <1>4, <1>5, <1>6 DEF DisplayInv, Measuring, Copying

LEMMA DisplaySteps == DisplayInv /\ [DisplayNext]_displayVars => DisplayInv'
  <1> SUFFICES ASSUME DisplayInv, [DisplayNext]_displayVars PROVE DisplayInv'
    OBVIOUS
  <1> DEFINE L == Len(Catalog)
  <1>1. DisplayTypes /\ Measuring /\ Copying
    BY DEF DisplayInv
  <1>2. /\ Start \in Int /\ Stop \in Int /\ Start >= 1 /\ params.M \in Int
        /\ Room \in Nat /\ L \in Nat /\ Width \in Nat
    BY <1>1, LimitsType DEF DisplayTypes
  <1> HIDE DEF L
  <1>3. CASE Measure
    <2>1. /\ allocated = 0 /\ i < Stop /\ i' = i + 1
          /\ catalogLength' = catalogLength + Width + 1
          /\ params' = params /\ allocated' = 0 /\ used' = used
          /\ Start' = Start /\ Stop' = Stop
      BY <1>3 DEF Measure, Stop, Start
    <2> DEFINE inside == i <= L
    <2>0. outside' = (outside \/ ~inside)
      BY <1>3 DEF Measure, InArray, L
    <2>7. outside' \in BOOLEAN /\ (outside' <=> outside \/ ~(i <= L))
      <3> HIDE DEF inside
      <3>1. outside' \in BOOLEAN /\ (outside' <=> outside \/ ~inside)
        BY <2>0, Zenon
      <3> QED BY <3>1 DEF inside
    <2>2. DisplayTypes'
      BY <1>1, <1>2, <2>1, <2>7 DEF DisplayTypes
    <2>4. outside' <=> Start < i' /\ L < i' - 1
      <3>1. (outside <=> Start < i /\ L < i - 1) /\ i \in Int /\ Start <= i
        BY <1>1, <2>1 DEF DisplayTypes, Measuring, L
      <3> QED BY <3>1, <1>2, <2>1, <2>7
    <2>5. catalogLength' = (Width + 1) * (i' - Start) + Width + 1
      <3> DEFINE bytes(k) == (Width + 1) * (k - Start) + Width + 1
      <3>1. catalogLength = bytes(i) /\ catalogLength \in Int
        BY <1>1, <2>1 DEF Measuring, DisplayTypes
      <3>2. i \in Int /\ Width + 1 \in Int /\ Width \in Int
        BY <1>1, <1>2 DEF DisplayTypes
      <3>3. bytes(i + 1) = bytes(i) + (Width + 1)
        BY <3>2, <1>2, OneMoreLine
      <3> HIDE DEF bytes
      <3>4. catalogLength' = bytes(i')
        BY <3>1, <3>2, <3>3, <2>1
      <3> QED BY <3>4 DEF bytes
    <2>6. Measuring'
      BY <1>1, <1>2, <2>1, <2>4, <2>5 DEF Measuring, DisplayTypes, L
    <2> QED BY <2>1, <2>2, <2>6 DEF DisplayInv, Copying
  <1>4. CASE Allocate
    <2>1. /\ allocated = 0 /\ i >= Stop /\ i' = Start
          /\ allocated' = catalogLength + 1 /\ used' = Width + 1
          /\ params' = params /\ outside' = outside /\ catalogLength' = catalogLength
          /\ Start' = Start /\ Stop' = Stop /\ Room' = Room
          /\ InRoom' <=> InRoom
      BY <1>4 DEF Allocate, Start, Stop, Room, InRoom
    <2>2. DisplayTypes'
      <3>1. outside' \in BOOLEAN
        BY <1>1, <2>1, Zenon DEF DisplayTypes
      <3> QED BY <3>1, <1>1, <1>2, <2>1 DEF DisplayTypes
    <2>3. i - Start = Room
      BY <1>1, <1>2, <2>1 DEF DisplayTypes, Measuring, Room
    <2>4. catalogLength = (Width + 1) * Room + Width + 1
      BY <1>1, <2>1, <2>3 DEF Measuring
    <2>5. (Width + 1) * Room \in Nat
      BY <1>2
    <2>6. allocated' = (Width + 1) * Room + Width + 2 /\ allocated' # 0
      <3> DEFINE product == (Width + 1) * Room
      <3> HIDE DEF product
      <3> QED BY <2>1, <2>4, <2>5, <1>2 DEF product
    <2>7. outside <=> ~InRoom
      BY <1>1, <1>2, <2>1, <2>3 DEF DisplayTypes, Measuring, Room, InRoom, L
    <2>8. Width * (i' - Start) = 0
      <3>1. i' - Start = 0
        BY <2>1, <1>2
      <3> QED BY <3>1, <1>2
    <2>9. Copying'
      BY <2>1, <2>6, <2>7, <2>8, <1>2 DEF Copying
    <2> QED BY <2>2, <2>6, <2>9 DEF DisplayInv, Measuring
  <1>5. CASE Copy
    <2>1. /\ allocated > 0 /\ i < params.M + 1 /\ i' = i + 1
          /\ used' = used + Width
          /\ params' = params /\ catalogLength' = catalogLength /\ allocated' = allocated
          /\ Start' = Start /\ Stop' = Stop /\ Room' = Room
          /\ InRoom' <=> InRoom
      BY <1>5 DEF Copy, Start, Stop, Room, InRoom
    <2> DEFINE inside == i <= L
               beyond == used' > allocated
    <2>0. outside' = (outside \/ ~inside \/ beyond)
      BY <1>5 DEF Copy, InArray, L
    <2>8. outside' \in BOOLEAN /\ (outside' <=> outside \/ ~(i <= L) \/ used' > allocated)
      <3> HIDE DEF inside, beyond
      <3>1. outside' \in BOOLEAN /\ (outside' <=> outside \/ ~inside \/ beyond)
        BY <2>0, Zenon
      <3> QED BY <3>1 DEF inside, beyond
    <2>2. DisplayTypes'
      BY <1>1, <1>2, <2>1, <2>8 DEF DisplayTypes
    <2>3. /\ allocated = (Width + 1) * Room + Width + 2
          /\ used = Width * (i - Start) + Width + 1
          /\ outside <=> \/ ~InRoom
                         \/ Start < i /\ (L < i - 1 \/ allocated < used)
      BY <1>1, <2>1 DEF Copying, DisplayTypes, L
    <2>5. used' = Width * (i' - Start) + Width + 1
      <3> DEFINE bytes(k) == Width * (k - Start) + Width + 1
      <3>1. used = bytes(i) /\ used \in Int
        BY <1>1, <2>3 DEF DisplayTypes
      <3>2. i \in Int /\ Width \in Int
        BY <1>1, <1>2 DEF DisplayTypes
      <3>3. bytes(i + 1) = bytes(i) + Width
        BY <3>2, <1>2, OneMoreLine
      <3> HIDE DEF bytes
      <3>4. used' = bytes(i')
        BY <3>1, <3>2, <3>3, <2>1
      <3> QED BY <3>4 DEF bytes
    <2>6. outside' <=> ~InRoom \/ (Start < i' /\ (L < i' - 1 \/ allocated < used'))
      <3>1. i \in Int /\ Start <= i /\ used \in Int /\ allocated \in Int
        BY <1>1 DEF DisplayTypes
      <3>2. outside <=> ~InRoom \/ (Start < i /\ (L < i - 1 \/ allocated < used))
        BY <2>3
      <3>3. used' = used + Width /\ i' = i + 1
        BY <2>1
      <3> HIDE DEF InRoom
      <3> QED BY <3>1, <3>2, <3>3, <1>2, <2>8
    <2>7. Copying'
      BY <1>1, <1>2, <2>1, <2>3, <2>5, <2>6 DEF Copying, DisplayTypes, L
    <2> QED BY <1>1, <2>1, <2>2, <2>7 DEF DisplayInv, DisplayTypes, Measuring
  <1>6. CASE UNCHANGED displayVars
    BY <1>1, <1>6 DEF displayVars, DisplayInv, DisplayTypes, Measuring, Copying,
                      Start, Stop, Room, InRoom
  <1> QED BY <1>3, <1>4, <1>5, <1>6 DEF DisplayNext

\* With fewer bytes to spare than a line has, the string is in the buffer if
\* and only if no more books are copied than were measured.
LEMMA RoomForBooks ==
  ASSUME NEW w \in Nat, NEW copied \in Nat, NEW room \in Nat
  PROVE  /\ copied <= room => w * copied + w + 1 <= (w + 1) * room + w + 2
         /\ copied > room /\ w > room + 1
              => w * copied + w + 1 > (w + 1) * room + w + 2
  <1> DEFINE p == w * room
             q == w * copied
             d == copied - room
  <1>1. (w + 1) * room = p + room /\ p \in Nat /\ q \in Nat
    OBVIOUS
  <1>2. ASSUME copied <= room PROVE q <= p
    <2>1. w * (room - copied) \in Nat /\ p = q + w * (room - copied)
      BY <1>2
    <2> HIDE DEF p, q
    <2> QED BY <2>1, <1>1
  <1>3. ASSUME copied > room PROVE q >= p + w
    <2>1. w * (d - 1) \in Nat /\ q = p + w * (d - 1) + w
      BY <1>3
    <2> HIDE DEF p, q
    <2> QED BY <2>1, <1>1
  <1> HIDE DEF p, q
  <1>4. copied <= room => q + w + 1 <= (p + room) + w + 2
    BY <1>1, <1>2
  <1>5. copied > room /\ w > room + 1 => q + w + 1 > (p + room) + w + 2
    BY <1>1, <1>3
  <1> QED BY <1>1, <1>4, <1>5 DEF p, q

LEMMA DisplayEnds == DisplayInv => DisplayComputes
  <1> SUFFICES ASSUME DisplayInv, allocated > 0, i >= params.M + 1
               PROVE  outside <=> ~CatalogFits(params.M, params.X, params.Z)
    BY DEF DisplayComputes
  <1> DEFINE L == Len(Catalog)
             M == params.M
  <1>1. /\ Start \in Int /\ Stop \in Int /\ Start >= 1 /\ M \in Int
        /\ Room \in Nat /\ L \in Nat /\ Width \in Nat /\ Width > L + 1
    BY LimitsType DEF DisplayInv, DisplayTypes
  <1>2. /\ i \in Int /\ Start <= i /\ allocated \in Int /\ used \in Int
        /\ i = Start \/ i <= M + 1
        /\ allocated = (Width + 1) * Room + Width + 2
        /\ used = Width * (i - Start) + Width + 1
        /\ outside <=> \/ ~InRoom
                       \/ Start < i /\ (L < i - 1 \/ allocated < used)
    BY DEF DisplayInv, DisplayTypes, Copying
  <1>3. CatalogFits(M, params.X, params.Z) <=>
          Start..M \subseteq Start..(Stop - 1) /\ Start..(Stop - 1) \subseteq 1..L
    BY DEF CatalogFits, Copied, Measured, Start, Stop
  <1> HIDE DEF M, L
  <1>4. Start..(Stop - 1) \subseteq 1..L <=> InRoom
    <2>1. ASSUME InRoom PROVE Start..(Stop - 1) \subseteq 1..L
      BY <1>1, <2>1 DEF InRoom, L
    <2>2. ASSUME Start..(Stop - 1) \subseteq 1..L PROVE InRoom
      <3>1. Start < Stop => Stop - 1 \in Start..(Stop - 1)
        BY <1>1
      <3> QED BY <3>1, <2>2, <1>1 DEF InRoom, L
    <2> QED BY <2>1, <2>2
  <1>5. Start..M \subseteq Start..(Stop - 1) <=> (Start <= M => M <= Stop - 1)
    <2>1. Start <= M => M \in Start..M
      BY <1>1
    <2> QED BY <2>1, <1>1
  <1>6. CASE ~(Start <= M)
    <2>1. i = Start
      BY <1>1, <1>2, <1>6
    <2>2. outside <=> ~InRoom
      BY <2>1, <1>1, <1>2
    <2> QED BY <2>2, <1>3, <1>4, <1>5, <1>6 DEF M
  <1>7. CASE Start <= M
    <2> DEFINE copied == M + 1 - Start
    <2>1. i = M + 1 /\ copied \in Nat /\ Start < i
      BY <1>1, <1>2, <1>7 DEF M
    <2>2. used = Width * copied + Width + 1
      <3>1. i - Start = copied
        BY <2>1, <1>1
      <3> HIDE DEF copied
      <3> QED BY <3>1, <1>2
    <2>3. ASSUME InRoom, M <= Stop - 1 PROVE ~(L < i - 1) /\ ~(allocated < used)
      <3>1. Stop - 1 <= L /\ Room = Stop - Start
        BY <1>1, <1>7, <2>3 DEF InRoom, Room, L
      <3>2. copied <= Room
        BY <3>1, <1>1, <2>3
      <3>3. used <= allocated
        BY <3>2, <2>1, <2>2, <1>1, <1>2, RoomForBooks
      <3> QED BY <3>1, <3>3, <2>1, <2>3, <1>1, <1>2
    <2>4. ASSUME ~(M <= Stop - 1), ~(L < i - 1) PROVE allocated < used
      <3>1. copied > Room /\ Width > Room + 1
        BY <2>1, <2>4, <1>1 DEF Room
      <3>2. Width * copied + Width + 1 > (Width + 1) * Room + Width + 2
        <4> HIDE DEF copied
        <4> QED BY <3>1, <2>1, <1>1, RoomForBooks
      <3> QED BY <3>2, <2>2, <1>2
    <2>5. outside <=> ~InRoom \/ L < i - 1 \/ allocated < used
      BY <1>2, <2>1
    <2> HIDE DEF copied
    <2>6. outside <=> ~(InRoom /\ M <= Stop - 1)
      BY <2>3, <2>4, <2>5
    <2> QED BY <2>6, <1>3, <1>4, <1>5, <1>7 DEF M
  <1> QED BY <1>6, <1>7

\* For every catalogue, every M, X and Z and every width of a line that exceeds
\* the ends of strings the buffer has to spare: when the loops of
\* DisplayCatalog (server.c:243-272) have ended, they have stayed in the array
\* of books and in the buffer they allocated exactly if CatalogFits holds,
\* which is the condition under which BookServer lets the child go on.
THEOREM DisplayFits == DisplaySpec => []DisplayComputes
  <1>1. DisplayInit => DisplayInv
    BY DisplayStarts
  <1>2. DisplayInv /\ [DisplayNext]_displayVars => DisplayInv'
    BY DisplaySteps
  <1>3. DisplayInv => DisplayComputes
    BY DisplayEnds
  <1> QED BY <1>1, <1>2, <1>3, PTL DEF DisplaySpec

-----------------------------------------------------------------------------
\* OrderBook, PayForBook and DisplayCatalog of interface.h.

\* PayForBook's loop has found its order at the position that it counts from
\* zero, or has passed all the lines read so far.
OrdersScanned ==
  /\ size \in Nat /\ lines \in 0..size /\ wanted.orderno \in Int
  /\ line \in Int /\ buffer \in Int /\ found \in BOOLEAN
  /\ found => /\ wanted.orderno \in 0..(lines - 1)
              /\ line = wanted.orderno /\ buffer = wanted.orderno + 1
  /\ ~found => /\ wanted.orderno \notin 0..(lines - 1)
               /\ line = lines /\ buffer = lines

\* DisplayCatalog has taken the lines from the first one on, without a gap.
First == IF wanted.x < 1 THEN 1 ELSE wanted.x
Wanted == Scan!Entries(wanted.M, wanted.x, wanted.z)
Taken ==
  IF Wanted <= 0 \/ lineNumber <= First THEN 0
  ELSE IF lineNumber - First <= Wanted THEN lineNumber - First ELSE Wanted

BooksScanned ==
  /\ wanted.M \in Int /\ wanted.x \in Int /\ wanted.z \in Int
  /\ lineNumber \in 0..Len(Books)
  /\ entries = Wanted - Taken
  /\ returned = [k \in 1..Taken |-> First + k - 1]

LEMMA WantedType ==
  ASSUME wanted.M \in Int, wanted.x \in Int, wanted.z \in Int, lineNumber \in 0..Len(Books)
  PROVE  /\ Wanted \in Int /\ First \in Int /\ First >= 1 /\ Taken \in Nat
         /\ Len(Books) \in Nat /\ lineNumber \in Int
  <1>1. Len(Books) \in Nat
    BY ScanAssumption
  <1>2. Wanted \in Int /\ First \in Int /\ First >= 1 /\ lineNumber \in Int
    BY <1>1 DEF Wanted, First, Scan!Entries
  <1> QED BY <1>1, <1>2 DEF Taken

LEMMA ScanStarts == Scan!ScanInit => OrdersScanned /\ BooksScanned
  <1> SUFFICES ASSUME Scan!ScanInit PROVE OrdersScanned /\ BooksScanned
    OBVIOUS
  <1>1. /\ size \in Nat
        /\ wanted.orderno \in Int /\ wanted.M \in Int
        /\ wanted.x \in Int /\ wanted.z \in Int
    <2>1. /\ size \in 0..MaxLog
          /\ wanted \in [orderno : Numbers, M : Numbers, x : Numbers, z : Numbers]
      BY DEF Scan!ScanInit
    <2>2. MaxLog \in Nat /\ \A n \in Numbers : n \in Int
      BY ScanAssumption
    <2>3. /\ wanted.orderno \in Numbers /\ wanted.M \in Numbers
          /\ wanted.x \in Numbers /\ wanted.z \in Numbers
      BY <2>1
    <2> QED BY <2>1, <2>2, <2>3
  <1>2. OrdersScanned
    <2>1. lines = 0 /\ line = 0 /\ buffer = 0 /\ found = FALSE
      BY DEF Scan!ScanInit
    <2>2. found \in BOOLEAN /\ ~found
      BY <2>1, Zenon
    <2> QED BY <1>1, <2>1, <2>2 DEF OrdersScanned
  <1>3. lineNumber = 0 /\ lineNumber \in 0..Len(Books) /\ returned = <<>>
    BY ScanAssumption DEF Scan!ScanInit
  <1>4. Wanted \in Int /\ First >= 1 /\ First \in Int
    BY <1>1, <1>3, WantedType
  <1>5. Taken = 0
    BY <1>3, <1>4 DEF Taken
  <1>6. entries = Wanted
    BY DEF Scan!ScanInit, Wanted, Scan!Entries
  <1>7. returned = [k \in 1..Taken |-> First + k - 1]
    BY <1>3, <1>5
  <1> QED BY <1>1, <1>2, <1>3, <1>4, <1>5, <1>6, <1>7 DEF BooksScanned

LEMMA ScanOrdersStep ==
  OrdersScanned /\ BooksScanned /\ Scan!ScanOrders => (OrdersScanned /\ BooksScanned)'
  <1> SUFFICES ASSUME OrdersScanned, BooksScanned, Scan!ScanOrders
               PROVE  OrdersScanned' /\ BooksScanned'
    OBVIOUS
  <1>1. /\ lines < size /\ lines' = lines + 1
        /\ size' = size /\ wanted' = wanted
        /\ lineNumber' = lineNumber /\ entries' = entries /\ returned' = returned
    BY DEF Scan!ScanOrders
  <1>2. BooksScanned'
    BY <1>1 DEF BooksScanned, Wanted, First, Taken
  <1>3. CASE found
    <2>1. line' = line /\ buffer' = buffer /\ found' = found
      BY <1>3 DEF Scan!ScanOrders
    <2> QED BY <1>1, <1>2, <1>3, <2>1 DEF OrdersScanned
  <1>4. CASE ~found
    <2> DEFINE hit == line = wanted.orderno
    <2>1. /\ buffer' = lines' /\ found' = hit
          /\ line' = IF found' THEN line ELSE line + 1
      BY <1>1, <1>4 DEF Scan!ScanOrders
    <2>2. CASE line = wanted.orderno
      <3>1. found' = TRUE /\ line' = line
        BY <2>1, <2>2
      <3> QED BY <1>1, <1>2, <1>4, <2>1, <2>2, <3>1 DEF OrdersScanned
    <2>3. CASE line # wanted.orderno
      <3>1. found' = FALSE /\ line' = line + 1
        BY <2>1, <2>3
      <3> QED BY <1>1, <1>2, <1>4, <2>1, <2>3, <3>1 DEF OrdersScanned
    <2> QED BY <2>2, <2>3
  <1> QED BY <1>3, <1>4

LEMMA ScanBooksStep ==
  OrdersScanned /\ BooksScanned /\ Scan!ScanBooks => (OrdersScanned /\ BooksScanned)'
  <1> SUFFICES ASSUME OrdersScanned, BooksScanned, Scan!ScanBooks
               PROVE  OrdersScanned' /\ BooksScanned'
    OBVIOUS
  <1>1. /\ lineNumber < Len(Books) /\ lineNumber' = lineNumber + 1
        /\ size' = size /\ wanted' = wanted /\ lines' = lines
        /\ line' = line /\ buffer' = buffer /\ found' = found
        /\ Wanted' = Wanted /\ First' = First
    BY DEF Scan!ScanBooks, Wanted, First
  <1>2. OrdersScanned'
    BY <1>1 DEF OrdersScanned
  <1>3. /\ Wanted \in Int /\ First \in Int /\ First >= 1 /\ Taken \in Nat
        /\ lineNumber \in Int /\ lineNumber >= 0
        /\ Len(Books) \in Nat
    BY WantedType DEF BooksScanned
  <1>4. First = IF wanted.x < 1 THEN 1 ELSE wanted.x
    BY DEF First
  <1>5. lineNumber' \in 0..Len(Books)
    BY <1>1, <1>3
  <1>6. lineNumber > 0 /\ lineNumber >= wanted.x <=> lineNumber >= First
    BY <1>3, <1>4 DEF BooksScanned
  <1>7. CASE lineNumber > 0 /\ lineNumber >= wanted.x /\ entries > 0
    <2>1. returned' = Append(returned, lineNumber) /\ entries' = entries - 1
      BY <1>7 DEF Scan!ScanBooks
    <2>2. Taken = lineNumber - First /\ Taken < Wanted
      BY <1>3, <1>6, <1>7 DEF Taken, BooksScanned
    <2>3. Taken' = Taken + 1
      BY <1>1, <1>3, <1>6, <1>7, <2>2 DEF Taken
    <2>4. returned' = [k \in 1..(Taken + 1) |-> First + k - 1]
      <3> DEFINE r == [k \in 1..Taken |-> First + k - 1]
                 t == [k \in 1..(Taken + 1) |-> First + k - 1]
      <3>1. returned = r /\ Len(r) = Taken /\ r \in Seq(Int)
        BY <1>3 DEF BooksScanned
      <3>2. Append(r, lineNumber)
              = [k \in 1..(Taken + 1) |-> IF k = Taken + 1 THEN lineNumber ELSE r[k]]
        BY <3>1, <1>3
      <3>3. \A k \in 1..(Taken + 1) :
               (IF k = Taken + 1 THEN lineNumber ELSE r[k]) = First + k - 1
        BY <1>3, <2>2
      <3> HIDE DEF r
      <3>4. Append(r, lineNumber) = t
        BY <3>2, <3>3
      <3> QED BY <3>1, <3>4, <2>1
    <2>5. entries' = Wanted' - Taken'
      BY <1>1, <1>3, <2>1, <2>3 DEF BooksScanned
    <2>6. returned' = [k \in 1..Taken' |-> First' + k - 1]
      BY <2>3, <2>4, <1>1
    <2> QED BY <1>1, <1>2, <1>5, <2>5, <2>6 DEF BooksScanned
  <1>8. CASE ~(lineNumber > 0 /\ lineNumber >= wanted.x /\ entries > 0)
    <2>1. returned' = returned /\ entries' = entries
      BY <1>8 DEF Scan!ScanBooks
    <2>2. Taken' = Taken
      <3>1. lineNumber < First \/ ~(entries > 0)
        <4>1. ~(lineNumber >= First /\ entries > 0)
          BY <1>6, <1>8
        <4> QED BY <4>1, <1>3
      <3>2. CASE lineNumber < First
        BY <3>2, <1>1, <1>3 DEF Taken
      <3>3. CASE ~(entries > 0)
        <4>1. Wanted <= Taken
          BY <3>3, <1>3 DEF BooksScanned
        <4> QED BY <4>1, <1>1, <1>3 DEF Taken
      <3> QED BY <3>1, <3>2, <3>3
    <2>3. entries' = Wanted' - Taken' /\ returned' = [k \in 1..Taken' |-> First' + k - 1]
      BY <1>1, <2>1, <2>2 DEF BooksScanned
    <2> QED BY <1>1, <1>2, <1>5, <2>3 DEF BooksScanned
  <1> QED BY <1>7, <1>8

LEMMA ScanEnds == OrdersScanned /\ BooksScanned => ScansCompute
  <1> SUFFICES ASSUME OrdersScanned, BooksScanned PROVE ScansCompute
    OBVIOUS
  <1>1. LET log == [j \in 1..lines |-> j]
        IN  (IF line < wanted.orderno THEN 0 ELSE buffer) = Scan!Billed(log, wanted.orderno)
    <2> DEFINE log == [j \in 1..lines |-> j]
    <2>1. log \in Seq(Int) /\ Len(log) = lines
      BY DEF OrdersScanned
    <2> HIDE DEF log
    <2>2. (IF line < wanted.orderno THEN 0 ELSE buffer) = Scan!Billed(log, wanted.orderno)
      BY <2>1 DEF OrdersScanned, Scan!Billed
    <2> QED BY <2>2 DEF log
  <1>2. /\ Wanted \in Int /\ First \in Int /\ First >= 1 /\ Taken \in Nat
        /\ lineNumber \in Int /\ lineNumber <= Len(Books) /\ Len(Books) \in Nat
    BY WantedType DEF BooksScanned
  <1>3. /\ Len(returned) = Taken
        /\ \A k \in 1..Len(returned) : returned[k] = First + k - 1
    BY <1>2 DEF BooksScanned
  <1>4. Scan!Displayed(wanted.M, wanted.x, wanted.z)
          = {j \in 1..(Len(Books) - 1) : First <= j /\ j < First + Wanted}
    BY DEF Scan!Displayed, First, Wanted
  <1> DEFINE shown == {j \in Scan!Displayed(wanted.M, wanted.x, wanted.z) : j < lineNumber}
             got == {returned[k] : k \in 1..Len(returned)}
  <1>5. ASSUME NEW j \in shown PROVE j \in got
    <2>1. /\ j \in Int /\ First <= j /\ j < First + Wanted /\ j < lineNumber
      BY <1>4
    <2>2. j - First + 1 \in 1..Taken
      BY <2>1, <1>2 DEF Taken
    <2>3. returned[j - First + 1] = j
      BY <2>1, <2>2, <1>2, <1>3
    <2> QED BY <2>2, <2>3, <1>3
  <1>6. ASSUME NEW j \in got PROVE j \in shown
    <2>1. PICK k \in 1..Taken : j = First + k - 1
      BY <1>3
    <2>2. First <= j /\ j < First + Wanted /\ j < lineNumber /\ j \in 1..(Len(Books) - 1)
      BY <2>1, <1>2 DEF Taken
    <2> QED BY <2>2, <1>4
  <1>7. got = shown
    BY <1>5, <1>6
  <1>8. \A j, k \in 1..Len(returned) : j < k => returned[j] < returned[k]
    BY <1>2, <1>3
  <1> QED BY <1>1, <1>7, <1>8 DEF ScansCompute, Scan!ScansCompute

\* For every books.txt, every length of orders.txt and all numbers, those that
\* are negative or too large included: OrderBook's loop counts the lines,
\* PayForBook's leaves in its buffer the line that OrderLog's Billed says
\* (interface.h:98-116), and DisplayCatalog's appends the lines of OrderLog's
\* range and no others, in order (interface.h:145-170).
THEOREM ScansAreFormulas == Scan!ScanSpec => []ScansCompute
  <1>1. Scan!ScanInit => OrdersScanned /\ BooksScanned
    BY ScanStarts
  <1>2. (OrdersScanned /\ BooksScanned) /\ [Scan!ScanNext]_(Scan!scanVars)
          => (OrdersScanned /\ BooksScanned)'
    <2>1. ASSUME OrdersScanned, BooksScanned, UNCHANGED Scan!scanVars
          PROVE  (OrdersScanned /\ BooksScanned)'
      BY <2>1 DEF Scan!scanVars, OrdersScanned, BooksScanned, Wanted, First, Taken
    <2> QED BY <2>1, ScanOrdersStep, ScanBooksStep DEF Scan!ScanNext
  <1>3. OrdersScanned /\ BooksScanned => ScansCompute
    BY ScanEnds
  <1> QED BY <1>1, <1>2, <1>3, PTL DEF Scan!ScanSpec
=============================================================================

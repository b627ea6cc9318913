---------------------------- MODULE CatalogLoops ----------------------------
(***************************************************************************)
(* DisplayCatalog of concurrent-connectionless/server.c: the loop that     *)
(* measures the buffer and the one that fills it, book by book.            *)
(* BookServer takes the function as one step, which ends the child unless  *)
(* BookCatalog's CatalogFits holds; here the bytes are counted.            *)
(* Every line has the same number of bytes.                                *)
(***************************************************************************)
EXTENDS BookCatalog

CONSTANTS Limits,      \* what users type for M, X and Z
          Width        \* the bytes of a line

\* A line has more bytes than the buffer has to spare for ends of strings.
ASSUME WidthAssumption == Limits \subseteq Int /\ Width \in Nat /\ Width > Len(Catalog) + 1

VARIABLES params,          \* M, X and Z
          i,               \* the loops' index
          catalogLength,   \* the bytes counted
          allocated,       \* the bytes of catalog, 0 before malloc
          used,            \* the bytes of the string in it, and its end
          outside          \* books or catalog was used out of its bounds

displayVars == <<params, i, catalogLength, allocated, used, outside>>

DisplayInit ==
  /\ params \in [M : Limits, X : Limits, Z : Limits]
  /\ i = UpperLimit(params.X)
  /\ catalogLength = Width + 1
  /\ allocated = 0 /\ used = 0 /\ outside = FALSE

InArray == i <= Len(Catalog)

Measure ==
  /\ allocated = 0 /\ i < LowerLimit(params.Z)
  /\ catalogLength' = catalogLength + Width + 1
  /\ outside' = (outside \/ ~InArray)
  /\ i' = i + 1
  /\ UNCHANGED <<params, allocated, used>>

\* Mutant (not the code): no room is counted for the header.
AllocateForBooks ==
  /\ allocated = 0 /\ i >= LowerLimit(params.Z)
  /\ allocated' = catalogLength - Width
  /\ used' = Width + 1
  /\ i' = UpperLimit(params.X)
  /\ UNCHANGED <<params, catalogLength, outside>>

\* malloc, and the header.
Allocate ==
  /\ allocated = 0 /\ i >= LowerLimit(params.Z)
  /\ allocated' = catalogLength + 1
  /\ used' = Width + 1
  /\ i' = UpperLimit(params.X)
  /\ UNCHANGED <<params, catalogLength, outside>>

Copy ==
  /\ allocated > 0 /\ i < params.M + 1
  /\ used' = used + Width
  /\ outside' = (outside \/ ~InArray \/ used' > allocated)
  /\ i' = i + 1
  /\ UNCHANGED <<params, catalogLength, allocated>>

DisplayNext == Measure \/ Allocate \/ Copy
DisplaySpec == DisplayInit /\ [][DisplayNext]_displayVars

\* When the loops have ended, they have stayed in the array and in the buffer
\* if and only if CatalogFits: M is not beyond Z, and Z is a book's number
\* (server.c:243-272).
DisplayComputes ==
  allocated > 0 /\ i >= params.M + 1 =>
     (outside <=> ~CatalogFits(params.M, params.X, params.Z))
=============================================================================

----------------------------- MODULE OrderDesk ------------------------------
(***************************************************************************)
(* What the servers over interface.h promise about orders.  A client wants *)
(* a line logged; the line is logged once, at the end, and then the client *)
(* is told its number, or is not.  Lines are never removed or changed.  If *)
(* several requests are served at once, the number may be that of a line   *)
(* which was logged after the client's own.                                *)
(***************************************************************************)
EXTENDS Integers, Sequences

CONSTANTS Clients,
          Nothing,    \* no line is wanted
          Logged,     \* the log at the start
          Lines,      \* what clients want logged
          Shared      \* several requests are served at once

VARIABLES log,    \* the lines of orders.txt
          want,   \* the line that each client has asked for
          due,    \* the number of the line logged for each client, not yet told
          told    \* the number each client sees, zero if none

desk == <<log, want, due, told>>

Init ==
  /\ log = Logged
  /\ want = [c \in Clients |-> Nothing]
  /\ due = [c \in Clients |-> 0]
  /\ told = [c \in Clients |-> 0]

Want(c, line) ==
  /\ want[c] = Nothing /\ due[c] = 0
  /\ want' = [want EXCEPT ![c] = line]
  /\ told' = [told EXCEPT ![c] = 0]
  /\ UNCHANGED <<log, due>>

Place(c) ==
  /\ want[c] # Nothing
  /\ log' = Append(log, want[c])
  /\ due' = [due EXCEPT ![c] = Len(log')]
  /\ want' = [want EXCEPT ![c] = Nothing]
  /\ UNCHANGED told

Tell(c) ==
  /\ due[c] # 0
  /\ \E n \in due[c]..(IF Shared THEN Len(log) ELSE due[c]) :
        told' = [told EXCEPT ![c] = n]
  /\ due' = [due EXCEPT ![c] = 0]
  /\ UNCHANGED <<log, want>>

\* Requests are refused or lost, or what came of them is, and clients do
\* other things.
Drop(dropped, elsewhere) ==
  /\ want' = [c \in Clients |-> IF c \in dropped THEN Nothing ELSE want[c]]
  /\ due' = [c \in Clients |-> IF c \in dropped THEN 0 ELSE due[c]]
  /\ told' = [c \in Clients |-> IF c \in elsewhere THEN 0 ELSE told[c]]
  /\ UNCHANGED log

Next ==
  \/ \E c \in Clients : (\E line \in Lines : Want(c, line)) \/ Place(c) \/ Tell(c)
  \/ \E dropped, elsewhere \in SUBSET Clients : Drop(dropped, elsewhere)

Spec == Init /\ [][Next]_desk
=============================================================================

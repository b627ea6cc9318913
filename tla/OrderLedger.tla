---------------------------- MODULE OrderLedger -----------------------------
(***************************************************************************)
(* What OrderBook and PayForBook of concurrent-connectionless/server.c     *)
(* amount to when one request is served at a time: a list of open orders,  *)
(* numbered from the last one up, from which a payment takes one order.    *)
(* The amount of a payment is measured, as in the code, against the total  *)
(* of the last open order, not of the order that is paid.                  *)
(***************************************************************************)
EXTENDS OrderLines

CONSTANTS Totals,    \* the totals orders can come to
          Amounts,   \* the amounts users send
          Shipped    \* the orders that are open at the start

VARIABLES open,      \* the open orders
          settled,   \* the paid orders
          payments   \* which order was paid with which amount

ledger == <<open, settled, payments>>

Init == open = Shipped /\ settled = <<>> /\ payments = {}

\* OrderBook.
Place(total) ==
  /\ open' = Append(open, Printed(LastNumber(open) + 1, total))
  /\ UNCHANGED <<settled, payments>>

\* PayForBook, when it accepts.
Settle(orderno, amount) ==
  /\ WasCreated(open, orderno)
  /\ amount >= LastTotal(open)
  /\ settled' = Append(settled, PaidLine(open, orderno))
  /\ payments' = payments \cup
                   {[order |-> PaidLine(open, orderno), amount |-> amount]}
  /\ open' = Without(open, orderno)

Next ==
  \/ \E total \in Totals : Place(total)
  \/ \E l \in Lines(open), amount \in Amounts : Settle(Number(l), amount)

Spec == Init /\ [][Next]_ledger
=============================================================================

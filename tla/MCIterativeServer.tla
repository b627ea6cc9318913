------------------------- MODULE MCIterativeServer --------------------------
(* Instances of IterativeServer for TLC.                                   *)
EXTENDS IterativeServer

MCWords == {"Ugly", "Nix"}
MCBooks == <<[holds |-> {}, price |-> 0], [holds |-> {"Ugly"}, price |-> 3]>>
NoLog == <<>>

\* The answers of iterative-connection-oriented/server.c that free meets as
\* literals: a payment never has another one.
IterLiterals == {"Book Not Found", "Internal Server Error", "too little", "success"}

\* An empty catalogue, an order and a payment.
IterRequests == {[op |-> "display", m |-> 2, x |-> 1, z |-> 1],
                 [op |-> "order", x |-> "Ugly", n |-> 1],
                 [op |-> "pay", orderno |-> 1, amount |-> 2]}
=============================================================================

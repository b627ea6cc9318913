-------------------------- MODULE IterativeServer ---------------------------
(***************************************************************************)
(* The iterative connection-oriented book server                           *)
(* (iterative-connection-oriented/server.c; its client.c is the client of  *)
(* ThreadServer).  Its handle_client is the one of the thread server, but  *)
(* the main loop calls it itself: one connection is served to its end      *)
(* while the others wait in the backlog of listen, connected and free to   *)
(* send.  All answers to a payment are string literals here, so a payment  *)
(* ends the process once it is answered.                                   *)
(***************************************************************************)
EXTENDS ThreadServer

CONSTANT MaxBacklog     \* the second argument of listen

ASSUME BacklogAssumption == MaxBacklog \in Nat

VARIABLE backlog        \* the connections that wait for accept, oldest first

iterVars == <<vars, backlog>>

IterInit == Init /\ backlog = <<>>

\* The kernel keeps MaxBacklog connections, and one more.
IterConnect(c) ==
  /\ Connect(c)
  /\ \/ /\ thread'[c] = "queued" /\ Len(backlog) <= MaxBacklog
        /\ backlog' = Append(backlog, c)
     \/ thread'[c] # "queued" /\ UNCHANGED backlog

\* Mutant (not the code): accept does not wait for handle_client.
IterAcceptAtOnce(c) ==
  /\ backlog # <<>> /\ Head(backlog) = c
  /\ Accept(c)
  /\ backlog' = Tail(backlog)

IterAccept(c) ==
  /\ Connected = {} /\ backlog # <<>> /\ Head(backlog) = c
  /\ Accept(c)
  /\ backlog' = Tail(backlog)

IterHandle(c) ==
  /\ Handle(c)
  /\ backlog' = IF up' THEN backlog ELSE <<>>

IterServe(c) == IterAccept(c) \/ IterHandle(c)

IterNext ==
  \/ \E c \in Clients : \/ IterConnect(c) \/ IterServe(c)
                        \/ (Choose(c) \/ Receive(c)) /\ UNCHANGED backlog
  \/ Restart /\ UNCHANGED backlog

IterSpec == IterInit /\ [][IterNext]_iterVars

\* The kernel runs the server and every client that has something to read.
FairIterSpec ==
  /\ IterSpec
  /\ \A c \in Clients : /\ WF_iterVars(IterServe(c))
                        /\ WF_iterVars(Receive(c) /\ UNCHANGED backlog)

-----------------------------------------------------------------------------
(* Properties.                                                             *)

\* One connection at a time has the server, and all the others that it does
\* not know of yet are in the backlog, once each and no more than fit: also
\* after the process, killed by a client's request, was started again
\* (server.c:108-126).
OneAtATime ==
  /\ backlog \in Seq(Clients) /\ Len(backlog) <= MaxBacklog + 1
  /\ \A i, j \in 1..Len(backlog) : backlog[i] = backlog[j] => i = j
  /\ {backlog[i] : i \in 1..Len(backlog)} = {c \in Clients : thread[c] = "queued"}
  /\ \A c, d \in Connected : c = d

\* Two that wait for each other: a client in read that was sent no bytes, and
\* the server in read on the same connection.
Stuck == \E d \in unheard : client[d] = "waiting"

\* A client that waits in the backlog or for an answer gets it, or learns that
\* the server is gone, provided that every user who is at a menu leaves it at
\* some time, to ask or to exit, and no session goes on for ever: then every
\* session before it in the backlog comes to its end (server.c:23-32, 116-126),
\* unless one is stuck on an empty catalogue or no descriptor is left.
TurnComes ==
  <>[](\A d \in Clients : client[d] # "menu") =>
     \A c \in Clients :
        client[c] = "waiting" ~> client[c] # "waiting" \/ Stuck \/ Starved(c)

\* One order at a time is logged and counted, so a client is told the number of
\* its own line, not just of a later one as in the thread server, although
\* clients write their requests while another is served (interface.h:46-63).
OwnDesk == INSTANCE OrderDesk
  WITH want <- Wanted, due <- Due, told <- Told, Shared <- FALSE,
       Lines <- {LineOf(r) : r \in {q \in Requests : q.op = "order"}}

ImplementsOwnDesk == OwnDesk!Spec
=============================================================================

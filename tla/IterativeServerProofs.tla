----------------------- MODULE IterativeServerProofs ------------------------
(***************************************************************************)
(* Proofs about IterativeServer, for any clients, requests, books and any  *)
(* length of the backlog: it is one way in which the thread server may     *)
(* run, so what is proved of that server holds here; it serves one         *)
(* connection at a time; and it implements an order desk that tells        *)
(* everybody the exact number.                                             *)
(***************************************************************************)
EXTENDS IterativeServer, ThreadServerProofs

\* What is behind the head of a queue without repeats is the rest of it.
LEMMA TailOfQueue ==
  ASSUME NEW S, NEW q \in Seq(S), q # <<>>,
         \A i, j \in 1..Len(q) : q[i] = q[j] => i = j
  PROVE  /\ Tail(q) \in Seq(S) /\ Len(Tail(q)) = Len(q) - 1
         /\ \A i, j \in 1..Len(Tail(q)) : Tail(q)[i] = Tail(q)[j] => i = j
         /\ {Tail(q)[i] : i \in 1..Len(Tail(q))}
              = {q[i] : i \in 1..Len(q)} \ {Head(q)}
  <1>1. /\ Len(q) \in Nat \ {0} /\ Head(q) = q[1]
        /\ Tail(q) \in Seq(S) /\ Len(Tail(q)) = Len(q) - 1
        /\ \A i \in 1..(Len(q) - 1) : Tail(q)[i] = q[i + 1]
    OBVIOUS
  <1>2. \A i, j \in 1..Len(Tail(q)) : Tail(q)[i] = Tail(q)[j] => i = j
    BY <1>1
  <1>3. ASSUME NEW i \in 1..Len(Tail(q))
        PROVE  Tail(q)[i] \in {q[k] : k \in 1..Len(q)} \ {Head(q)}
    <2>1. i + 1 \in 1..Len(q) /\ i + 1 # 1 /\ 1 \in 1..Len(q)
      BY <1>1
    <2> QED BY <1>1, <2>1
  <1>4. ASSUME NEW k \in 1..Len(q), q[k] # Head(q)
        PROVE  q[k] \in {Tail(q)[i] : i \in 1..Len(Tail(q))}
    <2>1. k - 1 \in 1..Len(Tail(q)) /\ Tail(q)[k - 1] = q[k]
      BY <1>1, <1>4
    <2> QED BY <2>1
  <1> QED BY <1>1, <1>2, <1>3, <1>4

\* A newcomer at the end of a queue without repeats.
LEMMA EndOfQueue ==
  ASSUME NEW S, NEW q \in Seq(S), NEW e \in S,
         \A i, j \in 1..Len(q) : q[i] = q[j] => i = j,
         e \notin {q[i] : i \in 1..Len(q)}
  PROVE  /\ Append(q, e) \in Seq(S) /\ Len(Append(q, e)) = Len(q) + 1
         /\ \A i, j \in 1..Len(Append(q, e)) :
               Append(q, e)[i] = Append(q, e)[j] => i = j
         /\ {Append(q, e)[i] : i \in 1..Len(Append(q, e))}
              = {q[i] : i \in 1..Len(q)} \cup {e}
  <1> DEFINE a == Append(q, e)
  <1>1. /\ Len(q) \in Nat /\ a \in Seq(S) /\ Len(a) = Len(q) + 1
        /\ \A i \in 1..Len(q) : a[i] = q[i]
        /\ a[Len(q) + 1] = e
    OBVIOUS
  <1>2. \A i \in 1..Len(a) : i \in 1..Len(q) \/ i = Len(q) + 1
    BY <1>1
  <1>3. \A i, j \in 1..Len(a) : a[i] = a[j] => i = j
    BY <1>1, <1>2
  <1>4. {a[i] : i \in 1..Len(a)} = {q[i] : i \in 1..Len(q)} \cup {e}
    <2>1. \A i \in 1..Len(q) : i \in 1..Len(a)
      BY <1>1
    <2>2. Len(q) + 1 \in 1..Len(a)
      BY <1>1
    <2> QED BY <1>1, <1>2, <2>1, <2>2
  <1> QED BY <1>1, <1>3, <1>4

\* Every step of the iterative server is one that the thread server can take.
LEMMA IterStep == [IterNext]_iterVars => [Next]_vars
  BY DEF IterNext, IterConnect, IterServe, IterAccept, IterHandle, Next, Serve, iterVars

\* The iterative server implements the thread server, so it keeps the types,
\* its client and its one loop are in step, and the numbers it tells are those
\* of lines of the log.
THEOREM IterImplementsThreads == IterSpec => Spec
  <1>1. IterInit => Init
    BY DEF IterInit
  <1> QED BY <1>1, IterStep, PTL DEF IterSpec, Spec

LEMMA IterTyping == IterSpec => []TypeOK
  BY IterImplementsThreads, ThreadTyping, PTL

\* What changes nobody's place in the queue or at the server.
LEMMA SameQueue ==
  ASSUME OneAtATime, UNCHANGED <<thread, backlog>>
  PROVE  OneAtATime'
  BY DEF OneAtATime, Connected

\* handle_client neither queues a connection nor takes one from the queue, and
\* what it serves has the server; if the process dies, the queue goes with it.
LEMMA HandleStep ==
  ASSUME TypeOK, NEW c \in Clients, Handle(c)
  PROVE  \/ /\ UNCHANGED up
            /\ \A d \in Clients : (thread'[d] = "queued") = (thread[d] = "queued")
            /\ Connected' \subseteq Connected
         \/ up' = FALSE /\ thread' = [d \in Clients |-> "none"]
  <1> USE DEF TypeOK, Thread, Connected
  <1>1. CASE Disconnected(c)
    BY <1>1 DEF Disconnected
  <1>2. CASE CannotOpen(c) \/ PayCrash(c)
    BY <1>2 DEF CannotOpen, PayCrash, Die
  <1>3. ASSUME NEW answer, NEW op, Respond(c, answer), UNCHANGED up,
               Serving(c, op) \/ thread[c] = "counting"
        PROVE  /\ \A d \in Clients : (thread'[d] = "queued") = (thread[d] = "queued")
               /\ Connected' \subseteq Connected
    BY <1>3 DEF Respond, Serving, Pending
  <1>4. CASE DisplayCatalog(c)
    BY <1>4, <1>3 DEF DisplayCatalog
  <1>5. CASE Search(c)
    BY <1>5, <1>3 DEF Search
  <1>6. CASE OrderFails(c)
    BY <1>6, <1>3 DEF OrderFails
  <1>7. CASE OrderAppend(c)
    BY <1>7 DEF OrderAppend, Serving, Pending
  <1>8. CASE OrderCount(c)
    BY <1>8, <1>3 DEF OrderCount
  <1>9. CASE Pay(c)
    BY <1>9, <1>3 DEF Pay
  <1>10. CASE Write(c)
    BY <1>10 DEF Write
  <1>11. CASE Free(c)
    <2>1. CASE Die
      BY <2>1 DEF Die
    <2>2. CASE ~Die
      BY <1>11, <2>2 DEF Free
    <2> QED BY <2>1, <2>2
  <1> QED
    BY Handle(c), <1>1, <1>2, <1>4, <1>5, <1>6, <1>7, <1>8, <1>9, <1>10, <1>11
    DEF Handle

\* The queue and the one connection that is served survive every step.
LEMMA OneStep ==
  TypeOK /\ InStep /\ Asked /\ OneAtATime /\ [IterNext]_iterVars => OneAtATime'
  <1> SUFFICES ASSUME TypeOK, InStep, Asked, OneAtATime, [IterNext]_iterVars
               PROVE  OneAtATime'
    OBVIOUS
  <1> DEFINE Queued == {c \in Clients : thread[c] = "queued"}
  <1>0. backlog \in Seq(Clients) /\ Len(backlog) \in Nat
    BY DEF OneAtATime
  <1>1. ASSUME NEW c \in Clients, IterConnect(c) PROVE OneAtATime'
    <2>1. thread[c] = "none"
      BY <1>1 DEF IterConnect, Connect, Asked
    <2>2. CASE thread' = [thread EXCEPT ![c] = "queued"]
      <3>1. backlog' = Append(backlog, c) /\ Len(backlog) <= MaxBacklog
        BY <1>1, <2>2 DEF IterConnect, TypeOK
      <3>2. c \notin {backlog[i] : i \in 1..Len(backlog)}
        BY <2>1 DEF OneAtATime
      <3>3. Queued' = Queued \cup {c} /\ Connected' = Connected
        BY <2>1, <2>2 DEF TypeOK, Connected
      <3>4. /\ backlog' \in Seq(Clients) /\ Len(backlog') = Len(backlog) + 1
            /\ \A i, j \in 1..Len(backlog') : backlog'[i] = backlog'[j] => i = j
            /\ {backlog'[i] : i \in 1..Len(backlog')}
                 = {backlog[i] : i \in 1..Len(backlog)} \cup {c}
        BY <3>1, <3>2, EndOfQueue DEF OneAtATime
      <3>5. Len(backlog') <= MaxBacklog + 1
        BY <1>0, <3>1, <3>4, BacklogAssumption
      <3> QED BY <3>3, <3>4, <3>5 DEF OneAtATime
    <2>3. CASE UNCHANGED thread
      BY <1>1, <2>1, <2>3, SameQueue DEF IterConnect
    <2> QED BY <1>1, <2>2, <2>3 DEF IterConnect, Connect
  <1>2. ASSUME NEW c \in Clients, IterAccept(c) PROVE OneAtATime'
    <2>1. /\ backlog # <<>> /\ c = Head(backlog) /\ backlog' = Tail(backlog)
          /\ Connected = {} /\ thread' = [thread EXCEPT ![c] = "reading"]
      BY <1>2 DEF IterAccept, Accept
    <2>2. Queued' = Queued \ {c} /\ Connected' = {c}
      BY <2>1 DEF TypeOK, Connected
    <2>3. /\ backlog' \in Seq(Clients) /\ Len(backlog') = Len(backlog) - 1
          /\ \A i, j \in 1..Len(backlog') : backlog'[i] = backlog'[j] => i = j
          /\ {backlog'[i] : i \in 1..Len(backlog')}
               = {backlog[i] : i \in 1..Len(backlog)} \ {c}
      <3> DEFINE t == Tail(backlog)
      <3>1. /\ t \in Seq(Clients) /\ Len(t) = Len(backlog) - 1
            /\ \A i, j \in 1..Len(t) : t[i] = t[j] => i = j
            /\ {t[i] : i \in 1..Len(t)}
                 = {backlog[i] : i \in 1..Len(backlog)} \ {Head(backlog)}
        BY <2>1, TailOfQueue DEF OneAtATime
      <3> HIDE DEF t
      <3> QED BY ONLY <2>1, <3>1 DEF t
    <2>4. Len(backlog') <= MaxBacklog + 1
      BY <1>0, <2>3, BacklogAssumption DEF OneAtATime
    <2> QED BY <2>2, <2>3, <2>4 DEF OneAtATime
  <1>3. ASSUME NEW c \in Clients, IterHandle(c) PROVE OneAtATime'
    <2>1. CASE UNCHANGED up /\ Connected' \subseteq Connected
               /\ \A d \in Clients : (thread'[d] = "queued") = (thread[d] = "queued")
      <3>1. Queued' = Queued
        BY <2>1
      <3>2. CASE up
        <4>1. backlog' = backlog
          BY <1>3, <2>1, <3>2 DEF IterHandle
        <4> QED BY <2>1, <3>1, <4>1 DEF OneAtATime
      <3>3. CASE ~up
        <4>1. \A d \in Clients : thread[d] = "none"
          BY <3>3 DEF InStep
        <4> QED BY <1>3, <4>1 DEF IterHandle, Handle, Disconnected, CannotOpen,
              DisplayCatalog, Search, OrderFails, OrderAppend, OrderCount, Pay,
              PayCrash, Write, Free, Serving, Pending, OneAtATime
      <3> QED BY <3>2, <3>3
    <2>2. CASE up' = FALSE /\ thread' = [d \in Clients |-> "none"]
      <3>1. backlog' = <<>>
        BY <1>3, <2>2 DEF IterHandle
      <3>2. Queued' = {} /\ Connected' = {}
        BY <2>2 DEF Connected
      <3> QED BY <3>1, <3>2, BacklogAssumption DEF OneAtATime
    <2> QED BY <1>3, <2>1, <2>2, HandleStep DEF IterHandle
  <1>4. ASSUME NEW c \in Clients, Choose(c) \/ Receive(c), UNCHANGED backlog
        PROVE  OneAtATime'
    BY <1>4, SameQueue
    DEF Choose, Receive, Ask, Exit, Show, Broken, serverVars
  <1>5. ASSUME Restart, UNCHANGED backlog PROVE OneAtATime'
    BY <1>5, SameQueue DEF Restart
  <1>6. CASE UNCHANGED iterVars
    BY <1>6, SameQueue DEF iterVars, vars, serverVars
  <1> QED BY <1>1, <1>2, <1>3, <1>4, <1>5, <1>6 DEF IterNext, IterServe

\* At any time the server serves one connection, and its backlog holds all
\* others that wait, once each and no more than fit.
THEOREM ServesOneAtATime == IterSpec => []OneAtATime
  <1>1. IterInit => OneAtATime
    BY BacklogAssumption DEF IterInit, Init, OneAtATime, Connected
  <1>2. (TypeOK /\ InStep /\ Asked) /\ OneAtATime /\ [IterNext]_iterVars => OneAtATime'
    BY OneStep
  <1> QED BY <1>1, <1>2, IterImplementsThreads, Steps, PTL DEF IterSpec

\* Nobody else appends between the line of an order and the count, so the
\* number is that of the line at every stage on its way to the client.
Exact ==
  \A c \in Clients :
     /\ thread[c] = "counting" => place[c] = Len(log)
     /\ thread[c] = "replying" /\ IsOrder(response[c]) => response[c].number = place[c]
     /\ IsOrder(inbox[c]) => inbox[c].number = place[c]

\* Exact looks at these only, and a thread that does not count or reply, and an
\* inbox that is empty, may be anything.
LEMMA SameNumbers ==
  ASSUME Known, Exact, UNCHANGED <<log, place>>,
         \A d \in Clients :
            /\ \/ thread'[d] = thread[d] /\ response'[d] = response[d]
               \/ thread'[d] \notin {"counting", "replying"}
            /\ inbox'[d] \in {inbox[d], Nothing}
  PROVE  Exact'
  BY DEF Exact, IsOrder

\* A thread responds with something that is no order number.
LEMMA ExactAnswer ==
  ASSUME Known, Exact, NEW c \in Clients, NEW what \in Answers, Respond(c, Say(what)),
         UNCHANGED <<log, place, inbox>>
  PROVE  Exact'
  <1>1. Say(what).what # "order"
    BY SayType DEF Answers
  <1>2. thread' = [thread EXCEPT ![c] = "replying"] /\ response' = [response EXCEPT ![c] = Say(what)]
    BY DEF Respond
  <1> QED BY <1>1, <1>2 DEF Exact, IsOrder, Known, TypeOK

LEMMA ExactHandle ==
  ASSUME Known, OneAtATime, Exact, NEW c \in Clients, Handle(c)
  PROVE  Exact'
  <1> USE DEF Known, TypeOK, clientVars
  <1>1. CASE Disconnected(c)
    BY <1>1, SameNumbers DEF Disconnected
  <1>2. CASE CannotOpen(c) \/ PayCrash(c)
    BY <1>2, SameNumbers DEF CannotOpen, PayCrash, Die
  <1>3. CASE DisplayCatalog(c) \/ Search(c) \/ OrderFails(c) \/ Pay(c)
    <2>1. UNCHANGED <<log, place, inbox>>
      BY <1>3 DEF DisplayCatalog, Search, OrderFails, Pay
    <2>2. \E what \in Answers : Respond(c, Say(what))
      BY <1>3 DEF DisplayCatalog, Search, OrderFails, Pay, Verdict, Answers
    <2> QED BY <2>1, <2>2, ExactAnswer
  <1>4. CASE OrderAppend(c)
    <2>1. /\ thread[c] = "reading" /\ data[c] # Nothing
          /\ place' = [place EXCEPT ![c] = Len(log')]
          /\ thread' = [thread EXCEPT ![c] = "counting"]
          /\ UNCHANGED <<response, inbox>>
      BY <1>4 DEF OrderAppend, Serving, Pending
    <2>2. inbox[c] = Nothing
      BY <2>1 DEF InStep
    <2>3. \A d \in Clients \ {c} : thread[d] # "counting"
      BY <2>1 DEF OneAtATime, Connected
    <2> QED BY <2>1, <2>2, <2>3 DEF Exact, IsOrder
  <1>5. CASE OrderCount(c)
    <2>1. /\ thread[c] = "counting" /\ UNCHANGED <<log, place, inbox>>
          /\ thread' = [thread EXCEPT ![c] = "replying"]
          /\ response' = [response EXCEPT ![c] = [what |-> "order", number |-> Len(log)]]
      BY <1>5 DEF OrderCount, Respond
    <2> QED BY <2>1 DEF Exact, IsOrder
  <1>6. CASE Write(c)
    <2>1. /\ thread[c] = "replying" /\ thread' = [thread EXCEPT ![c] = "freeing"]
          /\ UNCHANGED <<log, response, place>>
          /\ UNCHANGED inbox \/ inbox' = [inbox EXCEPT ![c] = response[c]]
      BY <1>6 DEF Write
    <2> QED BY <2>1 DEF Exact, IsOrder
  <1>7. CASE Free(c)
    <2>1. CASE Die
      BY <1>7, <2>1, SameNumbers DEF Free, Die
    <2>2. CASE ~Die
      BY <1>7, <2>2, SameNumbers DEF Free
    <2> QED BY <2>1, <2>2
  <1> QED BY Handle(c), <1>1, <1>2, <1>3, <1>4, <1>5, <1>6, <1>7 DEF Handle

LEMMA ExactStep ==
  Known /\ OneAtATime /\ Exact /\ [IterNext]_iterVars => Exact'
  <1> SUFFICES ASSUME Known, OneAtATime, Exact, [IterNext]_iterVars PROVE Exact'
    OBVIOUS
  <1> USE DEF Known, TypeOK, serverVars, clientVars
  <1>1. ASSUME NEW c \in Clients, Connect(c) \/ Accept(c) PROVE Exact'
    BY <1>1, SameNumbers DEF Connect, Accept
  <1>2. ASSUME NEW c \in Clients, Choose(c) \/ Receive(c) PROVE Exact'
    BY <1>2, SameNumbers DEF Choose, Receive, Ask, Exit, Show, Broken
  <1>3. CASE Restart \/ UNCHANGED iterVars
    BY <1>3, SameNumbers DEF Restart, iterVars, vars
  <1> QED BY <1>1, <1>2, <1>3, ExactHandle
    DEF IterNext, IterConnect, IterServe, IterAccept, IterHandle

\* Whatever number a client comes to see, it has read from its socket.
LEMMA ToldFromInbox ==
  ASSUME Known, [Next]_vars, NEW c \in Clients
  PROVE  \/ Told'[c] \in {0, Told[c]}
         \/ IsOrder(inbox[c]) /\ Told'[c] = inbox[c].number
  <1> USE DEF Known, TypeOK, serverVars, clientVars, Told, IsOrder
  <1>1. CASE UNCHANGED shown
    BY <1>1
  <1>2. ASSUME NEW d \in Clients, shown' = [shown EXCEPT ![d] = Nothing]
        PROVE  Told'[c] \in {0, Told[c]}
    BY <1>2
  <1>3. ASSUME NEW d \in Clients, Show(d)
        PROVE  \/ Told'[c] \in {0, Told[c]}
               \/ IsOrder(inbox[c]) /\ Told'[c] = inbox[c].number
    BY <1>3 DEF Show
  <1>4. \/ UNCHANGED shown
        \/ \E d \in Clients : shown' = [shown EXCEPT ![d] = Nothing] \/ Show(d)
    BY DEF Next, Choose, Receive, Serve, Handle, Connect, Ask, Exit, Broken, Accept,
       ThreadFails, Disconnected, CannotOpen, DisplayCatalog, Search, OrderFails,
       OrderAppend, OrderCount, Pay, PayCrash, Write, Free, Restart, vars
  <1> QED BY <1>1, <1>2, <1>3, <1>4

\* What happens at a shared desk happens at one of its own, if a number is told
\* that is exact.
LEMMA OwnDeskStep ==
  Known /\ Exact /\ [Next]_vars => [OwnDesk!Next]_(OwnDesk!desk)
  <1> SUFFICES ASSUME Known, Exact, [Next]_vars
               PROVE  OwnDesk!Next \/ UNCHANGED OwnDesk!desk
    OBVIOUS
  <1>1. Desk!Next \/ UNCHANGED Desk!desk
    BY DeskStep
  <1>2. CASE UNCHANGED Desk!desk
    BY <1>2 DEF Desk!desk, OwnDesk!desk
  <1>3. ASSUME NEW c \in Clients,
               NEW l \in {LineOf(r) : r \in {q \in Requests : q.op = "order"}},
               Desk!Want(c, l)
        PROVE  OwnDesk!Next
    BY <1>3 DEF Desk!Want, OwnDesk!Want, OwnDesk!Next
  <1>4. ASSUME NEW c \in Clients, Desk!Place(c) PROVE OwnDesk!Next
    BY <1>4 DEF Desk!Place, OwnDesk!Place, OwnDesk!Next
  <1>5. ASSUME NEW dropped \in SUBSET Clients, NEW elsewhere \in SUBSET Clients,
               Desk!Drop(dropped, elsewhere)
        PROVE  OwnDesk!Next
    <2>1. OwnDesk!Drop(dropped, elsewhere)
      BY <1>5 DEF Desk!Drop, OwnDesk!Drop
    <2> QED BY <2>1 DEF OwnDesk!Next
  <1>6. ASSUME NEW c \in Clients, Desk!Tell(c) PROVE OwnDesk!Next
    <2> DEFINE n == Told'[c]
    <2>1. /\ Due[c] # 0 /\ Due[c] \in Nat /\ n \in Due[c]..Len(log)
          /\ Told' = [Told EXCEPT ![c] = n] /\ Due' = [Due EXCEPT ![c] = 0]
          /\ UNCHANGED <<log, Wanted>>
      <3>1. Due[c] \in Nat
        BY DEF Due, Known, TypeOK
      <3>2. PICK k \in Due[c]..Len(log) : Told' = [Told EXCEPT ![c] = k]
        BY <1>6 DEF Desk!Tell
      <3>3. k = Told'[c]
        BY <3>2 DEF Told
      <3> QED BY <1>6, <3>1, <3>2, <3>3 DEF Desk!Tell
    <2>2. CASE n = Told[c]
      <3>1. Told' = Told
        BY <2>1, <2>2 DEF Told
      <3>2. Wanted' = [d \in Clients |-> IF d \in {c} THEN Nothing ELSE Wanted[d]]
        <4>1. Wanted[c] = Nothing
          BY <1>6 DEF Wanted, Due, Known, InStep, IsOrder, Desk!Tell
        <4> QED BY <2>1, <4>1 DEF Wanted
      <3>3. Due' = [d \in Clients |-> IF d \in {c} THEN 0 ELSE Due[d]]
        BY <2>1 DEF Due
      <3>4. Told' = [d \in Clients |-> IF d \in {} THEN 0 ELSE Told[d]]
        BY <3>1 DEF Told
      <3>5. OwnDesk!Drop({c}, {})
        BY <2>1, <3>2, <3>3, <3>4 DEF OwnDesk!Drop
      <3> QED BY <3>5 DEF OwnDesk!Next
    <2>3. CASE n # Told[c]
      <3>1. IsOrder(inbox[c]) /\ n = inbox[c].number
        BY <2>1, <2>3, ToldFromInbox
      <3>2. n = Due[c]
        BY <3>1 DEF Exact, Due
      <3>3. OwnDesk!Tell(c)
        BY <2>1, <3>2 DEF OwnDesk!Tell
      <3> QED BY <3>3 DEF OwnDesk!Next
    <2> QED BY <2>2, <2>3
  <1> QED BY <1>1, <1>2, <1>3, <1>4, <1>5, <1>6 DEF Desk!Next

\* The iterative server implements an order desk of which each client is told
\* the number of its own line and no other, for any length of the backlog and
\* any number of clients, restarts and orders.
THEOREM IterImplementsOwnDesk == IterSpec => ImplementsOwnDesk
  <1>1. IterInit => Exact /\ OwnDesk!Init
    BY ThreadAssumption
    DEF IterInit, Init, Exact, OwnDesk!Init, Wanted, Due, Told, IsOrder
  <1>2. IterSpec => []Known
    BY IterImplementsThreads, Steps, KnownSteps, PTL DEF Known
  <1>3. Known /\ OneAtATime /\ Exact /\ [IterNext]_iterVars
          => Exact' /\ [OwnDesk!Next]_(OwnDesk!desk)
    BY ExactStep, IterStep, OwnDeskStep
  <1> QED BY <1>1, <1>2, <1>3, ServesOneAtATime, PTL
          DEF IterSpec, ImplementsOwnDesk, OwnDesk!Spec
=============================================================================

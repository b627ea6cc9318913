------------------------- MODULE ThreadServerProofs -------------------------
(***************************************************************************)
(* Proofs about ThreadServer, for any clients, requests, books, log and    *)
(* limits: types, clients and threads in step, the number a client is      *)
(* told, and that the threads implement the order desk.                    *)
(***************************************************************************)
EXTENDS ThreadServer, TLAPS

\* InStep is inductive with this: a request that is not yet answered has a
\* client that waits for it or has left, and nothing happens for one that never
\* connected.
Asked ==
  \A c \in Clients :
     /\ data[c] # Nothing => client[c] \in {"waiting", "exited"}
     /\ client[c] = "new" => thread[c] = "none" /\ shown[c] = Nothing

\* NumberCoversOrder is inductive with this: the number is one of the log's
\* lines at every stage between the thread and the client's screen.
Covered ==
  \A c \in Clients :
     /\ place[c] <= Len(log)
     /\ thread[c] = "counting" => place[c] > 0
     /\ inbox[c] # Nothing /\ inbox[c].what = "order"
          => inbox[c].number \in place[c]..Len(log) /\ place[c] > 0

\* What a request holds, by its operation.
LEMMA RequestFields ==
  ASSUME NEW r \in Requests
  PROVE  /\ r.op = "order" => r.x \in Words /\ r.n \in Int
         /\ r.op = "pay" => r.orderno \in Int /\ r.amount \in Int
  BY ThreadAssumption DEF Request

\* What is said without a number is an answer.
LEMMA SayType ==
  ASSUME NEW what \in Answers
  PROVE  Say(what) \in Answer /\ Say(what).what = what
  BY DEF Say, Answer

LEMMA InitSteps == Init => TypeOK /\ InStep /\ Asked
  BY ThreadAssumption DEF Init, TypeOK, InStep, Asked, Thread

\* Every action keeps the types.
LEMMA TypeStep == TypeOK /\ InStep /\ [Next]_vars => TypeOK'
  <1> SUFFICES ASSUME TypeOK, InStep, [Next]_vars PROVE TypeOK'
    OBVIOUS
  <1> USE DEF TypeOK, Thread, serverVars, clientVars
  <1>1. ASSUME NEW c \in Clients, Connect(c) PROVE TypeOK'
    BY <1>1 DEF Connect
  <1>2. ASSUME NEW c \in Clients, NEW r \in Requests, Ask(c, r) PROVE TypeOK'
    BY <1>2 DEF Ask
  <1>3. ASSUME NEW c \in Clients, Exit(c) PROVE TypeOK'
    BY <1>3 DEF Exit
  <1>4. ASSUME NEW c \in Clients, Show(c) PROVE TypeOK'
    BY <1>4 DEF Show
  <1>5. ASSUME NEW c \in Clients, Broken(c) PROVE TypeOK'
    BY <1>5 DEF Broken
  <1>6. ASSUME NEW c \in Clients, Accept(c) PROVE TypeOK'
    BY <1>6 DEF Accept
  <1>7. ASSUME NEW c \in Clients, Disconnected(c) PROVE TypeOK'
    BY <1>7 DEF Disconnected
  <1>8. ASSUME NEW c \in Clients, DisplayCatalog(c) PROVE TypeOK'
    <2>1. \A what \in {"catalogue", "nothing", "garbage"} : Say(what) \in Answer
      BY SayType DEF Answers
    <2> QED BY <1>8, <2>1 DEF DisplayCatalog, Respond
  <1>9. ASSUME NEW c \in Clients, Search(c) PROVE TypeOK'
    <2>1. Say("Book Not Found") \in Answer /\ Say("book") \in Answer
      BY SayType DEF Answers
    <2>2. \E answer \in Answer : Respond(c, answer)
      BY ONLY <1>9, <2>1 DEF Search
    <2>3. leaked' \in {leaked, leaked + 1}
      BY ONLY <1>9 DEF Search
    <2>4. UNCHANGED <<up, log, data, clientVars, place, restarts>>
      BY ONLY <1>9 DEF Search
    <2> QED BY <2>2, <2>3, <2>4 DEF Respond
  <1>10. ASSUME NEW c \in Clients, OrderFails(c) PROVE TypeOK'
    <2>1. Say("no such book") \in Answer /\ Say("Internal Server Error") \in Answer
      BY SayType DEF Answers
    <2>2. \E answer \in Answer : Respond(c, answer)
      BY ONLY <1>10, <2>1 DEF OrderFails
    <2>3. leaked' \in {leaked, leaked + 1}
      BY ONLY <1>10 DEF OrderFails
    <2>4. UNCHANGED <<up, log, data, clientVars, place, restarts>>
      BY ONLY <1>10 DEF OrderFails
    <2> QED BY <2>2, <2>3, <2>4 DEF Respond
  <1>11. ASSUME NEW c \in Clients, OrderAppend(c) PROVE TypeOK'
    <2>1. LineOf(data[c]) \in OrderLine
      BY <1>11, RequestFields, ThreadAssumption
      DEF OrderAppend, Serving, Pending, OrderLine, LineOf
    <2>2. /\ Append(log, LineOf(data[c])) \in Seq(OrderLine)
          /\ Len(Append(log, LineOf(data[c]))) \in Nat
      BY <2>1
    <2> QED BY <1>11, <2>2 DEF OrderAppend
  <1>12. ASSUME NEW c \in Clients, OrderCount(c) PROVE TypeOK'
    <2>1. [what |-> "order", number |-> Len(log)] \in Answer
      BY DEF Answer
    <2> QED BY <1>12, <2>1 DEF OrderCount, Respond
  <1>13. ASSUME NEW c \in Clients, Pay(c) PROVE TypeOK'
    <2>1. \A total, amount : Verdict(total, amount) \in Answer
      BY SayType DEF Verdict, Answers
    <2> QED BY <1>13, <2>1 DEF Pay, Respond
  <1>14. ASSUME NEW c \in Clients, PayCrash(c) PROVE TypeOK'
    BY <1>14 DEF PayCrash, Die
  <1>15. ASSUME NEW c \in Clients, Write(c) PROVE TypeOK'
    BY <1>15 DEF Write, Unnoticed
  <1>16. ASSUME NEW c \in Clients, Free(c) PROVE TypeOK'
    <2>1. CASE Die
      BY <1>16, <2>1 DEF Free, Die
    <2>2. CASE /\ thread' = [thread EXCEPT ![c] = "reading"]
               /\ response' = [response EXCEPT ![c] = Nothing]
               /\ UNCHANGED <<up, leaked, data, unheard>>
      BY <1>16, <2>2 DEF Free
    <2> QED BY <1>16, <2>1, <2>2 DEF Free
  <1>17. ASSUME Restart PROVE TypeOK'
    BY <1>17, ThreadAssumption DEF Restart
  <1>18. CASE UNCHANGED vars
    BY <1>18 DEF vars
  <1>19. ASSUME NEW c \in Clients, CannotOpen(c) PROVE TypeOK'
    BY <1>19 DEF CannotOpen, Die
  <1>20. ASSUME NEW c \in Clients, ThreadFails(c) PROVE TypeOK'
    <2>1. CASE Die
      BY <1>20, <2>1 DEF ThreadFails, Die
    <2>2. CASE ~Die
      BY <1>20, <2>2 DEF ThreadFails
    <2> QED BY <2>1, <2>2
  <1> QED
    BY <1>1, <1>2, <1>3, <1>4, <1>5, <1>6, <1>7, <1>8, <1>9, <1>10, <1>11, <1>12,
       <1>13, <1>14, <1>15, <1>16, <1>17, <1>18, <1>19, <1>20
    DEF Next, Choose, Receive, Serve, Handle

\* Every action keeps clients and threads in step.
LEMMA StepStep == TypeOK /\ InStep /\ Asked /\ [Next]_vars => InStep' /\ Asked'
  <1> SUFFICES ASSUME TypeOK, InStep, Asked, [Next]_vars PROVE InStep' /\ Asked'
    OBVIOUS
  <1> USE DEF serverVars, clientVars
  <1> DEFINE Good == InStep' /\ Asked'
  <1>1. ASSUME NEW c \in Clients, Connect(c) PROVE Good
    <2>1. CASE UNCHANGED thread
      BY <1>1, <2>1 DEF Connect, TypeOK, InStep, Asked
    <2>2. CASE thread' = [thread EXCEPT ![c] = "queued"] /\ up
               /\ client' = [client EXCEPT ![c] = "menu"]
      <3>1. /\ thread[c] = "none" /\ data[c] = Nothing /\ inbox[c] = Nothing
            /\ response[c] = Nothing /\ c \notin unheard
        BY <1>1 DEF Connect, InStep, Asked
      <3>2. UNCHANGED <<up, data, response, inbox, shown, unheard>>
        BY <1>1 DEF Connect
      <3>3. InStep'
        BY <2>2, <3>1, <3>2 DEF TypeOK, InStep
      <3>4. Asked'
        BY <2>2, <3>1, <3>2 DEF TypeOK, Asked
      <3> QED BY <3>3, <3>4
    <2> QED BY <1>1, <2>1, <2>2 DEF Connect
  <1>2. ASSUME NEW c \in Clients, NEW r \in Requests, Ask(c, r) PROVE Good
    BY <1>2, ThreadAssumption DEF Ask, TypeOK, InStep, Asked
  <1>3. ASSUME NEW c \in Clients, Exit(c) PROVE Good
    BY <1>3 DEF Exit, TypeOK, InStep, Asked
  <1>4. ASSUME NEW c \in Clients, Show(c) PROVE Good
    BY <1>4 DEF Show, TypeOK, InStep, Asked
  <1>5. ASSUME NEW c \in Clients, Broken(c) PROVE Good
    BY <1>5 DEF Broken, TypeOK, InStep, Asked
  <1>6. ASSUME NEW c \in Clients, Accept(c) PROVE Good
    BY <1>6, SMTT(30) DEF Accept, TypeOK, InStep, Asked
  <1>7. ASSUME NEW c \in Clients, Disconnected(c) PROVE Good
    BY <1>7 DEF Disconnected, TypeOK, InStep, Asked
  <1>8. ASSUME NEW c \in Clients, NEW answer \in Answer, NEW op,
               Serving(c, op) \/ (thread[c] = "counting"), Respond(c, answer),
               UNCHANGED <<up, log, data, clientVars, restarts>>
        PROVE Good
    <2>1. answer # Nothing
      BY ThreadAssumption
    <2> QED BY <1>8, <2>1 DEF Serving, Pending, Respond, TypeOK, InStep, Asked
  <1>9. ASSUME NEW c \in Clients, DisplayCatalog(c) PROVE Good
    BY <1>9, <1>8, SayType DEF DisplayCatalog, Answers
  <1>10. ASSUME NEW c \in Clients, Search(c) PROVE Good
    BY <1>10, <1>8, SayType DEF Search, Answers
  <1>11. ASSUME NEW c \in Clients, OrderFails(c) PROVE Good
    BY <1>11, <1>8, SayType DEF OrderFails, Answers
  <1>12. ASSUME NEW c \in Clients, OrderAppend(c) PROVE Good
    BY <1>12 DEF OrderAppend, Serving, Pending, TypeOK, InStep, Asked
  <1>13. ASSUME NEW c \in Clients, OrderCount(c) PROVE Good
    <2>1. [what |-> "order", number |-> Len(log)] \in Answer
      BY DEF Answer, TypeOK
    <2> QED BY <1>13, <1>8, <2>1 DEF OrderCount
  <1>14. ASSUME NEW c \in Clients, Pay(c) PROVE Good
    <2>1. \A total, amount : Verdict(total, amount) \in Answer
      BY SayType DEF Verdict, Answers
    <2> QED BY <1>14, <1>8, <2>1 DEF Pay
  <1>15. ASSUME Die, UNCHANGED <<client, inbox, shown>> PROVE Good
    BY <1>15 DEF Die, TypeOK, InStep, Asked
  <1>16. ASSUME NEW c \in Clients, PayCrash(c) PROVE Good
    BY <1>16, <1>15 DEF PayCrash
  <1>17. ASSUME NEW c \in Clients, Write(c) PROVE Good
    BY <1>17 DEF Write, Unnoticed, TypeOK, InStep, Asked
  <1>18. ASSUME NEW c \in Clients, Free(c) PROVE Good
    <2>1. CASE Die
      BY <1>18, <1>15, <2>1 DEF Free
    <2>2. CASE /\ thread' = [thread EXCEPT ![c] = "reading"]
               /\ response' = [response EXCEPT ![c] = Nothing]
               /\ UNCHANGED <<up, leaked, data, unheard>>
      BY <1>18, <2>2 DEF Free, TypeOK, InStep, Asked
    <2> QED BY <1>18, <2>1, <2>2 DEF Free
  <1>19. ASSUME Restart PROVE Good
    BY <1>19 DEF Restart, TypeOK, InStep, Asked
  <1>20. CASE UNCHANGED vars
    BY <1>20 DEF vars, InStep, Asked
  <1>21. ASSUME NEW c \in Clients, CannotOpen(c) PROVE Good
    BY <1>21, <1>15 DEF CannotOpen
  <1>22. ASSUME NEW c \in Clients, ThreadFails(c) PROVE Good
    <2>1. CASE Die
      BY <1>22, <1>15, <2>1 DEF ThreadFails
    <2>2. CASE ~Die
      BY <1>22, <2>2 DEF ThreadFails, TypeOK, InStep, Asked
    <2> QED BY <2>1, <2>2
  <1> QED
    BY <1>1, <1>2, <1>3, <1>4, <1>5, <1>6, <1>7, <1>9, <1>10, <1>11, <1>12,
       <1>13, <1>14, <1>16, <1>17, <1>18, <1>19, <1>20, <1>21, <1>22
    DEF Next, Choose, Receive, Serve, Handle

\* A number that covers an order goes on to do so while the log grows.
LEMMA CoverStep ==
  TypeOK /\ InStep /\ Asked /\ NumberCoversOrder /\ Covered /\ [Next]_vars
    => NumberCoversOrder' /\ Covered'
  <1> SUFFICES ASSUME TypeOK, InStep, Asked, NumberCoversOrder, Covered, [Next]_vars
               PROVE  NumberCoversOrder' /\ Covered'
    OBVIOUS
  <1> USE DEF serverVars, clientVars
  <1> DEFINE Good == NumberCoversOrder' /\ Covered'
  <1>1. ASSUME NEW c \in Clients, Connect(c) PROVE Good
    BY <1>1 DEF Connect, TypeOK, InStep, Asked, NumberCoversOrder, Covered
  <1>2. ASSUME NEW c \in Clients, NEW r \in Requests, Ask(c, r) PROVE Good
    BY <1>2 DEF Ask, TypeOK, NumberCoversOrder, Covered
  <1>3. ASSUME NEW c \in Clients, Exit(c) PROVE Good
    BY <1>3 DEF Exit, TypeOK, NumberCoversOrder, Covered
  <1>4. ASSUME NEW c \in Clients, Show(c) PROVE Good
    BY <1>4 DEF Show, TypeOK, NumberCoversOrder, Covered
  <1>5. ASSUME NEW c \in Clients, Broken(c) PROVE Good
    BY <1>5 DEF Broken, TypeOK, NumberCoversOrder, Covered
  <1>6. ASSUME NEW c \in Clients, Accept(c) PROVE Good
    BY <1>6 DEF Accept, TypeOK, NumberCoversOrder, Covered
  <1>7. ASSUME NEW c \in Clients, Disconnected(c) PROVE Good
    BY <1>7 DEF Disconnected, TypeOK, NumberCoversOrder, Covered
  <1>8. ASSUME NEW c \in Clients, NEW what \in Answers, Respond(c, Say(what)),
               UNCHANGED <<log, clientVars, place>>
        PROVE Good
    <2>1. Say(what).what # "order"
      BY SayType DEF Answers
    <2> QED
      BY <1>8, <2>1 DEF Respond, TypeOK, NumberCoversOrder, Covered
  <1>9. ASSUME NEW c \in Clients, DisplayCatalog(c) PROVE Good
    BY <1>9, <1>8 DEF DisplayCatalog, Answers
  <1>10. ASSUME NEW c \in Clients, Search(c) PROVE Good
    BY <1>10, <1>8 DEF Search, Answers
  <1>11. ASSUME NEW c \in Clients, OrderFails(c) PROVE Good
    BY <1>11, <1>8 DEF OrderFails, Answers
  <1>12. ASSUME NEW c \in Clients, OrderAppend(c) PROVE Good
    <2>1. Len(log') = Len(log) + 1
      BY <1>12 DEF OrderAppend, TypeOK
    <2>2. client[c] \in {"waiting", "exited"} /\ inbox[c] = Nothing
      BY <1>12 DEF OrderAppend, Serving, Pending, InStep, Asked
    <2> QED
      BY <1>12, <2>1, <2>2 DEF OrderAppend, TypeOK, NumberCoversOrder, Covered
  <1>13. ASSUME NEW c \in Clients, OrderCount(c) PROVE Good
    BY <1>13 DEF OrderCount, Respond, TypeOK, NumberCoversOrder, Covered
  <1>14. ASSUME NEW c \in Clients, Pay(c) PROVE Good
    <2>1. \A total, amount :
            \E what \in Answers : Verdict(total, amount) = Say(what)
      BY DEF Verdict, Answers
    <2> QED BY <1>14, <1>8, <2>1 DEF Pay
  <1>15. ASSUME Die, UNCHANGED <<log, client, inbox, shown, place>> PROVE Good
    BY <1>15 DEF Die, TypeOK, NumberCoversOrder, Covered
  <1>16. ASSUME NEW c \in Clients, PayCrash(c) PROVE Good
    BY <1>16, <1>15 DEF PayCrash
  <1>17. ASSUME NEW c \in Clients, Write(c) PROVE Good
    BY <1>17 DEF Write, TypeOK, InStep, NumberCoversOrder, Covered
  <1>18. ASSUME NEW c \in Clients, Free(c) PROVE Good
    <2>1. CASE Die
      BY <1>18, <1>15, <2>1 DEF Free
    <2>2. CASE /\ thread' = [thread EXCEPT ![c] = "reading"]
               /\ response' = [response EXCEPT ![c] = Nothing]
               /\ UNCHANGED <<up, leaked, data, unheard>>
      BY <1>18, <2>2 DEF Free, TypeOK, NumberCoversOrder, Covered
    <2> QED BY <1>18, <2>1, <2>2 DEF Free
  <1>19. ASSUME Restart PROVE Good
    BY <1>19 DEF Restart, NumberCoversOrder, Covered
  <1>20. CASE UNCHANGED vars
    BY <1>20 DEF vars, NumberCoversOrder, Covered
  <1>21. ASSUME NEW c \in Clients, CannotOpen(c) PROVE Good
    BY <1>21, <1>15 DEF CannotOpen
  <1>22. ASSUME NEW c \in Clients, ThreadFails(c) PROVE Good
    <2>1. CASE Die
      BY <1>22, <1>15, <2>1 DEF ThreadFails
    <2>2. CASE ~Die
      BY <1>22, <2>2 DEF ThreadFails, TypeOK, NumberCoversOrder, Covered
    <2> QED BY <2>1, <2>2
  <1> QED
    BY <1>1, <1>2, <1>3, <1>4, <1>5, <1>6, <1>7, <1>9, <1>10, <1>11, <1>12,
       <1>13, <1>14, <1>16, <1>17, <1>18, <1>19, <1>20, <1>21, <1>22
    DEF Next, Choose, Receive, Serve, Handle

LEMMA InitCovers == Init => NumberCoversOrder /\ Covered
  BY ThreadAssumption DEF Init, NumberCoversOrder, Covered

LEMMA Steps == Spec => [](TypeOK /\ InStep /\ Asked)
  <1>1. TypeOK /\ InStep /\ Asked /\ [Next]_vars => (TypeOK /\ InStep /\ Asked)'
    BY TypeStep, StepStep
  <1> QED BY <1>1, InitSteps, PTL DEF Spec

\* The state of clients, connections and threads has its types, for any number
\* of clients and restarts and any books; OrderBook's failures in particular
\* never become order numbers.
THEOREM ThreadTyping == Spec => []TypeOK
  BY Steps, PTL

\* A thread serves a client that waits, and only the request that it waits
\* for, through every death and restart of the process.
THEOREM ThreadsInStep == Spec => []InStep
  BY Steps, PTL

LEMMA KnownSteps == Spec => [](NumberCoversOrder /\ Covered)
  <1>1. (TypeOK /\ InStep /\ Asked) /\ (NumberCoversOrder /\ Covered) /\ [Next]_vars
          => (NumberCoversOrder /\ Covered)'
    BY CoverStep
  <1> QED BY <1>1, InitCovers, Steps, PTL DEF Spec

\* The number that a client was told is, and remains, that of the line of its
\* order or of a line that another thread has added since.
THEOREM NumbersCover == Spec => []NumberCoversOrder
  BY KnownSteps, PTL

-----------------------------------------------------------------------------
(* The order desk.  All but three of the server's steps do nothing there,  *)
(* or drop what was wanted, due or told: a client asks for an order, a     *)
(* thread logs a line, and a client reads a number.                        *)

\* What the proofs above know of a state.
Known == TypeOK /\ InStep /\ Asked /\ NumberCoversOrder /\ Covered

\* At the desk, nothing happens to a client, or it is sent off.
Calm(c) ==
  /\ \/ Wanted'[c] = Wanted[c] /\ Due'[c] = Due[c]
     \/ Wanted'[c] = Nothing /\ Due'[c] = 0
  /\ Told'[c] \in {0, Told[c]}

LEMMA CalmStep ==
  ASSUME UNCHANGED log, \A c \in Clients : Calm(c)
  PROVE  Desk!Next
  <1> DEFINE dropped == {c \in Clients : Wanted'[c] = Nothing /\ Due'[c] = 0}
             elsewhere == {c \in Clients : Told'[c] = 0}
  <1>1. Wanted' = [c \in Clients |-> IF c \in dropped THEN Nothing ELSE Wanted[c]]
    BY DEF Wanted, Calm
  <1>2. Due' = [c \in Clients |-> IF c \in dropped THEN 0 ELSE Due[c]]
    BY DEF Due, Calm
  <1>3. Told' = [c \in Clients |-> IF c \in elsewhere THEN 0 ELSE Told[c]]
    BY DEF Told, Calm
  <1>4. Desk!Drop(dropped, elsewhere)
    BY <1>1, <1>2, <1>3 DEF Desk!Drop
  <1>5. dropped \in SUBSET Clients /\ elsewhere \in SUBSET Clients
    OBVIOUS
  <1> QED BY <1>4, <1>5 DEF Desk!Next

\* The desk sees only these of a client.
LEMMA SameClient ==
  ASSUME NEW c \in Clients,
         data'[c] = data[c], thread'[c] = thread[c], response'[c] = response[c],
         inbox'[c] = inbox[c], shown'[c] = shown[c], place'[c] = place[c]
  PROVE  Calm(c)
  BY DEF Calm, Wanted, Due, Told, IsOrder

\* When the process dies, answers that were sent still arrive.
LEMMA DieCalm ==
  ASSUME Known, Die, UNCHANGED <<log, inbox, shown, place>>
  PROVE  Desk!Next
  <1>1. ASSUME NEW c \in Clients PROVE Calm(c)
    <2>1. Wanted'[c] = Nothing /\ Told'[c] = Told[c]
      BY DEF Die, Wanted, Told, IsOrder
    <2>2. CASE IsOrder(inbox[c])
      <3>1. Wanted[c] = Nothing /\ Due[c] = place[c] /\ Due'[c] = place[c]
        BY <2>2 DEF Known, InStep, Wanted, Due, Die, IsOrder
      <3> QED BY <2>1, <3>1 DEF Calm
    <2>3. CASE ~IsOrder(inbox[c])
      <3>1. Due'[c] = 0
        BY <2>3 DEF Due, Die, IsOrder
      <3> QED BY <2>1, <3>1 DEF Calm
    <2> QED BY <2>2, <2>3
  <1> QED BY <1>1, CalmStep

\* A thread that has an answer without a number has served its request.
LEMMA AnswerCalm ==
  ASSUME Known, NEW c \in Clients, NEW what \in Answers, Respond(c, Say(what)),
         NEW op, Serving(c, op), UNCHANGED <<log, data, inbox, shown, place>>
  PROVE  Desk!Next
  <1>1. Say(what).what # "order" /\ inbox[c] = Nothing
    BY SayType DEF Answers, Known, InStep, Serving, Pending
  <1>2. Calm(c)
    <2>1. thread'[c] = "replying" /\ response'[c] = Say(what)
      BY DEF Respond, Known, TypeOK
    <2>2. Wanted'[c] = Nothing /\ Due'[c] = 0 /\ Told'[c] = Told[c]
      BY <1>1, <2>1 DEF Wanted, Due, Told, IsOrder
    <2> QED BY <2>2 DEF Calm
  <1>3. ASSUME NEW d \in Clients, d # c PROVE Calm(d)
    BY <1>3, SameClient DEF Respond, Known, TypeOK
  <1> QED BY <1>2, <1>3, CalmStep

\* A client that has no line on its way may ask for one.
LEMMA AskStep ==
  ASSUME Known, NEW c \in Clients, NEW r \in Requests, Ask(c, r)
  PROVE  Desk!Next
  <1> USE DEF Known, TypeOK, InStep, Asked, serverVars
  <1>1. /\ client[c] = "menu" /\ data[c] = Nothing /\ inbox[c] = Nothing
        /\ thread[c] \notin {"counting", "replying"}
    BY DEF Ask
  <1>2. Wanted[c] = Nothing /\ Due[c] = 0
    BY <1>1 DEF Wanted, Due, IsOrder
  <1>3. /\ UNCHANGED <<log, thread, response, inbox, place>>
        /\ data' = [data EXCEPT ![c] = r] /\ shown' = [shown EXCEPT ![c] = Nothing]
    BY DEF Ask
  <1>4. ASSUME NEW d \in Clients, d # c PROVE Calm(d)
    BY <1>3, <1>4, SameClient
  <1>5. Due'[c] = 0 /\ Told'[c] = 0
    BY <1>1, <1>3 DEF Due, Told, IsOrder
  <1>6. CASE r.op = "order"
    <2>1. Wanted'[c] = LineOf(r)
      BY <1>1, <1>3, <1>6, ThreadAssumption DEF Wanted
    <2>2. Wanted' = [Wanted EXCEPT ![c] = LineOf(r)] /\ Due' = Due
          /\ Told' = [Told EXCEPT ![c] = 0]
      <3>1. \A d \in Clients \ {c} :
               Wanted'[d] = Wanted[d] /\ Due'[d] = Due[d] /\ Told'[d] = Told[d]
        BY <1>3 DEF Wanted, Due, Told, IsOrder
      <3> HIDE DEF Known, TypeOK, InStep, Asked
      <3>2. Wanted' = [Wanted EXCEPT ![c] = LineOf(r)]
        BY <2>1, <3>1 DEF Wanted
      <3>3. Due' = Due
        BY <1>2, <1>5, <3>1 DEF Due
      <3>4. Told' = [Told EXCEPT ![c] = 0]
        <4>1. /\ Told' = [d \in Clients |-> Told'[d]]
              /\ [Told EXCEPT ![c] = 0] = [d \in Clients |-> IF d = c THEN 0 ELSE Told[d]]
          BY DEF Told
        <4>2. \A d \in Clients : Told'[d] = IF d = c THEN 0 ELSE Told[d]
          BY <1>5, <3>1
        <4> HIDE DEF Told
        <4> QED BY <4>1, <4>2
      <3> QED BY <3>2, <3>3, <3>4
    <2>3. Desk!Want(c, LineOf(r))
      BY <1>2, <1>3, <2>2 DEF Desk!Want
    <2>4. LineOf(r) \in {LineOf(q) : q \in {p \in Requests : p.op = "order"}}
      BY <1>6
    <2> QED BY <2>3, <2>4 DEF Desk!Next
  <1>7. CASE r.op # "order"
    <2>1. Wanted'[c] = Nothing
      BY <1>1, <1>3, <1>7 DEF Wanted
    <2>2. Calm(c)
      BY <1>5, <2>1 DEF Calm
    <2> QED BY <1>3, <1>4, <2>2, CalmStep
  <1> QED BY <1>6, <1>7

\* The line that is appended is the one that its client wanted.
LEMMA AppendStep ==
  ASSUME Known, NEW c \in Clients, OrderAppend(c)
  PROVE  Desk!Next
  <1> USE DEF Known, TypeOK
  <1>1. /\ thread[c] = "reading" /\ data[c] # Nothing /\ data[c].op = "order"
        /\ log' = Append(log, LineOf(data[c]))
        /\ place' = [place EXCEPT ![c] = Len(log')]
        /\ thread' = [thread EXCEPT ![c] = "counting"]
        /\ UNCHANGED <<data, response, inbox, shown>>
    BY DEF OrderAppend, Serving, Pending, clientVars
  <1>2. Wanted[c] = LineOf(data[c]) /\ Wanted'[c] = Nothing
    BY <1>1 DEF Wanted
  <1>3. LineOf(data[c]) # Nothing
    BY <1>1, RequestFields, ThreadAssumption DEF LineOf, OrderLine
  <1>4. Due'[c] = Len(log')
    BY <1>1 DEF Due
  <1>5. \A d \in Clients \ {c} : Wanted'[d] = Wanted[d] /\ Due'[d] = Due[d]
    BY <1>1 DEF Wanted, Due, IsOrder
  <1>6. Wanted' = [Wanted EXCEPT ![c] = Nothing]
    BY <1>2, <1>5 DEF Wanted
  <1>7. Due' = [Due EXCEPT ![c] = Len(log')]
    BY <1>4, <1>5 DEF Due
  <1>8. Told' = Told
    BY <1>1 DEF Told, IsOrder
  <1>9. Desk!Place(c)
    BY <1>1, <1>2, <1>3, <1>6, <1>7, <1>8 DEF Desk!Place
  <1> QED BY <1>9 DEF Desk!Next

\* The number that a client reads is that of its line, or of a later one.
LEMMA ShowStep ==
  ASSUME Known, NEW c \in Clients, Show(c)
  PROVE  Desk!Next
  <1> USE DEF Known, TypeOK, serverVars
  <1>1. /\ inbox[c] # Nothing /\ inbox[c] \in Answer
        /\ shown' = [shown EXCEPT ![c] = inbox[c]]
        /\ inbox' = [inbox EXCEPT ![c] = Nothing]
        /\ UNCHANGED <<log, thread, response, place, data>>
    BY DEF Show
  <1>2. data[c] = Nothing /\ thread[c] \notin {"counting", "replying"}
    BY <1>1 DEF InStep
  <1>3. Wanted'[c] = Nothing /\ Wanted[c] = Nothing /\ Due'[c] = 0
    BY <1>1, <1>2 DEF Wanted, Due, IsOrder
  <1>4. CASE IsOrder(inbox[c])
    <2>1. Due[c] = place[c] /\ place[c] # 0 /\ inbox[c].number \in place[c]..Len(log)
      BY <1>4 DEF Due, Covered, IsOrder
    <2>2. Told'[c] = inbox[c].number
      BY <1>1, <1>4 DEF Told
    <2>3. \A d \in Clients \ {c} :
             Wanted'[d] = Wanted[d] /\ Due'[d] = Due[d] /\ Told'[d] = Told[d]
      BY <1>1 DEF Wanted, Due, Told, IsOrder
    <2>4. Wanted' = Wanted
      BY <1>3, <2>3 DEF Wanted
    <2>5. Due' = [Due EXCEPT ![c] = 0]
      BY <1>3, <2>3 DEF Due
    <2>6. Told' = [Told EXCEPT ![c] = inbox[c].number]
      BY <2>2, <2>3 DEF Told
    <2>7. Desk!Tell(c)
      BY <1>1, <2>1, <2>4, <2>5, <2>6 DEF Desk!Tell
    <2> QED BY <2>7 DEF Desk!Next
  <1>5. CASE ~IsOrder(inbox[c])
    <2>1. Told'[c] = 0
      BY <1>1, <1>5 DEF Told
    <2>2. Calm(c)
      BY <1>3, <2>1 DEF Calm
    <2>3. ASSUME NEW d \in Clients, d # c PROVE Calm(d)
      BY <1>1, <2>3, SameClient
    <2> QED BY <1>1, <2>2, <2>3, CalmStep
  <1> QED BY <1>4, <1>5

\* Whoever leaves, or finds the connection broken, gives up what is under way.
LEMMA LeaveStep ==
  ASSUME Known, NEW c \in Clients, Exit(c) \/ Broken(c)
  PROVE  Desk!Next
  <1> USE DEF Known, TypeOK, serverVars
  <1>1. /\ shown' = [shown EXCEPT ![c] = Nothing]
        /\ inbox' = [inbox EXCEPT ![c] = Nothing]
        /\ UNCHANGED <<log, thread, response, place>>
    BY DEF Exit, Broken
  <1>2. Told'[c] = 0
    BY <1>1 DEF Told, IsOrder
  <1>3. ASSUME NEW d \in Clients, d # c PROVE Calm(d)
    <2>1. data'[d] = data[d]
      BY <1>3 DEF Exit, Broken
    <2> QED BY <1>1, <1>3, <2>1, SameClient
  <1>4. Calm(c)
    <2>1. CASE Broken(c)
      <3>1. thread[c] = "none" /\ data'[c] = Nothing
        BY <2>1 DEF Broken
      <3>2. Wanted'[c] = Nothing /\ Due'[c] = 0
        BY <1>1, <3>1 DEF Wanted, Due, IsOrder
      <3> QED BY <1>2, <3>2 DEF Calm
    <2>2. CASE Exit(c) /\ IsOrder(inbox[c])
      <3>1. /\ data[c] = Nothing /\ thread[c] \notin {"counting", "replying"}
            /\ data'[c] = data[c]
        BY <2>2 DEF Exit, InStep, IsOrder
      <3>2. Wanted'[c] = Nothing /\ Due'[c] = 0
        BY <1>1, <3>1 DEF Wanted, Due, IsOrder
      <3> QED BY <1>2, <3>2 DEF Calm
    <2>3. CASE Exit(c) /\ ~IsOrder(inbox[c])
      <3>1. data'[c] = data[c]
        BY <2>3 DEF Exit
      <3>2. Wanted'[c] = Wanted[c] /\ Due'[c] = Due[c]
        BY <1>1, <2>3, <3>1 DEF Wanted, Due, IsOrder
      <3> QED BY <1>2, <3>2 DEF Calm
    <2> QED BY <2>1, <2>2, <2>3
  <1> QED BY <1>1, <1>3, <1>4, CalmStep

\* A connection that is not served is none to the desk.
LEMMA IdleStep ==
  ASSUME Known, NEW c \in Clients, Connect(c) \/ Accept(c) \/ Disconnected(c)
  PROVE  Desk!Next
  <1>1. /\ UNCHANGED <<log, data, response, inbox, shown, place>>
        /\ \A d \in Clients \ {c} : thread'[d] = thread[d]
    BY DEF Connect, Accept, Disconnected, clientVars, Known, TypeOK
  <1>2. {thread[c], thread'[c]} \cap {"counting", "replying"} = {}
    BY DEF Connect, Accept, Disconnected, Known, TypeOK, Asked
  <1>3. Calm(c)
    BY <1>1, <1>2 DEF Calm, Wanted, Due, Told
  <1>4. ASSUME NEW d \in Clients, d # c PROVE Calm(d)
    BY <1>1, <1>4, SameClient
  <1> QED BY <1>1, <1>3, <1>4, CalmStep

\* What a connection was closed on before a thread had it is not wanted any more.
LEMMA ThreadFailsStep ==
  ASSUME Known, NEW c \in Clients, ThreadFails(c)
  PROVE  Desk!Next
  <1>1. CASE Die
    BY <1>1, DieCalm DEF ThreadFails
  <1>2. CASE ~Die
    <2>1. /\ thread[c] = "queued" /\ thread' = [thread EXCEPT ![c] = "none"]
          /\ data' = [data EXCEPT ![c] = Nothing]
          /\ UNCHANGED <<log, response, inbox, shown, place>>
      BY <1>2 DEF ThreadFails
    <2>2. Calm(c)
      <3>1. Wanted'[c] = Nothing /\ Told'[c] = Told[c]
        BY <2>1 DEF Wanted, Told, IsOrder, Known, TypeOK
      <3>2. CASE IsOrder(inbox[c])
        <4>1. Wanted[c] = Nothing /\ Due'[c] = Due[c]
          BY <2>1, <3>2 DEF Wanted, Due, IsOrder, Known, TypeOK, InStep
        <4> QED BY <3>1, <4>1 DEF Calm
      <3>3. CASE ~IsOrder(inbox[c])
        <4>1. Due'[c] = 0
          BY <2>1, <3>3 DEF Due, IsOrder, Known, TypeOK
        <4> QED BY <3>1, <4>1 DEF Calm
      <3> QED BY <3>2, <3>3
    <2>3. ASSUME NEW d \in Clients, d # c PROVE Calm(d)
      BY <2>1, <2>3, SameClient DEF Known, TypeOK
    <2> QED BY <2>1, <2>2, <2>3, CalmStep
  <1> QED BY <1>1, <1>2

\* The number that is counted does not change what is due.
LEMMA CountStep ==
  ASSUME Known, NEW c \in Clients, OrderCount(c)
  PROVE  Desk!Next
  <1> USE DEF Known, TypeOK, clientVars
  <1>1. /\ thread[c] = "counting" /\ thread' = [thread EXCEPT ![c] = "replying"]
        /\ response' = [response EXCEPT ![c] = [what |-> "order", number |-> Len(log)]]
        /\ UNCHANGED <<log, data, inbox, shown, place>>
    BY DEF OrderCount, Respond
  <1>2. [what |-> "order", number |-> Len(log)] # Nothing
    BY ThreadAssumption DEF Answer
  <1>3. IsOrder(response'[c])
    BY <1>1, <1>2 DEF IsOrder
  <1>4. Calm(c)
    BY <1>1, <1>3 DEF Calm, Wanted, Due, Told
  <1>5. ASSUME NEW d \in Clients, d # c PROVE Calm(d)
    BY <1>1, <1>5, SameClient
  <1> QED BY <1>1, <1>4, <1>5, CalmStep

\* A number goes from the thread to its client, or reaches nobody.
LEMMA WriteStep ==
  ASSUME Known, NEW c \in Clients, Write(c)
  PROVE  Desk!Next
  <1> USE DEF Known, TypeOK
  <1>1. /\ thread[c] = "replying" /\ thread' = [thread EXCEPT ![c] = "freeing"]
        /\ data' = [data EXCEPT ![c] = Nothing]
        /\ UNCHANGED <<log, response, shown, place>>
    BY DEF Write
  <1>2. inbox[c] = Nothing /\ Wanted'[c] = Nothing /\ Wanted[c] = Nothing
    BY <1>1 DEF InStep, Wanted
  <1>3. Told'[c] = Told[c]
    BY <1>1 DEF Told, IsOrder
  <1>4. CASE UNCHANGED inbox
    <2>1. Due'[c] = 0
      BY <1>1, <1>2, <1>4 DEF Due, IsOrder
    <2>2. Calm(c)
      BY <1>2, <1>3, <2>1 DEF Calm
    <2>3. ASSUME NEW d \in Clients, d # c PROVE Calm(d)
      BY <1>1, <1>4, <2>3, SameClient
    <2> QED BY <1>1, <2>2, <2>3, CalmStep
  <1>5. CASE inbox' = [inbox EXCEPT ![c] = response[c]]
    <2>1. Due'[c] = Due[c]
      BY <1>1, <1>2, <1>5 DEF Due, IsOrder
    <2>2. Calm(c)
      BY <1>2, <1>3, <2>1 DEF Calm
    <2>3. ASSUME NEW d \in Clients, d # c PROVE Calm(d)
      BY <1>1, <1>5, <2>3, SameClient
    <2> QED BY <1>1, <2>2, <2>3, CalmStep
  <1> QED BY <1>4, <1>5 DEF Write

LEMMA FreeStep ==
  ASSUME Known, NEW c \in Clients, Free(c)
  PROVE  Desk!Next
  <1>1. CASE Die
    BY <1>1, DieCalm DEF Free
  <1>2. CASE ~Die
    <2>1. /\ thread[c] = "freeing" /\ thread' = [thread EXCEPT ![c] = "reading"]
          /\ response' = [response EXCEPT ![c] = Nothing]
          /\ UNCHANGED <<log, data, inbox, shown, place>>
      BY <1>2 DEF Free
    <2>2. Calm(c)
      BY <2>1 DEF Calm, Wanted, Due, Told, IsOrder, Known, TypeOK
    <2>3. ASSUME NEW d \in Clients, d # c PROVE Calm(d)
      BY <2>1, <2>3, SameClient DEF Known, TypeOK
    <2> QED BY <2>1, <2>2, <2>3, CalmStep
  <1> QED BY <1>1, <1>2

\* Every step of the thread server is one at the desk, or none.
LEMMA DeskStep == Known /\ [Next]_vars => [Desk!Next]_(Desk!desk)
  <1> SUFFICES ASSUME Known, [Next]_vars PROVE Desk!Next \/ UNCHANGED Desk!desk
    OBVIOUS
  <1>1. ASSUME NEW c \in Clients, DisplayCatalog(c) \/ Search(c) \/ OrderFails(c) \/ Pay(c)
        PROVE  Desk!Next
    <2>1. UNCHANGED <<log, data, inbox, shown, place>>
      BY <1>1 DEF DisplayCatalog, Search, OrderFails, Pay, clientVars
    <2>2. \E op \in {"display", "search", "order", "pay"} : Serving(c, op)
      BY <1>1 DEF DisplayCatalog, Search, OrderFails, Pay
    <2>3. \E what \in Answers : Respond(c, Say(what))
      BY <1>1 DEF DisplayCatalog, Search, OrderFails, Pay, Verdict, Answers
    <2> QED BY <2>1, <2>2, <2>3, AnswerCalm
  <1>2. ASSUME NEW c \in Clients, CannotOpen(c) \/ PayCrash(c) PROVE Desk!Next
    BY <1>2, DieCalm DEF CannotOpen, PayCrash
  <1>3. CASE Restart \/ UNCHANGED vars
    BY <1>3 DEF Restart, vars, serverVars, clientVars, Desk!desk, Wanted, Due, Told
  <1> QED
    BY <1>1, <1>2, <1>3, IdleStep, AskStep, LeaveStep, ShowStep, ThreadFailsStep,
       AppendStep, CountStep, WriteStep, FreeStep
    DEF Next, Choose, Receive, Serve, Handle

\* The thread server implements the order desk: whatever its threads do to each
\* other, and however often the process dies and is started again, an order is
\* logged at most once and only if it was asked for, no line is lost, and a
\* client is told a number between that of its line and that of the last one.
THEOREM ThreadsImplementDesk == Spec => ImplementsDesk
  <1>1. Init => Desk!Init
    BY DEF Init, Desk!Init, Wanted, Due, Told, IsOrder
  <1>2. Spec => []Known
    BY Steps, KnownSteps, PTL DEF Known
  <1> QED BY <1>1, <1>2, DeskStep, PTL DEF Spec, ImplementsDesk, Desk!Spec
=============================================================================

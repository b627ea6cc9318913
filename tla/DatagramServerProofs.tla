------------------------ MODULE DatagramServerProofs ------------------------
(***************************************************************************)
(* Proofs about DatagramServer, for any clients, requests, books, log and  *)
(* limits: the type invariant; what becomes of an order number that        *)
(* somebody was told; that a client has one request or answer on its way;  *)
(* and that the server implements the order desk with every client's own   *)
(* number.                                                                 *)
(***************************************************************************)
EXTENDS DatagramServer, TLAPS

\* The first datagram and the others.
LEMMA MailboxHead ==
  ASSUME TypeOK, mailbox # <<>>
  PROVE  /\ Head(mailbox) \in Datagram /\ Tail(mailbox) \in Seq(Datagram)
  BY DEF TypeOK

\* What a request holds, by its operation.
LEMMA OrderFields ==
  ASSUME NEW r \in Requests, r.op = "order"
  PROVE  LineOf(r) \in OrderLine
  BY DatagramAssumption DEF Request, LineOf, OrderLine

\* A response is a turn for the client that asked first.
LEMMA RespondType ==
  ASSUME TypeOK, Pending, NEW what, NEW number, Respond(what, number),
         [what |-> what, number |-> number] \in Answer
  PROVE  /\ turn' \in Turn /\ turn'.to = Head(mailbox).from
         /\ turn'.answer = [what |-> what, number |-> number]
         /\ mailbox' \in Seq(Datagram)
  <1>1. mailbox # <<>>
    BY DEF Pending
  <1>2. Head(mailbox).from \in Clients
    BY <1>1, MailboxHead DEF Datagram
  <1> QED BY <1>1, <1>2, MailboxHead DEF Respond, Turn

LEMMA PlainAnswer ==
  ASSUME NEW what \in Answers
  PROVE  [what |-> what, number |-> 0] \in Answer /\ what # "order"
  BY DEF Answer, Answers

\* The answers without a number.
LEMMA PlainResponse ==
  ASSUME TypeOK, DisplayCatalog \/ Search \/ OrderRefused \/ Pay
  PROVE  /\ Pending /\ mailbox' = Tail(mailbox) /\ mailbox' \in Seq(Datagram)
         /\ turn' \in Turn /\ turn'.to = Head(mailbox).from
         /\ turn'.answer.what # "order" /\ turn'.answer.number = 0
         /\ UNCHANGED <<up, log, restarts, client, inbox, shown, told, lost>>
  <1>1. Pending /\ \E what \in Answers : Respond(what, 0)
    BY DEF DisplayCatalog, Search, OrderRefused, Pay, Serving, Answers
  <1>2. PICK what \in Answers : Respond(what, 0)
    BY <1>1
  <1>3. [what |-> what, number |-> 0] \in Answer /\ what # "order"
    BY PlainAnswer
  <1>4. UNCHANGED <<up, log, restarts, client, inbox, shown, told, lost>>
    BY DEF DisplayCatalog, Search, OrderRefused, Pay, clientVars
  <1>5. mailbox' = Tail(mailbox)
    BY <1>2 DEF Respond
  <1> QED BY <1>1, <1>2, <1>3, <1>4, <1>5, RespondType

\* The answers with one.
LEMMA OrderResponse ==
  ASSUME TypeOK, OrderUnwritten \/ OrderPlaced
  PROVE  /\ Pending /\ mailbox' = Tail(mailbox) /\ mailbox' \in Seq(Datagram)
         /\ Head(mailbox).data \in Requests /\ Head(mailbox).data.op = "order"
         /\ turn' \in Turn /\ turn'.to = Head(mailbox).from
         /\ turn'.answer.number = IF OrderPlaced THEN Len(log') ELSE NoOrdersFile
         /\ log' \in Seq(OrderLine) /\ Len(log) \in Nat
         /\ IF OrderPlaced THEN Len(log') = Len(log) + 1 ELSE log' = log
         /\ UNCHANGED <<up, leaked, restarts, client, inbox, shown, told, lost>>
  <1>1. Pending /\ Head(mailbox).data \in Requests /\ Head(mailbox).data.op = "order"
    BY MailboxHead DEF OrderUnwritten, OrderPlaced, Serving, Pending, Datagram
  <1>2. UNCHANGED <<up, leaked, restarts, client, inbox, shown, told, lost>>
    BY DEF OrderUnwritten, OrderPlaced, clientVars
  <1>3. mailbox' = Tail(mailbox)
    BY DEF OrderUnwritten, OrderPlaced, Respond
  <1>4. CASE OrderPlaced
    <2>1. /\ log' \in Seq(OrderLine) /\ Len(log') = Len(log) + 1 /\ Len(log) \in Nat
          /\ Len(log') \in Nat
      BY <1>1, <1>4, OrderFields DEF OrderPlaced, TypeOK
    <2>2. [what |-> "order", number |-> Len(log')] \in Answer
      BY <2>1 DEF Answer
    <2>3. Respond("order", Len(log'))
      BY <1>4 DEF OrderPlaced
    <2> QED BY <1>1, <1>2, <1>3, <1>4, <2>1, <2>2, <2>3, RespondType
  <1>5. CASE ~OrderPlaced
    <2>1. [what |-> "order", number |-> NoOrdersFile] \in Answer
      BY DEF Answer
    <2>2. Respond("order", NoOrdersFile) /\ log' = log
      BY <1>5 DEF OrderUnwritten
    <2>3. log \in Seq(OrderLine) /\ Len(log) \in Nat
      BY DEF TypeOK
    <2> QED BY <1>1, <1>2, <1>3, <1>5, <2>1, <2>2, <2>3, RespondType
  <1> QED BY <1>4, <1>5

-----------------------------------------------------------------------------
(* One request or answer for each client.                                  *)

\* The places where a client's request or its answer can be.
HasRequest(c) == \E i \in 1..Len(mailbox) : mailbox[i].from = c
HasTurn(c) == turn # Nothing /\ turn.to = c
HasAnswer(c) == inbox[c] # Nothing
HasLost(c) == c \in lost

\* No client has two, not even one that has left; one that has left reads none.
AtMostOne(c) ==
  /\ \A i, j \in 1..Len(mailbox) :
        mailbox[i].from = c /\ mailbox[j].from = c => i = j
  /\ HasRequest(c) => ~HasTurn(c) /\ ~HasAnswer(c) /\ ~HasLost(c)
  /\ HasTurn(c) => ~HasAnswer(c) /\ ~HasLost(c)
  /\ HasAnswer(c) => ~HasLost(c)
OneEach ==
  /\ \A c \in Clients :
       /\ AtMostOne(c)
       /\ client[c] = "waiting" =>
            HasRequest(c) \/ HasTurn(c) \/ HasAnswer(c) \/ HasLost(c)
       /\ client[c] = "menu" =>
            ~HasRequest(c) /\ ~HasTurn(c) /\ ~HasAnswer(c) /\ ~HasLost(c)
       /\ client[c] = "exited" => ~HasAnswer(c)
  /\ up \/ (mailbox = <<>> /\ turn = Nothing)

LEMMA OneTrack ==
  ASSUME TypeOK, OneEach
  PROVE  OneOnItsWay
  <1>1. ASSUME NEW c \in Clients, client[c] = "menu" PROVE Tracks(c) = {}
    BY <1>1 DEF OneEach, HasRequest, HasTurn, HasAnswer, HasLost, Tracks
  <1>2. ASSUME NEW c \in Clients, client[c] = "waiting"
        PROVE  \E track \in Tracks(c) : Tracks(c) = {track}
    <2>1. AtMostOne(c) /\ (HasRequest(c) \/ HasTurn(c) \/ HasAnswer(c) \/ HasLost(c))
      BY <1>2 DEF OneEach
    <2>2. CASE HasRequest(c)
      <3>1. PICK i \in 1..Len(mailbox) : mailbox[i].from = c
        BY <2>2 DEF HasRequest
      <3>2. {j \in 1..Len(mailbox) : mailbox[j].from = c} = {i}
        BY <2>1, <3>1 DEF AtMostOne
      <3>3. Tracks(c) = {<<"request", i>>}
        BY <2>1, <2>2, <3>2 DEF AtMostOne, HasTurn, HasAnswer, HasLost, Tracks
      <3> QED BY <3>3
    <2>3. CASE ~HasRequest(c)
      <3>1. {j \in 1..Len(mailbox) : mailbox[j].from = c} = {}
        BY <2>3 DEF HasRequest
      <3>2. \E where \in {"turn", "answer", "lost"} : Tracks(c) = {<<where, 0>>}
        BY <2>1, <2>3, <3>1 DEF AtMostOne, HasTurn, HasAnswer, HasLost, Tracks
      <3> QED BY <3>2
    <2> QED BY <2>2, <2>3
  <1> QED BY <1>1, <1>2 DEF OneOnItsWay, OneEach

\* What is left after the first datagram was taken.
LEMMA TailRequests ==
  ASSUME TypeOK, OneEach, mailbox # <<>>, mailbox' = Tail(mailbox)
  PROVE  /\ Len(mailbox') = Len(mailbox) - 1 /\ Len(mailbox) \in Nat \ {0}
         /\ \A i \in 1..Len(mailbox') : mailbox'[i] = mailbox[i + 1] /\ i + 1 \in 1..Len(mailbox)
         /\ Head(mailbox) = mailbox[1] /\ Head(mailbox).from \in Clients
         /\ \A i \in 1..Len(mailbox') : mailbox'[i].from # Head(mailbox).from
         /\ \A i \in 2..Len(mailbox) : mailbox[i] = mailbox'[i - 1] /\ i - 1 \in 1..Len(mailbox')
  <1>1. Len(mailbox) \in Nat \ {0} /\ mailbox \in Seq(Datagram)
    BY DEF TypeOK
  <1>2. /\ Len(mailbox') = Len(mailbox) - 1
        /\ \A i \in 1..Len(mailbox') : mailbox'[i] = mailbox[i + 1]
        /\ Head(mailbox) = mailbox[1] /\ mailbox[1] \in Datagram
    BY <1>1
  <1>3. Head(mailbox).from \in Clients
    BY <1>2 DEF Datagram
  <1>4. \A i, j \in 1..Len(mailbox) :
           mailbox[i].from = Head(mailbox).from /\ mailbox[j].from = Head(mailbox).from => i = j
    BY <1>3 DEF OneEach, AtMostOne
  <1>5. ASSUME NEW i \in 1..Len(mailbox') PROVE mailbox'[i].from # Head(mailbox).from
    <2>1. i + 1 \in 1..Len(mailbox) /\ 1 \in 1..Len(mailbox) /\ i + 1 # 1
      BY <1>1, <1>2
    <2> QED BY <1>2, <1>4, <2>1
  <1> QED BY <1>1, <1>2, <1>3, <1>5

\* An answer is being prepared for the client whose datagram was the first.
LEMMA RespondOne ==
  ASSUME TypeOK, OneEach, Pending, NEW what, NEW number, Respond(what, number),
         UNCHANGED <<up, client, inbox, lost>>, turn' # Nothing
  PROVE  OneEach'
  <1>0. PICK d \in Clients : d = Head(mailbox).from
    BY TailRequests DEF Pending, Respond
  <1>1. mailbox # <<>> /\ mailbox' = Tail(mailbox) /\ turn = Nothing /\ up
        /\ turn'.to = d
    BY <1>0 DEF Pending, Respond
  <1>2. /\ \A i \in 1..Len(mailbox') : mailbox'[i] = mailbox[i + 1] /\ i + 1 \in 1..Len(mailbox)
        /\ mailbox[1].from = d /\ 1 \in 1..Len(mailbox) /\ d \in Clients
        /\ \A i \in 1..Len(mailbox') : mailbox'[i].from # d
        /\ \A i \in 2..Len(mailbox) : mailbox[i] = mailbox'[i - 1] /\ i - 1 \in 1..Len(mailbox')
        /\ Len(mailbox) \in Nat /\ Len(mailbox') \in Nat
    BY <1>0, <1>1, TailRequests
  <1>3. HasRequest(d) /\ ~HasRequest(d)'
    BY <1>2 DEF HasRequest
  <1>4. ~HasTurn(d) /\ ~HasAnswer(d) /\ ~HasLost(d) /\ client[d] # "menu"
    BY <1>2, <1>3 DEF OneEach, AtMostOne
  <1>5. ASSUME NEW c \in Clients, c # d
        PROVE  /\ HasRequest(c)' <=> HasRequest(c)
               /\ ~HasTurn(c) /\ ~HasTurn(c)'
    <2>1. HasRequest(c) => HasRequest(c)'
      <3> SUFFICES ASSUME NEW i \in 1..Len(mailbox), mailbox[i].from = c
                   PROVE  HasRequest(c)'
        BY DEF HasRequest
      <3>1. i \in 2..Len(mailbox)
        BY <1>2, <1>5
      <3> QED BY <1>2, <3>1 DEF HasRequest
    <2>2. HasRequest(c)' => HasRequest(c)
      BY <1>2 DEF HasRequest
    <2> QED BY <1>1, <1>5, <2>1, <2>2 DEF HasTurn
  <1>6. ASSUME NEW c \in Clients,
               NEW i \in 1..Len(mailbox'), NEW j \in 1..Len(mailbox'),
               mailbox'[i].from = c, mailbox'[j].from = c
        PROVE  i = j
    <2>1. mailbox[i + 1].from = c /\ mailbox[j + 1].from = c
          /\ i + 1 \in 1..Len(mailbox) /\ j + 1 \in 1..Len(mailbox)
      BY <1>2, <1>6
    <2>2. i + 1 = j + 1
      BY <2>1 DEF OneEach, AtMostOne
    <2> QED BY <1>2, <2>2
  <1>7. HasTurn(d)'
    BY <1>1 DEF HasTurn
  <1>8. \A c \in Clients : (HasAnswer(c)' <=> HasAnswer(c)) /\ (HasLost(c)' <=> HasLost(c))
    BY DEF HasAnswer, HasLost
  <1>9. ASSUME NEW c \in Clients PROVE AtMostOne(c)'
    <2>1. \A i, j \in 1..Len(mailbox') :
             mailbox'[i].from = c /\ mailbox'[j].from = c => i = j
      BY <1>6
    <2>2. CASE c = d
      BY <1>2, <1>3, <1>4, <1>8, <2>1, <2>2 DEF AtMostOne
    <2>3. CASE c # d
      BY <1>5, <1>8, <2>1, <2>3 DEF AtMostOne, OneEach
    <2> QED BY <2>2, <2>3
  <1>10. up'
    BY <1>1
  <1> QED BY <1>3, <1>4, <1>5, <1>7, <1>8, <1>9, <1>10 DEF OneEach

LEMMA OneStep == TypeOK /\ OneEach /\ [Next]_vars => OneEach'
  <1> SUFFICES ASSUME TypeOK, OneEach, [Next]_vars PROVE OneEach'
    OBVIOUS
  <1> USE DEF clientVars
  <1>1. ASSUME NEW c \in Clients, NEW r \in Requests, Ask(c, r) PROVE OneEach'
    <2>1. /\ client[c] = "menu" /\ client' = [client EXCEPT ![c] = "waiting"]
          /\ UNCHANGED <<up, turn, inbox>>
      BY <1>1 DEF Ask
    <2>2. AtMostOne(c) /\ ~HasRequest(c) /\ ~HasTurn(c) /\ ~HasAnswer(c) /\ ~HasLost(c)
      BY <2>1 DEF OneEach
    <2>3. client'[c] = "waiting" /\ \A d \in Clients : d # c => client'[d] = client[d]
      BY <2>1 DEF TypeOK
    <2>4. CASE lost' = lost \cup {c} /\ UNCHANGED mailbox
      BY <2>1, <2>2, <2>3, <2>4
         DEF OneEach, AtMostOne, HasRequest, HasTurn, HasAnswer, HasLost
    <2>5. CASE up /\ mailbox' = Append(mailbox, [from |-> c, data |-> r]) /\ UNCHANGED lost
      <3>1. /\ Len(mailbox) \in Nat /\ Len(mailbox') = Len(mailbox) + 1
            /\ \A i \in 1..Len(mailbox) : mailbox'[i] = mailbox[i]
            /\ mailbox'[Len(mailbox')].from = c
        BY <2>5 DEF TypeOK
      <3>2. \A d \in Clients : d # c => (HasRequest(d)' <=> HasRequest(d))
        BY <3>1 DEF HasRequest
      <3>3. \A d \in Clients :
               /\ HasTurn(d)' <=> HasTurn(d)
               /\ HasAnswer(d)' <=> HasAnswer(d)
               /\ HasLost(d)' <=> HasLost(d)
        BY <2>1, <2>5 DEF HasTurn, HasAnswer, HasLost
      <3>4. HasRequest(c)'
        BY <3>1 DEF HasRequest
      <3>5. \A d \in Clients : \A i, j \in 1..Len(mailbox') :
               mailbox'[i].from = d /\ mailbox'[j].from = d => i = j
        <4> SUFFICES ASSUME NEW d \in Clients,
                            NEW i \in 1..Len(mailbox'), NEW j \in 1..Len(mailbox'),
                            mailbox'[i].from = d, mailbox'[j].from = d
                     PROVE  i = j
          OBVIOUS
        <4>1. CASE i \in 1..Len(mailbox) /\ j \in 1..Len(mailbox)
          BY <3>1, <4>1 DEF OneEach, AtMostOne
        <4>2. CASE d = c
          BY <2>2, <3>1, <4>2 DEF HasRequest
        <4>3. CASE d # c
          BY <3>1, <4>1, <4>3
        <4> QED BY <4>2, <4>3
      <3>6. \A d \in Clients : AtMostOne(d)'
        BY <2>2, <3>2, <3>3, <3>5 DEF AtMostOne, OneEach
      <3> QED BY <2>1, <2>2, <2>3, <2>5, <3>2, <3>3, <3>4, <3>6 DEF OneEach
    <2> QED BY <1>1, <2>4, <2>5 DEF Ask
  <1>2. ASSUME NEW c \in Clients, Show(c) \/ Exit(c) \/ Lose(c) PROVE OneEach'
    <2>1. UNCHANGED <<up, mailbox, turn>>
      BY <1>2 DEF Show, Exit, Lose
    <2>2. inbox'[c] = Nothing /\ \A d \in Clients : d # c =>
            /\ client'[d] = client[d] /\ inbox'[d] = inbox[d]
            /\ d \in lost' <=> d \in lost
      BY <1>2 DEF Show, Exit, Lose, TypeOK
    <2>3. \/ /\ client[c] = "waiting" /\ HasAnswer(c) /\ client'[c] = "menu" /\ lost' = lost
          \/ client'[c] = "exited" /\ lost' = lost
          \/ client[c] = "waiting" /\ client'[c] = "waiting" /\ HasAnswer(c) /\ c \in lost'
      BY <1>2 DEF Show, Exit, Lose, TypeOK, HasAnswer
    <2> QED BY <2>1, <2>2, <2>3
            DEF OneEach, AtMostOne, HasRequest, HasTurn, HasAnswer, HasLost
  <1>3. CASE DisplayCatalog \/ Search \/ OrderRefused \/ OrderUnwritten \/ OrderPlaced \/ Pay
    <2>1. Pending /\ UNCHANGED <<up, client, inbox, lost>> /\ turn' \in Turn
      BY <1>3, PlainResponse, OrderResponse
    <2>2. \E what, number : Respond(what, number)
      BY <1>3 DEF DisplayCatalog, Search, OrderRefused, OrderUnwritten, OrderPlaced, Pay
    <2>3. turn' # Nothing
      BY <2>1, DatagramAssumption
    <2> QED BY <2>1, <2>2, <2>3, RespondOne
  <1>4. CASE Crash
    <2>1. /\ turn = Nothing /\ turn' = Nothing /\ mailbox' = <<>>
          /\ UNCHANGED <<client, inbox>> /\ lost' = lost \cup Asking
      BY <1>4 DEF Crash, Die, Pending
    <2>2. Len(mailbox') = 0
      BY <2>1
    <2>3. \A c \in Clients : c \in Asking <=> HasRequest(c)
      BY DEF Asking, HasRequest
    <2> QED BY <2>1, <2>2, <2>3
            DEF OneEach, AtMostOne, HasRequest, HasTurn, HasAnswer, HasLost
  <1>5. CASE Send
    <2>1. /\ turn # Nothing /\ turn' = Nothing /\ UNCHANGED <<up, mailbox, client, lost>>
          /\ turn.to \in Clients /\ turn.answer # Nothing
      BY <1>5, DatagramAssumption DEF Send, TypeOK, Turn
    <2>2. \A c \in Clients : c # turn.to => inbox'[c] = inbox[c]
      BY <1>5 DEF Send, TypeOK
    <2>3. IF client[turn.to] = "waiting" THEN inbox'[turn.to] # Nothing
                                         ELSE UNCHANGED inbox
      BY <1>5, <2>1 DEF Send, TypeOK
    <2> QED BY <2>1, <2>2, <2>3
            DEF OneEach, AtMostOne, HasRequest, HasTurn, HasAnswer, HasLost
  <1>6. CASE Restart
    BY <1>6 DEF Restart, OneEach, AtMostOne, HasRequest, HasTurn, HasAnswer, HasLost
  <1>7. CASE UNCHANGED vars
    BY <1>7 DEF vars, OneEach, AtMostOne, HasRequest, HasTurn, HasAnswer, HasLost
  <1> QED BY <1>1, <1>2, <1>3, <1>4, <1>5, <1>6, <1>7 DEF Next, Serve
-----------------------------------------------------------------------------
(* What a client was told, and the types.                                  *)

\* The number in an answer, if there is one, is that of a line of the log which
\* is the line asked for, or the one for a file that cannot be opened.
Keeps(number, line) ==
  \/ number = NoOrdersFile
  \/ number \in 1..Len(log) /\ log[number] = line
Fits(answer, line) ==
  answer.what = "order" => line \in OrderLine /\ Keeps(answer.number, line)

\* So it is wherever the number is, from the datagram with the order on.
Kept ==
  /\ \A i \in 1..Len(mailbox) :
        client[mailbox[i].from] = "waiting" /\ mailbox[i].data.op = "order"
          => ordered[mailbox[i].from] = LineOf(mailbox[i].data)
  /\ turn # Nothing /\ client[turn.to] = "waiting"
          => Fits(turn.answer, ordered[turn.to])
  /\ \A c \in Clients : inbox[c] # Nothing => Fits(inbox[c], ordered[c])
  /\ \A promise \in told : Keeps(promise.number, promise.line)

LEMMA KeepsOn ==
  ASSUME TypeOK, NEW line \in OrderLine, log' = log \/ log' = Append(log, line)
  PROVE  /\ \A number, l : Keeps(number, l) => Keeps(number, l)'
         /\ \A answer, l : Fits(answer, l) => Fits(answer, l)'
  <1>1. ASSUME NEW number, NEW l, Keeps(number, l) PROVE Keeps(number, l)'
    BY <1>1 DEF Keeps, TypeOK
  <1> QED BY <1>1 DEF Fits

\* A step of a client.
LEMMA ClientStep ==
  ASSUME TypeOK, OneEach, Kept, NEW c \in Clients,
         (\E r \in Requests : Ask(c, r)) \/ Show(c) \/ Exit(c) \/ Lose(c)
  PROVE  TypeOK' /\ Kept'
  <1>0. /\ log' = log /\ turn' = turn
        /\ \A d \in Clients : d # c => client'[d] = client[d] /\ ordered'[d] = ordered[d]
    BY DEF TypeOK, Ask, Show, Exit, Lose
  <1>1. ASSUME NEW r \in Requests, Ask(c, r) PROVE TypeOK' /\ Kept'
    <2>1. /\ ~HasRequest(c) /\ ~HasTurn(c)
          /\ client[c] = "menu" /\ UNCHANGED <<inbox, told>>
          /\ ordered'[c] = IF r.op = "order" THEN LineOf(r) ELSE Nothing
          /\ mailbox' \in {mailbox, Append(mailbox, [from |-> c, data |-> r])}
      BY <1>1 DEF Ask, OneEach, TypeOK
    <2>2. [from |-> c, data |-> r] \in Datagram /\ mailbox \in Seq(Datagram)
      BY DEF Datagram, TypeOK
    <2>3. mailbox' \in Seq(Datagram)
      BY <2>1, <2>2
    <2>4. TypeOK'
      BY <1>1, <2>1, <2>3, OrderFields DEF Ask, TypeOK
    <2>5. ASSUME NEW i \in 1..Len(mailbox'), client'[mailbox'[i].from] = "waiting",
                 mailbox'[i].data.op = "order"
          PROVE  ordered'[mailbox'[i].from] = LineOf(mailbox'[i].data)
      <3>1. CASE i \in 1..Len(mailbox) /\ mailbox'[i] = mailbox[i]
        <4>1. mailbox[i].from # c
          BY <2>1, <3>1 DEF HasRequest
        <4>2. mailbox[i] \in Datagram
          BY <2>2, <3>1
        <4>3. mailbox[i].from \in Clients
          BY <4>2 DEF Datagram
        <4> QED BY <1>0, <2>5, <3>1, <4>1, <4>3 DEF Kept
      <3>2. CASE mailbox'[i] = [from |-> c, data |-> r]
        BY <2>1, <2>5, <3>2
      <3> QED BY <2>1, <2>2, <3>1, <3>2
    <2>6. turn' # Nothing /\ client'[turn'.to] = "waiting"
             => Fits(turn.answer, ordered[turn.to])'
      BY <1>0, <2>1 DEF Kept, Fits, Keeps, HasTurn, TypeOK, Turn
    <2>7. ASSUME NEW d \in Clients, inbox'[d] # Nothing
          PROVE  Fits(inbox[d], ordered[d])'
      <3>1. d # c
        BY <2>1, <2>7 DEF OneEach, HasAnswer
      <3> QED BY <1>0, <2>1, <2>7, <3>1 DEF Kept, Fits, Keeps
    <2>8. \A promise \in told' : Keeps(promise.number, promise.line)'
      BY <1>0, <2>1 DEF Kept, Keeps
    <2> QED BY <2>4, <2>5, <2>6, <2>7, <2>8 DEF Kept
  <1>2. ASSUME Show(c) \/ Exit(c) \/ Lose(c) PROVE TypeOK' /\ Kept'
    <2>1. /\ mailbox' = mailbox /\ inbox' = [inbox EXCEPT ![c] = Nothing]
          /\ client'[c] # "waiting" \/ UNCHANGED <<client, ordered>>
      BY <1>2 DEF Show, Exit, Lose, TypeOK
    <2>2. ASSUME NEW promise \in told', promise \notin told
          PROVE  promise \in Promise /\ Keeps(promise.number, promise.line)
      <3>1. /\ inbox[c] # Nothing /\ inbox[c].what = "order"
            /\ promise = [number |-> inbox[c].number, line |-> ordered[c]]
        BY <1>2, <2>2 DEF Show, Exit, Lose
      <3>2. ordered[c] \in OrderLine /\ Keeps(inbox[c].number, ordered[c])
        BY <3>1 DEF Kept, Fits
      <3>3. inbox[c].number \in Nat \cup {NoOrdersFile}
        BY <3>1 DEF TypeOK, Answer, Answers
      <3> QED BY <3>1, <3>2, <3>3 DEF Promise
    <2>3. TypeOK'
      <3>1. told' \in SUBSET Promise
        BY <2>2 DEF TypeOK
      <3> QED BY <1>2, <3>1 DEF Show, Exit, Lose, TypeOK
    <2>4. \A i \in 1..Len(mailbox) : mailbox[i].from \in Clients
      <3>1. \A i \in 1..Len(mailbox) : mailbox[i] \in Datagram
        BY DEF TypeOK
      <3> QED BY <3>1 DEF Datagram
    <2>5. \A i \in 1..Len(mailbox') :
             client'[mailbox'[i].from] = "waiting" /\ mailbox'[i].data.op = "order"
               => ordered'[mailbox'[i].from] = LineOf(mailbox'[i].data)
      BY <1>0, <2>1, <2>4 DEF Kept
    <2>6. turn' # Nothing /\ client'[turn'.to] = "waiting"
             => Fits(turn.answer, ordered[turn.to])'
      BY <1>0, <2>1 DEF Kept, Fits, Keeps, TypeOK, Turn
    <2>7. \A d \in Clients : inbox'[d] # Nothing => Fits(inbox[d], ordered[d])'
      BY <1>0, <2>1 DEF Kept, Fits, Keeps, TypeOK
    <2>8. \A promise \in told' : Keeps(promise.number, promise.line)'
      BY <1>0, <2>2 DEF Kept, Keeps
    <2> QED BY <2>3, <2>5, <2>6, <2>7, <2>8 DEF Kept
  <1> QED BY <1>1, <1>2

\* Taking the first datagram leaves the others as they are.
LEMMA TakenKept ==
  ASSUME TypeOK, OneEach, Kept, Pending, mailbox' = Tail(mailbox),
         UNCHANGED <<client, ordered>>
  PROVE  \A i \in 1..Len(mailbox') :
           client'[mailbox'[i].from] = "waiting" /\ mailbox'[i].data.op = "order"
             => ordered'[mailbox'[i].from] = LineOf(mailbox'[i].data)
  BY TailRequests DEF Pending, Kept

LEMMA AnswerStep ==
  ASSUME TypeOK, OneEach, Kept, DisplayCatalog \/ Search \/ OrderRefused \/ Pay
  PROVE  TypeOK' /\ Kept'
  <1>1. leaked' \in {leaked, leaked + 1} /\ ordered' = ordered
    BY DEF DisplayCatalog, Search, OrderRefused, Pay, clientVars
  <1>2. /\ Pending /\ mailbox' = Tail(mailbox)
        /\ turn' \in Turn /\ turn'.answer.what # "order" /\ mailbox' \in Seq(Datagram)
        /\ UNCHANGED <<up, log, restarts, client, inbox, shown, told, lost>>
    BY PlainResponse
  <1>3. TypeOK'
    BY <1>1, <1>2 DEF TypeOK
  <1> QED BY <1>1, <1>2, <1>3, TakenKept DEF Kept, Fits, Keeps

LEMMA OrderStep ==
  ASSUME TypeOK, OneEach, Kept, OrderUnwritten \/ OrderPlaced
  PROVE  TypeOK' /\ Kept'
  <1>1. /\ Pending /\ mailbox' = Tail(mailbox) /\ turn' \in Turn
        /\ Head(mailbox).data \in Requests /\ Head(mailbox).data.op = "order"
        /\ turn'.to = Head(mailbox).from
        /\ UNCHANGED <<client, inbox, told>>
    BY OrderResponse
  <1>2. ordered' = ordered
    BY DEF OrderUnwritten, OrderPlaced, clientVars
  <1>3. TypeOK'
    BY <1>2, OrderResponse DEF TypeOK
  <1>0. PICK line : line = LineOf(Head(mailbox).data)
    OBVIOUS
  <1>4. line \in OrderLine /\ (log' = log \/ log' = Append(log, line))
    BY <1>0, <1>1, OrderFields DEF OrderUnwritten, OrderPlaced
  <1>5. Keeps(turn.answer.number, line)'
    <2>1. CASE OrderPlaced
      <3>1. /\ log' = Append(log, line) /\ turn'.answer.number = Len(log')
            /\ log \in Seq(OrderLine)
        BY <1>0, <2>1, OrderResponse DEF OrderPlaced, TypeOK
      <3>2. Len(log') \in 1..Len(log') /\ log'[Len(log')] = line
        BY <1>4, <3>1
      <3> QED BY <3>1, <3>2 DEF Keeps
    <2>2. CASE ~OrderPlaced
      BY <2>2, OrderResponse DEF Keeps
    <2> QED BY <2>1, <2>2
  <1>6. client[turn'.to] = "waiting" => ordered[turn'.to] = line
    BY <1>0, <1>1, TailRequests DEF Pending, Kept
  <1>7. client'[turn'.to] = "waiting" => Fits(turn.answer, ordered[turn.to])'
    BY <1>1, <1>2, <1>4, <1>5, <1>6 DEF Fits, Keeps
  <1>8. \A d \in Clients : inbox'[d] # Nothing => Fits(inbox[d], ordered[d])'
    BY <1>1, <1>2, <1>4, KeepsOn DEF Kept
  <1>9. \A promise \in told' : Keeps(promise.number, promise.line)'
    BY <1>1, <1>4, KeepsOn DEF Kept
  <1> QED BY <1>1, <1>2, <1>3, <1>7, <1>8, <1>9, TakenKept DEF Kept

LEMMA StateStep == TypeOK /\ OneEach /\ Kept /\ [Next]_vars => TypeOK' /\ Kept'
  <1> SUFFICES ASSUME TypeOK, OneEach, Kept, [Next]_vars PROVE TypeOK' /\ Kept'
    OBVIOUS
  <1>1. CASE Crash
    <2>1. lost' \in SUBSET Clients
      <3>1. ASSUME NEW i \in 1..Len(mailbox) PROVE mailbox[i].from \in Clients
        <4>1. mailbox[i] \in Datagram
          BY DEF TypeOK
        <4> QED BY <4>1 DEF Datagram
      <3> QED BY <1>1, <3>1 DEF Crash, Die, Asking, TypeOK
    <2>2. /\ mailbox' = <<>> /\ <<>> \in Seq(Datagram) /\ Len(<<>>) = 0
          /\ turn' = Nothing /\ UNCHANGED <<log, ordered, inbox, told>>
      BY <1>1 DEF Crash, Die, clientVars
    <2>3. TypeOK'
      BY <1>1, <2>1, <2>2 DEF Crash, Die, TypeOK, clientVars
    <2> QED BY <2>2, <2>3 DEF Kept, Fits, Keeps
  <1>2. CASE Send
    <2>1. /\ turn # Nothing /\ turn' = Nothing /\ turn \in Turn
          /\ UNCHANGED <<up, log, leaked, restarts, mailbox, client, ordered, shown, lost, told>>
      BY <1>2 DEF Send, TypeOK
    <2>2. turn.to \in Clients /\ turn.answer \in Answer
      BY <2>1 DEF Turn
    <2>3. /\ inbox' \in [Clients -> Answer \cup {Nothing}]
          /\ \A c \in Clients : inbox'[c] # inbox[c] =>
                c = turn.to /\ client[c] = "waiting" /\ inbox'[c] = turn.answer
      BY <1>2, <2>2 DEF Send, TypeOK
    <2>4. TypeOK'
      BY <2>1, <2>3 DEF TypeOK
    <2>5. ASSUME NEW c \in Clients, inbox'[c] # Nothing PROVE Fits(inbox[c], ordered[c])'
      <3>1. CASE inbox'[c] = inbox[c]
        BY <2>1, <2>5, <3>1 DEF Kept, Fits, Keeps
      <3>2. CASE inbox'[c] # inbox[c]
        BY <2>1, <2>3, <3>2 DEF Kept, Fits, Keeps
      <3> QED BY <3>1, <3>2
    <2> QED BY <2>1, <2>4, <2>5 DEF Kept, Fits, Keeps
  <1>3. CASE Restart \/ UNCHANGED vars
    <2>1. UNCHANGED <<log, mailbox, turn, client, ordered, inbox, shown, lost, told>>
      BY <1>3 DEF Restart, vars, clientVars
    <2>2. up' \in BOOLEAN /\ leaked' = leaked /\ restarts' \in 0..MaxRestarts
      <3>1. CASE Restart
        BY <3>1, DatagramAssumption DEF Restart, TypeOK
      <3>2. CASE UNCHANGED vars
        BY <3>2 DEF vars, TypeOK
      <3> QED BY <1>3, <3>1, <3>2
    <2>3. TypeOK'
      BY <2>1, <2>2 DEF TypeOK
    <2> QED BY <2>1, <2>3 DEF Kept, Fits, Keeps
  <1> QED BY <1>1, <1>2, <1>3, ClientStep, AnswerStep, OrderStep DEF Next, Serve

LEMMA States == Spec => [](TypeOK /\ OneEach /\ Kept)
  <1>1. Init => TypeOK /\ OneEach /\ Kept
    <2> SUFFICES ASSUME Init PROVE TypeOK /\ OneEach /\ Kept
      OBVIOUS
    <2>1. TypeOK
      BY DatagramAssumption DEF Init, TypeOK, Datagram
    <2>2. OneEach
      BY DEF Init, OneEach, AtMostOne, HasRequest, HasTurn, HasAnswer, HasLost
    <2>3. Kept
      BY DEF Init, Kept
    <2> QED BY <2>1, <2>2, <2>3
  <1>2. TypeOK /\ OneEach /\ Kept /\ [Next]_vars => TypeOK' /\ OneEach' /\ Kept'
    BY OneStep, StateStep
  <1> QED BY <1>1, <1>2, PTL DEF Spec

\* Type correctness, for any number of clients and restarts: no client is told a
\* negative order number but -2.
THEOREM DatagramTyping == Spec => []TypeOK
  BY States, PTL

\* For any number of clients, whatever is lost: a client that waits has exactly
\* one request or answer on its way, and none that could come late.
THEOREM OneForEachClient == Spec => []OneOnItsWay
  BY OneTrack, States, PTL

-----------------------------------------------------------------------------
(* What a told number means.                                               *)

\* PayForBook answers for the line that it bills.
LEMMA PaySays ==
  ASSUME TypeOK, Pay, Billed(log, Head(mailbox).data.orderno) # 0
  PROVE  turn'.answer.what \in Bill(log[Billed(log, Head(mailbox).data.orderno)])
  <1> DEFINE line == log[Billed(log, Head(mailbox).data.orderno)]
             hits == {i \in 1..Len(Books) : line.title \in Books[i].holds}
  <1>1. PICK total \in PayForBook(log, Head(mailbox).data.orderno) :
           Respond(IF total < 0 THEN "failed" ELSE "success", 0)
    BY DEF Pay
  <1>2. PayForBook(log, Head(mailbox).data.orderno)
          = {Total(Books[i].price, line.n) : i \in hits}
    BY DEF Pay, PayForBook
  <1>3. PICK i \in hits : total = Total(Books[i].price, line.n)
    BY <1>1, <1>2
  <1>4. turn'.answer.what = IF Total(Books[i].price, line.n) < 0 THEN "failed" ELSE "success"
    BY <1>1, <1>3 DEF Respond
  <1> QED BY <1>4 DEF Bill

\* The line that is billed for a number that was told.
LEMMA ToldIsBilled ==
  ASSUME TypeOK, Kept, log # <<>>, NEW promise \in told
  PROVE  /\ Billed(log, promise.number) # 0
         /\ log[Billed(log, promise.number)] = StandsFor(promise)
  <1>1. Len(log) \in Nat \ {0} /\ Keeps(promise.number, promise.line)
    BY DEF TypeOK, Kept
  <1>2. CASE promise.number = NoOrdersFile
    BY <1>1, <1>2 DEF Billed, NoOrdersFile, StandsFor
  <1>3. CASE promise.number \in 1..(Len(log) - 1)
    BY <1>1, <1>3 DEF Billed, StandsFor
  <1>4. CASE promise.number = Len(log)
    BY <1>1, <1>4 DEF Billed, Keeps, NoOrdersFile, StandsFor
  <1> QED BY <1>1, <1>2, <1>3, <1>4 DEF Keeps

\* Whatever else happens to the server, its clients and their orders, a payment
\* with a number that was ever told is answered for the line that the number
\* has come to stand for: the client's own while it is the last, then the next.
THEOREM ToldNumbersLast == Spec => ToldNumbersKeepTheirMeaning
  <1>1. ASSUME TypeOK, Kept, NEW promise \in told, Pay,
               Head(mailbox).data.orderno = promise.number
        PROVE  turn'.answer.what \in Bill(StandsFor(promise))
    <2>1. log # <<>>
      BY <1>1 DEF Pay
    <2> QED BY <1>1, <2>1, PaySays, ToldIsBilled
  <1>2. TypeOK /\ Kept /\ [Next]_vars =>
          [\A promise \in told :
             Pay /\ Head(mailbox).data.orderno = promise.number
               => turn'.answer.what \in Bill(StandsFor(promise))]_vars
    BY <1>1
  <1> QED BY <1>2, States, PTL DEF Spec, ToldNumbersKeepTheirMeaning

-----------------------------------------------------------------------------
(* The order desk.                                                         *)

\* At the desk, nothing happens to a client, or it is sent off.
Calm(c) ==
  /\ \/ Wanted'[c] = Wanted[c] /\ Due'[c] = Due[c]
     \/ Wanted'[c] = Nothing /\ Due'[c] = 0
  /\ Told'[c] \in {0, Told[c]}

LEMMA CalmStep ==
  ASSUME UNCHANGED log, \A c \in Clients : Calm(c)
  PROVE  Desk!Next
  <1> DEFINE dropped == {c \in Clients : Wanted'[c] = Nothing /\ Due'[c] = 0}
             elsewhere == {c \in Clients : Told'[c] = 0}
  <1>1. Wanted' = [c \in Clients |-> IF c \in dropped THEN Nothing ELSE Wanted[c]]
    BY DEF Wanted, Calm
  <1>2. Due' = [c \in Clients |-> IF c \in dropped THEN 0 ELSE Due[c]]
    BY DEF Due, Calm
  <1>3. Told' = [c \in Clients |-> IF c \in elsewhere THEN 0 ELSE Told[c]]
    BY DEF Told, Calm
  <1>4. Desk!Drop(dropped, elsewhere)
    BY <1>1, <1>2, <1>3 DEF Desk!Drop
  <1>5. dropped \in SUBSET Clients /\ elsewhere \in SUBSET Clients
    OBVIOUS
  <1> QED BY <1>4, <1>5 DEF Desk!Next

\* What the desk sees of a client.
LEMMA SameWanted ==
  ASSUME NEW c \in Clients, Requested(c)' = Requested(c)
  PROVE  Wanted'[c] = Wanted[c]
  BY DEF Wanted

LEMMA NothingWanted ==
  ASSUME NEW c \in Clients, ~HasRequest(c)
  PROVE  Wanted[c] = Nothing
  BY DEF HasRequest, Requested, Wanted

LEMMA NothingWantedNext ==
  ASSUME NEW c \in Clients, ~HasRequest(c)'
  PROVE  Wanted'[c] = Nothing
  BY DEF HasRequest, Requested, Wanted

\* A client at its menu has nothing on its way, so it may want a line.
LEMMA AskDesk ==
  ASSUME TypeOK, OneEach, NEW c \in Clients, NEW r \in Requests, Ask(c, r)
  PROVE  Desk!Next
  <1>1. /\ client[c] = "menu" /\ UNCHANGED <<log, turn, inbox>>
        /\ shown' = [shown EXCEPT ![c] = Nothing]
    BY DEF Ask
  <1>2. ~HasRequest(c) /\ ~HasTurn(c) /\ ~HasAnswer(c)
    BY <1>1 DEF OneEach
  <1>3. Wanted[c] = Nothing
    BY <1>2, NothingWanted
  <1>4. Due[c] = 0 /\ Due' = Due
    BY <1>1, <1>2 DEF Due, HasTurn, HasAnswer, NumberIn
  <1>5. Told'[c] = 0 /\ \A d \in Clients \ {c} : Told'[d] = Told[d]
    BY <1>1 DEF Told, NumberIn, TypeOK
  <1>6. CASE UNCHANGED mailbox
    <2>1. ASSUME NEW d \in Clients PROVE Calm(d)
      <3>1. Wanted'[d] = Wanted[d]
        BY <1>6, SameWanted DEF Requested
      <3> QED BY <1>4, <1>5, <3>1 DEF Calm
    <2> QED BY <1>1, <2>1, CalmStep
  <1>7. CASE mailbox' = Append(mailbox, [from |-> c, data |-> r])
    <2>1. /\ Len(mailbox) \in Nat /\ Len(mailbox') = Len(mailbox) + 1
          /\ \A i \in 1..Len(mailbox) : mailbox'[i] = mailbox[i]
          /\ mailbox'[Len(mailbox')] = [from |-> c, data |-> r]
      BY <1>7 DEF TypeOK
    <2>2. ASSUME NEW d \in Clients, d # c PROVE Wanted'[d] = Wanted[d]
      <3>1. {i \in 1..Len(mailbox') : mailbox'[i].from = d}
              = {i \in 1..Len(mailbox) : mailbox[i].from = d}
        BY <2>1, <2>2
      <3>2. Requested(d)' = Requested(d)
        BY <2>1, <3>1 DEF Requested
      <3> QED BY <3>2, SameWanted
    <2>3. Requested(c)' = {r}
      <3>1. {i \in 1..Len(mailbox') : mailbox'[i].from = c} = {Len(mailbox')}
        BY <1>2, <2>1 DEF HasRequest
      <3> QED BY <2>1, <3>1 DEF Requested
    <2>4. CASE r.op = "order"
      <3>1. Wanted'[c] = LineOf(r)
        BY <2>3, <2>4 DEF Wanted
      <3>2. Wanted' = [Wanted EXCEPT ![c] = LineOf(r)]
        BY <2>2, <3>1 DEF Wanted
      <3>3. Told' = [Told EXCEPT ![c] = 0]
        BY <1>5 DEF Told
      <3>4. Desk!Want(c, LineOf(r))
        BY <1>1, <1>3, <1>4, <3>2, <3>3 DEF Desk!Want
      <3>5. LineOf(r) \in {LineOf(q) : q \in {p \in Requests : p.op = "order"}}
        BY <2>4
      <3> QED BY <3>4, <3>5 DEF Desk!Next
    <2>5. CASE r.op # "order"
      <3>1. Wanted'[c] = Nothing
        BY <2>3, <2>5 DEF Wanted
      <3>2. ASSUME NEW d \in Clients PROVE Calm(d)
        BY <1>3, <1>4, <1>5, <2>2, <3>1 DEF Calm
      <3> QED BY <1>1, <3>2, CalmStep
    <2> QED BY <2>4, <2>5
  <1> QED BY <1>6, <1>7 DEF Ask

\* What a client reads is what was due.
LEMMA ShowDesk ==
  ASSUME TypeOK, OneEach, NEW c \in Clients, Show(c)
  PROVE  Desk!Next
  <1>1. /\ inbox[c] # Nothing /\ inbox[c] \in Answer
        /\ UNCHANGED <<log, mailbox, turn>>
        /\ shown' = [shown EXCEPT ![c] = inbox[c]] /\ inbox' = [inbox EXCEPT ![c] = Nothing]
    BY DEF Show, TypeOK
  <1>2. Wanted' = Wanted
    BY <1>1 DEF Wanted, Requested
  <1>3. ~HasTurn(c)
    BY <1>1 DEF OneEach, AtMostOne, HasAnswer
  <1>4. Due[c] = NumberIn(inbox[c]) /\ Due'[c] = 0 /\ Told'[c] = NumberIn(inbox[c])
    BY <1>1, <1>3 DEF Due, Told, HasTurn, NumberIn, TypeOK
  <1>5. \A d \in Clients \ {c} : Due'[d] = Due[d] /\ Told'[d] = Told[d]
    BY <1>1 DEF Due, Told, TypeOK
  <1>6. CASE NumberIn(inbox[c]) = 0
    <2>1. ASSUME NEW d \in Clients PROVE Calm(d)
      BY <1>2, <1>4, <1>5, <1>6 DEF Calm
    <2> QED BY <1>1, <2>1, CalmStep
  <1>7. CASE NumberIn(inbox[c]) # 0
    <2>1. NumberIn(inbox[c]) \in Int
      BY <1>1 DEF NumberIn, Answer, NoOrdersFile
    <2>2. Due' = [Due EXCEPT ![c] = 0]
      <3>1. Due = [d \in Clients |-> Due[d]] /\ Due' = [d \in Clients |-> Due'[d]]
        BY DEF Due
      <3> QED BY <1>4, <1>5, <3>1
    <2>3. Told' = [Told EXCEPT ![c] = Due[c]]
      BY <1>4, <1>5 DEF Told
    <2>4. Desk!Tell(c)
      BY <1>1, <1>2, <1>4, <1>7, <2>1, <2>2, <2>3 DEF Desk!Tell
    <2> QED BY <2>4 DEF Desk!Next
  <1> QED BY <1>6, <1>7

LEMMA LeaveDesk ==
  ASSUME TypeOK, OneEach, NEW c \in Clients, Exit(c) \/ Lose(c)
  PROVE  Desk!Next
  <1>1. /\ UNCHANGED <<log, mailbox, turn>> /\ inbox' = [inbox EXCEPT ![c] = Nothing]
        /\ shown' \in {shown, [shown EXCEPT ![c] = Nothing]}
    BY DEF Exit, Lose
  <1>2. Wanted' = Wanted
    BY <1>1 DEF Wanted, Requested
  <1>3. \A d \in Clients : Told'[d] \in {0, Told[d]}
    BY <1>1 DEF Told, NumberIn, TypeOK
  <1>4. \A d \in Clients \ {c} : Due'[d] = Due[d]
    BY <1>1 DEF Due, TypeOK
  <1>5. Due'[c] = Due[c] \/ (Wanted'[c] = Nothing /\ Due'[c] = 0)
    <2>1. CASE HasTurn(c)
      BY <1>1, <2>1 DEF HasTurn, Due
    <2>2. CASE ~HasTurn(c) /\ HasAnswer(c)
      <3>1. ~HasRequest(c)
        BY <2>2 DEF OneEach, AtMostOne
      <3>2. Wanted'[c] = Nothing
        BY <1>2, <3>1, NothingWanted
      <3> QED BY <1>1, <2>2, <3>2 DEF HasTurn, Due, NumberIn, TypeOK
    <2>3. CASE ~HasTurn(c) /\ ~HasAnswer(c)
      BY <1>1, <2>3 DEF HasTurn, HasAnswer, Due, NumberIn, TypeOK
    <2> QED BY <2>1, <2>2, <2>3
  <1>6. ASSUME NEW d \in Clients PROVE Calm(d)
    BY <1>2, <1>3, <1>4, <1>5 DEF Calm
  <1> QED BY <1>1, <1>6, CalmStep

\* The request of the first datagram is the one that its client wants, and when
\* it is taken the others still want theirs.
LEMMA Taken ==
  ASSUME TypeOK, OneEach, mailbox # <<>>, mailbox' = Tail(mailbox),
         NEW c \in Clients, c = Head(mailbox).from
  PROVE  /\ Requested(c) = {Head(mailbox).data}
         /\ Wanted'[c] = Nothing
         /\ \A d \in Clients \ {c} : Wanted'[d] = Wanted[d]
  <1>1. /\ \A i \in 1..Len(mailbox') : mailbox'[i] = mailbox[i + 1] /\ i + 1 \in 1..Len(mailbox)
        /\ mailbox[1] = Head(mailbox) /\ 1 \in 1..Len(mailbox)
        /\ \A i \in 1..Len(mailbox') : mailbox'[i].from # c
        /\ \A i \in 2..Len(mailbox) : mailbox[i] = mailbox'[i - 1] /\ i - 1 \in 1..Len(mailbox')
        /\ Len(mailbox) \in Nat
    BY TailRequests
  <1>2. {i \in 1..Len(mailbox) : mailbox[i].from = c} = {1}
    BY <1>1 DEF OneEach, AtMostOne
  <1>3. Requested(c) = {Head(mailbox).data}
    BY <1>1, <1>2 DEF Requested
  <1>4. Wanted'[c] = Nothing
    BY <1>1, NothingWantedNext DEF HasRequest
  <1>5. ASSUME NEW d \in Clients, d # c PROVE Wanted'[d] = Wanted[d]
    <2>1. \A x \in Requested(d) : x \in Requested(d)'
      <3> SUFFICES ASSUME NEW i \in 1..Len(mailbox), mailbox[i].from = d
                   PROVE  mailbox[i].data \in Requested(d)'
        BY DEF Requested
      <3>1. i \in 2..Len(mailbox)
        BY <1>1, <1>5
      <3>2. mailbox'[i - 1].from = d /\ i - 1 \in 1..Len(mailbox')
        BY <1>1, <3>1
      <3>3. mailbox[i].data = mailbox'[i - 1].data
        BY <1>1, <3>1
      <3> QED BY <3>2, <3>3 DEF Requested
    <2>2. \A x \in Requested(d)' : x \in Requested(d)
      BY <1>1 DEF Requested
    <2>3. Requested(d)' = Requested(d)
      BY <2>1, <2>2
    <2> QED BY <2>3, SameWanted
  <1> QED BY <1>3, <1>4, <1>5

\* What a response does to what is due.
LEMMA ResponseDue ==
  ASSUME TypeOK, OneEach, Pending, NEW c \in Clients, c = Head(mailbox).from,
         mailbox' = Tail(mailbox), turn' \in Turn, turn'.to = c,
         UNCHANGED <<inbox, shown>>
  PROVE  /\ Due[c] = 0 /\ Due'[c] = NumberIn(turn'.answer)
         /\ \A d \in Clients \ {c} : Due'[d] = Due[d]
         /\ Told' = Told
  <1>1. turn = Nothing /\ turn' # Nothing
    BY DatagramAssumption DEF Pending
  <1>2. HasRequest(c)
    BY TailRequests DEF HasRequest, Pending
  <1>3. inbox[c] = Nothing
    BY <1>2 DEF OneEach, AtMostOne, HasAnswer
  <1>4. Due[c] = 0 /\ Due'[c] = NumberIn(turn'.answer)
    BY <1>1, <1>3 DEF Due, NumberIn
  <1>5. \A d \in Clients \ {c} : Due'[d] = Due[d]
    BY <1>1 DEF Due
  <1> QED BY <1>4, <1>5 DEF Told

LEMMA PlainDesk ==
  ASSUME TypeOK, OneEach,
         DisplayCatalog \/ Search \/ OrderRefused \/ Pay \/ (OrderUnwritten /\ ~OrderPlaced)
  PROVE  Desk!Next
  <1>1. /\ Pending /\ mailbox' = Tail(mailbox) /\ turn' \in Turn
        /\ turn'.to = Head(mailbox).from /\ UNCHANGED <<log, inbox, shown>>
        /\ turn'.answer.number \in {0, NoOrdersFile}
    BY PlainResponse, OrderResponse DEF OrderUnwritten
  <1>2. PICK c \in Clients : c = Head(mailbox).from
    BY <1>1, TailRequests DEF Pending
  <1>3. NumberIn(turn'.answer) = 0
    BY <1>1 DEF NumberIn, NoOrdersFile
  <1>4. ASSUME NEW d \in Clients PROVE Calm(d)
    BY <1>1, <1>2, <1>3, Taken, ResponseDue DEF Calm, Pending
  <1> QED BY <1>1, <1>4, CalmStep

\* The line that is logged is the one that was wanted, and its number is due.
LEMMA PlaceDesk ==
  ASSUME TypeOK, OneEach, OrderPlaced
  PROVE  Desk!Next
  <1>1. /\ Pending /\ mailbox' = Tail(mailbox) /\ turn' \in Turn
        /\ turn'.to = Head(mailbox).from /\ UNCHANGED <<inbox, shown>>
        /\ Head(mailbox).data \in Requests /\ Head(mailbox).data.op = "order"
        /\ turn'.answer.number = Len(log') /\ Len(log') = Len(log) + 1 /\ Len(log) \in Nat
    BY OrderResponse
  <1>2. log' = Append(log, LineOf(Head(mailbox).data))
    BY DEF OrderPlaced
  <1>3. PICK c \in Clients : c = Head(mailbox).from
    BY <1>1, TailRequests DEF Pending
  <1>4. /\ Requested(c) = {Head(mailbox).data}
        /\ Wanted'[c] = Nothing /\ \A d \in Clients \ {c} : Wanted'[d] = Wanted[d]
    BY <1>1, <1>3, Taken DEF Pending
  <1>5. Wanted[c] = LineOf(Head(mailbox).data)
    BY <1>1, <1>4 DEF Wanted
  <1>6. Wanted[c] # Nothing
    BY <1>1, <1>5, OrderFields, DatagramAssumption
  <1>7. NumberIn(turn'.answer) = Len(log')
    <2>1. turn'.answer # Nothing
      BY <1>1, DatagramAssumption DEF Turn
    <2> QED BY <1>1, <2>1 DEF NumberIn
  <1>8. /\ Due'[c] = Len(log') /\ \A d \in Clients \ {c} : Due'[d] = Due[d]
        /\ Told' = Told
    BY <1>1, <1>3, <1>7, ResponseDue
  <1>9. Wanted' = [Wanted EXCEPT ![c] = Nothing]
    BY <1>4 DEF Wanted
  <1>10. Due' = [Due EXCEPT ![c] = Len(log')]
    <2>1. /\ Due' = [d \in Clients |-> Due'[d]]
          /\ [Due EXCEPT ![c] = Len(log')]
               = [d \in Clients |-> IF d = c THEN Len(log') ELSE Due[d]]
      BY DEF Due
    <2>2. \A d \in Clients : Due'[d] = IF d = c THEN Len(log') ELSE Due[d]
      BY <1>8
    <2> HIDE DEF Due
    <2> QED BY <2>1, <2>2
  <1>11. Desk!Place(c)
    BY <1>2, <1>5, <1>6, <1>8, <1>9, <1>10 DEF Desk!Place
  <1> QED BY <1>11 DEF Desk!Next

LEMMA CrashDesk ==
  ASSUME TypeOK, OneEach, Crash
  PROVE  Desk!Next
  <1>1. /\ turn = Nothing /\ turn' = Nothing /\ mailbox' = <<>>
        /\ UNCHANGED <<log, inbox, shown>>
    BY DEF Crash, Die, Pending, clientVars
  <1>2. Due' = Due /\ Told' = Told
    BY <1>1 DEF Due, Told
  <1>3. ASSUME NEW c \in Clients PROVE Calm(c)
    <2>1. Len(mailbox') = 0
      BY <1>1
    <2>2. Wanted'[c] = Nothing
      BY <2>1, NothingWantedNext DEF HasRequest
    <2>3. HasRequest(c) => Due[c] = 0
      BY <1>1 DEF Due, OneEach, AtMostOne, HasAnswer, NumberIn
    <2>4. ~HasRequest(c) => Wanted[c] = Nothing
      BY NothingWanted
    <2> QED BY <1>2, <2>2, <2>3, <2>4 DEF Calm
  <1> QED BY <1>1, <1>3, CalmStep

\* An answer that is sent is due as before, unless its client has left.
LEMMA SendDesk ==
  ASSUME TypeOK, OneEach, Send
  PROVE  Desk!Next
  <1>1. /\ turn # Nothing /\ turn' = Nothing /\ UNCHANGED <<log, mailbox, shown>>
        /\ turn.to \in Clients
    BY DEF Send, TypeOK, Turn
  <1>2. Wanted' = Wanted /\ Told' = Told
    BY <1>1 DEF Wanted, Requested, Told
  <1>3. PICK c \in Clients : c = turn.to
    BY <1>1
  <1>4. \A d \in Clients \ {c} : inbox'[d] = inbox[d]
    BY <1>3 DEF Send, TypeOK
  <1>5. \A d \in Clients \ {c} : Due'[d] = Due[d]
    BY <1>1, <1>3, <1>4 DEF Due
  <1>6. HasTurn(c)
    BY <1>1, <1>3 DEF HasTurn
  <1>7. ~HasRequest(c) /\ inbox[c] = Nothing
    BY <1>6 DEF OneEach, AtMostOne, HasAnswer
  <1>8. Due'[c] \in {0, Due[c]}
    <2>1. inbox'[c] \in {Nothing, turn.answer}
      BY <1>3, <1>7 DEF Send, TypeOK
    <2> QED BY <1>1, <1>3, <2>1 DEF Due, NumberIn
  <1>9. Wanted[c] = Nothing
    BY <1>7, NothingWanted
  <1>10. ASSUME NEW d \in Clients PROVE Calm(d)
    BY <1>2, <1>5, <1>8, <1>9 DEF Calm
  <1> QED BY <1>1, <1>10, CalmStep

LEMMA DeskStep == TypeOK /\ OneEach /\ [Next]_vars => [Desk!Next]_(Desk!desk)
  <1> SUFFICES ASSUME TypeOK, OneEach, [Next]_vars PROVE [Desk!Next]_(Desk!desk)
    OBVIOUS
  <1>1. ASSUME Restart \/ UNCHANGED vars PROVE UNCHANGED (Desk!desk)
    <2>1. UNCHANGED <<log, mailbox, turn, inbox, shown>>
      BY <1>1 DEF Restart, vars, clientVars
    <2> QED BY <2>1 DEF Desk!desk, Wanted, Requested, Due, Told
  <1>2. CASE \E c \in Clients : \/ \E r \in Requests : Ask(c, r)
                                \/ Show(c) \/ Exit(c) \/ Lose(c)
    BY <1>2, AskDesk, ShowDesk, LeaveDesk
  <1>3. CASE Serve
    BY <1>3, PlainDesk, PlaceDesk, CrashDesk, SendDesk DEF Serve
  <1> QED BY <1>1, <1>2, <1>3 DEF Next

\* The server keeps the promise of the desk to any number of clients: an order
\* is logged at most once and as it was asked for, whatever is lost, and the
\* number that its client is told is that of its own line.
THEOREM DatagramsImplementDesk == Spec => ImplementsDesk
  <1>1. Init => Desk!Init
    <2> SUFFICES ASSUME Init PROVE Desk!Init
      OBVIOUS
    <2>1. ASSUME NEW c \in Clients PROVE Wanted[c] = Nothing /\ Due[c] = 0 /\ Told[c] = 0
      BY NothingWanted DEF Init, HasRequest, Due, Told, NumberIn
    <2> QED BY <2>1 DEF Init, Desk!Init, Wanted, Due, Told
  <1> QED BY <1>1, DeskStep, States, PTL DEF Spec, ImplementsDesk, Desk!Spec
=============================================================================

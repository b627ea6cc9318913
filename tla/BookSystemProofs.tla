-------------------------- MODULE BookSystemProofs --------------------------
(***************************************************************************)
(* Proofs about BookSystem, for any clients, requests, lines, catalogue,   *)
(* files and limits: its server is the one of BookServer, so that what is  *)
(* proved there holds here; types; and, as long as no datagram is          *)
(* delivered twice, that a client is shown the answer to its own request   *)
(* and that a single client is served one request at a time.               *)
(***************************************************************************)
EXTENDS BookSystem, BookLedgerProofs

-----------------------------------------------------------------------------
(* The server in the system.                                               *)

LEMMA TokensType ==
  ASSUME NEW lines \in Seq(Strings)
  PROVE  Tokens(lines) \in Seq(Strings)
  <1> DEFINE words == {i \in 1..Len(lines) : lines[i] # Blank}
  <1>1. words \in SUBSET Int /\ IsFiniteSet(words) /\ Cardinality(words) \in Nat
    <2>1. IsFiniteSet(1..Len(lines))
      BY FS_Interval
    <2>2. IsFiniteSet(words)
      BY <2>1, FS_Subset
    <2> QED BY <2>2, FS_CardinalityType
  <1>2. \A k \in 1..Cardinality(words) : Nth(words, k) \in words
    <2> HIDE DEF words
    <2> QED BY <1>1, NthType
  <1>3. \A i \in words : lines[i] \in Strings
    OBVIOUS
  <1>4. Tokens(lines) = [k \in 1..Cardinality(words) |-> lines[Nth(words, k)]]
    BY DEF Tokens
  <1> DEFINE n == Cardinality(words)
             pick == [k \in 1..n |-> lines[Nth(words, k)]]
  <1>5. \A k \in 1..n : pick[k] \in Strings
    BY <1>2, <1>3
  <1>6. n \in Nat
    BY <1>1
  <1>7. pick \in Seq(Strings)
    <2> HIDE DEF n, words
    <2> QED BY <1>5, <1>6
  <1> QED BY <1>4, <1>7

\* Whatever the lines of a datagram, they are parsed into a request.
LEMMA ParseType ==
  ASSUME NEW lines \in Seq(Strings)
  PROVE  Parse(lines) \in Requests
  <1> DEFINE t == Tokens(lines)
             option == Atoi[t[1]]
             short == t = <<>> \/ (Listed(t[1]) /\ Len(t) <= ParamCount[option])
  <1>1. t \in Seq(Strings)
    BY TokensType
  <1>2. Parsable \subseteq Requests /\ Atoi \in [Strings -> Int]
    BY SystemAssumption
  <1>3. Parse(lines) =
          IF short THEN [op |-> "short"]
          ELSE CASE option = 1 -> [op |-> "display", M |-> Atoi[t[2]],
                                   X |-> Atoi[t[3]], Z |-> Atoi[t[4]]]
                 [] option = 3 -> [op |-> "order", x |-> t[2], y |-> t[3], n |-> Atoi[t[4]]]
                 [] option = 4 -> [op |-> "pay", orderno |-> Atoi[t[2]], amount |-> Atoi[t[3]]]
                 [] OTHER -> [op |-> "browse"]
    BY DEF Parse
  <1> DEFINE known(k) == k <= Len(t) => t[k] \in Strings /\ Atoi[t[k]] \in Numbers
  <1>4. known(2) /\ known(3) /\ known(4)
    BY <1>1 DEF Numbers
  <1>5. ~short /\ option \in 1..4 => Len(t) > ParamCount[option]
    <2>1. DOMAIN ParamCount = 1..4 /\ \A k \in 1..4 : ParamCount[k] \in Nat
      BY DEF ParamCount
    <2> QED BY <1>1, <2>1 DEF Listed
  <1>6. ParamCount[1] = 3 /\ ParamCount[3] = 3 /\ ParamCount[4] = 2
    BY DEF ParamCount
  <1>7. Len(t) \in Nat
    BY <1>1
  <1> HIDE DEF t, short
  <1>8. CASE short
    BY <1>2, <1>3, <1>8 DEF Parsable, OtherRequest
  <1>9. CASE ~short /\ option = 1
    <2>1. Len(t) > 3
      BY <1>5, <1>6, <1>9
    <2>2. Parse(lines) \in [op : {"display"}, M : Numbers, X : Numbers, Z : Numbers]
      BY <1>3, <1>4, <1>7, <1>9, <2>1
    <2> QED BY <1>2, <2>2 DEF Parsable
  <1>10. CASE ~short /\ option = 3
    <2>1. Len(t) > 3
      BY <1>5, <1>6, <1>10
    <2>2. Parse(lines) \in [op : {"order"}, x : Strings, y : Strings, n : Numbers]
      BY <1>3, <1>4, <1>7, <1>10, <2>1
    <2> QED BY <1>2, <2>2 DEF Parsable
  <1>11. CASE ~short /\ option = 4
    <2>1. Len(t) > 2
      BY <1>5, <1>6, <1>11
    <2>2. Parse(lines) \in [op : {"pay"}, orderno : Numbers, amount : Numbers]
      BY <1>3, <1>4, <1>7, <1>11, <2>1
    <2> QED BY <1>2, <2>2 DEF Parsable
  <1>12. CASE ~short /\ option \notin {1, 3, 4}
    BY <1>2, <1>3, <1>12 DEF Parsable, OtherRequest
  <1> QED BY <1>8, <1>9, <1>10, <1>11, <1>12

\* A step of the system is a step of the server, or leaves it alone.
LEMMA ServerSteps == SystemTypeOK /\ [SystemNext]_systemVars => [Next]_vars
  <1> SUFFICES ASSUME SystemTypeOK, [SystemNext]_systemVars PROVE [Next]_vars
    OBVIOUS
  <1>1. ASSUME NEW c \in Clients, Client(c) \/ Quit(c) PROVE UNCHANGED vars
    BY <1>1 DEF Client, Ask, Display, Quit
  <1>2. CASE Serve
    <2>1. ASSUME NEW d \in toServer, NEW p \in Procs, Receive(d, p) PROVE Next
      <3>1. Parse(d.lines) \in Requests
        BY ParseType DEF SystemTypeOK, Datagram
      <3> QED BY <2>1, <3>1 DEF Receive, Next
    <2>2. ASSUME NEW d \in toServer, Drop(d) PROVE Next
      BY <2>2 DEF Drop, Next
    <2> QED BY <1>2, <2>1, <2>2 DEF Serve
  <1>3. ASSUME NEW p \in Procs, Work(p) \/ Send(p) PROVE Next
    BY <1>3 DEF Work, Send, Child, Next
  <1>4. CASE Losses
    BY <1>4 DEF Losses, LoseRequest, LoseAnswer
  <1>5. CASE Restart
    BY <1>5 DEF Restart, Next
  <1>6. CASE UNCHANGED systemVars
    BY <1>6 DEF systemVars
  <1> QED BY <1>1, <1>2, <1>3, <1>4, <1>5, <1>6 DEF SystemNext

LEMMA InitServes == SystemInit => Init
  BY DEF SystemInit

-----------------------------------------------------------------------------
(* Types.                                                                  *)

\* A child that is about to answer has something to say, and a child that was
\* forked serves a datagram.
Answering ==
  \A p \in Procs : /\ pc[p] = "responding" => outcome[p] # "none"
                   /\ pc[p] # Unborn => origin[p] \in Datagram

\* A child's step leaves the other children's outcomes alone, and gives its own
\* before it responds.
LEMMA ChildAnswers ==
  ASSUME TypeOK, NEW p \in Procs, Child(p)
  PROVE  /\ pc[p] \notin {Unborn} \cup Ended /\ pc'[p] # Unborn
         /\ pc'[p] = "responding" => outcome'[p] # "none"
         /\ \A q \in Procs \ {p} : pc'[q] = pc[q] /\ outcome'[q] = outcome[q]
  <1> USE DEF TypeOK, files, locals, Unborn, Ended, Goto, Respond, Die
  <1>1. CASE DisplayCatalog(p) \/ Browse(p) \/ ShortRequest(p) \/ OpenFails(p) \/ Reply(p)
    BY <1>1 DEF DisplayCatalog, Browse, ShortRequest, OpenFails, Reply
  <1>2. CASE OrderBook(p)
    BY <1>2 DEF OrderBook, OrderNoBook, OrderOpen, OrderRead, OrderAppend
  <1>3. CASE PayOpen(p) \/ PayOpenTemp(p) \/ PayScan(p) \/ PayNoOrders(p)
    BY <1>3 DEF PayOpen, PayOpenTemp, PayScan, PayNoOrders
  <1>4. CASE PayCloseTemp(p) \/ PayInvalid(p) \/ PayInsufficient(p) \/ PayWithoutTemp(p)
    BY <1>4 DEF PayCloseTemp, PayInvalid, PayInsufficient, PayWithoutTemp
  <1>5. CASE PayRemove(p) \/ PayRename(p) \/ PayRecord(p)
    BY <1>5 DEF PayRemove, PayRename, PayRecord
  <1> QED BY <1>1, <1>2, <1>3, <1>4, <1>5 DEF Child, PayForBook

LEMMA AnsweringStep ==
  TypeOK /\ SystemTypeOK /\ Answering /\ [SystemNext]_systemVars => Answering'
  <1> SUFFICES ASSUME TypeOK, SystemTypeOK, Answering, [SystemNext]_systemVars
               PROVE  Answering'
    OBVIOUS
  <1>1. ASSUME UNCHANGED <<pc, outcome, origin>> PROVE Answering'
    BY <1>1 DEF Answering
  <1>2. ASSUME NEW c \in Clients, Client(c) \/ Quit(c) PROVE Answering'
    BY <1>1, <1>2 DEF Client, Ask, Display, Quit, vars
  <1>3. ASSUME NEW d \in toServer, NEW p \in Procs, Receive(d, p) PROVE Answering'
    BY <1>3 DEF Receive, Fork, Goto, Answering, TypeOK, SystemTypeOK
  <1>4. ASSUME NEW d \in toServer, Drop(d) PROVE Answering'
    BY <1>1, <1>4 DEF Drop, ForkFails, vars
  <1>5. ASSUME NEW p \in Procs, Child(p), UNCHANGED origin PROVE Answering'
    BY <1>5, ChildAnswers DEF Answering
  <1>6. ASSUME NEW p \in Procs, Work(p) \/ Send(p) PROVE Answering'
    BY <1>5, <1>6 DEF Work, Send, Child
  <1>7. ASSUME Losses \/ UNCHANGED systemVars PROVE Answering'
    BY <1>1, <1>7 DEF Losses, LoseRequest, LoseAnswer, systemVars, vars
  <1>8. CASE Restart
    BY <1>8 DEF Restart, Interrupt, Answering, TypeOK
  <1> QED BY <1>2, <1>3, <1>4, <1>6, <1>7, <1>8 DEF SystemNext, Serve

LEMMA SystemTypeStep ==
  TypeOK /\ SystemTypeOK /\ Answering /\ [SystemNext]_systemVars => SystemTypeOK'
  <1> SUFFICES ASSUME TypeOK, SystemTypeOK, Answering, [SystemNext]_systemVars
               PROVE  SystemTypeOK'
    OBVIOUS
  <1> USE DEF SystemTypeOK
  <1>0. MaxAsked \in Nat /\ MaxDup \in Nat
    BY SystemAssumption
  <1>1. ASSUME NEW c \in Clients, NEW form \in Forms, Ask(c, form) PROVE SystemTypeOK'
    <2>1. form.option \in Strings /\ form.lines \in Seq(Strings)
      BY SystemAssumption DEF Form
    <2>2. Filled(c, form) \in Seq(Strings)
      BY <2>1 DEF Filled
    <2>3. params' \in [Clients -> Seq(Strings)] /\ params'[c] = Filled(c, form)
      BY <1>1, <2>2 DEF Ask
    <2>4. asked' \in [Clients -> 0..MaxAsked] /\ asked'[c] \in 1..MaxAsked
      BY <1>0, <1>1 DEF Ask
    <2>5. <<form.option>> \o params'[c] \in Seq(Strings)
      BY <2>1, <2>2, <2>3
    <2>6. toServer' \subseteq Datagram
      <3> DEFINE d == [from |-> c, id |-> asked'[c], lines |-> <<form.option>> \o params'[c]]
      <3>1. d \in Datagram
        BY <2>4, <2>5 DEF Datagram
      <3>2. toServer' = toServer \cup {d}
        BY <1>1 DEF Ask
      <3> HIDE DEF d
      <3> QED BY <3>1, <3>2
    <2> QED BY <1>1, <2>3, <2>4, <2>6 DEF Ask
  <1>2. ASSUME NEW c \in Clients, NEW m \in toClient, Display(c, m) PROVE SystemTypeOK'
    BY <1>0, <1>2 DEF Display
  <1>3. ASSUME NEW c \in Clients, Quit(c) PROVE SystemTypeOK'
    BY <1>3 DEF Quit, network
  <1>4. ASSUME NEW d \in toServer, NEW p \in Procs, Receive(d, p) PROVE SystemTypeOK'
    BY <1>0, <1>4 DEF Receive, users
  <1>5. ASSUME NEW d \in toServer, Drop(d) PROVE SystemTypeOK'
    BY <1>5 DEF Drop, users, Datagram
  <1>6. ASSUME NEW p \in Procs, Work(p) PROVE SystemTypeOK'
    BY <1>6 DEF Work, users, network
  <1>7. ASSUME NEW p \in Procs, Send(p) PROVE SystemTypeOK'
    <2>1. pc[p] = "responding" /\ outcome[p] \in Outcome \ {"none"} /\ origin[p] \in Datagram
      BY <1>7 DEF Send, Reply, Answering, TypeOK, Unborn
    <2>2. [to |-> origin[p].from, id |-> origin[p].id, what |-> outcome[p], by |-> p] \in Answer
      BY <2>1 DEF Answer, Datagram
    <2> QED BY <1>7, <2>2 DEF Send, users
  <1>8. ASSUME NEW d \in toServer, LoseRequest(d) PROVE SystemTypeOK'
    BY <1>8 DEF LoseRequest, users, Datagram
  <1>9. ASSUME NEW m \in toClient, LoseAnswer(m) PROVE SystemTypeOK'
    BY <1>9 DEF LoseAnswer, users, Answer
  <1>10. ASSUME Restart \/ UNCHANGED systemVars PROVE SystemTypeOK'
    BY <1>10 DEF Restart, systemVars, users, network
  <1> HIDE DEF SystemTypeOK
  <1> QED BY <1>1, <1>2, <1>3, <1>4, <1>5, <1>6, <1>7, <1>8, <1>9, <1>10
          DEF SystemNext, Client, Serve, Losses

LEMMA SystemInitFits == SystemInit => SystemTypeOK /\ Answering
  <1> SUFFICES ASSUME SystemInit PROVE SystemTypeOK /\ Answering
    OBVIOUS
  <1>1. params \in [Clients -> Seq(Strings)]
    <2> SUFFICES ASSUME NEW c \in Clients PROVE params[c] \in Seq(Strings)
      BY DEF SystemInit
    <2>1. params[c] = <<>> \/ \E s \in Strings : params[c] = <<s>>
      BY DEF SystemInit
    <2>2. <<>> \in Seq(Strings)
      OBVIOUS
    <2>3. ASSUME NEW s \in Strings PROVE <<s>> \in Seq(Strings)
      OBVIOUS
    <2> HIDE DEF SystemInit
    <2> QED BY <2>1, <2>2, <2>3, Zenon
  <1>2. SystemTypeOK
    BY <1>1, SystemAssumption DEF SystemInit, SystemTypeOK
  <1>3. Answering
    BY DEF SystemInit, Init, Answering, Unborn
  <1> QED BY <1>2, <1>3

LEMMA SystemFits == SystemSpec => [](SystemTypeOK /\ Answering) /\ Spec
  <1>1. TypeOK /\ StepsFit /\ SystemTypeOK /\ Answering /\ [SystemNext]_systemVars
          => (TypeOK /\ StepsFit /\ SystemTypeOK /\ Answering)'
    BY StepFits, ServerSteps, SystemTypeStep, AnsweringStep
  <1>2. SystemInit => TypeOK /\ StepsFit /\ SystemTypeOK /\ Answering
    BY InitFits, InitServes, SystemInitFits
  <1> QED BY <1>1, <1>2, InitServes, ServerSteps, PTL DEF SystemSpec, Spec

\* The clients and the network keep to their types, whatever arrives in
\* whatever order; in particular every answer says something.
THEOREM SystemTyping == SystemSpec => []SystemTypeOK
  BY SystemFits, PTL

\* The server in the system is that of BookServer: every datagram that a client
\* sends is parsed into one of the requests, so what is proved of BookServer
\* for arbitrary requests holds of it.
THEOREM SystemServes == SystemSpec => Spec
  BY SystemFits, PTL

-----------------------------------------------------------------------------
(* Answers.  As long as no datagram is delivered twice, a client has at    *)
(* most one of: a request under way, a child that serves one, an answer    *)
(* under way; it is that of its last request; and at its menu it has none. *)

Busy(p) == pc[p] \notin {Unborn} \cup Ended
HasRequest(c) == \E d \in toServer : d.from = c
HasChild(c) == \E p \in Procs : Busy(p) /\ origin[p].from = c
HasAnswer(c) == \E m \in toClient : m.to = c
OneEach(c) ==
  /\ \A d \in toServer : d.from = c =>
       d.id = asked[c] /\ \A e \in toServer : e.from = c => e = d
  /\ \A p \in Procs : Busy(p) /\ origin[p].from = c =>
       origin[p].id = asked[c] /\ \A q \in Procs : Busy(q) /\ origin[q].from = c => q = p
  /\ \A m \in toClient : m.to = c =>
       m.id = asked[c] /\ \A n \in toClient : n.to = c => n = m
  /\ HasRequest(c) => ~HasChild(c) /\ ~HasAnswer(c)
  /\ HasChild(c) => ~HasAnswer(c)
  /\ menu[c] = "menu" => ~HasRequest(c) /\ ~HasChild(c) /\ ~HasAnswer(c)
  /\ menu[c] = "menu" /\ asked[c] > 0 => shown[c].id = asked[c]
Own == dups = 0 => \A c \in Clients : OneEach(c)

\* What no step adds to cannot become too much.
LEMMA FewerEach ==
  ASSUME NEW c \in Clients, OneEach(c),
         \A d \in toServer' : d.from = c => d \in toServer,
         \A m \in toClient' : m.to = c => m \in toClient,
         \A p \in Procs : Busy(p)' /\ origin'[p].from = c => Busy(p) /\ origin'[p] = origin[p],
         asked'[c] = asked[c], shown'[c] = shown[c], menu'[c] \in {menu[c], "gone"}
  PROVE  OneEach(c)'
  <1>1. \A d \in toServer' : d.from = c =>
          d.id = asked'[c] /\ \A e \in toServer' : e.from = c => e = d
    BY DEF OneEach
  <1>2. \A p \in Procs : Busy(p)' /\ origin'[p].from = c =>
          origin'[p].id = asked'[c]
          /\ \A q \in Procs : Busy(q)' /\ origin'[q].from = c => q = p
    <2> HIDE DEF Busy
    <2> QED BY DEF OneEach
  <1>3. \A m \in toClient' : m.to = c =>
          m.id = asked'[c] /\ \A n \in toClient' : n.to = c => n = m
    BY DEF OneEach
  <1>4. /\ HasRequest(c)' => HasRequest(c)
        /\ HasChild(c)' => HasChild(c)
        /\ HasAnswer(c)' => HasAnswer(c)
    BY DEF HasRequest, HasChild, HasAnswer
  <1>5. /\ HasRequest(c)' => ~HasChild(c)' /\ ~HasAnswer(c)'
        /\ HasChild(c)' => ~HasAnswer(c)'
        /\ menu'[c] = "menu" => ~HasRequest(c)' /\ ~HasChild(c)' /\ ~HasAnswer(c)'
        /\ menu'[c] = "menu" /\ asked'[c] > 0 => shown'[c].id = asked'[c]
    BY <1>4 DEF OneEach
  <1> QED BY <1>1, <1>2, <1>3, <1>5 DEF OneEach

\* A request is on its way only once its client has sent it ...
LEMMA AskOne ==
  ASSUME SystemTypeOK, NEW c \in Clients, OneEach(c), NEW form \in Forms, Ask(c, form)
  PROVE  OneEach(c)'
  <1> DEFINE d == [from |-> c, id |-> asked'[c], lines |-> <<form.option>> \o params'[c]]
  <1>1. /\ toServer' = toServer \cup {d} /\ menu[c] = "menu" /\ menu'[c] = "waiting"
        /\ UNCHANGED <<toClient, pc, origin>>
    BY DEF Ask, vars, SystemTypeOK
  <1>2. ~HasRequest(c) /\ ~HasChild(c) /\ ~HasAnswer(c)
    BY <1>1 DEF OneEach
  <1>3. d.id = asked'[c] /\ d.from = c
    OBVIOUS
  <1>4. \A e \in toServer' : e.from = c => e = d
    BY <1>1, <1>2 DEF HasRequest
  <1>5. ~HasChild(c)' /\ ~HasAnswer(c)'
    BY <1>1, <1>2 DEF HasChild, HasAnswer, Busy
  <1> HIDE DEF d
  <1> QED BY <1>1, <1>3, <1>4, <1>5 DEF OneEach, HasChild, HasAnswer

\* ... and is then a child's ...
LEMMA ReceiveOne ==
  ASSUME TypeOK, SystemTypeOK, NEW d \in toServer, OneEach(d.from), NEW p \in Procs,
         Receive(d, p), toServer' = toServer \ {d}
  PROVE  OneEach(d.from)'
  <1> DEFINE c == d.from
  <1>1. /\ pc[p] = Unborn /\ pc' = [pc EXCEPT ![p] = "parsed"]
        /\ origin' = [origin EXCEPT ![p] = d]
        /\ UNCHANGED <<toClient, asked, menu, shown>>
    BY DEF Receive, Fork, Goto, users
  <1>2. /\ d.id = asked[c] /\ menu[c] # "menu" /\ ~HasChild(c) /\ ~HasAnswer(c)
        /\ \A e \in toServer : e.from = c => e = d
    BY DEF OneEach, HasRequest
  <1>3. ~HasRequest(c)'
    BY <1>2 DEF HasRequest
  <1>4. ~HasAnswer(c)'
    BY <1>1, <1>2 DEF HasAnswer
  <1>5. \A q \in Procs : Busy(q)' /\ origin'[q].from = c => q = p
    BY <1>1, <1>2 DEF Busy, HasChild, TypeOK, SystemTypeOK
  <1>6. origin'[p] = d
    BY <1>1 DEF SystemTypeOK
  <1> HIDE DEF c
  <1>7. \A q \in Procs : Busy(q)' /\ origin'[q].from = c => origin'[q].id = asked'[c]
    BY <1>1, <1>2, <1>5, <1>6
  <1>8. OneEach(c)'
    BY <1>1, <1>2, <1>3, <1>4, <1>5, <1>7 DEF OneEach, HasRequest, HasAnswer
  <1> QED BY <1>8 DEF c

\* ... whose answer is then on its way ...
LEMMA SendOne ==
  ASSUME TypeOK, SystemTypeOK, NEW p \in Procs, Send(p),
         NEW c \in Clients, origin[p].from = c, OneEach(c)
  PROVE  OneEach(c)'
  <1> DEFINE m == [to |-> c, id |-> origin[p].id, what |-> outcome[p], by |-> p]
  <1>1. /\ pc[p] = "responding" /\ pc' = [pc EXCEPT ![p] = "answered"]
        /\ toClient' = toClient \cup {m}
        /\ UNCHANGED <<toServer, asked, menu, shown, origin>>
    BY DEF Send, Reply, Goto, users
  <1>2. Busy(p)
    BY <1>1 DEF Busy, Unborn, Ended
  <1>3. /\ origin[p].id = asked[c] /\ menu[c] # "menu" /\ ~HasRequest(c) /\ ~HasAnswer(c)
        /\ \A q \in Procs : Busy(q) /\ origin[q].from = c => q = p
    BY <1>2 DEF OneEach, HasChild
  <1>4. ~HasRequest(c)'
    BY <1>1, <1>3 DEF HasRequest
  <1>5. \A q \in Procs : Busy(q)' => q # p /\ Busy(q)
    BY <1>1 DEF Busy, Ended, TypeOK
  <1>6. ~HasChild(c)'
    BY <1>1, <1>3, <1>5 DEF HasChild
  <1>7. m.to = c /\ m.id = asked'[c]
    BY <1>1, <1>3
  <1>8. \A n \in toClient' : n.to = c => n = m
    BY <1>1, <1>3 DEF HasAnswer
  <1> HIDE DEF m
  <1> QED BY <1>1, <1>3, <1>4, <1>6, <1>7, <1>8 DEF OneEach, HasRequest, HasChild

\* ... until the client has shown it.
LEMMA DisplayOne ==
  ASSUME SystemTypeOK, NEW c \in Clients, OneEach(c), NEW m \in toClient,
         Display(c, m), toClient' = toClient \ {m}
  PROVE  OneEach(c)'
  <1>1. /\ m.to = c /\ shown'[c] = m
        /\ UNCHANGED <<asked, toServer, pc, origin>>
    BY DEF Display, vars, SystemTypeOK
  <1>2. /\ m.id = asked[c] /\ ~HasRequest(c) /\ ~HasChild(c)
        /\ \A n \in toClient : n.to = c => n = m
    BY <1>1 DEF OneEach, HasAnswer
  <1>3. ~HasRequest(c)' /\ ~HasChild(c)' /\ ~HasAnswer(c)'
    BY <1>1, <1>2 DEF HasRequest, HasChild, HasAnswer, Busy
  <1>4. shown'[c].id = asked'[c]
    BY <1>1, <1>2
  <1> QED BY <1>3, <1>4 DEF OneEach, HasRequest, HasChild, HasAnswer

LEMMA OwnStep ==
  TypeOK /\ StepsFit /\ SystemTypeOK /\ Answering /\ Own /\ [SystemNext]_systemVars => Own'
  <1> SUFFICES ASSUME TypeOK, StepsFit, SystemTypeOK, Answering, Own,
                      [SystemNext]_systemVars, dups' = 0
               PROVE  \A c \in Clients : OneEach(c)'
    BY DEF Own
  <1>0. dups \in Nat
    BY SystemAssumption DEF SystemTypeOK
  \* No datagram is delivered twice by this step, so none was before.
  <1> DEFINE Each == \A c \in Clients : OneEach(c)
  <1>1. dups = 0 => Each
    BY DEF Own
  <1>2. ASSUME dups = 0, toServer' \subseteq toServer, toClient' \subseteq toClient,
               \A p \in Procs : Busy(p)' => Busy(p) /\ origin'[p] = origin[p],
               UNCHANGED <<asked, shown>>, \A c \in Clients : menu'[c] \in {menu[c], "gone"}
        PROVE  \A c \in Clients : OneEach(c)'
    BY <1>1, <1>2, FewerEach
  <1>3. ASSUME NEW c \in Clients, NEW form \in Forms, Ask(c, form)
        PROVE  \A b \in Clients : OneEach(b)'
    <2>1. dups = 0
      BY <1>3 DEF Ask
    <2>2. OneEach(c)'
      BY <1>1, <1>3, <2>1, AskOne
    <2>3. ASSUME NEW b \in Clients \ {c} PROVE OneEach(b)'
      <3>1. \A d \in toServer' : d.from = b => d \in toServer
        BY <1>3 DEF Ask
      <3>2. /\ UNCHANGED <<pc, origin, toClient>> /\ menu'[b] = menu[b]
            /\ asked'[b] = asked[b] /\ shown'[b] = shown[b]
        BY <1>3 DEF Ask, vars, SystemTypeOK
      <3>3. OneEach(b)
        BY <1>1, <2>1
      <3> QED BY <3>1, <3>2, <3>3, FewerEach DEF Busy
    <2> QED BY <2>2, <2>3
  <1>4. ASSUME NEW c \in Clients, NEW m \in toClient, Display(c, m)
        PROVE  \A b \in Clients : OneEach(b)'
    <2>1. dups = 0 /\ toClient' = toClient \ {m}
      BY <1>0, <1>4 DEF Display
    <2>2. OneEach(c)'
      BY <1>1, <1>4, <2>1, DisplayOne
    <2>3. ASSUME NEW b \in Clients \ {c} PROVE OneEach(b)'
      <3>1. /\ UNCHANGED <<pc, origin, toServer>> /\ menu'[b] = menu[b]
            /\ asked'[b] = asked[b] /\ shown'[b] = shown[b]
        BY <1>4 DEF Display, vars, SystemTypeOK
      <3>2. OneEach(b)
        BY <1>1, <2>1
      <3> QED BY <2>1, <3>1, <3>2, FewerEach DEF Busy
    <2> QED BY <2>2, <2>3
  <1>5. ASSUME NEW c \in Clients, Quit(c) PROVE \A b \in Clients : OneEach(b)'
    BY <1>2, <1>5 DEF Quit, network, vars, Busy, SystemTypeOK
  <1>6. ASSUME NEW d \in toServer, NEW p \in Procs, Receive(d, p)
        PROVE  \A b \in Clients : OneEach(b)'
    <2>1. dups = 0 /\ toServer' = toServer \ {d} /\ d.from \in Clients
      BY <1>0, <1>6 DEF Receive, SystemTypeOK, Datagram
    <2>2. OneEach(d.from)'
      BY <1>1, <1>6, <2>1, ReceiveOne
    <2>3. ASSUME NEW b \in Clients \ {d.from} PROVE OneEach(b)'
      <3>1. /\ origin' = [origin EXCEPT ![p] = d] /\ pc' = [pc EXCEPT ![p] = "parsed"]
            /\ UNCHANGED <<toClient, menu, asked, shown>>
        BY <1>6 DEF Receive, Fork, Goto, users
      <3>2. \A q \in Procs : Busy(q)' /\ origin'[q].from = b
              => Busy(q) /\ origin'[q] = origin[q]
        BY <3>1 DEF Busy, TypeOK, SystemTypeOK
      <3>3. OneEach(b)
        BY <1>1, <2>1
      <3> QED BY <2>1, <3>1, <3>2, <3>3, FewerEach
    <2> QED BY <2>2, <2>3
  <1>7. ASSUME NEW d \in toServer, Drop(d) \/ LoseRequest(d)
        PROVE  \A b \in Clients : OneEach(b)'
    BY <1>2, <1>7 DEF Drop, ForkFails, LoseRequest, users, vars, Busy
  <1>8. ASSUME NEW m \in toClient, LoseAnswer(m) PROVE \A b \in Clients : OneEach(b)'
    BY <1>2, <1>8 DEF LoseAnswer, users, vars, Busy
  <1>9. ASSUME NEW p \in Procs, Work(p) PROVE \A b \in Clients : OneEach(b)'
    <2>1. \A q \in Procs : Busy(q)' => Busy(q)
      BY <1>9, ChildAnswers DEF Work, Child, Busy
    <2> QED BY <1>2, <1>9, <2>1 DEF Work, users, network
  <1>10. ASSUME NEW p \in Procs, Send(p) PROVE \A b \in Clients : OneEach(b)'
    <2>1. dups = 0 /\ origin[p].from \in Clients
      BY <1>10 DEF Send, Reply, Answering, Datagram, Unborn
    <2>2. ASSUME NEW b \in Clients, b # origin[p].from PROVE OneEach(b)'
      <3>1. /\ pc' = [pc EXCEPT ![p] = "answered"]
            /\ \A m \in toClient' : m.to = b => m \in toClient
            /\ UNCHANGED <<origin, toServer, menu, asked, shown>>
        BY <1>10, <2>2 DEF Send, Reply, Goto, users
      <3>2. \A q \in Procs : Busy(q)' => Busy(q)
        BY <3>1 DEF Busy, Ended, TypeOK
      <3>3. OneEach(b)
        BY <1>1, <2>1
      <3> QED BY <3>1, <3>2, <3>3, FewerEach
    <2> QED BY <1>1, <1>10, <2>1, <2>2, SendOne
  <1>11. CASE Restart
    <2>1. \A q \in Procs : Busy(q)' => Busy(q)
      BY <1>11 DEF Restart, Interrupt, Busy, Ended, TypeOK
    <2> QED BY <1>2, <1>11, <2>1 DEF Restart, users, network
  <1>12. CASE UNCHANGED systemVars
    BY <1>2, <1>12 DEF systemVars, users, network, vars, Busy
  <1> HIDE DEF Each
  <1> QED BY <1>3, <1>4, <1>5, <1>6, <1>7, <1>8, <1>9, <1>10, <1>11, <1>12
          DEF SystemNext, Client, Serve, Losses

LEMMA OwnAlways == SystemSpec => []Own
  <1>1. SystemInit => Own
    BY DEF SystemInit, Init, Own, OneEach, HasRequest, HasChild, HasAnswer, Busy
  <1> QED BY <1>1, OwnStep, SystemFits, Typing, Stepping, PTL DEF SystemSpec

\* As long as no datagram is delivered twice, what a client at its menu has been
\* shown answers its last request, whatever was lost, overtaken or killed.
THEOREM AnswersAreOwn == SystemSpec => []AnswersOwnRequest
  <1>1. Own => AnswersOwnRequest
    BY DEF Own, OneEach, AnswersOwnRequest
  <1> QED BY <1>1, OwnAlways, PTL

-----------------------------------------------------------------------------
(* A single client.  It waits for each answer, so its requests reach the   *)
(* files one at a time, and what was proved of StoppedSpec holds.          *)

LEMMA OneByOneStep ==
  ASSUME \A b, c \in Clients : b = c
  PROVE  SystemTypeOK /\ Answering /\ Own /\ [SystemNext]_systemVars
           => [dups' = 0 => SerialNext \/ Interrupt]_vars
  <1> SUFFICES ASSUME SystemTypeOK, Answering, Own, [SystemNext]_systemVars, dups' = 0
               PROVE  SerialNext \/ Interrupt \/ UNCHANGED vars
    OBVIOUS
  <1>0. dups \in Nat
    BY SystemAssumption DEF SystemTypeOK
  <1>1. ASSUME NEW c \in Clients, Client(c) \/ Quit(c) PROVE UNCHANGED vars
    BY <1>1 DEF Client, Ask, Display, Quit
  <1>2. ASSUME NEW d \in toServer, NEW p \in Procs, Receive(d, p) PROVE SerialNext
    <2>1. Parse(d.lines) \in Requests
      BY ParseType DEF SystemTypeOK, Datagram
    <2>2. dups = 0 /\ d.from \in Clients
      BY <1>0, <1>2 DEF Receive, SystemTypeOK, Datagram
    <2>3. ~HasChild(d.from)
      BY <2>2 DEF Own, OneEach, HasRequest
    <2>4. \A q \in Procs : ~Busy(q)
      BY <2>2, <2>3 DEF HasChild, Answering, Busy, Datagram
    <2>5. Quiet
      BY <2>4 DEF Quiet, Idle, Busy
    <2> QED BY <1>2, <2>1, <2>5 DEF Receive, SerialNext
  <1>3. ASSUME NEW d \in toServer, Drop(d) PROVE SerialNext
    BY <1>3 DEF Drop, SerialNext
  <1>4. ASSUME NEW p \in Procs, Work(p) \/ Send(p) PROVE SerialNext
    BY <1>4 DEF Work, Send, Child, SerialNext
  <1>5. CASE Losses
    BY <1>5 DEF Losses, LoseRequest, LoseAnswer
  <1>6. CASE Restart
    BY <1>6 DEF Restart
  <1>7. CASE UNCHANGED systemVars
    BY <1>7 DEF systemVars
  <1> QED BY <1>1, <1>2, <1>3, <1>4, <1>5, <1>6, <1>7 DEF SystemNext, Serve

\* A single client makes the server take one request at a time, as SerialSpec
\* has it, as long as no datagram is delivered twice.
THEOREM SingleClientSerial ==
  ASSUME \A b, c \in Clients : b = c
  PROVE  SystemSpec => ServesOneByOne
  <1>1. SystemTypeOK /\ Answering /\ Own /\ [SystemNext]_systemVars
          => [dups' = 0 => SerialNext \/ Interrupt]_vars
    BY OneByOneStep
  <1> QED BY <1>1, InitServes, SystemFits, OwnAlways, PTL DEF SystemSpec, ServesOneByOne

\* Datagrams that were delivered twice stay so.
LEMMA DupsGrow ==
  ASSUME SystemTypeOK, [SystemNext]_systemVars, dups' = 0
  PROVE  dups = 0
  <1> USE DEF users, network
  <1>0. dups \in Nat
    BY SystemAssumption DEF SystemTypeOK
  <1>1. ASSUME NEW c \in Clients, Client(c) \/ Quit(c) PROVE dups = 0
    <2>1. dups' = dups \/ dups' = dups + 1
      BY <1>1 DEF Client, Ask, Display, Quit
    <2> QED BY <1>0, <2>1
  <1>2. CASE Serve
    BY <1>0, <1>2 DEF Serve, Receive, Drop
  <1>3. ASSUME NEW p \in Procs, Work(p) \/ Send(p) PROVE dups = 0
    BY <1>3 DEF Work, Send
  <1>4. CASE Losses \/ Restart \/ UNCHANGED systemVars
    BY <1>4 DEF Losses, LoseRequest, LoseAnswer, Restart, systemVars
  <1> QED BY <1>1, <1>2, <1>3, <1>4 DEF SystemNext

\* What holds of the files as long as no datagram was delivered twice.
ServedOneByOne == dups = 0 => AlonePaying /\ PayerFiles /\ AloneServing /\ ServedFiles
                                /\ OrdersAscend

\* If the shipped numbers ascend, then a single client's order numbers each name
\* one open order, even if the server is stopped in the middle of any request.
THEOREM SingleClientNumbers ==
  ASSUME \A b, c \in Clients : b = c, Ascending(Shipped)
  PROVE  SystemSpec => []NumbersStayClear
  <1>1. SystemInit => ServedOneByOne
    <2> SUFFICES ASSUME SystemInit PROVE ServedOneByOne
      OBVIOUS
    <2>1. Init /\ OpenLines = Shipped
      BY InitServes, InitOpenLines
    <2>2. AlonePaying /\ PayerFiles /\ AloneServing /\ ServedFiles
      BY <2>1 DEF Init, AlonePaying, Payer, PayerFiles, AloneServing, ServedFiles, Idle, Unborn,
                  OrderSteps
    <2>3. OrdersAscend
      BY <2>1 DEF Init, OrdersAscend, Unborn
    <2> QED BY <2>2, <2>3 DEF ServedOneByOne
  <1>2. TypeOK /\ StepsFit /\ FreshFiles /\ TempApart /\ SystemTypeOK /\ Answering /\ Own
          /\ ServedOneByOne /\ [SystemNext]_systemVars => ServedOneByOne'
    <2> SUFFICES ASSUME TypeOK, StepsFit, FreshFiles, TempApart, SystemTypeOK, Answering, Own,
                        ServedOneByOne, [SystemNext]_systemVars, dups' = 0
                 PROVE  (AlonePaying /\ PayerFiles /\ AloneServing /\ ServedFiles
                           /\ OrdersAscend)'
      BY DEF ServedOneByOne
    <2>1. [StoppedNext]_vars
      BY OneByOneStep DEF StoppedNext
    <2>2. dups = 0
      BY DupsGrow
    <2>3. AlonePaying /\ PayerFiles /\ AloneServing /\ ServedFiles /\ OrdersAscend
      BY <2>2 DEF ServedOneByOne
    <2>4. [OnePayerNext]_vars
      BY <2>1, StoppedSteps
    <2>5. AlonePaying' /\ PayerFiles'
      BY <2>3, <2>4, AloneStep, PayerFilesStep
    <2>6. AloneServing' /\ ServedFiles' /\ OrdersAscend'
      BY <2>1, <2>3, AloneServingStep, ServedFilesStep, OrdersAscendStep DEF Serving
    <2> QED BY <2>5, <2>6
  <1>3. ServedOneByOne => NumbersStayClear
    BY DEF ServedOneByOne, OrdersAscend, NumbersStayClear, OpenNumbersAscend
  <1> QED BY <1>1, <1>2, <1>3, SystemFits, OwnAlways, Typing, Stepping, FilesApart, PTL
          DEF SystemSpec

\* A single client, on a network that delivers nothing twice and with a server
\* that is not stopped, finds the ledger: SerialSpec is what it sees.
THEOREM SingleClientLedger ==
  ASSUME \A b, c \in Clients : b = c, MaxDup = 0, MaxInterrupts = 0
  PROVE  SystemSpec => SerialSpec /\ ImplementsLedger
  <1>1. TypeOK /\ SystemTypeOK /\ SystemTypeOK' /\ Answering /\ Own /\ [SystemNext]_systemVars
          => [SerialNext]_vars
    <2> SUFFICES ASSUME TypeOK, SystemTypeOK, SystemTypeOK', Answering, Own,
                        [SystemNext]_systemVars
                 PROVE  [SerialNext]_vars
      OBVIOUS
    <2>1. dups' = 0
      BY DEF SystemTypeOK
    <2>2. ~Interrupt
      BY DEF Interrupt, TypeOK
    <2> QED BY <2>1, <2>2, OneByOneStep
  <1>2. SystemSpec => SerialSpec
    BY <1>1, InitServes, SystemFits, OwnAlways, Typing, PTL DEF SystemSpec, SerialSpec
  <1> QED BY <1>2, FilesImplementLedger, PTL
=============================================================================

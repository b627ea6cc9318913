---------------------------- MODULE MCBookSystem ----------------------------
(* Instances of BookSystem for TLC.                                        *)
EXTENDS BookSystem, TLC

MCStrings == {"", "a", "b", "1", "2", "3", "4"}
MCCatalog == <<[title |-> "a", isbn |-> "b", price |-> 2]>>
MCAtoi == [s \in MCStrings |-> CASE s = "1" -> 1 [] s = "2" -> 2 [] s = "3" -> 3
                                 [] s = "4" -> 4 [] OTHER -> 0]
MCShipped == <<Printed(1, 3), Printed(2, 1)>>

\* Everything that a datagram can be parsed into.
MCRequests ==
  [op : {"display"}, M : 0..4, X : 0..4, Z : 0..4] \cup
  [op : {"order"}, x : MCStrings, y : MCStrings, n : 0..4]
  \cup [op : {"pay"}, orderno : 0..4, amount : 0..4]
  \cup [op : {"browse", "short"}]

\* What users type: a catalogue of at most four books, a search, an order, two
\* payments, and nothing but a newline.
DisplayForm == [option |-> "1", lines |-> <<"4", "1", "3">>]
SearchForm == [option |-> "2", lines |-> <<"b">>]
OrderForm == [option |-> "3", lines |-> <<"a", "b", "1">>]
PayFirstForm == [option |-> "4", lines |-> <<"1", "3">>]
PaySecondForm == [option |-> "4", lines |-> <<"2", "3">>]
PayBlankForm == [option |-> "4", lines |-> <<"", "3">>]
NewlineForm == [option |-> "", lines |-> <<>>]

AllForms == {DisplayForm, SearchForm, OrderForm, PayFirstForm, PayBlankForm,
             NewlineForm}
PayingForms == {SearchForm, OrderForm, PayFirstForm, PaySecondForm, NewlineForm}
FileForms == {DisplayForm, OrderForm, PayFirstForm}
=============================================================================

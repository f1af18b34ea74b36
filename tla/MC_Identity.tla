----------------------------- MODULE MC_Identity -----------------------------
(* Two tasks with names that are alike when cut, or differ, or have nothing an *)
(* identifier keeps, or are the number of a pipeline or a person.             *)
EXTENDS TaskIdentity, TLC

OnePerson == {"p"}
TwoTasks == {"first", "second"}
SomeNames ==
  {<<>>, <<"a">>, <<"a", "b">>, <<"a", "~", "b">>, <<"a", "~", "c">>,
   <<"~", "a", "~", "~">>, <<"~", "~">>, <<"1">>, <<"p">>}
Decimals == [n \in Numbers |-> ToString(n)]
==============================================================================

------------------------------- MODULE MCMacros -------------------------------
(* Model-checking instances of Macros.                                     *)
EXTENDS Macros

(* Bodies: B's parameters are p and q, A has none.                         *)
ABodies == {<<"x">>, <<"x", "NL", "x">>, <<"B", "(", "x", ")">>,
            <<"A", ";">>, <<"NL", "x">>}
BBodies == {<<"p">>, <<"p", "q">>, <<"q", "NL", "p">>, <<"A", ";">>,
            <<"B", "(", "p", ")">>}
Defines ==
  {<<"define", "A", "=">> \o a \o <<"#", ",", "B", "(", "p", ",", "q", ")", "=">>
     \o b \o <<"#", ";">> : a \in ABodies, b \in BBodies}
  \cup {<<"define", "NL", "A", "=">> \o a \o <<"#">> : a \in ABodies}
  \cup {<<"define", "A", "=", "x", "#", ";", "define", "NL", "B", "=", "x", "#", ";">>,
        <<"define", "B">>}

Args == {<<>>, <<"x">>, <<"q">>, <<"A", ";">>, <<"x", "','", "p">>,
         <<"B", "(", "q", ",", "x", ")">>}
UseSites ==
  {<<"A", t>> : t \in {";", "NL", "=", "(", "x"}}
  \cup {<<"B">> \o nl \o <<"(">> \o a \o <<",">> \o b \o <<")">> :
           nl \in {<<>>, <<"NL">>}, a, b \in Args}
  \cup {<<"B", "(">> \o a \o <<")", ";">> : a \in Args}
  \cup {<<"B", ";">>, <<"B", "(", "x">>, <<"x", "define", "NL">>}

Programs == {d \o <<"NL">> \o u \o v : d \in Defines, u \in UseSites,
                                      v \in {<<>>, <<"NL", "A", ";">>}}
Imported ==
  {<<>>, <<[name |-> "A", params |-> <<>>, body |-> <<"x", "NL">>]>>}
===============================================================================

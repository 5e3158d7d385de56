------------------------------- MODULE MCTokens -------------------------------
(* Model-checking instances of Tokens.                                     *)
EXTENDS Tokens

Whole(text, means) == [text |-> text, whole |-> TRUE, means |-> means]
Piece(p) == [text |-> <<p>>, whole |-> FALSE, means |-> <<>>]

(* Statements and what the parser should see of them.                      *)
Statements ==
  {Whole(<<"w", "w", "^", "1", " ", ":", "=", "w", ";">>,
         <<"NAME", "ASSIGN", "NAME", "SEMI">>),
   Whole(<<"IF", " ", "w", " ", "THEN", " ">>, <<"IF", "NAME", "THEN">>),
   Whole(<<"ELSE", " ">>, <<"ELSE">>),
   Whole(<<"!", "w", " ", "!", ";", "nl">>, <<>>),
   Whole(<<"!", "<", ";", "!">>, <<>>),
   Whole(<<"-", "-", "ELSE", "nl">>, <<>>),
   Whole(<<"?", "w", " ", "!", "nl">>, <<"DIRECTIVE">>),
   Whole(<<"quote", ";", "!", "#", "quote", " ">>, <<"STRING_LIT">>),
   Whole(<<"w", "(", "!", "w", "(", "w", ")", "!", ",", "1", "!", "w", "!", ")">>,
         <<"NAME", "LPAREN", "NAME", "COMMA", "NUMBER", "RPAREN">>),
   Whole(<<"DEFINE", " ", "w", "=", "END", ";", "#", ";">>, <<>>),
   Whole(<<"DEFINE", " ", "w", "=", "w", "#", "nl", ";">>, <<>>),
   Whole(<<"INT", " ", "(", "32", ")", "w", ";">>, <<"TK_INT32", "NAME", "SEMI">>),
   Whole(<<"'", "S", "G", "'", "[", "1", "]">>,
         <<"PRIME", "NAME", "PRIME", "LBRACK", "NUMBER", "RBRACK">>),
   Whole(<<"PROC", " ", "BYTES", " ", "MAIN", ";">>, <<"PROC", "NAME", "MAIN", "SEMI">>),
   Whole(<<"BYTES", " ", "(", "w", ")">>, <<"NAME", "LPAREN", "NAME", "RPAREN">>),
   Whole(<<"w", "'", ":", "=", "'", "w", " ", "STEP", " ", "1", ";">>,
         <<"NAME", "MOVE_LR", "NAME", "STEP", "NUMBER", "SEMI">>),
   Whole(<<"w", "'", "=", ":", "'", "w", ";">>,
         <<"NAME", "MOVE_RL", "NAME", "SEMI">>)}

(* Pieces that meet in every order: any three, and any five of those that  *)
(* open or close something.  A reserved word is one piece, so a prime, a   *)
(* number and a "." that would take its first letters are kept apart.      *)
Pieces ==
  {"w", "1", "d", "e", "S", "G", "INT", " ", "nl", "!", "-", "(", ")", ";", "#",
   "^", "+", "quote", "'", "?", "=", ":", ".", "%", "$", "<", "~"}
Brackets == {"w", "nl", "!", "(", "quote", "'"}

Apart(s) ==
  \A k \in 2 .. Len(s) :
    s[k] = "INT" => s[k - 1] \notin {"'", "%", ".", "1"}
Joins ==
  {[k \in DOMAIN s |-> Piece(s[k])] :
     s \in {t \in UNION {[1 .. n -> Pieces] : n \in 1 .. 3} : Apart(t)}
           \cup [1 .. 5 -> Brackets]}

Programs == UNION {[1 .. n -> Statements] : n \in 1 .. 3}
Texts == Joins \cup Programs
===============================================================================

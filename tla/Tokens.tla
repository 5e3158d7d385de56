-------------------------------- MODULE Tokens --------------------------------
(***************************************************************************)
(* From source text to the parser's token stream: Lexer.tokenize of        *)
(* segmsan/lexer.py, then to_proc_body_stream and _strip_semi_before_else  *)
(* (to_program_stream).                                                    *)
(*                                                                         *)
(* Text is a sequence of pieces: one character each ("nl" is a newline,    *)
(* "quote" and "back" the double quote and the backslash), except the      *)
(* reserved words and the numerals, which are pieces of their own.  Names  *)
(* are letters and digits put together.  Tokens keep the position they     *)
(* start at, which stands for their line and column.                       *)
(***************************************************************************)
EXTENDS Naturals, SequencesExt, FiniteSetsExt

CONSTANT Sources     \* chosen texts: sequences of parts [text, whole, means]

Letters == {"w", "d", "e", "S", "G"}
Digits == {"1", "32"}
Keywords == {"DEFINE", "ELSE", "BEGIN", "END", "PROC", "SUBPROC", "IF", "THEN"}
SizedTypes == {"INT", "FIXED", "UNSIGNED", "REAL"}
TypeKeywords == SizedTypes \cup {"STRING", "EXT"}
Promoted == {"MAIN", "VARIABLE"}      \* always a keyword of the parser
Contextual == {"BYTES", "STEP"}       \* a keyword unless "(" follows
Reserved == Keywords \cup TypeKeywords \cup Promoted \cup Contextual
Alpha == Letters \cup Reserved
Alnum == Alpha \cup Digits

(* Operators, and what may follow a prime.                                 *)
Punctuation ==
  {<<<<"@">>, "AT">>, <<<<";">>, "SEMI">>, <<<<",">>, "COMMA">>,
   <<<<"(">>, "LPAREN">>, <<<<")">>, "RPAREN">>, <<<<"[">>, "LBRACK">>,
   <<<<"]">>, "RBRACK">>, <<<<"+">>, "PLUS">>, <<<<"*">>, "STAR">>,
   <<<<"/">>, "SLASH">>, <<<<"&">>, "AMP">>, <<<<"#">>, "HASH">>,
   <<<<"-">>, "MINUS">>, <<<<"-", ">">>, "ARROW">>,
   <<<<":">>, "COLON">>, <<<<":", "=">>, "ASSIGN">>, <<<<"=">>, "EQ">>,
   <<<<"<">>, "LT">>, <<<<"<", ">">>, "NEQ">>, <<<<"<", "=">>, "LE">>,
   <<<<"<", "<">>, "SHL">>, <<<<">">>, "GT">>, <<<<">", "=">>, "GE">>,
   <<<<">", ">">>, "SHR">>,
   <<<<".">>, "DOT">>, <<<<".", ".">>, "DOT_DOT">>, <<<<".", "S", "G">>, "DOT_SG">>}

Closing(text, type) == {<<text, type>>, <<Append(text, "'"), type>>}
PrimeOps ==
  (UNION {Closing(<<":", "=">>, "MOVE_LR"),
          Closing(<<"<", "<">>, "USHL"), Closing(<<">", ">">>, "USHR"),
          Closing(<<"-">>, "USUB"), Closing(<<"+">>, "UADD"),
          Closing(<<"*">>, "UMUL"), Closing(<<"/">>, "UDIV"),
          Closing(<<"back">>, "UMOD")})
  \cup {<<<<"<", ">", "'">>, "UNE">>, <<<<"<", "=", "'">>, "ULE">>,
        <<<<"<", "'">>, "ULT">>, <<<<">", "=", "'">>, "UGE">>,
        <<<<">", "'">>, "UGT">>, <<<<"=", "'">>, "UEQ">>,
        <<<<"S", "G", "'">>, "BASE">>, <<<<"S", "'">>, "BASE">>,
        <<<<"G", "'">>, "BASE">>}

VARIABLES
  parts,    \* the parts the text was put together from
  source,   \* Lexer.source
  phase,    \* "lex", "stream", "done", or "crashed": an IndexError
  pos,      \* Lexer.pos
  tokens,   \* Lexer.tokens
  errors,   \* Lexer.errors: the text each one spans
  raw,      \* to_proc_body_stream: the next token of its iterator
  prev,     \* to_proc_body_stream: prev_type
  held,     \* _strip_semi_before_else: prev
  stream    \* what the parser has been given

lexVars == <<parts, source, errors, tokens>>
streamVars == <<raw, prev, held, stream>>
vars == <<lexVars, phase, pos, streamVars>>

Text(ps) == FlattenSeq([k \in DOMAIN ps |-> ps[k].text])

(* A text is a finite sequence of pieces.                                  *)
ASSUME TokensAssumption == \A ps \in Sources : Text(ps) \in Seq(STRING)

Init ==
  /\ parts \in Sources
  /\ source = Text(parts)
  /\ phase = "lex" /\ pos = 1 /\ tokens = <<>> /\ errors = <<>>
  /\ raw = 1 /\ prev = "none" /\ held = <<>> /\ stream = <<>>

-----------------------------------------------------------------------------
(* Looking ahead in the text.  Past its end is "eos".                      *)

At(k) == IF k \in DOMAIN source THEN source[k] ELSE "eos"

(* The first position from k on whose piece is in S, or is not in S.       *)
Find(k, S) == Min({j \in k .. Len(source) : source[j] \in S} \cup {Len(source) + 1})
Past(k, S) == Min({j \in k .. Len(source) : source[j] \notin S} \cup {Len(source) + 1})
LineEnd(k) == Find(k, {"nl"})

(* The longest entry of a table that the text has at k, if it has one.     *)
Matches(k, table) ==
  {m \in table : \A n \in DOMAIN m[1] : m[1][n] = At(k + n - 1)}
Longest(ms) == CHOOSE m \in ms : \A n \in ms : Len(n[1]) <= Len(m[1])

LastType == IF tokens = <<>> THEN "none" ELSE Last(tokens).type

Token(type, to) ==
  [type |-> type, text |-> SubSeq(source, pos, to - 1), at |-> pos, to |-> to]

(* _emit, and the text up to "to" is read.                                 *)
Emit(type, to) ==
  /\ tokens' = Append(tokens, Token(type, to))
  /\ pos' = to
  /\ UNCHANGED <<parts, source, errors, phase, streamVars>>

(* Text that is read without a token, and text that is an error.           *)
Skip(to) ==
  /\ pos' = to
  /\ UNCHANGED <<lexVars, phase, streamVars>>

Reject(to) ==
  /\ errors' = Append(errors, [at |-> pos, to |-> to])
  /\ pos' = to
  /\ UNCHANGED <<parts, source, tokens, phase, streamVars>>

-----------------------------------------------------------------------------
(* Comments.                                                               *)

Count(c, from, to) == Cardinality({k \in from .. to : At(k) = c})
Balanced(k) == Count("(", pos + 1, k - 1) = Count(")", pos + 1, k - 1)

(* The "!" on this line that closes a parenthesised argument name.         *)
BangEnd ==
  Min({k \in pos + 1 .. LineEnd(pos) - 1 : At(k) = "!" /\ Balanced(k)}
        \cup {Len(source) + 1})

BangDefineAnywhere ==
  /\ At(pos + 1) \in Alpha
  /\ At(BangEnd) = "!"
  /\ \A k \in pos + 1 .. BangEnd - 1 : At(k) \in Alnum \cup {"^", "#", "(", ")"}

(* !name! right where an argument is expected stands for an argument.      *)
IsBangDefine ==
  /\ LastType \in {"LPAREN", "COMMA"}
  /\ At(pos + 1) \in Alpha
  /\ At(BangEnd) = "!"
  /\ \A k \in pos + 1 .. BangEnd - 1 : At(k) \in Alnum \cup {"^", "#", "(", ")"}

CommentEndInText ==
  LET close == Find(pos + 1, {"!", " "})
  IN  IF At(close) = "!" /\ close > pos + 1 THEN close + 1 ELSE LineEnd(pos)

(* A comment without blanks ends at its second "!", others with the line.  *)
CommentEnd ==
  LET close == Find(pos + 1, {"!", " ", "nl"})
  IN  IF At(close) = "!" /\ close > pos + 1 THEN close + 1 ELSE LineEnd(pos)

AtComment == At(pos) = "!" \/ (At(pos) = "-" /\ At(pos + 1) = "-")

SkipComment ==
  /\ phase = "lex" /\ AtComment
  /\ \/ At(pos) = "-" /\ Skip(LineEnd(pos))
     \/ At(pos) = "!" /\ ~IsBangDefine /\ Skip(CommentEnd)

LexBangDefine ==
  /\ phase = "lex" /\ At(pos) = "!" /\ IsBangDefine
  /\ tokens' = Append(tokens,
       [type |-> "IDENT", text |-> SubSeq(source, pos + 1, BangEnd - 1),
        at |-> pos, to |-> BangEnd + 1])
  /\ pos' = BangEnd + 1
  /\ UNCHANGED <<parts, source, errors, phase, streamVars>>

-----------------------------------------------------------------------------
(* The other lexemes.                                                      *)

SkipBlank == phase = "lex" /\ At(pos) \in {" ", "nl"} /\ Skip(pos + 1)

LexDirective ==
  phase = "lex" /\ At(pos) = "?" /\ Emit("DIRECTIVE", LineEnd(pos))

LexDollar ==
  /\ phase = "lex" /\ At(pos) = "$"
  /\ Emit("DOLLAR_FUNC", Past(pos + 1, Alnum \cup {"^"}))

LexString ==
  LET close == Find(pos + 1, {"quote", "nl"})
  IN  /\ phase = "lex" /\ At(pos) = "quote"
      /\ IF At(close) = "quote" THEN Emit("STRING_LIT", close + 1)
                                ELSE Reject(close)

(* A prime: an operator or a base address, else a character, else an       *)
(* error.  '=: takes the piece after it whatever it is, and fails when     *)
(* there is none.                                                          *)
LexPrime ==
  LET ops == Matches(pos + 1, PrimeOps)
      toTheLeft == At(pos + 1) = "=" /\ At(pos + 2) = ":"
  IN  /\ phase = "lex" /\ At(pos) = "'"
      /\ \/ /\ toTheLeft /\ pos + 3 <= Len(source)
            /\ Emit("MOVE_RL", pos + 4)
         \/ /\ toTheLeft /\ pos + 3 > Len(source)
            /\ phase' = "crashed"
            /\ UNCHANGED <<lexVars, pos, streamVars>>
         \/ /\ ~toTheLeft /\ ops # {}
            /\ Emit(Longest(ops)[2], pos + 1 + Len(Longest(ops)[1]))
         \/ /\ ~toTheLeft /\ ops = {}
            /\ IF At(pos + 1) = "'" THEN Emit("CHAR_LIT", pos + 2)
               ELSE IF At(pos + 1) \in {"nl", "eos"} THEN Reject(pos + 1)
               ELSE Emit("CHAR_LIT", IF At(pos + 2) = "'" THEN pos + 3 ELSE pos + 2)

(* %digits, or digits with a fraction (only before an exponent) and a      *)
(* suffix; an exponent has a sign and digits of its own.                   *)
NumberEnd ==
  IF At(pos) = "%"
  THEN LET k == Past(pos + 1, Alnum)
       IN  IF At(k) = "%" /\ At(k + 1) = "d" THEN k + 2 ELSE k
  ELSE LET whole == Past(pos, Digits)
           fraction == Past(whole + 1, Digits)
           k == IF At(whole) = "." /\ fraction > whole + 1 /\ At(fraction) = "e"
                THEN fraction ELSE whole
       IN  IF At(k) = "d" THEN k + 1
           ELSE IF At(k) # "e" THEN k
           ELSE Past(IF At(k + 1) \in {"+", "-"} THEN k + 2 ELSE k + 1, Digits)

LexNumber ==
  /\ phase = "lex" /\ At(pos) \in Digits \cup {"%"}
  /\ Emit("NUMBER", NumberEnd)

(* A word.  INT(32) and its like are one token, up to the ")" or to the    *)
(* end of the text.                                                        *)
LexWord ==
  LET to == Past(pos, Alnum \cup {"^", "#"})
      word == SubSeq(source, pos, to - 1)
      open == Past(to, {" "})
      close == Find(open, {")"})
  IN  /\ phase = "lex" /\ At(pos) \in Alpha
      /\ IF Len(word) # 1 THEN Emit("IDENT", to)
         ELSE IF word[1] \in SizedTypes /\ At(open) = "("
         THEN Emit("TYPE_KEYWORD", IF At(close) = ")" THEN close + 1 ELSE close)
         ELSE Emit(CASE word[1] \in TypeKeywords -> "TYPE_KEYWORD"
                     [] word[1] \in Keywords -> "KEYWORD"
                     [] OTHER -> "IDENT", to)

(* A caret and a word after it continue the name before it, wherever that  *)
(* ended.                                                                  *)
LexCaret ==
  LET to == Past(pos + 1, Alnum)
      name == SubSeq(source, pos, to - 1)
  IN  /\ phase = "lex" /\ At(pos) = "^"
      /\ IF to = pos + 1 THEN Emit("CARET", to)
         ELSE IF LastType # "IDENT" THEN Emit("IDENT", to)
         ELSE /\ tokens' = Append(Front(tokens),
                   [Last(tokens) EXCEPT !.text = @ \o name, !.to = to])
              /\ pos' = to
              /\ UNCHANGED <<parts, source, errors, phase, streamVars>>

(* .SG is a base only when no name goes on after it.                       *)
PunctuationAt(k) ==
  {m \in Matches(k, Punctuation) :
     m[2] = "DOT_SG" => At(k + 3) \notin Alnum \cup {"^"}}

LexPunctuation ==
  LET ops == PunctuationAt(pos)
  IN  /\ phase = "lex" /\ ~AtComment /\ ops # {}
      /\ Emit(Longest(ops)[2], pos + Len(Longest(ops)[1]))

Known == {" ", "nl", "!", "?", "$", "quote", "'", "%", "^"} \cup Alnum

LexUnknown ==
  /\ phase = "lex" /\ pos <= Len(source)
  /\ At(pos) \notin Known /\ PunctuationAt(pos) = {}
  /\ Reject(pos + 1)

EndOfText ==
  /\ phase = "lex" /\ pos > Len(source)
  /\ tokens' = Append(tokens, Token("EOF", pos))
  /\ phase' = "stream"
  /\ UNCHANGED <<parts, source, errors, pos, streamVars>>

-----------------------------------------------------------------------------
(* The parser's stream.                                                    *)

IsWord(t, w) == t.text = <<w>>
IsDefine(k) == tokens[k].type = "KEYWORD" /\ IsWord(tokens[k], "DEFINE")

Closes(t) == t.type = "HASH" \/ (t.type = "IDENT" /\ Last(t.text) = "#")
FirstToken(k, Test(_)) ==
  Min({j \in k .. Len(tokens) : Test(tokens[j])} \cup {Len(tokens)})

(* _skip_define: to the first ";" after the first "#".                     *)
AfterDefine(k) ==
  LET Ends(t) == t.type = "SEMI"
  IN  FirstToken(FirstToken(k + 1, Closes) + 1, Ends) + 1

(* What one token becomes.  Keywords are named by their word.              *)
Contextually(k) ==
  IF tokens[k + 1].type = "LPAREN" THEN "NAME" ELSE tokens[k].text[1]
Name(k) ==
  IF Len(tokens[k].text) # 1 THEN "NAME"
  ELSE IF prev \in {"PROC", "SUBPROC"} THEN "NAME"
  ELSE IF tokens[k].text[1] \in Promoted THEN tokens[k].text[1]
  ELSE IF tokens[k].text[1] \in Contextual THEN Contextually(k)
  ELSE "NAME"

(* _normalize_type                                                         *)
TypeKind(t) ==
  CASE t.text[1] = "INT" /\ "32" \in ToSet(t.text) -> "TK_INT32"
    [] t.text[1] = "EXT" -> "KW_EXT"
    [] OTHER -> "TK_" \o t.text[1]

Kinds(k) ==
  LET t == tokens[k]
  IN  CASE t.type = "KEYWORD" -> <<t.text[1]>>
        [] t.type = "TYPE_KEYWORD" -> <<TypeKind(t)>>
        [] t.type = "BASE" -> <<"PRIME", "NAME", "PRIME">>
        [] t.type = "IDENT" -> <<Name(k)>>
        [] OTHER -> <<t.type>>

(* _strip_semi_before_else keeps one token back.                           *)
Through(s, item) ==
  [out |-> IF s.held = <<>> \/ (s.held[1].kind = "SEMI" /\ item.kind = "ELSE")
           THEN s.out ELSE s.out \o s.held,
   held |-> <<item>>]

Deliver(items) ==
  LET s == FoldLeft(Through, [out |-> stream, held |-> held], items)
  IN  stream' = s.out /\ held' = s.held

SkipDefine ==
  /\ phase = "stream" /\ raw <= Len(tokens)
  /\ IsDefine(raw)
  /\ raw' = AfterDefine(raw)
  /\ UNCHANGED <<lexVars, phase, pos, prev, held, stream>>

Yield ==
  /\ phase = "stream" /\ raw <= Len(tokens)
  /\ tokens[raw].type # "EOF" /\ ~IsDefine(raw)
  /\ LET kinds == Kinds(raw)
     IN  /\ Deliver([n \in DOMAIN kinds |->
                       [kind |-> kinds[n], at |-> tokens[raw].at]])
         /\ prev' = Last(kinds)
  /\ raw' = raw + 1
  /\ UNCHANGED <<lexVars, phase, pos>>

(* The iterator is used up, or at EOF: the token kept back is given out.   *)
EndOfStream ==
  /\ phase = "stream"
  /\ raw >= Len(tokens)
  /\ stream' = stream \o held /\ held' = <<>>
  /\ phase' = "done"
  /\ UNCHANGED <<lexVars, pos, raw, prev>>

Lex == \/ SkipBlank \/ SkipComment \/ LexBangDefine \/ LexDirective
       \/ LexDollar \/ LexString \/ LexPrime \/ LexNumber \/ LexWord
       \/ LexCaret \/ LexPunctuation \/ LexUnknown \/ EndOfText
Next == Lex \/ SkipDefine \/ Yield \/ EndOfStream

Spec == Init /\ [][Next]_vars

-----------------------------------------------------------------------------
(* Safety.                                                                 *)

Covered(k) == \E n \in DOMAIN tokens : k \in tokens[n].at .. tokens[n].to - 1
Refused(k) == \E n \in DOMAIN errors : k \in errors[n].at .. errors[n].to - 1

(* No code is swallowed: whatever has been read and is no blank is in a    *)
(* token or in a reported error, or has a comment mark before it on its    *)
(* own line.  Tokens are in text order, and none goes over a line end      *)
(* except a sized type (INT ( .. )), a name continued with a caret and the *)
(* '=: that takes any piece: an unclosed string or comment costs its own   *)
(* line at most.                                                           *)
NothingSwallowed ==
  /\ \A k \in 1 .. pos - 1 :
       At(k) \in {" ", "nl"} \/ Covered(k) \/ Refused(k)
       \/ \E j \in 1 .. k : /\ \A i \in j .. k : At(i) # "nl"
                            /\ ~Covered(j) /\ ~Refused(j)
                            /\ \/ At(j) = "!"
                               \/ At(j) = "-" /\ At(j + 1) = "-"
  /\ \A m, n \in DOMAIN tokens : m < n => tokens[m].to <= tokens[n].at
  /\ \A n \in DOMAIN tokens :
       \/ tokens[n].type \in {"TYPE_KEYWORD", "MOVE_RL"}
       \/ tokens[n].type = "IDENT" /\ "^" \in ToSet(tokens[n].text)
       \/ \A k \in tokens[n].at .. tokens[n].to - 1 : At(k) # "nl"

(* The parser gets what the program says: of a text put together from      *)
(* whole statements, comments, strings and DEFINEs, exactly what each one  *)
(* means, in order, with nothing of a comment or a DEFINE, and with the    *)
(* ";" before an ELSE gone; and no error was seen.                         *)
Meaning == FlattenSeq([k \in DOMAIN parts |-> parts[k].means])
BeforeElse(ks, k) ==
  ks[k] = "SEMI" /\ k < Len(ks) /\ SubSeq(ks, k + 1, k + 1) = <<"ELSE">>

StreamFaithful ==
  phase = "done" /\ (\A k \in DOMAIN parts : parts[k].whole) =>
    /\ errors = <<>>
    /\ [k \in DOMAIN stream |-> stream[k].kind] =
         LET kept == {k \in DOMAIN Meaning : ~BeforeElse(Meaning, k)}
             Nth(n) == CHOOSE k \in kept : Cardinality({j \in kept : j <= k}) = n
         IN  [n \in 1 .. Cardinality(kept) |-> Meaning[Nth(n)]]
===============================================================================

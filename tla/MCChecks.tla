------------------------------ MODULE MCChecks -------------------------------
(* Model-checking instances of Checks.                                     *)
EXTENDS Checks

E(k, name, subs) == [k |-> k, name |-> name, subs |-> subs]
V(name) == E("var", name, <<>>)
At(e) == E("index", "a", <<e>>)
Less(e, f) == E("bin", "<", <<e, f>>)
Plus(e, f) == E("bin", "+", <<e, f>>)
Carry == E("dollar", "CARRY", <<>>)
Comp == E("dollar", "COMP", <<V("i")>>)
Self == E("call", "f", <<At(V("j"))>>)
Signed(e) == E("other", "-", <<e>>)

S(k, exprs, then, else) ==
  [k |-> k, line |-> 0,
   name |-> CASE k = "call" -> "g" [] k = "for" -> "i" [] OTHER -> "",
   exprs |-> exprs, then |-> then, else |-> else]
Simple ==
  {S("assign", <<V("i"), e>>, <<>>, <<>>) :
     e \in {V("i"), At(V("i")), At(Plus(V("i"), V("j"))), At(V("max")),
            Self, Carry, At(At(V("i"))), Signed(At(V("i")))}}
  \cup {S("assign", <<At(V("i")), V("j")>>, <<>>, <<>>), S("scan", <<At(V("i"))>>, <<>>, <<>>),
        S("return", <<At(V("i"))>>, <<>>, <<>>),
        S("call", <<Plus(At(V("i")), Self)>>, <<>>, <<>>),
        [S("call", <<>>, <<>>, <<>>) EXCEPT !.name = "f"],
        S("block", <<>>, <<S("assign", <<V("i"), Self>>, <<>>, <<>>)>>, <<>>)}
Conditions ==
  {Less(V("i"), V("max")), Less(At(V("j")), Plus(V("i"), V("j"))), Comp, Carry, Self}
Inner == {S("assign", <<V("i"), At(Plus(V("i"), V("j")))>>, <<>>, <<>>),
          S("scan", <<>>, <<>>, <<>>), S("if", <<Less(V("j"), V("i"))>>,
            <<S("assign", <<At(V("i")), At(V("j"))>>, <<>>, <<>>)>>, <<>>)}
Compound ==
  {S("if", <<c>>, <<s>>, t) : c \in Conditions, s \in Inner, t \in {<<>>} \cup {<<r>> : r \in Inner}}
  \cup {S("while", <<c>>, <<s>>, <<>>) : c \in Conditions, s \in Inner}
  \cup {S("for", <<At(V("j")), V("max")>>, <<s>>, <<>>) :
          s \in Inner \cup {S("assign", <<At(V("i")), V("j")>>, <<>>, <<>>)}}

RECURSIVE Numbered(_, _)
Numbered(stmts, n) ==   \* a line of its own for every statement
  [m \in DOMAIN stmts |->
     [stmts[m] EXCEPT !.line = 10 * n + m,
        !.then = Numbered(@, 10 * n + m), !.else = Numbered(@, 10 * n + m + 4)]]

Programs ==
  {<<s>> : s \in Simple \cup Compound}
  \cup {<<s, t>> : s, t \in Simple \cup Compound}
  \cup {<<s, t, u>> : s, t \in Simple, u \in Compound}
Long == <<S("scan", <<>>, <<>>, <<>>), S("assign", <<V("i"), V("j")>>, <<>>, <<>>),
          S("call", <<At(V("i"))>>, <<>>, <<>>), S("scan", <<>>, <<>>, <<>>),
          S("while", <<Less(V("i"), V("j"))>>, <<S("scan", <<>>, <<>>, <<>>)>>, <<>>),
          S("assign", <<At(V("j")), Carry>>, <<>>, <<>>)>>

None == [r \in ToSet(Passes) |-> <<>>]
Full ==
  [None EXCEPT
     !["storage"] = <<Warning("LOCAL_OVERFLOW", 2, "f"),
                      Warning("LOCAL_OVERFLOW", 3, "f"),
                      Warning("UNRESOLVED_TEMPLATE", 2, "t")>>,
     !["equivalence"] = <<Warning("EQUIVALENCE_CROSS_ADDRESSING", 1, "x"),
                          Warning("EQUIVALENCE_TO_IMPLICIT_PTR", 2, "y")>>,
     !["misc"] = <<Warning("MISSING_DEBUG_DIRECTIVE", 0, "main")>>,
     !["padding"] = <<Warning("PADDING_WASTE_STRUCT", 0, "s"),
                      Warning("PADDING_WASTE_STRUCT", 0, "t"),
                      Warning("PADDING_WASTE_LOCAL", 2, "f")>>,
     !["interproc"] = <<Warning("DANGLING_POINTER_STORE", 12, "p")>>,
     !["dataflow"] = <<Warning("DANGLING_POINTER_STORE", 12, "g"),
                       Warning("UNINIT_POINTER_DEREF", 11, "p")>>]
Light == [None EXCEPT !["padding"] = <<Warning("PADDING_WASTE_LOCAL", 2, "f")>>]
Crash == [Full EXCEPT !["dataflow"] = Exception]
Doubtful ==
  [None EXCEPT !["interproc"] = <<Warning("RETURN_LOCAL_ADDR", 11, "p")>>,
               !["dataflow"] = <<Warning("RETURN_LOCAL_ADDR", 11, "g")>>]

Usual == [strict |-> FALSE, padding |-> FALSE, json |-> FALSE,
          backtrace |-> FALSE, largestack |-> FALSE]
Runs ==
  {[body |-> Numbered(b, 1), others |-> None, options |-> Usual, input |-> "good"] :
     b \in Programs}
  \cup {[body |-> Numbered(b, 1), others |-> o, options |-> p, input |-> f] :
          b \in {Long, <<[S("call", <<>>, <<>>, <<>>) EXCEPT !.name = "f"]>>},
          o \in {None, Full, Light, Crash, Doubtful}, p \in Options,
          f \in Unusable \cup Uncaught \cup {"good"}}
Constants == {"max"}
==============================================================================

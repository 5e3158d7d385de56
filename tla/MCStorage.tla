------------------------------ MODULE MCStorage ------------------------------
(* Model-checking instances of Storage, with the sizes of Sizes.           *)
EXTENDS Sizes

Plain(n, t) ==
  [name |-> n, type |-> t, ind |-> "no", bounds |-> <<>>, eq |-> FALSE,
   marker |-> "", body |-> <<>>]
Num(k) == [neg |-> k < 0, named |-> FALSE, n |-> IF k < 0 THEN - k ELSE k]
MaxName == [neg |-> FALSE, named |-> TRUE, n |-> 100]
Array(d, hi) == [d EXCEPT !.bounds = <<[lo |-> <<Num(0)>>, hi |-> hi]>>]
Pointer(d) == [d EXCEPT !.ind = "std"]
ExtPointer(d) == [d EXCEPT !.ind = "ext"]
Struct(n, fields) == [Plain(n, "STRUCT") EXCEPT !.body = <<fields>>]

OneString == Struct(5, <<Plain(1, "STRING")>>)
Mixed == Struct(5, <<Plain(1, "STRING"), Plain(2, "INT"), Plain(3, "STRING")>>)
Wasteful ==
  Struct(5, <<Plain(1, "STRING"), Plain(2, "INT"), Plain(3, "STRING"), Plain(4, "INT")>>)

Declarations ==
  {Plain(1, "STRING"), Plain(1, "INT"), Plain(1, "UNSIGNED"), Plain(1, "FIXED"),
   Plain(1, "REAL"), Array(Plain(1, "STRING"), <<Num(2)>>),
   Array(Plain(2, "INT"), <<Num(31)>>), Array(Plain(2, "INT"), <<Num(126)>>),
   Array(Plain(2, "FIXED"), <<Num(63)>>), Array(Plain(2, "INT32"), <<Num(16383)>>),
   Array(Plain(2, "INT"), <<MaxName, Num(-1)>>),
   Array(Plain(2, "INT"), <<MaxName, Num(-9)>>),
   Pointer(Array(Plain(3, "INT"), <<Num(32766)>>)), Pointer(Plain(3, "STRING")),
   ExtPointer(Array(Plain(3, "INT"), <<Num(32767)>>)),
   [Array(Plain(4, "INT"), <<Num(199)>>) EXCEPT !.eq = TRUE],
   OneString, Mixed, Array(Mixed, <<Num(10)>>), Pointer(Mixed),
   [Mixed EXCEPT !.marker = "*"],
   [Plain(6, "STRUCT") EXCEPT !.marker = "t"],
   [Pointer(Plain(7, "STRUCT")) EXCEPT !.marker = "t"]}

FieldsOf(n) ==
  {Plain(n, "STRING"), Array(Plain(n, "STRING"), <<Num(2)>>), Plain(n, "INT"),
   Pointer(Plain(n, "INT")), Plain(n, "INT32"),
   Struct(n, <<Plain(1, "STRING"), Plain(2, "STRING")>>),
   Struct(n, <<Plain(1, "STRING")>>)}
Structs ==
  {Struct(9, <<a, b, c, d>>) :
     a \in FieldsOf(1), b \in FieldsOf(2), c \in FieldsOf(3), d \in FieldsOf(4)}

In(s, ds) ==
  [n \in {"GLOBAL", "LOCAL", "SUBLOCAL"} |-> IF n = s THEN ds ELSE <<>>]
Named(n, d) == [d EXCEPT !.name = n]
Texts ==
  {In("LOCAL", <<d>>) : d \in Structs}
  \cup {In(s, <<Named(1, d), Named(2, e)>>) :
          s \in {"GLOBAL", "LOCAL", "SUBLOCAL"}, d, e \in Declarations}
  \cup {In("LOCAL", <<Named(1, d), Named(2, e), Named(3, f)>>) :
          d, e, f \in Declarations}
  \cup {In("GLOBAL", <<Named(1, d), Named(2, e), Named(1, f)>>) :
          d, e, f \in {Mixed, Wasteful, OneString}}
==============================================================================

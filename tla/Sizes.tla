--------------------------------- MODULE Sizes --------------------------------
(***************************************************************************)
(* The sizes of a declaration, segmsan/ast_nodes.py over what the          *)
(* transformers make of the text: in words, with the storage rules, and in *)
(* bytes, with the layout of Storage.                                      *)
(*                                                                         *)
(* A bound is a sum of terms [neg, named, n]; a name in a bound counts as  *)
(* 0, whatever LITERAL it stands for.                                      *)
(***************************************************************************)
EXTENDS Storage

SumOf(Op(_), s) == FoldLeft(LAMBDA total, x : total + Op(x), 0, s)
Term(t) == IF t.named THEN 0 ELSE IF t.neg THEN - t.n ELSE t.n
BoundValue(b) == SumOf(Term, b)
Elements(d) ==
  IF d.bounds = <<>> THEN 1
  ELSE BoundValue(d.bounds[1].hi) - BoundValue(d.bounds[1].lo) + 1

DirectFields(d) == SelectSeq(Fields(d), Direct)

Words(type) ==
  CASE type \in {"INT", "STRING", "PROC", "UNSIGNED"} -> 1
    [] type \in {"INT32", "REAL"} -> 2
    [] type \in {"REAL64", "FIXED"} -> 4

RECURSIVE SizeInWords(_)

(* Variant: the elements of an array of structures are not counted.        *)
DataWordsOfOne(d) ==
  IF d.type = "STRUCT" THEN SumOf(SizeInWords, DirectFields(d))
  ELSE Elements(d) * Words(d.type)

DataWords(d) ==
  Elements(d) * (IF d.type = "STRUCT" THEN SumOf(SizeInWords, DirectFields(d))
                                      ELSE Words(d.type))
SizeInWords(d) ==
  CASE IsTemplate(d) -> 0
    [] ~IsTemplate(d) /\ ~Direct(d) -> PointerWords(d)
    [] OTHER -> DataWords(d)

DataSize(d) == IF IsTemplate(d) THEN 0 ELSE DataWords(d)

RECURSIVE SizeInBytes(_)
BaseByteSize(d) ==
  IF d.type = "STRING" THEN 1
  ELSE IF d.type # "STRUCT" THEN 2 * Words(d.type)
  ELSE FoldLeft(LAMBDA total, f : AlignOffset(total, Alignment(f)) + SizeInBytes(f),
                0, DirectFields(d))
SizeInBytes(d) ==
  IF Direct(d) THEN Elements(d) * BaseByteSize(d) ELSE 2 * PointerWords(d)

-----------------------------------------------------------------------------
(* Safety.                                                                 *)

RECURSIVE Everything(_)
Everything(ds) ==
  ToSet(ds) \cup UNION {Everything(Fields(d)) : d \in ToSet(ds)}

(* The two sizes of one declaration, computed apart, fit: with no array of *)
(* less than no elements in it, it takes no words away, and its bytes, the *)
(* padding between its fields among them, are no more than its words hold. *)
(* With it OverflowsAgree and LayoutFits hold of every such program.       *)
SizesFit ==
  \A n \in DOMAIN Scopes :
    LET ds == program[Scopes[n]]
    IN  (\A d \in Everything(ds) : Elements(d) >= 0) =>
          /\ NoneTakesAway(ds)
          /\ (\A d \in Everything(ds) : ~IsTemplate(d)) =>
                \A d \in ToSet(ds) : InItsWords(d)
===============================================================================

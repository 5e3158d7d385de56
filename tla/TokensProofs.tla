----------------------------- MODULE TokensProofs -----------------------------
(***************************************************************************)
(* Proofs about Tokens: whatever the text, the lexer swallows nothing.     *)
(*                                                                         *)
(* NothingSwallowed is not inductive by itself: that a comment keeps its   *)
(* mark needs that tokens and errors end where the lexer stands.           *)
(***************************************************************************)
EXTENDS Tokens, SequenceTheorems, WellFoundedInduction, TLAPS

(* A finite sequence of whatever.                                          *)
IsSequence(s) == s \in Seq(Range(s))

PieceOf(src, k) == IF k \in 1 .. Len(src) THEN src[k] ELSE "eos"

(* Position k is in the span of an item, a token or an error.              *)
Spanned(items, k) ==
  \E n \in 1 .. Len(items) : items[n].at <= k /\ k < items[n].to

(* A comment mark on the line of position k, before it.                    *)
Marked(src, toks, errs, k) ==
  \E j \in 1 .. k :
    /\ \A i \in j .. k : PieceOf(src, i) # "nl"
    /\ ~Spanned(toks, j) /\ ~Spanned(errs, j)
    /\ \/ PieceOf(src, j) = "!"
       \/ PieceOf(src, j) = "-" /\ PieceOf(src, j + 1) = "-"

Accounted(src, toks, errs, k) ==
  \/ PieceOf(src, k) \in {" ", "nl"}
  \/ Spanned(toks, k) \/ Spanned(errs, k)
  \/ Marked(src, toks, errs, k)

(* Items end before the position.                                          *)
Behind(items, p) ==
  \A n \in 1 .. Len(items) :
    /\ items[n].at \in Nat /\ items[n].to \in Nat
    /\ 1 <= items[n].at /\ items[n].at <= items[n].to /\ items[n].to <= p

OnOneLine(src, from, to) == \A k \in from .. to - 1 : PieceOf(src, k) # "nl"

MayBreak(t) ==
  \/ t.type \in {"TYPE_KEYWORD", "MOVE_RL"}
  \/ t.type = "IDENT" /\ "^" \in ToSet(t.text)

(* Blanks, or a comment that begins at p and ends with its line at most.   *)
Skippable(src, p, q) ==
  \A k \in p .. q - 1 :
    \/ PieceOf(src, k) \in {" ", "nl"}
    \/ /\ \A i \in p .. k : PieceOf(src, i) # "nl"
       /\ \/ PieceOf(src, p) = "!"
          \/ PieceOf(src, p) = "-" /\ PieceOf(src, p + 1) = "-"

LexType ==
  /\ source \in Seq(STRING)
  /\ pos \in Nat /\ pos >= 1
  /\ IsSequence(tokens) /\ IsSequence(errors)

SpansInv == Behind(tokens, pos) /\ Behind(errors, pos)

OrderInv ==
  \A m, n \in 1 .. Len(tokens) : m < n => tokens[m].to <= tokens[n].at

LinesInv ==
  \A n \in 1 .. Len(tokens) :
    MayBreak(tokens[n]) \/ OnOneLine(source, tokens[n].at, tokens[n].to)

ReadInv == \A k \in 1 .. pos - 1 : Accounted(source, tokens, errors, k)

(* Tokens are records with a text, so that a name can be continued.        *)
IsToken(t) ==
  /\ t = [type |-> t.type, text |-> t.text, at |-> t.at, to |-> t.to]
  /\ t.text \in Seq(STRING)

TextsInv == \A n \in 1 .. Len(tokens) : IsToken(tokens[n])

LexInv == LexType /\ SpansInv /\ OrderInv /\ LinesInv /\ ReadInv /\ TextsInv

-----------------------------------------------------------------------------
(***************************************************************************)
(* Sequences.                                                              *)
(***************************************************************************)

LEMMA AppendItem ==
  ASSUME NEW s, NEW x, IsSequence(s)
  PROVE  /\ IsSequence(Append(s, x))
         /\ Len(s) \in Nat /\ Len(Append(s, x)) = Len(s) + 1
         /\ Append(s, x)[Len(s) + 1] = x
         /\ \A n \in 1 .. Len(s) : Append(s, x)[n] = s[n]
<1> DEFINE T == Range(s) \cup {x}
           a == Append(s, x)
<1>1. s \in Seq(Range(s)) /\ Len(s) \in Nat /\ DOMAIN s = 1 .. Len(s)
  BY LenProperties DEF IsSequence
<1>2. s \in Seq(T) /\ x \in T
  <2>1. \A n \in 1 .. Len(s) : s[n] \in T
    BY <1>1, ElementOfSeq
  <2> HIDE DEF T
  <2>2. s \in Seq(T)
    BY <1>1, <2>1, SeqDef
  <2> QED
    BY <2>2 DEF T
<1> HIDE DEF T
<1>3. /\ a \in Seq(T) /\ Len(a) = Len(s) + 1 /\ a[Len(s) + 1] = x
      /\ \A n \in 1 .. Len(s) : a[n] = s[n]
  BY <1>2, AppendProperties
<1> HIDE DEF a
<1>4. DOMAIN a = 1 .. (Len(s) + 1) /\ Len(a) \in Nat /\ DOMAIN a = 1 .. Len(a)
  BY <1>3, LenProperties
<1>5. \A n \in 1 .. Len(a) : a[n] \in Range(a)
  BY <1>4 DEF Range
<1>6. a \in Seq(Range(a))
  BY <1>3, <1>4, <1>5, SeqDef
<1> QED
  BY <1>1, <1>3, <1>6 DEF IsSequence, a

(* The last item gives way to another.                                     *)
LEMMA ReplaceItem ==
  ASSUME NEW s, NEW x, IsSequence(s), Len(s) >= 1
  PROVE  /\ IsSequence(Append(Front(s), x))
         /\ Len(s) \in Nat /\ Len(Append(Front(s), x)) = Len(s)
         /\ Append(Front(s), x)[Len(s)] = x
         /\ \A n \in 1 .. Len(s) : n # Len(s) => Append(Front(s), x)[n] = s[n]
<1> DEFINE m == Len(s) - 1
           f == SubSeq(s, 1, m)
<1>1. s \in Seq(Range(s)) /\ Len(s) \in Nat
  BY LenProperties DEF IsSequence
<1>2. \A n \in 1 .. Len(s) : s[n] \in Range(s)
  BY <1>1, ElementOfSeq
<1>3. m \in Int /\ m >= 0 /\ Len(s) = m + 1
  BY <1>1
<1> HIDE DEF m
<1>4. \A n \in 1 .. m : s[n] \in Range(s)
  BY <1>2, <1>3
<1>5. /\ f \in Seq(Range(s))
      /\ Len(f) = IF 1 <= m THEN m - 1 + 1 ELSE 0
      /\ \A n \in 1 .. m - 1 + 1 : f[n] = s[1 + n - 1]
  BY <1>3, <1>4, SubSeqProperties
<1> HIDE DEF f
<1>6. (IF 1 <= m THEN m - 1 + 1 ELSE 0) = m /\ m - 1 + 1 = m
      /\ \A n \in 1 .. m : 1 + n - 1 = n
  BY <1>3
<1>7. Len(f) = m /\ \A n \in 1 .. m : f[n] = s[n]
  BY <1>5, <1>6
<1>8. IsSequence(f)
  <2>1. DOMAIN f = 1 .. Len(f) /\ Len(f) \in Nat
    BY <1>5, LenProperties
  <2>2. \A n \in 1 .. Len(f) : f[n] \in Range(f)
    BY <2>1 DEF Range
  <2> QED
    BY <1>5, <2>1, <2>2, SeqDef DEF IsSequence
<1>9. /\ IsSequence(Append(f, x)) /\ Len(Append(f, x)) = m + 1
      /\ Append(f, x)[m + 1] = x
      /\ \A n \in 1 .. m : Append(f, x)[n] = f[n]
  BY <1>7, <1>8, AppendItem
<1>10. Front(s) = f
  BY DEF Front, f, m
<1>11. \A n \in 1 .. m + 1 : n # m + 1 => n \in 1 .. m
  BY <1>3
<1> QED
  BY <1>1, <1>3, <1>7, <1>9, <1>10, <1>11

-----------------------------------------------------------------------------
(***************************************************************************)
(* What a step does to the invariant: it emits a token, rejects some text, *)
(* or skips it.                                                            *)
(***************************************************************************)

(* One more item takes nothing away from an account.                       *)
LEMMA AccountKept ==
  ASSUME NEW src, NEW T, NEW T2, NEW E, NEW E2, NEW p \in Nat, NEW k \in 1 .. p - 1,
         Accounted(src, T, E, k),
         \A j \in 1 .. p - 1 : Spanned(T2, j) <=> Spanned(T, j),
         \A j \in 1 .. p - 1 : Spanned(E2, j) <=> Spanned(E, j)
  PROVE  Accounted(src, T2, E2, k)
<1>1. \A j \in 1 .. k : j \in 1 .. p - 1
  OBVIOUS
<1> QED
  BY <1>1 DEF Accounted, Marked

(* An item from p to q, behind the others.                                 *)
LEMMA NewItem ==
  ASSUME NEW T, NEW x, NEW p \in Nat, NEW q \in Nat, p >= 1, q >= p,
         IsSequence(T), Behind(T, p), x.at = p, x.to = q
  PROVE  /\ IsSequence(Append(T, x)) /\ Behind(Append(T, x), q)
         /\ Len(Append(T, x)) = Len(T) + 1 /\ Append(T, x)[Len(T) + 1] = x
         /\ \A n \in 1 .. Len(T) : Append(T, x)[n] = T[n]
         /\ \A j \in 1 .. p - 1 : Spanned(Append(T, x), j) <=> Spanned(T, j)
         /\ \A j \in p .. q - 1 : Spanned(Append(T, x), j)
<1> DEFINE U == Append(T, x)
           m == Len(T)
<1>1. /\ IsSequence(U) /\ m \in Nat /\ Len(U) = m + 1 /\ U[m + 1] = x
      /\ \A n \in 1 .. m : U[n] = T[n]
  BY AppendItem
<1> HIDE DEF U
<1>2. \A n \in 1 .. m + 1 : n \in 1 .. m \/ n = m + 1
  BY <1>1
<1>3. \A n \in 1 .. m : n \in 1 .. m + 1
  BY <1>1
<1>4. m + 1 \in 1 .. m + 1
  BY <1>1
<1> HIDE DEF m
<1>5. Behind(U, q)
  <2>1. \A n \in 1 .. m : /\ T[n].at \in Nat /\ T[n].to \in Nat
                          /\ 1 <= T[n].at /\ T[n].at <= T[n].to /\ T[n].to <= p
    BY DEF Behind, m
  <2>2. \A n \in 1 .. m : T[n].to <= q
    BY <2>1
  <2> QED
    BY <1>1, <1>2, <2>1, <2>2 DEF Behind
<1>6. \A j : Spanned(U, j) <=> Spanned(T, j) \/ (p <= j /\ j < q)
  BY <1>1, <1>2, <1>3, <1>4 DEF Spanned, m
<1>7. \A j \in 1 .. p - 1 : ~(p <= j)
  OBVIOUS
<1>8. \A j \in p .. q - 1 : p <= j /\ j < q
  OBVIOUS
<1> QED
  BY <1>1, <1>5, <1>6, <1>7, <1>8 DEF U, m

(* What has not been read is spanned by nothing.                           *)
LEMMA NotSpanned ==
  ASSUME NEW T, NEW p \in Nat, Behind(T, p)
  PROVE  ~Spanned(T, p)
BY DEF Behind, Spanned

LEMMA EmitKeeps ==
  ASSUME LexInv, NEW x, NEW to \in Nat, to >= pos,
         IsToken(x), x.at = pos, x.to = to,
         MayBreak(x) \/ OnOneLine(source, pos, to),
         tokens' = Append(tokens, x), pos' = to, UNCHANGED <<source, errors>>
  PROVE  LexInv'
<1>0. LexType /\ SpansInv /\ OrderInv /\ LinesInv /\ ReadInv /\ TextsInv
  BY DEF LexInv
<1>1. pos \in Nat /\ pos >= 1 /\ IsSequence(tokens) /\ IsSequence(errors)
      /\ Behind(tokens, pos) /\ Behind(errors, pos)
  BY <1>0 DEF LexType, SpansInv
<1> DEFINE m == Len(tokens)
<1>2. /\ IsSequence(tokens') /\ Behind(tokens', to)
      /\ Len(tokens') = m + 1 /\ tokens'[m + 1] = x
      /\ \A n \in 1 .. m : tokens'[n] = tokens[n]
      /\ \A j \in 1 .. pos - 1 : Spanned(tokens', j) <=> Spanned(tokens, j)
      /\ \A j \in pos .. to - 1 : Spanned(tokens', j)
  BY <1>1, NewItem
<1>3. m \in Nat
  BY <1>1, AppendItem
<1> HIDE DEF m
<1>4. \A n \in 1 .. m + 1 : n \in 1 .. m \/ n = m + 1
  BY <1>3
<1>5. LexType' /\ SpansInv'
  <2>1. Behind(errors, to)
    BY <1>1 DEF Behind
  <2>2. to >= 1
    BY <1>1
  <2> QED
    BY <1>0, <1>2, <2>1, <2>2 DEF LexType, SpansInv
<1>6. OrderInv'
  <2> SUFFICES ASSUME NEW i \in 1 .. m + 1, NEW j \in 1 .. m + 1, i < j
               PROVE  tokens'[i].to <= tokens'[j].at
    BY <1>2 DEF OrderInv
  <2>1. i \in 1 .. m
    BY <1>3
  <2>2. CASE j \in 1 .. m
    BY <1>0, <1>2, <2>1, <2>2 DEF OrderInv, m
  <2>3. CASE j = m + 1
    BY <1>1, <1>2, <2>1, <2>3 DEF Behind, m
  <2> QED
    BY <1>4, <2>2, <2>3
<1>7. LinesInv'
  BY <1>0, <1>2, <1>4 DEF LinesInv, m
<1>8. ReadInv'
  <2> SUFFICES ASSUME NEW k \in 1 .. to - 1
               PROVE  Accounted(source, tokens', errors, k)
    BY DEF ReadInv
  <2>1. CASE k \in 1 .. pos - 1
    BY <1>0, <1>1, <1>2, <2>1, AccountKept DEF ReadInv
  <2>2. CASE k \notin 1 .. pos - 1
    <3>1. k \in pos .. to - 1
      BY <1>1, <2>2
    <3> QED
      BY <1>2, <3>1 DEF Accounted
  <2> QED
    BY <2>1, <2>2
<1>9. TextsInv'
  BY <1>0, <1>2, <1>4 DEF TextsInv, m
<1> QED
  BY <1>5, <1>6, <1>7, <1>8, <1>9 DEF LexInv

LEMMA RejectKeeps ==
  ASSUME LexInv, NEW x, NEW to \in Nat, to >= pos, x.at = pos, x.to = to,
         errors' = Append(errors, x), pos' = to, UNCHANGED <<source, tokens>>
  PROVE  LexInv'
<1>0. LexType /\ SpansInv /\ OrderInv /\ LinesInv /\ ReadInv /\ TextsInv
  BY DEF LexInv
<1>1. pos \in Nat /\ pos >= 1 /\ IsSequence(tokens) /\ IsSequence(errors)
      /\ Behind(tokens, pos) /\ Behind(errors, pos)
  BY <1>0 DEF LexType, SpansInv
<1>2. /\ IsSequence(errors') /\ Behind(errors', to)
      /\ \A j \in 1 .. pos - 1 : Spanned(errors', j) <=> Spanned(errors, j)
      /\ \A j \in pos .. to - 1 : Spanned(errors', j)
  BY <1>1, NewItem
<1>3. LexType' /\ SpansInv'
  <2>1. Behind(tokens, to)
    BY <1>1 DEF Behind
  <2>2. to >= 1
    BY <1>1
  <2> QED
    BY <1>0, <1>2, <2>1, <2>2 DEF LexType, SpansInv
<1>4. OrderInv' /\ LinesInv' /\ TextsInv'
  BY <1>0 DEF OrderInv, LinesInv, TextsInv
<1>5. ReadInv'
  <2> SUFFICES ASSUME NEW k \in 1 .. to - 1
               PROVE  Accounted(source, tokens, errors', k)
    BY DEF ReadInv
  <2>1. CASE k \in 1 .. pos - 1
    BY <1>0, <1>1, <1>2, <2>1, AccountKept DEF ReadInv
  <2>2. CASE k \notin 1 .. pos - 1
    <3>1. k \in pos .. to - 1
      BY <1>1, <2>2
    <3> QED
      BY <1>2, <3>1 DEF Accounted
  <2> QED
    BY <2>1, <2>2
<1> QED
  BY <1>3, <1>4, <1>5 DEF LexInv

LEMMA SkipKeeps ==
  ASSUME LexInv, NEW to \in Nat, to >= pos,
         Skippable(source, pos, to),
         pos' = to, UNCHANGED <<source, tokens, errors>>
  PROVE  LexInv'
<1>0. LexType /\ SpansInv /\ OrderInv /\ LinesInv /\ ReadInv /\ TextsInv
  BY DEF LexInv
<1>1. pos \in Nat /\ pos >= 1 /\ Behind(tokens, pos) /\ Behind(errors, pos)
  BY <1>0 DEF LexType, SpansInv
<1>2. LexType' /\ SpansInv'
  <2>1. Behind(tokens, to) /\ Behind(errors, to)
    BY <1>1 DEF Behind
  <2>2. to >= 1
    BY <1>1
  <2> QED
    BY <1>0, <2>1, <2>2 DEF LexType, SpansInv
<1>3. OrderInv' /\ LinesInv' /\ TextsInv'
  BY <1>0 DEF OrderInv, LinesInv, TextsInv
<1>4. ReadInv'
  <2> SUFFICES ASSUME NEW k \in 1 .. to - 1
               PROVE  Accounted(source, tokens, errors, k)
    BY DEF ReadInv
  <2>1. CASE k \in 1 .. pos - 1
    BY <1>0, <2>1 DEF ReadInv
  <2>2. CASE k \notin 1 .. pos - 1
    <3>1. k \in pos .. to - 1 /\ pos \in 1 .. k
      BY <1>1, <2>2
    <3>2. ~Spanned(tokens, pos) /\ ~Spanned(errors, pos)
      BY <1>1, NotSpanned
    <3> QED
      BY <3>1, <3>2 DEF Accounted, Marked, Skippable
  <2> QED
    BY <2>1, <2>2
<1> QED
  BY <1>2, <1>3, <1>4 DEF LexInv

(* The last token goes on up to a later position.                          *)
LEMMA ContinueKeeps ==
  ASSUME LexInv, NEW y, NEW to \in Nat, to >= pos, Len(tokens) >= 1,
         IsToken(y), y.at = tokens[Len(tokens)].at, y.to = to, MayBreak(y),
         tokens' = Append(Front(tokens), y), pos' = to, UNCHANGED <<source, errors>>
  PROVE  LexInv'
<1> DEFINE m == Len(tokens)
           a == tokens[m].at
<1>0. LexType /\ SpansInv /\ OrderInv /\ LinesInv /\ ReadInv /\ TextsInv
  BY DEF LexInv
<1>1. pos \in Nat /\ pos >= 1 /\ IsSequence(tokens) /\ IsSequence(errors)
      /\ Behind(tokens, pos) /\ Behind(errors, pos)
  BY <1>0 DEF LexType, SpansInv
<1>2. /\ IsSequence(tokens') /\ m \in Nat /\ Len(tokens') = m
      /\ tokens'[m] = y
      /\ \A n \in 1 .. m : n # m => tokens'[n] = tokens[n]
  BY <1>1, ReplaceItem
<1>3. m >= 1 /\ m \in 1 .. m
  BY <1>2
<1>4. a \in Nat /\ 1 <= a /\ a <= tokens[m].to /\ tokens[m].to <= pos
      /\ tokens[m].to \in Nat
  BY <1>1, <1>3 DEF Behind
<1>5. y.at = a /\ y.to = to /\ a <= to
  BY <1>1, <1>4
<1> HIDE DEF m
<1>6. Behind(tokens', to) /\ Behind(errors, to)
  <2>1. Behind(errors, to)
    BY <1>1 DEF Behind
  <2>2. ASSUME NEW n \in 1 .. m
        PROVE  /\ tokens'[n].at \in Nat /\ tokens'[n].to \in Nat
               /\ 1 <= tokens'[n].at /\ tokens'[n].at <= tokens'[n].to
               /\ tokens'[n].to <= to
    <3>1. CASE n = m
      BY <1>2, <1>4, <1>5, <3>1
    <3>2. CASE n # m
      <4>1. /\ tokens[n].at \in Nat /\ tokens[n].to \in Nat
            /\ 1 <= tokens[n].at /\ tokens[n].at <= tokens[n].to
            /\ tokens[n].to <= pos
        BY <1>1 DEF Behind, m
      <4>2. tokens[n].to <= to
        BY <1>1, <4>1
      <4> QED
        BY <1>2, <3>2, <4>1, <4>2
    <3> QED
      BY <3>1, <3>2
  <2> QED
    BY <1>2, <2>1, <2>2 DEF Behind
<1>7. LexType' /\ SpansInv'
  <2>1. to >= 1
    BY <1>1
  <2> QED
    BY <1>0, <1>2, <1>6, <2>1 DEF LexType, SpansInv
<1>8. OrderInv'
  <2> SUFFICES ASSUME NEW i \in 1 .. m, NEW j \in 1 .. m, i < j
               PROVE  tokens'[i].to <= tokens'[j].at
    BY <1>2 DEF OrderInv
  <2>1. i # m /\ tokens'[i] = tokens[i]
    BY <1>2
  <2>2. tokens[i].to <= tokens[j].at
    BY <1>0 DEF OrderInv, m
  <2>3. tokens'[j].at = tokens[j].at
    BY <1>2, <1>5
  <2> QED
    BY <2>1, <2>2, <2>3
<1>9. LinesInv'
  <2> SUFFICES ASSUME NEW n \in 1 .. m
               PROVE  MayBreak(tokens'[n])
                        \/ OnOneLine(source, tokens'[n].at, tokens'[n].to)
    BY <1>2 DEF LinesInv
  <2>1. CASE n = m
    BY <1>2, <2>1
  <2>2. CASE n # m
    BY <1>0, <1>2, <2>2 DEF LinesInv, m
  <2> QED
    BY <2>1, <2>2
<1> HIDE DEF a
<1>10. \A j \in Nat : j < a => (Spanned(tokens', j) <=> Spanned(tokens, j))
  <2> SUFFICES ASSUME NEW j \in Nat, j < a
               PROVE  Spanned(tokens', j) <=> Spanned(tokens, j)
    OBVIOUS
  <2>1. ~(tokens'[m].at <= j) /\ ~(tokens[m].at <= j)
    BY <1>2, <1>4, <1>5 DEF a
  <2>2. ASSUME NEW n \in 1 .. m
        PROVE  (tokens'[n].at <= j /\ j < tokens'[n].to)
                  <=> (tokens[n].at <= j /\ j < tokens[n].to)
    <3>1. CASE n = m
      BY <2>1, <3>1
    <3>2. CASE n # m
      BY <1>2, <3>2
    <3> QED
      BY <3>1, <3>2
  <2> QED
    BY <1>2, <2>2 DEF Spanned, m
<1>11. \A j \in Nat : a <= j /\ j < to => Spanned(tokens', j)
  BY <1>2, <1>3, <1>5 DEF Spanned
<1>12. ReadInv'
  <2> SUFFICES ASSUME NEW k \in 1 .. to - 1
               PROVE  Accounted(source, tokens', errors, k)
    BY DEF ReadInv
  <2>1. k \in Nat /\ k >= 1 /\ k < to
    OBVIOUS
  <2>2. CASE k < a
    <3>1. k \in 1 .. pos - 1 /\ k \in 1 .. a - 1
      BY <1>1, <1>4, <2>1, <2>2
    <3>2. Accounted(source, tokens, errors, k)
      BY <1>0, <3>1 DEF ReadInv
    <3>3. \A j \in 1 .. a - 1 : Spanned(tokens', j) <=> Spanned(tokens, j)
      BY <1>4, <1>10
    <3> QED
      BY <1>4, <3>1, <3>2, <3>3, AccountKept
  <2>3. CASE ~(k < a)
    <3>1. a <= k
      BY <1>4, <2>1, <2>3
    <3> QED
      BY <1>11, <2>1, <3>1 DEF Accounted
  <2> QED
    BY <2>2, <2>3
<1>13. TextsInv'
  <2> SUFFICES ASSUME NEW n \in 1 .. m
               PROVE  IsToken(tokens'[n])
    BY <1>2 DEF TextsInv
  <2> QED
    BY <1>0, <1>2 DEF TextsInv, m
<1> QED
  BY <1>7, <1>8, <1>9, <1>12, <1>13 DEF LexInv

-----------------------------------------------------------------------------
(***************************************************************************)
(* Looking ahead.                                                          *)
(***************************************************************************)

LEMMA LeastNat ==
  ASSUME NEW S \in SUBSET Nat, S # {}
  PROVE  \E x \in S : \A y \in S : x <= y
<1>1. PICK x \in S : \A y \in S : <<y, x>> \notin OpToRel(<, Nat)
  <2> DEFINE R == OpToRel(<, Nat)
  <2>1. IsWellFoundedOn(R, Nat)
    BY NatLessThanWellFounded
  <2> HIDE DEF R
  <2>2. \E x \in S : \A y \in S : <<y, x>> \notin R
    BY <2>1, WFMin
  <2> QED
    BY <2>2 DEF R
<1>2. \A y \in S : ~(y < x)
  BY <1>1 DEF OpToRel
<1> QED
  BY <1>2

(* The first position with a property, or the one behind the text.         *)
LEMMA FirstFacts ==
  ASSUME NEW L \in Nat, NEW k \in 1 .. L + 1, NEW P \in SUBSET (k .. L)
  PROVE  /\ Min(P \cup {L + 1}) \in k .. L + 1
         /\ \A j \in k .. Min(P \cup {L + 1}) - 1 : j \in 1 .. L /\ j \notin P
         /\ Min(P \cup {L + 1}) <= L => Min(P \cup {L + 1}) \in P
<1> DEFINE S == P \cup {L + 1}
<1>1. S \in SUBSET Nat /\ S # {} /\ S \subseteq k .. L + 1
  OBVIOUS
<1>2. \E x \in S : \A y \in S : x <= y
  <2> HIDE DEF S
  <2> QED
    BY <1>1, LeastNat
<1> DEFINE m == Min(S)
<1>3. m \in S /\ \A y \in S : m <= y
  BY <1>2 DEF Min
<1> HIDE DEF m
<1>4. m \in k .. L + 1
  BY <1>1, <1>3
<1>5. ASSUME NEW j \in k .. m - 1 PROVE j \in 1 .. L /\ j \notin P
  <2>1. j \in 1 .. L
    BY <1>4
  <2>2. ~(m <= j)
    BY <1>4
  <2> QED
    BY <1>3, <2>1, <2>2
<1>6. m <= L => m \in P
  BY <1>3, <1>4
<1> QED
  BY <1>4, <1>5, <1>6 DEF m

LEMMA AtFacts ==
  ASSUME source \in Seq(STRING)
  PROVE  /\ Len(source) \in Nat
         /\ \A k : At(k) = PieceOf(source, k)
         /\ \A k \in 1 .. Len(source) : At(k) = source[k]
         /\ \A k : At(k) # "eos" => k \in 1 .. Len(source)
<1>1. Len(source) \in Nat /\ DOMAIN source = 1 .. Len(source)
  BY LenProperties
<1> QED
  BY <1>1 DEF At, PieceOf

LEMMA FindFacts ==
  ASSUME source \in Seq(STRING), NEW S, NEW k \in 1 .. Len(source) + 1
  PROVE  /\ Find(k, S) \in k .. Len(source) + 1
         /\ \A j \in k .. Find(k, S) - 1 : j \in 1 .. Len(source) /\ At(j) \notin S
<1> DEFINE L == Len(source)
           P == {j \in k .. L : source[j] \in S}
<1>1. L \in Nat /\ P \in SUBSET (k .. L) /\ k \in 1 .. L + 1
  BY AtFacts
<1> DEFINE m == Min(P \cup {L + 1})
<1>2. m = Find(k, S)
  BY DEF Find
<1> HIDE DEF L, P
<1>3. m \in k .. L + 1 /\ \A j \in k .. m - 1 : j \in 1 .. L /\ j \notin P
  BY <1>1, FirstFacts
<1> HIDE DEF m
<1>4. ASSUME NEW j \in k .. m - 1 PROVE j \in 1 .. L /\ At(j) \notin S
  <2>1. j \in 1 .. L /\ j \notin P
    BY <1>3
  <2>2. j \in k .. L
    BY <2>1, <1>1, <1>3
  <2> QED
    BY <2>1, <2>2, AtFacts DEF P, L
<1> QED
  BY <1>2, <1>3, <1>4 DEF L

LEMMA PastFacts ==
  ASSUME source \in Seq(STRING), NEW S, NEW k \in 1 .. Len(source) + 1
  PROVE  /\ Past(k, S) \in k .. Len(source) + 1
         /\ \A j \in k .. Past(k, S) - 1 : j \in 1 .. Len(source) /\ At(j) \in S
<1> DEFINE L == Len(source)
           P == {j \in k .. L : source[j] \notin S}
<1>1. L \in Nat /\ P \in SUBSET (k .. L) /\ k \in 1 .. L + 1
  BY AtFacts
<1> DEFINE m == Min(P \cup {L + 1})
<1>2. m = Past(k, S)
  BY DEF Past
<1> HIDE DEF L, P
<1>3. m \in k .. L + 1 /\ \A j \in k .. m - 1 : j \in 1 .. L /\ j \notin P
  BY <1>1, FirstFacts
<1> HIDE DEF m
<1>4. ASSUME NEW j \in k .. m - 1 PROVE j \in 1 .. L /\ At(j) \in S
  <2>1. j \in 1 .. L /\ j \notin P
    BY <1>3
  <2>2. j \in k .. L
    BY <2>1, <1>1, <1>3
  <2> QED
    BY <2>1, <2>2, AtFacts DEF P, L
<1> QED
  BY <1>2, <1>3, <1>4 DEF L

(* A span whose pieces are no newlines.                                    *)
LEMMA ClearOfFind ==
  ASSUME source \in Seq(STRING), NEW S, "nl" \in S, NEW k \in 1 .. Len(source) + 1
  PROVE  OnOneLine(source, k, Find(k, S))
BY FindFacts, AtFacts DEF OnOneLine

LEMMA ClearOfPast ==
  ASSUME source \in Seq(STRING), NEW S, "nl" \notin S, NEW k \in 1 .. Len(source) + 1
  PROVE  OnOneLine(source, k, Past(k, S))
BY PastFacts, AtFacts DEF OnOneLine

(* Spans put together.                                                     *)
LEMMA OneLineJoin ==
  ASSUME NEW s, NEW a \in Nat, NEW b \in Nat, NEW c \in Nat, a <= b, b <= c,
         OnOneLine(s, a, b), OnOneLine(s, b, c)
  PROVE  OnOneLine(s, a, c)
<1>1. \A k \in a .. c - 1 : k \in a .. b - 1 \/ k \in b .. c - 1
  OBVIOUS
<1> QED
  BY <1>1 DEF OnOneLine

LEMMA OneLinePiece ==
  ASSUME source \in Seq(STRING), NEW k \in Nat, At(k) # "nl"
  PROVE  OnOneLine(source, k, k + 1)
<1>1. \A j \in k .. (k + 1) - 1 : j = k
  OBVIOUS
<1> QED
  BY <1>1, AtFacts DEF OnOneLine

-----------------------------------------------------------------------------
(***************************************************************************)
(* The lexemes.                                                            *)
(***************************************************************************)

LEMMA Alphabet ==
  /\ "nl" \notin Alnum /\ "eos" \notin Alnum
  /\ "nl" \notin Alpha /\ "eos" \notin Alpha
  /\ "nl" \notin Digits /\ "eos" \notin Digits
  /\ Alpha \subseteq Alnum /\ Digits \subseteq Alnum
BY DEF Alnum, Alpha, Digits, Letters, Reserved, Keywords, TypeKeywords,
       SizedTypes, Promoted, Contextual

(* The state of the lexer at a piece of the text.                          *)
LEMMA Here ==
  ASSUME LexInv
  PROVE  /\ source \in Seq(STRING) /\ pos \in Nat /\ pos >= 1
         /\ Len(source) \in Nat
         /\ At(pos) # "eos" =>
              /\ pos \in 1 .. Len(source)
              /\ pos \in 1 .. Len(source) + 1 /\ pos + 1 \in 1 .. Len(source) + 1
<1>1. source \in Seq(STRING) /\ pos \in Nat /\ pos >= 1
  BY DEF LexInv, LexType
<1>2. /\ Len(source) \in Nat
      /\ At(pos) # "eos" => pos \in 1 .. Len(source)
  BY <1>1, AtFacts
<1>3. \A p \in 1 .. Len(source) :
        p \in 1 .. Len(source) + 1 /\ p + 1 \in 1 .. Len(source) + 1
  BY <1>2
<1> QED
  BY <1>1, <1>2, <1>3

(* A step of neither the text nor the tokens.                              *)
LEMMA SameLexing ==
  ASSUME LexInv, UNCHANGED <<lexVars, pos>>
  PROVE  LexInv'
BY DEF LexInv, LexType, SpansInv, OrderInv, LinesInv, ReadInv, TextsInv, lexVars

LEMMA PartOfText ==
  ASSUME LexInv, NEW from \in Nat, NEW to \in Nat, from >= 1, to <= Len(source) + 1
  PROVE  SubSeq(source, from, to - 1) \in Seq(STRING)
<1>1. source \in Seq(STRING) /\ Len(source) \in Nat
  BY Here
<1>2. \A i \in from .. to - 1 : i \in 1 .. Len(source)
  BY <1>1
<1>3. \A i \in from .. to - 1 : source[i] \in STRING
  BY <1>1, <1>2, ElementOfSeq
<1>4. from \in Int /\ to - 1 \in Int
  OBVIOUS
<1> DEFINE b == to - 1
<1> HIDE DEF b
<1>5. \A i \in from .. b : source[i] \in STRING
  BY <1>3 DEF b
<1>6. b \in Int
  BY <1>4 DEF b
<1>7. SubSeq(source, from, b) \in Seq(STRING)
  BY <1>4, <1>5, <1>6, SubSeqProperties
<1> QED
  BY <1>7 DEF b

LEMMA EmitStep ==
  ASSUME LexInv, NEW type, NEW to \in Nat, to >= pos,
         to <= Len(source) + 1,
         type \in {"TYPE_KEYWORD", "MOVE_RL"} \/ OnOneLine(source, pos, to),
         Emit(type, to)
  PROVE  LexInv'
<1> DEFINE x == Token(type, to)
<1>0. SubSeq(source, pos, to - 1) \in Seq(STRING)
  BY Here, PartOfText
<1>1. x.at = pos /\ x.to = to /\ x.type = type /\ IsToken(x)
  BY <1>0 DEF Token, IsToken
<1>2. tokens' = Append(tokens, x) /\ pos' = to /\ UNCHANGED <<source, errors>>
  BY DEF Emit
<1> HIDE DEF x
<1>3. MayBreak(x) \/ OnOneLine(source, pos, to)
  BY <1>1 DEF MayBreak
<1> QED
  BY <1>1, <1>2, <1>3, EmitKeeps

LEMMA RejectStep ==
  ASSUME LexInv, NEW to \in Nat, to >= pos, Reject(to)
  PROVE  LexInv'
<1> DEFINE x == [at |-> pos, to |-> to]
<1>1. x.at = pos /\ x.to = to
  OBVIOUS
<1>2. errors' = Append(errors, x) /\ pos' = to /\ UNCHANGED <<source, tokens>>
  BY DEF Reject
<1> HIDE DEF x
<1> QED
  BY <1>1, <1>2, RejectKeeps

LEMMA SkipStep ==
  ASSUME LexInv, NEW to \in Nat, to >= pos, Skippable(source, pos, to), Skip(to)
  PROVE  LexInv'
<1>1. pos' = to /\ UNCHANGED <<source, tokens, errors>>
  BY DEF Skip, lexVars
<1> QED
  BY <1>1, SkipKeeps

LEMMA BlankStep ==
  ASSUME LexInv, SkipBlank
  PROVE  LexInv'
<1>1. At(pos) \in {" ", "nl"} /\ Skip(pos + 1)
  BY DEF SkipBlank
<1>2. pos + 1 \in Nat /\ pos + 1 >= pos /\ \A k \in pos .. (pos + 1) - 1 : k = pos
  BY Here
<1>3. PieceOf(source, pos) \in {" ", "nl"}
  BY <1>1, Here, AtFacts
<1>4. Skippable(source, pos, pos + 1)
  <2>1. \A k \in pos .. (pos + 1) - 1 : PieceOf(source, k) \in {" ", "nl"}
    BY <1>2, <1>3
  <2> DEFINE q == pos + 1
  <2>2. \A k \in pos .. q - 1 : PieceOf(source, k) \in {" ", "nl"}
    BY <2>1
  <2> HIDE DEF q
  <2>3. Skippable(source, pos, q)
    BY <2>2, Zenon DEF Skippable
  <2> QED
    BY <2>3 DEF q
<1> QED
  BY <1>1, <1>2, <1>4, SkipStep

(* A comment does not go over the end of its line.                         *)
LEMMA CommentStep ==
  ASSUME LexInv, SkipComment
  PROVE  LexInv'
<1> USE Here
<1>1. PICK to : /\ Skip(to)
                /\ \/ At(pos) = "-" /\ to = LineEnd(pos)
                   \/ At(pos) = "!" /\ to = CommentEnd
  BY DEF SkipComment
<1>2. /\ pos \in 1 .. Len(source) + 1 /\ pos + 1 \in 1 .. Len(source) + 1
      /\ At(pos) # "nl"
      /\ At(pos) = "!" \/ (At(pos) = "-" /\ At(pos + 1) = "-")
  BY <1>1 DEF SkipComment, AtComment
<1>3. LineEnd(pos) \in pos .. Len(source) + 1 /\ OnOneLine(source, pos, LineEnd(pos))
  BY <1>2, FindFacts, ClearOfFind DEF LineEnd
<1>4. CommentEnd \in pos .. Len(source) + 1 /\ OnOneLine(source, pos, CommentEnd)
  <2> DEFINE close == Find(pos + 1, {"!", " ", "nl"})
  <2>1. /\ close \in pos + 1 .. Len(source) + 1
        /\ OnOneLine(source, pos + 1, close)
    BY <1>2, FindFacts, ClearOfFind
  <2>2. CommentEnd = IF At(close) = "!" /\ close > pos + 1 THEN close + 1
                                                          ELSE LineEnd(pos)
    BY DEF CommentEnd
  <2> HIDE DEF close
  <2>3. CASE At(close) = "!" /\ close > pos + 1
    <3>1. close \in 1 .. Len(source) /\ close \in Nat
      BY <2>1, <2>3, AtFacts
    <3>2. OnOneLine(source, pos, pos + 1) /\ OnOneLine(source, close, close + 1)
      BY <1>2, <2>3, <3>1, OneLinePiece
    <3>3. pos <= pos + 1 /\ pos + 1 <= close /\ close <= close + 1
          /\ pos + 1 \in Nat /\ close + 1 \in Nat /\ pos <= close
      BY <2>1, <3>1
    <3>4. OnOneLine(source, pos, close)
      BY <2>1, <3>1, <3>2, <3>3, OneLineJoin
    <3>5. OnOneLine(source, pos, close + 1)
      BY <3>1, <3>2, <3>3, <3>4, OneLineJoin
    <3>6. close + 1 \in pos .. Len(source) + 1
      BY <3>1, <3>3
    <3> QED
      BY <2>2, <2>3, <3>5, <3>6
  <2>4. CASE ~(At(close) = "!" /\ close > pos + 1)
    BY <1>3, <2>2, <2>4
  <2> QED
    BY <2>3, <2>4
<1>5. to \in Nat /\ to >= pos /\ OnOneLine(source, pos, to)
  BY <1>1, <1>3, <1>4
<1>6. Skippable(source, pos, to)
  <2> SUFFICES ASSUME NEW k \in pos .. to - 1
               PROVE  \A i \in pos .. k : PieceOf(source, i) # "nl"
    BY <1>2, AtFacts DEF Skippable
  <2>1. \A i \in pos .. k : i \in pos .. to - 1
    BY <1>5
  <2> QED
    BY <1>5, <2>1 DEF OnOneLine
<1> QED
  BY <1>1, <1>5, <1>6, SkipStep

LEMMA DirectiveStep ==
  ASSUME LexInv, LexDirective
  PROVE  LexInv'
<1> DEFINE to == LineEnd(pos)
<1>1. Emit("DIRECTIVE", to) /\ At(pos) # "eos"
  BY DEF LexDirective
<1>2. to \in pos .. Len(source) + 1 /\ OnOneLine(source, pos, to)
  BY <1>1, Here, FindFacts, ClearOfFind DEF LineEnd
<1>3. to \in Nat /\ to >= pos /\ to <= Len(source) + 1
  BY <1>2, Here
<1> HIDE DEF to
<1> QED
  BY <1>1, <1>2, <1>3, EmitStep

(* The piece at the position, and then pieces of S.                        *)
LEMMA ThenPast ==
  ASSUME LexInv, At(pos) \notin {"nl", "eos"}, NEW S, "nl" \notin S
  PROVE  /\ Past(pos + 1, S) \in Nat
         /\ Past(pos + 1, S) > pos /\ Past(pos + 1, S) <= Len(source) + 1
         /\ OnOneLine(source, pos, Past(pos + 1, S))
<1> DEFINE to == Past(pos + 1, S)
<1>1. /\ source \in Seq(STRING) /\ pos \in Nat /\ Len(source) \in Nat
      /\ pos + 1 \in 1 .. Len(source) + 1
  BY Here
<1>2. to \in pos + 1 .. Len(source) + 1 /\ OnOneLine(source, pos + 1, to)
  BY <1>1, PastFacts, ClearOfPast
<1> HIDE DEF to
<1>3. OnOneLine(source, pos, pos + 1)
  BY <1>1, OneLinePiece
<1>4. to \in Nat /\ pos <= pos + 1 /\ pos + 1 <= to /\ pos + 1 \in Nat
      /\ to > pos /\ to <= Len(source) + 1
  BY <1>1, <1>2
<1>5. OnOneLine(source, pos, to)
  BY <1>1, <1>2, <1>3, <1>4, OneLineJoin
<1> QED
  BY <1>4, <1>5 DEF to

LEMMA DollarStep ==
  ASSUME LexInv, LexDollar
  PROVE  LexInv'
<1> DEFINE S == Alnum \cup {"^"}
           to == Past(pos + 1, S)
<1>1. Emit("DOLLAR_FUNC", to) /\ At(pos) \notin {"nl", "eos"}
  BY DEF LexDollar
<1>2. "nl" \notin S
  BY Alphabet
<1> HIDE DEF S
<1>3. to \in Nat /\ to > pos /\ to <= Len(source) + 1 /\ OnOneLine(source, pos, to)
  BY <1>1, <1>2, ThenPast
<1>4. to >= pos
  BY <1>3, Here
<1> HIDE DEF to
<1> QED
  BY <1>1, <1>3, <1>4, EmitStep

(* A string does not go over the end of its line, closed or not.           *)
LEMMA StringStep ==
  ASSUME LexInv, LexString
  PROVE  LexInv'
<1> DEFINE close == Find(pos + 1, {"quote", "nl"})
<1>1. /\ At(pos) = "quote"
      /\ IF At(close) = "quote" THEN Emit("STRING_LIT", close + 1)
                                ELSE Reject(close)
  BY DEF LexString
<1>2. /\ source \in Seq(STRING) /\ pos \in Nat /\ Len(source) \in Nat
      /\ pos + 1 \in 1 .. Len(source) + 1
  BY <1>1, Here
<1>3. close \in pos + 1 .. Len(source) + 1 /\ OnOneLine(source, pos + 1, close)
  BY <1>2, FindFacts, ClearOfFind
<1> HIDE DEF close
<1>4. close \in Nat /\ close >= pos
  BY <1>2, <1>3
<1>5. CASE At(close) = "quote"
  <2>1. close \in 1 .. Len(source)
    BY <1>2, <1>5, AtFacts
  <2>2. OnOneLine(source, pos, pos + 1) /\ OnOneLine(source, close, close + 1)
    BY <1>1, <1>2, <1>4, <1>5, OneLinePiece
  <2>3. /\ pos <= pos + 1 /\ pos + 1 <= close /\ pos + 1 \in Nat
        /\ close <= close + 1 /\ close + 1 \in Nat
        /\ close + 1 >= pos /\ pos <= close /\ close + 1 <= Len(source) + 1
    BY <1>2, <1>3, <2>1
  <2>4. OnOneLine(source, pos, close)
    BY <1>2, <1>3, <1>4, <2>2, <2>3, OneLineJoin
  <2>5. OnOneLine(source, pos, close + 1)
    BY <1>2, <1>4, <2>2, <2>3, <2>4, OneLineJoin
  <2> QED
    BY <1>1, <1>5, <2>3, <2>5, EmitStep
<1>6. CASE At(close) # "quote"
  BY <1>1, <1>4, <1>6, RejectStep
<1> QED
  BY <1>5, <1>6

(* !name! as an argument: the name has no newline, the marks are "!".      *)
LEMMA BangDefineStep ==
  ASSUME LexInv, LexBangDefine
  PROVE  LexInv'
<1> DEFINE e == BangEnd
           x == [type |-> "IDENT", text |-> SubSeq(source, pos + 1, e - 1),
                 at |-> pos, to |-> e + 1]
<1>1. /\ At(pos) = "!" /\ At(e) = "!"
      /\ \A k \in pos + 1 .. e - 1 : At(k) \in Alnum \cup {"^", "#", "(", ")"}
      /\ tokens' = Append(tokens, x) /\ pos' = e + 1 /\ UNCHANGED <<source, errors>>
  BY DEF LexBangDefine, IsBangDefine
<1>2. /\ source \in Seq(STRING) /\ pos \in Nat /\ pos >= 1 /\ Len(source) \in Nat
      /\ pos \in 1 .. Len(source) + 1 /\ pos + 1 \in 1 .. Len(source) + 1
  BY <1>1, Here
<1>3. e \in pos + 1 .. Len(source) /\ e \in Nat
  <2> DEFINE P == {k \in pos + 1 .. LineEnd(pos) - 1 : At(k) = "!" /\ Balanced(k)}
             L == Len(source)
  <2>1. LineEnd(pos) \in pos .. L + 1
    BY <1>2, FindFacts DEF LineEnd
  <2>2. L \in Nat /\ P \in SUBSET (pos + 1 .. L) /\ pos + 1 \in 1 .. L + 1
    BY <1>2, <2>1
  <2>3. e = Min(P \cup {L + 1})
    BY DEF BangEnd
  <2> HIDE DEF P, e
  <2>4. Min(P \cup {L + 1}) \in pos + 1 .. L + 1
    <3> HIDE DEF L
    <3> DEFINE k == pos + 1
    <3> HIDE DEF k
    <3>1. L \in Nat /\ P \in SUBSET (k .. L) /\ k \in 1 .. L + 1
      BY <2>2 DEF k
    <3>2. Min(P \cup {L + 1}) \in k .. L + 1
      BY <3>1, FirstFacts
    <3> QED
      BY <3>2 DEF k
  <2>5. e \in 1 .. L
    BY <1>1, <1>2, AtFacts
  <2> QED
    BY <1>2, <2>3, <2>4, <2>5
<1>4. \A k \in Alnum \cup {"^", "#", "(", ")"} : k # "nl"
  BY Alphabet
<1>5. e + 1 \in Nat /\ e + 1 >= pos /\ e + 1 <= Len(source) + 1 /\ pos + 1 <= e
      /\ pos + 1 \in Nat /\ pos + 1 >= 1 /\ e <= Len(source) + 1
  BY <1>2, <1>3
<1> HIDE DEF e
<1>6. OnOneLine(source, pos, e + 1)
  <2> SUFFICES ASSUME NEW k \in pos .. (e + 1) - 1 PROVE At(k) # "nl"
    BY <1>2, AtFacts DEF OnOneLine
  <2>1. k = pos \/ k = e \/ k \in pos + 1 .. e - 1
    BY <1>2, <1>3
  <2> QED
    BY <1>1, <1>4, <2>1
<1>7. SubSeq(source, pos + 1, e - 1) \in Seq(STRING)
  <2> DEFINE from == pos + 1
  <2> HIDE DEF from
  <2>1. from \in Nat /\ from >= 1
    BY <1>5 DEF from
  <2>2. SubSeq(source, from, e - 1) \in Seq(STRING)
    BY <1>3, <1>5, <2>1, PartOfText
  <2> QED
    BY <2>2 DEF from
<1>8. x.at = pos /\ x.to = e + 1 /\ IsToken(x)
  BY <1>7 DEF IsToken
<1> HIDE DEF x
<1> QED
  BY <1>1, <1>5, <1>6, <1>8, EmitKeeps

-----------------------------------------------------------------------------
(***************************************************************************)
(* Operators from a table.                                                 *)
(***************************************************************************)

(* An entry of a table is one to four pieces, none of them a newline.      *)
Plain == {":", "=", "<", ">", "-", "+", "*", "/", "back", "'", "S", "G", "@",
          ";", ",", "(", ")", "[", "]", "&", "#", "."}
Entry(m) == m[1] \in Seq(Plain) /\ Len(m[1]) \in 1 .. 4

LEMMA OnePiece ==
  ASSUME NEW a \in Plain
  PROVE  <<a>> \in Seq(Plain) /\ Len(<<a>>) = 1
OBVIOUS

LEMMA TwoPieces ==
  ASSUME NEW a \in Plain, NEW b \in Plain
  PROVE  <<a, b>> \in Seq(Plain) /\ Len(<<a, b>>) = 2
OBVIOUS

LEMMA ThreePieces ==
  ASSUME NEW a \in Plain, NEW b \in Plain, NEW c \in Plain
  PROVE  <<a, b, c>> \in Seq(Plain) /\ Len(<<a, b, c>>) = 3
OBVIOUS

LEMMA ClosingEntries ==
  ASSUME NEW text \in Seq(Plain), NEW n \in 1 .. 3, Len(text) = n, NEW type,
         NEW m \in Closing(text, type)
  PROVE  Entry(m)
<1>1. "'" \in Plain
  BY DEF Plain
<1> HIDE DEF Plain
<1>2. Append(text, "'") \in Seq(Plain) /\ Len(Append(text, "'")) = n + 1
  BY <1>1, AppendProperties
<1>3. n \in 1 .. 4 /\ n + 1 \in 1 .. 4
  OBVIOUS
<1>4. m[1] = text \/ m[1] = Append(text, "'")
  BY DEF Closing
<1>5. m[1] \in Seq(Plain) /\ Len(m[1]) \in {n, n + 1}
  BY <1>2, <1>4
<1> QED
  BY <1>3, <1>5 DEF Entry

LEMMA PlainPieces ==
  /\ ":" \in Plain /\ "=" \in Plain /\ "<" \in Plain /\ ">" \in Plain
  /\ "-" \in Plain /\ "+" \in Plain /\ "*" \in Plain /\ "/" \in Plain
  /\ "back" \in Plain /\ "'" \in Plain /\ "S" \in Plain /\ "G" \in Plain
  /\ "@" \in Plain /\ ";" \in Plain /\ "," \in Plain /\ "(" \in Plain
  /\ ")" \in Plain /\ "[" \in Plain /\ "]" \in Plain /\ "&" \in Plain
  /\ "#" \in Plain /\ "." \in Plain
BY DEF Plain

LEMMA SmallNumbers ==
  /\ 1 \in 1 .. 3 /\ 2 \in 1 .. 3
  /\ 1 \in 1 .. 4 /\ 2 \in 1 .. 4 /\ 3 \in 1 .. 4
OBVIOUS

(* An entry whose text is one, two or three such pieces.                   *)
LEMMA EntryOfPieces ==
  ASSUME NEW m,
         \/ \E a \in Plain : m[1] = <<a>>
         \/ \E a, b \in Plain : m[1] = <<a, b>>
         \/ \E a, b, c \in Plain : m[1] = <<a, b, c>>
  PROVE  Entry(m)
<1> HIDE DEF Plain
<1>1. CASE \E a \in Plain : m[1] = <<a>>
  BY <1>1, OnePiece, SmallNumbers DEF Entry
<1>2. CASE \E a, b \in Plain : m[1] = <<a, b>>
  BY <1>2, TwoPieces, SmallNumbers DEF Entry
<1>3. CASE \E a, b, c \in Plain : m[1] = <<a, b, c>>
  BY <1>3, ThreePieces, SmallNumbers DEF Entry
<1> QED
  BY <1>1, <1>2, <1>3

LEMMA PairFirst ==
  \A a, b : <<a, b>>[1] = a
OBVIOUS

LEMMA PrimeEntries ==
  ASSUME NEW m \in PrimeOps
  PROVE  Entry(m)
<1> USE PlainPieces
<1>1. CASE \/ m \in Closing(<<":", "=">>, "MOVE_LR")
           \/ m \in Closing(<<"<", "<">>, "USHL")
           \/ m \in Closing(<<">", ">">>, "USHR")
  BY <1>1, TwoPieces, ClosingEntries, SmallNumbers, Zenon
<1>2. CASE \/ m \in Closing(<<"-">>, "USUB") \/ m \in Closing(<<"+">>, "UADD")
           \/ m \in Closing(<<"*">>, "UMUL") \/ m \in Closing(<<"/">>, "UDIV")
           \/ m \in Closing(<<"back">>, "UMOD")
  BY <1>2, OnePiece, ClosingEntries, SmallNumbers, Zenon
<1> DEFINE closings ==
             {Closing(<<":", "=">>, "MOVE_LR"),
              Closing(<<"<", "<">>, "USHL"), Closing(<<">", ">">>, "USHR"),
              Closing(<<"-">>, "USUB"), Closing(<<"+">>, "UADD"),
              Closing(<<"*">>, "UMUL"), Closing(<<"/">>, "UDIV"),
              Closing(<<"back">>, "UMOD")}
           others ==
             {<<<<"<", ">", "'">>, "UNE">>, <<<<"<", "=", "'">>, "ULE">>,
              <<<<"<", "'">>, "ULT">>, <<<<">", "=", "'">>, "UGE">>,
              <<<<">", "'">>, "UGT">>, <<<<"=", "'">>, "UEQ">>,
              <<<<"S", "G", "'">>, "BASE">>, <<<<"S", "'">>, "BASE">>,
              <<<<"G", "'">>, "BASE">>}
<1>3. ASSUME m \in UNION closings PROVE Entry(m)
  <2>1. PICK c \in closings : m \in c
    BY <1>3, Zenon
  <2> QED
    BY <1>1, <1>2, <2>1, Zenon
<1>4. ASSUME m \in others PROVE Entry(m)
  <2>1. \/ \E a, b \in Plain : \E x : m = <<<<a, b>>, x>>
        \/ \E a, b, c \in Plain : \E x : m = <<<<a, b, c>>, x>>
    BY <1>4, Zenon
  <2> HIDE DEF others
  <2>2. CASE \E a, b \in Plain : \E x : m = <<<<a, b>>, x>>
    <3>1. PICK a \in Plain, b \in Plain : \E x : m = <<<<a, b>>, x>>
      BY <2>2, Zenon
    <3> QED
      BY <3>1, PairFirst, EntryOfPieces, Zenon
  <2>3. CASE \E a, b, c \in Plain : \E x : m = <<<<a, b, c>>, x>>
    <3>1. PICK a \in Plain, b \in Plain, c \in Plain : \E x : m = <<<<a, b, c>>, x>>
      BY <2>3, Zenon
    <3> QED
      BY <3>1, PairFirst, EntryOfPieces, Zenon
  <2> QED
    BY <2>1, <2>2, <2>3
<1>5. PrimeOps = (UNION closings) \cup others
  BY Zenon DEF PrimeOps
<1> HIDE DEF closings, others
<1> QED
  BY <1>3, <1>4, <1>5, Zenon

LEMMA PunctuationEntries ==
  ASSUME NEW m \in Punctuation
  PROVE  Entry(m)
<1> USE PlainPieces
<1> DEFINE ones ==
             {<<<<"@">>, "AT">>, <<<<";">>, "SEMI">>, <<<<",">>, "COMMA">>,
              <<<<"(">>, "LPAREN">>, <<<<")">>, "RPAREN">>, <<<<"[">>, "LBRACK">>,
              <<<<"]">>, "RBRACK">>, <<<<"+">>, "PLUS">>, <<<<"*">>, "STAR">>,
              <<<<"/">>, "SLASH">>, <<<<"&">>, "AMP">>, <<<<"#">>, "HASH">>,
              <<<<"-">>, "MINUS">>, <<<<":">>, "COLON">>, <<<<"=">>, "EQ">>,
              <<<<"<">>, "LT">>, <<<<">">>, "GT">>, <<<<".">>, "DOT">>}
           twos ==
             {<<<<"-", ">">>, "ARROW">>, <<<<":", "=">>, "ASSIGN">>,
              <<<<"<", ">">>, "NEQ">>, <<<<"<", "=">>, "LE">>,
              <<<<"<", "<">>, "SHL">>, <<<<">", "=">>, "GE">>,
              <<<<">", ">">>, "SHR">>, <<<<".", ".">>, "DOT_DOT">>}
<1>1. m \in ones \/ m \in twos \/ m = <<<<".", "S", "G">>, "DOT_SG">>
  BY Zenon DEF Punctuation
<1>2. CASE m \in ones
  <2>1. PICK a \in Plain : \E b : m = <<<<a>>, b>>
    BY <1>2, Zenon
  <2> HIDE DEF ones, twos
  <2> QED
    BY <2>1, PairFirst, EntryOfPieces, Zenon
<1>3. CASE m \in twos
  <2>1. PICK a \in Plain, c \in Plain : \E b : m = <<<<a, c>>, b>>
    BY <1>3, Zenon
  <2> HIDE DEF ones, twos
  <2> QED
    BY <2>1, PairFirst, EntryOfPieces, Zenon
<1>4. CASE m = <<<<".", "S", "G">>, "DOT_SG">>
  BY <1>4, PairFirst, EntryOfPieces, Zenon
<1> HIDE DEF ones, twos
<1> QED
  BY <1>1, <1>2, <1>3, <1>4, Zenon

(* The longest entry is one of them.                                       *)
LEMMA LongestFacts ==
  ASSUME NEW ms, ms # {}, \A m \in ms : Entry(m)
  PROVE  Longest(ms) \in ms /\ Entry(Longest(ms))
<1> DEFINE Room(m) == 4 - Len(m[1])
<1>1. \A m \in ms : Len(m[1]) \in 1 .. 4
  BY DEF Entry
<1> HIDE DEF Entry
<1>2. \A m \in ms : Room(m) \in Nat /\ Len(m[1]) = 4 - Room(m)
  <2> SUFFICES ASSUME NEW m \in ms PROVE Room(m) \in Nat /\ Len(m[1]) = 4 - Room(m)
    OBVIOUS
  <2> DEFINE l == Len(m[1])
  <2>1. l \in 1 .. 4
    BY <1>1
  <2> HIDE DEF l
  <2>2. 4 - l \in Nat /\ l = 4 - (4 - l)
    BY <2>1
  <2> QED
    BY <2>2 DEF l
<1>3. PICK m \in ms : \A n \in ms : Room(m) <= Room(n)
  <2> DEFINE S == {Room(m) : m \in ms}
  <2>1. S \in SUBSET Nat /\ S # {}
    BY <1>2
  <2>2. \E x \in S : \A y \in S : x <= y
    <3> HIDE DEF S
    <3> QED
      BY <2>1, LeastNat
  <2> QED
    BY <2>2
<1>4. \A n \in ms : Len(n[1]) <= Len(m[1])
  <2> SUFFICES ASSUME NEW n \in ms PROVE Len(n[1]) <= Len(m[1])
    OBVIOUS
  <2>1. Room(m) <= Room(n) /\ Room(m) \in Nat /\ Room(n) \in Nat
    BY <1>2, <1>3
  <2>2. Len(m[1]) = 4 - Room(m) /\ Len(n[1]) = 4 - Room(n)
    BY <1>2, <1>3
  <2> HIDE DEF Room
  <2>3. 4 - Room(n) <= 4 - Room(m)
    BY <2>1
  <2> QED
    BY <2>2, <2>3
<1>5. Longest(ms) \in ms
  BY <1>4 DEF Longest
<1> QED
  BY <1>5

(* Its text is on one line.                                                *)
LEMMA MatchFacts ==
  ASSUME source \in Seq(STRING), NEW table, NEW k \in Nat, k >= 1,
         NEW m \in Matches(k, table), Entry(m)
  PROVE  /\ Len(m[1]) \in Nat /\ Len(m[1]) >= 1
         /\ k + Len(m[1]) <= Len(source) + 1
         /\ OnOneLine(source, k, k + Len(m[1]))
<1> DEFINE l == Len(m[1])
<1>1. l \in 1 .. 4 /\ m[1] \in Seq(Plain) /\ DOMAIN m[1] = 1 .. l
  BY LenProperties DEF Entry
<1>2. \A n \in 1 .. l : m[1][n] = At(k + n - 1) /\ m[1][n] \in Plain
  BY <1>1, ElementOfSeq DEF Matches
<1>3. "nl" \notin Plain /\ "eos" \notin Plain
  BY Zenon DEF Plain
<1> HIDE DEF Plain, Entry, l
<1>4. \A n \in 1 .. l : At(k + n - 1) \notin {"nl", "eos"}
  BY <1>2, <1>3
<1>5. l \in Nat /\ l >= 1 /\ l \in 1 .. l /\ Len(source) \in Nat
  BY <1>1, AtFacts
<1>6. k + l - 1 \in 1 .. Len(source)
  BY <1>4, <1>5, AtFacts
<1>7. k + l <= Len(source) + 1
  BY <1>5, <1>6
<1>8. OnOneLine(source, k, k + l)
  <2> SUFFICES ASSUME NEW j \in k .. (k + l) - 1 PROVE At(j) # "nl"
    BY AtFacts DEF OnOneLine
  <2>1. (j - k) + 1 \in 1 .. l /\ k + ((j - k) + 1) - 1 = j
    BY <1>5
  <2> QED
    BY <1>4, <2>1
<1> QED
  BY <1>5, <1>7, <1>8 DEF l

LEMMA PunctuationStep ==
  ASSUME LexInv, LexPunctuation
  PROVE  LexInv'
<1> DEFINE ops == PunctuationAt(pos)
           m == Longest(ops)
<1>1. ops # {} /\ Emit(m[2], pos + Len(m[1]))
  BY DEF LexPunctuation
<1>2. ops \subseteq Matches(pos, Punctuation) /\ \A o \in ops : Entry(o)
  BY PunctuationEntries DEF PunctuationAt, Matches
<1> HIDE DEF ops
<1>3. m \in ops /\ Entry(m)
  BY <1>1, <1>2, LongestFacts
<1> HIDE DEF m
<1> DEFINE to == pos + Len(m[1])
<1>4. /\ Len(m[1]) \in Nat /\ to <= Len(source) + 1
      /\ OnOneLine(source, pos, to)
  BY <1>2, <1>3, Here, MatchFacts
<1>5. to \in Nat /\ to >= pos
  BY <1>4, Here
<1>6. Emit(m[2], to)
  BY <1>1
<1> HIDE DEF to
<1> QED
  BY <1>4, <1>5, <1>6, EmitStep

(* A prime and what follows it: only the '=: takes a newline.              *)
LEMMA PrimeStep ==
  ASSUME LexInv, LexPrime
  PROVE  LexInv'
<1> DEFINE ops == Matches(pos + 1, PrimeOps)
           m == Longest(ops)
           L == Len(source)
<1>1. /\ source \in Seq(STRING) /\ pos \in Nat /\ pos >= 1 /\ L \in Nat
      /\ At(pos) = "'" /\ pos \in 1 .. L
  BY Here DEF LexPrime
<1>2. OnOneLine(source, pos, pos + 1)
  BY <1>1, OneLinePiece
<1>3. ASSUME pos + 3 <= L, Emit("MOVE_RL", pos + 4) PROVE LexInv'
  <2>1. pos + 4 \in Nat /\ pos + 4 >= pos /\ pos + 4 <= L + 1
    BY <1>1, <1>3
  <2> QED
    BY <1>3, <2>1, EmitStep
<1>4. ASSUME UNCHANGED <<lexVars, pos, streamVars>> PROVE LexInv'
  BY <1>4, SameLexing
<1>5. ASSUME ops # {}, Emit(m[2], pos + 1 + Len(m[1])) PROVE LexInv'
  <2>1. ops \subseteq Matches(pos + 1, PrimeOps) /\ \A o \in ops : Entry(o)
    BY PrimeEntries DEF Matches
  <2>2. m \in ops /\ Entry(m)
    <3> HIDE DEF ops
    <3> QED
      BY <1>5, <2>1, LongestFacts
  <2> HIDE DEF m
  <2> DEFINE k == pos + 1
             to == k + Len(m[1])
  <2>3. k \in Nat /\ k >= 1 /\ pos <= k
    BY <1>1
  <2>4. m \in Matches(k, PrimeOps)
    BY <2>2
  <2>5. Emit(m[2], to) /\ OnOneLine(source, pos, k)
    BY <1>2, <1>5
  <2> HIDE DEF k, ops
  <2>6. Len(m[1]) \in Nat /\ to <= L + 1 /\ OnOneLine(source, k, to)
    BY <1>1, <2>2, <2>3, <2>4, MatchFacts
  <2>7. to \in Nat /\ k <= to /\ to >= pos
    BY <1>1, <2>3, <2>6
  <2> HIDE DEF to
  <2>8. OnOneLine(source, pos, to)
    BY <1>1, <2>3, <2>5, <2>6, <2>7, OneLineJoin
  <2> QED
    BY <2>5, <2>6, <2>7, <2>8, EmitStep
<1>6. ASSUME At(pos + 1) \notin {"nl", "eos"}, Emit("CHAR_LIT", pos + 2)
      PROVE  LexInv'
  <2>1. pos + 1 \in 1 .. L
    BY <1>1, <1>6, AtFacts
  <2>2. pos + 2 \in Nat /\ pos + 2 >= pos /\ pos + 2 <= L + 1
    BY <1>1, <2>1
  <2>3. OnOneLine(source, pos, pos + 2)
    <3> SUFFICES ASSUME NEW k \in pos .. (pos + 2) - 1 PROVE At(k) # "nl"
      BY <1>1, AtFacts DEF OnOneLine
    <3>1. k = pos \/ k = pos + 1
      BY <1>1
    <3> QED
      BY <1>1, <1>6, <3>1
  <2> QED
    BY <1>6, <2>2, <2>3, EmitStep
<1>7. ASSUME At(pos + 1) \notin {"nl", "eos"}, At(pos + 2) = "'",
             Emit("CHAR_LIT", pos + 3)
      PROVE  LexInv'
  <2>1. pos + 2 \in 1 .. L
    BY <1>1, <1>7, AtFacts
  <2>2. pos + 3 \in Nat /\ pos + 3 >= pos /\ pos + 3 <= L + 1
    BY <1>1, <2>1
  <2>3. OnOneLine(source, pos, pos + 3)
    <3> SUFFICES ASSUME NEW k \in pos .. (pos + 3) - 1 PROVE At(k) # "nl"
      BY <1>1, AtFacts DEF OnOneLine
    <3>1. k = pos \/ k = pos + 1 \/ k = pos + 2
      BY <1>1
    <3> QED
      BY <1>1, <1>7, <3>1
  <2> QED
    BY <1>7, <2>2, <2>3, EmitStep
<1>8. ASSUME Reject(pos + 1) PROVE LexInv'
  <2>1. pos + 1 \in Nat /\ pos + 1 >= pos
    BY <1>1
  <2> QED
    BY <1>8, <2>1, RejectStep
<1>9. \/ pos + 3 <= L /\ Emit("MOVE_RL", pos + 4)
      \/ UNCHANGED <<lexVars, pos, streamVars>>
      \/ ops # {} /\ Emit(m[2], pos + 1 + Len(m[1]))
      \/ At(pos + 1) \notin {"nl", "eos"} /\ Emit("CHAR_LIT", pos + 2)
      \/ /\ At(pos + 1) \notin {"nl", "eos"} /\ At(pos + 2) = "'"
         /\ Emit("CHAR_LIT", pos + 3)
      \/ Reject(pos + 1)
  <2>1. At(pos + 1) = "'" => At(pos + 1) \notin {"nl", "eos"}
    OBVIOUS
  <2> HIDE DEF ops, m, L
  <2> QED
    BY <2>1 DEF LexPrime, ops, m, L
<1> HIDE DEF ops, m
<1> QED
  BY <1>3, <1>4, <1>5, <1>6, <1>7, <1>8, <1>9

-----------------------------------------------------------------------------
(***************************************************************************)
(* Numbers, words and carets.                                              *)
(***************************************************************************)

(* From the lexer's position up to q there is text of one line.            *)
LineTo(q) == q \in pos .. Len(source) + 1 /\ q \in Nat /\ OnOneLine(source, pos, q)

LEMMA LineToHere ==
  ASSUME LexInv, At(pos) # "eos"
  PROVE  LineTo(pos)
<1>1. pos \in Nat /\ Len(source) \in Nat /\ pos \in 1 .. Len(source)
  BY Here
<1>2. pos \in pos .. Len(source) + 1 /\ \A k \in pos .. pos - 1 : FALSE
  BY <1>1
<1> QED
  BY <1>1, <1>2 DEF LineTo, OnOneLine

LEMMA LineToNext ==
  ASSUME LexInv, NEW q, LineTo(q), At(q) \notin {"nl", "eos"}
  PROVE  LineTo(q + 1)
<1>1. /\ source \in Seq(STRING) /\ pos \in Nat /\ Len(source) \in Nat
      /\ q \in pos .. Len(source) + 1 /\ q \in Nat /\ OnOneLine(source, pos, q)
  BY Here DEF LineTo
<1>2. q \in 1 .. Len(source) /\ OnOneLine(source, q, q + 1)
  BY <1>1, AtFacts, OneLinePiece
<1>3. /\ q + 1 \in pos .. Len(source) + 1 /\ q + 1 \in Nat
      /\ pos <= q /\ q <= q + 1
  BY <1>1, <1>2
<1>4. OnOneLine(source, pos, q + 1)
  BY <1>1, <1>2, <1>3, OneLineJoin
<1> QED
  BY <1>3, <1>4 DEF LineTo

LEMMA LineToPast ==
  ASSUME LexInv, NEW q, LineTo(q), NEW S, "nl" \notin S
  PROVE  LineTo(Past(q, S)) /\ Past(q, S) >= q
<1> DEFINE to == Past(q, S)
<1>1. /\ source \in Seq(STRING) /\ pos \in Nat /\ pos >= 1 /\ Len(source) \in Nat
      /\ q \in pos .. Len(source) + 1 /\ q \in Nat /\ OnOneLine(source, pos, q)
  BY Here DEF LineTo
<1>2. q \in 1 .. Len(source) + 1
  BY <1>1
<1>3. to \in q .. Len(source) + 1 /\ OnOneLine(source, q, to)
  BY <1>1, <1>2, PastFacts, ClearOfPast
<1> HIDE DEF to
<1>4. to \in pos .. Len(source) + 1 /\ to \in Nat /\ pos <= q /\ q <= to /\ to >= q
  BY <1>1, <1>3
<1>5. OnOneLine(source, pos, to)
  BY <1>1, <1>3, <1>4, OneLineJoin
<1> QED
  BY <1>4, <1>5 DEF LineTo, to

LEMMA LineStep ==
  ASSUME LexInv, NEW type, NEW to, LineTo(to), Emit(type, to)
  PROVE  LexInv'
<1>1. to \in Nat /\ to >= pos /\ to <= Len(source) + 1 /\ OnOneLine(source, pos, to)
  BY Here DEF LineTo
<1> QED
  BY <1>1, EmitStep

LEMMA NumberStep ==
  ASSUME LexInv, LexNumber
  PROVE  LexInv'
<1> USE Alphabet
<1>1. At(pos) \in Digits \cup {"%"} /\ Emit("NUMBER", NumberEnd)
  BY DEF LexNumber
<1>2. At(pos) \notin {"nl", "eos"}
  BY <1>1
<1>3. LineTo(pos) /\ LineTo(pos + 1)
  BY <1>2, LineToHere, LineToNext
<1>4. CASE At(pos) = "%"
  <2> DEFINE k == Past(pos + 1, Alnum)
  <2>1. LineTo(k)
    BY <1>3, LineToPast
  <2>2. NumberEnd = IF At(k) = "%" /\ At(k + 1) = "d" THEN k + 2 ELSE k
    BY <1>4 DEF NumberEnd
  <2> HIDE DEF k
  <2>3. CASE At(k) = "%" /\ At(k + 1) = "d"
    <3>1. LineTo(k + 1)
      BY <2>1, <2>3, LineToNext
    <3>2. LineTo((k + 1) + 1)
      BY <2>3, <3>1, LineToNext
    <3>3. (k + 1) + 1 = k + 2
      BY <2>1 DEF LineTo
    <3> QED
      BY <1>1, <2>2, <2>3, <3>2, <3>3, LineStep
  <2>4. CASE ~(At(k) = "%" /\ At(k + 1) = "d")
    BY <1>1, <2>1, <2>2, <2>4, LineStep
  <2> QED
    BY <2>3, <2>4
<1>5. CASE At(pos) # "%"
  <2> DEFINE whole == Past(pos, Digits)
             fraction == Past(whole + 1, Digits)
             k == IF At(whole) = "." /\ fraction > whole + 1 /\ At(fraction) = "e"
                  THEN fraction ELSE whole
             start == IF At(k + 1) \in {"+", "-"} THEN k + 2 ELSE k + 1
  <2>1. LineTo(whole)
    BY <1>3, LineToPast
  <2>2. NumberEnd = IF At(k) = "d" THEN k + 1
                    ELSE IF At(k) # "e" THEN k ELSE Past(start, Digits)
    BY <1>5 DEF NumberEnd
  <2>3. LineTo(k)
    <3> HIDE DEF whole
    <3>1. CASE At(whole) = "."
      <4>1. LineTo(whole + 1)
        BY <2>1, <3>1, LineToNext
      <4>2. LineTo(fraction)
        BY <4>1, LineToPast
      <4> QED
        BY <2>1, <4>2
    <3>2. CASE At(whole) # "."
      BY <2>1, <3>2
    <3> QED
      BY <3>1, <3>2
  <2> HIDE DEF k
  <2>4. CASE At(k) = "d"
    BY <1>1, <2>2, <2>3, <2>4, LineToNext, LineStep
  <2>5. CASE At(k) = "e"
    <3>1. LineTo(k + 1)
      BY <2>3, <2>5, LineToNext
    <3>2. LineTo(start)
      <4>1. CASE At(k + 1) \in {"+", "-"}
        <5>1. At(k + 1) \notin {"nl", "eos"}
          BY <4>1
        <5>2. LineTo((k + 1) + 1)
          BY <3>1, <5>1, LineToNext
        <5>3. (k + 1) + 1 = k + 2
          BY <2>3 DEF LineTo
        <5> QED
          BY <4>1, <5>2, <5>3
      <4>2. CASE At(k + 1) \notin {"+", "-"}
        BY <3>1, <4>2
      <4> QED
        BY <4>1, <4>2
    <3>3. NumberEnd = Past(start, Digits)
      BY <2>2, <2>5
    <3> HIDE DEF start
    <3>4. LineTo(Past(start, Digits))
      BY <3>2, LineToPast
    <3> QED
      BY <1>1, <3>3, <3>4, LineStep
  <2>6. CASE At(k) # "d" /\ At(k) # "e"
    BY <1>1, <2>2, <2>3, <2>6, LineStep
  <2> QED
    BY <2>4, <2>5, <2>6
<1> QED
  BY <1>4, <1>5

(* A word is on one line; only a sized type goes on over line ends.        *)
LEMMA WordStep ==
  ASSUME LexInv, LexWord
  PROVE  LexInv'
<1> DEFINE to == Past(pos, Alnum \cup {"^", "#"})
           open == Past(to, {" "})
           close == Find(open, {")"})
           end == IF At(close) = ")" THEN close + 1 ELSE close
<1>1. At(pos) \in Alpha
  BY DEF LexWord
<1>2. LineTo(pos)
  BY <1>1, Alphabet, LineToHere
<1>3. "nl" \notin Alnum \cup {"^", "#"} /\ "nl" \notin {" "}
  BY Alphabet
<1>4. LineTo(to)
  BY <1>2, <1>3, LineToPast
<1>5. (\E type : Emit(type, to)) \/ Emit("TYPE_KEYWORD", end)
  BY DEF LexWord
<1> HIDE DEF to
<1>6. LineTo(open)
  BY <1>3, <1>4, LineToPast
<1> HIDE DEF open
<1>7. end \in Nat /\ end >= pos /\ end <= Len(source) + 1
  <2>1. /\ source \in Seq(STRING) /\ pos \in Nat /\ pos >= 1
        /\ Len(source) \in Nat /\ open \in pos .. Len(source) + 1
    BY <1>6, Here DEF LineTo
  <2>2. open \in 1 .. Len(source) + 1
    BY <2>1
  <2>3. close \in open .. Len(source) + 1
    BY <2>1, <2>2, FindFacts
  <2>4. At(close) = ")" => close \in 1 .. Len(source)
    BY <2>1, AtFacts
  <2> HIDE DEF close
  <2>5. close \in Nat /\ close >= pos
    BY <2>1, <2>3
  <2> QED
    BY <2>1, <2>3, <2>4, <2>5
<1> HIDE DEF end
<1>8. CASE \E type : Emit(type, to)
  BY <1>4, <1>8, LineStep
<1>9. CASE Emit("TYPE_KEYWORD", end)
  BY <1>7, <1>9, EmitStep
<1> QED
  BY <1>5, <1>8, <1>9

LEMMA OtherText ==
  ASSUME NEW t, NEW a, NEW b, NEW c, NEW d, NEW longer,
         t = [type |-> a, text |-> b, at |-> c, to |-> d]
  PROVE  [t EXCEPT !.text = longer] = [type |-> a, text |-> longer, at |-> c, to |-> d]
OBVIOUS

LEMMA OtherEnd ==
  ASSUME NEW t, NEW a, NEW b, NEW c, NEW d, NEW to,
         t = [type |-> a, text |-> b, at |-> c, to |-> d]
  PROVE  [t EXCEPT !.to = to] = [type |-> a, text |-> b, at |-> c, to |-> to]
OBVIOUS

(* A caret and a word continue the name before it, or begin one.           *)
LEMMA CaretStep ==
  ASSUME LexInv, LexCaret
  PROVE  LexInv'
<1> DEFINE to == Past(pos + 1, Alnum)
           name == SubSeq(source, pos, to - 1)
           t == Last(tokens)
           y == [t EXCEPT !.text = @ \o name, !.to = to]
<1>1. /\ At(pos) = "^"
      /\ \/ \E type : Emit(type, to)
         \/ /\ to # pos + 1 /\ LastType = "IDENT"
            /\ tokens' = Append(Front(tokens), y)
            /\ pos' = to /\ UNCHANGED <<source, errors>>
  BY DEF LexCaret
<1>2. LineTo(pos) /\ LineTo(pos + 1)
  BY <1>1, LineToHere, LineToNext
<1>3. LineTo(to) /\ to >= pos + 1
  BY <1>2, Alphabet, LineToPast
<1>4. CASE \E type : Emit(type, to)
  <2> HIDE DEF to
  <2> QED
    BY <1>3, <1>4, LineStep
<1>5. CASE /\ to # pos + 1 /\ LastType = "IDENT"
           /\ tokens' = Append(Front(tokens), y)
           /\ pos' = to /\ UNCHANGED <<source, errors>>
  <2> HIDE DEF to
  <2>1. /\ source \in Seq(STRING) /\ pos \in Nat /\ pos >= 1 /\ Len(source) \in Nat
        /\ to \in pos .. Len(source) + 1 /\ to \in Nat /\ to > pos
    BY <1>3, Here DEF LineTo
  <2>2. Len(tokens) \in Nat /\ Len(tokens) >= 1
    <3>1. tokens # <<>> /\ tokens \in Seq(Range(tokens))
      BY <1>5 DEF LastType, LexInv, LexType, IsSequence
    <3> QED
      BY <3>1, LenProperties, EmptySeq
  <2>3. Len(tokens) \in 1 .. Len(tokens) /\ t = tokens[Len(tokens)]
    BY <2>2 DEF Last
  <2>4. t.type = "IDENT"
    BY <1>5 DEF LastType
  <2>5. IsToken(t)
    BY <2>3 DEF LexInv, TextsInv
  <2>6. name \in Seq(STRING) /\ Len(name) >= 1 /\ Len(name) \in Nat /\ name[1] = "^"
    <3> DEFINE b == to - 1
    <3>1. b \in Int /\ pos \in Int /\ pos <= b /\ 1 \in 1 .. b - pos + 1
          /\ b - pos + 1 \in Nat /\ pos + 1 - 1 = pos /\ pos \in 1 .. Len(source)
          /\ \A i \in pos .. b : i \in 1 .. Len(source)
      BY <2>1
    <3>2. \A i \in pos .. b : source[i] \in STRING
      BY <2>1, <3>1, ElementOfSeq
    <3>3. name = SubSeq(source, pos, b)
      OBVIOUS
    <3> HIDE DEF b, name
    <3>4. /\ name \in Seq(STRING) /\ Len(name) = b - pos + 1
          /\ name[1] = source[pos]
      BY <3>1, <3>2, <3>3, SubSeqProperties
    <3>5. source[pos] = "^"
      BY <1>1, <2>1, <3>1, AtFacts
    <3> QED
      BY <3>1, <3>4, <3>5
  <2> HIDE DEF name, t
  <2>7. t.text \in Seq(STRING)
    BY <2>5 DEF IsToken
  <2>8. t.text \o name \in Seq(STRING) /\ "^" \in ToSet(t.text \o name)
    <3> DEFINE n == Len(t.text) + 1
               whole == t.text \o name
    <3>1. Len(t.text) \in Nat
      BY <2>7, LenProperties
    <3>2. /\ whole \in Seq(STRING) /\ Len(whole) = Len(t.text) + Len(name)
          /\ \A i \in 1 .. Len(t.text) + Len(name) :
               whole[i] = IF i <= Len(t.text) THEN t.text[i]
                                              ELSE name[i - Len(t.text)]
      BY <2>6, <2>7, ConcatProperties
    <3> HIDE DEF whole
    <3>3. n \in 1 .. Len(t.text) + Len(name) /\ ~(n <= Len(t.text))
          /\ n - Len(t.text) = 1
      BY <2>6, <3>1
    <3>4. whole[n] = "^"
      BY <2>6, <3>2, <3>3
    <3>5. DOMAIN whole = 1 .. Len(whole)
      BY <3>2, LenProperties
    <3>6. "^" \in ToSet(whole)
      BY <3>2, <3>3, <3>4, <3>5 DEF ToSet
    <3> QED
      BY <3>2, <3>6 DEF whole
  <2>9. /\ y.at = t.at /\ y.to = to /\ y.type = "IDENT"
        /\ y.text = t.text \o name /\ IsToken(y)
    <3>1. t = [type |-> t.type, text |-> t.text, at |-> t.at, to |-> t.to]
      BY <2>5 DEF IsToken
    <3>2. y = [type |-> t.type, text |-> t.text \o name, at |-> t.at, to |-> to]
      <4> DEFINE a == t.type
                 b == t.text
                 c == t.at
                 d == t.to
      <4>1. t = [type |-> a, text |-> b, at |-> c, to |-> d]
        BY <3>1
      <4> DEFINE longer == b \o name
                 u == [t EXCEPT !.text = longer]
      <4>2. y = [t EXCEPT !.text = longer, !.to = to]
        OBVIOUS
      <4> HIDE DEF a, b, c, d, y, longer
      <4>3. y = [u EXCEPT !.to = to]
        BY <4>2
      <4>4. u = [type |-> a, text |-> longer, at |-> c, to |-> d]
        BY <4>1, OtherText
      <4> HIDE DEF u
      <4>5. y = [type |-> a, text |-> longer, at |-> c, to |-> to]
        BY <4>3, <4>4, OtherEnd
      <4> QED
        BY <4>5, Zenon DEF a, b, c, longer
    <3> HIDE DEF y
    <3> QED
      BY <2>4, <2>8, <3>2 DEF IsToken
  <2> HIDE DEF y
  <2>10. MayBreak(y)
    BY <2>8, <2>9 DEF MayBreak
  <2>11. y.at = tokens[Len(tokens)].at /\ to >= pos
    BY <2>1, <2>3, <2>9
  <2> QED
    BY <1>5, <2>1, <2>2, <2>9, <2>10, <2>11, ContinueKeeps
<1> HIDE DEF to, y, t
<1> QED
  BY <1>1, <1>4, <1>5

LEMMA UnknownStep ==
  ASSUME LexInv, LexUnknown
  PROVE  LexInv'
<1>1. Reject(pos + 1)
  BY DEF LexUnknown
<1>2. pos + 1 \in Nat /\ pos + 1 >= pos
  BY Here
<1> QED
  BY <1>1, <1>2, RejectStep

(* The end-of-text token is empty.                                         *)
LEMMA EndStep ==
  ASSUME LexInv, EndOfText
  PROVE  LexInv'
<1> DEFINE x == Token("EOF", pos)
<1>1. tokens' = Append(tokens, x) /\ pos' = pos /\ UNCHANGED <<source, errors>>
  BY DEF EndOfText
<1>2. source \in Seq(STRING) /\ pos \in Nat /\ pos >= 1 /\ Len(source) \in Nat
  BY Here
<1>3. IsToken(x) /\ x.at = pos /\ x.to = pos
  <2> DEFINE b == pos - 1
  <2>1. b \in Int /\ pos \in Int /\ \A i \in pos .. b : FALSE
    BY <1>2
  <2> HIDE DEF b
  <2>2. SubSeq(source, pos, b) \in Seq(STRING)
    BY <2>1, SubSeqProperties
  <2> QED
    BY <2>2 DEF IsToken, Token, b
<1>4. pos >= pos /\ OnOneLine(source, pos, pos)
  BY <1>2 DEF OnOneLine
<1> HIDE DEF x
<1> QED
  BY <1>1, <1>2, <1>3, <1>4, EmitKeeps

-----------------------------------------------------------------------------
(***************************************************************************)
(* The invariant, and what it says.                                        *)
(***************************************************************************)

LEMMA InitKeeps ==
  ASSUME Init
  PROVE  LexInv
<1>1. source \in Seq(STRING)
  BY TokensAssumption DEF Init
<1>2. pos = 1 /\ tokens = <<>> /\ errors = <<>>
  BY DEF Init
<1>3. IsSequence(<<>>) /\ Len(<<>>) = 0
  <2>1. <<>> \in Seq(Range(<<>>)) /\ Len(<<>>) = 0
    BY EmptySeq
  <2> QED
    BY <2>1 DEF IsSequence
<1> QED
  BY <1>1, <1>2, <1>3
     DEF LexInv, LexType, SpansInv, Behind, OrderInv, LinesInv, ReadInv, TextsInv

LEMMA NextKeeps ==
  ASSUME LexInv, [Next]_vars
  PROVE  LexInv'
<1>1. CASE SkipBlank
  BY <1>1, BlankStep
<1>2. CASE SkipComment
  BY <1>2, CommentStep
<1>3. CASE LexBangDefine
  BY <1>3, BangDefineStep
<1>4. CASE LexDirective
  BY <1>4, DirectiveStep
<1>5. CASE LexDollar
  BY <1>5, DollarStep
<1>6. CASE LexString
  BY <1>6, StringStep
<1>7. CASE LexPrime
  BY <1>7, PrimeStep
<1>8. CASE LexNumber
  BY <1>8, NumberStep
<1>9. CASE LexWord
  BY <1>9, WordStep
<1>10. CASE LexCaret
  BY <1>10, CaretStep
<1>11. CASE LexPunctuation
  BY <1>11, PunctuationStep
<1>12. CASE LexUnknown
  BY <1>12, UnknownStep
<1>13. CASE EndOfText
  BY <1>13, EndStep
<1>14. CASE SkipDefine \/ Yield \/ EndOfStream \/ UNCHANGED vars
  <2>1. UNCHANGED <<lexVars, pos>>
    BY <1>14 DEF SkipDefine, Yield, EndOfStream, vars
  <2> QED
    BY <2>1, SameLexing
<1> QED
  BY <1>1, <1>2, <1>3, <1>4, <1>5, <1>6, <1>7, <1>8, <1>9, <1>10, <1>11, <1>12,
     <1>13, <1>14 DEF Next, Lex

LEMMA SpansAre ==
  ASSUME LexInv, NEW k \in Nat
  PROVE  /\ Covered(k) <=> Spanned(tokens, k)
         /\ Refused(k) <=> Spanned(errors, k)
<1>1. /\ DOMAIN tokens = 1 .. Len(tokens) /\ DOMAIN errors = 1 .. Len(errors)
      /\ Behind(tokens, pos) /\ Behind(errors, pos)
  BY LenProperties DEF LexInv, LexType, SpansInv, IsSequence
<1>2. \A a, b \in Nat : k \in a .. b - 1 <=> a <= k /\ k < b
  OBVIOUS
<1> QED
  BY <1>1, <1>2 DEF Covered, Refused, Spanned, Behind

LEMMA NothingIs ==
  ASSUME LexInv
  PROVE  NothingSwallowed
<1>1. /\ DOMAIN tokens = 1 .. Len(tokens)
      /\ source \in Seq(STRING) /\ pos \in Nat /\ pos >= 1
  BY LenProperties DEF LexInv, LexType, IsSequence
<1>2. ASSUME NEW k \in 1 .. pos - 1
      PROVE  \/ At(k) \in {" ", "nl"} \/ Covered(k) \/ Refused(k)
             \/ \E j \in 1 .. k : /\ \A i \in j .. k : At(i) # "nl"
                                  /\ ~Covered(j) /\ ~Refused(j)
                                  /\ \/ At(j) = "!"
                                     \/ At(j) = "-" /\ At(j + 1) = "-"
  <2>1. Accounted(source, tokens, errors, k)
    BY DEF LexInv, ReadInv
  <2>2. k \in Nat /\ \A j \in 1 .. k : j \in Nat
    BY <1>1
  <2>3. CASE PieceOf(source, k) \in {" ", "nl"}
    BY <1>1, <2>3, AtFacts
  <2>4. CASE Spanned(tokens, k) \/ Spanned(errors, k)
    BY <2>2, <2>4, SpansAre
  <2>5. CASE Marked(source, tokens, errors, k)
    <3>1. PICK j \in 1 .. k : /\ \A i \in j .. k : PieceOf(source, i) # "nl"
                              /\ ~Spanned(tokens, j) /\ ~Spanned(errors, j)
                              /\ \/ PieceOf(source, j) = "!"
                                 \/ /\ PieceOf(source, j) = "-"
                                    /\ PieceOf(source, j + 1) = "-"
      BY <2>5 DEF Marked
    <3>2. ~Covered(j) /\ ~Refused(j)
      BY <2>2, <3>1, SpansAre
    <3>3. \A i : At(i) = PieceOf(source, i)
      BY <1>1, AtFacts
    <3> QED
      BY <3>1, <3>2, <3>3
  <2> QED
    BY <2>1, <2>3, <2>4, <2>5 DEF Accounted
<1>3. \A m, n \in DOMAIN tokens : m < n => tokens[m].to <= tokens[n].at
  BY <1>1 DEF LexInv, OrderInv
<1>4. ASSUME NEW n \in DOMAIN tokens
      PROVE  \/ tokens[n].type \in {"TYPE_KEYWORD", "MOVE_RL"}
             \/ tokens[n].type = "IDENT" /\ "^" \in ToSet(tokens[n].text)
             \/ \A k \in tokens[n].at .. tokens[n].to - 1 : At(k) # "nl"
  <2>1. MayBreak(tokens[n]) \/ OnOneLine(source, tokens[n].at, tokens[n].to)
    BY <1>1 DEF LexInv, LinesInv
  <2>2. \A k : At(k) = PieceOf(source, k)
    BY <1>1, AtFacts
  <2> QED
    BY <2>1, <2>2 DEF MayBreak, OnOneLine
<1> QED
  BY <1>2, <1>3, <1>4 DEF NothingSwallowed

-----------------------------------------------------------------------------
(***************************************************************************)
(* The theorems.                                                           *)
(***************************************************************************)

(* Whatever the text, the lexer keeps account of every piece it has read,  *)
(* its tokens are in text order and their spans behind its position        *)
(* (Lexer.tokenize).                                                       *)
THEOREM TextAccounted == Spec => []LexInv
<1>1. Init => LexInv
  BY InitKeeps
<1>2. LexInv /\ [Next]_vars => LexInv'
  BY NextKeeps
<1> QED
  BY <1>1, <1>2, PTL DEF Spec

(* Whatever the text, no code is swallowed: what has been read and is no   *)
(* blank is in a token, in a reported error, or behind a comment mark on   *)
(* its own line; and only a sized type, a name continued with a caret and  *)
(* the '=: go over a line end (Lexer.tokenize).                            *)
THEOREM TextNeverSwallowed == Spec => []NothingSwallowed
<1>1. LexInv => NothingSwallowed
  BY NothingIs
<1> QED
  BY <1>1, TextAccounted, PTL
===============================================================================

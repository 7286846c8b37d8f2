--------------------------- MODULE QParamsProofs ----------------------------
(***************************************************************************)
(* Proofs about module QParams, for tuples and texts of any length.  Each  *)
(* loop of the model is shown to be a fold (see NatRecursion), so that the *)
(* proofs below only need what it does with one element more.              *)
(***************************************************************************)
EXTENDS QParams, NatRecursion

TextChars == {"quote", "letter"}
Escaped(ch) == IF ch = "quote" THEN <<"quote", "quote">> ELSE <<ch>>

LEMMA SequencesOf ==
    ASSUME NEW C
    PROVE  /\ <<>> \in Seq(C)
           /\ \A a \in C : <<a>> \in Seq(C)
           /\ \A a, b \in C : <<a, b>> \in Seq(C)
           /\ \A s, t \in Seq(C) : s \o t \in Seq(C)
           /\ \A s \in Seq(C), c \in C : Append(s, c) \in Seq(C)
OBVIOUS

LEMMA EscapedTyped == \A ch \in TextChars : Escaped(ch) \in Seq(TextChars)
BY SequencesOf DEF Escaped
-----------------------------------------------------------------------------
(* escapeString.                                                           *)

IsEscaped(e, str) ==
    e = [n \in 0..Len(str) |->
           IF n = 0 THEN <<>>
           ELSE e[n - 1] \o (IF str[n] = "quote" THEN <<"quote", "quote">> ELSE <<str[n]>>)]

LEMMA EscapeIsFold ==
    ASSUME NEW step \in [Seq(TextChars) -> [TextChars -> Seq(TextChars)]],
           \A x \in Seq(TextChars), ch \in TextChars : step[x][ch] = x \o Escaped(ch),
           NEW str \in Seq(TextChars)
    PROVE  \E e : escapeString(str) = e[Len(str)] /\ IsFold(e, <<>>, step, str)
<1>. DEFINE N == Len(str)
            X == Seq(TextChars)
<1>1. /\ N \in Nat /\ 0 \in 0..N
      /\ \A n \in 1..N : str[n] \in TextChars /\ n \in 0..N /\ n # 0
      /\ \A n \in 0..N : n # 0 => n \in 1..N /\ n - 1 \in 0..N
    OBVIOUS
<1>2. <<>> \in X
    OBVIOUS
<1>3. ASSUME NEW e, \A n \in 0..N : e[n] \in X
      PROVE  IsEscaped(e, str) <=> IsFold(e, <<>>, step, str)
  <2>1. \A n \in 0..N : n # 0 => step[e[n - 1]][str[n]] = e[n - 1] \o Escaped(str[n])
      BY <1>1, <1>3
  <2>. QED  BY <2>1 DEF IsEscaped, IsFold, Escaped
<1>4. PICK f \in [0..N -> X] : IsFold(f, <<>>, step, str)
    BY <1>2, FoldIsDefined, Zenon
<1>5. IsEscaped(f, str)
    BY <1>3, <1>4
<1>. DEFINE e == CHOOSE g : IsEscaped(g, str)
<1>6. IsEscaped(e, str)
    BY <1>5, Zenon
<1>7. escapeString(str) = e[N]
    BY DEF escapeString, IsEscaped
<1>. HIDE DEF e
<1>8. \A n \in 0..N : e[n] \in X
  <2>. DEFINE S == {n \in 0..N : e[n] \in X}
  <2>1. 0 \in S
      BY <1>1, <1>2, <1>6 DEF IsEscaped
  <2>2. ASSUME NEW n \in 1..N, n - 1 \in S PROVE n \in S
    <3>1. e[n] = e[n - 1] \o Escaped(str[n])
        BY <1>1, <1>6 DEF IsEscaped, Escaped
    <3>2. Escaped(str[n]) \in X
        BY <1>1, EscapedTyped
    <3>3. e[n - 1] \in X
        BY <2>2
    <3>4. e[n] \in X
        BY <3>1, <3>2, <3>3, SequencesOf
    <3>. QED  BY <1>1, <3>4
  <2>. HIDE DEF S
  <2>3. \A n \in 0..N : n \in S
      BY <1>1, <2>1, <2>2, RoundByRound, Zenon
  <2>. QED  BY <2>3 DEF S
<1>. QED  BY <1>3, <1>6, <1>7, <1>8

(* A character more adds itself, or two quotes.                            *)
LEMMA EscapeStep ==
    /\ escapeString(<<>>) = <<>>
    /\ \A str \in Seq(TextChars) :
          /\ escapeString(str) \in Seq(TextChars)
          /\ \A ch \in TextChars :
                escapeString(Append(str, ch)) = escapeString(str) \o Escaped(ch)
<1>. DEFINE X    == Seq(TextChars)
            Step == [x \in X |-> [ch \in TextChars |-> x \o Escaped(ch)]]
<1>1. PICK step \in [X -> [TextChars -> X]] : step = Step
  <2>1. \A x \in X, ch \in TextChars : x \o Escaped(ch) \in X
      BY EscapedTyped, SequencesOf
  <2>. HIDE DEF X
  <2>. QED  BY <2>1
<1>2. \A x \in X, ch \in TextChars : step[x][ch] = x \o Escaped(ch)
    BY <1>1
<1>3. <<>> \in X
    OBVIOUS
<1>4. PICK F \in [X -> X] : IsResult(F, TextChars, <<>>, step)
    BY <1>3, FoldResult, Zenon
<1>5. \A str \in X : escapeString(str) = F[str]
    BY <1>2, <1>4, EscapeIsFold DEF IsResult
<1>6. ASSUME NEW str \in X, NEW ch \in TextChars
      PROVE  escapeString(Append(str, ch)) = escapeString(str) \o Escaped(ch)
  <2>1. Append(str, ch) \in X /\ F[str] \in X
      BY SequencesOf
  <2>2. F[Append(str, ch)] = step[F[str]][ch]
      BY <1>4 DEF IsResult
  <2>. QED  BY <1>2, <1>5, <2>1, <2>2
<1>7. escapeString(<<>>) = <<>>
    BY <1>3, <1>4, <1>5 DEF IsResult
<1>8. \A str \in X : escapeString(str) \in X
    BY <1>5
<1>. QED  BY <1>6, <1>7, <1>8
-----------------------------------------------------------------------------
(* The values that are written.                                            *)

IsWanted(w, vals) ==
    w = [n \in 0..Len(vals) |->
           IF n = 0 THEN <<>>
           ELSE IF vals[n].type \in Supported THEN Append(w[n - 1], vals[n])
           ELSE w[n - 1]]

SupportedValues == {v \in Values : v.type \in Supported}

LEMMA WrittenIsFold ==
    ASSUME NEW step \in [Seq(SupportedValues) -> [Values -> Seq(SupportedValues)]],
           \A x \in Seq(SupportedValues), v \in Values :
              step[x][v] = IF v.type \in Supported THEN Append(x, v) ELSE x,
           NEW vals \in Seq(Values)
    PROVE  \E w : WrittenOf(vals) = w[Len(vals)] /\ IsFold(w, <<>>, step, vals)
<1>. DEFINE N == Len(vals)
            X == Seq(SupportedValues)
<1>1. /\ N \in Nat /\ 0 \in 0..N
      /\ \A n \in 1..N : vals[n] \in Values /\ n \in 0..N /\ n # 0
      /\ \A n \in 0..N : n # 0 => n \in 1..N /\ n - 1 \in 0..N
    OBVIOUS
<1>2. <<>> \in X
    OBVIOUS
<1>3. ASSUME NEW w, \A n \in 0..N : w[n] \in X
      PROVE  IsWanted(w, vals) <=> IsFold(w, <<>>, step, vals)
  <2>1. \A n \in 0..N : n # 0 =>
           step[w[n - 1]][vals[n]] = IF vals[n].type \in Supported THEN Append(w[n - 1], vals[n])
                                     ELSE w[n - 1]
      BY <1>1, <1>3
  <2>. QED  BY <2>1 DEF IsWanted, IsFold
<1>4. PICK f \in [0..N -> X] : IsFold(f, <<>>, step, vals)
    BY <1>2, FoldIsDefined, Zenon
<1>5. IsWanted(f, vals)
    BY <1>3, <1>4
<1>. DEFINE w == CHOOSE g : IsWanted(g, vals)
<1>6. IsWanted(w, vals)
    BY <1>5, Zenon
<1>7. WrittenOf(vals) = w[N]
    BY DEF WrittenOf, IsWanted
<1>. HIDE DEF w
<1>8. \A n \in 0..N : w[n] \in X
  <2>. DEFINE S == {n \in 0..N : w[n] \in X}
  <2>1. 0 \in S
      BY <1>1, <1>2, <1>6 DEF IsWanted
  <2>2. ASSUME NEW n \in 1..N, n - 1 \in S PROVE n \in S
    <3>1. w[n] = IF vals[n].type \in Supported THEN Append(w[n - 1], vals[n]) ELSE w[n - 1]
        BY <1>1, <1>6 DEF IsWanted
    <3>2. vals[n].type \in Supported => vals[n] \in SupportedValues
        BY <1>1 DEF SupportedValues
    <3>3. w[n - 1] \in X
        BY <2>2
    <3>4. w[n] \in X
      <4>1. CASE vals[n].type \in Supported
        <5>1. w[n] = Append(w[n - 1], vals[n]) /\ vals[n] \in SupportedValues
            BY <3>1, <3>2, <4>1
        <5>. QED  BY <3>3, <5>1, SequencesOf
      <4>2. CASE vals[n].type \notin Supported
          BY <3>1, <3>3, <4>2
      <4>. QED  BY <4>1, <4>2
    <3>. QED  BY <1>1, <3>4
  <2>. HIDE DEF S
  <2>3. \A n \in 0..N : n \in S
      BY <1>1, <2>1, <2>2, RoundByRound, Zenon
  <2>. QED  BY <2>3 DEF S
<1>. QED  BY <1>3, <1>6, <1>7, <1>8

LEMMA WrittenStep ==
    /\ WrittenOf(<<>>) = <<>>
    /\ \A vals \in Seq(Values) :
          /\ WrittenOf(vals) \in Seq(SupportedValues)
          /\ \A v \in Values :
                WrittenOf(Append(vals, v)) =
                   IF v.type \in Supported THEN Append(WrittenOf(vals), v) ELSE WrittenOf(vals)
<1>. DEFINE X    == Seq(SupportedValues)
            Step == [x \in X |-> [v \in Values |->
                       IF v.type \in Supported THEN Append(x, v) ELSE x]]
<1>1. PICK step \in [X -> [Values -> X]] : step = Step
  <2>1. \A v \in Values : v.type \in Supported => v \in SupportedValues
      BY DEF SupportedValues
  <2>2. \A x \in X, v \in Values : (IF v.type \in Supported THEN Append(x, v) ELSE x) \in X
      BY <2>1, SequencesOf
  <2>. HIDE DEF X
  <2>. QED  BY <2>2
<1>2. \A x \in X, v \in Values : step[x][v] = IF v.type \in Supported THEN Append(x, v) ELSE x
    BY <1>1
<1>3. <<>> \in X /\ <<>> \in Seq(Values)
    OBVIOUS
<1>4. PICK F \in [Seq(Values) -> X] : IsResult(F, Values, <<>>, step)
    BY <1>3, FoldResult, Zenon
<1>5. ASSUME NEW vals \in Seq(Values) PROVE WrittenOf(vals) = F[vals]
  <2>1. PICK w : WrittenOf(vals) = w[Len(vals)] /\ IsFold(w, <<>>, step, vals)
      BY <1>2, WrittenIsFold
  <2>. QED  BY <1>4, <2>1 DEF IsResult
<1>6. ASSUME NEW vals \in Seq(Values), NEW v \in Values
      PROVE  WrittenOf(Append(vals, v)) =
                IF v.type \in Supported THEN Append(WrittenOf(vals), v) ELSE WrittenOf(vals)
  <2>1. Append(vals, v) \in Seq(Values) /\ F[vals] \in X
      BY SequencesOf
  <2>2. F[Append(vals, v)] = step[F[vals]][v]
      BY <1>4 DEF IsResult
  <2>. QED  BY <1>2, <1>5, <2>1, <2>2
<1>7. WrittenOf(<<>>) = <<>>
    BY <1>3, <1>4, <1>5 DEF IsResult
<1>8. \A vals \in Seq(Values) : WrittenOf(vals) \in X
    BY <1>5
<1>. QED  BY <1>6, <1>7, <1>8
-----------------------------------------------------------------------------
(* Inside and outside the quotes.                                          *)

Sides == {"outside", "inside"}

IsSide(f, chars) ==
    f = [n \in 0..Len(chars) |->
           IF n = 0 THEN "outside"
           ELSE IF chars[n] = "quote" THEN Turned(f[n - 1]) ELSE f[n - 1]]

LEMMA SideIsFold ==
    ASSUME NEW turn \in [Sides -> [Chars -> Sides]],
           \A x \in Sides, ch \in Chars :
              turn[x][ch] = IF ch = "quote" THEN Turned(x) ELSE x,
           NEW chars \in Seq(Chars)
    PROVE  IsFold(Side(chars), "outside", turn, chars) /\ Side(chars) \in [0..Len(chars) -> Sides]
<1>. DEFINE N == Len(chars)
<1>1. /\ N \in Nat /\ 0 \in 0..N
      /\ \A n \in 1..N : chars[n] \in Chars /\ n \in 0..N /\ n # 0
      /\ \A n \in 0..N : n # 0 => n \in 1..N /\ n - 1 \in 0..N
    OBVIOUS
<1>2. "outside" \in Sides
    BY DEF Sides
<1>3. ASSUME NEW f, \A n \in 0..N : f[n] \in Sides
      PROVE  IsSide(f, chars) <=> IsFold(f, "outside", turn, chars)
  <2>1. \A n \in 0..N : n # 0 =>
           turn[f[n - 1]][chars[n]] = IF chars[n] = "quote" THEN Turned(f[n - 1]) ELSE f[n - 1]
      BY <1>1, <1>3
  <2>. QED  BY <2>1 DEF IsSide, IsFold
<1>4. PICK f \in [0..N -> Sides] : IsFold(f, "outside", turn, chars)
    BY <1>2, FoldIsDefined, Zenon
<1>5. IsSide(f, chars)
    BY <1>3, <1>4
<1>6. IsSide(Side(chars), chars)
  <2>. DEFINE g == CHOOSE h : IsSide(h, chars)
  <2>1. IsSide(g, chars)
      BY <1>5, Zenon
  <2>2. Side(chars) = g
      BY DEF Side, IsSide
  <2>. QED  BY <2>1, <2>2
<1>7. \A n \in 0..N : Side(chars)[n] \in Sides
  <2>. DEFINE S == {n \in 0..N : Side(chars)[n] \in Sides}
  <2>1. 0 \in S
      BY <1>1, <1>2, <1>6 DEF IsSide
  <2>2. ASSUME NEW n \in 1..N, n - 1 \in S PROVE n \in S
    <3>1. Side(chars)[n] = IF chars[n] = "quote" THEN Turned(Side(chars)[n - 1])
                           ELSE Side(chars)[n - 1]
        BY <1>1, <1>6 DEF IsSide
    <3>2. Side(chars)[n] \in Sides
        BY <2>2, <3>1 DEF Turned, Sides
    <3>. QED  BY <1>1, <3>2
  <2>. HIDE DEF S
  <2>3. \A n \in 0..N : n \in S
      BY <1>1, <2>1, <2>2, RoundByRound, Zenon
  <2>. QED  BY <2>3 DEF S
<1>8. Side(chars) \in [0..N -> Sides]
    BY <1>6, <1>7 DEF IsSide
<1>. QED  BY <1>3, <1>6, <1>7, <1>8

(* chars keeps its texts inside the quotes, and ends on the side.          *)
Quoted(chars, side) ==
    /\ chars \in Seq(Chars)
    /\ \A n \in 1..Len(chars) : chars[n] = "letter" => Side(chars)[n] = "inside"
    /\ \A n \in 1..Len(chars) : chars[n] \in {"digit", "comma"} => Side(chars)[n] = "outside"
    /\ Side(chars)[Len(chars)] = side

(* A character more: a quote changes the side, another one must be on its. *)
LEMMA QuotedStep ==
    /\ Quoted(<<>>, "outside")
    /\ \A chars, side : \A ch \in Chars :
          /\ Quoted(chars, side)
          /\ ch = "letter" => side = "inside"
          /\ ch \in {"digit", "comma"} => side = "outside"
          => Quoted(Append(chars, ch), IF ch = "quote" THEN Turned(side) ELSE side)
<1>. DEFINE Turn == [x \in Sides |-> [ch \in Chars |-> IF ch = "quote" THEN Turned(x) ELSE x]]
<1>1. PICK turn \in [Sides -> [Chars -> Sides]] : turn = Turn
    BY DEF Turned, Sides
<1>2. \A x \in Sides, ch \in Chars : turn[x][ch] = IF ch = "quote" THEN Turned(x) ELSE x
    BY <1>1
<1>3. \A chars \in Seq(Chars) : /\ IsFold(Side(chars), "outside", turn, chars)
                                /\ Side(chars) \in [0..Len(chars) -> Sides]
    BY <1>2, SideIsFold
<1>4. Quoted(<<>>, "outside")
  <2>1. <<>> \in Seq(Chars) /\ Len(<<>>) = 0 /\ 0 \in 0..Len(<<>>)
      OBVIOUS
  <2>2. Side(<<>>)[0] = "outside"
    <3>1. IsFold(Side(<<>>), "outside", turn, <<>>)
        BY <1>3, <2>1
    <3>. QED  BY <2>1, <3>1 DEF IsFold
  <2>. QED  BY <2>1, <2>2 DEF Quoted
<1>5. ASSUME NEW chars, NEW side, NEW ch \in Chars, Quoted(chars, side),
             ch = "letter" => side = "inside",
             ch \in {"digit", "comma"} => side = "outside"
      PROVE  Quoted(Append(chars, ch), IF ch = "quote" THEN Turned(side) ELSE side)
  <2>. DEFINE N    == Len(chars)
              more == Append(chars, ch)
  <2>1. chars \in Seq(Chars) /\ N \in Nat
      BY <1>5 DEF Quoted
  <2>2. /\ more \in Seq(Chars) /\ Len(more) = N + 1 /\ more[N + 1] = ch
        /\ \A n \in 1..N : more[n] = chars[n]
      BY <2>1
  <2>. HIDE DEF more
  <2>3. \A n \in 0..N : Side(more)[n] = Side(chars)[n]
    <3>1. Starts(chars, more)
        BY <2>1, <2>2 DEF Starts
    <3>2. "outside" \in Sides
        BY DEF Sides
    <3>3. IsFold(Side(chars), "outside", turn, chars) /\ IsFold(Side(more), "outside", turn, more)
        BY <1>3, <2>1, <2>2
    <3>4. AgreeUpto(Side(chars), Side(more), N)
        BY <2>1, <2>2, <3>1, <3>2, <3>3, FoldsAgree, Zenon
    <3>. QED  BY <3>4 DEF AgreeUpto
  <2>4. Side(more)[N + 1] = IF ch = "quote" THEN Turned(side) ELSE side
    <3>1. N + 1 \in 0..Len(more) /\ N + 1 # 0 /\ (N + 1) - 1 = N /\ N \in 0..N
        BY <2>1, <2>2
    <3>2. Side(more)[N + 1] = turn[Side(more)[N]][more[N + 1]]
      <4>1. IsFold(Side(more), "outside", turn, more)
          BY <1>3, <2>2
      <4>. HIDE DEF N
      <4>. QED  BY <3>1, <4>1 DEF IsFold
    <3>3. Side(more)[N] = side /\ side \in Sides
        BY <1>3, <1>5, <2>1, <2>3, <3>1 DEF Quoted
    <3>. QED  BY <1>2, <2>2, <3>2, <3>3
  <2>5. ASSUME NEW n \in 1..(N + 1)
        PROVE  /\ more[n] = "letter" => Side(more)[n] = "inside"
               /\ more[n] \in {"digit", "comma"} => Side(more)[n] = "outside"
    <3>1. CASE n = N + 1
        BY <1>5, <2>2, <2>4, <3>1
    <3>2. CASE n # N + 1
      <4>1. n \in 1..N /\ n \in 0..N
          BY <2>1, <3>2
      <4>. QED  BY <1>5, <2>2, <2>3, <4>1 DEF Quoted
    <3>. QED  BY <3>1, <3>2
  <2>. QED  BY <2>2, <2>4, <2>5 DEF Quoted, more
<1>. QED  BY <1>4, <1>5
-----------------------------------------------------------------------------
(* What is written of a value.                                             *)

LEMMA ValueTyped ==
    ASSUME NEW value \in Values
    PROVE  /\ value.type \in TextTypes => value.text \in Seq(TextChars)
           /\ value.type \notin TextTypes => value.text = <<"digit">>
           /\ value.text \in Seq(Chars)
<1>1. Texts \subseteq Seq(TextChars)
    BY QParamsAssumption DEF Texts, BoundedSeq, SeqOf, TextChars
<1>2. Seq(TextChars) \subseteq Seq(Chars)
    BY DEF TextChars, Chars
<1>3. "digit" \in Chars
    BY DEF Chars
<1>4. <<"digit">> \in Seq(Chars)
    BY <1>3, SequencesOf
<1>5. CASE value \in [type : TextTypes, text : Texts]
    BY <1>1, <1>2, <1>5
<1>6. CASE value \in [type : (Supported \ TextTypes) \cup {"array", "other"}, text : {<<"digit">>}]
  <2>1. value.type \notin TextTypes
      BY <1>6 DEF TextTypes, Supported, Typed, Guessed
  <2>. QED  BY <1>4, <1>6, <2>1
<1>. QED  BY <1>5, <1>6 DEF Values

(* Sequences taken apart at the end.                                       *)
LEMMA LastCharacters ==
    ASSUME NEW C, NEW s \in Seq(C), NEW x \in Seq(C), NEW a \in C, NEW b \in C
    PROVE  /\ s \o <<>> = s
           /\ s \o <<a>> = Append(s, a)
           /\ s \o (x \o <<a>>) = Append(s \o x, a)
           /\ s \o (x \o <<a, b>>) = Append(Append(s \o x, a), b)
           /\ s \o (<<a>> \o x) = Append(s, a) \o x
           /\ s \o x \in Seq(C)
<1>1. s \o <<>> = s
    BY ConcatEmptySeq
<1>2. \A t \in Seq(C), c \in C : t \o <<c>> = Append(t, c)
    BY AppendIsConcat
<1>3. <<a>> \in Seq(C) /\ <<b>> \in Seq(C) /\ s \o x \in Seq(C) /\ Append(s \o x, a) \in Seq(C)
    BY SequencesOf
<1>4. s \o (x \o <<a>>) = (s \o x) \o <<a>> /\ s \o (<<a>> \o x) = (s \o <<a>>) \o x
    BY <1>3, ConcatAssociative
<1>5. <<a, b>> = <<a>> \o <<b>>
  <2>1. <<a, b>> = Append(<<a>>, b)
      OBVIOUS
  <2>. QED  BY <1>2, <1>3, <2>1
<1>6. x \o <<a, b>> = (x \o <<a>>) \o <<b>> /\ x \o <<a>> \in Seq(C)
  <2>1. x \o (<<a>> \o <<b>>) = (x \o <<a>>) \o <<b>>
      BY <1>3, ConcatAssociative
  <2>. QED  BY <1>3, <1>5, <2>1, SequencesOf
<1>7. s \o (x \o <<a, b>>) = (s \o (x \o <<a>>)) \o <<b>>
    BY <1>3, <1>6, ConcatAssociative
<1>. QED  BY <1>1, <1>2, <1>3, <1>4, <1>7

(* Character by character, an escaped text grows by one or by two.         *)
LEMMA EscapedGrows ==
    ASSUME NEW s \in Seq(Chars), NEW str \in Seq(TextChars), NEW ch \in TextChars
    PROVE  LET before == s \o escapeString(str) IN
           /\ before \in Seq(Chars)
           /\ s \o escapeString(Append(str, ch)) =
                 IF ch = "quote" THEN Append(Append(before, "quote"), "quote")
                 ELSE Append(before, ch)
<1>1. TextChars \subseteq Chars
    BY DEF TextChars, Chars
<1>2. escapeString(str) \in Seq(Chars)
  <2>1. escapeString(str) \in Seq(TextChars)
      BY EscapeStep
  <2>. QED  BY <1>1, <2>1
<1>3. escapeString(Append(str, ch)) = escapeString(str) \o Escaped(ch)
    BY EscapeStep
<1>4. ch \in Chars
    BY <1>1
<1>. DEFINE x      == escapeString(str)
            before == s \o x
<1>. HIDE DEF x
<1>5. before \in Seq(Chars)
    BY <1>2, SequencesOf DEF x
<1>6. s \o (x \o <<ch>>) = Append(before, ch)
    BY <1>2, <1>4, LastCharacters DEF x
<1>7. ch = "quote" => s \o (x \o <<ch, ch>>) = Append(Append(before, ch), ch)
    BY <1>2, <1>4, LastCharacters DEF x
<1>8. ch = "quote" => s \o escapeString(Append(str, ch)) = Append(Append(before, "quote"), "quote")
    BY <1>3, <1>7 DEF Escaped, x
<1>9. ch # "quote" => s \o escapeString(Append(str, ch)) = Append(before, ch)
    BY <1>3, <1>6 DEF Escaped, x
<1>. QED  BY <1>5, <1>8, <1>9 DEF x
-----------------------------------------------------------------------------
(* No text leaves its quotes.                                              *)

LEMMA EscapedQuoted ==
    ASSUME NEW s, Quoted(s, "inside"), NEW str \in Seq(TextChars)
    PROVE  Quoted(s \o escapeString(str), "inside")
<1>1. s \in Seq(Chars)
    BY DEF Quoted
<1>. DEFINE P == {x \in Seq(TextChars) : Quoted(s \o escapeString(x), "inside")}
<1>2. <<>> \in P
    BY <1>1, EscapeStep, ConcatEmptySeq, SequencesOf
<1>3. ASSUME NEW x \in Seq(TextChars), NEW ch \in TextChars, x \in P PROVE Append(x, ch) \in P
  <2>. DEFINE before == s \o escapeString(x)
  <2>1. Quoted(before, "inside") /\ Append(x, ch) \in Seq(TextChars)
      BY <1>3, SequencesOf
  <2>2. s \o escapeString(Append(x, ch)) =
           IF ch = "quote" THEN Append(Append(before, "quote"), "quote") ELSE Append(before, ch)
      BY <1>1, EscapedGrows
  <2>. HIDE DEF before
  <2>3. CASE ch = "quote"
    <3>1. Quoted(Append(before, "quote"), "outside")
        BY <2>1, QuotedStep DEF Chars, Turned
    <3>2. Quoted(Append(Append(before, "quote"), "quote"), "inside")
        BY <3>1, QuotedStep DEF Chars, Turned
    <3>. QED  BY <2>1, <2>2, <2>3, <3>2
  <2>4. CASE ch = "letter"
    <3>1. Quoted(Append(before, "letter"), "inside")
        BY <2>1, QuotedStep DEF Chars
    <3>. QED  BY <2>1, <2>2, <2>4, <3>1
  <2>. QED  BY <2>3, <2>4 DEF TextChars
<1>. HIDE DEF P
<1>4. \A x \in Seq(TextChars) : x \in P
    BY <1>2, <1>3, OneByOne, Zenon
<1>. QED  BY <1>4 DEF P

(* What follows is text between quotes, or a number.                       *)
LEMMA WrittenText ==
    ASSUME NEW s \in Seq(Chars), NEW value \in Values, value.type \in TextTypes
    PROVE  s \o Written(value) = Append(Append(s, "quote") \o escapeString(value.text), "quote")
<1>1. "quote" \in Chars /\ value.text \in Seq(TextChars)
    BY ValueTyped DEF Chars
<1>2. escapeString(value.text) \in Seq(Chars)
  <2>1. escapeString(value.text) \in Seq(TextChars)
      BY <1>1, EscapeStep
  <2>2. TextChars \subseteq Chars
      BY DEF TextChars, Chars
  <2>. QED  BY <2>1, <2>2
<1>. DEFINE body == escapeString(value.text)
<1>. HIDE DEF body
<1>3. body \in Seq(Chars)
    BY <1>2 DEF body
<1>4. <<"quote">> \in Seq(Chars) /\ <<"quote">> \o body \in Seq(Chars)
    BY <1>1, <1>3, SequencesOf
<1>5. s \o ((<<"quote">> \o body) \o <<"quote">>) = Append(s \o (<<"quote">> \o body), "quote")
    BY <1>1, <1>4, LastCharacters
<1>6. s \o (<<"quote">> \o body) = Append(s, "quote") \o body
    BY <1>1, <1>3, LastCharacters
<1>7. Written(value) = (<<"quote">> \o body) \o <<"quote">>
    BY DEF Written, body
<1>. QED  BY <1>5, <1>6, <1>7 DEF body

LEMMA WrittenNumber ==
    ASSUME NEW s \in Seq(Chars), NEW value \in Values, value.type \notin TextTypes
    PROVE  s \o Written(value) = Append(s, "digit")
<1>1. "digit" \in Chars /\ value.text = <<"digit">>
    BY ValueTyped DEF Chars
<1>2. s \o <<"digit">> = Append(s, "digit")
    BY <1>1, AppendIsConcat
<1>. QED  BY <1>1, <1>2 DEF Written

LEMMA WrittenQuoted ==
    ASSUME NEW s, Quoted(s, "outside"), NEW value \in Values
    PROVE  Quoted(s \o Written(value), "outside")
<1>1. s \in Seq(Chars)
    BY DEF Quoted
<1>2. CASE value.type \in TextTypes
  <2>1. Quoted(Append(s, "quote"), "inside")
      BY QuotedStep DEF Chars, Turned
  <2>2. Quoted(Append(s, "quote") \o escapeString(value.text), "inside")
      BY <1>2, <2>1, ValueTyped, EscapedQuoted
  <2>3. Quoted(Append(Append(s, "quote") \o escapeString(value.text), "quote"), "outside")
    <3>. DEFINE t == Append(s, "quote") \o escapeString(value.text)
    <3>1. Quoted(t, "inside")
        BY <2>2
    <3>. HIDE DEF t
    <3>2. Quoted(Append(t, "quote"), "outside")
        BY <3>1, QuotedStep DEF Chars, Turned
    <3>. QED  BY <3>2 DEF t
  <2>. QED  BY <1>1, <1>2, <2>3, WrittenText
<1>3. CASE value.type \notin TextTypes
  <2>1. Quoted(Append(s, "digit"), "outside")
      BY QuotedStep DEF Chars
  <2>. QED  BY <1>1, <1>3, <2>1, WrittenNumber
<1>. QED  BY <1>2, <1>3

LEMMA SeparatorQuoted ==
    ASSUME NEW s, Quoted(s, "outside")
    PROVE  Quoted(s \o Separator, "outside")
<1>1. s \in Seq(Chars)
    BY DEF Quoted
<1>2. CASE first
    BY <1>1, <1>2, ConcatEmptySeq DEF Separator
<1>3. CASE ~ first
  <2>1. Quoted(Append(s, "comma"), "outside")
      BY QuotedStep DEF Chars
  <2>2. s \o <<"comma">> = Append(s, "comma")
    <3>1. "comma" \in Chars
        BY DEF Chars
    <3>. QED  BY <1>1, <3>1, AppendIsConcat
  <2>. QED  BY <1>3, <2>1, <2>2 DEF Separator
<1>. QED  BY <1>2, <1>3
-----------------------------------------------------------------------------
(* The reader of the server.                                               *)

Modes  == {"value", "number", "text", "closing", "error"}
Items  == Seq(Seq(Chars))
States == [mode : Modes, items : Items]
Start  == [mode |-> "value", items |-> <<>>]

LEMMA AtLastTyped ==
    ASSUME NEW items \in Items, NEW ch \in Chars
    PROVE  /\ AtLast(items, ch) \in Items
           /\ Len(AtLast(items, ch)) = Len(items)
<1>1. \A i \in 1..Len(items) : items[i] \in Seq(Chars) /\ Append(items[i], ch) \in Seq(Chars)
    BY SequencesOf DEF Items
<1>2. DOMAIN items = 1..Len(items) /\ Len(items) \in Nat
    BY DEF Items
<1>3. AtLast(items, ch) = [i \in 1..Len(items) |->
                             IF i = Len(items) THEN Append(items[i], ch) ELSE items[i]]
    BY <1>2 DEF AtLast
<1>4. AtLast(items, ch) \in [1..Len(items) -> Seq(Chars)]
    BY <1>1, <1>3
<1>5. DOMAIN AtLast(items, ch) = 1..Len(items)
    BY <1>3
<1>. QED  BY <1>2, <1>4, <1>5 DEF Items

LEMMA AtLastOfAppend ==
    ASSUME NEW items \in Items, NEW t \in Seq(Chars), NEW ch \in Chars
    PROVE  AtLast(Append(items, t), ch) = Append(items, Append(t, ch))
<1>. DEFINE N   == Len(items)
            new == Append(items, Append(t, ch))
            old == Append(items, t)
            it  == [i \in 1..(N + 1) |-> IF i = N + 1 THEN Append(t, ch) ELSE items[i]]
<1>1. Append(t, ch) \in Seq(Chars)
    BY SequencesOf
<1>2. /\ old \in Items /\ Len(old) = N + 1 /\ old[N + 1] = t /\ \A i \in 1..N : old[i] = items[i]
      /\ N \in Nat
    BY AppendProperties DEF Items
<1>3. /\ new \in Items /\ Len(new) = N + 1 /\ new[N + 1] = Append(t, ch)
      /\ \A i \in 1..N : new[i] = items[i]
    BY <1>1, AppendProperties DEF Items
<1>. HIDE DEF old, new
<1>4. AtLast(old, ch) = it
  <2>1. DOMAIN old = 1..(N + 1)
      BY <1>2 DEF Items
  <2>2. AtLast(old, ch) = [i \in 1..(N + 1) |-> IF i = N + 1 THEN Append(old[N + 1], ch) ELSE old[i]]
      BY <1>2, <2>1 DEF AtLast
  <2>3. \A i \in 1..(N + 1) : i # N + 1 => i \in 1..N
      BY <1>2
  <2>. QED  BY <1>2, <2>2, <2>3
<1>5. new = it
  <2>1. new = [i \in 1..(N + 1) |-> new[i]]
      BY <1>3 DEF Items
  <2>2. \A i \in 1..(N + 1) : i # N + 1 => i \in 1..N
      BY <1>2
  <2>. QED  BY <1>3, <2>1, <2>2
<1>6. AtLast(old, ch) = new
    BY <1>4, <1>5
<1>. QED  BY <1>6 DEF old, new

LEMMA ReadCharTyped ==
    ASSUME NEW st \in States, NEW ch \in Chars
    PROVE  ReadChar(st, ch) \in States
<1>1. st.mode \in Modes /\ st.items \in Items
    BY DEF States
<1>2. /\ AtLast(st.items, ch) \in Items
      /\ Append(st.items, <<ch>>) \in Items
      /\ Append(st.items, <<>>) \in Items
    BY <1>1, AtLastTyped, SequencesOf DEF Items
<1>. QED  BY <1>1, <1>2 DEF ReadChar, States, Modes

IsRead(r, chars) ==
    r = [n \in 0..Len(chars) |->
           IF n = 0 THEN Start ELSE ReadChar(r[n - 1], chars[n])]

LEMMA ReadIsFold ==
    ASSUME NEW step \in [States -> [Chars -> States]],
           \A x \in States, ch \in Chars : step[x][ch] = ReadChar(x, ch),
           NEW chars \in Seq(Chars)
    PROVE  \E r : ReadList(chars) = r[Len(chars)] /\ IsFold(r, Start, step, chars)
<1>. DEFINE N == Len(chars)
<1>1. /\ N \in Nat /\ 0 \in 0..N
      /\ \A n \in 1..N : chars[n] \in Chars /\ n \in 0..N /\ n # 0
      /\ \A n \in 0..N : n # 0 => n \in 1..N /\ n - 1 \in 0..N
    OBVIOUS
<1>2. Start \in States
    BY SequencesOf DEF Start, States, Modes, Items
<1>3. ASSUME NEW r, \A n \in 0..N : r[n] \in States
      PROVE  IsRead(r, chars) <=> IsFold(r, Start, step, chars)
  <2>1. \A n \in 0..N : n # 0 => step[r[n - 1]][chars[n]] = ReadChar(r[n - 1], chars[n])
      BY <1>1, <1>3
  <2>. QED  BY <2>1 DEF IsRead, IsFold
<1>4. PICK f \in [0..N -> States] : IsFold(f, Start, step, chars)
    BY <1>2, FoldIsDefined, Zenon
<1>5. IsRead(f, chars)
    BY <1>3, <1>4
<1>. DEFINE r == CHOOSE g : IsRead(g, chars)
<1>6. IsRead(r, chars)
    BY <1>5, Zenon
<1>7. ReadList(chars) = r[N]
    BY DEF ReadList, IsRead, Start
<1>. HIDE DEF r
<1>8. \A n \in 0..N : r[n] \in States
  <2>. DEFINE S == {n \in 0..N : r[n] \in States}
  <2>1. 0 \in S
      BY <1>1, <1>2, <1>6 DEF IsRead
  <2>2. ASSUME NEW n \in 1..N, n - 1 \in S PROVE n \in S
    <3>1. r[n] = ReadChar(r[n - 1], chars[n])
        BY <1>1, <1>6 DEF IsRead
    <3>2. r[n] \in States
        BY <1>1, <2>2, <3>1, ReadCharTyped
    <3>. QED  BY <1>1, <3>2
  <2>. HIDE DEF S
  <2>3. \A n \in 0..N : n \in S
      BY <1>1, <2>1, <2>2, RoundByRound, Zenon
  <2>. QED  BY <2>3 DEF S
<1>. QED  BY <1>3, <1>6, <1>7, <1>8

(* The server reads one character after the other.                         *)
LEMMA ReadStep ==
    /\ ReadList(<<>>) = Start
    /\ \A chars \in Seq(Chars) :
          /\ ReadList(chars) \in States
          /\ \A ch \in Chars : ReadList(Append(chars, ch)) = ReadChar(ReadList(chars), ch)
<1>. DEFINE Step == [x \in States |-> [ch \in Chars |-> ReadChar(x, ch)]]
<1>1. PICK step \in [States -> [Chars -> States]] : step = Step
  <2>1. \A x \in States, ch \in Chars : ReadChar(x, ch) \in States
      BY ReadCharTyped
  <2>. QED  BY <2>1
<1>2. \A x \in States, ch \in Chars : step[x][ch] = ReadChar(x, ch)
    BY <1>1
<1>3. Start \in States /\ <<>> \in Seq(Chars)
    BY SequencesOf DEF Start, States, Modes, Items
<1>4. PICK F \in [Seq(Chars) -> States] : IsResult(F, Chars, Start, step)
    BY <1>3, FoldResult, Zenon
<1>5. ASSUME NEW chars \in Seq(Chars) PROVE ReadList(chars) = F[chars]
  <2>1. PICK r : ReadList(chars) = r[Len(chars)] /\ IsFold(r, Start, step, chars)
      BY <1>2, ReadIsFold
  <2>. QED  BY <1>4, <2>1 DEF IsResult
<1>6. ASSUME NEW chars \in Seq(Chars), NEW ch \in Chars
      PROVE  ReadList(Append(chars, ch)) = ReadChar(ReadList(chars), ch)
  <2>1. Append(chars, ch) \in Seq(Chars) /\ F[chars] \in States
      BY SequencesOf
  <2>2. F[Append(chars, ch)] = step[F[chars]][ch]
      BY <1>4 DEF IsResult
  <2>. QED  BY <1>2, <1>5, <2>1, <2>2
<1>7. ReadList(<<>>) = Start
    BY <1>3, <1>4, <1>5 DEF IsResult
<1>8. \A chars \in Seq(Chars) : ReadList(chars) \in States
    BY <1>5
<1>. QED  BY <1>6, <1>7, <1>8

(* What the reader makes of one character more, mode by mode.              *)
LEMMA ReadByMode ==
    ASSUME NEW chars \in Seq(Chars)
    PROVE  LET st == ReadList(chars) IN
           /\ st \in States
           /\ st.mode = "value" =>
                /\ ReadList(Append(chars, "digit")) =
                      [mode |-> "number", items |-> Append(st.items, <<"digit">>)]
                /\ ReadList(Append(chars, "quote")) =
                      [mode |-> "text", items |-> Append(st.items, <<>>)]
           /\ st.mode = "text" =>
                /\ ReadList(Append(chars, "quote")) = [mode |-> "closing", items |-> st.items]
                /\ ReadList(Append(chars, "letter")) =
                      [mode |-> "text", items |-> AtLast(st.items, "letter")]
           /\ st.mode = "closing" =>
                /\ ReadList(Append(chars, "quote")) =
                      [mode |-> "text", items |-> AtLast(st.items, "quote")]
                /\ ReadList(Append(chars, "digit")).mode = "error"
           /\ st.mode = "number" =>
                /\ ReadList(Append(chars, "digit")) =
                      [mode |-> "number", items |-> AtLast(st.items, "digit")]
                /\ ReadList(Append(chars, "quote")).mode = "error"
           /\ st.mode \in {"number", "closing"} =>
                ReadList(Append(chars, "comma")) = [mode |-> "value", items |-> st.items]
           /\ st.mode = "error" =>
                \A ch \in Chars : ReadList(Append(chars, ch)).mode = "error"
<1>1. PICK st \in States : st = ReadList(chars)
    BY ReadStep
<1>2. \A ch \in Chars : ReadList(Append(chars, ch)) = ReadChar(st, ch)
    BY <1>1, ReadStep
<1>3. /\ ReadList(Append(chars, "digit")) = ReadChar(st, "digit")
      /\ ReadList(Append(chars, "quote")) = ReadChar(st, "quote")
      /\ ReadList(Append(chars, "letter")) = ReadChar(st, "letter")
      /\ ReadList(Append(chars, "comma")) = ReadChar(st, "comma")
    BY <1>2 DEF Chars
<1>4. st.mode = "error" => \A ch : ReadChar(st, ch).mode = "error"
    BY DEF ReadChar
<1>5. CASE st.mode = "value"
    BY <1>1, <1>3, <1>5 DEF ReadChar
<1>6. CASE st.mode = "text"
    BY <1>1, <1>3, <1>6 DEF ReadChar
<1>7. CASE st.mode = "closing"
    BY <1>1, <1>3, <1>7 DEF ReadChar
<1>8. CASE st.mode = "number"
    BY <1>1, <1>3, <1>8 DEF ReadChar
<1>9. CASE st.mode = "error"
    BY <1>1, <1>2, <1>4, <1>9
<1>. QED  BY <1>5, <1>6, <1>7, <1>8, <1>9 DEF States, Modes

(* Within a text, the escaped characters are read as those of the text.    *)
LEMMA ReadEscaped ==
    ASSUME NEW s \in Seq(Chars), NEW items \in Items, NEW t \in Seq(Chars),
           ReadList(s) = [mode |-> "text", items |-> Append(items, t)],
           NEW str \in Seq(TextChars)
    PROVE  ReadList(s \o escapeString(str)) = [mode |-> "text", items |-> Append(items, t \o str)]
<1>. DEFINE Reads(x) == ReadList(s \o escapeString(x)) =
                           [mode |-> "text", items |-> Append(items, t \o x)]
            P == {x \in Seq(TextChars) : Reads(x)}
<1>1. <<>> \in P
  <2>1. s \o escapeString(<<>>) = s
      BY EscapeStep, ConcatEmptySeq
  <2>2. t \o <<>> = t /\ <<>> \in Seq(TextChars)
      BY ConcatEmptySeq, SequencesOf
  <2>. QED  BY <2>1, <2>2
<1>2. ASSUME NEW x \in Seq(TextChars), NEW ch \in TextChars, x \in P PROVE Append(x, ch) \in P
  <2>1. x \in Seq(Chars) /\ ch \in Chars /\ "quote" \in Chars
      BY DEF TextChars, Chars
  <2>2. PICK now \in Seq(Chars) : now = t \o x
      BY <2>1, ConcatAppend
  <2>3. t \o Append(x, ch) = Append(now, ch)
      BY <2>1, <2>2, ConcatAppend
  <2>4. PICK before \in Seq(Chars) : before = s \o escapeString(x)
      BY EscapedGrows
  <2>5. s \o escapeString(Append(x, ch)) =
           IF ch = "quote" THEN Append(Append(before, "quote"), "quote") ELSE Append(before, ch)
      BY <2>4, EscapedGrows
  <2>6. ReadList(before).mode = "text" /\ ReadList(before).items = Append(items, now)
      BY <1>2, <2>2, <2>4
  <2>7. AtLast(Append(items, now), ch) = Append(items, Append(now, ch))
      BY <2>1, <2>2, AtLastOfAppend
  <2>8. ReadList(s \o escapeString(Append(x, ch))) =
           [mode |-> "text", items |-> Append(items, Append(now, ch))]
    <3>1. CASE ch = "quote"
      <4>1. PICK more \in Seq(Chars) : more = Append(before, "quote")
          BY <2>1, SequencesOf
      <4>2. ReadList(more).mode = "closing" /\ ReadList(more).items = Append(items, now)
          BY <2>6, <4>1, ReadByMode
      <4>3. ReadList(Append(more, "quote")) =
               [mode |-> "text", items |-> AtLast(Append(items, now), "quote")]
          BY <4>2, ReadByMode
      <4>. QED  BY <2>5, <2>7, <3>1, <4>1, <4>3
    <3>2. CASE ch = "letter"
      <4>1. ReadList(Append(before, ch)) = [mode |-> "text", items |-> AtLast(Append(items, now), ch)]
          BY <2>6, <3>2, ReadByMode
      <4>. QED  BY <2>5, <2>7, <3>2, <4>1
    <3>. QED  BY <3>1, <3>2 DEF TextChars
  <2>9. Append(x, ch) \in Seq(TextChars) /\ Reads(Append(x, ch))
      BY <2>3, <2>8, SequencesOf
  <2>. HIDE DEF Reads
  <2>. QED  BY <2>9
<1>. HIDE DEF P
<1>3. \A x \in Seq(TextChars) : x \in P
    BY <1>1, <1>2, OneByOne, Zenon
<1>. QED  BY <1>3 DEF P

(* An escaped text never leaves a text that is being read, and begins no   *)
(* item of its own.                                                        *)
InText(s, N) == ReadList(s).mode = "text" /\ Len(ReadList(s).items) = N

LEMMA EscapedStaysInside ==
    ASSUME NEW s \in Seq(Chars), NEW N, InText(s, N), NEW str \in Seq(TextChars)
    PROVE  InText(s \o escapeString(str), N)
<1>. DEFINE P == {x \in Seq(TextChars) : InText(s \o escapeString(x), N)}
<1>1. <<>> \in P
  <2>1. s \o escapeString(<<>>) = s
      BY EscapeStep, ConcatEmptySeq
  <2>. QED  BY <2>1, SequencesOf
<1>2. ASSUME NEW x \in Seq(TextChars), NEW ch \in TextChars, x \in P PROVE Append(x, ch) \in P
  <2>1. "quote" \in Chars /\ "letter" \in Chars
      BY DEF Chars
  <2>2. PICK before \in Seq(Chars) : before = s \o escapeString(x)
      BY EscapedGrows
  <2>3. s \o escapeString(Append(x, ch)) =
           IF ch = "quote" THEN Append(Append(before, "quote"), "quote") ELSE Append(before, ch)
      BY <2>2, EscapedGrows
  <2>4. InText(before, N)
      BY <1>2, <2>2
  <2>5. PICK items \in Items : items = ReadList(before).items /\ Len(items) = N
      BY <2>4, ReadByMode DEF InText, States
  <2>6. InText(s \o escapeString(Append(x, ch)), N)
    <3>1. CASE ch = "quote"
      <4>1. PICK more \in Seq(Chars) : more = Append(before, "quote")
          BY <2>1, SequencesOf
      <4>2. ReadList(more).mode = "closing" /\ ReadList(more).items = items
          BY <2>4, <2>5, <4>1, ReadByMode DEF InText
      <4>3. ReadList(Append(more, "quote")) = [mode |-> "text", items |-> AtLast(items, "quote")]
          BY <4>2, ReadByMode
      <4>4. Len(AtLast(items, "quote")) = N
          BY <2>1, <2>5, AtLastTyped
      <4>. QED  BY <2>3, <3>1, <4>1, <4>3, <4>4 DEF InText
    <3>2. CASE ch = "letter"
      <4>1. ReadList(Append(before, ch)) = [mode |-> "text", items |-> AtLast(items, ch)]
          BY <2>4, <2>5, <3>2, ReadByMode DEF InText
      <4>2. Len(AtLast(items, ch)) = N
          BY <2>1, <2>5, <3>2, AtLastTyped
      <4>. QED  BY <2>3, <3>2, <4>1, <4>2 DEF InText
    <3>. QED  BY <3>1, <3>2 DEF TextChars
  <2>7. Append(x, ch) \in Seq(TextChars)
      BY SequencesOf
  <2>. QED  BY <2>6, <2>7
<1>. HIDE DEF P
<1>3. \A x \in Seq(TextChars) : x \in P
    BY <1>1, <1>2, OneByOne, Zenon
<1>. QED  BY <1>3 DEF P

(* A list that was refused stays refused, whatever follows.                *)
LEMMA RefusedStaysRefused ==
    ASSUME NEW s \in Seq(Chars), ReadList(s).mode = "error", NEW more \in Seq(Chars)
    PROVE  ReadList(s \o more).mode = "error"
<1>. DEFINE P == {x \in Seq(Chars) : ReadList(s \o x).mode = "error"}
<1>1. <<>> \in P
    BY ConcatEmptySeq, SequencesOf
<1>2. ASSUME NEW x \in Seq(Chars), NEW ch \in Chars, x \in P PROVE Append(x, ch) \in P
  <2>1. PICK before \in Seq(Chars) : before = s \o x
      BY SequencesOf
  <2>2. s \o Append(x, ch) = Append(before, ch)
      BY <2>1, ConcatAppend
  <2>3. ReadList(before).mode = "error"
      BY <1>2, <2>1
  <2>4. ReadList(Append(before, ch)).mode = "error"
      BY <2>3, ReadByMode
  <2>5. Append(x, ch) \in Seq(Chars)
      BY SequencesOf
  <2>. QED  BY <2>2, <2>4, <2>5
<1>. HIDE DEF P
<1>3. \A x \in Seq(Chars) : x \in P
    BY <1>1, <1>2, OneByOne, Zenon
<1>. QED  BY <1>3 DEF P
-----------------------------------------------------------------------------
(* Reading what is written of a value.                                     *)

ReadToTheEnd(s) == ReadList(s).mode \in {"number", "closing"}

LEMMA WrittenTyped ==
    /\ \A value \in Values : Written(value) \in Seq(Chars)
    /\ Separator \in Seq(Chars)
<1>1. \A value \in Values : Written(value) \in Seq(Chars)
  <2>. SUFFICES ASSUME NEW value \in Values PROVE Written(value) \in Seq(Chars)
      OBVIOUS
  <2>1. <<"quote">> \in Seq(Chars)
      BY SequencesOf DEF Chars
  <2>2. value.type \in TextTypes => escapeString(value.text) \in Seq(Chars)
    <3>1. TextChars \subseteq Chars
        BY DEF TextChars, Chars
    <3>2. value.type \in TextTypes => escapeString(value.text) \in Seq(TextChars)
        BY ValueTyped, EscapeStep
    <3>. QED  BY <3>1, <3>2
  <2>. QED  BY <2>1, <2>2, ValueTyped, SequencesOf DEF Written
<1>2. Separator \in Seq(Chars)
    BY SequencesOf DEF Separator, Chars
<1>. QED  BY <1>1, <1>2

(* Where a value may stand, its text is read as one item more.             *)
LEMMA ReadWhereExpected ==
    ASSUME NEW s \in Seq(Chars), ReadList(s).mode = "value", NEW value \in Values
    PROVE  /\ ReadToTheEnd(s \o Written(value))
           /\ ReadList(s \o Written(value)).items = Append(ReadList(s).items, value.text)
<1>1. PICK items \in Items : items = ReadList(s).items
    BY ReadByMode DEF States
<1>2. CASE value.type \in TextTypes
  <2>1. value.text \in Seq(TextChars) /\ value.text \in Seq(Chars) /\ <<>> \in Seq(Chars)
      BY <1>2, ValueTyped
  <2>2. PICK open \in Seq(Chars) : open = Append(s, "quote")
      BY SequencesOf DEF Chars
  <2>3. ReadList(open) = [mode |-> "text", items |-> Append(items, <<>>)]
      BY <1>1, <2>2, ReadByMode
  <2>4. ReadList(open \o escapeString(value.text)) =
           [mode |-> "text", items |-> Append(items, <<>> \o value.text)]
      BY <2>1, <2>3, ReadEscaped
  <2>5. <<>> \o value.text = value.text
      BY <2>1, ConcatEmptySeq
  <2>6. PICK body \in Seq(Chars) : body = open \o escapeString(value.text)
      BY <2>1, EscapedGrows DEF TextChars
  <2>7. ReadList(Append(body, "quote")) = [mode |-> "closing", items |-> Append(items, value.text)]
    <3>1. ReadList(body).mode = "text" /\ ReadList(body).items = Append(items, value.text)
        BY <2>4, <2>5, <2>6
    <3>. QED  BY <3>1, ReadByMode
  <2>8. s \o Written(value) = Append(body, "quote")
      BY <1>2, <2>2, <2>6, WrittenText
  <2>. QED  BY <1>1, <2>7, <2>8 DEF ReadToTheEnd
<1>3. CASE value.type \notin TextTypes
  <2>1. value.text = <<"digit">> /\ s \o Written(value) = Append(s, "digit")
      BY <1>3, ValueTyped, WrittenNumber
  <2>2. ReadList(Append(s, "digit")) = [mode |-> "number", items |-> Append(items, <<"digit">>)]
      BY <1>1, ReadByMode
  <2>. QED  BY <1>1, <2>1, <2>2 DEF ReadToTheEnd
<1>. QED  BY <1>2, <1>3

(* After a separator a value may stand, and no item is begun by it.        *)
LEMMA ReadSeparator ==
    ASSUME NEW s \in Seq(Chars), ReadToTheEnd(s)
    PROVE  /\ Append(s, "comma") \in Seq(Chars)
           /\ ReadList(Append(s, "comma")).mode = "value"
           /\ ReadList(Append(s, "comma")).items = ReadList(s).items
<1>1. ReadList(Append(s, "comma")) = [mode |-> "value", items |-> ReadList(s).items]
    BY ReadByMode DEF ReadToTheEnd
<1>2. Append(s, "comma") \in Seq(Chars)
    BY SequencesOf DEF Chars
<1>. QED  BY <1>1, <1>2

(* Behind another value without a separator, no item more is read, or the  *)
(* list is refused.                                                        *)
LEMMA ReadBehindAnother ==
    ASSUME NEW s \in Seq(Chars), ReadToTheEnd(s), NEW value \in Values
    PROVE  LET end == ReadList(s \o Written(value)) IN
           \/ end.mode = "error"
           \/ /\ ReadToTheEnd(s \o Written(value))
              /\ Len(end.items) = Len(ReadList(s).items)
<1>1. PICK items \in Items : items = ReadList(s).items
    BY ReadByMode DEF States
<1>2. "quote" \in Chars /\ "digit" \in Chars
    BY DEF Chars
<1>3. /\ Len(AtLast(items, "quote")) = Len(items)
      /\ Len(AtLast(items, "digit")) = Len(items)
    BY <1>2, AtLastTyped
<1>4. CASE value.type \in TextTypes
  <2>1. value.text \in Seq(TextChars)
      BY <1>4, ValueTyped
  <2>2. PICK open \in Seq(Chars) : open = Append(s, "quote")
      BY <1>2, SequencesOf
  <2>3. PICK body \in Seq(Chars) : body = open \o escapeString(value.text)
      BY <2>1, EscapedGrows DEF TextChars
  <2>4. s \o Written(value) = Append(body, "quote")
      BY <1>4, <2>2, <2>3, WrittenText
  <2>5. CASE ReadList(s).mode = "number"
    <3>1. ReadList(open).mode = "error"
        BY <2>2, <2>5, ReadByMode
    <3>2. escapeString(value.text) \in Seq(Chars)
      <4>1. escapeString(value.text) \in Seq(TextChars) /\ TextChars \subseteq Chars
          BY <2>1, EscapeStep DEF TextChars, Chars
      <4>. QED  BY <4>1
    <3>3. ReadList(body).mode = "error"
        BY <2>3, <3>1, <3>2, RefusedStaysRefused
    <3>4. ReadList(Append(body, "quote")).mode = "error"
        BY <1>2, <3>3, ReadByMode
    <3>. QED  BY <2>4, <3>4
  <2>6. CASE ReadList(s).mode = "closing"
    <3>1. ReadList(open) = [mode |-> "text", items |-> AtLast(items, "quote")]
        BY <1>1, <2>2, <2>6, ReadByMode
    <3>2. InText(open, Len(items))
        BY <1>3, <3>1 DEF InText
    <3>3. InText(body, Len(items))
        BY <2>1, <2>3, <3>2, EscapedStaysInside
    <3>4. ReadList(Append(body, "quote")) = [mode |-> "closing", items |-> ReadList(body).items]
        BY <3>3, ReadByMode DEF InText
    <3>. QED  BY <1>1, <2>4, <3>3, <3>4 DEF InText, ReadToTheEnd
  <2>. QED  BY <2>5, <2>6 DEF ReadToTheEnd
<1>5. CASE value.type \notin TextTypes
  <2>1. s \o Written(value) = Append(s, "digit")
      BY <1>5, WrittenNumber
  <2>2. CASE ReadList(s).mode = "number"
    <3>1. ReadList(Append(s, "digit")) = [mode |-> "number", items |-> AtLast(items, "digit")]
        BY <1>1, <2>2, ReadByMode
    <3>. QED  BY <1>1, <1>3, <2>1, <3>1 DEF ReadToTheEnd
  <2>3. CASE ReadList(s).mode = "closing"
    <3>1. ReadList(Append(s, "digit")).mode = "error"
        BY <2>3, ReadByMode
    <3>. QED  BY <2>1, <3>1
  <2>. QED  BY <2>2, <2>3 DEF ReadToTheEnd
<1>. QED  BY <1>4, <1>5
-----------------------------------------------------------------------------
(* A step writes a value, or passes one over.                              *)

Writes(value) ==
    /\ value \in Values
    /\ value.type \in Supported
    /\ values' = Append(values, value)
    /\ out' = (out \o Separator) \o Written(value)
    /\ first' = (first /\ value.type \notin Typed)

PassesOver(value) ==
    /\ value \in Values
    /\ value.type \notin Supported
    /\ values' = Append(values, value)
    /\ UNCHANGED <<first, out>>

LEMMA Steps ==
    ASSUME TypeOK, [Next]_vars
    PROVE  \/ UNCHANGED vars
           \/ /\ Len(values) < MaxValues
              /\ \E value \in Values : Writes(value) \/ PassesOver(value)
<1>1. CASE UNCHANGED vars
    BY <1>1
<1>2. ASSUME NEW value \in Values, AppendTyped(value) PROVE Len(values) < MaxValues /\ Writes(value)
    BY <1>2 DEF AppendTyped, NextValue, Writes, Supported
<1>3. ASSUME NEW value \in Values, AppendGuessed(value)
      PROVE  Len(values) < MaxValues /\ Writes(value)
  <2>1. value.type \notin Typed /\ value.type \in Supported /\ first \in BOOLEAN
      BY <1>3 DEF AppendGuessed, Typed, Guessed, Supported, TypeOK
  <2>. QED  BY <1>3, <2>1 DEF AppendGuessed, NextValue, Writes
<1>4. ASSUME NEW value \in Values, Skip(value)
      PROVE  Len(values) < MaxValues /\ PassesOver(value)
    BY <1>4 DEF Skip, NextValue, PassesOver
<1>. QED  BY <1>1, <1>2, <1>3, <1>4 DEF Next

LEMMA TypeStep ==
    ASSUME TypeOK, [Next]_vars
    PROVE  TypeOK'
<1>1. CASE UNCHANGED vars
    BY <1>1 DEF TypeOK, vars
<1>2. ASSUME Len(values) < MaxValues, NEW value \in Values, values' = Append(values, value)
      PROVE  values' \in Seq(Values) /\ Len(values') <= MaxValues
    BY <1>2, QParamsAssumption DEF TypeOK
<1>3. ASSUME Len(values) < MaxValues, NEW value \in Values, Writes(value) PROVE TypeOK'
  <2>1. out' \in Seq(Chars)
    <3>1. out \o Separator \in Seq(Chars)
        BY WrittenTyped, SequencesOf DEF TypeOK
    <3>. QED  BY <1>3, <3>1, WrittenTyped, SequencesOf DEF Writes
  <2>2. first' \in BOOLEAN
      BY <1>3, Zenon DEF Writes
  <2>. QED  BY <1>2, <1>3, <2>1, <2>2 DEF TypeOK, Writes
<1>4. ASSUME Len(values) < MaxValues, NEW value \in Values, PassesOver(value) PROVE TypeOK'
  <2>1. values' \in Seq(Values) /\ Len(values') <= MaxValues
      BY <1>2, <1>4 DEF PassesOver
  <2>. QED  BY <1>4, <2>1 DEF TypeOK, PassesOver
<1>. QED  BY <1>1, <1>3, <1>4, Steps

(* The loop keeps the types of its variables.                              *)
THEOREM TypeCorrect == Spec => []TypeOK
<1>1. Init => TypeOK
  <2>. SUFFICES ASSUME Init PROVE TypeOK
      OBVIOUS
  <2>1. <<>> \in Seq(Values) /\ Len(<<>>) = 0 /\ <<>> \in Seq(Chars)
      OBVIOUS
  <2>. QED  BY <2>1, QParamsAssumption DEF Init, TypeOK
<1>. QED  BY <1>1, TypeStep, PTL DEF Spec
-----------------------------------------------------------------------------
(* A text given to QParams never gets outside the quotes it is written in, *)
(* whatever is in it and however the separators go wrong.                  *)
THEOREM NoTextLeavesItsQuotes == Spec => []TextStaysQuoted
<1>. DEFINE Inv == TypeOK /\ Quoted(out, "outside")
<1>1. Init => Quoted(out, "outside")
    BY QuotedStep DEF Init
<1>2. Inv /\ [Next]_vars => Quoted(out, "outside")'
  <2>. SUFFICES ASSUME Inv, [Next]_vars PROVE Quoted(out', "outside")
      OBVIOUS
  <2>1. CASE UNCHANGED vars
      BY <2>1 DEF vars
  <2>2. ASSUME NEW value \in Values, Writes(value) PROVE Quoted(out', "outside")
    <3>1. Quoted(out \o Separator, "outside")
        BY SeparatorQuoted
    <3>2. Quoted((out \o Separator) \o Written(value), "outside")
        BY <3>1, WrittenQuoted
    <3>. QED  BY <2>2, <3>2 DEF Writes
  <2>3. ASSUME NEW value \in Values, PassesOver(value) PROVE Quoted(out', "outside")
      BY <2>3 DEF PassesOver
  <2>. QED  BY <2>1, <2>2, <2>3, Steps
<1>3. Quoted(out, "outside") => TextStaysQuoted
  <2>. SUFFICES ASSUME Quoted(out, "outside") PROVE TextStaysQuoted
      OBVIOUS
  <2>1. DOMAIN out = 1..Len(out)
      BY DEF Quoted
  <2>. QED  BY <2>1 DEF Quoted, TextStaysQuoted
<1>. QED  BY <1>1, <1>2, <1>3, TypeCorrect, PTL DEF Spec
-----------------------------------------------------------------------------
(* What the reader makes of the whole list.                                *)

TextsOf(vals) == [i \in DOMAIN vals |-> vals[i].text]

LEMMA TextsOfMore ==
    ASSUME NEW vals \in Seq(SupportedValues)
    PROVE  /\ TextsOf(<<>>) = <<>>
           /\ TextsOf(vals) \in Items /\ Len(TextsOf(vals)) = Len(vals)
           /\ \A v \in SupportedValues :
                 TextsOf(Append(vals, v)) = Append(TextsOf(vals), v.text)
<1>1. \A v \in SupportedValues : v.text \in Seq(Chars)
    BY ValueTyped DEF SupportedValues
<1>2. DOMAIN vals = 1..Len(vals) /\ Len(vals) \in Nat /\ \A i \in 1..Len(vals) : vals[i] \in SupportedValues
    OBVIOUS
<1>3. TextsOf(vals) = [i \in 1..Len(vals) |-> vals[i].text]
    BY <1>2 DEF TextsOf
<1>4. TextsOf(vals) \in [1..Len(vals) -> Seq(Chars)]
    BY <1>1, <1>2, <1>3
<1>5. TextsOf(vals) \in Items /\ Len(TextsOf(vals)) = Len(vals)
    BY <1>2, <1>4 DEF Items
<1>6. ASSUME NEW v \in SupportedValues
      PROVE  TextsOf(Append(vals, v)) = Append(TextsOf(vals), v.text)
  <2>. DEFINE N    == Len(vals)
              more == Append(vals, v)
              new  == Append(TextsOf(vals), v.text)
  <2>1. /\ more \in Seq(SupportedValues) /\ Len(more) = N + 1 /\ more[N + 1] = v
        /\ \A i \in 1..N : more[i] = vals[i]
      BY AppendProperties
  <2>2. /\ new \in Items /\ Len(new) = N + 1 /\ new[N + 1] = v.text
        /\ \A i \in 1..N : new[i] = TextsOf(vals)[i]
      BY <1>1, <1>5, AppendProperties DEF Items
  <2>. HIDE DEF more, new
  <2>3. DOMAIN more = 1..(N + 1) /\ DOMAIN new = 1..(N + 1)
      BY <2>1, <2>2 DEF Items
  <2>4. TextsOf(more) = [i \in 1..(N + 1) |-> more[i].text]
      BY <2>3 DEF TextsOf
  <2>5. new = [i \in 1..(N + 1) |-> new[i]]
      BY <2>2, <2>3 DEF Items
  <2>6. ASSUME NEW i \in 1..(N + 1) PROVE new[i] = more[i].text
    <3>1. CASE i = N + 1
        BY <2>1, <2>2, <3>1
    <3>2. CASE i # N + 1
      <4>1. i \in 1..N
          BY <1>2, <3>2
      <4>. QED  BY <1>3, <2>1, <2>2, <4>1
    <3>. QED  BY <3>1, <3>2
  <2>7. TextsOf(more) = new
      BY <2>4, <2>5, <2>6
  <2>. QED  BY <2>7 DEF more, new
<1>7. TextsOf(<<>>) = <<>>
    BY DEF TextsOf
<1>. QED  BY <1>5, <1>6, <1>7

(* The three cases of ReadingInv, of any tuple and any list.               *)
Typed1(w) == w[1].type \in Typed

Good(w, o) ==
    /\ w # <<>>
    /\ ReadToTheEnd(o)
    /\ ReadList(o).items = TextsOf(w)

Bad(w, o) ==
    /\ Len(w) > 1 /\ ~ Typed1(w)
    /\ \/ ReadList(o).mode = "error"
       \/ ReadToTheEnd(o) /\ Len(ReadList(o).items) < Len(w)

Reading(w, o, f) ==
    \/ w = <<>> /\ o = <<>> /\ f
    \/ Good(w, o) /\ IF f THEN Len(w) = 1 /\ ~ Typed1(w) ELSE Typed1(w)
    \/ Bad(w, o)

LEMMA ReadingInvIs == ReadingInv <=> TypeOK /\ Reading(Wanted, out, first)
BY DEF ReadingInv, NothingWritten, AsGiven, Confused, ReadsAs, FirstIsTyped, Reading, Good, Bad,
       ReadToTheEnd, Typed1, TextsOf

LEMMA ReadingStep ==
    ASSUME NEW w \in Seq(SupportedValues), NEW v \in SupportedValues,
           out \in Seq(Chars), first \in BOOLEAN, Reading(w, out, first)
    PROVE  Reading(Append(w, v), (out \o Separator) \o Written(v), first /\ v.type \notin Typed)
<1>. DEFINE more == Append(w, v)
            list == (out \o Separator) \o Written(v)
            flag == first /\ v.type \notin Typed
<1>1. /\ more \in Seq(SupportedValues) /\ Len(more) = Len(w) + 1 /\ more # <<>>
      /\ w = <<>> => more[1] = v
      /\ w # <<>> => more[1] = w[1]
      /\ Len(w) \in Nat
      /\ w = <<>> <=> Len(w) = 0
    OBVIOUS
<1>2. v \in Values
    BY DEF SupportedValues
<1>3. TextsOf(more) = Append(TextsOf(w), v.text) /\ Len(TextsOf(w)) = Len(w) /\ TextsOf(w) \in Items
    BY TextsOfMore
<1>4. first => out \o Separator = out
    BY ConcatEmptySeq DEF Separator
<1>5. ~ first => out \o Separator = Append(out, "comma")
  <2>1. "comma" \in Chars
      BY DEF Chars
  <2>. QED  BY <2>1, AppendIsConcat DEF Separator
<1>6. Written(v) \in Seq(Chars) /\ Append(out, "comma") \in Seq(Chars)
    BY <1>2, WrittenTyped, SequencesOf DEF Chars
<1>7. Typed1(more) <=> IF w = <<>> THEN v.type \in Typed ELSE Typed1(w)
    BY <1>1 DEF Typed1
<1>8. CASE w = <<>> /\ out = <<>> /\ first
  <2>1. ReadList(out).mode = "value" /\ ReadList(out).items = <<>>
      BY <1>8, ReadStep DEF Start
  <2>2. list = out \o Written(v)
      BY <1>4, <1>8
  <2>3. ReadToTheEnd(list) /\ ReadList(list).items = Append(<<>>, v.text)
      BY <1>2, <2>1, <2>2, ReadWhereExpected
  <2>4. TextsOf(more) = Append(<<>>, v.text)
      BY <1>3, <1>8, TextsOfMore
  <2>5. Good(more, list)
      BY <1>1, <2>3, <2>4 DEF Good
  <2>6. IF flag THEN Len(more) = 1 /\ ~ Typed1(more) ELSE Typed1(more)
      BY <1>1, <1>7, <1>8
  <2>. HIDE DEF more, list, flag
  <2>7. Reading(more, list, flag)
      BY <2>5, <2>6 DEF Reading
  <2>. QED  BY <2>7 DEF more, list, flag
<1>9. CASE Good(w, out) /\ ~ first /\ Typed1(w)
  <2>1. PICK s \in Seq(Chars) : s = Append(out, "comma")
      BY <1>6
  <2>2. ReadList(s).mode = "value" /\ ReadList(s).items = TextsOf(w)
      BY <1>9, <2>1, ReadSeparator DEF Good
  <2>3. list = s \o Written(v)
      BY <1>5, <1>9, <2>1
  <2>4. ReadToTheEnd(list) /\ ReadList(list).items = Append(TextsOf(w), v.text)
      BY <1>2, <2>2, <2>3, ReadWhereExpected
  <2>5. Good(more, list)
      BY <1>1, <1>3, <2>4 DEF Good
  <2>6. ~ flag /\ Typed1(more)
      BY <1>7, <1>9 DEF Good
  <2>. HIDE DEF more, list, flag
  <2>7. Reading(more, list, flag)
      BY <2>5, <2>6 DEF Reading
  <2>. QED  BY <2>7 DEF more, list, flag
<1>10. CASE Good(w, out) /\ first /\ Len(w) = 1 /\ ~ Typed1(w)
  <2>1. list = out \o Written(v)
      BY <1>4, <1>10
  <2>2. \/ ReadList(list).mode = "error"
        \/ ReadToTheEnd(list) /\ Len(ReadList(list).items) = Len(ReadList(out).items)
      BY <1>2, <1>10, <2>1, ReadBehindAnother DEF Good
  <2>3. Len(ReadList(out).items) = 1 /\ Len(more) = 2
      BY <1>1, <1>3, <1>10 DEF Good
  <2>4. ~ Typed1(more)
      BY <1>7, <1>10 DEF Good
  <2>. HIDE DEF more, list
  <2>5. Bad(more, list)
    <3>1. Len(more) > 1 /\ 1 < Len(more)
        BY <2>3
    <3>2. ReadToTheEnd(list) /\ Len(ReadList(list).items) = Len(ReadList(out).items)
             => Len(ReadList(list).items) < Len(more)
        BY <2>3, <3>1
    <3>. QED  BY <2>2, <2>4, <3>1, <3>2, Zenon DEF Bad
  <2>6. Reading(more, list, flag)
      BY <2>5, Zenon DEF Reading
  <2>. QED  BY <2>6 DEF more, list
<1>11. CASE Bad(w, out)
  <2>1. ~ Typed1(more) /\ Len(more) > 1
      BY <1>1, <1>7, <1>11 DEF Bad
  <2>2. PICK s \in Seq(Chars) : s = out \o Separator
      BY WrittenTyped, SequencesOf
  <2>3. list = s \o Written(v)
      BY <2>2
  <2>4. \/ ReadList(list).mode = "error"
        \/ ReadToTheEnd(list) /\ Len(ReadList(list).items) < Len(more)
    <3>1. CASE ReadList(out).mode = "error"
      <4>1. ReadList(s).mode = "error"
          BY <2>2, <3>1, WrittenTyped, RefusedStaysRefused
      <4>. QED  BY <1>6, <2>3, <4>1, RefusedStaysRefused
    <3>2. CASE ReadToTheEnd(out) /\ Len(ReadList(out).items) < Len(w) /\ first
      <4>1. s = out
          BY <1>4, <2>2, <3>2
      <4>2. \/ ReadList(list).mode = "error"
            \/ ReadToTheEnd(list) /\ Len(ReadList(list).items) = Len(ReadList(out).items)
          BY <1>2, <2>3, <3>2, <4>1, ReadBehindAnother
      <4>3. Len(ReadList(out).items) \in Nat
          BY ReadByMode DEF States, Items
      <4>. HIDE DEF more, list
      <4>. QED  BY <1>1, <3>2, <4>2, <4>3
    <3>3. CASE ReadToTheEnd(out) /\ Len(ReadList(out).items) < Len(w) /\ ~ first
      <4>1. PICK items \in Items : items = ReadList(out).items
          BY ReadByMode DEF States
      <4>2. ReadList(s).mode = "value" /\ ReadList(s).items = items
          BY <1>5, <2>2, <3>3, <4>1, ReadSeparator
      <4>3. ReadToTheEnd(list) /\ ReadList(list).items = Append(items, v.text)
          BY <1>2, <2>3, <4>2, ReadWhereExpected
      <4>4. Len(Append(items, v.text)) = Len(items) + 1 /\ Len(items) \in Nat
          BY DEF Items
      <4>. HIDE DEF more, list
      <4>. QED  BY <1>1, <3>3, <4>1, <4>3, <4>4
    <3>. QED  BY <1>11, <3>1, <3>2, <3>3 DEF Bad
  <2>. HIDE DEF more, list
  <2>5. Bad(more, list)
      BY <2>1, <2>4 DEF Bad
  <2>6. Reading(more, list, flag)
      BY <2>5, Zenon DEF Reading
  <2>. QED  BY <2>6 DEF more, list
<1>. QED  BY <1>8, <1>9, <1>10, <1>11 DEF Reading

(* What PostgreSQL makes of the list, in every state of the loop.          *)
THEOREM ReadingInvariant == Spec => []ReadingInv
<1>1. Init => ReadingInv
  <2>. SUFFICES ASSUME Init PROVE TypeOK /\ Reading(Wanted, out, first)
      BY ReadingInvIs
  <2>1. TypeOK
    <3>1. <<>> \in Seq(Values) /\ Len(<<>>) = 0 /\ <<>> \in Seq(Chars)
        OBVIOUS
    <3>. QED  BY <3>1, QParamsAssumption DEF Init, TypeOK
  <2>2. Wanted = <<>> /\ out = <<>> /\ first
      BY WrittenStep DEF Init, Wanted
  <2>. QED  BY <2>1, <2>2 DEF Reading
<1>2. ReadingInv /\ [Next]_vars => ReadingInv'
  <2>. SUFFICES ASSUME ReadingInv, [Next]_vars PROVE ReadingInv'
      OBVIOUS
  <2>1. TypeOK /\ Reading(Wanted, out, first)
      BY ReadingInvIs
  <2>2. TypeOK'
      BY <2>1, TypeStep
  <2>3. ReadingInv' <=> TypeOK' /\ Reading(Wanted', out', first')
      BY DEF ReadingInv, NothingWritten, AsGiven, Confused, ReadsAs, FirstIsTyped, Reading, Good,
             Bad, ReadToTheEnd, Typed1, TextsOf
  <2>4. Wanted \in Seq(SupportedValues) /\ values \in Seq(Values)
      BY <2>1, WrittenStep DEF Wanted, TypeOK
  <2>5. CASE UNCHANGED vars
    <3>1. Wanted' = Wanted /\ out' = out /\ first' = first
        BY <2>5 DEF vars, Wanted
    <3>. QED  BY <2>1, <2>2, <2>3, <3>1
  <2>6. ASSUME NEW value \in Values, Writes(value) PROVE ReadingInv'
    <3>1. Wanted' = Append(Wanted, value)
      <4>1. WrittenOf(Append(values, value)) = Append(WrittenOf(values), value)
          BY <2>4, <2>6, WrittenStep DEF Writes
      <4>. QED  BY <2>6, <4>1 DEF Wanted, Writes
    <3>2. value \in SupportedValues
        BY <2>6 DEF Writes, SupportedValues
    <3>3. Reading(Append(Wanted, value), (out \o Separator) \o Written(value),
                  first /\ value.type \notin Typed)
        BY <2>1, <2>4, <3>2, ReadingStep DEF TypeOK
    <3>4. Reading(Wanted', out', first')
        BY <2>6, <3>1, <3>3, Zenon DEF Writes
    <3>. QED  BY <2>2, <2>3, <3>4
  <2>7. ASSUME NEW value \in Values, PassesOver(value) PROVE ReadingInv'
    <3>1. Wanted' = Wanted
      <4>1. WrittenOf(Append(values, value)) = WrittenOf(values)
          BY <2>4, <2>7, WrittenStep DEF PassesOver
      <4>. QED  BY <2>7, <4>1 DEF Wanted, PassesOver
    <3>. QED  BY <2>1, <2>2, <2>3, <2>7, <3>1 DEF PassesOver
  <2>. QED  BY <2>1, <2>5, <2>6, <2>7, Steps
<1>. QED  BY <1>1, <1>2, PTL DEF Spec

(* The values are read back exactly when at most one was written or the    *)
(* first one written had its type given.                                   *)
THEOREM ReadBackExactly == Spec => []ReadBackWhenFirstIsTyped
<1>1. ReadingInv => ReadBackWhenFirstIsTyped
  <2>. SUFFICES ASSUME ReadingInv PROVE ReadBackWhenFirstIsTyped
      OBVIOUS
  <2>1. TypeOK /\ Reading(Wanted, out, first)
      BY ReadingInvIs
  <2>2. /\ ReadBack <=> IF out = <<>> THEN Wanted = <<>>
                        ELSE ReadToTheEnd(out) /\ ReadList(out).items = TextsOf(Wanted)
        /\ FirstIsTyped <=> Typed1(Wanted)
      BY DEF ReadBack, ReadsAs, ReadToTheEnd, TextsOf, FirstIsTyped, Typed1
  <2>3. Wanted \in Seq(SupportedValues)
      BY <2>1, WrittenStep DEF Wanted, TypeOK
  <2>4. Len(TextsOf(Wanted)) = Len(Wanted) /\ Len(Wanted) \in Nat
      BY <2>3, TextsOfMore
  <2>5. CASE Wanted = <<>> /\ out = <<>> /\ first
    <3>1. Len(<<>>) = 0
        OBVIOUS
    <3>. QED  BY <2>2, <2>5, <3>1 DEF ReadBackWhenFirstIsTyped
  <2>6. CASE Good(Wanted, out) /\ IF first THEN Len(Wanted) = 1 /\ ~ Typed1(Wanted)
                                  ELSE Typed1(Wanted)
    <3>1. out # <<>>
      <4>1. ~ ReadToTheEnd(<<>>)
          BY ReadStep DEF ReadToTheEnd, Start
      <4>. QED  BY <2>6, <4>1 DEF Good
    <3>2. ReadBack
        BY <2>2, <2>6, <3>1 DEF Good
    <3>3. Len(Wanted) <= 1 \/ Typed1(Wanted)
        BY <2>6
    <3>. QED  BY <2>2, <3>2, <3>3 DEF ReadBackWhenFirstIsTyped
  <2>7. CASE Bad(Wanted, out)
    <3>1. ~ (Len(Wanted) <= 1) /\ ~ Typed1(Wanted)
        BY <2>4, <2>7 DEF Bad
    <3>2. Wanted # <<>>
        BY <2>4, <2>7 DEF Bad
    <3>3. ~ (ReadToTheEnd(out) /\ ReadList(out).items = TextsOf(Wanted))
        BY <2>4, <2>7 DEF Bad, ReadToTheEnd
    <3>. QED  BY <2>2, <3>1, <3>2, <3>3 DEF ReadBackWhenFirstIsTyped
  <2>. QED  BY <2>1, <2>5, <2>6, <2>7 DEF Reading
<1>. QED  BY <1>1, ReadingInvariant, PTL
=============================================================================

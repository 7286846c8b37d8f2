--------------------------- MODULE ConnInfoProofs ---------------------------
(***************************************************************************)
(* Proofs about module ConnInfo, for parameters of any length: what libpq  *)
(* reads is followed character by character through the joined string.     *)
(***************************************************************************)
EXTENDS ConnInfo, NatRecursion

(* The values are texts without keywords, and the port is a number.        *)
GivenAsTexts ==
    /\ \A k \in Keywords \ {"port"} : connectionString[k] \in Seq(Special)
    /\ connectionString["port"] = <<"5432">>

(* What libpq asked for is what it read in the joined string, if it could. *)
AskedAsRead ==
    LET read == conninfo_parse(Join(connectionString))
    IN  asked = IF outcome = "none" \/ read.mode = "error" THEN NotAsked ELSE read.values

(* The inductive invariant: with it, the properties are about one text and *)
(* what conninfo_parse makes of it.                                        *)
ConnInfoInv == TypeOK /\ GivenAsTexts /\ AskedAsRead
-----------------------------------------------------------------------------
(* The characters of the values, and all that a joined string is made of.  *)
Plains     == Special \cup {"5432"}
Characters == Keywords \cup Plains

NameModes  == {"name", "named"}
ValueModes == {"start", "plain", "escape", "quoted", "quoted escape"}
Modes      == NameModes \cup ValueModes \cup {"error"}

(* The states of the reader: whenever it is in a value, it knows of which  *)
(* keyword.                                                                *)
States ==
    {st \in [mode : Modes, name : Texts, text : Texts, values : [Keywords -> Texts]] :
        st.mode \in ValueModes => \E k \in Keywords : st.name = <<k>>}

LEMMA KeywordsAre ==
    /\ Keywords = {"dbname", "user", "password", "host", "port"}
    /\ DOMAIN Order = 1..5
    /\ Keywords \cap Plains = {}
    /\ Texts = Seq(Characters)
<1>1. DOMAIN Order = 1..5
    BY DEF Order
<1>2. Keywords = {"dbname", "user", "password", "host", "port"}
    BY <1>1 DEF Keywords, Order, Range
<1>3. Texts = Seq(Characters)
  <2>1. Keywords \cup Special \cup {"5432"} = Characters
      BY DEF Characters, Plains
  <2>. QED  BY <2>1 DEF Texts
<1>. QED  BY <1>1, <1>2, <1>3 DEF Plains, Special

LEMMA Sequences ==
    /\ <<>> \in Texts
    /\ \A t \in Texts, ch \in Characters : Append(t, ch) \in Texts
    /\ \A k \in Characters : <<k>> \in Texts
    /\ \A s, t \in Texts : s \o t \in Texts
BY DEF Texts, Characters, Plains

LEMMA StoreTyped ==
    ASSUME NEW st \in States
    PROVE  Store(st) \in States
<1>1. \A k : [st.values EXCEPT ![k] = st.text] \in [Keywords -> Texts]
    BY DEF States
<1>2. "name" \in Modes /\ "name" \notin ValueModes
    BY DEF Modes, NameModes, ValueModes
<1>. QED  BY <1>1, <1>2, Sequences DEF Store, States

LEMMA ReadCharTyped ==
    ASSUME NEW st \in States, NEW ch \in Characters
    PROVE  ReadChar(st, ch) \in States
<1>1. st.mode \in Modes /\ st.name \in Texts /\ st.text \in Texts
    BY DEF States
<1>2. ASSUME st.mode \in ValueModes, NEW m \in ValueModes
      PROVE  Go(st, m) \in States /\ Take(st, m, ch) \in States
  <2>1. m \in Modes
      BY DEF Modes
  <2>2. Append(st.text, ch) \in Texts
      BY <1>1, Sequences
  <2>. QED  BY <1>2, <2>1, <2>2 DEF Go, Take, States
<1>3. Go(st, "named") \in States /\ Go(st, "error") \in States
    BY DEF Go, States, Modes, NameModes, ValueModes
<1>4. CASE st.mode = "error"
    BY <1>4 DEF ReadChar
<1>5. CASE st.mode \in NameModes
  <2>1. (\E k \in Keywords : st.name = <<k>>) => Go(st, "start") \in States
      BY DEF Go, States, Modes, ValueModes
  <2>2. [st EXCEPT !.name = Append(@, ch)] \in States
    <3>1. Append(st.name, ch) \in Texts
        BY <1>1, Sequences
    <3>. QED  BY <1>5, <3>1 DEF States, NameModes, ValueModes
  <2>3. ReadChar(st, ch) = ReadName(st, ch)
      BY <1>5 DEF ReadChar, NameModes
  <2>. HIDE DEF NameModes, States
  <2>4. ReadName(st, ch) \in States
      BY <1>3, <2>1, <2>2 DEF ReadName
  <2>. QED  BY <2>3, <2>4
<1>6. CASE st.mode \in ValueModes
  <2>1. ReadChar(st, ch) = ReadValue(st, ch)
      BY <1>6 DEF ReadChar, ValueModes
  <2>2. {"start", "plain", "escape", "quoted", "quoted escape"} = ValueModes
      BY DEF ValueModes
  <2>3. ReadValue(st, ch) \in States
      BY <1>2, <1>6, <2>2, StoreTyped DEF ReadValue
  <2>. QED  BY <2>1, <2>3
<1>. QED  BY <1>1, <1>4, <1>5, <1>6 DEF Modes

LEMMA ReadEndTyped ==
    ASSUME NEW st \in States
    PROVE  ReadEnd(st) \in States
<1>1. Go(st, "error") \in States
    BY DEF Go, States, Modes, NameModes, ValueModes
<1>. QED  BY <1>1, StoreTyped DEF ReadEnd

LEMMA UnreadTyped == Unread \in States
<1>1. [k \in Keywords |-> <<>>] \in [Keywords -> Texts]
    BY Sequences
<1>. QED  BY <1>1, Sequences DEF Unread, States, Modes, NameModes, ValueModes
-----------------------------------------------------------------------------
(* The loop of conninfo_parse.                                             *)

IsRead(r, chars) ==
    r = [n \in 0..Len(chars) |-> IF n = 0 THEN Unread ELSE ReadChar(r[n - 1], chars[n])]

LEMMA ReadIsFold ==
    ASSUME NEW step \in [States -> [Characters -> States]],
           \A x \in States, ch \in Characters : step[x][ch] = ReadChar(x, ch),
           NEW chars \in Texts
    PROVE  \E r : ReadAll(chars) = r[Len(chars)] /\ IsFold(r, Unread, step, chars)
<1>. DEFINE N == Len(chars)
<1>0. chars \in Seq(Characters)
    BY KeywordsAre
<1>1. /\ N \in Nat /\ 0 \in 0..N
      /\ \A n \in 1..N : chars[n] \in Characters /\ n \in 0..N /\ n # 0
      /\ \A n \in 0..N : n # 0 => n \in 1..N /\ n - 1 \in 0..N
    BY <1>0
<1>3. ASSUME NEW r, \A n \in 0..N : r[n] \in States
      PROVE  IsRead(r, chars) <=> IsFold(r, Unread, step, chars)
  <2>1. \A n \in 0..N : n # 0 => step[r[n - 1]][chars[n]] = ReadChar(r[n - 1], chars[n])
      BY <1>1, <1>3
  <2>. QED  BY <2>1 DEF IsRead, IsFold
<1>4. PICK f \in [0..N -> States] : IsFold(f, Unread, step, chars)
    BY <1>0, UnreadTyped, FoldIsDefined, Zenon
<1>5. IsRead(f, chars)
    BY <1>3, <1>4
<1>. DEFINE r == CHOOSE g : IsRead(g, chars)
<1>6. IsRead(r, chars)
    BY <1>5, Zenon
<1>7. ReadAll(chars) = r[N]
    BY DEF ReadAll, IsRead
<1>. HIDE DEF r
<1>8. \A n \in 0..N : r[n] \in States
  <2>. DEFINE S == {n \in 0..N : r[n] \in States}
  <2>1. 0 \in S
      BY <1>1, <1>6, UnreadTyped DEF IsRead
  <2>2. ASSUME NEW n \in 1..N, n - 1 \in S PROVE n \in S
    <3>1. r[n] = ReadChar(r[n - 1], chars[n])
        BY <1>1, <1>6 DEF IsRead
    <3>2. r[n] \in States
        BY <1>1, <2>2, <3>1, ReadCharTyped
    <3>. QED  BY <1>1, <3>2
  <2>. HIDE DEF S
  <2>3. \A n \in 0..N : n \in S
      BY <1>1, <2>1, <2>2, RoundByRound, Zenon
  <2>. QED  BY <2>3 DEF S
<1>. QED  BY <1>3, <1>6, <1>7, <1>8

(* libpq reads one character after the other.                              *)
LEMMA ReadStep ==
    /\ ReadAll(<<>>) = Unread
    /\ \A chars \in Texts :
          /\ ReadAll(chars) \in States
          /\ \A ch \in Characters : ReadAll(Append(chars, ch)) = ReadChar(ReadAll(chars), ch)
<1>. DEFINE Step == [x \in States |-> [ch \in Characters |-> ReadChar(x, ch)]]
<1>1. PICK step \in [States -> [Characters -> States]] : step = Step
  <2>1. \A x \in States, ch \in Characters : ReadChar(x, ch) \in States
      BY ReadCharTyped
  <2>. QED  BY <2>1
<1>2. \A x \in States, ch \in Characters : step[x][ch] = ReadChar(x, ch)
    BY <1>1
<1>3. Texts = Seq(Characters)
    BY KeywordsAre
<1>4. PICK F \in [Texts -> States] : IsResult(F, Characters, Unread, step)
    BY <1>3, UnreadTyped, FoldResult, Zenon
<1>5. ASSUME NEW chars \in Texts PROVE ReadAll(chars) = F[chars]
  <2>1. PICK r : ReadAll(chars) = r[Len(chars)] /\ IsFold(r, Unread, step, chars)
      BY <1>2, ReadIsFold
  <2>. QED  BY <1>3, <1>4, <2>1 DEF IsResult
<1>6. ASSUME NEW chars \in Texts, NEW ch \in Characters
      PROVE  ReadAll(Append(chars, ch)) = ReadChar(ReadAll(chars), ch)
  <2>1. Append(chars, ch) \in Texts /\ F[chars] \in States
      BY Sequences
  <2>2. F[Append(chars, ch)] = step[F[chars]][ch]
      BY <1>3, <1>4 DEF IsResult
  <2>. QED  BY <1>2, <1>5, <2>1, <2>2
<1>7. ReadAll(<<>>) = Unread
    BY <1>4, <1>5, Sequences DEF IsResult
<1>8. \A chars \in Texts : ReadAll(chars) \in States
    BY <1>5
<1>. QED  BY <1>6, <1>7, <1>8

LEMMA ReadByMode ==
    ASSUME NEW st \in States, NEW ch
    PROVE  /\ st.mode = "error" => ReadChar(st, ch).mode = "error"
           /\ st.mode \in NameModes => ReadChar(st, ch) = ReadName(st, ch)
           /\ st.mode \in ValueModes => ReadChar(st, ch) = ReadValue(st, ch)
           /\ st.mode \in {"error"} \cup NameModes \cup ValueModes
BY DEF ReadChar, NameModes, ValueModes, States, Modes

(* In a value a character ends it, changes how it is read, or is taken.    *)
LEMMA ReadValueDoes ==
    ASSUME NEW st \in States, st.mode \in ValueModes, NEW ch \in Characters
    PROVE  LET next == ReadValue(st, ch) IN
           \/ /\ next = Store(st)
              /\ \/ st.mode = "plain" /\ ch = "blank"
                 \/ st.mode = "quoted" /\ ch = "quote"
           \/ /\ next.mode \in ValueModes
              /\ next.name = st.name /\ next.values = st.values
              /\ \/ next.text = Append(st.text, ch)
                 \/ next.text = st.text /\ ch \in {"blank", "quote", "backslash"}
<1>1. ASSUME NEW m \in ValueModes
      PROVE  /\ Go(st, m).mode = m /\ Go(st, m).name = st.name
             /\ Go(st, m).values = st.values /\ Go(st, m).text = st.text
             /\ Take(st, m, ch).mode = m /\ Take(st, m, ch).name = st.name
             /\ Take(st, m, ch).values = st.values /\ Take(st, m, ch).text = Append(st.text, ch)
    BY DEF Go, Take, States
<1>2. /\ "plain" \in ValueModes /\ "quoted" \in ValueModes /\ "escape" \in ValueModes
      /\ "quoted escape" \in ValueModes /\ "start" \in ValueModes
    BY DEF ValueModes
<1>3. CASE st.mode = "start"
    BY <1>1, <1>2, <1>3 DEF ReadValue
<1>4. CASE st.mode = "plain"
    BY <1>1, <1>2, <1>4 DEF ReadValue
<1>5. CASE st.mode = "escape"
    BY <1>1, <1>2, <1>5 DEF ReadValue
<1>6. CASE st.mode = "quoted"
    BY <1>1, <1>2, <1>6 DEF ReadValue
<1>7. CASE st.mode = "quoted escape"
    BY <1>1, <1>2, <1>7 DEF ReadValue
<1>. QED  BY <1>3, <1>4, <1>5, <1>6, <1>7 DEF ValueModes
-----------------------------------------------------------------------------
(* Values that are not plain are lost.                                     *)

(* What has been read of the value of k is less than x, which is what was  *)
(* given of it so far; or x is plain so far, and is being read.            *)
Misread(st, x, k) ==
    \/ st.mode = "error"
    \/ st.name # <<k>> /\ Len(st.values[k]) < Len(x)
    \/ /\ st.mode \in ValueModes /\ st.name = <<k>>
       /\ \/ x = <<>> /\ st.mode = "start" /\ st.text = <<>>
          \/ Plain(x) /\ st.mode = "plain" /\ st.text = x
          \/ Len(st.text) < Len(x)

LEMMA OneCharacterMore ==
    ASSUME NEW C, NEW x \in Seq(C), NEW ch \in C
    PROVE  /\ Append(x, ch) \in Seq(C) /\ Append(x, ch) # <<>>
           /\ Len(Append(x, ch)) = Len(x) + 1 /\ Len(x) \in Nat
           /\ x = <<>> => Append(x, ch)[1] = ch
           /\ x # <<>> => Append(x, ch)[1] = x[1]
           /\ Append(x, ch)[Len(x) + 1] = ch
           /\ \A i \in 1..Len(x) : Append(x, ch)[i] = x[i]
           /\ DOMAIN Append(x, ch) = 1..(Len(x) + 1) /\ DOMAIN x = 1..Len(x)
<1>. DEFINE y == Append(x, ch)
            N == Len(x)
<1>1. y \in Seq(C) /\ Len(y) = N + 1 /\ y[N + 1] = ch /\ \A i \in 1..N : y[i] = x[i]
    BY AppendProperties
<1>2. N \in Nat /\ DOMAIN x = 1..N /\ (x = <<>> => N = 0) /\ (x # <<>> => 1 \in 1..N)
    OBVIOUS
<1>. HIDE DEF y
<1>3. DOMAIN y = 1..(N + 1) /\ y # <<>>
    BY <1>1, <1>2
<1>. QED  BY <1>1, <1>2, <1>3 DEF y

LEMMA MoreOfIt ==
    ASSUME NEW C, NEW x \in Seq(C), NEW ch \in C
    PROVE  /\ Blankless(Append(x, ch)) <=> Blankless(x) /\ ch # "blank"
           /\ Unescaped(Append(x, ch)) <=> Unescaped(x) /\ ch # "backslash"
           /\ Quoted(Append(x, ch)) <=> IF x = <<>> THEN ch = "quote" ELSE Quoted(x)
           /\ x = <<>> => Blankless(x) /\ Unescaped(x) /\ ~ Quoted(x)
           /\ Append(x, ch) # <<>>
<1>. DEFINE N == Len(x)
            y == Append(x, ch)
<1>1. /\ y # <<>> /\ N \in Nat /\ y[N + 1] = ch /\ DOMAIN y = 1..(N + 1) /\ DOMAIN x = 1..N
      /\ x = <<>> => y[1] = ch
      /\ x # <<>> => y[1] = x[1]
      /\ \A i \in 1..N : y[i] = x[i]
    BY OneCharacterMore
<1>. HIDE DEF y
<1>2. \A i \in 1..(N + 1) : i = N + 1 \/ i \in 1..N
    BY <1>1
<1>3. /\ N + 1 \in 1..(N + 1) /\ \A i \in 1..N : i \in 1..(N + 1)
      /\ x = <<>> => N = 0
    BY <1>1
<1>. HIDE DEF N
<1>4. Blankless(y) <=> Blankless(x) /\ ch # "blank"
    BY <1>1, <1>2, <1>3 DEF Blankless
<1>5. Unescaped(y) <=> Unescaped(x) /\ ch # "backslash"
    BY <1>1, <1>2, <1>3 DEF Unescaped
<1>6. x = <<>> => Blankless(x) /\ Unescaped(x) /\ ~ Quoted(x)
  <2>1. x = <<>> => 1..N = {}
      BY <1>3
  <2>. QED  BY <1>1, <2>1 DEF Blankless, Unescaped, Quoted
<1>7. Quoted(y) <=> IF x = <<>> THEN ch = "quote" ELSE Quoted(x)
    BY <1>1 DEF Quoted
<1>. QED  BY <1>1, <1>4, <1>5, <1>6, <1>7 DEF y

LEMMA PlainMore ==
    ASSUME NEW C, NEW x \in Seq(C), NEW ch \in C
    PROVE  /\ Plain(Append(x, ch)) <=>
                /\ x = <<>> \/ Plain(x)
                /\ ch \notin {"blank", "backslash"}
                /\ x = <<>> => ch # "quote"
           /\ ~ Plain(<<>>)
<1>. DEFINE y == Append(x, ch)
<1>1. /\ Blankless(y) <=> Blankless(x) /\ ch # "blank"
      /\ Unescaped(y) <=> Unescaped(x) /\ ch # "backslash"
      /\ Quoted(y) <=> IF x = <<>> THEN ch = "quote" ELSE Quoted(x)
      /\ x = <<>> => Blankless(x) /\ Unescaped(x)
      /\ y # <<>>
    BY MoreOfIt
<1>. HIDE DEF y
<1>2. Plain(y) <=> /\ x = <<>> \/ Plain(x)
                   /\ ch \notin {"blank", "backslash"}
                   /\ x = <<>> => ch # "quote"
    BY <1>1 DEF Plain
<1>. QED  BY <1>2 DEF Plain, y

LEMMA MisreadStep ==
    ASSUME NEW st \in States, NEW x \in Seq(Plains), NEW ch \in Plains, NEW k \in Keywords,
           Misread(st, x, k)
    PROVE  Misread(ReadChar(st, ch), Append(x, ch), k)
<1>. DEFINE y    == Append(x, ch)
            next == ReadChar(st, ch)
<1>1. /\ Len(y) = Len(x) + 1 /\ Len(x) \in Nat
      /\ x = <<>> => Len(x) = 0
    BY OneCharacterMore
<1>2. Plain(y) <=> /\ x = <<>> \/ Plain(x)
                   /\ ch \notin {"blank", "backslash"}
                   /\ x = <<>> => ch # "quote"
    BY PlainMore
<1>3. ch \in Characters /\ ch # k
    BY KeywordsAre DEF Characters
<1>. SUFFICES Misread(next, y, k)
    OBVIOUS
<1>4. /\ st.text \in Texts /\ Len(st.text) \in Nat /\ Len(Append(st.text, ch)) = Len(st.text) + 1
      /\ st.name \in Texts /\ st.values[k] \in Texts /\ Len(st.values[k]) \in Nat
  <2>1. st.text \in Texts /\ st.name \in Texts /\ st.values[k] \in Texts
      BY DEF States
  <2>. QED  BY <1>3, <2>1, KeywordsAre
<1>. HIDE DEF y
<1>5. CASE st.mode = "error"
    BY <1>5, ReadByMode DEF Misread
<1>6. CASE st.mode \in ValueModes /\ st.name = <<k>>
  <2>1. next = ReadValue(st, ch)
      BY <1>6, ReadByMode
  <2>2. /\ Store(st).name = <<>> /\ <<>> # <<k>> /\ Store(st).values[k] = st.text
    <3>1. st.name[1] = k
        BY <1>6
    <3>. QED  BY <3>1 DEF Store, States
  <2>3. Len(st.text) <= Len(x)
    <3>1. x = <<>> /\ st.text = <<>> => Len(st.text) <= Len(x)
        BY <1>1
    <3>2. Len(st.text) < Len(x) => Len(st.text) <= Len(x)
        BY <1>1, <1>4
    <3>3. st.text = x => Len(st.text) <= Len(x)
        BY <1>1
    <3>. QED  BY <1>6, <3>1, <3>2, <3>3, Zenon DEF Misread, ValueModes
  <2>4. CASE next = Store(st)
    <3>1. Len(next.values[k]) < Len(y)
        BY <1>1, <1>4, <2>2, <2>3, <2>4
    <3>. QED  BY <2>2, <2>4, <3>1 DEF Misread
  <2>5. CASE /\ next.mode \in ValueModes /\ next.name = st.name
             /\ next.text = st.text
    <3>1. Len(next.text) < Len(y)
        BY <1>1, <1>4, <2>3, <2>5
    <3>. QED  BY <1>6, <2>5, <3>1 DEF Misread
  <2>6. CASE /\ next.mode \in ValueModes /\ next.name = st.name
             /\ next.text = Append(st.text, ch)
    <3>1. CASE Len(st.text) < Len(x)
      <4>1. Len(next.text) < Len(y)
          BY <1>1, <1>4, <2>6, <3>1
      <4>. QED  BY <1>6, <2>6, <4>1 DEF Misread
    <3>2. CASE x = <<>> /\ st.mode = "start" /\ st.text = <<>>
      <4>1. next.text = y
          BY <2>6, <3>2 DEF y
      <4>2. CASE ch \in {"blank", "quote", "backslash"}
        <5>1. next.text = st.text
            BY <2>1, <3>2, <4>2 DEF ReadValue, Go, States
        <5>. QED  BY <1>4, <2>6, <5>1
      <4>3. CASE ch \notin {"blank", "quote", "backslash"}
        <5>1. next.mode = "plain"
            BY <2>1, <3>2, <4>3 DEF ReadValue, Take, States
        <5>2. Plain(y)
            BY <1>2, <3>2, <4>3
        <5>. QED  BY <1>6, <2>6, <4>1, <5>1, <5>2 DEF Misread
      <4>. QED  BY <4>2, <4>3
    <3>3. CASE Plain(x) /\ st.mode = "plain" /\ st.text = x
      <4>1. next.text = y
          BY <2>6, <3>3 DEF y
      <4>2. CASE ch = "blank"
        <5>1. next = Store(st)
            BY <2>1, <3>3, <4>2 DEF ReadValue
        <5>. QED  BY <1>6, <2>2, <2>6, <5>1
      <4>3. CASE ch = "backslash"
        <5>1. next.text = st.text
            BY <2>1, <3>3, <4>3 DEF ReadValue, Go, States
        <5>. QED  BY <1>4, <2>6, <5>1
      <4>4. CASE ch \notin {"blank", "backslash"}
        <5>1. next.mode = "plain"
            BY <2>1, <3>3, <4>4 DEF ReadValue, Take, States
        <5>2. Plain(y)
          <6>1. x # <<>>
              BY <3>3 DEF Plain
          <6>. QED  BY <1>2, <3>3, <4>4, <6>1
        <5>. QED  BY <1>6, <2>6, <4>1, <5>1, <5>2 DEF Misread
      <4>. QED  BY <4>2, <4>3, <4>4
    <3>. QED  BY <1>5, <1>6, <3>1, <3>2, <3>3 DEF Misread, ValueModes
  <2>. QED  BY <1>3, <1>6, <2>1, <2>4, <2>5, <2>6, ReadValueDoes
<1>7. CASE st.name # <<k>> /\ Len(st.values[k]) < Len(x)
  <2>1. CASE st.mode \in ValueModes
    <3>1. next = ReadValue(st, ch)
        BY <2>1, ReadByMode
    <3>2. Store(st).name = <<>> /\ <<>> # <<k>> /\ Store(st).values[k] = st.values[k]
      <4>1. PICK other \in Keywords : st.name = <<other>>
          BY <2>1 DEF States
      <4>2. other # k /\ st.name[1] = other
          BY <1>7, <4>1
      <4>. QED  BY <4>2 DEF Store, States
    <3>3. next.name # <<k>> /\ next.values[k] = st.values[k]
        BY <1>3, <1>7, <2>1, <3>1, <3>2, ReadValueDoes
    <3>4. Len(next.values[k]) < Len(y)
        BY <1>1, <1>4, <1>7, <3>3
    <3>. QED  BY <3>3, <3>4 DEF Misread
  <2>2. CASE st.mode \in NameModes
    <3>1. next = ReadName(st, ch)
        BY <2>2, ReadByMode
    <3>2. Append(st.name, ch) # <<k>>
      <4>1. Append(st.name, ch)[Len(st.name) + 1] = ch /\ Len(Append(st.name, ch)) = Len(st.name) + 1
          BY <1>3, <1>4, KeywordsAre, OneCharacterMore
      <4>2. Len(<<k>>) = 1 /\ <<k>>[1] = k
          OBVIOUS
      <4>3. CASE Len(st.name) = 0
          BY <1>3, <4>1, <4>2, <4>3
      <4>4. CASE Len(st.name) # 0
        <5>1. Len(st.name) \in Nat
            BY <1>4, KeywordsAre
        <5>. QED  BY <4>1, <4>2, <4>4, <5>1
      <4>. QED  BY <4>3, <4>4
    <3>3. next.name # <<k>> /\ next.values = st.values
        BY <1>7, <3>1, <3>2 DEF ReadName, Go, States
    <3>4. Len(next.values[k]) < Len(y)
        BY <1>1, <1>4, <1>7, <3>3
    <3>. QED  BY <3>3, <3>4 DEF Misread
  <2>. QED  BY <1>5, <2>1, <2>2, ReadByMode
<1>. QED  BY <1>5, <1>6, <1>7 DEF Misread

LEMMA MisreadAlong ==
    ASSUME NEW s \in Texts, NEW k \in Keywords, NEW x \in Seq(Plains),
           ReadAll(s).mode = "start", ReadAll(s).name = <<k>>, ReadAll(s).text = <<>>
    PROVE  Misread(ReadAll(s \o x), x, k)
<1>. DEFINE P == {y \in Seq(Plains) : Misread(ReadAll(s \o y), y, k)}
<1>0. s \in Seq(Characters) /\ Texts = Seq(Characters) /\ Plains \subseteq Characters
    BY KeywordsAre DEF Characters
<1>1. <<>> \in P
  <2>1. s \o <<>> = s /\ <<>> \in Seq(Plains)
      BY <1>0, ConcatEmptySeq
  <2>. QED  BY <2>1 DEF Misread, ValueModes
<1>2. ASSUME NEW y \in Seq(Plains), NEW ch \in Plains, y \in P PROVE Append(y, ch) \in P
  <2>1. y \in Seq(Characters) /\ ch \in Characters
      BY <1>0
  <2>2. PICK before \in Texts : before = s \o y
      BY <1>0, <2>1, ConcatAppend
  <2>3. s \o Append(y, ch) = Append(before, ch)
      BY <1>0, <2>1, <2>2, ConcatAppend
  <2>4. ReadAll(before) \in States /\ ReadAll(Append(before, ch)) = ReadChar(ReadAll(before), ch)
      BY <2>1, ReadStep
  <2>5. Misread(ReadAll(before), y, k)
      BY <1>2, <2>2
  <2>6. Misread(ReadAll(Append(before, ch)), Append(y, ch), k)
      BY <2>4, <2>5, MisreadStep
  <2>7. Append(y, ch) \in Seq(Plains)
      BY OneCharacterMore
  <2>. QED  BY <2>3, <2>6, <2>7
<1>. HIDE DEF P
<1>3. \A y \in Seq(Plains) : y \in P
    BY <1>1, <1>2, OneByOne, Zenon
<1>. QED  BY <1>3 DEF P

(* The value of k is already another than v, or will be, or the string is  *)
(* refused, provided k does not come again.                                *)
Lost(st, k, v) ==
    \/ st.mode = "error"
    \/ st.name # <<k>> /\ st.values[k] # v
    \/ st.mode \in ValueModes /\ st.name = <<k>> /\ st.text \notin Seq(Plains)

LEMMA NotPlainsMore ==
    ASSUME NEW t \in Texts, NEW ch \in Characters
    PROVE  /\ t \notin Seq(Plains) => Append(t, ch) \notin Seq(Plains)
           /\ ch \in Keywords => Append(t, ch) \notin Seq(Plains)
<1>. DEFINE y == Append(t, ch)
            N == Len(t)
<1>1. /\ y[N + 1] = ch /\ \A i \in 1..N : y[i] = t[i]
      /\ Len(y) = N + 1 /\ N \in Nat
    BY KeywordsAre, OneCharacterMore
<1>. HIDE DEF y
<1>2. ASSUME y \in Seq(Plains) PROVE \A i \in 1..(N + 1) : y[i] \in Plains
    BY <1>1, <1>2
<1>3. \A i \in 1..N : i \in 1..(N + 1)
    BY <1>1
<1>4. (\A i \in 1..N : t[i] \in Plains) => t \in Seq(Plains)
    BY KeywordsAre
<1>5. ch \in Keywords => ch \notin Plains
    BY KeywordsAre
<1>6. N + 1 \in 1..(N + 1)
    BY <1>1
<1>. QED  BY <1>1, <1>2, <1>3, <1>4, <1>5, <1>6 DEF y

LEMMA LostStep ==
    ASSUME NEW st \in States, NEW k \in Keywords, NEW v \in Seq(Plains), Lost(st, k, v),
           NEW ch \in Characters \ {k}
    PROVE  Lost(ReadChar(st, ch), k, v)
<1>. DEFINE next == ReadChar(st, ch)
<1>. SUFFICES Lost(next, k, v)
    OBVIOUS
<1>1. /\ st.text \in Texts /\ st.name \in Texts
      /\ \A other \in Keywords : Store(st).values[other] =
            IF st.name[1] = other THEN st.text ELSE st.values[other]
      /\ Store(st).name = <<>> /\ <<>> # <<k>> /\ <<k>>[1] = k
    BY DEF States, Store
<1>2. CASE st.mode = "error"
    BY <1>2, ReadByMode DEF Lost
<1>3. CASE st.mode \in ValueModes /\ st.name = <<k>> /\ st.text \notin Seq(Plains)
  <2>1. next = ReadValue(st, ch)
      BY <1>3, ReadByMode
  <2>2. Append(st.text, ch) \notin Seq(Plains)
      BY <1>1, <1>3, NotPlainsMore
  <2>3. Store(st).values[k] # v
      BY <1>1, <1>3
  <2>4. CASE next = Store(st)
      BY <1>1, <2>3, <2>4 DEF Lost
  <2>5. CASE /\ next.mode \in ValueModes /\ next.name = st.name
             /\ next.text \in {st.text, Append(st.text, ch)}
      BY <1>3, <2>2, <2>5 DEF Lost
  <2>. QED  BY <1>3, <2>1, <2>4, <2>5, ReadValueDoes
<1>4. CASE st.name # <<k>> /\ st.values[k] # v /\ st.mode \in ValueModes
  <2>1. next = ReadValue(st, ch)
      BY <1>4, ReadByMode
  <2>2. Store(st).values[k] # v
    <3>1. PICK other \in Keywords : st.name = <<other>>
        BY <1>4 DEF States
    <3>2. other # k /\ st.name[1] = other
        BY <1>4, <3>1
    <3>. QED  BY <1>1, <1>4, <3>2
  <2>3. CASE next = Store(st)
      BY <1>1, <2>2, <2>3 DEF Lost
  <2>4. CASE next.name = st.name /\ next.values = st.values
      BY <1>4, <2>4 DEF Lost
  <2>. QED  BY <1>4, <2>1, <2>3, <2>4, ReadValueDoes
<1>5. CASE st.name # <<k>> /\ st.values[k] # v /\ st.mode \in NameModes
  <2>1. next = ReadName(st, ch)
      BY <1>5, ReadByMode
  <2>2. Append(st.name, ch) # <<k>>
    <3>1. /\ Append(st.name, ch)[Len(st.name) + 1] = ch
          /\ Len(Append(st.name, ch)) = Len(st.name) + 1 /\ Len(st.name) \in Nat
        BY <1>1, KeywordsAre, OneCharacterMore
    <3>2. Len(<<k>>) = 1 /\ <<k>>[1] = k
        OBVIOUS
    <3>3. CASE Len(st.name) = 0
        BY <3>1, <3>2, <3>3
    <3>4. CASE Len(st.name) # 0
        BY <3>1, <3>2, <3>4
    <3>. QED  BY <3>3, <3>4
  <2>3. next.name # <<k>> /\ next.values = st.values
      BY <1>5, <2>1, <2>2 DEF ReadName, Go, States
  <2>. QED  BY <1>5, <2>3 DEF Lost
<1>. QED  BY <1>2, <1>3, <1>4, <1>5, ReadByMode DEF Lost

LEMMA LostStays ==
    ASSUME NEW s \in Texts, NEW k \in Keywords, NEW v \in Seq(Plains), Lost(ReadAll(s), k, v),
           NEW x \in Seq(Characters \ {k})
    PROVE  Lost(ReadAll(s \o x), k, v)
<1>. DEFINE C == Characters \ {k}
            P == {y \in Seq(C) : Lost(ReadAll(s \o y), k, v)}
<1>0. s \in Seq(Characters) /\ Texts = Seq(Characters) /\ C \subseteq Characters
    BY KeywordsAre
<1>1. <<>> \in P
  <2>1. s \o <<>> = s /\ <<>> \in Seq(C)
      BY <1>0, ConcatEmptySeq
  <2>. QED  BY <2>1
<1>2. ASSUME NEW y \in Seq(C), NEW ch \in C, y \in P PROVE Append(y, ch) \in P
  <2>1. y \in Seq(Characters) /\ ch \in Characters
      BY <1>0
  <2>2. PICK before \in Texts : before = s \o y
      BY <1>0, <2>1, ConcatAppend
  <2>3. s \o Append(y, ch) = Append(before, ch)
      BY <1>0, <2>1, <2>2, ConcatAppend
  <2>4. ReadAll(before) \in States /\ ReadAll(Append(before, ch)) = ReadChar(ReadAll(before), ch)
      BY <2>1, ReadStep
  <2>5. Lost(ReadAll(Append(before, ch)), k, v)
      BY <1>2, <2>2, <2>4, LostStep
  <2>6. Append(y, ch) \in Seq(C)
      BY OneCharacterMore
  <2>. QED  BY <2>3, <2>5, <2>6
<1>. HIDE DEF P, C
<1>3. \A y \in Seq(C) : y \in P
    BY <1>1, <1>2, OneByOne, Zenon
<1>. QED  BY <1>3 DEF P, C

LEMMA LostAtTheEnd ==
    ASSUME NEW st \in States, NEW k \in Keywords, NEW v \in Seq(Plains), Lost(st, k, v)
    PROVE  ReadEnd(st).mode = "error" \/ ReadEnd(st).values[k] # v
<1>1. Go(st, "error").mode = "error"
    BY DEF Go, States
<1>2. CASE st.mode \in {"start", "plain", "escape"}
  <2>1. PICK other \in Keywords : st.name = <<other>>
      BY <1>2 DEF States, ValueModes
  <2>2. ReadEnd(st) = Store(st) /\ st.name[1] = other
      BY <1>2, <2>1 DEF ReadEnd
  <2>3. Store(st).values[k] = IF other = k THEN st.text ELSE st.values[k]
      BY <2>2 DEF Store, States
  <2>4. other # k => <<other>> # <<k>>
      OBVIOUS
  <2>. QED  BY <1>2, <2>1, <2>2, <2>3, <2>4 DEF Lost
<1>3. CASE st.mode = "name" /\ st.name = <<>>
  <2>1. ReadEnd(st) = st /\ st.mode \notin ValueModes
      BY <1>3 DEF ReadEnd, ValueModes
  <2>. QED  BY <1>3, <2>1 DEF Lost
<1>4. CASE st.mode \notin {"start", "plain", "escape"} /\ ~ (st.mode = "name" /\ st.name = <<>>)
    BY <1>1, <1>4 DEF ReadEnd
<1>. QED  BY <1>2, <1>3, <1>4

LEMMA MisreadThenNext ==
    ASSUME NEW st \in States, NEW k \in Keywords, NEW v \in Seq(Plains), ~ Plain(v),
           Misread(st, v, k), NEW other \in Keywords \ {k}
    PROVE  Lost(ReadChar(ReadChar(st, "blank"), other), k, v)
<1>. DEFINE after == ReadChar(st, "blank")
<1>1. /\ "blank" \in Characters \ {k} /\ other \in Characters \ {k}
      /\ other \notin {"blank", "quote", "backslash"}
    BY KeywordsAre DEF Characters, Plains, Special
<1>2. after \in States
    BY <1>1, ReadCharTyped
<1>3. ASSUME Lost(after, k, v) PROVE Lost(ReadChar(after, other), k, v)
    BY <1>1, <1>2, <1>3, LostStep
<1>4. ASSUME after.mode \in ValueModes, after.name = <<k>>
      PROVE  Lost(ReadChar(after, other), k, v)
  <2>. DEFINE next == ReadChar(after, other)
  <2>1. next = ReadValue(after, other)
      BY <1>2, <1>4, ReadByMode
  <2>2. Append(after.text, other) \notin Seq(Plains)
    <3>1. after.text \in Texts
        BY <1>2 DEF States
    <3>. QED  BY <1>1, <3>1, NotPlainsMore
  <2>3. next.mode \in ValueModes /\ next.name = <<k>> /\ next.text = Append(after.text, other)
      BY <1>1, <1>2, <1>4, <2>1, ReadValueDoes
  <2>4. next.text \notin Seq(Plains)
      BY <2>2, <2>3
  <2>. QED  BY <2>3, <2>4 DEF Lost
<1>5. CASE st.mode = "error"
  <2>1. Lost(st, k, v)
      BY <1>5 DEF Lost
  <2>2. Lost(after, k, v)
      BY <1>1, <2>1, LostStep
  <2>. QED  BY <1>3, <2>2
<1>6. CASE st.name # <<k>> /\ Len(st.values[k]) < Len(v)
  <2>1. st.values[k] # v
    <3>1. Len(v) \in Nat
        OBVIOUS
    <3>. QED  BY <1>6, <3>1
  <2>2. Lost(st, k, v)
      BY <1>6, <2>1 DEF Lost
  <2>3. Lost(after, k, v)
      BY <1>1, <2>2, LostStep
  <2>. QED  BY <1>3, <2>3
<1>7. CASE st.mode \in ValueModes /\ st.name = <<k>>
  <2>1. after = ReadValue(st, "blank")
      BY <1>7, ReadByMode
  <2>2. CASE after = Store(st) /\ st.mode = "plain"
    <3>1. Len(st.text) < Len(v)
        BY <1>5, <1>7, <2>2 DEF Misread
    <3>2. Store(st).values[k] = st.text /\ Store(st).name = <<>> /\ <<>> # <<k>>
      <4>1. st.name[1] = k
          BY <1>7
      <4>. QED  BY <4>1 DEF Store, States
    <3>3. st.text # v
      <4>1. Len(v) \in Nat
          OBVIOUS
      <4>. QED  BY <3>1, <4>1
    <3>4. Lost(after, k, v)
        BY <2>2, <3>2, <3>3 DEF Lost
    <3>. QED  BY <1>3, <3>4
  <2>3. CASE after.mode \in ValueModes /\ after.name = st.name
      BY <1>4, <1>7, <2>3
  <2>. QED  BY <1>1, <1>7, <2>1, <2>2, <2>3, ReadValueDoes
<1>. QED  BY <1>5, <1>6, <1>7 DEF Misread
-----------------------------------------------------------------------------
(* The pieces of a joined string.                                          *)

LEMMA Pieces ==
    ASSUME NEW s \in Texts, NEW params, NEW k \in Keywords, params[k] \in Texts
    PROVE  /\ <<k, "equals">> = Append(Append(<<>>, k), "equals")
           /\ Given(params, k) = Append(Append(<<>>, k), "equals") \o params[k]
           /\ Given(params, k) \in Texts
           /\ And(s, params, k) =
                 Append(Append(Append(s, "blank"), k), "equals") \o params[k]
           /\ And(s, params, k) = Append(s, "blank") \o Given(params, k)
           /\ And(s, params, k) \in Texts
<1>1. Texts = Seq(Characters) /\ k \in Characters /\ "blank" \in Characters /\ "equals" \in Characters
    BY KeywordsAre DEF Characters, Plains, Special
<1>2. <<k, "equals">> = Append(Append(<<>>, k), "equals")
    BY <1>1
<1>3. <<k, "equals">> \in Texts /\ <<k>> \in Texts /\ <<k>> = Append(<<>>, k) /\ <<>> \in Texts
    BY <1>1
<1>4. s \o <<"blank">> = Append(s, "blank") /\ Append(s, "blank") \in Texts
  <2>1. <<"blank">> = Append(<<>>, "blank")
      OBVIOUS
  <2>. QED  BY <1>1, <1>3, <2>1, ConcatAppend, ConcatEmptySeq
<1>. DEFINE t == Append(s, "blank")
<1>5. t \o <<k, "equals">> = Append(Append(t, k), "equals") /\ Append(Append(t, k), "equals") \in Texts
  <2>1. t \o <<>> = t
      BY <1>1, <1>4, ConcatEmptySeq
  <2>2. t \o <<k>> = Append(t, k)
      BY <1>1, <1>3, <1>4, <2>1, ConcatAppend
  <2>3. t \o Append(<<k>>, "equals") = Append(t \o <<k>>, "equals")
      BY <1>1, <1>3, <1>4, ConcatAppend
  <2>4. Append(t, k) \in Texts /\ Append(Append(t, k), "equals") \in Texts
      BY <1>1, <1>4, Sequences
  <2>. QED  BY <1>2, <1>3, <2>2, <2>3, <2>4
<1>. HIDE DEF t
<1>6. And(s, params, k) = t \o Given(params, k)
    BY <1>4 DEF And, t
<1>7. t \o (<<k, "equals">> \o params[k]) = (t \o <<k, "equals">>) \o params[k]
  <2>1. PICK pair \in Seq(Characters) : pair = <<k, "equals">>
      BY <1>1, <1>3
  <2>2. PICK value \in Seq(Characters) : value = params[k]
      BY <1>1
  <2>3. t \in Seq(Characters)
      BY <1>1, <1>4 DEF t
  <2>4. (t \o pair) \o value = t \o (pair \o value)
      BY <2>3, ConcatAssociative
  <2>. QED  BY <2>1, <2>2, <2>4
<1>8. Given(params, k) \in Texts
    BY <1>3, Sequences DEF Given
<1>. QED  BY <1>2, <1>4, <1>5, <1>6, <1>7, <1>8, Sequences DEF Given, t

(* A value that is not plain is lost with the parameter that follows it.   *)
LEMMA NotPlainIsLost ==
    ASSUME NEW s \in Texts, NEW params, NEW k \in Keywords, params[k] \in Seq(Plains),
           ~ Plain(params[k]),
           ReadAll(s).mode = "start", ReadAll(s).name = <<k>>, ReadAll(s).text = <<>>,
           NEW other \in Keywords \ {k}, params[other] \in Seq(Plains)
    PROVE  Lost(ReadAll(And(s \o params[k], params, other)), k, params[k])
<1>. DEFINE v == params[k]
<1>1. /\ "blank" \in Characters /\ other \in Characters /\ "equals" \in Characters \ {k}
      /\ Plains \subseteq Characters \ {k} /\ Texts = Seq(Characters)
    BY KeywordsAre DEF Characters, Plains, Special
<1>2. PICK before \in Texts : before = s \o v
  <2>1. v \in Texts
      BY <1>1
  <2>. QED  BY <2>1, Sequences
<1>3. Misread(ReadAll(before), v, k)
    BY <1>2, MisreadAlong
<1>4. PICK after \in Texts : after = Append(Append(before, "blank"), other)
    BY <1>1, Sequences
<1>5. Lost(ReadAll(after), k, v)
  <2>1. Append(before, "blank") \in Texts
      BY <1>1, Sequences
  <2>2. ReadAll(before) \in States
      BY ReadStep
  <2>3. ReadAll(after) = ReadChar(ReadChar(ReadAll(before), "blank"), other)
      BY <1>1, <1>4, <2>1, ReadStep
  <2>. QED  BY <1>3, <2>2, <2>3, MisreadThenNext
<1>6. PICK opened \in Texts : opened = Append(after, "equals")
    BY <1>1, Sequences
<1>7. Lost(ReadAll(opened), k, v)
    BY <1>1, <1>5, <1>6, ReadStep, LostStep
<1>8. params[other] \in Seq(Characters \ {k}) /\ params[other] \in Texts
    BY <1>1
<1>9. Lost(ReadAll(opened \o params[other]), k, v)
    BY <1>7, <1>8, LostStays
<1>10. And(before, params, other) =
         Append(Append(Append(before, "blank"), other), "equals") \o params[other]
    BY <1>8, Pieces, Zenon
<1>. QED  BY <1>2, <1>4, <1>6, <1>9, <1>10

LEMMA LostWithTheNext ==
    ASSUME NEW s \in Texts, NEW params, NEW k \in Keywords, NEW v \in Seq(Plains),
           Lost(ReadAll(s), k, v),
           NEW other \in Keywords \ {k}, params[other] \in Seq(Plains)
    PROVE  Lost(ReadAll(And(s, params, other)), k, v)
<1>. DEFINE C == Characters \ {k}
<1>1. /\ "blank" \in C /\ other \in C /\ "equals" \in C
      /\ Plains \subseteq C /\ Texts = Seq(Characters) /\ C \subseteq Characters
    BY KeywordsAre DEF Characters, Plains, Special
<1>2. PICK a \in Texts : a = Append(s, "blank")
    BY <1>1, Sequences
<1>3. PICK b \in Texts : b = Append(a, other)
    BY <1>1, Sequences
<1>4. PICK c \in Texts : c = Append(b, "equals")
    BY <1>1, Sequences
<1>5. Lost(ReadAll(a), k, v)
    BY <1>1, <1>2, ReadStep, LostStep
<1>6. Lost(ReadAll(b), k, v)
    BY <1>1, <1>3, <1>5, ReadStep, LostStep
<1>7. Lost(ReadAll(c), k, v)
    BY <1>1, <1>4, <1>6, ReadStep, LostStep
<1>8. params[other] \in Seq(C) /\ params[other] \in Texts
    BY <1>1
<1>9. Lost(ReadAll(c \o params[other]), k, v)
    BY <1>7, <1>8, LostStays
<1>10. And(s, params, other) = Append(Append(Append(s, "blank"), other), "equals") \o params[other]
  <2>1. params[other] \in Texts /\ other \in Keywords
      BY <1>8
  <2>. QED  BY <2>1, Pieces, ZenonT(40)
<1>. QED  BY <1>2, <1>3, <1>4, <1>9, <1>10
-----------------------------------------------------------------------------
(* Values that are plain, or empty.                                        *)

Clean(values)            == [mode |-> "name", name |-> <<>>, text |-> <<>>, values |-> values]
InValue(k, m, t, values) == [mode |-> m, name |-> <<k>>, text |-> t, values |-> values]

LEMMA TakeIs ==
    ASSUME NEW k, NEW m, NEW t, NEW values, NEW n, NEW ch
    PROVE  Take(InValue(k, m, t, values), n, ch) = InValue(k, n, Append(t, ch), values)
BY DEF Take, InValue

(* An empty parameter that is not taken has its keyword read, and the one  *)
(* after it is read in a clean state, or is taken.                         *)
LEMMA ReadKeyword ==
    ASSUME NEW s \in Texts, NEW values, ReadAll(s) = Clean(values), NEW k \in Keywords
    PROVE  ReadAll(Append(Append(s, k), "equals")) = InValue(k, "start", <<>>, values)
<1>1. k \in Characters /\ "equals" \in Characters /\ k \notin {"equals", "blank"}
    BY KeywordsAre DEF Characters, Plains, Special
<1>2. PICK t \in Texts : t = Append(s, k)
    BY <1>1, Sequences
<1>3. ReadAll(t) = [mode |-> "name", name |-> <<k>>, text |-> <<>>, values |-> values]
  <2>1. ReadAll(t) = ReadChar(ReadAll(s), k)
      BY <1>1, <1>2, ReadStep
  <2>2. Append(<<>>, k) = <<k>>
      OBVIOUS
  <2>. QED  BY <1>1, <2>1, <2>2 DEF Clean, ReadChar, ReadName
<1>4. ReadAll(Append(t, "equals")) = ReadChar(ReadAll(t), "equals")
    BY <1>1, ReadStep
<1>. QED  BY <1>2, <1>3, <1>4 DEF InValue, ReadChar, ReadName, Go

LEMMA ReadPlain ==
    ASSUME NEW s \in Texts, NEW values, NEW k \in Keywords,
           ReadAll(s) = InValue(k, "start", <<>>, values),
           NEW x \in Texts, Plain(x)
    PROVE  ReadAll(s \o x) = InValue(k, "plain", x, values)
<1>. DEFINE P == {y \in Texts : /\ y = <<>> => ReadAll(s \o y) = InValue(k, "start", <<>>, values)
                                /\ Plain(y) => ReadAll(s \o y) = InValue(k, "plain", y, values)}
<1>0. s \in Seq(Characters) /\ Texts = Seq(Characters)
    BY KeywordsAre
<1>1. <<>> \in P
  <2>1. s \o <<>> = s
      BY <1>0, ConcatEmptySeq
  <2>. QED  BY <2>1, Sequences DEF Plain
<1>2. ASSUME NEW y \in Texts, NEW ch \in Characters, y \in P PROVE Append(y, ch) \in P
  <2>1. PICK before \in Texts : before = s \o y
      BY Sequences
  <2>2. s \o Append(y, ch) = Append(before, ch)
      BY <1>0, <2>1, ConcatAppend
  <2>3. ReadAll(Append(before, ch)) = ReadChar(ReadAll(before), ch)
      BY ReadStep
  <2>4. Append(y, ch) \in Texts /\ Append(y, ch) # <<>>
      BY <1>0, OneCharacterMore
  <2>5. ASSUME Plain(Append(y, ch))
        PROVE  ReadChar(ReadAll(before), ch) = InValue(k, "plain", Append(y, ch), values)
    <3>1. /\ y = <<>> \/ Plain(y)
          /\ ch \notin {"blank", "backslash"}
          /\ y = <<>> => ch # "quote"
        BY <1>0, <2>5, PlainMore
    <3>2. CASE y = <<>>
      <4>1. ReadAll(before) = InValue(k, "start", y, values)
          BY <1>2, <2>1, <3>2
      <4>2. ReadChar(ReadAll(before), ch) = ReadValue(ReadAll(before), ch)
          BY <4>1 DEF InValue, ReadChar
      <4>3. ReadValue(ReadAll(before), ch) = Take(ReadAll(before), "plain", ch)
          BY <3>1, <3>2, <4>1 DEF InValue, ReadValue
      <4>. QED  BY <4>1, <4>2, <4>3, TakeIs
    <3>3. CASE Plain(y)
      <4>1. ReadAll(before) = InValue(k, "plain", y, values)
          BY <1>2, <2>1, <3>3
      <4>2. ReadChar(ReadAll(before), ch) = ReadValue(ReadAll(before), ch)
          BY <4>1 DEF InValue, ReadChar
      <4>3. ReadValue(ReadAll(before), ch) = Take(ReadAll(before), "plain", ch)
          BY <3>1, <4>1 DEF InValue, ReadValue
      <4>. QED  BY <4>1, <4>2, <4>3, TakeIs
    <3>. QED  BY <3>1, <3>2, <3>3
  <2>. QED  BY <2>2, <2>3, <2>4, <2>5
<1>. HIDE DEF P
<1>3. \A y \in Texts : y \in P
    BY <1>0, <1>1, <1>2, OneByOne, Zenon
<1>. QED  BY <1>3 DEF P

(* A parameter whose keyword is read in a clean state.                     *)
LEMMA OneGiven ==
    ASSUME NEW s \in Texts, NEW values, ReadAll(s) = Clean(values),
           NEW params, NEW k \in Keywords, params[k] \in Texts,
           params[k] = <<>> \/ Plain(params[k])
    PROVE  ReadAll(Append(Append(s, k), "equals") \o params[k]) =
               InValue(k, IF params[k] = <<>> THEN "start" ELSE "plain", params[k], values)
<1>1. k \in Characters /\ "equals" \in Characters
    BY KeywordsAre DEF Characters, Plains, Special
<1>2. PICK t \in Texts : t = Append(Append(s, k), "equals")
    BY <1>1, Sequences
<1>3. ReadAll(t) = InValue(k, "start", <<>>, values)
    BY <1>2, ReadKeyword
<1>4. CASE params[k] = <<>>
  <2>1. t \o params[k] = t
      BY <1>4, KeywordsAre, ConcatEmptySeq
  <2>. QED  BY <1>2, <1>3, <1>4, <2>1
<1>5. CASE Plain(params[k])
  <2>1. params[k] # <<>>
      BY <1>5 DEF Plain
  <2>. QED  BY <1>2, <1>3, <1>5, <2>1, ReadPlain
<1>. QED  BY <1>4, <1>5

(* After a plain value the next parameter's keyword is read.               *)
LEMMA NextIsGiven ==
    ASSUME NEW s \in Texts, NEW values, NEW o \in Keywords, NEW t \in Texts,
           ReadAll(s) = InValue(o, "plain", t, values),
           NEW params, NEW k \in Keywords, params[k] \in Texts,
           params[k] = <<>> \/ Plain(params[k])
    PROVE  ReadAll(And(s, params, k)) =
               InValue(k, IF params[k] = <<>> THEN "start" ELSE "plain", params[k],
                       [values EXCEPT ![o] = t])
<1>1. "blank" \in Characters
    BY DEF Characters, Plains, Special
<1>2. PICK after \in Texts : after = Append(s, "blank")
    BY <1>1, Sequences
<1>3. ReadAll(after) = Clean([values EXCEPT ![o] = t])
  <2>1. ReadAll(after) = ReadChar(ReadAll(s), "blank")
      BY <1>1, <1>2, ReadStep
  <2>2. <<o>>[1] = o
      OBVIOUS
  <2>. QED  BY <2>1, <2>2 DEF InValue, ReadChar, ReadValue, Store, Clean
<1>4. And(s, params, k) = Append(Append(Append(s, "blank"), k), "equals") \o params[k]
    BY Pieces, Zenon
<1>. QED  BY <1>2, <1>3, <1>4, OneGiven

(* An empty parameter takes the next one for its value.                    *)
LEMMA NextIsTaken ==
    ASSUME NEW s \in Texts, NEW values, NEW o \in Keywords,
           ReadAll(s) = InValue(o, "start", <<>>, values),
           NEW params, NEW k \in Keywords, params[k] \in Texts,
           params[k] = <<>> \/ Plain(params[k])
    PROVE  ReadAll(And(s, params, k)) = InValue(o, "plain", Given(params, k), values)
<1>1. "blank" \in Characters
    BY DEF Characters, Plains, Special
<1>2. PICK after \in Texts : after = Append(s, "blank")
    BY <1>1, Sequences
<1>3. ReadAll(after) = InValue(o, "start", <<>>, values)
  <2>1. ReadAll(after) = ReadChar(ReadAll(s), "blank")
      BY <1>1, <1>2, ReadStep
  <2>. QED  BY <2>1 DEF InValue, ReadChar, ReadValue
<1>4. And(s, params, k) = after \o Given(params, k) /\ Given(params, k) \in Texts
    BY <1>2, Pieces, Zenon
<1>5. Plain(Given(params, k))
  <2>. DEFINE x == params[k]
              y == Given(params, k)
              pair == <<k, "equals">>
  <2>1. pair \in Texts /\ x \in Texts /\ y = pair \o x /\ Texts = Seq(Characters)
      BY KeywordsAre DEF Given, Characters, Plains, Special
  <2>2. /\ Len(pair) = 2 /\ pair[1] = k /\ pair[2] = "equals" /\ Len(x) \in Nat
        /\ DOMAIN x = 1..Len(x)
      BY <2>1
  <2>. HIDE DEF pair
  <2>3. /\ Len(y) = 2 + Len(x)
        /\ \A i \in 1..(2 + Len(x)) : y[i] = IF i <= 2 THEN pair[i] ELSE x[i - 2]
        /\ DOMAIN y = 1..(2 + Len(x)) /\ y # <<>>
    <3>1. /\ Len(y) = Len(pair) + Len(x)
          /\ \A i \in 1..(Len(pair) + Len(x)) :
                y[i] = IF i <= Len(pair) THEN pair[i] ELSE x[i - Len(pair)]
        BY <2>1, ConcatProperties
    <3>2. y \in Seq(Characters)
        BY <1>4, <2>1
    <3>. QED  BY <2>2, <3>1, <3>2
  <2>4. \A i \in 1..(2 + Len(x)) : i = 1 \/ i = 2 \/ (~ (i <= 2) /\ i - 2 \in 1..Len(x))
      BY <2>2
  <2>5. k \notin {"blank", "backslash", "quote"}
      BY KeywordsAre
  <2>6. \A i \in 1..Len(x) : x[i] \notin {"blank", "backslash"}
      BY <2>2 DEF Plain, Blankless, Unescaped
  <2>. HIDE DEF x, y
  <2>7. \A i \in 1..(2 + Len(x)) : y[i] \notin {"blank", "backslash"}
      BY <2>2, <2>3, <2>4, <2>5, <2>6
  <2>8. y[1] # "quote"
      BY <2>2, <2>3, <2>5
  <2>9. Plain(y)
      BY <2>3, <2>7, <2>8 DEF Plain, Blankless, Unescaped, Quoted
  <2>. QED  BY <2>9 DEF y
<1>. QED  BY <1>2, <1>3, <1>4, <1>5, ReadPlain
-----------------------------------------------------------------------------
(* The string piece by piece.                                              *)

IsJoin(joined, params) ==
    /\ joined \in [1..5 -> Texts]
    /\ joined[1] = Given(params, Order[1])
    /\ \A i \in 1..4 : joined[i + 1] = And(joined[i], params, Order[i + 1])
    /\ joined[5] = Join(params)

LEMMA OrderIs ==
    /\ Order[1] = "dbname" /\ Order[2] = "user" /\ Order[3] = "password"
    /\ Order[4] = "host" /\ Order[5] = "port"
    /\ \A i \in 1..5 : Order[i] \in Keywords
    /\ \A k \in Keywords : \E i \in 1..5 : k = Order[i]
    /\ \A i, j \in 1..5 : Order[i] = Order[j] => i = j
<1>1. /\ Order[1] = "dbname" /\ Order[2] = "user" /\ Order[3] = "password"
      /\ Order[4] = "host" /\ Order[5] = "port"
    BY DEF Order
<1>2. \A i \in 1..5 : i \in {1, 2, 3, 4, 5}
    OBVIOUS
<1>3. 1 \in 1..5 /\ 2 \in 1..5 /\ 3 \in 1..5 /\ 4 \in 1..5 /\ 5 \in 1..5
    OBVIOUS
<1>4. \A i, j \in {1, 2, 3, 4, 5} : Order[i] = Order[j] => i = j
    BY <1>1
<1>5. \A i \in {1, 2, 3, 4, 5} : Order[i] \in Keywords
    BY <1>1, KeywordsAre
<1>6. \A k \in Keywords : \E i \in {1, 2, 3, 4, 5} : k = Order[i]
    BY <1>1, KeywordsAre
<1>7. {1, 2, 3, 4, 5} = 1..5
    BY <1>2, <1>3
<1>. HIDE DEF Order
<1>. QED  BY <1>1, <1>4, <1>5, <1>6, <1>7

LEMMA JoinedInPieces ==
    ASSUME NEW params \in [Keywords -> Texts]
    PROVE  \E joined : IsJoin(joined, params)
<1>1. \A i \in 1..5 : params[Order[i]] \in Texts /\ Order[i] \in Keywords
    BY OrderIs
<1>2. ASSUME NEW k \in Keywords, NEW s \in Texts
      PROVE  And(s, params, k) \in Texts /\ Given(params, k) \in Texts
  <2>1. params[k] \in Texts
      OBVIOUS
  <2>. QED  BY <2>1, Pieces, Zenon
<1>3. PICK a \in Texts : a = Given(params, "dbname")
    BY <1>2, KeywordsAre
<1>4. PICK b \in Texts : b = And(a, params, "user")
    BY <1>2, KeywordsAre
<1>5. PICK c \in Texts : c = And(b, params, "password")
    BY <1>2, KeywordsAre
<1>6. PICK d \in Texts : d = And(c, params, "host")
    BY <1>2, KeywordsAre
<1>7. PICK e \in Texts : e = And(d, params, "port")
    BY <1>2, KeywordsAre
<1>8. PICK joined \in [1..5 -> Texts] :
          joined = [i \in 1..5 |-> CASE i = 1 -> a [] i = 2 -> b [] i = 3 -> c
                                     [] i = 4 -> d [] i = 5 -> e]
  <2>1. \A i \in 1..5 : i \in {1, 2, 3, 4, 5}
      OBVIOUS
  <2>2. \A i \in 1..5 : (CASE i = 1 -> a [] i = 2 -> b [] i = 3 -> c
                           [] i = 4 -> d [] i = 5 -> e) \in Texts
      BY <2>1
  <2>. QED  BY <2>2
<1>9. joined[1] = a /\ joined[2] = b /\ joined[3] = c /\ joined[4] = d /\ joined[5] = e
    BY <1>8
<1>10. \A i \in 1..4 : i = 1 \/ i = 2 \/ i = 3 \/ i = 4
    OBVIOUS
<1>11. 1 + 1 = 2 /\ 2 + 1 = 3 /\ 3 + 1 = 4 /\ 4 + 1 = 5
    OBVIOUS
<1>12. \A i \in 1..4 : joined[i + 1] = And(joined[i], params, Order[i + 1])
    BY <1>4, <1>5, <1>6, <1>7, <1>9, <1>10, <1>11, OrderIs
<1>13. joined[5] = Join(params)
    BY <1>3, <1>4, <1>5, <1>6, <1>7, <1>9 DEF Join
<1>14. joined[1] = Given(params, Order[1])
    BY <1>3, <1>9, OrderIs
<1>. QED  BY <1>8, <1>12, <1>13, <1>14 DEF IsJoin

(* The recursive definition of Taken has a solution.                       *)
LEMMA TakenIs ==
    ASSUME NEW params
    PROVE  /\ ~ Taken(params)[1]
           /\ \A i \in 1..4 :
                 Taken(params)[i + 1] <=> params[Order[i]] = <<>> /\ ~ Taken(params)[i]
<1>. DEFINE Empty(i) == params[Order[i]] = <<>>
            Is(t) == t = [i \in DOMAIN Order |->
                            i > 1 /\ params[Order[i - 1]] = <<>> /\ ~ t[i - 1]]
            W == {i \in 1..5 :
                    \/ i = 2 /\ Empty(1)
                    \/ i = 3 /\ Empty(2) /\ ~ Empty(1)
                    \/ i = 4 /\ Empty(3) /\ ~ (Empty(2) /\ ~ Empty(1))
                    \/ i = 5 /\ Empty(4) /\ ~ (Empty(3) /\ ~ (Empty(2) /\ ~ Empty(1)))}
            w == [i \in 1..5 |-> i \in W]
            t == CHOOSE f : Is(f)
<1>1. Is(w)
  <2>1. DOMAIN Order = 1..5
      BY KeywordsAre
  <2>2. \A i \in 1..5 : i \in {1, 2, 3, 4, 5}
      OBVIOUS
  <2>3. \A i \in 1..5 : i \in W <=> i > 1 /\ params[Order[i - 1]] = <<>> /\ i - 1 \notin W
    <3>1. 1 \notin W /\ (2 \in W <=> Empty(1)) /\ (3 \in W <=> Empty(2) /\ 2 \notin W)
        OBVIOUS
    <3>2. (4 \in W <=> Empty(3) /\ 3 \notin W) /\ (5 \in W <=> Empty(4) /\ 4 \notin W)
        OBVIOUS
    <3>. HIDE DEF W
    <3>. QED  BY <2>2, <3>1, <3>2
  <2>. HIDE DEF W
  <2>4. \A i \in 1..5 : i > 1 => i - 1 \in 1..5
      OBVIOUS
  <2>5. \A i \in 1..5 : w[i] <=> i \in W
      BY Zenon
  <2>6. \A i \in 1..5 : i \in W <=> i > 1 /\ params[Order[i - 1]] = <<>> /\ ~ w[i - 1]
      BY <2>3, <2>4, <2>5, Zenon
  <2>7. \A i \in 1..5 : (i \in W) = (i > 1 /\ params[Order[i - 1]] = <<>> /\ ~ w[i - 1])
      BY <2>6
  <2>. DEFINE z == w
  <2>8. z = w
      OBVIOUS
  <2>. HIDE DEF z
  <2>9. [i \in 1..5 |-> i \in W] = [i \in 1..5 |-> i > 1 /\ params[Order[i - 1]] = <<>> /\ ~ z[i - 1]]
      BY <2>7, <2>8, Zenon
  <2>. QED  BY <2>1, <2>8, <2>9, Zenon
<1>. HIDE DEF w
<1>2. Is(t)
    BY <1>1, Zenon
<1>3. Taken(params) = t
    BY DEF Taken
<1>. HIDE DEF t
<1>4. \A i \in 1..5 : t[i] = (i > 1 /\ params[Order[i - 1]] = <<>> /\ ~ t[i - 1])
    BY <1>2, KeywordsAre
<1>5. ~ t[1]
  <2>1. 1 \in 1..5 /\ ~ (1 > 1)
      OBVIOUS
  <2>. QED  BY <1>4, <2>1, Zenon
<1>6. \A i \in 1..4 : i + 1 \in 1..5 /\ i + 1 > 1 /\ (i + 1) - 1 = i
    OBVIOUS
<1>7. \A i \in 1..4 : t[i + 1] <=> params[Order[i]] = <<>> /\ ~ t[i]
    BY <1>4, <1>6
<1>. QED  BY <1>3, <1>5, <1>7

LEMMA AfterPlain ==
    ASSUME NEW s \in Texts, NEW values, NEW o \in Keywords, NEW t \in Texts,
           ReadAll(s) = InValue(o, "plain", t, values)
    PROVE  ReadAll(Append(s, "blank")) = Clean([values EXCEPT ![o] = t])
<1>1. "blank" \in Characters
    BY DEF Characters, Plains, Special
<1>2. ReadAll(Append(s, "blank")) = ReadChar(ReadAll(s), "blank")
    BY <1>1, ReadStep
<1>3. <<o>>[1] = o
    OBVIOUS
<1>. QED  BY <1>2, <1>3 DEF InValue, ReadChar, ReadValue, Store, Clean
-----------------------------------------------------------------------------
(* What has been read after the i-th piece: the parameter that is open is  *)
(* the i-th, or the one before it, which has taken it.                     *)

Filled(values, params, o) ==
    /\ values \in [Keywords -> Texts]
    /\ \A j \in 1..5 : values[Order[j]] = IF j < o THEN Got(params, j) ELSE <<>>

Untaken(st, params, i) ==
    \E values :
        /\ ~ Taken(params)[i]
        /\ Filled(values, params, i)
        /\ st = InValue(Order[i], IF params[Order[i]] = <<>> THEN "start" ELSE "plain",
                        params[Order[i]], values)

TakenBefore(st, params, i) ==
    \E values :
        /\ i > 1 /\ Taken(params)[i]
        /\ Filled(values, params, i - 1)
        /\ st = InValue(Order[i - 1], "plain", Given(params, Order[i]), values)

Border(st, params, i) == Untaken(st, params, i) \/ TakenBefore(st, params, i)

EmptyOrPlain(text) == text = <<>> \/ Plain(text)

LEMMA GotTyped ==
    ASSUME NEW params \in [Keywords -> Texts], NEW i \in 1..5, params[Order[5]] # <<>>
    PROVE  Got(params, i) \in Texts
<1>1. CASE Taken(params)[i]
    BY <1>1, Sequences DEF Got
<1>2. CASE ~ Taken(params)[i] /\ params[Order[i]] # <<>>
    BY <1>2, OrderIs DEF Got
<1>3. CASE ~ Taken(params)[i] /\ params[Order[i]] = <<>>
  <2>1. i + 1 \in 1..5
      BY <1>3
  <2>2. Order[i + 1] \in Keywords /\ params[Order[i + 1]] \in Texts
      BY <2>1, OrderIs
  <2>3. Given(params, Order[i + 1]) \in Texts
      BY <2>2, Sequences, Pieces, Zenon
  <2>. QED  BY <1>3, <2>3 DEF Got
<1>. QED  BY <1>1, <1>2, <1>3

(* One value more is stored.                                               *)
LEMMA FilledOnce ==
    ASSUME NEW params \in [Keywords -> Texts], NEW values, NEW o \in 1..5,
           Filled(values, params, o), Got(params, o) \in Texts
    PROVE  /\ Filled([values EXCEPT ![Order[o]] = Got(params, o)], params, o + 1)
<1>. DEFINE next == [values EXCEPT ![Order[o]] = Got(params, o)]
<1>1. values \in [Keywords -> Texts] /\ Order[o] \in Keywords
    BY OrderIs DEF Filled
<1>2. next \in [Keywords -> Texts]
    BY <1>1
<1>3. ASSUME NEW j \in 1..5
      PROVE  next[Order[j]] = IF j < o + 1 THEN Got(params, j) ELSE <<>>
  <2>1. Order[j] \in Keywords /\ (Order[j] = Order[o] => j = o)
      BY OrderIs
  <2>2. values[Order[j]] = IF j < o THEN Got(params, j) ELSE <<>>
      BY DEF Filled
  <2>3. next[Order[j]] = IF j = o THEN Got(params, o) ELSE values[Order[j]]
      BY <1>1, <2>1
  <2>. QED  BY <2>2, <2>3
<1>. QED  BY <1>2, <1>3 DEF Filled

(* What the parameters of init are: texts without keywords, and a port.    *)
Fit(params) ==
    /\ params \in [Keywords -> Texts]
    /\ \A k \in Keywords : params[k] \in Seq(Plains)
    /\ Plain(params["port"])

LEMMA FirstPiece ==
    ASSUME NEW params, Fit(params), NEW joined, IsJoin(joined, params),
           EmptyOrPlain(params[Order[1]])
    PROVE  Border(ReadAll(joined[1]), params, 1)
<1>. DEFINE k == Order[1]
<1>1. /\ k \in Keywords /\ params[k] \in Texts
      /\ params[k] = <<>> \/ Plain(params[k])
    BY OrderIs DEF Fit, EmptyOrPlain
<1>2. PICK values \in [Keywords -> Texts] : values = [other \in Keywords |-> <<>>]
    BY Sequences
<1>3. PICK nothing \in Texts : nothing = <<>> /\ ReadAll(nothing) = Clean(values)
    BY <1>2, ReadStep, Sequences DEF Unread, Clean
<1>4. joined[1] = Append(Append(nothing, k), "equals") \o params[k]
  <2>1. params[k] \in Texts /\ k \in Keywords
      BY <1>1
  <2>2. Given(params, k) = Append(Append(<<>>, k), "equals") \o params[k]
      BY <1>3, <2>1, Pieces, Zenon
  <2>. QED  BY <1>3, <2>2 DEF IsJoin
<1>5. ReadAll(joined[1]) =
        InValue(k, IF params[k] = <<>> THEN "start" ELSE "plain", params[k], values)
  <2>1. ReadAll(Append(Append(nothing, k), "equals") \o params[k]) =
          InValue(k, IF params[k] = <<>> THEN "start" ELSE "plain", params[k], values)
      BY <1>1, <1>3, OneGiven, Zenon
  <2>. QED  BY <1>4, <2>1
<1>6. Filled(values, params, 1)
    BY <1>2, OrderIs DEF Filled
<1>7. ~ Taken(params)[1]
    BY TakenIs
<1>. QED  BY <1>5, <1>6, <1>7, Zenon DEF Border, Untaken

LEMMA NextPiece ==
    ASSUME NEW params, Fit(params), NEW joined, IsJoin(joined, params),
           NEW i \in 1..4, Border(ReadAll(joined[i]), params, i),
           EmptyOrPlain(params[Order[i + 1]])
    PROVE  Border(ReadAll(joined[i + 1]), params, i + 1)
<1>. DEFINE s  == joined[i]
            o  == Order[i]
            k  == Order[i + 1]
<1>1. /\ i \in 1..5 /\ i + 1 \in 1..5 /\ (i + 1) - 1 = i /\ i + 1 > 1
    OBVIOUS
<1>2. /\ o \in Keywords /\ k \in Keywords /\ params[o] \in Texts /\ params[k] \in Texts
      /\ params[k] = <<>> \/ Plain(params[k])
      /\ params \in [Keywords -> Texts] /\ params[Order[5]] # <<>>
    BY <1>1, OrderIs DEF Fit, EmptyOrPlain, Plain
<1>3. s \in Texts /\ joined[i + 1] = And(s, params, k)
    BY <1>1 DEF IsJoin
<1>4. Taken(params)[i + 1] <=> params[o] = <<>> /\ ~ Taken(params)[i]
    BY TakenIs
<1>5. \A j \in 1..5 : Got(params, j) \in Texts
    BY <1>2, GotTyped
<1>6. ASSUME NEW values, Filled(values, params, i + 1), ~ Taken(params)[i + 1],
             ReadAll(joined[i + 1]) =
               InValue(k, IF params[k] = <<>> THEN "start" ELSE "plain", params[k], values)
      PROVE  Border(ReadAll(joined[i + 1]), params, i + 1)
    BY <1>6, Zenon DEF Border, Untaken
<1>7. CASE Untaken(ReadAll(s), params, i)
  <2>1. PICK values :
            /\ ~ Taken(params)[i]
            /\ Filled(values, params, i)
            /\ ReadAll(s) = InValue(o, IF params[o] = <<>> THEN "start" ELSE "plain",
                                    params[o], values)
      BY <1>7, Zenon DEF Untaken
  <2>2. CASE params[o] # <<>>
    <3>1. Got(params, i) = params[o]
        BY <2>1, <2>2 DEF Got
    <3>2. ReadAll(s) = InValue(o, "plain", params[o], values)
        BY <2>1, <2>2
    <3>3. ReadAll(joined[i + 1]) =
            InValue(k, IF params[k] = <<>> THEN "start" ELSE "plain", params[k],
                    [values EXCEPT ![o] = params[o]])
        BY <1>2, <1>3, <3>2, NextIsGiven
    <3>4. Filled([values EXCEPT ![o] = params[o]], params, i + 1)
        BY <1>1, <1>2, <1>5, <2>1, <3>1, FilledOnce
    <3>. QED  BY <1>4, <1>6, <2>2, <3>3, <3>4
  <2>3. CASE params[o] = <<>>
    <3>1. ReadAll(s) = InValue(o, "start", <<>>, values)
        BY <2>1, <2>3
    <3>2. ReadAll(joined[i + 1]) = InValue(o, "plain", Given(params, k), values)
        BY <1>2, <1>3, <3>1, NextIsTaken
    <3>3. Taken(params)[i + 1]
        BY <1>4, <2>1, <2>3
    <3>4. TakenBefore(ReadAll(joined[i + 1]), params, i + 1)
        BY <1>1, <2>1, <3>2, <3>3 DEF TakenBefore
    <3>. QED  BY <3>4 DEF Border
  <2>. QED  BY <2>2, <2>3
<1>8. CASE TakenBefore(ReadAll(s), params, i)
  <2>. DEFINE b == Order[i - 1]
              t == Given(params, o)
  <2>1. PICK values :
            /\ i > 1 /\ Taken(params)[i]
            /\ Filled(values, params, i - 1)
            /\ ReadAll(s) = InValue(b, "plain", t, values)
      BY <1>8, Zenon DEF TakenBefore
  <2>2. i - 1 \in 1..5 /\ i - 1 \in 1..4 /\ (i - 1) + 1 = i
      BY <2>1
  <2>3. params[b] = <<>> /\ ~ Taken(params)[i - 1] /\ b \in Keywords
      BY <2>1, <2>2, TakenIs, OrderIs
  <2>4. Got(params, i - 1) = t
      BY <2>2, <2>3 DEF Got
  <2>5. t \in Texts
      BY <1>5, <2>2, <2>4
  <2>6. ReadAll(joined[i + 1]) =
          InValue(k, IF params[k] = <<>> THEN "start" ELSE "plain", params[k],
                  [values EXCEPT ![b] = t])
      BY <1>2, <1>3, <2>1, <2>3, <2>5, NextIsGiven
  <2>7. Filled([values EXCEPT ![b] = t], params, i)
      BY <1>2, <1>5, <2>1, <2>2, <2>4, FilledOnce
  <2>8. Got(params, i) = <<>>
      BY <2>1 DEF Got
  <2>9. Filled([values EXCEPT ![b] = t], params, i + 1)
    <3>1. \A j \in 1..5 : j < i + 1 <=> j < i \/ j = i
        OBVIOUS
    <3>. QED  BY <2>7, <2>8, <3>1 DEF Filled
  <2>. QED  BY <1>4, <1>6, <2>1, <2>6, <2>9
<1>. QED  BY <1>7, <1>8 DEF Border

LEMMA PieceByPiece ==
    ASSUME NEW params, Fit(params), NEW joined, IsJoin(joined, params),
           NEW i \in 1..5, \A j \in 1..i : EmptyOrPlain(params[Order[j]])
    PROVE  Border(ReadAll(joined[i]), params, i)
<1>. DEFINE S == {n \in 0..i : n > 0 => Border(ReadAll(joined[n]), params, n)}
<1>1. 0 \in S
    OBVIOUS
<1>2. ASSUME NEW n \in 1..i, n - 1 \in S PROVE n \in S
  <2>1. CASE n = 1
    <3>1. EmptyOrPlain(params[Order[1]])
        BY <2>1
    <3>2. Border(ReadAll(joined[1]), params, 1)
        BY <3>1, FirstPiece
    <3>. QED  BY <2>1, <3>2
  <2>2. CASE n # 1
    <3>1. PICK m \in 1..4 : m = n - 1
        BY <2>2
    <3>2. m + 1 = n /\ m > 0
        BY <3>1
    <3>3. Border(ReadAll(joined[m]), params, m)
        BY <1>2, <3>1, <3>2
    <3>4. EmptyOrPlain(params[Order[m + 1]])
        BY <3>2
    <3>5. Border(ReadAll(joined[m + 1]), params, m + 1)
        BY <3>3, <3>4, NextPiece
    <3>. QED  BY <3>2, <3>5
  <2>. QED  BY <2>1, <2>2
<1>3. i \in Nat /\ i \in 0..i /\ i > 0
    OBVIOUS
<1>. HIDE DEF S
<1>4. \A n \in 0..i : n \in S
    BY <1>1, <1>2, <1>3, RoundByRound, Zenon
<1>. QED  BY <1>3, <1>4 DEF S

(* Empty and plain values are read as Got says.                            *)
LEMMA ReadAsGot ==
    ASSUME NEW params, Fit(params), \A k \in Keywords : EmptyOrPlain(params[k])
    PROVE  /\ conninfo_parse(Join(params)).mode = "name"
           /\ conninfo_parse(Join(params)).values \in [Keywords -> Texts]
           /\ \A i \in 1..5 : conninfo_parse(Join(params)).values[Order[i]] = Got(params, i)
<1>1. PICK joined : IsJoin(joined, params)
    BY JoinedInPieces DEF Fit
<1>2. 5 \in 1..5 /\ \A j \in 1..5 : EmptyOrPlain(params[Order[j]])
    BY OrderIs
<1>3. Border(ReadAll(joined[5]), params, 5)
    BY <1>1, <1>2, PieceByPiece
<1>. DEFINE st == ReadAll(Join(params))
<1>4. Border(st, params, 5) /\ conninfo_parse(Join(params)) = ReadEnd(st)
    BY <1>1, <1>3 DEF IsJoin, conninfo_parse
<1>5. params \in [Keywords -> Texts] /\ params[Order[5]] # <<>>
    BY OrderIs DEF Fit, Plain
<1>6. \A j \in 1..5 : Got(params, j) \in Texts
    BY <1>5, GotTyped
<1>. HIDE DEF st
<1>7. ASSUME NEW values, NEW o \in 1..5, Filled(values, params, o),
             st = InValue(Order[o], "plain", Got(params, o), values)
      PROVE  /\ ReadEnd(st).mode = "name"
             /\ Filled(ReadEnd(st).values, params, o + 1)
  <2>1. <<Order[o]>>[1] = Order[o]
      OBVIOUS
  <2>2. ReadEnd(st) = Clean([values EXCEPT ![Order[o]] = Got(params, o)])
      BY <1>7, <2>1 DEF ReadEnd, InValue, Store, Clean
  <2>3. Filled([values EXCEPT ![Order[o]] = Got(params, o)], params, o + 1)
      BY <1>5, <1>6, <1>7, FilledOnce
  <2>. QED  BY <2>2, <2>3 DEF Clean
<1>8. CASE Untaken(st, params, 5)
  <2>1. PICK values :
            /\ ~ Taken(params)[5]
            /\ Filled(values, params, 5)
            /\ st = InValue(Order[5], IF params[Order[5]] = <<>> THEN "start" ELSE "plain",
                            params[Order[5]], values)
      BY <1>8, Zenon DEF Untaken
  <2>2. Got(params, 5) = params[Order[5]]
      BY <1>5, <2>1 DEF Got
  <2>3. ReadEnd(st).mode = "name" /\ Filled(ReadEnd(st).values, params, 5 + 1)
      BY <1>2, <1>5, <1>7, <2>1, <2>2
  <2>. QED  BY <1>4, <2>3 DEF Filled
<1>9. CASE TakenBefore(st, params, 5)
  <2>1. PICK values :
            /\ Taken(params)[5]
            /\ Filled(values, params, 5 - 1)
            /\ st = InValue(Order[5 - 1], "plain", Given(params, Order[5]), values)
      BY <1>9, Zenon DEF TakenBefore
  <2>2. 5 - 1 = 4 /\ 4 + 1 = 5 /\ 4 \in 1..5 /\ 4 \in 1..4
      OBVIOUS
  <2>3. params[Order[4]] = <<>> /\ ~ Taken(params)[4]
      BY <2>1, <2>2, TakenIs
  <2>4. Got(params, 4) = Given(params, Order[5]) /\ Got(params, 5) = <<>>
      BY <2>1, <2>2, <2>3 DEF Got
  <2>5. ReadEnd(st).mode = "name" /\ Filled(ReadEnd(st).values, params, 4 + 1)
      BY <1>7, <2>1, <2>2, <2>4
  <2>6. \A j \in 1..5 : j < 5 \/ j = 5
      OBVIOUS
  <2>. QED  BY <1>4, <2>2, <2>4, <2>5, <2>6 DEF Filled
<1>. QED  BY <1>4, <1>8, <1>9 DEF Border
-----------------------------------------------------------------------------
(* One value that is not plain is enough: the first of them is lost.       *)

PlainBefore(params, i) == \A j \in 1..4 : j < i => Plain(params[Order[j]])

StartsValue(joined, params, i) ==
    \E opened \in Texts :
        /\ joined[i] = opened \o params[Order[i]]
        /\ ReadAll(opened).mode = "start"
        /\ ReadAll(opened).name = <<Order[i]>>
        /\ ReadAll(opened).text = <<>>

LEMMA FirstNotPlain ==
    ASSUME NEW params, Fit(params), NEW joined, IsJoin(joined, params),
           NEW i \in 1..4, PlainBefore(params, i)
    PROVE  StartsValue(joined, params, i)
<1>. DEFINE k == Order[i]
<1>1. k \in Keywords /\ params[k] \in Texts /\ k \in Characters
      /\ "blank" \in Characters /\ "equals" \in Characters
    BY OrderIs DEF Fit, Characters, Plains, Special
<1>2. ASSUME NEW s \in Texts, NEW values, ReadAll(s) = Clean(values),
             joined[i] = Append(Append(s, k), "equals") \o params[k]
      PROVE  StartsValue(joined, params, i)
  <2>1. PICK opened \in Texts : opened = Append(Append(s, k), "equals")
      BY <1>1, Sequences
  <2>2. ReadAll(opened) = InValue(k, "start", <<>>, values)
      BY <1>1, <1>2, <2>1, ReadKeyword
  <2>3. /\ ReadAll(opened).mode = "start"
        /\ ReadAll(opened).name = <<k>>
        /\ ReadAll(opened).text = <<>>
      BY <2>2 DEF InValue
  <2>. QED  BY <1>2, <2>1, <2>3 DEF StartsValue
<1>3. CASE i = 1
  <2>1. PICK nothing \in Texts : nothing = <<>>
      BY Sequences
  <2>2. ReadAll(nothing) = Clean([other \in Keywords |-> <<>>])
      BY <2>1, ReadStep DEF Unread, Clean
  <2>3. params[k] \in Texts /\ k \in Keywords
      BY <1>1
  <2>4. Given(params, k) = Append(Append(nothing, k), "equals") \o params[k]
      BY <2>1, <2>3, Pieces, Zenon
  <2>5. joined[i] = Append(Append(nothing, k), "equals") \o params[k]
      BY <1>3, <2>4 DEF IsJoin
  <2>. QED  BY <1>2, <2>2, <2>5
<1>4. CASE i # 1
  <2>1. PICK m \in 1..4 : m + 1 = i
      BY <1>4
  <2>2. /\ m \in 1..5 /\ m < i
        /\ \A j \in 1..m : j \in 1..4 /\ j < i /\ Plain(params[Order[j]])
      BY <2>1 DEF PlainBefore
  <2>3. \A j \in 1..m : EmptyOrPlain(params[Order[j]])
      BY <2>2 DEF EmptyOrPlain
  <2>4. Border(ReadAll(joined[m]), params, m)
      BY <2>2, <2>3, PieceByPiece
  <2>5. ~ TakenBefore(ReadAll(joined[m]), params, m)
    <3>1. SUFFICES ASSUME m > 1, Taken(params)[m] PROVE FALSE
        BY DEF TakenBefore
    <3>2. PICK l \in 1..4 : l + 1 = m
        BY <3>1
    <3>3. params[Order[l]] = <<>>
        BY <3>1, <3>2, TakenIs
    <3>4. l \in 1..m
        BY <3>2
    <3>5. Plain(params[Order[l]])
        BY <2>2, <3>4
    <3>. QED  BY <3>3, <3>5 DEF Plain
  <2>6. PICK values :
            ReadAll(joined[m]) =
              InValue(Order[m], IF params[Order[m]] = <<>> THEN "start" ELSE "plain",
                      params[Order[m]], values)
      BY <2>4, <2>5, Zenon DEF Border, Untaken
  <2>7. params[Order[m]] # <<>>
      BY <2>2 DEF Plain
  <2>8. ReadAll(joined[m]) = InValue(Order[m], "plain", params[Order[m]], values)
      BY <2>6, <2>7
  <2>9. joined[m] \in Texts /\ Order[m] \in Keywords /\ params[Order[m]] \in Texts
      BY <2>2, OrderIs DEF IsJoin, Fit
  <2>10. PICK after \in Texts : after = Append(joined[m], "blank")
      BY <1>1, <2>9, Sequences
  <2>11. ReadAll(after) = Clean([values EXCEPT ![Order[m]] = params[Order[m]]])
      BY <2>8, <2>9, <2>10, AfterPlain
  <2>12. joined[i] = And(joined[m], params, k)
      BY <2>1 DEF IsJoin
  <2>13. And(joined[m], params, k) = Append(Append(after, k), "equals") \o params[k]
    <3>1. params[k] \in Texts /\ k \in Keywords
        BY <1>1
    <3>2. joined[m] \in Texts
        BY <2>9
    <3>. QED  BY <2>10, <3>1, <3>2, Pieces, Zenon
  <2>. QED  BY <1>2, <2>11, <2>12, <2>13
<1>. QED  BY <1>3, <1>4

LEMMA NotAllAsGiven ==
    ASSUME NEW params, Fit(params), NEW odd \in Keywords, ~ Plain(params[odd])
    PROVE  LET read == conninfo_parse(Join(params)) IN
           read.mode = "error" \/ \E k \in Keywords : read.values[k] # params[k]
<1>1. PICK joined : IsJoin(joined, params)
    BY JoinedInPieces DEF Fit
<1>2. PICK i \in 1..4 : /\ ~ Plain(params[Order[i]])
                        /\ \A j \in 1..4 : j < i => Plain(params[Order[j]])
  <2>. DEFINE S == {j \in 1..4 : ~ Plain(params[Order[j]])}
  <2>1. PICK j \in 1..5 : odd = Order[j]
      BY OrderIs
  <2>2. j # 5
      BY <2>1, OrderIs DEF Fit
  <2>3. j \in S
      BY <2>1, <2>2
  <2>4. S \subseteq Nat /\ S # {}
      BY <2>3
  <2>5. PICK i \in S : \A l \in S : i <= l
    <3>. HIDE DEF S
    <3>. QED  BY <2>4, LeastNumber, Zenon
  <2>6. \A l \in 1..4 : l < i => l \notin S
      BY <2>5
  <2>. QED  BY <2>5, <2>6
<1>. DEFINE k == Order[i]
            v == params[k]
<1>3. /\ i \in 1..5 /\ i + 1 \in 1..5 /\ i + 1 # i
    OBVIOUS
<1>4. /\ k \in Keywords /\ v \in Seq(Plains) /\ ~ Plain(v)
      /\ \A j \in 1..5 : /\ Order[j] \in Keywords /\ params[Order[j]] \in Seq(Plains)
                         /\ j # i => Order[j] # k
    BY <1>2, <1>3, OrderIs DEF Fit
<1>5. \A j \in 1..5 : joined[j] \in Texts
    BY <1>1 DEF IsJoin
<1>6. PICK opened \in Texts :
          /\ joined[i] = opened \o v
          /\ ReadAll(opened).mode = "start"
          /\ ReadAll(opened).name = <<k>>
          /\ ReadAll(opened).text = <<>>
  <2>1. PlainBefore(params, i)
      BY <1>2 DEF PlainBefore
  <2>2. StartsValue(joined, params, i)
      BY <1>1, <2>1, FirstNotPlain, Zenon
  <2>. QED  BY <2>2 DEF StartsValue
<1>. HIDE DEF k, v
<1>7. Lost(ReadAll(joined[i + 1]), k, v)
  <2>1. joined[i + 1] = And(joined[i], params, Order[i + 1])
      BY <1>1 DEF IsJoin
  <2>2. /\ ReadAll(opened).mode = "start" /\ ReadAll(opened).name = <<k>>
        /\ ReadAll(opened).text = <<>>
      BY <1>6
  <2>3. Order[i + 1] \in Keywords \ {k} /\ params[Order[i + 1]] \in Seq(Plains)
      BY <1>3, <1>4
  <2>4. params[k] = v
      BY DEF v
  <2>5. Lost(ReadAll(And(opened \o params[k], params, Order[i + 1])), k, params[k])
      BY <1>4, <2>2, <2>3, <2>4, NotPlainIsLost
  <2>. QED  BY <1>6, <2>1, <2>4, <2>5
<1>8. Lost(ReadAll(joined[5]), k, v)
  <2>. DEFINE S == {n \in 0..5 : n > i => Lost(ReadAll(joined[n]), k, v)}
  <2>1. 0 \in S
      OBVIOUS
  <2>2. ASSUME NEW n \in 1..5, n - 1 \in S PROVE n \in S
    <3>1. CASE n <= i
        BY <3>1
    <3>2. CASE n = i + 1
        BY <1>7, <3>2
    <3>3. CASE n > i + 1
      <4>1. PICK m \in 1..4 : m = n - 1
          BY <3>3
      <4>2. m > i /\ m + 1 = n /\ m \in 1..5 /\ n # i
          BY <3>3, <4>1
      <4>3. Lost(ReadAll(joined[m]), k, v)
          BY <2>2, <4>1, <4>2
      <4>4. joined[n] = And(joined[m], params, Order[n])
          BY <1>1, <4>2 DEF IsJoin
      <4>5. Order[n] \in Keywords \ {k} /\ params[Order[n]] \in Seq(Plains) /\ joined[m] \in Texts
          BY <1>4, <1>5, <4>2
      <4>6. Lost(ReadAll(And(joined[m], params, Order[n])), k, v)
          BY <1>4, <4>3, <4>5, LostWithTheNext
      <4>. QED  BY <4>4, <4>6
    <3>. QED  BY <3>1, <3>2, <3>3
  <2>3. 5 \in Nat /\ 5 \in 0..5 /\ 5 > i
      OBVIOUS
  <2>. HIDE DEF S
  <2>4. \A n \in 0..5 : n \in S
      BY <2>1, <2>2, <2>3, RoundByRound, Zenon
  <2>. QED  BY <2>3, <2>4 DEF S
<1>9. ReadAll(joined[5]) \in States /\ conninfo_parse(Join(params)) = ReadEnd(ReadAll(joined[5]))
    BY <1>1, <1>5, ReadStep DEF IsJoin, conninfo_parse
<1>. QED  BY <1>4, <1>8, <1>9, LostAtTheEnd DEF v
-----------------------------------------------------------------------------
(* What libpq refuses.                                                     *)

Open == {"start", "plain", "escape"}

LEMMA OpenStep ==
    ASSUME NEW st \in States, st.mode \in Open, NEW ch \in Characters
    PROVE  /\ /\ ch # "blank"
              /\ st.mode = "start" => ch # "quote"
              => ReadChar(st, ch).mode \in {"plain", "escape"}
           /\ ch = "blank" =>
                \/ ReadChar(st, ch).mode \in Open
                \/ ReadChar(st, ch).mode = "name" /\ ReadChar(st, ch).name = <<>>
<1>1. /\ Go(st, "escape").mode = "escape"
      /\ Take(st, "plain", ch).mode = "plain"
      /\ Store(st).mode = "name" /\ Store(st).name = <<>>
    BY DEF Go, Take, Store, States
<1>2. ReadChar(st, ch) = ReadValue(st, ch)
    BY ReadByMode DEF Open, ValueModes
<1>3. CASE st.mode = "start"
    BY <1>1, <1>2, <1>3 DEF ReadValue, Open
<1>4. CASE st.mode = "plain"
    BY <1>1, <1>2, <1>4 DEF ReadValue, Open
<1>5. CASE st.mode = "escape"
    BY <1>1, <1>2, <1>5 DEF ReadValue, Open
<1>. QED  BY <1>3, <1>4, <1>5 DEF Open

LEMMA OpenAlong ==
    ASSUME NEW s \in Texts, ReadAll(s).mode \in Open,
           NEW x \in Texts, Blankless(x), ~ Quoted(x)
    PROVE  ReadAll(s \o x).mode \in Open
<1>. DEFINE P == {y \in Texts : Blankless(y) /\ ~ Quoted(y) =>
                    /\ ReadAll(s \o y).mode \in Open
                    /\ y # <<>> => ReadAll(s \o y).mode # "start"}
<1>0. s \in Seq(Characters) /\ Texts = Seq(Characters)
    BY KeywordsAre
<1>1. <<>> \in P
  <2>1. s \o <<>> = s
      BY <1>0, ConcatEmptySeq
  <2>. QED  BY <2>1, Sequences
<1>2. ASSUME NEW y \in Texts, NEW ch \in Characters, y \in P PROVE Append(y, ch) \in P
  <2>1. PICK before \in Texts : before = s \o y
      BY Sequences
  <2>2. s \o Append(y, ch) = Append(before, ch)
      BY <1>0, <2>1, ConcatAppend
  <2>3. ReadAll(before) \in States /\ ReadAll(Append(before, ch)) = ReadChar(ReadAll(before), ch)
      BY ReadStep
  <2>4. Append(y, ch) \in Texts
      BY Sequences
  <2>5. ASSUME Blankless(Append(y, ch)), ~ Quoted(Append(y, ch))
        PROVE  ReadChar(ReadAll(before), ch).mode \in {"plain", "escape"}
    <3>1. Blankless(y) /\ ~ Quoted(y) /\ ch # "blank" /\ (y = <<>> => ch # "quote")
        BY <1>0, <2>5, MoreOfIt
    <3>2. ReadAll(before).mode \in Open /\ (ReadAll(before).mode = "start" => y = <<>>)
        BY <1>2, <2>1, <3>1
    <3>. QED  BY <2>3, <3>1, <3>2, OpenStep
  <2>. QED  BY <2>2, <2>3, <2>4, <2>5 DEF Open
<1>. HIDE DEF P
<1>3. \A y \in Texts : y \in P
    BY <1>0, <1>1, <1>2, OneByOne, Zenon
<1>. QED  BY <1>3 DEF P

(* A keyword and its "equals" are read as such, or as more of a value.     *)
LEMMA KeywordOpens ==
    ASSUME NEW s \in Texts, NEW k \in Keywords,
           \/ ReadAll(s).mode \in Open
           \/ ReadAll(s).mode = "name" /\ ReadAll(s).name = <<>>
    PROVE  ReadAll(Append(Append(s, k), "equals")).mode \in Open
<1>1. /\ k \in Characters /\ "equals" \in Characters
      /\ k \notin {"blank", "quote", "equals"}
    BY KeywordsAre DEF Characters, Plains, Special
<1>2. PICK t \in Texts : t = Append(s, k)
    BY <1>1, Sequences
<1>3. /\ ReadAll(s) \in States /\ ReadAll(t) \in States
      /\ ReadAll(t) = ReadChar(ReadAll(s), k)
      /\ ReadAll(Append(t, "equals")) = ReadChar(ReadAll(t), "equals")
    BY <1>1, <1>2, ReadStep
<1>4. CASE ReadAll(s).mode \in Open
  <2>1. ReadAll(t).mode \in {"plain", "escape"}
      BY <1>1, <1>3, <1>4, OpenStep
  <2>2. ReadAll(t).mode \in Open
      BY <2>1 DEF Open
  <2>3. ReadChar(ReadAll(t), "equals").mode \in {"plain", "escape"}
      BY <1>1, <1>3, <2>2, OpenStep
  <2>. QED  BY <1>2, <1>3, <2>3 DEF Open
<1>5. CASE ReadAll(s).mode = "name" /\ ReadAll(s).name = <<>>
  <2>1. ReadAll(t).mode = "name" /\ ReadAll(t).name = <<k>>
    <3>1. Append(<<>>, k) = <<k>>
        OBVIOUS
    <3>2. ReadChar(ReadAll(s), k) = [ReadAll(s) EXCEPT !.name = Append(@, k)]
        BY <1>1, <1>5 DEF ReadChar, ReadName
    <3>. QED  BY <1>3, <1>5, <3>1, <3>2 DEF States
  <2>2. ReadChar(ReadAll(t), "equals") = Go(ReadAll(t), "start")
      BY <2>1 DEF ReadChar, ReadName
  <2>3. Go(ReadAll(t), "start").mode = "start"
      BY <1>3 DEF Go, States
  <2>. QED  BY <1>2, <1>3, <2>2, <2>3 DEF Open
<1>. QED  BY <1>4, <1>5

LEMMA NeverRefused ==
    ASSUME NEW params, Fit(params),
           \A k \in Keywords : Blankless(params[k]) /\ ~ Quoted(params[k])
    PROVE  conninfo_parse(Join(params)).mode # "error"
<1>1. PICK joined : IsJoin(joined, params)
    BY JoinedInPieces DEF Fit
<1>2. ASSUME NEW i \in 1..5
      PROVE  /\ Order[i] \in Keywords /\ params[Order[i]] \in Texts /\ joined[i] \in Texts
             /\ Blankless(params[Order[i]]) /\ ~ Quoted(params[Order[i]])
    BY <1>1, OrderIs DEF Fit, IsJoin
<1>3. "blank" \in Characters /\ "equals" \in Characters /\ Keywords \subseteq Characters
    BY DEF Characters, Plains, Special
<1>4. ASSUME NEW s \in Texts, NEW k \in Keywords, params[k] \in Texts,
             Blankless(params[k]), ~ Quoted(params[k]),
             \/ ReadAll(s).mode \in Open
             \/ ReadAll(s).mode = "name" /\ ReadAll(s).name = <<>>
      PROVE  ReadAll(Append(Append(s, k), "equals") \o params[k]).mode \in Open
  <2>1. PICK opened \in Texts : opened = Append(Append(s, k), "equals")
      BY <1>3, Sequences
  <2>2. ReadAll(opened).mode \in Open
      BY <1>4, <2>1, KeywordOpens
  <2>. QED  BY <1>4, <2>1, <2>2, OpenAlong
<1>5. ReadAll(joined[1]).mode \in Open
  <2>1. PICK nothing \in Texts : nothing = <<>>
      BY Sequences
  <2>2. ReadAll(nothing).mode = "name" /\ ReadAll(nothing).name = <<>>
      BY <2>1, ReadStep DEF Unread
  <2>3. params[Order[1]] \in Texts /\ Order[1] \in Keywords
      BY <1>2
  <2>4. Given(params, Order[1]) = Append(Append(nothing, Order[1]), "equals") \o params[Order[1]]
      BY <2>1, <2>3, Pieces, Zenon
  <2>5. ReadAll(Append(Append(nothing, Order[1]), "equals") \o params[Order[1]]).mode \in Open
      BY <1>2, <1>4, <2>2
  <2>. QED  BY <1>1, <2>4, <2>5 DEF IsJoin
<1>6. ASSUME NEW i \in 1..4, ReadAll(joined[i]).mode \in Open
      PROVE  ReadAll(joined[i + 1]).mode \in Open
  <2>. DEFINE k == Order[i + 1]
  <2>1. i \in 1..5 /\ i + 1 \in 1..5
      OBVIOUS
  <2>2. k \in Keywords /\ params[k] \in Texts /\ Blankless(params[k]) /\ ~ Quoted(params[k])
      BY <1>2, <2>1
  <2>3. joined[i] \in Texts /\ joined[i + 1] = And(joined[i], params, k)
      BY <1>1, <2>1 DEF IsJoin
  <2>. HIDE DEF k
  <2>4. PICK after \in Texts : after = Append(joined[i], "blank")
      BY <1>3, <2>3, Sequences
  <2>5. \/ ReadAll(after).mode \in Open
        \/ ReadAll(after).mode = "name" /\ ReadAll(after).name = <<>>
    <3>1. ReadAll(joined[i]) \in States /\ ReadAll(after) = ReadChar(ReadAll(joined[i]), "blank")
        BY <1>3, <2>3, <2>4, ReadStep
    <3>. QED  BY <1>3, <1>6, <3>1, OpenStep
  <2>6. ReadAll(Append(Append(after, k), "equals") \o params[k]).mode \in Open
      BY <1>4, <2>2, <2>5
  <2>7. And(joined[i], params, k) = Append(Append(after, k), "equals") \o params[k]
    <3>1. params[k] \in Texts /\ k \in Keywords
        BY <2>2
    <3>2. joined[i] \in Texts
        BY <2>3
    <3>. QED  BY <2>4, <3>1, <3>2, Pieces, Zenon
  <2>. QED  BY <2>3, <2>6, <2>7
<1>7. ReadAll(joined[5]).mode \in Open
  <2>1. 1 + 1 = 2 /\ 2 + 1 = 3 /\ 3 + 1 = 4 /\ 4 + 1 = 5
      OBVIOUS
  <2>2. 1 \in 1..4 /\ 2 \in 1..4 /\ 3 \in 1..4 /\ 4 \in 1..4
      OBVIOUS
  <2>3. ReadAll(joined[2]).mode \in Open
      BY <1>5, <1>6, <2>1, <2>2
  <2>4. ReadAll(joined[3]).mode \in Open
      BY <1>6, <2>1, <2>2, <2>3
  <2>5. ReadAll(joined[4]).mode \in Open
      BY <1>6, <2>1, <2>2, <2>4
  <2>. QED  BY <1>6, <2>1, <2>2, <2>5
<1>8. conninfo_parse(Join(params)) = Store(ReadAll(joined[5]))
    BY <1>1, <1>7 DEF IsJoin, conninfo_parse, ReadEnd, Open
<1>. QED  BY <1>8 DEF Store
-----------------------------------------------------------------------------
(* The specification.                                                      *)

LEMMA GivenFits ==
    ASSUME TypeOK, GivenAsTexts
    PROVE  Fit(connectionString)
<1>1. "5432" \in Plains /\ Special \subseteq Plains
    BY DEF Plains
<1>2. <<"5432">> \in Seq(Plains)
    BY <1>1
<1>3. Plain(<<"5432">>)
  <2>1. DOMAIN <<"5432">> = {1} /\ <<"5432">>[1] = "5432" /\ <<"5432">> # <<>>
      OBVIOUS
  <2>. QED  BY <2>1 DEF Plain, Blankless, Unescaped, Quoted
<1>4. \A k \in Keywords : connectionString[k] \in Seq(Plains)
  <2>1. Seq(Special) \subseteq Seq(Plains)
      BY <1>1
  <2>. QED  BY <1>2, <2>1 DEF GivenAsTexts
<1>. QED  BY <1>3, <1>4 DEF Fit, TypeOK, GivenAsTexts

LEMMA ParseTyped ==
    ASSUME TypeOK
    PROVE  conninfo_parse(Join(connectionString)) \in States
<1>1. PICK joined : IsJoin(joined, connectionString)
    BY JoinedInPieces DEF TypeOK
<1>2. Join(connectionString) \in Texts
    BY <1>1 DEF IsJoin
<1>. QED  BY <1>2, ReadStep, ReadEndTyped DEF conninfo_parse

LEMMA AskedIsKnown ==
    /\ \A f \in [Keywords -> Texts] : f # NotAsked
<1>1. \A f \in [Keywords -> Texts] : DOMAIN f # {}
    BY KeywordsAre
<1>2. DOMAIN NotAsked = {}
    BY DEF NotAsked
<1>. QED  BY <1>1, <1>2

LEMMA InitIsRight == Init => ConnInfoInv
<1>. SUFFICES ASSUME Init PROVE ConnInfoInv
    OBVIOUS
<1>1. PICK word \in BoundedSeq(Special, MaxText) :
        \E i \in 0..Len(word) : \E j \in i..Len(word) : \E k \in j..Len(word) :
          connectionString = Params(SubSeq(word, 1, i), SubSeq(word, i + 1, j),
                                    SubSeq(word, j + 1, k), SubSeq(word, k + 1, Len(word)))
    BY Zenon DEF Init
<1>2. word \in Seq(Special)
    BY <1>1, ConnInfoAssumption DEF BoundedSeq, SeqOf, ConnInfoAssumption
<1>3. Len(word) \in Nat /\ \A n \in 1..Len(word) : word[n] \in Special
    BY <1>2
<1>4. ASSUME NEW m \in Nat \ {0}, NEW n \in 0..Len(word)
      PROVE  SubSeq(word, m, n) \in Seq(Special)
  <2>1. m \in Int /\ n \in Int /\ \A l \in m..n : l \in 1..Len(word)
      BY <1>3
  <2>2. \A l \in m..n : word[l] \in Special
      BY <1>3, <2>1
  <2>. QED  BY <2>1, <2>2, SubSeqProperties
<1>5. PICK a \in Seq(Special), b \in Seq(Special), c \in Seq(Special), d \in Seq(Special) :
          connectionString = Params(a, b, c, d)
  <2>1. PICK i \in 0..Len(word), j \in 0..Len(word), k \in 0..Len(word) :
          connectionString = Params(SubSeq(word, 1, i), SubSeq(word, i + 1, j),
                                    SubSeq(word, j + 1, k), SubSeq(word, k + 1, Len(word)))
      BY <1>1, <1>3
  <2>2. /\ 1 \in Nat \ {0} /\ i + 1 \in Nat \ {0} /\ j + 1 \in Nat \ {0} /\ k + 1 \in Nat \ {0}
        /\ Len(word) \in 0..Len(word)
      BY <1>3
  <2>3. /\ SubSeq(word, 1, i) \in Seq(Special) /\ SubSeq(word, i + 1, j) \in Seq(Special)
        /\ SubSeq(word, j + 1, k) \in Seq(Special)
        /\ SubSeq(word, k + 1, Len(word)) \in Seq(Special)
      BY <1>4, <2>2
  <2>. QED  BY <2>1, <2>3
<1>6. /\ connectionString = [k \in Keywords |-> connectionString[k]]
      /\ connectionString["dbname"] = a /\ connectionString["user"] = b
      /\ connectionString["password"] = c /\ connectionString["host"] = d
      /\ connectionString["port"] = <<"5432">>
    BY <1>5, KeywordsAre DEF Params
<1>7. Seq(Special) \subseteq Texts /\ <<"5432">> \in Texts
    BY DEF Texts
<1>8. connectionString \in [Keywords -> Texts]
    BY <1>6, <1>7, KeywordsAre
<1>9. GivenAsTexts
    BY <1>6, KeywordsAre DEF GivenAsTexts
<1>10. asked = NotAsked /\ outcome = "none"
    BY DEF Init
<1>. QED  BY <1>8, <1>9, <1>10 DEF ConnInfoInv, TypeOK, AskedAsRead

LEMMA StepIsRight == ConnInfoInv /\ [Next]_vars => ConnInfoInv'
<1>. SUFFICES ASSUME ConnInfoInv, [Next]_vars PROVE ConnInfoInv'
    OBVIOUS
<1>1. CASE UNCHANGED vars
    BY <1>1 DEF ConnInfoInv, TypeOK, GivenAsTexts, AskedAsRead, vars
<1>2. CASE init
  <2>. DEFINE read == conninfo_parse(Join(connectionString))
  <2>1. TypeOK /\ GivenAsTexts /\ AskedAsRead
      BY DEF ConnInfoInv
  <2>2. read.values \in [Keywords -> Texts]
      BY <2>1, ParseTyped DEF States
  <2>3. connectionString' = connectionString
      BY <1>2 DEF init
  <2>4. asked = NotAsked
      BY <1>2, <2>1 DEF AskedAsRead, init
  <2>5. GivenAsTexts' /\ AskedAsRead'
      BY <1>2, <2>1, <2>3, <2>4 DEF GivenAsTexts, AskedAsRead, init
  <2>6. TypeOK'
      BY <1>2, <2>1, <2>2, <2>3, <2>4, AskedIsKnown DEF TypeOK, init
  <2>. QED  BY <2>5, <2>6 DEF ConnInfoInv
<1>. QED  BY <1>1, <1>2 DEF Next

LEMMA ConnInfoInvariant == Spec => []ConnInfoInv
BY InitIsRight, StepIsRight, PTL DEF Spec

(* The parameters are texts, what libpq asks for is one for each keyword,  *)
(* and init never says ok when it could not read the string.               *)
THEOREM TypeCorrect == Spec => []TypeOK
<1>1. ConnInfoInv => TypeOK
    BY DEF ConnInfoInv
<1>. QED  BY <1>1, ConnInfoInvariant, PTL

(* A string is refused only when a value has a blank in it or begins with  *)
(* a quote: no other value makes libpq object to it.                       *)
THEOREM RefusedForAReason == Spec => []RefusedOnlyForBlankOrQuote
<1>1. ASSUME ConnInfoInv, outcome # "none", asked = NotAsked,
             \A k \in Keywords : Blankless(connectionString[k]) /\ ~ Quoted(connectionString[k])
      PROVE  FALSE
  <2>1. Fit(connectionString)
      BY <1>1, GivenFits DEF ConnInfoInv
  <2>2. conninfo_parse(Join(connectionString)).mode # "error"
      BY <1>1, <2>1, NeverRefused
  <2>3. conninfo_parse(Join(connectionString)).values \in [Keywords -> Texts]
      BY <1>1, ParseTyped DEF ConnInfoInv, States
  <2>. QED  BY <1>1, <2>2, <2>3, AskedIsKnown DEF ConnInfoInv, AskedAsRead
<1>2. ConnInfoInv => RefusedOnlyForBlankOrQuote
    BY <1>1 DEF RefusedOnlyForBlankOrQuote
<1>. QED  BY <1>2, ConnInfoInvariant, PTL

(* Parameters that are plain or empty are read as EmptyTakesNext says: an  *)
(* empty one gets the keyword and the value of the one that follows it.    *)
THEOREM EmptyOnesTakeTheNext == Spec => []EmptyTakesNext
<1>1. ASSUME ConnInfoInv, outcome # "none",
             \A k \in Keywords : connectionString[k] = <<>> \/ Plain(connectionString[k])
      PROVE  /\ asked # NotAsked
             /\ \A i \in DOMAIN Order : asked[Order[i]] = Got(connectionString, i)
  <2>. DEFINE read == conninfo_parse(Join(connectionString))
  <2>1. Fit(connectionString)
      BY <1>1, GivenFits DEF ConnInfoInv
  <2>2. \A k \in Keywords : EmptyOrPlain(connectionString[k])
      BY <1>1 DEF EmptyOrPlain
  <2>3. /\ read.mode = "name" /\ read.values \in [Keywords -> Texts]
        /\ \A i \in 1..5 : read.values[Order[i]] = Got(connectionString, i)
      BY <2>1, <2>2, ReadAsGot
  <2>4. asked = read.values
      BY <1>1, <2>3 DEF ConnInfoInv, AskedAsRead
  <2>. QED  BY <2>3, <2>4, AskedIsKnown, KeywordsAre
<1>2. ConnInfoInv => EmptyTakesNext
    BY <1>1 DEF EmptyTakesNext
<1>. QED  BY <1>2, ConnInfoInvariant, PTL

(* A psql value that says it is connected is connected with the parameters *)
(* it holds if, and only if, every one of them is plain.                   *)
THEOREM PlainAndOnlyPlain == Spec => []AsGivenIfPlain
<1>1. ASSUME ConnInfoInv, outcome = "ok"
      PROVE  AsGiven <=> \A k \in Keywords : Plain(connectionString[k])
  <2>. DEFINE read == conninfo_parse(Join(connectionString))
  <2>1. Fit(connectionString) /\ connectionString \in [Keywords -> Texts]
      BY <1>1, GivenFits DEF ConnInfoInv, TypeOK
  <2>2. read.mode # "error" /\ asked = read.values
      BY <1>1 DEF ConnInfoInv, TypeOK, AskedAsRead
  <2>3. ASSUME NEW odd \in Keywords, ~ Plain(connectionString[odd]) PROVE asked # connectionString
    <3>1. \E k \in Keywords : read.values[k] # connectionString[k]
        BY <2>1, <2>2, <2>3, NotAllAsGiven
    <3>. QED  BY <2>2, <3>1
  <2>4. ASSUME \A k \in Keywords : Plain(connectionString[k]) PROVE asked = connectionString
    <3>1. \A k \in Keywords : EmptyOrPlain(connectionString[k])
        BY <2>4 DEF EmptyOrPlain
    <3>2. /\ read.values \in [Keywords -> Texts]
          /\ \A i \in 1..5 : read.values[Order[i]] = Got(connectionString, i)
        BY <2>1, <3>1, ReadAsGot
    <3>3. \A i \in 1..5 : connectionString[Order[i]] # <<>>
        BY <2>4, OrderIs DEF Plain
    <3>4. ASSUME NEW i \in 1..5 PROVE Got(connectionString, i) = connectionString[Order[i]]
      <4>1. ~ Taken(connectionString)[i]
        <5>1. CASE i = 1
            BY <5>1, TakenIs
        <5>2. CASE i # 1
          <6>1. PICK m \in 1..4 : m + 1 = i
              BY <5>2
          <6>2. connectionString[Order[m]] # <<>>
              BY <3>3
          <6>. QED  BY <6>1, <6>2, TakenIs
        <5>. QED  BY <5>1, <5>2
      <4>. QED  BY <3>3, <4>1 DEF Got
    <3>5. \A k \in Keywords : read.values[k] = connectionString[k]
        BY <3>2, <3>4, OrderIs
    <3>. QED  BY <2>1, <2>2, <3>2, <3>5
  <2>. QED  BY <2>3, <2>4 DEF AsGiven
<1>2. ConnInfoInv => AsGivenIfPlain
    BY <1>1 DEF AsGivenIfPlain
<1>. QED  BY <1>2, ConnInfoInvariant, PTL
=============================================================================

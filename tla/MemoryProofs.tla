---------------------------- MODULE MemoryProofs ----------------------------
(***************************************************************************)
(* Proofs about Memory, for results and tuples of any size, with and       *)
(* without allocation failures.                                            *)
(***************************************************************************)
EXTENDS Memory, NatRecursion

(* The blocks that are allocated, and those that are to be freed on the    *)
(* way out, after the first n operations of p.                             *)
Allocates(op) == op.do \in {"try", "must", "get"}
Frees(op, b)  == op.do = "free" /\ op.block = b

HeldAfter(p, n) ==
    {p[k].block : k \in {i \in 1..n : /\ Allocates(p[i])
                                      /\ \A l \in (i + 1)..n : ~ Frees(p[l], p[i].block)}}
DeferredAfter(p, n) == {p[k].block : k \in {i \in 1..n : p[i].do = "defer"}}

(* A call that runs has done the first part of its program, and what it    *)
(* holds follows from that.                                                *)
Done == Len(Program(job)) - Len(steps)

RunsItsProgram ==
    val = "none" =>
        /\ Len(steps) \in 1..Len(Program(job))
        /\ steps = SubSeq(Program(job), Done + 1, Len(Program(job)))
        /\ live = HeldAfter(Program(job), Done)
        /\ deferred = DeferredAfter(Program(job), Done)

(* What a caller is given is the work of the function that gives it.       *)
HandedOver ==
    /\ val # "none" => deferred = {}
    /\ val = "psql" => job.op = "init" /\ live = {One("PGconn")}
    /\ val = "queryResult" => job.op \in {"select", "selectJoin"}
    /\ val = "QueryParams" => job.op = "QParams" /\ live = {One("joined")} \cup Formatted

(* The inductive invariant.                                                *)
MemoryInv == TypeOK /\ RunsItsProgram /\ HandedOver /\ ResultIsWhole /\ LeaksAreKnown
-----------------------------------------------------------------------------

(* What FlattenSeq returns: a sequence of the elements of all of its parts.*)
Elements(s)   == {s[k] : k \in 1..Len(s)}
AllOf(sets, n) == UNION {sets[i] : i \in 1..n}

LEMMA ElementsOfConcat ==
    ASSUME NEW S, NEW s \in Seq(S), NEW t \in Seq(S)
    PROVE  s \o t \in Seq(S) /\ Elements(s \o t) = Elements(s) \cup Elements(t)
<1>1. /\ s \o t \in Seq(S) /\ Len(s) \in Nat /\ Len(t) \in Nat
      /\ Len(s \o t) = Len(s) + Len(t)
      /\ \A k \in 1..Len(s) : k \in 1..Len(s \o t) /\ (s \o t)[k] = s[k]
      /\ \A k \in 1..Len(t) : Len(s) + k \in 1..Len(s \o t) /\ (s \o t)[Len(s) + k] = t[k]
    OBVIOUS
<1>. PICK st : st = s \o t
    OBVIOUS
<1>2. Elements(st) \subseteq Elements(s) \cup Elements(t)
  <2>. SUFFICES ASSUME NEW k \in 1..Len(st) PROVE st[k] \in Elements(s) \cup Elements(t)
      BY DEF Elements
  <2>1. CASE k \in 1..Len(s)
      BY <1>1, <2>1 DEF Elements
  <2>2. CASE k \notin 1..Len(s)
    <3>1. k - Len(s) \in 1..Len(t) /\ Len(s) + (k - Len(s)) = k
        BY <1>1, <2>2
    <3>. QED  BY <1>1, <3>1 DEF Elements
  <2>. QED  BY <2>1, <2>2
<1>3. Elements(s) \subseteq Elements(st) /\ Elements(t) \subseteq Elements(st)
    BY <1>1 DEF Elements
<1>. QED  BY <1>1, <1>2, <1>3

LEMMA ElementsOfFlattened ==
    ASSUME NEW S, NEW n \in Nat, NEW ss \in [1..n -> Seq(S)]
    PROVE  /\ FlattenSeq(ss) \in Seq(S)
           /\ Elements(FlattenSeq(ss)) = AllOf([i \in 1..n |-> Elements(ss[i])], n)
<1>0. AllOf([i \in 1..n |-> Elements(ss[i])], n) = UNION {Elements(ss[i]) : i \in 1..n}
    BY DEF AllOf
<1>1. ss \in Seq(Seq(S)) /\ Len(ss) = n
    OBVIOUS
<1>2. CASE n = 0
  <2>1. FlattenSeq(ss) = ss
      BY <1>1, <1>2 DEF FlattenSeq
  <2>2. ss \in Seq(S) /\ Elements(ss) = {} /\ 1..n = {}
      BY <1>1, <1>2 DEF Elements
  <2>. QED  BY <1>0, <2>1, <2>2
<1>3. CASE n # 0
  <2>1. PICK step \in [1..n -> [Seq(S) -> Seq(S)]] :
            step = [i \in 1..n |-> [x \in Seq(S) |-> x \o ss[i]]]
    <3>1. \A i \in 1..n : ss[i] \in Seq(S)
        OBVIOUS
    <3>2. \A i \in 1..n, x \in Seq(S) : x \o ss[i] \in Seq(S)
        BY <3>1
    <3>. QED  BY <3>2
  <2>2. PICK f \in [0..n -> Seq(S)] : IsLoop(f, <<>>, n, step)
    <3>1. <<>> \in Seq(S)
        OBVIOUS
    <3>. QED  BY <3>1, LoopIsDefined, Zenon
  <2>3. f = [i \in 0..n |-> IF i = 0 THEN <<>> ELSE step[i][f[i - 1]]]
      BY <2>2 DEF IsLoop
  <2>. DEFINE Is(h)   == h = [i \in 1..n |-> IF i = 1 THEN ss[i] ELSE h[i - 1] \o ss[i]]
              flatten == CHOOSE h : Is(h)
  <2>4. \E h : Is(h)
    <3>1. PICK g : g = [i \in 1..n |-> f[i]]
        OBVIOUS
    <3>2. ASSUME NEW i \in 1..n PROVE f[i] = IF i = 1 THEN ss[i] ELSE g[i - 1] \o ss[i]
      <4>1. i \in 0..n /\ i - 1 \in 0..n /\ i # 0 /\ 0 \in 0..n
          OBVIOUS
      <4>2. f[i] = f[i - 1] \o ss[i] /\ f[0] = <<>>
          BY <2>1, <2>3, <4>1
      <4>3. CASE i = 1
        <5>0. 1 \in 1..n /\ i - 1 = 0
            BY <4>3
        <5>1. ss[1] \in Seq(S) /\ f[0] = <<>> /\ f[1] = f[0] \o ss[1]
            BY <4>2, <4>3, <5>0
        <5>2. <<>> \o ss[1] = ss[1]
            BY <5>1, ConcatEmptySeq
        <5>. QED  BY <4>3, <5>1, <5>2
      <4>4. CASE i # 1
        <5>1. i - 1 \in 1..n
            BY <4>4
        <5>. QED  BY <3>1, <4>2, <4>4, <5>1
      <4>. QED  BY <4>3, <4>4
    <3>3. Is(g)
        BY <3>1, <3>2
    <3>. QED  BY <3>3
  <2>5. Is(flatten)
    <3>. HIDE DEF Is
    <3>. QED  BY <2>4, Zenon
  <2>6. FlattenSeq(ss) = flatten[n]
      BY <1>1, <1>3 DEF FlattenSeq
  <2>. HIDE DEF flatten
  <2>. DEFINE W == {i \in 0..n : i # 0 => /\ flatten[i] \in Seq(S)
                                           /\ Elements(flatten[i])
                                                = UNION {Elements(ss[k]) : k \in 1..i}}
  <2>7. 0 \in W
      OBVIOUS
  <2>8. ASSUME NEW i \in 1..n, i - 1 \in W PROVE i \in W
    <3>1. flatten[i] = IF i = 1 THEN ss[i] ELSE flatten[i - 1] \o ss[i]
        BY <2>5
    <3>2. ss[i] \in Seq(S)
        OBVIOUS
    <3>3. CASE i = 1
      <4>1. UNION {Elements(ss[k]) : k \in 1..i} = Elements(ss[i])
          BY <3>3
      <4>. QED  BY <3>1, <3>2, <3>3, <4>1
    <3>4. CASE i # 1
      <4>1. /\ flatten[i - 1] \in Seq(S)
            /\ Elements(flatten[i - 1]) = UNION {Elements(ss[k]) : k \in 1..(i - 1)}
          BY <2>8, <3>4
      <4>2. flatten[i] = flatten[i - 1] \o ss[i]
          BY <3>1, <3>4
      <4>3. /\ flatten[i - 1] \o ss[i] \in Seq(S)
            /\ Elements(flatten[i - 1] \o ss[i]) = Elements(flatten[i - 1]) \cup Elements(ss[i])
        <5>. HIDE DEF Elements
        <5>. QED  BY <3>2, <4>1, ElementsOfConcat
      <4>4. 1..i = 1..(i - 1) \cup {i}
          OBVIOUS
      <4>5. UNION {Elements(ss[k]) : k \in 1..i}
              = (UNION {Elements(ss[k]) : k \in 1..(i - 1)}) \cup Elements(ss[i])
          BY <4>4, Zenon
      <4>6. i \in 0..n
          OBVIOUS
      <4>. QED  BY <4>1, <4>2, <4>3, <4>5, <4>6
    <3>. QED  BY <3>3, <3>4
  <2>. HIDE DEF W
  <2>9. \A i \in 0..n : i \in W
      BY <2>7, <2>8, RoundByRound, Zenon
  <2>10. n \in 0..n
      OBVIOUS
  <2>. QED  BY <1>0, <1>3, <2>6, <2>9, <2>10 DEF W
<1>. QED  BY <1>2, <1>3
-----------------------------------------------------------------------------
(* The operations of a call that uses the blocks B.                        *)
Dos == {"try", "must", "get", "free", "defer", "return", "panic"}
Operations(B) == [do : Dos, block : B]

(* A loop of a program only allocates; B is what it allocates.             *)
Copies(B) == [do : {"try", "must"}, block : B]
Grows(s, B) == s \in Seq(Copies(B)) /\ \A b \in B : \E e \in Elements(s) : e.block = b

LEMMA LongerGrows ==
    ASSUME NEW B, NEW C, NEW s, NEW t, Grows(s, B), Grows(t, C)
    PROVE  Grows(s \o t, B \cup C)
<1>0. Copies(B) \subseteq Copies(B \cup C) /\ Copies(C) \subseteq Copies(B \cup C)
    BY DEF Copies
<1>1. s \in Seq(Copies(B \cup C)) /\ t \in Seq(Copies(B \cup C))
    BY <1>0, SeqMonotonic, Zenon DEF Grows
<1>2. s \o t \in Seq(Copies(B \cup C)) /\ Elements(s \o t) = Elements(s) \cup Elements(t)
    BY <1>1, ElementsOfConcat, Zenon
<1>. QED  BY <1>2 DEF Grows

LEMMA LoopGrows ==
    ASSUME NEW n \in Nat, NEW ss, DOMAIN ss = 1..n, ss = [i \in 1..n |-> ss[i]], NEW Bs,
           \A i \in 1..n : Grows(ss[i], Bs[i])
    PROVE  Grows(FlattenSeq(ss), AllOf(Bs, n))
<1>. PICK B : B = AllOf(Bs, n)
    OBVIOUS
<1>1. ASSUME NEW i \in 1..n PROVE ss[i] \in Seq(Copies(B))
  <2>1. Copies(Bs[i]) \subseteq Copies(B)
      BY DEF Copies, AllOf
  <2>. QED  BY <2>1, SeqMonotonic, Zenon DEF Grows
<1>2. ss \in [1..n -> Seq(Copies(B))]
    BY <1>1
<1>. PICK es : es = [i \in 1..n |-> Elements(ss[i])]
    OBVIOUS
<1>3. FlattenSeq(ss) \in Seq(Copies(B)) /\ Elements(FlattenSeq(ss)) = AllOf(es, n)
    BY <1>2, ElementsOfFlattened, Zenon
<1>4. ASSUME NEW b \in B PROVE \E e \in Elements(FlattenSeq(ss)) : e.block = b
  <2>1. PICK i \in 1..n : b \in Bs[i]
      BY DEF AllOf
  <2>2. PICK e \in Elements(ss[i]) : e.block = b
      BY <2>1 DEF Grows
  <2>. QED  BY <1>3, <2>2 DEF AllOf
<1>. QED  BY <1>3, <1>4 DEF Grows

LEMMA TwoGrow ==
    ASSUME NEW d \in {"try", "must"}, NEW e \in {"try", "must"}, NEW b, NEW c
    PROVE  Grows(<<Op(d, b), Op(e, c)>>, {b, c})
<1>. PICK s : s = <<Op(d, b), Op(e, c)>>
    OBVIOUS
<1>1. s \in Seq(Copies({b, c})) /\ Len(s) = 2 /\ s[1] = Op(d, b) /\ s[2] = Op(e, c)
    BY DEF Copies, Op
<1>2. Op(d, b) \in Elements(s) /\ Op(e, c) \in Elements(s)
    BY <1>1 DEF Elements
<1>3. Op(d, b).block = b /\ Op(e, c).block = c
    BY DEF Op
<1>. QED  BY <1>1, <1>2, <1>3 DEF Grows

LEMMA OneGrows ==
    ASSUME NEW d \in {"try", "must"}, NEW b
    PROVE  Grows(<<Op(d, b)>>, {b})
<1>. PICK s : s = <<Op(d, b)>>
    OBVIOUS
<1>1. s \in Seq(Copies({b})) /\ Len(s) = 1 /\ s[1] = Op(d, b)
    BY DEF Copies, Op
<1>2. Op(d, b) \in Elements(s) /\ Op(d, b).block = b
    BY <1>1 DEF Elements, Op
<1>. QED  BY <1>1, <1>2 DEF Grows

(* What the copy of a result consists of.                                  *)
NamesOf(m)     == {Block("column", i, 0) : i \in 1..m} \cup {One("columns") : i \in 1..m}
CellsOf(i, m)  == {Block("cell", i, k) : k \in 1..m} \cup {Block("row", i, 0) : k \in 1..m}
RowsOf(n, m)   == (UNION {CellsOf(i, m) : i \in 1..n}) \cup {One("rows") : i \in 1..n}

LEMMA CopyNames == ASSUME NEW m \in Nat PROVE Grows(copyNames(m), NamesOf(m))
<1>. PICK ss : ss = [i \in 1..m |-> <<Try(Block("column", i, 0)), Must(One("columns"))>>]
    OBVIOUS
<1>. PICK Bs : Bs = [i \in 1..m |-> {Block("column", i, 0), One("columns")}]
    OBVIOUS
<1>1. \A i \in 1..m : Grows(ss[i], Bs[i])
    BY TwoGrow DEF Try, Must
<1>2. copyNames(m) = FlattenSeq(ss)
    BY DEF copyNames, ForEach
<1>3. AllOf(Bs, m) = NamesOf(m)
    BY DEF AllOf, NamesOf
<1>4. DOMAIN ss = 1..m /\ ss = [i \in 1..m |-> ss[i]]
    OBVIOUS
<1>5. Grows(FlattenSeq(ss), AllOf(Bs, m))
    BY <1>1, <1>4, LoopGrows, Zenon
<1>. QED  BY <1>2, <1>3, <1>5

LEMMA CopyCells == ASSUME NEW i, NEW m \in Nat PROVE Grows(copyCells(i, m), CellsOf(i, m))
<1>. PICK ss : ss = [k \in 1..m |-> <<Try(Block("cell", i, k)), Must(Block("row", i, 0))>>]
    OBVIOUS
<1>. PICK Bs : Bs = [k \in 1..m |-> {Block("cell", i, k), Block("row", i, 0)}]
    OBVIOUS
<1>1. \A k \in 1..m : Grows(ss[k], Bs[k])
    BY TwoGrow DEF Try, Must
<1>2. copyCells(i, m) = FlattenSeq(ss)
    BY DEF copyCells, ForEach
<1>3. AllOf(Bs, m) = CellsOf(i, m)
    BY DEF AllOf, CellsOf
<1>4. DOMAIN ss = 1..m /\ ss = [k \in 1..m |-> ss[k]]
    OBVIOUS
<1>5. Grows(FlattenSeq(ss), AllOf(Bs, m))
    BY <1>1, <1>4, LoopGrows, Zenon
<1>. QED  BY <1>2, <1>3, <1>5

LEMMA CopyRows ==
    ASSUME NEW n \in Nat, NEW m \in Nat PROVE Grows(copyRows(n, m), RowsOf(n, m))
<1>. PICK ss : ss = [i \in 1..n |-> copyCells(i, m) \o <<Must(One("rows"))>>]
    OBVIOUS
<1>. PICK Bs : Bs = [i \in 1..n |-> CellsOf(i, m) \cup {One("rows")}]
    OBVIOUS
<1>1. ASSUME NEW i \in 1..n PROVE Grows(ss[i], Bs[i])
  <2>1. Grows(<<Must(One("rows"))>>, {One("rows")})
      BY OneGrows DEF Must
  <2>2. Grows(copyCells(i, m), CellsOf(i, m))
      BY CopyCells, Zenon
  <2>3. Grows(copyCells(i, m) \o <<Must(One("rows"))>>, CellsOf(i, m) \cup {One("rows")})
      BY <2>1, <2>2, LongerGrows, Zenon
  <2>. QED  BY <2>3
<1>2. copyRows(n, m) = FlattenSeq(ss)
    BY DEF copyRows, ForEach
<1>3. AllOf(Bs, n) = RowsOf(n, m)
  <2>1. AllOf(Bs, n) \subseteq RowsOf(n, m)
      BY DEF AllOf, RowsOf
  <2>2. ASSUME NEW b \in RowsOf(n, m) PROVE b \in AllOf(Bs, n)
    <3>1. PICK i \in 1..n : b \in CellsOf(i, m) \cup {One("rows")}
        BY DEF RowsOf
    <3>. QED  BY <3>1 DEF AllOf
  <2>. QED  BY <2>1, <2>2
<1>4. DOMAIN ss = 1..n /\ ss = [i \in 1..n |-> ss[i]]
    OBVIOUS
<1>5. Grows(FlattenSeq(ss), AllOf(Bs, n))
    BY <1>1, <1>4, LoopGrows, Zenon
<1>. QED  BY <1>2, <1>3, <1>5

LEMMA CopyResult ==
    ASSUME NEW n \in Nat, NEW m \in Nat
    PROVE  Grows(copyNames(m) \o copyRows(n, m), NamesOf(m) \cup RowsOf(n, m))
BY CopyNames, CopyRows, LongerGrows, Zenon

(* What the formatting of a tuple consists of.                             *)
StringsOf(n)    == {Block("safe_value", i, 0) : i \in 1..n} \cup {Block("text", i, 0) : i \in 1..n}
                     \cup {One("paramString") : i \in 1..n}
NumbersOf(n, m) == {Block("text", n + i, 0) : i \in 1..m} \cup {One("paramString") : i \in 1..m}

LEMMA FormatStrings == ASSUME NEW n \in Nat PROVE Grows(formatStrings(n), StringsOf(n))
<1>. PICK ss : ss = [i \in 1..n |-> <<Try(Block("safe_value", i, 0)), Must(Block("text", i, 0)),
                                      Try(One("paramString"))>>]
    OBVIOUS
<1>. PICK Bs : Bs = [i \in 1..n |-> {Block("safe_value", i, 0), Block("text", i, 0)}
                                     \cup {One("paramString")}]
    OBVIOUS
<1>1. ASSUME NEW i \in 1..n PROVE Grows(ss[i], Bs[i])
  <2>. PICK a : a = Try(Block("safe_value", i, 0))
      OBVIOUS
  <2>. PICK b : b = Must(Block("text", i, 0))
      OBVIOUS
  <2>. PICK c : c = Try(One("paramString"))
      OBVIOUS
  <2>1. Grows(<<a, b>>, {Block("safe_value", i, 0), Block("text", i, 0)})
      BY TwoGrow DEF Try, Must
  <2>2. Grows(<<c>>, {One("paramString")})
      BY OneGrows DEF Try
  <2>3. Grows(<<a, b>> \o <<c>>,
              {Block("safe_value", i, 0), Block("text", i, 0)} \cup {One("paramString")})
      BY <2>1, <2>2, LongerGrows, Zenon
  <2>4. <<a, b>> \o <<c>> = <<a, b, c>>
    <3>. PICK s : s = <<a, b>> \o <<c>>
        OBVIOUS
    <3>1. s \in Seq({a, b, c}) /\ Len(s) = 3 /\ s[1] = a /\ s[2] = b /\ s[3] = c
        OBVIOUS
    <3>. PICK t : t = <<a, b, c>>
        OBVIOUS
    <3>2. t \in Seq({a, b, c}) /\ Len(t) = 3 /\ t[1] = a /\ t[2] = b /\ t[3] = c
        OBVIOUS
    <3>3. \A k \in 1..3 : s[k] = t[k]
        BY <3>1, <3>2
    <3>4. s = t
        BY <3>1, <3>2, <3>3, SeqEqual
    <3>. QED  BY <3>4
  <2>. QED  BY <2>3, <2>4
<1>2. formatStrings(n) = FlattenSeq(ss)
    BY DEF formatStrings, ForEach
<1>3. AllOf(Bs, n) = StringsOf(n)
  <2>1. ASSUME NEW b \in AllOf(Bs, n) PROVE b \in StringsOf(n)
    <3>1. PICK i \in 1..n : b \in Bs[i]
        BY DEF AllOf
    <3>2. b \in {Block("safe_value", i, 0), Block("text", i, 0)} \cup {One("paramString")}
        BY <3>1
    <3>. QED  BY <3>2 DEF StringsOf
  <2>2. ASSUME NEW b \in StringsOf(n) PROVE b \in AllOf(Bs, n)
    <3>1. PICK i \in 1..n : b \in {Block("safe_value", i, 0), Block("text", i, 0)}
                                   \cup {One("paramString")}
        BY DEF StringsOf
    <3>. QED  BY <3>1 DEF AllOf
  <2>. QED  BY <2>1, <2>2
<1>4. DOMAIN ss = 1..n /\ ss = [i \in 1..n |-> ss[i]]
    OBVIOUS
<1>5. Grows(FlattenSeq(ss), AllOf(Bs, n))
    BY <1>1, <1>4, LoopGrows, Zenon
<1>. QED  BY <1>2, <1>3, <1>5

LEMMA FormatNumbers ==
    ASSUME NEW n \in Nat, NEW m \in Nat PROVE Grows(formatNumbers(n, m), NumbersOf(n, m))
<1>. PICK ss : ss = [i \in 1..m |-> <<Must(Block("text", n + i, 0)), Try(One("paramString"))>>]
    OBVIOUS
<1>. PICK Bs : Bs = [i \in 1..m |-> {Block("text", n + i, 0), One("paramString")}]
    OBVIOUS
<1>1. \A i \in 1..m : Grows(ss[i], Bs[i])
    BY TwoGrow DEF Try, Must
<1>2. formatNumbers(n, m) = FlattenSeq(ss)
    BY DEF formatNumbers, ForEach
<1>3. AllOf(Bs, m) = NumbersOf(n, m)
  <2>1. ASSUME NEW b \in AllOf(Bs, m) PROVE b \in NumbersOf(n, m)
    <3>1. PICK i \in 1..m : b \in Bs[i]
        BY DEF AllOf
    <3>2. b = Block("text", n + i, 0) \/ b = One("paramString")
        BY <3>1
    <3>. QED  BY <3>2 DEF NumbersOf
  <2>2. ASSUME NEW b \in NumbersOf(n, m) PROVE b \in AllOf(Bs, m)
    <3>1. PICK i \in 1..m : b \in {Block("text", n + i, 0), One("paramString")}
        BY DEF NumbersOf
    <3>. QED  BY <3>1 DEF AllOf
  <2>. QED  BY <2>1, <2>2
<1>4. DOMAIN ss = 1..m /\ ss = [i \in 1..m |-> ss[i]]
    OBVIOUS
<1>5. Grows(FlattenSeq(ss), AllOf(Bs, m))
    BY <1>1, <1>4, LoopGrows, Zenon
<1>. QED  BY <1>2, <1>3, <1>5
-----------------------------------------------------------------------------
(* What is held after an operation, from what was held before.             *)
LEMMA HeldAtFirst == ASSUME NEW p PROVE HeldAfter(p, 0) = {} /\ DeferredAfter(p, 0) = {}
BY DEF HeldAfter, DeferredAfter

LEMMA HeldNext ==
    ASSUME NEW p, NEW n \in Nat
    PROVE  /\ Allocates(p[n + 1]) => HeldAfter(p, n + 1) = HeldAfter(p, n) \cup {p[n + 1].block}
           /\ p[n + 1].do = "free" => HeldAfter(p, n + 1) = HeldAfter(p, n) \ {p[n + 1].block}
           /\ p[n + 1].do = "defer" => HeldAfter(p, n + 1) = HeldAfter(p, n)
<1>. DEFINE Stays(i, k) == Allocates(p[i]) /\ \A l \in (i + 1)..k : ~ Frees(p[l], p[i].block)
<1>1. \A i \in 1..n : Stays(i, n + 1) <=> Stays(i, n) /\ ~ Frees(p[n + 1], p[i].block)
  <2>1. \A i \in 1..n : (i + 1)..(n + 1) = (i + 1)..n \cup {n + 1}
      OBVIOUS
  <2>. QED  BY <2>1
<1>2. Stays(n + 1, n + 1) <=> Allocates(p[n + 1])
    OBVIOUS
<1>3. 1..(n + 1) = 1..n \cup {n + 1}
    OBVIOUS
<1>4. \A k \in Nat : HeldAfter(p, k) = {p[i].block : i \in {i \in 1..k : Stays(i, k)}}
    BY DEF HeldAfter
<1>5. HeldAfter(p, n + 1) =
          {b \in HeldAfter(p, n) : ~ Frees(p[n + 1], b)}
            \cup (IF Allocates(p[n + 1]) THEN {p[n + 1].block} ELSE {})
  <2>. HIDE DEF Stays
  <2>1. n + 1 \in Nat
      OBVIOUS
  <2>. QED  BY <1>1, <1>2, <1>3, <1>4, <2>1
<1>. QED  BY <1>5 DEF Frees, Allocates

LEMMA DeferredNext ==
    ASSUME NEW p, NEW n \in Nat
    PROVE  DeferredAfter(p, n + 1) =
               IF p[n + 1].do = "defer" THEN DeferredAfter(p, n) \cup {p[n + 1].block}
               ELSE DeferredAfter(p, n)
<1>1. 1..(n + 1) = 1..n \cup {n + 1}
    OBVIOUS
<1>. QED  BY <1>1 DEF DeferredAfter
BlocksIn(p, k, n)    == {p[i].block : i \in k..n}
AllAllocate(p, k, n) == \A i \in k..n : Allocates(p[i])

LEMMA HeldInLoop ==
    ASSUME NEW p, NEW n \in Nat, NEW k \in Nat, n <= k,
           AllAllocate(p, n + 1, k)
    PROVE  /\ HeldAfter(p, k) = HeldAfter(p, n) \cup BlocksIn(p, n + 1, k)
           /\ DeferredAfter(p, k) = DeferredAfter(p, n)
<1>1. \A i \in (n + 1)..k : p[i].do \notin {"free", "defer"}
    BY DEF Allocates, AllAllocate
<1>2. \A i \in 1..k : i \in 1..n \/ i \in (n + 1)..k
    OBVIOUS
<1>3. 1..n \subseteq 1..k
    OBVIOUS
<1>4. DeferredAfter(p, k) = DeferredAfter(p, n)
    BY <1>1, <1>2, <1>3 DEF DeferredAfter
<1>5. ASSUME NEW i \in 1..n
      PROVE  (\A l \in (i + 1)..k : ~ Frees(p[l], p[i].block))
               <=> \A l \in (i + 1)..n : ~ Frees(p[l], p[i].block)
  <2>1. \A l \in (i + 1)..k : l \in (i + 1)..n \/ l \in (n + 1)..k
      OBVIOUS
  <2>2. (i + 1)..n \subseteq (i + 1)..k
      OBVIOUS
  <2>. QED  BY <1>1, <2>1, <2>2 DEF Frees
<1>6. \A i \in (n + 1)..k : i \in 1..k /\ \A l \in (i + 1)..k : ~ Frees(p[l], p[i].block)
    BY <1>1 DEF Frees
<1>7. HeldAfter(p, k) \subseteq HeldAfter(p, n) \cup {p[i].block : i \in (n + 1)..k}
    BY <1>2, <1>5 DEF HeldAfter
<1>8. HeldAfter(p, n) \subseteq HeldAfter(p, k)
    BY <1>3, <1>5 DEF HeldAfter
<1>9. {p[i].block : i \in (n + 1)..k} \subseteq HeldAfter(p, k)
    BY <1>6 DEF HeldAfter, AllAllocate
<1>. QED  BY <1>4, <1>7, <1>8, <1>9 DEF BlocksIn

(* A program made of a beginning, a loop and an end.                       *)
IsAroundALoop(p, a, s, c, B, U) ==
    /\ p \in Seq(Operations(U)) /\ Len(s) \in Nat
    /\ Len(p) = Len(a) + Len(s) + Len(c)
    /\ \A k \in 1..Len(a) : p[k] = a[k]
    /\ \A k \in (Len(a) + 1)..(Len(a) + Len(s)) :
          /\ p[k] \in Copies(B)
          /\ HeldAfter(p, Len(a)) \subseteq HeldAfter(p, k - 1)
          /\ HeldAfter(p, k - 1) \subseteq HeldAfter(p, Len(a)) \cup B
          /\ DeferredAfter(p, k - 1) = DeferredAfter(p, Len(a))
    /\ \A k \in 1..Len(c) : p[Len(a) + Len(s) + k] = c[k]
    /\ HeldAfter(p, Len(a) + Len(s)) = HeldAfter(p, Len(a)) \cup B
    /\ DeferredAfter(p, Len(a) + Len(s)) = DeferredAfter(p, Len(a))

LEMMA AroundALoop ==
    ASSUME NEW U, NEW a \in Seq(Operations(U)), NEW c \in Seq(Operations(U)),
           NEW B, B \subseteq U, NEW s, Grows(s, B), NEW p, p = a \o (s \o c)
    PROVE  IsAroundALoop(p, a, s, c, B, U)
<1>. PICK m : m = Len(a)
    OBVIOUS
<1>. PICK n : n = Len(a) + Len(s)
    OBVIOUS
<1>1. s \in Seq(Copies(B)) /\ s \in Seq(Operations(U))
  <2>1. Copies(B) \subseteq Operations(U)
      BY DEF Copies, Operations, Dos
  <2>. QED  BY <2>1, SeqMonotonic, Zenon DEF Grows
<1>2. m \in Nat /\ Len(s) \in Nat /\ n \in Nat /\ m <= n
    BY <1>1
<1>. PICK sc : sc = s \o c
    OBVIOUS
<1>3. /\ sc \in Seq(Operations(U)) /\ Len(sc) = Len(s) + Len(c)
      /\ \A k \in 1..Len(s) : sc[k] = s[k]
      /\ \A k \in 1..Len(c) : sc[Len(s) + k] = c[k]
    BY <1>1
<1>4. /\ p \in Seq(Operations(U)) /\ Len(p) = m + Len(sc)
      /\ \A k \in 1..m : p[k] = a[k]
      /\ \A k \in 1..Len(sc) : p[m + k] = sc[k]
    BY <1>3
<1>5. \A k \in (m + 1)..n : p[k] = s[k - m] /\ k - m \in 1..Len(s)
  <2>. SUFFICES ASSUME NEW k \in (m + 1)..n PROVE p[k] = s[k - m] /\ k - m \in 1..Len(s)
      OBVIOUS
  <2>1. k - m \in 1..Len(s) /\ m + (k - m) = k /\ k - m \in 1..Len(sc)
      BY <1>2, <1>3
  <2>. QED  BY <1>3, <1>4, <2>1
<1>6. \A k \in (m + 1)..n : p[k] \in Copies(B) /\ Allocates(p[k]) /\ p[k].block \in B
  <2>1. \A k \in 1..Len(s) : s[k] \in Copies(B)
      BY <1>1
  <2>2. \A op \in Copies(B) : Allocates(op) /\ op.block \in B
      BY DEF Copies, Allocates
  <2>. QED  BY <1>5, <2>1, <2>2
<1>7. \A k \in 1..Len(c) : p[n + k] = c[k]
  <2>. SUFFICES ASSUME NEW k \in 1..Len(c) PROVE p[n + k] = c[k]
      OBVIOUS
  <2>1. Len(s) + k \in 1..Len(sc) /\ n + k = m + (Len(s) + k)
      BY <1>2, <1>3
  <2>. QED  BY <1>3, <1>4, <2>1
<1>8. ASSUME NEW k \in (m + 1)..n
      PROVE  /\ HeldAfter(p, m) \subseteq HeldAfter(p, k - 1)
             /\ HeldAfter(p, k - 1) \subseteq HeldAfter(p, m) \cup B
             /\ DeferredAfter(p, k - 1) = DeferredAfter(p, m)
  <2>1. k - 1 \in Nat /\ m <= k - 1 /\ \A i \in (m + 1)..(k - 1) : i \in (m + 1)..n
      BY <1>2
  <2>2. /\ HeldAfter(p, k - 1) = HeldAfter(p, m) \cup BlocksIn(p, m + 1, k - 1)
        /\ DeferredAfter(p, k - 1) = DeferredAfter(p, m)
    <3>1. AllAllocate(p, m + 1, k - 1)
        BY <1>6, <2>1 DEF AllAllocate
    <3>. QED  BY <1>2, <2>1, <3>1, HeldInLoop
  <2>. QED  BY <1>6, <2>1, <2>2 DEF BlocksIn
<1>9. /\ HeldAfter(p, n) = HeldAfter(p, m) \cup BlocksIn(p, m + 1, n)
      /\ DeferredAfter(p, n) = DeferredAfter(p, m)
  <2>1. AllAllocate(p, m + 1, n)
      BY <1>6 DEF AllAllocate
  <2>. QED  BY <1>2, <2>1, HeldInLoop
<1>10. BlocksIn(p, m + 1, n) = B
  <2>1. ASSUME NEW b \in B PROVE \E i \in (m + 1)..n : p[i].block = b
    <3>1. PICK k \in 1..Len(s) : s[k].block = b
        BY DEF Grows, Elements
    <3>2. m + k \in (m + 1)..n /\ (m + k) - m = k
        BY <1>2
    <3>. QED  BY <1>5, <3>1, <3>2
  <2>. QED  BY <1>6, <2>1 DEF BlocksIn
<1>11. HeldAfter(p, n) = HeldAfter(p, m) \cup B
    BY <1>9, <1>10
<1>12. Len(p) = m + Len(s) + Len(c)
    BY <1>2, <1>3, <1>4
<1>. QED  BY <1>2, <1>4, <1>6, <1>7, <1>8, <1>9, <1>11, <1>12 DEF IsAroundALoop
-----------------------------------------------------------------------------
(* A program that can be run at any size: it returns or panics at its end  *)
(* and nowhere else, frees what it holds, by hand or by a defer and once,  *)
(* and at a failure that it reports holds none of the Kept blocks but      *)
(* those its defers free.                                                  *)
Kept == {"query", "connection", "port_str", "parts", "paramString"}

AtRisk(p, k)      == HeldAfter(p, k) \ DeferredAfter(p, k)
EndsOnly(p, k)    == p[k].do \in {"return", "panic"} <=> k = Len(p)
FreesLive(p, k)   ==
    /\ p[k].do = "free" => p[k].block \in HeldAfter(p, k - 1) \ DeferredAfter(p, k - 1)
    /\ p[k].do = "defer" => p[k].block \notin DeferredAfter(p, k - 1)
    /\ p[k].do \in {"try", "return"} =>
         \A b \in DeferredAfter(p, k - 1) : b.name \notin Growing => b \in HeldAfter(p, k - 1)
LosesLittle(p, k) == p[k].do = "try" => \A b \in AtRisk(p, k - 1) : b.name \notin Kept

WellFormed(p, U) ==
    /\ p \in Seq(Operations(U)) /\ Len(p) # 0
    /\ \A k \in 1..Len(p) : EndsOnly(p, k) /\ FreesLive(p, k) /\ LosesLittle(p, k)

(* p ends with op and has nothing left but the blocks of left.             *)
EndsWith(p, op, left) == p[Len(p)] = op /\ AtRisk(p, Len(p) - 1) = left

Results == {"psql", "queryResult", "QueryParams", "ok", "ConnectionFailed", "QueryFailed",
            "SelectJoinFailed", "InsertionFailed", "PrimaryKeyDuplicate"}
Holders == {"port_str", "connection", "PGconn", "result", "query", "errorCode", "parts",
            "paramString", "joined", "columns", "rows", "none"}
Simple  == {One(x) : x \in Results \cup Holders}

LEMMA SimpleOps == \A d \in Dos, x \in Results \cup Holders : Op(d, One(x)) \in Operations(Simple)
BY DEF Op, Operations, Simple

(* init hands over the PGconn.                                             *)
LEMMA InitOk ==
    /\ WellFormed(init("ok"), Simple)
    /\ EndsWith(init("ok"), Return("psql"), {One("PGconn")})
<1>1. ASSUME NEW p, p = init("ok")
      PROVE  WellFormed(p, Simple) /\ EndsWith(p, Return("psql"), {One("PGconn")})
  <2>. PICK a : a = <<Op("try", One("port_str")), Op("defer", One("port_str")),
                 Op("try", One("connection")), Op("get", One("PGconn"))>>
      OBVIOUS
  <2>. PICK c : c = <<Op("free", One("connection")), Op("return", One("psql"))>>
      OBVIOUS
  <2>1. p = a \o c
    <3>1. a = <<Try(One("port_str")), Defer("port_str"), Try(One("connection")), Get("PGconn")>>
        BY DEF Try, Get, Defer
    <3>2. c = <<Free(One("connection")), Return("psql")>>
        BY DEF Free, Return, Op
    <3>. QED  BY <1>1, <3>1, <3>2 DEF init
  <2>2. a \in Seq(Operations(Simple)) /\ c \in Seq(Operations(Simple))
      BY SimpleOps DEF Dos, Results, Holders
  <2>3. Len(a) = 4 /\ Len(c) = 2
      OBVIOUS
  <2>4. /\ p \in Seq(Operations(Simple)) /\ Len(p) = 6
        /\ p[1] = a[1] /\ p[2] = a[2] /\ p[3] = a[3] /\ p[4] = a[4] /\ p[5] = c[1]
        /\ p[6] = c[2]
      BY <2>1, <2>2, <2>3
  <2>5. /\ p[1] = Op("try", One("port_str")) /\ p[2] = Op("defer", One("port_str"))
        /\ p[3] = Op("try", One("connection")) /\ p[4] = Op("get", One("PGconn"))
        /\ p[5] = Op("free", One("connection")) /\ p[6] = Op("return", One("psql"))
      BY <2>4
  <2>6. HeldAfter(p, 0) = {} /\ DeferredAfter(p, 0) = {}
      BY HeldAtFirst
  <2>7. /\ HeldAfter(p, 2) = {One("port_str")} /\ DeferredAfter(p, 2) = {One("port_str")}
        /\ DeferredAfter(p, 1) = {}
      BY <2>5 DEF HeldAfter, DeferredAfter, Allocates, Frees, Op, One, Block
  <2>8. /\ HeldAfter(p, 4) = {One("port_str"), One("connection"), One("PGconn")}
        /\ DeferredAfter(p, 4) = {One("port_str")}
      BY <2>5 DEF HeldAfter, DeferredAfter, Allocates, Frees, Op, One, Block
  <2>9. /\ HeldAfter(p, 5) = {One("port_str"), One("PGconn")}
        /\ DeferredAfter(p, 5) = {One("port_str")}
      BY <2>5 DEF HeldAfter, DeferredAfter, Allocates, Frees, Op, One, Block
  <2>10. ASSUME NEW k \in 1..6 PROVE EndsOnly(p, k) /\ FreesLive(p, k) /\ LosesLittle(p, k)
      BY <2>4, <2>5, <2>6, <2>7, <2>8, <2>9
      DEF EndsOnly, FreesLive, LosesLittle, AtRisk, Kept, Growing, Op, One, Block
  <2>11. EndsWith(p, Return("psql"), {One("PGconn")})
      BY <2>4, <2>5, <2>9 DEF EndsWith, AtRisk, Return, Op, One, Block
  <2>. QED  BY <2>4, <2>10, <2>11 DEF WellFormed
<1>. QED  BY <1>1, Zenon

(* init loses the connection string when it fails.                         *)
LEMMA InitFails ==
    /\ WellFormed(init("error"), Simple)
    /\ EndsWith(init("error"), Return("ConnectionFailed"), {One("connection")})
<1>1. ASSUME NEW p, p = init("error")
      PROVE  WellFormed(p, Simple) /\ EndsWith(p, Return("ConnectionFailed"), {One("connection")})
  <2>. PICK a : a = <<Op("try", One("port_str")), Op("defer", One("port_str")),
                 Op("try", One("connection")), Op("get", One("PGconn"))>>
      OBVIOUS
  <2>. PICK c : c = <<Op("free", One("PGconn")), Op("return", One("ConnectionFailed"))>>
      OBVIOUS
  <2>1. p = a \o c
    <3>1. a = <<Try(One("port_str")), Defer("port_str"), Try(One("connection")), Get("PGconn")>>
        BY DEF Try, Get, Defer
    <3>2. c = <<Free(One("PGconn")), Return("ConnectionFailed")>>
        BY DEF Free, Return, Op
    <3>. QED  BY <1>1, <3>1, <3>2 DEF init
  <2>2. a \in Seq(Operations(Simple)) /\ c \in Seq(Operations(Simple))
      BY SimpleOps DEF Dos, Results, Holders
  <2>3. Len(a) = 4 /\ Len(c) = 2
      OBVIOUS
  <2>4. /\ p \in Seq(Operations(Simple)) /\ Len(p) = 6
        /\ p[1] = a[1] /\ p[2] = a[2] /\ p[3] = a[3] /\ p[4] = a[4] /\ p[5] = c[1]
        /\ p[6] = c[2]
      BY <2>1, <2>2, <2>3
  <2>5. /\ p[1] = Op("try", One("port_str")) /\ p[2] = Op("defer", One("port_str"))
        /\ p[3] = Op("try", One("connection")) /\ p[4] = Op("get", One("PGconn"))
        /\ p[5] = Op("free", One("PGconn")) /\ p[6] = Op("return", One("ConnectionFailed"))
      BY <2>4
  <2>6. HeldAfter(p, 0) = {} /\ DeferredAfter(p, 0) = {}
      BY HeldAtFirst
  <2>7. /\ HeldAfter(p, 2) = {One("port_str")} /\ DeferredAfter(p, 2) = {One("port_str")}
        /\ DeferredAfter(p, 1) = {}
      BY <2>5 DEF HeldAfter, DeferredAfter, Allocates, Frees, Op, One, Block
  <2>8. /\ HeldAfter(p, 4) = {One("port_str"), One("connection"), One("PGconn")}
        /\ DeferredAfter(p, 4) = {One("port_str")}
      BY <2>5 DEF HeldAfter, DeferredAfter, Allocates, Frees, Op, One, Block
  <2>9. /\ HeldAfter(p, 5) = {One("port_str"), One("connection")}
        /\ DeferredAfter(p, 5) = {One("port_str")}
      BY <2>5 DEF HeldAfter, DeferredAfter, Allocates, Frees, Op, One, Block
  <2>10. ASSUME NEW k \in 1..6 PROVE EndsOnly(p, k) /\ FreesLive(p, k) /\ LosesLittle(p, k)
      BY <2>4, <2>5, <2>6, <2>7, <2>8, <2>9
      DEF EndsOnly, FreesLive, LosesLittle, AtRisk, Kept, Growing, Op, One, Block
  <2>11. EndsWith(p, Return("ConnectionFailed"), {One("connection")})
      BY <2>4, <2>5, <2>9 DEF EndsWith, AtRisk, Return, Op, One, Block
  <2>. QED  BY <2>4, <2>10, <2>11 DEF WellFormed
<1>. QED  BY <1>1, Zenon

(* execQuery keeps nothing.                                                *)
LEMMA ExecOk ==
    /\ WellFormed(execQuery("ok"), Simple)
    /\ EndsWith(execQuery("ok"), Return("ok"), {})
<1>1. ASSUME NEW p, p = execQuery("ok")
      PROVE  WellFormed(p, Simple) /\ EndsWith(p, Return("ok"), {})
  <2>. PICK c : c = <<Op("get", One("result")), Op("free", One("result")),
                 Op("return", One("ok"))>>
      OBVIOUS
  <2>1. p = c
    <3>1. c = <<Get("result"), Free(One("result")), Return("ok")>>
        BY DEF Get, Free, Return, Op
    <3>. QED  BY <1>1, <3>1 DEF execQuery
  <2>2. c \in Seq(Operations(Simple))
      BY SimpleOps DEF Dos, Results, Holders
  <2>3. Len(c) = 3
      OBVIOUS
  <2>4. /\ p \in Seq(Operations(Simple)) /\ Len(p) = 3
        /\ p[1] = c[1] /\ p[2] = c[2] /\ p[3] = c[3]
      BY <2>1, <2>2, <2>3
  <2>5. /\ p[1] = Op("get", One("result")) /\ p[2] = Op("free", One("result"))
        /\ p[3] = Op("return", One("ok"))
      BY <2>4
  <2>6. HeldAfter(p, 1) = {One("result")} /\ DeferredAfter(p, 1) = {}
      BY <2>5 DEF HeldAfter, DeferredAfter, Allocates, Frees, Op, One, Block
  <2>7. HeldAfter(p, 2) = {} /\ DeferredAfter(p, 2) = {}
      BY <2>5 DEF HeldAfter, DeferredAfter, Allocates, Frees, Op, One, Block
  <2>8. ASSUME NEW k \in 1..3 PROVE EndsOnly(p, k) /\ FreesLive(p, k) /\ LosesLittle(p, k)
      BY <2>4, <2>5, <2>6, <2>7
      DEF EndsOnly, FreesLive, LosesLittle, AtRisk, Kept, Growing, Op, One, Block
  <2>9. EndsWith(p, Return("ok"), {})
      BY <2>4, <2>5, <2>7 DEF EndsWith, AtRisk, Return, Op, One, Block
  <2>. QED  BY <2>4, <2>8, <2>9 DEF WellFormed
<1>. QED  BY <1>1, Zenon

(* ... when it fails neither.                                              *)
LEMMA ExecFails ==
    /\ WellFormed(execQuery("error"), Simple)
    /\ EndsWith(execQuery("error"), Return("QueryFailed"), {})
<1>1. ASSUME NEW p, p = execQuery("error")
      PROVE  WellFormed(p, Simple) /\ EndsWith(p, Return("QueryFailed"), {})
  <2>. PICK c : c = <<Op("get", One("result")), Op("free", One("result")),
                 Op("return", One("QueryFailed"))>>
      OBVIOUS
  <2>1. p = c
    <3>1. c = <<Get("result"), Free(One("result")), Return("QueryFailed")>>
        BY DEF Get, Free, Return, Op
    <3>. QED  BY <1>1, <3>1 DEF execQuery
  <2>2. c \in Seq(Operations(Simple))
      BY SimpleOps DEF Dos, Results, Holders
  <2>3. Len(c) = 3
      OBVIOUS
  <2>4. /\ p \in Seq(Operations(Simple)) /\ Len(p) = 3
        /\ p[1] = c[1] /\ p[2] = c[2] /\ p[3] = c[3]
      BY <2>1, <2>2, <2>3
  <2>5. /\ p[1] = Op("get", One("result")) /\ p[2] = Op("free", One("result"))
        /\ p[3] = Op("return", One("QueryFailed"))
      BY <2>4
  <2>6. HeldAfter(p, 1) = {One("result")} /\ DeferredAfter(p, 1) = {}
      BY <2>5 DEF HeldAfter, DeferredAfter, Allocates, Frees, Op, One, Block
  <2>7. HeldAfter(p, 2) = {} /\ DeferredAfter(p, 2) = {}
      BY <2>5 DEF HeldAfter, DeferredAfter, Allocates, Frees, Op, One, Block
  <2>8. ASSUME NEW k \in 1..3 PROVE EndsOnly(p, k) /\ FreesLive(p, k) /\ LosesLittle(p, k)
      BY <2>4, <2>5, <2>6, <2>7
      DEF EndsOnly, FreesLive, LosesLittle, AtRisk, Kept, Growing, Op, One, Block
  <2>9. EndsWith(p, Return("QueryFailed"), {})
      BY <2>4, <2>5, <2>7 DEF EndsWith, AtRisk, Return, Op, One, Block
  <2>. QED  BY <2>4, <2>8, <2>9 DEF WellFormed
<1>. QED  BY <1>1, Zenon

(* A select that fails keeps nothing.                                      *)
LEMMA SelectFails ==
    ASSUME NEW n, NEW m
    PROVE  /\ WellFormed(select("error", n, m), Simple)
           /\ EndsWith(select("error", n, m), Return("QueryFailed"), {})
<1>1. ASSUME NEW p, p = select("error", n, m)
      PROVE  WellFormed(p, Simple) /\ EndsWith(p, Return("QueryFailed"), {})
  <2>. PICK a : a = <<Op("try", One("query")), Op("defer", One("query")),
                 Op("get", One("result"))>>
      OBVIOUS
  <2>. PICK c : c = <<Op("free", One("result")), Op("return", One("QueryFailed"))>>
      OBVIOUS
  <2>1. p = a \o c
    <3>1. a = <<Try(One("query")), Defer("query"), Get("result")>>
        BY DEF Try, Get, Defer
    <3>2. c = <<Free(One("result")), Return("QueryFailed")>>
        BY DEF Free, Return, Op
    <3>. QED  BY <1>1, <3>1, <3>2 DEF select
  <2>2. a \in Seq(Operations(Simple)) /\ c \in Seq(Operations(Simple))
      BY SimpleOps DEF Dos, Results, Holders
  <2>3. Len(a) = 3 /\ Len(c) = 2
      OBVIOUS
  <2>4. /\ p \in Seq(Operations(Simple)) /\ Len(p) = 5
        /\ p[1] = a[1] /\ p[2] = a[2] /\ p[3] = a[3] /\ p[4] = c[1] /\ p[5] = c[2]
      BY <2>1, <2>2, <2>3
  <2>5. /\ p[1] = Op("try", One("query")) /\ p[2] = Op("defer", One("query"))
        /\ p[3] = Op("get", One("result")) /\ p[4] = Op("free", One("result"))
        /\ p[5] = Op("return", One("QueryFailed"))
      BY <2>4
  <2>6. HeldAfter(p, 0) = {} /\ DeferredAfter(p, 0) = {}
      BY HeldAtFirst
  <2>7. /\ HeldAfter(p, 3) = {One("query"), One("result")} /\ DeferredAfter(p, 3) = {One("query")}
        /\ DeferredAfter(p, 1) = {}
      BY <2>5 DEF HeldAfter, DeferredAfter, Allocates, Frees, Op, One, Block
  <2>8. HeldAfter(p, 4) = {One("query")} /\ DeferredAfter(p, 4) = {One("query")}
      BY <2>5 DEF HeldAfter, DeferredAfter, Allocates, Frees, Op, One, Block
  <2>9. ASSUME NEW k \in 1..5 PROVE EndsOnly(p, k) /\ FreesLive(p, k) /\ LosesLittle(p, k)
      BY <2>4, <2>5, <2>6, <2>7, <2>8
      DEF EndsOnly, FreesLive, LosesLittle, AtRisk, Kept, Growing, Op, One, Block
  <2>10. EndsWith(p, Return("QueryFailed"), {})
      BY <2>4, <2>5, <2>8 DEF EndsWith, AtRisk, Return, Op, One, Block
  <2>. QED  BY <2>4, <2>9, <2>10 DEF WellFormed
<1>. QED  BY <1>1, Zenon

(* A selectJoin that fails keeps nothing.                                  *)
LEMMA SelectJoinFails ==
    ASSUME NEW n, NEW m
    PROVE  /\ WellFormed(selectJoin("error", n, m), Simple)
           /\ EndsWith(selectJoin("error", n, m), Return("SelectJoinFailed"), {})
<1>1. ASSUME NEW p, p = selectJoin("error", n, m)
      PROVE  WellFormed(p, Simple) /\ EndsWith(p, Return("SelectJoinFailed"), {})
  <2>. PICK a : a = <<Op("try", One("query")), Op("get", One("result")),
                 Op("free", One("query"))>>
      OBVIOUS
  <2>. PICK c : c = <<Op("free", One("result")), Op("return", One("SelectJoinFailed"))>>
      OBVIOUS
  <2>1. p = a \o c
    <3>1. a = <<Try(One("query")), Get("result"), Free(One("query"))>>
        BY DEF Try, Get, Free
    <3>2. c = <<Free(One("result")), Return("SelectJoinFailed")>>
        BY DEF Free, Return, Op
    <3>. QED  BY <1>1, <3>1, <3>2 DEF selectJoin
  <2>2. a \in Seq(Operations(Simple)) /\ c \in Seq(Operations(Simple))
      BY SimpleOps DEF Dos, Results, Holders
  <2>3. Len(a) = 3 /\ Len(c) = 2
      OBVIOUS
  <2>4. /\ p \in Seq(Operations(Simple)) /\ Len(p) = 5
        /\ p[1] = a[1] /\ p[2] = a[2] /\ p[3] = a[3] /\ p[4] = c[1] /\ p[5] = c[2]
      BY <2>1, <2>2, <2>3
  <2>5. /\ p[1] = Op("try", One("query")) /\ p[2] = Op("get", One("result"))
        /\ p[3] = Op("free", One("query")) /\ p[4] = Op("free", One("result"))
        /\ p[5] = Op("return", One("SelectJoinFailed"))
      BY <2>4
  <2>6. HeldAfter(p, 0) = {} /\ DeferredAfter(p, 0) = {}
      BY HeldAtFirst
  <2>7. HeldAfter(p, 2) = {One("query"), One("result")} /\ DeferredAfter(p, 2) = {}
      BY <2>5 DEF HeldAfter, DeferredAfter, Allocates, Frees, Op, One, Block
  <2>8. HeldAfter(p, 3) = {One("result")} /\ DeferredAfter(p, 3) = {}
      BY <2>5 DEF HeldAfter, DeferredAfter, Allocates, Frees, Op, One, Block
  <2>9. HeldAfter(p, 4) = {} /\ DeferredAfter(p, 4) = {}
      BY <2>5 DEF HeldAfter, DeferredAfter, Allocates, Frees, Op, One, Block
  <2>10. ASSUME NEW k \in 1..5 PROVE EndsOnly(p, k) /\ FreesLive(p, k) /\ LosesLittle(p, k)
      BY <2>4, <2>5, <2>6, <2>7, <2>8, <2>9
      DEF EndsOnly, FreesLive, LosesLittle, AtRisk, Kept, Growing, Op, One, Block
  <2>11. EndsWith(p, Return("SelectJoinFailed"), {})
      BY <2>4, <2>5, <2>9 DEF EndsWith, AtRisk, Return, Op, One, Block
  <2>. QED  BY <2>4, <2>10, <2>11 DEF WellFormed
<1>. QED  BY <1>1, Zenon

(* insert keeps nothing.                                                   *)
LEMMA InsertOk ==
    /\ WellFormed(insert("ok"), Simple)
    /\ EndsWith(insert("ok"), Return("ok"), {})
<1>1. ASSUME NEW p, p = insert("ok")
      PROVE  WellFormed(p, Simple) /\ EndsWith(p, Return("ok"), {})
  <2>. PICK a : a = <<Op("try", One("query")), Op("get", One("result")),
                 Op("free", One("query"))>>
      OBVIOUS
  <2>. PICK c : c = <<Op("free", One("result")), Op("return", One("ok"))>>
      OBVIOUS
  <2>1. p = a \o c
    <3>1. a = <<Try(One("query")), Get("result"), Free(One("query"))>>
        BY DEF Try, Get, Free
    <3>2. c = <<Free(One("result")), Return("ok")>>
        BY DEF Free, Return, Op
    <3>. QED  BY <1>1, <3>1, <3>2 DEF insert
  <2>2. a \in Seq(Operations(Simple)) /\ c \in Seq(Operations(Simple))
      BY SimpleOps DEF Dos, Results, Holders
  <2>3. Len(a) = 3 /\ Len(c) = 2
      OBVIOUS
  <2>4. /\ p \in Seq(Operations(Simple)) /\ Len(p) = 5
        /\ p[1] = a[1] /\ p[2] = a[2] /\ p[3] = a[3] /\ p[4] = c[1] /\ p[5] = c[2]
      BY <2>1, <2>2, <2>3
  <2>5. /\ p[1] = Op("try", One("query")) /\ p[2] = Op("get", One("result"))
        /\ p[3] = Op("free", One("query")) /\ p[4] = Op("free", One("result"))
        /\ p[5] = Op("return", One("ok"))
      BY <2>4
  <2>6. HeldAfter(p, 0) = {} /\ DeferredAfter(p, 0) = {}
      BY HeldAtFirst
  <2>7. HeldAfter(p, 2) = {One("query"), One("result")} /\ DeferredAfter(p, 2) = {}
      BY <2>5 DEF HeldAfter, DeferredAfter, Allocates, Frees, Op, One, Block
  <2>8. HeldAfter(p, 3) = {One("result")} /\ DeferredAfter(p, 3) = {}
      BY <2>5 DEF HeldAfter, DeferredAfter, Allocates, Frees, Op, One, Block
  <2>9. HeldAfter(p, 4) = {} /\ DeferredAfter(p, 4) = {}
      BY <2>5 DEF HeldAfter, DeferredAfter, Allocates, Frees, Op, One, Block
  <2>10. ASSUME NEW k \in 1..5 PROVE EndsOnly(p, k) /\ FreesLive(p, k) /\ LosesLittle(p, k)
      BY <2>4, <2>5, <2>6, <2>7, <2>8, <2>9
      DEF EndsOnly, FreesLive, LosesLittle, AtRisk, Kept, Growing, Op, One, Block
  <2>11. EndsWith(p, Return("ok"), {})
      BY <2>4, <2>5, <2>9 DEF EndsWith, AtRisk, Return, Op, One, Block
  <2>. QED  BY <2>4, <2>10, <2>11 DEF WellFormed
<1>. QED  BY <1>1, Zenon

(* ... when it fails neither.                                              *)
LEMMA InsertFails ==
    /\ WellFormed(insert("error"), Simple)
    /\ EndsWith(insert("error"), Return("InsertionFailed"), {})
<1>1. ASSUME NEW p, p = insert("error")
      PROVE  WellFormed(p, Simple) /\ EndsWith(p, Return("InsertionFailed"), {})
  <2>. PICK a : a = <<Op("try", One("query")), Op("get", One("result")),
                 Op("free", One("query"))>>
      OBVIOUS
  <2>. PICK c : c = <<Op("try", One("errorCode")), Op("defer", One("errorCode")),
                 Op("free", One("result")), Op("return", One("InsertionFailed"))>>
      OBVIOUS
  <2>1. p = a \o c
    <3>1. a = <<Try(One("query")), Get("result"), Free(One("query"))>>
        BY DEF Try, Get, Free
    <3>2. c = <<Try(One("errorCode")), Defer("errorCode"), Free(One("result")),
               Return("InsertionFailed")>>
        BY DEF Try, Free, Defer, Return, Op
    <3>. QED  BY <1>1, <3>1, <3>2 DEF insert
  <2>2. a \in Seq(Operations(Simple)) /\ c \in Seq(Operations(Simple))
      BY SimpleOps DEF Dos, Results, Holders
  <2>3. Len(a) = 3 /\ Len(c) = 4
      OBVIOUS
  <2>4. /\ p \in Seq(Operations(Simple)) /\ Len(p) = 7
        /\ p[1] = a[1] /\ p[2] = a[2] /\ p[3] = a[3] /\ p[4] = c[1] /\ p[5] = c[2]
        /\ p[6] = c[3] /\ p[7] = c[4]
      BY <2>1, <2>2, <2>3
  <2>5. /\ p[1] = Op("try", One("query")) /\ p[2] = Op("get", One("result"))
        /\ p[3] = Op("free", One("query")) /\ p[4] = Op("try", One("errorCode"))
        /\ p[5] = Op("defer", One("errorCode")) /\ p[6] = Op("free", One("result"))
        /\ p[7] = Op("return", One("InsertionFailed"))
      BY <2>4
  <2>6. HeldAfter(p, 0) = {} /\ DeferredAfter(p, 0) = {}
      BY HeldAtFirst
  <2>7. HeldAfter(p, 2) = {One("query"), One("result")} /\ DeferredAfter(p, 2) = {}
      BY <2>5 DEF HeldAfter, DeferredAfter, Allocates, Frees, Op, One, Block
  <2>8. HeldAfter(p, 3) = {One("result")} /\ DeferredAfter(p, 3) = {}
      BY <2>5 DEF HeldAfter, DeferredAfter, Allocates, Frees, Op, One, Block
  <2>9. /\ HeldAfter(p, 5) = {One("result"), One("errorCode")}
        /\ DeferredAfter(p, 5) = {One("errorCode")} /\ DeferredAfter(p, 4) = {}
      BY <2>5 DEF HeldAfter, DeferredAfter, Allocates, Frees, Op, One, Block
  <2>10. HeldAfter(p, 6) = {One("errorCode")} /\ DeferredAfter(p, 6) = {One("errorCode")}
      BY <2>5 DEF HeldAfter, DeferredAfter, Allocates, Frees, Op, One, Block
  <2>11. ASSUME NEW k \in 1..7 PROVE EndsOnly(p, k) /\ FreesLive(p, k) /\ LosesLittle(p, k)
      BY <2>4, <2>5, <2>6, <2>7, <2>8, <2>9, <2>10
      DEF EndsOnly, FreesLive, LosesLittle, AtRisk, Kept, Growing, Op, One, Block
  <2>12. EndsWith(p, Return("InsertionFailed"), {})
      BY <2>4, <2>5, <2>10 DEF EndsWith, AtRisk, Return, Op, One, Block
  <2>. QED  BY <2>4, <2>11, <2>12 DEF WellFormed
<1>. QED  BY <1>1, Zenon

(* insert loses the PGresult of a duplicate.                               *)
LEMMA InsertDuplicate ==
    /\ WellFormed(insert("duplicate"), Simple)
    /\ EndsWith(insert("duplicate"), Return("PrimaryKeyDuplicate"), {One("result")})
<1>1. ASSUME NEW p, p = insert("duplicate")
      PROVE  WellFormed(p, Simple) /\ EndsWith(p, Return("PrimaryKeyDuplicate"), {One("result")})
  <2>. PICK a : a = <<Op("try", One("query")), Op("get", One("result")),
                 Op("free", One("query"))>>
      OBVIOUS
  <2>. PICK c : c = <<Op("try", One("errorCode")), Op("defer", One("errorCode")),
                 Op("return", One("PrimaryKeyDuplicate"))>>
      OBVIOUS
  <2>1. p = a \o c
    <3>1. a = <<Try(One("query")), Get("result"), Free(One("query"))>>
        BY DEF Try, Get, Free
    <3>2. c = <<Try(One("errorCode")), Defer("errorCode"), Return("PrimaryKeyDuplicate")>>
        BY DEF Try, Defer, Return, Op
    <3>. QED  BY <1>1, <3>1, <3>2 DEF insert
  <2>2. a \in Seq(Operations(Simple)) /\ c \in Seq(Operations(Simple))
      BY SimpleOps DEF Dos, Results, Holders
  <2>3. Len(a) = 3 /\ Len(c) = 3
      OBVIOUS
  <2>4. /\ p \in Seq(Operations(Simple)) /\ Len(p) = 6
        /\ p[1] = a[1] /\ p[2] = a[2] /\ p[3] = a[3] /\ p[4] = c[1] /\ p[5] = c[2]
        /\ p[6] = c[3]
      BY <2>1, <2>2, <2>3
  <2>5. /\ p[1] = Op("try", One("query")) /\ p[2] = Op("get", One("result"))
        /\ p[3] = Op("free", One("query")) /\ p[4] = Op("try", One("errorCode"))
        /\ p[5] = Op("defer", One("errorCode")) /\ p[6] = Op("return", One("PrimaryKeyDuplicate"))
      BY <2>4
  <2>6. HeldAfter(p, 0) = {} /\ DeferredAfter(p, 0) = {}
      BY HeldAtFirst
  <2>7. HeldAfter(p, 2) = {One("query"), One("result")} /\ DeferredAfter(p, 2) = {}
      BY <2>5 DEF HeldAfter, DeferredAfter, Allocates, Frees, Op, One, Block
  <2>8. HeldAfter(p, 3) = {One("result")} /\ DeferredAfter(p, 3) = {}
      BY <2>5 DEF HeldAfter, DeferredAfter, Allocates, Frees, Op, One, Block
  <2>9. /\ HeldAfter(p, 5) = {One("result"), One("errorCode")}
        /\ DeferredAfter(p, 5) = {One("errorCode")} /\ DeferredAfter(p, 4) = {}
      BY <2>5 DEF HeldAfter, DeferredAfter, Allocates, Frees, Op, One, Block
  <2>10. ASSUME NEW k \in 1..6 PROVE EndsOnly(p, k) /\ FreesLive(p, k) /\ LosesLittle(p, k)
      BY <2>4, <2>5, <2>6, <2>7, <2>8, <2>9
      DEF EndsOnly, FreesLive, LosesLittle, AtRisk, Kept, Growing, Op, One, Block
  <2>11. EndsWith(p, Return("PrimaryKeyDuplicate"), {One("result")})
      BY <2>4, <2>5, <2>9 DEF EndsWith, AtRisk, Return, Op, One, Block
  <2>. QED  BY <2>4, <2>10, <2>11 DEF WellFormed
<1>. QED  BY <1>1, Zenon

(* insert panics on a result without a SQLSTATE.                           *)
LEMMA InsertLost ==
    /\ WellFormed(insert("lost"), Simple)
    /\ EndsWith(insert("lost"), Panic, {One("result")})
<1>1. ASSUME NEW p, p = insert("lost")
      PROVE  WellFormed(p, Simple) /\ EndsWith(p, Panic, {One("result")})
  <2>. PICK a : a = <<Op("try", One("query")), Op("get", One("result")),
                 Op("free", One("query"))>>
      OBVIOUS
  <2>. PICK c : c = <<Op("panic", One("none"))>>
      OBVIOUS
  <2>1. p = a \o c
    <3>1. a = <<Try(One("query")), Get("result"), Free(One("query"))>>
        BY DEF Try, Get, Free
    <3>2. c = <<Panic>>
        BY DEF Panic, Op
    <3>. QED  BY <1>1, <3>1, <3>2 DEF insert
  <2>2. a \in Seq(Operations(Simple)) /\ c \in Seq(Operations(Simple))
      BY SimpleOps DEF Dos, Results, Holders
  <2>3. Len(a) = 3 /\ Len(c) = 1
      OBVIOUS
  <2>4. /\ p \in Seq(Operations(Simple)) /\ Len(p) = 4
        /\ p[1] = a[1] /\ p[2] = a[2] /\ p[3] = a[3] /\ p[4] = c[1]
      BY <2>1, <2>2, <2>3
  <2>5. /\ p[1] = Op("try", One("query")) /\ p[2] = Op("get", One("result"))
        /\ p[3] = Op("free", One("query")) /\ p[4] = Op("panic", One("none"))
      BY <2>4
  <2>6. HeldAfter(p, 0) = {} /\ DeferredAfter(p, 0) = {}
      BY HeldAtFirst
  <2>7. HeldAfter(p, 2) = {One("query"), One("result")} /\ DeferredAfter(p, 2) = {}
      BY <2>5 DEF HeldAfter, DeferredAfter, Allocates, Frees, Op, One, Block
  <2>8. HeldAfter(p, 3) = {One("result")} /\ DeferredAfter(p, 3) = {}
      BY <2>5 DEF HeldAfter, DeferredAfter, Allocates, Frees, Op, One, Block
  <2>9. ASSUME NEW k \in 1..4 PROVE EndsOnly(p, k) /\ FreesLive(p, k) /\ LosesLittle(p, k)
      BY <2>4, <2>5, <2>6, <2>7, <2>8
      DEF EndsOnly, FreesLive, LosesLittle, AtRisk, Kept, Growing, Op, One, Block
  <2>10. EndsWith(p, Panic, {One("result")})
      BY <2>4, <2>5, <2>8 DEF EndsWith, AtRisk, Panic, Op, One, Block
  <2>. QED  BY <2>4, <2>9, <2>10 DEF WellFormed
<1>. QED  BY <1>1, Zenon

(* createTableFor keeps nothing.                                           *)
LEMMA CreateOk ==
    /\ WellFormed(createTableFor("ok"), Simple)
    /\ EndsWith(createTableFor("ok"), Return("ok"), {})
<1>1. ASSUME NEW p, p = createTableFor("ok")
      PROVE  WellFormed(p, Simple) /\ EndsWith(p, Return("ok"), {})
  <2>. PICK a : a = <<Op("defer", One("parts")), Op("try", One("parts")),
                 Op("try", One("query")), Op("get", One("result")), Op("free", One("result"))>>
      OBVIOUS
  <2>. PICK c : c = <<Op("free", One("query")), Op("return", One("ok"))>>
      OBVIOUS
  <2>1. p = a \o c
    <3>1. a = <<Defer("parts"), Try(One("parts")), Try(One("query")), Get("result"),
               Free(One("result"))>>
        BY DEF Try, Get, Free, Defer
    <3>2. c = <<Free(One("query")), Return("ok")>>
        BY DEF Free, Return, Op
    <3>. QED  BY <1>1, <3>1, <3>2 DEF createTableFor
  <2>2. a \in Seq(Operations(Simple)) /\ c \in Seq(Operations(Simple))
      BY SimpleOps DEF Dos, Results, Holders
  <2>3. Len(a) = 5 /\ Len(c) = 2
      OBVIOUS
  <2>4. /\ p \in Seq(Operations(Simple)) /\ Len(p) = 7
        /\ p[1] = a[1] /\ p[2] = a[2] /\ p[3] = a[3] /\ p[4] = a[4] /\ p[5] = a[5]
        /\ p[6] = c[1] /\ p[7] = c[2]
      BY <2>1, <2>2, <2>3
  <2>5. /\ p[1] = Op("defer", One("parts")) /\ p[2] = Op("try", One("parts"))
        /\ p[3] = Op("try", One("query")) /\ p[4] = Op("get", One("result"))
        /\ p[5] = Op("free", One("result")) /\ p[6] = Op("free", One("query"))
        /\ p[7] = Op("return", One("ok"))
      BY <2>4
  <2>6. /\ HeldAfter(p, 1) = {} /\ DeferredAfter(p, 1) = {One("parts")}
        /\ DeferredAfter(p, 0) = {}
      BY <2>5 DEF HeldAfter, DeferredAfter, Allocates, Frees, Op, One, Block
  <2>7. HeldAfter(p, 2) = {One("parts")} /\ DeferredAfter(p, 2) = {One("parts")}
      BY <2>5 DEF HeldAfter, DeferredAfter, Allocates, Frees, Op, One, Block
  <2>8. /\ HeldAfter(p, 4) = {One("parts"), One("query"), One("result")}
        /\ DeferredAfter(p, 4) = {One("parts")}
      BY <2>5 DEF HeldAfter, DeferredAfter, Allocates, Frees, Op, One, Block
  <2>9. HeldAfter(p, 5) = {One("parts"), One("query")} /\ DeferredAfter(p, 5) = {One("parts")}
      BY <2>5 DEF HeldAfter, DeferredAfter, Allocates, Frees, Op, One, Block
  <2>10. HeldAfter(p, 6) = {One("parts")} /\ DeferredAfter(p, 6) = {One("parts")}
      BY <2>5 DEF HeldAfter, DeferredAfter, Allocates, Frees, Op, One, Block
  <2>11. ASSUME NEW k \in 1..7 PROVE EndsOnly(p, k) /\ FreesLive(p, k) /\ LosesLittle(p, k)
      BY <2>4, <2>5, <2>6, <2>7, <2>8, <2>9, <2>10
      DEF EndsOnly, FreesLive, LosesLittle, AtRisk, Kept, Growing, Op, One, Block
  <2>12. EndsWith(p, Return("ok"), {})
      BY <2>4, <2>5, <2>10 DEF EndsWith, AtRisk, Return, Op, One, Block
  <2>. QED  BY <2>4, <2>11, <2>12 DEF WellFormed
<1>. QED  BY <1>1, Zenon

(* createTableFor loses the query when it fails.                           *)
LEMMA CreateFails ==
    /\ WellFormed(createTableFor("error"), Simple)
    /\ EndsWith(createTableFor("error"), Return("QueryFailed"), {One("query")})
<1>1. ASSUME NEW p, p = createTableFor("error")
      PROVE  WellFormed(p, Simple) /\ EndsWith(p, Return("QueryFailed"), {One("query")})
  <2>. PICK a : a = <<Op("defer", One("parts")), Op("try", One("parts")),
                 Op("try", One("query")), Op("get", One("result")), Op("free", One("result"))>>
      OBVIOUS
  <2>. PICK c : c = <<Op("return", One("QueryFailed"))>>
      OBVIOUS
  <2>1. p = a \o c
    <3>1. a = <<Defer("parts"), Try(One("parts")), Try(One("query")), Get("result"),
               Free(One("result"))>>
        BY DEF Try, Get, Free, Defer
    <3>2. c = <<Return("QueryFailed")>>
        BY DEF Return, Op
    <3>. QED  BY <1>1, <3>1, <3>2 DEF createTableFor
  <2>2. a \in Seq(Operations(Simple)) /\ c \in Seq(Operations(Simple))
      BY SimpleOps DEF Dos, Results, Holders
  <2>3. Len(a) = 5 /\ Len(c) = 1
      OBVIOUS
  <2>4. /\ p \in Seq(Operations(Simple)) /\ Len(p) = 6
        /\ p[1] = a[1] /\ p[2] = a[2] /\ p[3] = a[3] /\ p[4] = a[4] /\ p[5] = a[5]
        /\ p[6] = c[1]
      BY <2>1, <2>2, <2>3
  <2>5. /\ p[1] = Op("defer", One("parts")) /\ p[2] = Op("try", One("parts"))
        /\ p[3] = Op("try", One("query")) /\ p[4] = Op("get", One("result"))
        /\ p[5] = Op("free", One("result")) /\ p[6] = Op("return", One("QueryFailed"))
      BY <2>4
  <2>6. /\ HeldAfter(p, 1) = {} /\ DeferredAfter(p, 1) = {One("parts")}
        /\ DeferredAfter(p, 0) = {}
      BY <2>5 DEF HeldAfter, DeferredAfter, Allocates, Frees, Op, One, Block
  <2>7. HeldAfter(p, 2) = {One("parts")} /\ DeferredAfter(p, 2) = {One("parts")}
      BY <2>5 DEF HeldAfter, DeferredAfter, Allocates, Frees, Op, One, Block
  <2>8. /\ HeldAfter(p, 4) = {One("parts"), One("query"), One("result")}
        /\ DeferredAfter(p, 4) = {One("parts")}
      BY <2>5 DEF HeldAfter, DeferredAfter, Allocates, Frees, Op, One, Block
  <2>9. HeldAfter(p, 5) = {One("parts"), One("query")} /\ DeferredAfter(p, 5) = {One("parts")}
      BY <2>5 DEF HeldAfter, DeferredAfter, Allocates, Frees, Op, One, Block
  <2>10. ASSUME NEW k \in 1..6 PROVE EndsOnly(p, k) /\ FreesLive(p, k) /\ LosesLittle(p, k)
      BY <2>4, <2>5, <2>6, <2>7, <2>8, <2>9
      DEF EndsOnly, FreesLive, LosesLittle, AtRisk, Kept, Growing, Op, One, Block
  <2>11. EndsWith(p, Return("QueryFailed"), {One("query")})
      BY <2>4, <2>5, <2>9 DEF EndsWith, AtRisk, Return, Op, One, Block
  <2>. QED  BY <2>4, <2>10, <2>11 DEF WellFormed
<1>. QED  BY <1>1, Zenon
-----------------------------------------------------------------------------
(* The programs with loops.                                                *)
HoldAlike(p, a, n) ==
    \A k \in 0..n : HeldAfter(p, k) = HeldAfter(a, k) /\ DeferredAfter(p, k) = DeferredAfter(a, k)

LEMMA SameBeginning ==
    ASSUME NEW p, NEW a, NEW n \in Nat, \A k \in 1..n : p[k] = a[k]
    PROVE  HoldAlike(p, a, n)
<1>. SUFFICES ASSUME NEW k \in 0..n
              PROVE  HeldAfter(p, k) = HeldAfter(a, k) /\ DeferredAfter(p, k) = DeferredAfter(a, k)
    BY DEF HoldAlike
<1>1. \A i \in 1..k : p[i] = a[i] /\ \A l \in (i + 1)..k : p[l] = a[l]
    OBVIOUS
<1>. QED  BY <1>1 DEF HeldAfter, DeferredAfter

CopyOf(n, m) == NamesOf(m) \cup RowsOf(n, m)
Widened(B)   == Simple \cup B

LEMMA CopyNaming ==
    ASSUME NEW n \in Nat, NEW m \in Nat
    PROVE  \A b \in CopyOf(n, m) : b.name \in {"column", "columns", "cell", "row", "rows"}
BY DEF CopyOf, NamesOf, RowsOf, CellsOf, Block, One

OnlyQueryDeferred(a) == DeferredAfter(a, 3) \subseteq HeldAfter(a, 3) \cap {One("query")}

(* A function that gets a result, copies it and clears it hands over the   *)
(* copy B, if the PGresult is all it holds that is not to be freed on the  *)
(* way out.                                                                *)
LEMMA ResultShape ==
    ASSUME NEW p, NEW a, NEW s, NEW c, NEW B, NEW U, IsAroundALoop(p, a, s, c, B, U),
           NEW L, L = Len(s), Len(a) = 3, Len(c) = 2,
           c[1] = Op("free", One("result")), c[2] = Op("return", One("queryResult")),
           \A k \in 1..3 : /\ a[k].do \notin {"return", "panic"}
                          /\ FreesLive(a, k) /\ LosesLittle(a, k),
           AtRisk(a, 3) = {One("result")},
           OnlyQueryDeferred(a),
           \A b \in B : b.name \in {"column", "columns", "cell", "row", "rows"}
    PROVE  WellFormed(p, U) /\ EndsWith(p, Return("queryResult"), B)
<1>1. L \in Nat /\ Len(p) = L + 5
  <2>1. L \in Nat /\ Len(p) = 3 + L + 2
      BY Zenon DEF IsAroundALoop
  <2>. QED  BY <2>1
<1>2. p[L + 4] = Op("free", One("result")) /\ p[L + 5] = Op("return", One("queryResult"))
  <2>1. \A k \in 1..2 : p[3 + L + k] = c[k]
      BY Zenon DEF IsAroundALoop
  <2>2. 3 + L + 1 = L + 4 /\ 3 + L + 2 = L + 5 /\ 1 \in 1..2 /\ 2 \in 1..2
      BY <1>1
  <2>. QED  BY <2>1, <2>2
<1>3. (\A k \in 1..3 : p[k] = a[k]) /\ HoldAlike(p, a, 3)
  <2>1. \A k \in 1..3 : p[k] = a[k]
      BY Zenon DEF IsAroundALoop
  <2>2. 3 \in Nat
      OBVIOUS
  <2>. QED  BY <2>1, <2>2, SameBeginning, Zenon
<1>4. HeldAfter(p, 3) = HeldAfter(a, 3) /\ DeferredAfter(p, 3) = DeferredAfter(a, 3)
    BY <1>3 DEF HoldAlike
<1>5. ASSUME NEW k \in 4..(L + 3)
       PROVE  /\ p[k] \in Copies(B)
              /\ HeldAfter(a, 3) \subseteq HeldAfter(p, k - 1)
              /\ HeldAfter(p, k - 1) \subseteq HeldAfter(a, 3) \cup B
              /\ DeferredAfter(p, k - 1) = DeferredAfter(a, 3)
  <2>1. \A i \in (3 + 1)..(3 + L) :
            /\ p[i] \in Copies(B)
            /\ HeldAfter(p, 3) \subseteq HeldAfter(p, i - 1)
            /\ HeldAfter(p, i - 1) \subseteq HeldAfter(p, 3) \cup B
            /\ DeferredAfter(p, i - 1) = DeferredAfter(p, 3)
      BY Zenon DEF IsAroundALoop
  <2>2. k \in (3 + 1)..(3 + L)
      BY <1>1
  <2>. QED  BY <1>4, <2>1, <2>2, Zenon
<1>6. HeldAfter(p, L + 3) = HeldAfter(a, 3) \cup B /\ DeferredAfter(p, L + 3) = DeferredAfter(a, 3)
  <2>1. /\ HeldAfter(p, 3 + L) = HeldAfter(p, 3) \cup B
        /\ DeferredAfter(p, 3 + L) = DeferredAfter(p, 3)
      BY Zenon DEF IsAroundALoop
  <2>2. 3 + L = L + 3
      BY <1>1
  <2>. QED  BY <1>4, <2>1, <2>2
<1>7. /\ HeldAfter(p, L + 4) = (HeldAfter(a, 3) \cup B) \ {One("result")}
       /\ DeferredAfter(p, L + 4) = DeferredAfter(a, 3)
  <2>. PICK k : k = L + 3
      OBVIOUS
  <2>1. k \in Nat /\ k + 1 = L + 4
      BY <1>1
  <2>2. p[k + 1].do = "free" /\ p[k + 1].block = One("result")
    <3>1. p[k + 1] = Op("free", One("result"))
        BY <1>2, <2>1
    <3>. QED  BY <3>1 DEF Op
  <2>3. HeldAfter(p, k + 1) = HeldAfter(p, k) \ {p[k + 1].block}
      BY <2>1, <2>2, HeldNext
  <2>4. DeferredAfter(p, k + 1) = DeferredAfter(p, k)
      BY <2>1, <2>2, DeferredNext
  <2>. QED  BY <1>6, <2>1, <2>2, <2>3, <2>4
<1>8. /\ One("result") \in HeldAfter(a, 3)
      /\ HeldAfter(a, 3) \ DeferredAfter(a, 3) = {One("result")}
      /\ DeferredAfter(a, 3) \subseteq HeldAfter(a, 3) \cap {One("query")}
       /\ One("result") \notin B /\ One("query") \notin B /\ One("result") # One("query")
       /\ \A b \in B \cup {One("result")} : b.name \notin Kept
  <2>1. \A b \in B : b.name \in {"column", "columns", "cell", "row", "rows"}
      OBVIOUS
  <2>2. One("result").name = "result" /\ One("query").name = "query"
      BY DEF One, Block
  <2>. QED  BY <2>1, <2>2 DEF Kept, AtRisk, OnlyQueryDeferred
<1>9. ASSUME NEW k \in 1..3
       PROVE  EndsOnly(p, k) /\ FreesLive(p, k) /\ LosesLittle(p, k)
  <2>1. p[k] = a[k] /\ k # Len(p)
      BY <1>1, <1>3
  <2>2. /\ HeldAfter(p, k - 1) = HeldAfter(a, k - 1)
        /\ DeferredAfter(p, k - 1) = DeferredAfter(a, k - 1)
      BY <1>3 DEF HoldAlike
  <2>. QED  BY <2>1, <2>2 DEF EndsOnly, FreesLive, LosesLittle, AtRisk
<1>10. ASSUME NEW k \in 4..(L + 3)
       PROVE  EndsOnly(p, k) /\ FreesLive(p, k) /\ LosesLittle(p, k)
  <2>1. k # Len(p) /\ p[k].do \in {"try", "must"}
      BY <1>1, <1>5 DEF Copies
  <2>2. AtRisk(p, k - 1) \subseteq B \cup {One("result")}
      BY <1>5, <1>8 DEF AtRisk
  <2>3. DeferredAfter(p, k - 1) \subseteq HeldAfter(p, k - 1)
      BY <1>5, <1>8
  <2>. QED  BY <1>8, <2>1, <2>2, <2>3 DEF EndsOnly, FreesLive, LosesLittle
<1>11. ASSUME NEW k \in {L + 4, L + 5}
       PROVE  EndsOnly(p, k) /\ FreesLive(p, k) /\ LosesLittle(p, k)
  <2>1. CASE k = L + 4
    <3>1. k # Len(p) /\ k - 1 = L + 3 /\ p[k].do = "free" /\ p[k].block = One("result")
        BY <1>1, <1>2, <2>1 DEF Op
    <3>. QED  BY <1>6, <1>8, <3>1 DEF EndsOnly, FreesLive, LosesLittle
  <2>2. CASE k = L + 5
    <3>1. k = Len(p) /\ k - 1 = L + 4 /\ p[k].do = "return"
        BY <1>1, <1>2, <2>2 DEF Op
    <3>2. DeferredAfter(p, L + 4) \subseteq HeldAfter(p, L + 4)
        BY <1>7, <1>8
    <3>. QED  BY <3>1, <3>2 DEF EndsOnly, FreesLive, LosesLittle
  <2>. QED  BY <2>1, <2>2
<1>12. WellFormed(p, U)
  <2>1. \A k \in 1..Len(p) : k \in 1..3 \/ k \in 4..(L + 3) \/ k \in {L + 4, L + 5}
      BY <1>1
  <2>2. Len(p) # 0
      BY <1>1
  <2>3. p \in Seq(Operations(U))
      BY Zenon DEF IsAroundALoop
  <2>. QED  BY <1>9, <1>10, <1>11, <2>1, <2>2, <2>3, Zenon DEF WellFormed
<1>13. EndsWith(p, Return("queryResult"), B)
  <2>1. Len(p) - 1 = L + 4 /\ p[Len(p)] = Return("queryResult")
      BY <1>1, <1>2 DEF Return, Op
  <2>2. ((HeldAfter(a, 3) \cup B) \ {One("result")}) \ DeferredAfter(a, 3) = B
      BY <1>8
  <2>. QED  BY <1>7, <2>1, <2>2 DEF EndsWith, AtRisk
<1>. QED  BY <1>12, <1>13

CopyLoop(n, m) == copyNames(m) \o copyRows(n, m)
CopyEnd        == <<Op("free", One("result")), Op("return", One("queryResult"))>>

LEMMA AroundTheCopy ==
    ASSUME NEW n \in Nat, NEW m \in Nat, NEW a \in Seq(Operations(Simple))
    PROVE  IsAroundALoop(a \o getResult(n, m), a, CopyLoop(n, m), CopyEnd, CopyOf(n, m),
                         Widened(CopyOf(n, m)))
<1>. PICK B : B = CopyOf(n, m)
    OBVIOUS
<1>. PICK U : U = Widened(B)
    OBVIOUS
<1>1. Grows(CopyLoop(n, m), B)
    BY CopyResult DEF CopyOf, CopyLoop
<1>2. a \in Seq(Operations(U)) /\ CopyEnd \in Seq(Operations(U)) /\ B \subseteq U
  <2>1. Operations(Simple) \subseteq Operations(U) /\ B \subseteq U
      BY DEF Operations, Widened
  <2>2. CopyEnd \in Seq(Operations(Simple))
      BY SimpleOps DEF CopyEnd, Dos, Results, Holders
  <2>. QED  BY <2>1, <2>2, SeqMonotonic, Zenon
<1>3. a \o getResult(n, m) = a \o (CopyLoop(n, m) \o CopyEnd)
  <2>1. CopyEnd = <<Free(One("result")), Return("queryResult")>>
      BY DEF CopyEnd, Free, Return, Op
  <2>. QED  BY <2>1 DEF getResult, CopyLoop
<1>4. IsAroundALoop(a \o getResult(n, m), a, CopyLoop(n, m), CopyEnd, B, U)
    BY <1>1, <1>2, <1>3, AroundALoop, Zenon
<1>. QED  BY <1>4

LEMMA ResultRun ==
    ASSUME NEW n \in Nat, NEW m \in Nat, NEW a \in Seq(Operations(Simple)), Len(a) = 3,
           \A k \in 1..3 : /\ a[k].do \notin {"return", "panic"}
                          /\ FreesLive(a, k) /\ LosesLittle(a, k),
           AtRisk(a, 3) = {One("result")},
           OnlyQueryDeferred(a)
    PROVE  /\ WellFormed(a \o getResult(n, m), Widened(CopyOf(n, m)))
           /\ EndsWith(a \o getResult(n, m), Return("queryResult"), CopyOf(n, m))
<1>1. IsAroundALoop(a \o getResult(n, m), a, CopyLoop(n, m), CopyEnd, CopyOf(n, m),
                    Widened(CopyOf(n, m)))
    BY AroundTheCopy, Zenon
<1>2. /\ Len(CopyEnd) = 2 /\ CopyEnd[1] = Op("free", One("result"))
      /\ CopyEnd[2] = Op("return", One("queryResult"))
    BY DEF CopyEnd
<1>3. \A b \in CopyOf(n, m) : b.name \in {"column", "columns", "cell", "row", "rows"}
    BY CopyNaming, Zenon
<1>. QED  BY <1>1, <1>2, <1>3, ResultShape, Zenon

(* select and selectJoin hand over the copy.                               *)
LEMMA SelectOk ==
    ASSUME NEW n \in Nat, NEW m \in Nat
    PROVE  /\ WellFormed(select("ok", n, m), Widened(CopyOf(n, m)))
           /\ EndsWith(select("ok", n, m), Return("queryResult"), CopyOf(n, m))
<1>. PICK a : a = <<Op("try", One("query")), Op("defer", One("query")), Op("get", One("result"))>>
    OBVIOUS
<1>1. a = <<Try(One("query")), Defer("query"), Get("result")>>
    BY DEF Try, Defer, Get
<1>2. select("ok", n, m) = a \o getResult(n, m)
    BY <1>1 DEF select
<1>3. a \in Seq(Operations(Simple)) /\ Len(a) = 3
    BY SimpleOps DEF Dos, Results, Holders
<1>4. /\ a[1] = Op("try", One("query")) /\ a[2] = Op("defer", One("query"))
      /\ a[3] = Op("get", One("result"))
    OBVIOUS
<1>5. HeldAfter(a, 0) = {} /\ DeferredAfter(a, 0) = {}
    BY HeldAtFirst
<1>6. /\ AtRisk(a, 3) = {One("result")} /\ DeferredAfter(a, 3) = {One("query")}
      /\ One("query") \in HeldAfter(a, 3) /\ DeferredAfter(a, 1) = {}
    BY <1>4 DEF AtRisk, HeldAfter, DeferredAfter, Allocates, Frees, Op, One, Block
<1>7. ASSUME NEW k \in 1..3
      PROVE  a[k].do \notin {"return", "panic"} /\ FreesLive(a, k) /\ LosesLittle(a, k)
    BY <1>4, <1>5, <1>6 DEF FreesLive, LosesLittle, AtRisk, Op
<1>8. OnlyQueryDeferred(a)
    BY <1>6 DEF OnlyQueryDeferred
<1>9. AtRisk(a, 3) = {One("result")}
    BY <1>6
<1>. QED  BY <1>2, <1>3, <1>7, <1>8, <1>9, ResultRun, Zenon

LEMMA SelectJoinOk ==
    ASSUME NEW n \in Nat, NEW m \in Nat
    PROVE  /\ WellFormed(selectJoin("ok", n, m), Widened(CopyOf(n, m)))
           /\ EndsWith(selectJoin("ok", n, m), Return("queryResult"), CopyOf(n, m))
<1>. PICK a : a = <<Op("try", One("query")), Op("get", One("result")), Op("free", One("query"))>>
    OBVIOUS
<1>1. a = <<Try(One("query")), Get("result"), Free(One("query"))>>
    BY DEF Try, Free, Get
<1>2. selectJoin("ok", n, m) = a \o getResult(n, m)
    BY <1>1 DEF selectJoin
<1>3. a \in Seq(Operations(Simple)) /\ Len(a) = 3
    BY SimpleOps DEF Dos, Results, Holders
<1>4. /\ a[1] = Op("try", One("query")) /\ a[2] = Op("get", One("result"))
      /\ a[3] = Op("free", One("query"))
    OBVIOUS
<1>5. HeldAfter(a, 0) = {} /\ DeferredAfter(a, 0) = {}
    BY HeldAtFirst
<1>6. HeldAfter(a, 2) = {One("query"), One("result")} /\ DeferredAfter(a, 2) = {}
    BY <1>4 DEF HeldAfter, DeferredAfter, Allocates, Frees, Op, One, Block
<1>7. AtRisk(a, 3) = {One("result")} /\ DeferredAfter(a, 3) = {}
    BY <1>4 DEF AtRisk, HeldAfter, DeferredAfter, Allocates, Frees, Op, One, Block
<1>8. ASSUME NEW k \in 1..3
      PROVE  a[k].do \notin {"return", "panic"} /\ FreesLive(a, k) /\ LosesLittle(a, k)
    BY <1>4, <1>5, <1>6 DEF FreesLive, LosesLittle, AtRisk, Op
<1>9. OnlyQueryDeferred(a)
    BY <1>7 DEF OnlyQueryDeferred
<1>. QED  BY <1>2, <1>3, <1>7, <1>8, <1>9, ResultRun, Zenon

(* QParams hands over the joined list, and loses what it formatted.        *)
FormattedOf(n, m) ==
    {Block("text", i, 0) : i \in 1..(n + m)} \cup {Block("safe_value", i, 0) : i \in 1..n}
ParametersOf(n, m) == StringsOf(n) \cup NumbersOf(n, m)
TupleLoop(n, m)  == formatStrings(n) \o formatNumbers(n, m)
TupleStart       == <<Op("defer", One("paramString"))>>
TupleEnd         == <<Op("try", One("joined")), Op("return", One("QueryParams"))>>

LEMMA TupleNaming ==
    ASSUME NEW n \in Nat, NEW m \in Nat
    PROVE  /\ \A b \in ParametersOf(n, m) :
                 b = One("paramString") \/ b.name \in {"safe_value", "text"}
           /\ ParametersOf(n, m) \ {One("paramString")} = FormattedOf(n, m)
<1>1. \A b \in ParametersOf(n, m) : b = One("paramString") \/ b.name \in {"safe_value", "text"}
    BY DEF ParametersOf, StringsOf, NumbersOf, Block
<1>2. \A b \in FormattedOf(n, m) : b # One("paramString")
    BY DEF FormattedOf, Block, One
<1>3. ASSUME NEW b \in ParametersOf(n, m), b # One("paramString") PROVE b \in FormattedOf(n, m)
  <2>1. CASE \E i \in 1..n : b = Block("safe_value", i, 0) \/ b = Block("text", i, 0)
    <3>1. 1..n \subseteq 1..(n + m)
        OBVIOUS
    <3>. QED  BY <2>1, <3>1 DEF FormattedOf
  <2>2. CASE \E i \in 1..m : b = Block("text", n + i, 0)
    <3>1. \A i \in 1..m : n + i \in 1..(n + m)
        OBVIOUS
    <3>. QED  BY <2>2, <3>1 DEF FormattedOf
  <2>. QED  BY <1>3, <2>1, <2>2 DEF ParametersOf, StringsOf, NumbersOf
<1>4. ASSUME NEW b \in FormattedOf(n, m) PROVE b \in ParametersOf(n, m)
  <2>1. CASE \E i \in 1..n : b = Block("safe_value", i, 0)
      BY <2>1 DEF ParametersOf, StringsOf
  <2>2. CASE \E i \in 1..(n + m) : b = Block("text", i, 0)
    <3>1. PICK i \in 1..(n + m) : b = Block("text", i, 0)
        BY <2>2
    <3>2. CASE i \in 1..n
        BY <3>1, <3>2 DEF ParametersOf, StringsOf
    <3>3. CASE i \notin 1..n
      <4>1. i - n \in 1..m /\ n + (i - n) = i
          BY <3>3
      <4>. QED  BY <3>1, <4>1 DEF ParametersOf, NumbersOf
    <3>. QED  BY <3>2, <3>3
  <2>. QED  BY <2>1, <2>2 DEF FormattedOf
<1>. QED  BY <1>1, <1>2, <1>3, <1>4

Associates(s, t, u) == (s \o t) \o u = s \o (t \o u)

LEMMA Associativity ==
    ASSUME NEW C, NEW s \in Seq(C), NEW t \in Seq(C), NEW u \in Seq(C)
    PROVE  Associates(s, t, u) /\ s \o t \in Seq(C)
BY ConcatAssociative DEF Associates

LEMMA AroundTheTuple ==
    ASSUME NEW n \in Nat, NEW m \in Nat
    PROVE  IsAroundALoop(QParams(n, m), TupleStart, TupleLoop(n, m), TupleEnd, ParametersOf(n, m),
                         Widened(ParametersOf(n, m)))
<1>. PICK B : B = ParametersOf(n, m)
    OBVIOUS
<1>. PICK U : U = Widened(B)
    OBVIOUS
<1>1. Grows(TupleLoop(n, m), B)
    BY FormatStrings, FormatNumbers, LongerGrows, Zenon DEF ParametersOf, TupleLoop
<1>2. TupleStart \in Seq(Operations(U)) /\ TupleEnd \in Seq(Operations(U)) /\ B \subseteq U
  <2>1. Operations(Simple) \subseteq Operations(U) /\ B \subseteq U
      BY DEF Operations, Widened
  <2>2. TupleStart \in Seq(Operations(Simple)) /\ TupleEnd \in Seq(Operations(Simple))
      BY SimpleOps DEF TupleStart, TupleEnd, Dos, Results, Holders
  <2>. QED  BY <2>1, <2>2, SeqMonotonic, Zenon
<1>3. QParams(n, m) = TupleStart \o (TupleLoop(n, m) \o TupleEnd)
  <2>. PICK a : a = TupleStart
      OBVIOUS
  <2>. PICK s : s = formatStrings(n)
      OBVIOUS
  <2>. PICK t : t = formatNumbers(n, m)
      OBVIOUS
  <2>. PICK c : c = TupleEnd
      OBVIOUS
  <2>. PICK C : C = Operations(U)
      OBVIOUS
  <2>1. a = <<Defer("paramString")>> /\ c = <<Try(One("joined")), Return("QueryParams")>>
      BY DEF TupleStart, TupleEnd, Defer, Try, Return, Op
  <2>2. QParams(n, m) = ((a \o s) \o t) \o c
      BY <2>1 DEF QParams
  <2>3. StringsOf(n) \subseteq U /\ NumbersOf(n, m) \subseteq U
      BY DEF Widened, ParametersOf
  <2>4. Copies(StringsOf(n)) \subseteq C /\ Copies(NumbersOf(n, m)) \subseteq C
      BY <2>3 DEF Copies, Operations, Dos
  <2>5. a \in Seq(C) /\ c \in Seq(C)
      BY <1>2
  <2>6. s \in Seq(C) /\ t \in Seq(C)
      BY <2>4, FormatStrings, FormatNumbers, SeqMonotonic, Zenon DEF Grows
  <2>7. Associates(a, s, t) /\ s \o t \in Seq(C)
      BY <2>5, <2>6, Associativity, Zenon
  <2>8. Associates(a, s \o t, c)
      BY <2>5, <2>7, Associativity, Zenon
  <2>. QED  BY <2>2, <2>7, <2>8, Zenon DEF TupleLoop, Associates
<1>4. IsAroundALoop(QParams(n, m), TupleStart, TupleLoop(n, m), TupleEnd, B, U)
    BY <1>1, <1>2, <1>3, AroundALoop, Zenon
<1>. QED  BY <1>4

LEMMA TupleShape ==
    ASSUME NEW p, NEW a, NEW s, NEW c, NEW B, NEW U, IsAroundALoop(p, a, s, c, B, U),
           NEW L, L = Len(s), Len(a) = 1, Len(c) = 2, a[1] = Op("defer", One("paramString")),
           c[1] = Op("try", One("joined")), c[2] = Op("return", One("QueryParams")),
           \A b \in B : b = One("paramString") \/ b.name \in {"safe_value", "text"}
    PROVE  /\ WellFormed(p, U)
           /\ EndsWith(p, Return("QueryParams"), {One("joined")} \cup (B \ {One("paramString")}))
<1>1. L \in Nat /\ Len(p) = L + 3
  <2>1. L \in Nat /\ Len(p) = 1 + L + 2
      BY Zenon DEF IsAroundALoop
  <2>. QED  BY <2>1
<1>2. p[L + 2] = Op("try", One("joined")) /\ p[L + 3] = Op("return", One("QueryParams"))
  <2>1. \A k \in 1..2 : p[1 + L + k] = c[k]
      BY Zenon DEF IsAroundALoop
  <2>2. 1 + L + 1 = L + 2 /\ 1 + L + 2 = L + 3 /\ 1 \in 1..2 /\ 2 \in 1..2
      BY <1>1
  <2>. QED  BY <2>1, <2>2
<1>3. p[1] = Op("defer", One("paramString"))
  <2>1. \A k \in 1..1 : p[k] = a[k]
      BY Zenon DEF IsAroundALoop
  <2>. QED  BY <2>1
<1>4. HeldAfter(p, 1) = {} /\ DeferredAfter(p, 1) = {One("paramString")}
    BY <1>3 DEF HeldAfter, DeferredAfter, Allocates, Op
<1>5. ASSUME NEW k \in 2..(L + 1)
      PROVE  /\ p[k] \in Copies(B)
             /\ HeldAfter(p, k - 1) \subseteq B /\ DeferredAfter(p, k - 1) = {One("paramString")}
  <2>1. \A i \in (1 + 1)..(1 + L) :
            /\ p[i] \in Copies(B)
            /\ HeldAfter(p, i - 1) \subseteq HeldAfter(p, 1) \cup B
            /\ DeferredAfter(p, i - 1) = DeferredAfter(p, 1)
      BY Zenon DEF IsAroundALoop
  <2>2. k \in (1 + 1)..(1 + L)
      BY <1>1
  <2>3. /\ p[k] \in Copies(B)
        /\ HeldAfter(p, k - 1) \subseteq HeldAfter(p, 1) \cup B
        /\ DeferredAfter(p, k - 1) = DeferredAfter(p, 1)
      BY <2>1, <2>2, Zenon
  <2>. QED  BY <1>4, <2>3
<1>6. HeldAfter(p, L + 1) = B /\ DeferredAfter(p, L + 1) = {One("paramString")}
  <2>1. /\ HeldAfter(p, 1 + L) = HeldAfter(p, 1) \cup B
        /\ DeferredAfter(p, 1 + L) = DeferredAfter(p, 1)
      BY Zenon DEF IsAroundALoop
  <2>2. 1 + L = L + 1
      BY <1>1
  <2>. QED  BY <1>4, <2>1, <2>2
<1>7. HeldAfter(p, L + 2) = B \cup {One("joined")} /\ DeferredAfter(p, L + 2) = {One("paramString")}
  <2>. PICK k : k = L + 1
      OBVIOUS
  <2>1. k \in Nat /\ k + 1 = L + 2
      BY <1>1
  <2>2. p[k + 1].do = "try" /\ p[k + 1].block = One("joined")
    <3>1. p[k + 1] = Op("try", One("joined"))
        BY <1>2, <2>1
    <3>. QED  BY <3>1 DEF Op
  <2>3. HeldAfter(p, k + 1) = HeldAfter(p, k) \cup {p[k + 1].block}
    <3>1. Allocates(p[k + 1])
        BY <2>2 DEF Allocates
    <3>. QED  BY <2>1, <3>1, HeldNext
  <2>4. DeferredAfter(p, k + 1) = DeferredAfter(p, k)
      BY <2>1, <2>2, DeferredNext
  <2>. QED  BY <1>6, <2>1, <2>2, <2>3, <2>4
<1>8. \A b \in B \ {One("paramString")} : b.name \notin Kept
    BY DEF Kept
<1>9. EndsOnly(p, 1) /\ FreesLive(p, 1) /\ LosesLittle(p, 1)
  <2>1. 1 # Len(p) /\ p[1].do = "defer" /\ DeferredAfter(p, 1 - 1) = {}
      BY <1>1, <1>3, HeldAtFirst DEF Op
  <2>. QED  BY <2>1 DEF EndsOnly, FreesLive, LosesLittle
<1>10. ASSUME NEW k \in 2..(L + 1)
       PROVE  EndsOnly(p, k) /\ FreesLive(p, k) /\ LosesLittle(p, k)
  <2>1. k # Len(p) /\ p[k].do \in {"try", "must"}
      BY <1>1, <1>5 DEF Copies
  <2>2. AtRisk(p, k - 1) \subseteq B \ {One("paramString")}
      BY <1>5 DEF AtRisk
  <2>3. \A b \in DeferredAfter(p, k - 1) : b.name \in Growing
      BY <1>5 DEF One, Block, Growing
  <2>. QED  BY <1>8, <2>1, <2>2, <2>3 DEF EndsOnly, FreesLive, LosesLittle
<1>11. ASSUME NEW k \in {L + 2, L + 3}
       PROVE  EndsOnly(p, k) /\ FreesLive(p, k) /\ LosesLittle(p, k)
  <2>1. CASE k = L + 2
    <3>1. k # Len(p) /\ k - 1 = L + 1 /\ p[k].do = "try"
        BY <1>1, <1>2, <2>1 DEF Op
    <3>2. AtRisk(p, L + 1) = B \ {One("paramString")}
        BY <1>6 DEF AtRisk
    <3>3. \A b \in DeferredAfter(p, L + 1) : b.name \in Growing
        BY <1>6 DEF One, Block, Growing
    <3>. QED  BY <1>8, <3>1, <3>2, <3>3 DEF EndsOnly, FreesLive, LosesLittle
  <2>2. CASE k = L + 3
    <3>1. k = Len(p) /\ k - 1 = L + 2 /\ p[k].do = "return"
        BY <1>1, <1>2, <2>2 DEF Op
    <3>2. \A b \in DeferredAfter(p, L + 2) : b.name \in Growing
        BY <1>7 DEF One, Block, Growing
    <3>. QED  BY <3>1, <3>2 DEF EndsOnly, FreesLive, LosesLittle
  <2>. QED  BY <2>1, <2>2
<1>12. WellFormed(p, U)
  <2>1. \A k \in 1..Len(p) : k = 1 \/ k \in 2..(L + 1) \/ k \in {L + 2, L + 3}
      BY <1>1
  <2>2. Len(p) # 0
      BY <1>1
  <2>3. p \in Seq(Operations(U))
      BY Zenon DEF IsAroundALoop
  <2>. QED  BY <1>9, <1>10, <1>11, <2>1, <2>2, <2>3, Zenon DEF WellFormed
<1>13. EndsWith(p, Return("QueryParams"), {One("joined")} \cup (B \ {One("paramString")}))
  <2>1. Len(p) - 1 = L + 2 /\ p[Len(p)] = Return("QueryParams")
      BY <1>1, <1>2 DEF Return, Op
  <2>2. One("joined") # One("paramString")
      BY DEF One, Block
  <2>. QED  BY <1>7, <2>1, <2>2 DEF EndsWith, AtRisk
<1>. QED  BY <1>12, <1>13

LEMMA QParamsOk ==
    ASSUME NEW n \in Nat, NEW m \in Nat
    PROVE  /\ WellFormed(QParams(n, m), Widened(ParametersOf(n, m)))
           /\ EndsWith(QParams(n, m), Return("QueryParams"), {One("joined")} \cup FormattedOf(n, m))
<1>1. /\ Len(TupleStart) = 1 /\ TupleStart[1] = Op("defer", One("paramString"))
      /\ Len(TupleEnd) = 2 /\ TupleEnd[1] = Op("try", One("joined"))
      /\ TupleEnd[2] = Op("return", One("QueryParams"))
    BY DEF TupleStart, TupleEnd
<1>2. IsAroundALoop(QParams(n, m), TupleStart, TupleLoop(n, m), TupleEnd, ParametersOf(n, m),
                    Widened(ParametersOf(n, m)))
    BY AroundTheTuple, Zenon
<1>3. \A b \in ParametersOf(n, m) : b = One("paramString") \/ b.name \in {"safe_value", "text"}
    BY TupleNaming
<1>4. /\ WellFormed(QParams(n, m), Widened(ParametersOf(n, m)))
      /\ EndsWith(QParams(n, m), Return("QueryParams"),
                  {One("joined")} \cup (ParametersOf(n, m) \ {One("paramString")}))
    BY <1>1, <1>2, <1>3, TupleShape, Zenon
<1>. QED  BY <1>4, TupleNaming
-----------------------------------------------------------------------------
(* Every program, and what is left at its end.                             *)
GivesBack(j, v, left) ==
    \/ v = "psql" /\ j.op = "init" /\ left = {One("PGconn")}
    \/ v = "ConnectionFailed" /\ left = {One("connection")}
    \/ v \in {"ok", "SelectJoinFailed", "InsertionFailed"} /\ left = {}
    \/ v = "QueryFailed" /\ left = IF j.op = "createTableFor" THEN {One("query")} ELSE {}
    \/ v = "PrimaryKeyDuplicate" /\ left = {One("result")}
    \/ v = "queryResult" /\ j.op \in {"select", "selectJoin"} /\ left = CopyOf(j.n, j.m)
    \/ v = "QueryParams" /\ j.op = "QParams" /\ left = {One("joined")} \cup FormattedOf(j.n, j.m)

TypedFor(j, U) == \A b \in U : b.i \in 0..(j.n + j.m) /\ b.j \in 0..MaxCols

IsProgram(p, j, U, op, left) ==
    /\ TypedFor(j, U) /\ WellFormed(p, U) /\ EndsWith(p, op, left)
    /\ op = Panic \/ \E v \in Results : op = Return(v) /\ GivesBack(j, v, left)

LEMMA BlocksAreTyped ==
    ASSUME NEW j, j.n \in Nat, j.m \in 0..MaxCols
    PROVE  TypedFor(j, Simple) /\ TypedFor(j, Widened(CopyOf(j.n, j.m)))
<1>1. MaxCols \in Nat /\ 0 \in 0..(j.n + j.m) /\ 0 \in 0..MaxCols
    BY MemoryAssumption
<1>2. \A i \in 1..j.n : i \in 0..(j.n + j.m)
    OBVIOUS
<1>3. \A i \in 1..j.m : i \in 0..(j.n + j.m) /\ i \in 0..MaxCols
    BY <1>1
<1>4. TypedFor(j, Simple)
    BY <1>1 DEF TypedFor, Simple, One, Block
<1>5. TypedFor(j, NamesOf(j.m))
    BY <1>1, <1>3 DEF TypedFor, NamesOf, One, Block
<1>6. TypedFor(j, RowsOf(j.n, j.m))
    BY <1>1, <1>2, <1>3 DEF TypedFor, RowsOf, CellsOf, One, Block
<1>. QED  BY <1>4, <1>5, <1>6 DEF TypedFor, Widened, CopyOf

LEMMA TupleIsTyped ==
    ASSUME NEW j, j.n \in Nat, j.m \in Nat
    PROVE  TypedFor(j, Widened(ParametersOf(j.n, j.m)))
<1>1. MaxCols \in Nat /\ 0 \in 0..(j.n + j.m) /\ 0 \in 0..MaxCols
    BY MemoryAssumption
<1>2. \A i \in 1..j.n : i \in 0..(j.n + j.m)
    OBVIOUS
<1>3. \A i \in 1..j.m : j.n + i \in 0..(j.n + j.m)
    OBVIOUS
<1>4. TypedFor(j, Simple)
    BY <1>1 DEF TypedFor, Simple, One, Block
<1>5. TypedFor(j, StringsOf(j.n))
    BY <1>1, <1>2 DEF TypedFor, StringsOf, One, Block
<1>6. TypedFor(j, NumbersOf(j.n, j.m))
    BY <1>1, <1>3 DEF TypedFor, NumbersOf, One, Block
<1>. QED  BY <1>4, <1>5, <1>6 DEF TypedFor, Widened, ParametersOf

LEMMA Programs ==
    ASSUME NEW j \in Jobs
    PROVE  \E U, op, left : IsProgram(Program(j), j, U, op, left)
<1>1. j.n \in Nat /\ j.m \in Nat
    BY MemoryAssumption DEF Jobs
<1>2. ASSUME j.m \in 0..MaxCols PROVE TypedFor(j, Simple) /\ TypedFor(j, Widened(CopyOf(j.n, j.m)))
    BY <1>1, <1>2, BlocksAreTyped, Zenon
<1>. USE DEF IsProgram, GivesBack, Results
<1>3. CASE j.op = "init"
  <2>1. j.m \in 0..MaxCols /\ j.answer \in {"ok", "error"} /\ Program(j) = init(j.answer)
      BY <1>3, MemoryAssumption DEF Jobs, Program
  <2>2. CASE j.answer = "ok"
    <3>1. IsProgram(Program(j), j, Simple, Return("psql"), {One("PGconn")})
        BY <1>1, <1>2, <1>3, <2>1, <2>2, InitOk
    <3>. QED  BY <3>1, Zenon
  <2>3. CASE j.answer = "error"
    <3>1. IsProgram(Program(j), j, Simple, Return("ConnectionFailed"), {One("connection")})
        BY <1>1, <1>2, <1>3, <2>1, <2>3, InitFails
    <3>. QED  BY <3>1, Zenon
  <2>. QED  BY <2>1, <2>2, <2>3
<1>4. CASE j.op = "execQuery"
  <2>1. j.m \in 0..MaxCols /\ j.answer \in {"ok", "error"} /\ Program(j) = execQuery(j.answer)
      BY <1>4, MemoryAssumption DEF Jobs, Program
  <2>2. CASE j.answer = "ok"
    <3>1. IsProgram(Program(j), j, Simple, Return("ok"), {})
        BY <1>1, <1>2, <1>4, <2>1, <2>2, ExecOk
    <3>. QED  BY <3>1, Zenon
  <2>3. CASE j.answer = "error"
    <3>1. IsProgram(Program(j), j, Simple, Return("QueryFailed"), {})
        BY <1>1, <1>2, <1>4, <2>1, <2>3, ExecFails
    <3>. QED  BY <3>1, Zenon
  <2>. QED  BY <2>1, <2>2, <2>3
<1>5. CASE j.op = "createTableFor"
  <2>1. j.m \in 0..MaxCols /\ j.answer \in {"ok", "error"} /\ Program(j) = createTableFor(j.answer)
      BY <1>5, MemoryAssumption DEF Jobs, Program
  <2>2. CASE j.answer = "ok"
    <3>1. IsProgram(Program(j), j, Simple, Return("ok"), {})
        BY <1>1, <1>2, <1>5, <2>1, <2>2, CreateOk
    <3>. QED  BY <3>1, Zenon
  <2>3. CASE j.answer = "error"
    <3>1. IsProgram(Program(j), j, Simple, Return("QueryFailed"), {One("query")})
        BY <1>1, <1>2, <1>5, <2>1, <2>3, CreateFails
    <3>. QED  BY <3>1, Zenon
  <2>. QED  BY <2>1, <2>2, <2>3
<1>6. CASE j.op = "insert"
  <2>1. /\ j.m \in 0..MaxCols /\ j.answer \in {"ok", "duplicate", "error", "lost"}
        /\ Program(j) = insert(j.answer)
      BY <1>6, MemoryAssumption DEF Jobs, Program
  <2>2. CASE j.answer = "ok"
    <3>1. IsProgram(Program(j), j, Simple, Return("ok"), {})
        BY <1>1, <1>2, <1>6, <2>1, <2>2, InsertOk
    <3>. QED  BY <3>1, Zenon
  <2>3. CASE j.answer = "duplicate"
    <3>1. IsProgram(Program(j), j, Simple, Return("PrimaryKeyDuplicate"), {One("result")})
        BY <1>1, <1>2, <1>6, <2>1, <2>3, InsertDuplicate
    <3>. QED  BY <3>1, Zenon
  <2>4. CASE j.answer = "error"
    <3>1. IsProgram(Program(j), j, Simple, Return("InsertionFailed"), {})
        BY <1>1, <1>2, <1>6, <2>1, <2>4, InsertFails
    <3>. QED  BY <3>1, Zenon
  <2>5. CASE j.answer = "lost"
    <3>1. IsProgram(Program(j), j, Simple, Panic, {One("result")})
        BY <1>1, <1>2, <1>6, <2>1, <2>5, InsertLost
    <3>. QED  BY <3>1, Zenon
  <2>. QED  BY <2>1, <2>2, <2>3, <2>4, <2>5
<1>7. CASE j.op = "select"
  <2>1. /\ j.m \in 0..MaxCols /\ j.answer \in {"ok", "error"}
        /\ Program(j) = select(j.answer, j.n, j.m)
      BY <1>7, MemoryAssumption DEF Jobs, Program
  <2>2. CASE j.answer = "ok"
    <3>1. IsProgram(Program(j), j, Widened(CopyOf(j.n, j.m)), Return("queryResult"),
                    CopyOf(j.n, j.m))
        BY <1>1, <1>2, <1>7, <2>1, <2>2, SelectOk
    <3>. QED  BY <3>1, Zenon
  <2>3. CASE j.answer = "error"
    <3>1. IsProgram(Program(j), j, Simple, Return("QueryFailed"), {})
        BY <1>1, <1>2, <1>7, <2>1, <2>3, SelectFails
    <3>. QED  BY <3>1, Zenon
  <2>. QED  BY <2>1, <2>2, <2>3
<1>8. CASE j.op = "selectJoin"
  <2>1. /\ j.m \in 0..MaxCols /\ j.answer \in {"ok", "error"}
        /\ Program(j) = selectJoin(j.answer, j.n, j.m)
      BY <1>8, MemoryAssumption DEF Jobs, Program
  <2>2. CASE j.answer = "ok"
    <3>1. IsProgram(Program(j), j, Widened(CopyOf(j.n, j.m)), Return("queryResult"),
                    CopyOf(j.n, j.m))
        BY <1>1, <1>2, <1>8, <2>1, <2>2, SelectJoinOk
    <3>. QED  BY <3>1, Zenon
  <2>3. CASE j.answer = "error"
    <3>1. IsProgram(Program(j), j, Simple, Return("SelectJoinFailed"), {})
        BY <1>1, <1>2, <1>8, <2>1, <2>3, SelectJoinFails
    <3>. QED  BY <3>1, Zenon
  <2>. QED  BY <2>1, <2>2, <2>3
<1>9. CASE j.op = "QParams"
  <2>1. Program(j) = QParams(j.n, j.m)
      BY <1>9 DEF Program
  <2>2. TypedFor(j, Widened(ParametersOf(j.n, j.m)))
      BY <1>1, TupleIsTyped, Zenon
  <2>3. IsProgram(Program(j), j, Widened(ParametersOf(j.n, j.m)), Return("QueryParams"),
                  {One("joined")} \cup FormattedOf(j.n, j.m))
      BY <1>1, <1>9, <2>1, <2>2, QParamsOk
  <2>. QED  BY <2>3, Zenon
<1>. QED  BY <1>3, <1>4, <1>5, <1>6, <1>7, <1>8, <1>9 DEF Jobs
-----------------------------------------------------------------------------
(* Where a call that runs is: after n operations of its program p.         *)
IsAt(p, n) ==
    /\ n \in 0..(Len(p) - 1) /\ Done = n
    /\ steps = SubSeq(p, n + 1, Len(p)) /\ Head(steps) = p[n + 1]
    /\ live = HeldAfter(p, n) /\ deferred = DeferredAfter(p, n)

LEMMA HeadAndTail ==
    ASSUME NEW S, NEW p \in Seq(S), NEW n \in Nat, n < Len(p), NEW s, s = SubSeq(p, n + 1, Len(p))
    PROVE  /\ Head(s) = p[n + 1] /\ Len(s) = Len(p) - n
           /\ Tail(s) = SubSeq(p, n + 2, Len(p)) /\ Len(Tail(s)) = Len(p) - (n + 1)
<1>1. s \in Seq(S) /\ Len(s) = Len(p) - n /\ Len(s) # 0 /\ Len(p) \in Nat
    OBVIOUS
<1>2. \A i \in 1..Len(s) : s[i] = p[n + i]
    OBVIOUS
<1>. PICK t : t = Tail(s)
    OBVIOUS
<1>. PICK u : u = SubSeq(p, n + 2, Len(p))
    OBVIOUS
<1>3. t \in Seq(S) /\ Len(t) = Len(p) - (n + 1) /\ \A i \in 1..Len(t) : t[i] = s[i + 1]
  <2>1. s # <<>>
      BY <1>1
  <2>2. t \in Seq(S) /\ Len(t) = Len(s) - 1 /\ \A i \in 1..Len(t) : t[i] = s[i + 1]
      BY <1>1, <2>1, HeadTailProperties
  <2>. QED  BY <1>1, <2>2
<1>4. u \in Seq(S) /\ Len(u) = Len(p) - (n + 1) /\ \A i \in 1..Len(u) : u[i] = p[n + 1 + i]
    BY <1>1
<1>5. \A i \in 1..Len(t) : t[i] = u[i]
  <2>. SUFFICES ASSUME NEW i \in 1..Len(t) PROVE t[i] = u[i]
      OBVIOUS
  <2>1. i + 1 \in 1..Len(s) /\ n + (i + 1) = n + 1 + i /\ i \in 1..Len(u)
      BY <1>1, <1>3, <1>4
  <2>. QED  BY <1>2, <1>3, <1>4, <2>1
<1>6. t = u
    BY <1>3, <1>4, <1>5, SeqEqual
<1>7. Head(s) = p[n + 1]
    BY <1>1, <1>2
<1>. QED  BY <1>1, <1>3, <1>6, <1>7

LEMMA RunningCall ==
    ASSUME MemoryInv, val = "none", NEW U, WellFormed(Program(job), U)
    PROVE  \E n \in Nat : IsAt(Program(job), n)
<1>. PICK p : p = Program(job)
    OBVIOUS
<1>1. p \in Seq(Operations(U)) /\ Len(p) \in Nat
    BY DEF WellFormed
<1>2. /\ Len(steps) \in 1..Len(p) /\ Done = Len(p) - Len(steps)
      /\ steps = SubSeq(p, Done + 1, Len(p))
      /\ live = HeldAfter(p, Done) /\ deferred = DeferredAfter(p, Done)
    BY DEF MemoryInv, RunsItsProgram, Done
<1>. PICK n : n = Done
    OBVIOUS
<1>3. n \in Nat /\ n < Len(p) /\ n \in 0..(Len(p) - 1)
    BY <1>1, <1>2
<1>4. Head(steps) = p[n + 1]
    BY <1>1, <1>2, <1>3, HeadAndTail
<1>. QED  BY <1>2, <1>3, <1>4 DEF IsAt

LEMMA HeldIsTyped ==
    ASSUME NEW p, NEW U, WellFormed(p, U), NEW n \in 0..Len(p)
    PROVE  HeldAfter(p, n) \subseteq U /\ DeferredAfter(p, n) \subseteq U
<1>1. \A k \in 1..Len(p) : p[k] \in Operations(U)
    BY DEF WellFormed
<1>2. \A k \in 1..Len(p) : p[k].block \in U
    BY <1>1 DEF Operations
<1>3. \A k \in 1..n : k \in 1..Len(p)
    BY DEF WellFormed
<1>. QED  BY <1>2, <1>3 DEF HeldAfter, DeferredAfter

(* An operation that goes on leaves what its program says.                 *)
LEMMA Goes ==
    ASSUME MemoryInv, val = "none", NEW U, WellFormed(Program(job), U), TypedFor(job, U),
           NEW n \in Nat, IsAt(Program(job), n),
           Program(job)[n + 1].do \notin {"return", "panic"},
           steps' = Tail(steps), UNCHANGED <<job, val>>,
           live' = HeldAfter(Program(job), n + 1), deferred' = DeferredAfter(Program(job), n + 1)
    PROVE  MemoryInv'
<1>. PICK p : p = Program(job)
    OBVIOUS
<1>1. p \in Seq(Operations(U)) /\ Len(p) \in Nat /\ n < Len(p) /\ n + 1 \in 1..Len(p)
    BY DEF WellFormed, IsAt
<1>2. n + 1 # Len(p)
    BY <1>1 DEF WellFormed, EndsOnly
<1>3. steps' = SubSeq(p, n + 2, Len(p)) /\ Len(steps') = Len(p) - (n + 1)
    BY <1>1, HeadAndTail DEF IsAt
<1>4. Done' = n + 1 /\ Len(steps') \in 1..Len(p)
  <2>1. Done' = Len(p) - Len(steps')
      BY DEF Done
  <2>. QED  BY <1>1, <1>2, <1>3, <2>1
<1>5. RunsItsProgram'
  <2>1. (n + 1) + 1 = n + 2 /\ Program(job') = p
      OBVIOUS
  <2>. QED  BY <1>3, <1>4, <2>1 DEF RunsItsProgram
<1>6. TypeOK'
  <2>1. live' \subseteq U /\ deferred' \subseteq U
      BY <1>1, HeldIsTyped
  <2>. QED  BY <2>1 DEF MemoryInv, TypeOK, TypedFor
<1>7. HandedOver' /\ ResultIsWhole' /\ LeaksAreKnown'
    BY DEF HandedOver, ResultIsWhole, LeaksAreKnown
<1>. QED  BY <1>5, <1>6, <1>7 DEF MemoryInv

(* The copy is what a whole result is, and what deinit leaves of it is the *)
(* arrays of its rows.                                                     *)
LEMMA WholeCopy ==
    ASSUME job \in Jobs
    PROVE  CopyOf(job.n, job.m) = Columns \cup Cells \cup RowArrays \cup Lists
<1>. PICK n : n = job.n
    OBVIOUS
<1>. PICK m : m = job.m
    OBVIOUS
<1>1. n \in Nat /\ m \in Nat
    BY MemoryAssumption DEF Jobs
<1>2. NamesOf(m) = Columns \cup {One("columns") : i \in 1..m}
    BY DEF NamesOf, Columns
<1>3. RowsOf(n, m) = Cells \cup RowArrays \cup {One("rows") : i \in 1..n}
  <2>1. ASSUME NEW i \in 1..n PROVE CellsOf(i, m) \subseteq Cells \cup RowArrays
    <3>1. \A k \in 1..m : m > 0
        BY <1>1
    <3>. QED  BY <3>1 DEF CellsOf, Cells, RowArrays
  <2>2. ASSUME NEW b \in Cells PROVE b \in RowsOf(n, m)
    <3>1. PICK i \in 1..n, k \in 1..m : b = Block("cell", i, k)
        BY DEF Cells
    <3>. QED  BY <3>1 DEF RowsOf, CellsOf
  <2>3. ASSUME NEW b \in RowArrays PROVE b \in RowsOf(n, m)
    <3>1. PICK i \in 1..n : m > 0 /\ b = Block("row", i, 0)
        BY DEF RowArrays
    <3>2. 1 \in 1..m
        BY <1>1, <3>1
    <3>. QED  BY <3>1, <3>2 DEF RowsOf, CellsOf
  <2>. QED  BY <2>1, <2>2, <2>3 DEF RowsOf
<1>. QED  BY <1>2, <1>3 DEF CopyOf, Lists

LEMMA WholeTuple == FormattedOf(job.n, job.m) = Formatted
BY DEF FormattedOf, Formatted
-----------------------------------------------------------------------------
(* One lemma per action.  A call that runs is at some operation of a       *)
(* program that IsProgram.                                                 *)
Runs(p, U, op, left, n) == IsProgram(p, job, U, op, left) /\ IsAt(p, n)

LEMMA AtAnOperation ==
    ASSUME MemoryInv, val = "none"
    PROVE  \E U, op, left : \E n \in Nat : Runs(Program(job), U, op, left, n)
<1>1. PICK U, op, left : IsProgram(Program(job), job, U, op, left)
  <2>1. job \in Jobs
      BY DEF MemoryInv, TypeOK
  <2>. QED  BY <2>1, Programs, Zenon
<1>2. PICK n \in Nat : IsAt(Program(job), n)
  <2>1. WellFormed(Program(job), U)
      BY <1>1 DEF IsProgram
  <2>. QED  BY <2>1, RunningCall, Zenon
<1>. QED  BY <1>1, <1>2, Zenon DEF Runs

LEMMA OperationRuns ==
    ASSUME MemoryInv, Allocate \/ FreeBlock \/ DeferFree
    PROVE  MemoryInv'
<1>1. val = "none"
    BY DEF Allocate, FreeBlock, DeferFree, Running
<1>2. PICK U, op, left : \E k \in Nat : Runs(Program(job), U, op, left, k)
    BY <1>1, AtAnOperation, Zenon
<1>3. PICK n \in Nat : Runs(Program(job), U, op, left, n)
    BY <1>2
<1>. PICK p : p = Program(job)
    OBVIOUS
<1>4. /\ TypedFor(job, U) /\ WellFormed(p, U) /\ IsAt(p, n)
      /\ Head(steps) = p[n + 1] /\ live = HeldAfter(p, n) /\ deferred = DeferredAfter(p, n)
    BY <1>3 DEF Runs, IsProgram, IsAt
<1>5. CASE Allocate
  <2>1. p[n + 1].do \in {"try", "must", "get"} /\ Allocates(p[n + 1])
      BY <1>4, <1>5 DEF Allocate, Running, Allocates
  <2>2. live' = HeldAfter(p, n + 1) /\ deferred' = DeferredAfter(p, n + 1)
      BY <1>4, <1>5, <2>1, HeldNext, DeferredNext DEF Allocate
  <2>3. steps' = Tail(steps) /\ UNCHANGED <<job, val>> /\ p[n + 1].do \notin {"return", "panic"}
      BY <1>5, <2>1 DEF Allocate
  <2>. QED  BY <1>1, <1>4, <2>2, <2>3, Goes
<1>6. CASE FreeBlock
  <2>1. p[n + 1].do = "free"
      BY <1>4, <1>6 DEF FreeBlock, Running
  <2>2. live' = HeldAfter(p, n + 1) /\ deferred' = DeferredAfter(p, n + 1)
      BY <1>4, <1>6, <2>1, HeldNext, DeferredNext DEF FreeBlock
  <2>3. steps' = Tail(steps) /\ UNCHANGED <<job, val>> /\ p[n + 1].do \notin {"return", "panic"}
      BY <1>6, <2>1 DEF FreeBlock
  <2>. QED  BY <1>1, <1>4, <2>2, <2>3, Goes
<1>7. CASE DeferFree
  <2>1. p[n + 1].do = "defer"
      BY <1>4, <1>7 DEF DeferFree, Running
  <2>2. live' = HeldAfter(p, n + 1) /\ deferred' = DeferredAfter(p, n + 1)
      BY <1>4, <1>7, <2>1, HeldNext, DeferredNext DEF DeferFree
  <2>3. steps' = Tail(steps) /\ UNCHANGED <<job, val>> /\ p[n + 1].do \notin {"return", "panic"}
      BY <1>7, <2>1 DEF DeferFree
  <2>. QED  BY <1>1, <1>4, <2>2, <2>3, Goes
<1>. QED  BY <1>5, <1>6, <1>7

LEMMA FailureEnds == ASSUME MemoryInv, TryFails PROVE MemoryInv'
<1>1. val = "none" /\ Head(steps).do = "try" /\ Ends("OutOfMemory")
    BY DEF TryFails, Running
<1>2. PICK U, op, left : \E k \in Nat : Runs(Program(job), U, op, left, k)
    BY <1>1, AtAnOperation, Zenon
<1>3. PICK n \in Nat : Runs(Program(job), U, op, left, n)
    BY <1>2
<1>. PICK p : p = Program(job)
    OBVIOUS
<1>4. /\ WellFormed(p, U) /\ n \in 0..(Len(p) - 1) /\ p[n + 1].do = "try"
      /\ live \ deferred = AtRisk(p, n)
    BY <1>1, <1>3 DEF Runs, IsProgram, IsAt, AtRisk
<1>5. LosesLittle(p, n + 1) /\ (n + 1) - 1 = n
  <2>1. n + 1 \in 1..Len(p)
    <3>1. Len(p) \in Nat
        BY <1>4 DEF WellFormed
    <3>. QED  BY <1>4, <3>1
  <2>. QED  BY <1>4, <2>1 DEF WellFormed
<1>6. \A b \in live \ deferred : b.name \notin Kept
    BY <1>4, <1>5 DEF LosesLittle
<1>7. /\ val' = "OutOfMemory" /\ live' = live \ deferred /\ deferred' = {} /\ job' = job
    BY <1>1 DEF Ends
<1>8. TypeOK'
    BY <1>7 DEF MemoryInv, TypeOK
<1>9. LeaksAreKnown'
    BY <1>6, <1>7 DEF LeaksAreKnown, Kept
<1>10. RunsItsProgram' /\ HandedOver' /\ ResultIsWhole'
    BY <1>7 DEF RunsItsProgram, HandedOver, ResultIsWhole
<1>. QED  BY <1>8, <1>9, <1>10 DEF MemoryInv

LEMMA PanicEnds == ASSUME MemoryInv, Panics PROVE MemoryInv'
<1>1. val' = "panic" /\ live' = {} /\ deferred' = {} /\ job' = job
    BY DEF Panics
<1>2. TypeOK'
    BY <1>1 DEF MemoryInv, TypeOK
<1>. QED  BY <1>1, <1>2
     DEF MemoryInv, RunsItsProgram, HandedOver, ResultIsWhole, LeaksAreKnown

LEMMA ReturnEnds == ASSUME MemoryInv, ReturnVal PROVE MemoryInv'
<1>1. val = "none" /\ Head(steps).do = "return" /\ Ends(Head(steps).block.name)
    BY DEF ReturnVal, Running
<1>2. PICK U, op, left : \E k \in Nat : Runs(Program(job), U, op, left, k)
    BY <1>1, AtAnOperation, Zenon
<1>3. PICK n \in Nat : Runs(Program(job), U, op, left, n)
    BY <1>2
<1>. PICK p : p = Program(job)
    OBVIOUS
<1>4. /\ WellFormed(p, U) /\ n \in 0..(Len(p) - 1) /\ p[n + 1] = Head(steps)
      /\ live \ deferred = AtRisk(p, n) /\ EndsWith(p, op, left)
      /\ op = Panic \/ \E v \in Results : op = Return(v) /\ GivesBack(job, v, left)
    BY <1>3 DEF Runs, IsProgram, IsAt, AtRisk
<1>5. n + 1 = Len(p) /\ Len(p) - 1 = n
  <2>1. Len(p) \in Nat
      BY <1>4 DEF WellFormed
  <2>2. n + 1 \in 1..Len(p)
      BY <1>4, <2>1
  <2>3. n + 1 = Len(p)
      BY <1>1, <1>4, <2>2 DEF WellFormed, EndsOnly
  <2>. QED  BY <2>1, <2>3
<1>6. Head(steps) = op /\ live \ deferred = left
    BY <1>4, <1>5 DEF EndsWith
<1>7. PICK v \in Results : op = Return(v) /\ GivesBack(job, v, left)
  <2>1. op # Panic
      BY <1>1, <1>6 DEF Panic
  <2>. QED  BY <1>4, <2>1
<1>8. val' = v /\ live' = left /\ deferred' = {} /\ job' = job
  <2>1. Head(steps).block.name = v
      BY <1>6, <1>7 DEF Return, One, Block
  <2>. QED  BY <1>1, <1>6, <2>1 DEF Ends
<1>9. job \in Jobs /\ val' # "none"
    BY <1>7, <1>8 DEF MemoryInv, TypeOK, Results
<1>10. GivesBack(job', val', live')
    BY <1>7, <1>8
<1>11. TypeOK'
  <2>1. live' \subseteq live
      BY <1>6, <1>8
  <2>. QED  BY <1>7, <1>8, <2>1 DEF MemoryInv, TypeOK, Results
<1>12. RunsItsProgram'
    BY <1>9 DEF RunsItsProgram
<1>13. HandedOver'
  <2>1. v = "psql" => job.op = "init" /\ left = {One("PGconn")}
      BY <1>7 DEF GivesBack
  <2>2. v = "queryResult" => job.op \in {"select", "selectJoin"}
      BY <1>7 DEF GivesBack
  <2>3. v = "QueryParams" => job.op = "QParams" /\ left = {One("joined")} \cup Formatted
      BY <1>7, WholeTuple DEF GivesBack
  <2>. QED  BY <1>8, <2>1, <2>2, <2>3 DEF HandedOver, Formatted
<1>14. ResultIsWhole'
  <2>1. v = "queryResult" => left = Columns \cup Cells \cup RowArrays \cup Lists
      BY <1>7, <1>9, WholeCopy DEF GivesBack
  <2>. QED  BY <1>8, <2>1 DEF ResultIsWhole, Columns, Cells, RowArrays, Lists
<1>15. LeaksAreKnown'
  <2>1. v # "OutOfMemory" /\ v # "done"
      BY <1>7 DEF Results
  <2>2. v \in {"ok", "SelectJoinFailed", "InsertionFailed"} => left = {}
      BY <1>7 DEF GivesBack
  <2>3. v = "ConnectionFailed" => left = {One("connection")}
      BY <1>7 DEF GivesBack
  <2>4. v = "PrimaryKeyDuplicate" => left = {One("result")}
      BY <1>7 DEF GivesBack
  <2>5. v = "QueryFailed" => left = IF job.op = "createTableFor" THEN {One("query")} ELSE {}
      BY <1>7 DEF GivesBack
  <2>. QED  BY <1>8, <2>1, <2>2, <2>3, <2>4, <2>5 DEF LeaksAreKnown, Leak
<1>. QED  BY <1>11, <1>12, <1>13, <1>14, <1>15 DEF MemoryInv

LEMMA DeinitKeeps == ASSUME MemoryInv, deinit PROVE MemoryInv'
<1>1. /\ val \in {"queryResult", "QueryParams", "psql"} /\ live' = live \ Freed
      /\ val' = "done" /\ UNCHANGED <<job, steps, deferred>> /\ deferred = {}
    BY DEF deinit, MemoryInv, HandedOver
<1>2. TypeOK'
    BY <1>1 DEF MemoryInv, TypeOK
<1>3. live' = Leak'
  <2>1. CASE val = "queryResult"
    <3>1. Freed = Columns \cup Cells \cup Lists
        BY <2>1 DEF Freed
    <3>2. live = Columns \cup Cells \cup RowArrays \cup Lists
        BY <2>1 DEF MemoryInv, ResultIsWhole
    <3>3. \A b \in RowArrays : b.name = "row"
        BY DEF RowArrays, Block
    <3>4. \A b \in Columns \cup Cells \cup Lists : b.name \in {"column", "columns", "cell", "rows"}
        BY DEF Columns, Cells, Lists, One, Block
    <3>5. live' = RowArrays
        BY <1>1, <3>1, <3>2, <3>3, <3>4
    <3>6. job.op \in {"select", "selectJoin"}
        BY <2>1 DEF MemoryInv, HandedOver
    <3>. QED  BY <1>1, <3>5, <3>6 DEF Leak, RowArrays
  <2>2. CASE val = "QueryParams"
    <3>1. job.op = "QParams" /\ live = {One("joined")} \cup Formatted
        BY <2>2 DEF MemoryInv, HandedOver
    <3>2. One("joined") \notin Formatted
        BY DEF Formatted, One, Block
    <3>3. live' = Formatted
        BY <1>1, <2>2, <3>1, <3>2 DEF Freed
    <3>. QED  BY <1>1, <3>1, <3>3 DEF Leak, Formatted
  <2>3. CASE val = "psql"
    <3>1. job.op = "init" /\ live = {One("PGconn")}
        BY <2>3 DEF MemoryInv, HandedOver
    <3>2. live' = {}
        BY <1>1, <2>3, <3>1 DEF Freed
    <3>. QED  BY <1>1, <3>1, <3>2 DEF Leak
  <2>. QED  BY <1>1, <2>1, <2>2, <2>3
<1>4. RunsItsProgram' /\ HandedOver' /\ ResultIsWhole'
    BY <1>1 DEF RunsItsProgram, HandedOver, ResultIsWhole
<1>5. LeaksAreKnown'
    BY <1>1, <1>3 DEF LeaksAreKnown
<1>. QED  BY <1>2, <1>4, <1>5 DEF MemoryInv

(* A call that starts holds nothing and has its whole program to do.       *)
LEMMA WholeProgram ==
    ASSUME NEW j \in Jobs
    PROVE  /\ Len(Program(j)) \in Nat /\ Len(Program(j)) # 0
           /\ Program(j) = SubSeq(Program(j), 1, Len(Program(j)))
<1>1. PICK U, op, left : IsProgram(Program(j), j, U, op, left)
    BY Programs, Zenon
<1>. PICK p : p = Program(j)
    OBVIOUS
<1>2. p \in Seq(Operations(U)) /\ Len(p) # 0
    BY <1>1 DEF IsProgram, WellFormed
<1>. QED  BY <1>2

LEMMA MemoryInit == Init => MemoryInv
<1>. SUFFICES ASSUME Init PROVE MemoryInv
    OBVIOUS
<1>1. job \in Jobs /\ steps = Program(job) /\ deferred = {} /\ live = {} /\ val = "none"
    BY DEF Init
<1>. PICK p : p = Program(job)
    OBVIOUS
<1>2. Len(p) \in Nat /\ Len(p) # 0 /\ p = SubSeq(p, 1, Len(p))
    BY <1>1, WholeProgram
<1>3. Done = 0 /\ Len(steps) \in 1..Len(p) /\ Done + 1 = 1
    BY <1>1, <1>2 DEF Done
<1>4. RunsItsProgram
    BY <1>1, <1>2, <1>3, HeldAtFirst DEF RunsItsProgram
<1>. QED  BY <1>1, <1>4
     DEF MemoryInv, TypeOK, HandedOver, ResultIsWhole, LeaksAreKnown

LEMMA CallStarts == ASSUME NextCall PROVE MemoryInv'
<1>1. /\ job' \in Jobs /\ steps' = Program(job')
      /\ deferred' = {} /\ live' = {} /\ val' = "none"
    BY DEF NextCall, Start
<1>. PICK p : p = Program(job')
    OBVIOUS
<1>2. Len(p) \in Nat /\ Len(p) # 0 /\ p = SubSeq(p, 1, Len(p))
    BY <1>1, WholeProgram
<1>3. Done' = 0 /\ Len(steps') \in 1..Len(p) /\ Done' + 1 = 1
    BY <1>1, <1>2 DEF Done
<1>4. RunsItsProgram'
    BY <1>1, <1>2, <1>3, HeldAtFirst DEF RunsItsProgram
<1>. QED  BY <1>1, <1>4
     DEF MemoryInv, TypeOK, HandedOver, ResultIsWhole, LeaksAreKnown

LEMMA MemoryStep == MemoryInv /\ [Next]_vars => MemoryInv'
<1>. SUFFICES ASSUME MemoryInv, [Next]_vars PROVE MemoryInv'
    OBVIOUS
<1>1. CASE Allocate \/ FreeBlock \/ DeferFree
    BY <1>1, OperationRuns
<1>2. CASE TryFails
    BY <1>2, FailureEnds
<1>3. CASE ReturnVal
    BY <1>3, ReturnEnds
<1>4. CASE Panics
    BY <1>4, PanicEnds
<1>5. CASE deinit
    BY <1>5, DeinitKeeps
<1>6. CASE NextCall
    BY <1>6, CallStarts
<1>7. CASE UNCHANGED vars
    BY <1>7 DEF vars, MemoryInv, TypeOK, RunsItsProgram, Done, HandedOver, ResultIsWhole,
                LeaksAreKnown, Leak, Columns, Cells, RowArrays, Lists, Formatted
<1>. QED  BY <1>1, <1>2, <1>3, <1>4, <1>5, <1>6, <1>7 DEF Next

(* A call holds at every point exactly what its operations so far have     *)
(* left, whichever allocation fails, and hands over or loses at its end    *)
(* what is said above.                                                     *)
LEMMA MemoryInvariant == Spec => []MemoryInv
<1>. QED  BY MemoryInit, MemoryStep, PTL DEF Spec
-----------------------------------------------------------------------------
(* Every variable has its type.                                            *)
THEOREM MemoryTypeCorrect == Spec => []TypeOK
<1>1. MemoryInv => TypeOK
    BY DEF MemoryInv
<1>. QED  BY <1>1, MemoryInvariant, PTL

(* What a call frees while it runs, and what its caller frees after it.    *)
LEMMA FreesOfACall ==
    ASSUME MemoryInv, val = "none"
    PROVE  /\ Head(steps).do = "free" => Head(steps).block \in live \ deferred
           /\ Head(steps).do = "defer" => Head(steps).block \notin deferred
           /\ Head(steps).do \in {"try", "return"} =>
                {b \in deferred : b.name \notin Growing} \subseteq live
<1>1. PICK U, op, left : \E k \in Nat : Runs(Program(job), U, op, left, k)
    BY AtAnOperation, Zenon
<1>2. PICK n \in Nat : Runs(Program(job), U, op, left, n)
    BY <1>1
<1>. PICK p : p = Program(job)
    OBVIOUS
<1>3. /\ WellFormed(p, U) /\ n \in 0..(Len(p) - 1) /\ p[n + 1] = Head(steps)
      /\ live = HeldAfter(p, n) /\ deferred = DeferredAfter(p, n)
    BY <1>2 DEF Runs, IsProgram, IsAt
<1>4. FreesLive(p, n + 1) /\ (n + 1) - 1 = n
  <2>1. Len(p) \in Nat
      BY <1>3 DEF WellFormed
  <2>2. n + 1 \in 1..Len(p)
      BY <1>3, <2>1
  <2>. QED  BY <1>3, <2>2 DEF WellFormed
<1>. QED  BY <1>3, <1>4 DEF FreesLive

LEMMA FreesOfACaller == ASSUME MemoryInv, val # "none" PROVE Freed \subseteq live
<1>1. CASE val = "queryResult"
    BY <1>1 DEF Freed, MemoryInv, ResultIsWhole
<1>2. CASE val = "QueryParams"
    BY <1>2 DEF Freed, MemoryInv, HandedOver
<1>3. CASE val = "psql"
    BY <1>3 DEF Freed, MemoryInv, HandedOver
<1>4. CASE val \notin {"queryResult", "QueryParams", "psql"}
    BY <1>4 DEF Freed
<1>. QED  BY <1>1, <1>2, <1>3, <1>4

(* No PGresult, PGconn or buffer is freed twice or before it is there, by  *)
(* hand, by a defer or by the deinit of what was handed over, on any path  *)
(* of any function of psql.zig.                                            *)
THEOREM OnlyLiveBlocksAreFreed == Spec => []FreesAreOfLiveBlocks
<1>1. MemoryInv => FreesAreOfLiveBlocks
  <2>. SUFFICES ASSUME MemoryInv PROVE FreesAreOfLiveBlocks
      OBVIOUS
  <2>1. CASE val = "none"
    <3>1. Freed = {}
        BY <2>1 DEF Freed
    <3>. QED  BY <2>1, <3>1, FreesOfACall DEF FreesAreOfLiveBlocks, Running
  <2>2. CASE val # "none"
      BY <2>2, FreesOfACaller DEF FreesAreOfLiveBlocks, Running
  <2>. QED  BY <2>1, <2>2
<1>. QED  BY <1>1, MemoryInvariant, PTL

(* What select and selectJoin give back is a copy of every name and every  *)
(* cell, and holds on to nothing of libpq's.                               *)
THEOREM ResultsAreWhole == Spec => []ResultIsWhole
<1>1. MemoryInv => ResultIsWhole
    BY DEF MemoryInv
<1>. QED  BY <1>1, MemoryInvariant, PTL

(* What a call loses is what is listed: five leaks when memory suffices,   *)
(* and never the text of a query or the connection string when it runs out.*)
THEOREM LeaksAreAllKnown == Spec => []LeaksAreKnown
<1>1. MemoryInv => LeaksAreKnown
    BY DEF MemoryInv
<1>. QED  BY <1>1, MemoryInvariant, PTL
=============================================================================

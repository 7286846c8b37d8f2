---------------------------- MODULE NatRecursion ----------------------------
(***************************************************************************)
(* Induction and recursion over the naturals, stated with sets and         *)
(* functions in the place of operator parameters, so that the provers can  *)
(* instantiate them.  The least-number principle comes from the library's  *)
(* theorem that a well-founded set has minimal elements.                   *)
(***************************************************************************)
EXTENDS Naturals, Sequences, WellFoundedInduction, SequenceTheorems, TLAPS

(* A set of naturals that is not empty has a least element.                *)
LEMMA LeastNumber ==
    ASSUME NEW S, S \subseteq Nat, S # {}
    PROVE  \E m \in S : \A n \in S : m <= n
<1>1. IsWellFoundedOn(OpToRel(<, Nat), Nat)
    BY NatLessThanWellFounded
<1>2. \E m \in S : \A n \in S : <<n, m>> \notin OpToRel(<, Nat)
    BY <1>1, WFMin, Zenon
<1>3. \A m, n \in Nat : <<n, m>> \notin OpToRel(<, Nat) => m <= n
    BY DEF OpToRel
<1>. QED  BY <1>2, <1>3, Zenon

(* What holds of 0 and of the successor of everything it holds of, holds   *)
(* of every natural.                                                       *)
LEMMA Induction ==
    ASSUME NEW S, 0 \in S, \A n \in Nat : n \in S => n + 1 \in S
    PROVE  \A n \in Nat : n \in S
<1>. DEFINE Rest == Nat \ S
<1>. SUFFICES ASSUME Rest # {} PROVE FALSE
    OBVIOUS
<1>1. PICK m \in Rest : \A n \in Rest : m <= n
  <2>1. Rest \subseteq Nat
      OBVIOUS
  <2>. QED  BY <2>1, LeastNumber, Zenon
<1>2. m \in Nat /\ m # 0
    OBVIOUS
<1>3. m - 1 \in Nat /\ ~ m <= m - 1 /\ (m - 1) + 1 = m
    BY <1>2
<1>4. m - 1 \in S
    BY <1>1, <1>3
<1>. QED  BY <1>3, <1>4

(* A start and a step define a function on the naturals.                   *)
Follows(f, x0, step) == f[0] = x0 /\ \A n \in Nat : f[n + 1] = step[n][f[n]]

LEMMA Recursion ==
    ASSUME NEW X, NEW x0 \in X, NEW step \in [Nat -> [X -> X]]
    PROVE  \E f \in [Nat -> X] : Follows(f, x0, step)
<1>. DEFINE Upto(n) == {g \in [0..n -> X] :
                           /\ g[0] = x0
                           /\ \A i \in 0..n : i < n => g[i + 1] = step[i][g[i]]}
<1>1. \A n \in Nat : Upto(n) # {}
  <2>. DEFINE S == {n \in Nat : Upto(n) # {}}
  <2>1. 0 \in S
    <3>1. [i \in 0..0 |-> x0] \in Upto(0)
        OBVIOUS
    <3>. QED  BY <3>1
  <2>2. ASSUME NEW n \in Nat, n \in S PROVE n + 1 \in S
    <3>1. PICK g : g \in Upto(n)
        BY <2>2
    <3>. DEFINE h == [i \in 0..(n + 1) |-> IF i = n + 1 THEN step[n][g[n]] ELSE g[i]]
    <3>2. g \in [0..n -> X] /\ g[0] = x0 /\ n \in 0..n
        BY <3>1
    <3>3. h \in [0..(n + 1) -> X]
      <4>1. step[n][g[n]] \in X
          BY <3>2
      <4>2. \A i \in 0..(n + 1) : i # n + 1 => g[i] \in X
          BY <3>2
      <4>. QED  BY <4>1, <4>2
    <3>4. h[0] = x0
        BY <3>2
    <3>5. ASSUME NEW i \in 0..(n + 1), i < n + 1 PROVE h[i + 1] = step[i][h[i]]
      <4>1. CASE i = n
          BY <4>1
      <4>2. CASE i # n
        <5>1. i \in 0..n /\ i < n /\ i + 1 \in 0..(n + 1) /\ i + 1 # n + 1 /\ i # n + 1
            BY <3>5, <4>2
        <5>2. g[i + 1] = step[i][g[i]]
            BY <3>1, <5>1
        <5>. QED  BY <5>1, <5>2
      <4>. QED  BY <4>1, <4>2
    <3>6. h \in Upto(n + 1)
        BY <3>3, <3>4, <3>5
    <3>7. Upto(n + 1) # {}
        BY <3>6, Zenon
    <3>. QED  BY <3>7
  <2>. HIDE DEF S
  <2>3. \A n \in Nat : n \in S
      BY <2>1, <2>2, Induction, Zenon
  <2>. QED  BY <2>3 DEF S
<1>2. ASSUME NEW n \in Nat, NEW g \in Upto(n), NEW h \in Upto(n + 1)
      PROVE  g[n] = h[n]
  <2>. DEFINE S == {i \in Nat : i <= n => g[i] = h[i]}
  <2>1. 0 \in S
      OBVIOUS
  <2>2. ASSUME NEW i \in Nat, i \in S PROVE i + 1 \in S
    <3>. SUFFICES ASSUME i + 1 <= n PROVE g[i + 1] = h[i + 1]
        OBVIOUS
    <3>1. i \in 0..n /\ i < n /\ i \in 0..(n + 1) /\ i < n + 1
        OBVIOUS
    <3>2. g[i + 1] = step[i][g[i]]
        BY <3>1
    <3>3. h[i + 1] = step[i][h[i]]
        BY <3>1
    <3>. QED  BY <2>2, <3>1, <3>2, <3>3
  <2>. HIDE DEF S
  <2>3. n \in S
      BY <2>1, <2>2, Induction, Zenon
  <2>. QED  BY <2>3 DEF S
<1>. DEFINE G == [n \in Nat |-> CHOOSE g : g \in Upto(n)]
            f == [n \in Nat |-> G[n][n]]
<1>3. \A n \in Nat : G[n] \in Upto(n)
  <2>. SUFFICES ASSUME NEW n \in Nat PROVE (CHOOSE g : g \in Upto(n)) \in Upto(n)
      OBVIOUS
  <2>. HIDE DEF Upto
  <2>. QED  BY <1>1, Zenon
<1>. HIDE DEF G
<1>4. \A n \in Nat : G[n] \in [0..n -> X] /\ n \in 0..n
    BY <1>3
<1>5. f \in [Nat -> X]
    BY <1>4
<1>6. f[0] = x0
    BY <1>3
<1>7. ASSUME NEW n \in Nat PROVE f[n + 1] = step[n][f[n]]
  <2>0. n + 1 \in Nat
      OBVIOUS
  <2>1. G[n][n] = G[n + 1][n]
    <3>. HIDE DEF Upto
    <3>. QED  BY <1>2, <1>3, <2>0, Zenon
  <2>2. n \in 0..(n + 1) /\ n < n + 1 /\ n + 1 \in Nat
      OBVIOUS
  <2>3. G[n + 1][n + 1] = step[n][G[n + 1][n]]
      BY <1>3, <2>2
  <2>. QED  BY <2>1, <2>2, <2>3
<1>. QED  BY <1>5, <1>6, <1>7 DEF Follows

(* The same for a loop of N rounds: this is the form of a local recursive  *)
(* function.                                                               *)
IsLoop(f, x0, N, step) == f = [n \in 0..N |-> IF n = 0 THEN x0 ELSE step[n][f[n - 1]]]

LEMMA LoopIsDefined ==
    ASSUME NEW X, NEW x0 \in X, NEW N \in Nat, NEW step \in [1..N -> [X -> X]]
    PROVE  \E f \in [0..N -> X] : IsLoop(f, x0, N, step)
<1>. DEFINE Any == [n \in Nat |-> [x \in X |-> IF n < N THEN step[n + 1][x] ELSE x]]
<1>1. Any \in [Nat -> [X -> X]]
  <2>. SUFFICES ASSUME NEW n \in Nat, NEW x \in X
                PROVE  (IF n < N THEN step[n + 1][x] ELSE x) \in X
      OBVIOUS
  <2>1. n < N => n + 1 \in 1..N
      OBVIOUS
  <2>. QED  BY <2>1
<1>2. PICK any \in [Nat -> [X -> X]] : any = Any
    BY <1>1
<1>3. PICK g \in [Nat -> X] : Follows(g, x0, any)
    BY Recursion, Zenon
<1>. DEFINE f == [n \in 0..N |-> g[n]]
<1>4. f \in [0..N -> X]
    OBVIOUS
<1>5. ASSUME NEW n \in 0..N, n # 0 PROVE g[n] = step[n][g[n - 1]]
  <2>1. n - 1 \in Nat /\ n - 1 < N /\ (n - 1) + 1 = n /\ g[n - 1] \in X
      BY <1>5, <1>3
  <2>. QED  BY <1>2, <1>3, <2>1 DEF Follows
<1>6. \A n \in 0..N : n # 0 => n - 1 \in 0..N
    OBVIOUS
<1>7. f = [n \in 0..N |-> IF n = 0 THEN x0 ELSE step[n][f[n - 1]]]
  <2>1. \A n \in 0..N : g[n] = IF n = 0 THEN x0 ELSE step[n][f[n - 1]]
      BY <1>3, <1>5, <1>6 DEF Follows
  <2>. QED  BY <2>1
<1>. QED  BY <1>4, <1>7 DEF IsLoop

(* Induction over the rounds of a loop.                                    *)
LEMMA RoundByRound ==
    ASSUME NEW N \in Nat, NEW S, 0 \in S,
           \A n \in 1..N : n - 1 \in S => n \in S
    PROVE  \A n \in 0..N : n \in S
<1>. DEFINE Reached == {n \in Nat : n <= N => n \in S}
<1>1. 0 \in Reached
    OBVIOUS
<1>2. ASSUME NEW n \in Nat, n \in Reached PROVE n + 1 \in Reached
  <2>1. n + 1 <= N => n + 1 \in 1..N /\ (n + 1) - 1 = n /\ n <= N
      OBVIOUS
  <2>. QED  BY <1>2, <2>1
<1>. HIDE DEF Reached
<1>3. \A n \in Nat : n \in Reached
    BY <1>1, <1>2, Induction, Zenon
<1>. QED  BY <1>3 DEF Reached
-----------------------------------------------------------------------------
(* Loops over the elements of a sequence.                                  *)

IsFold(f, x0, step, s) ==
    f = [n \in 0..Len(s) |-> IF n = 0 THEN x0 ELSE step[f[n - 1]][s[n]]]

LEMMA FoldIsDefined ==
    ASSUME NEW X, NEW C, NEW x0 \in X, NEW step \in [X -> [C -> X]], NEW s \in Seq(C)
    PROVE  \E f \in [0..Len(s) -> X] : IsFold(f, x0, step, s)
<1>. DEFINE N    == Len(s)
            Step == [n \in 1..N |-> [x \in X |-> step[x][s[n]]]]
<1>1. N \in Nat
    OBVIOUS
<1>2. PICK round \in [1..N -> [X -> X]] : round = Step
  <2>1. \A n \in 1..N : s[n] \in C
      OBVIOUS
  <2>. QED  BY <2>1
<1>3. PICK f \in [0..N -> X] : IsLoop(f, x0, N, round)
  <2>. HIDE DEF N
  <2>. QED  BY <1>1, LoopIsDefined, Zenon
<1>4. \A n \in 0..N : n # 0 => round[n][f[n - 1]] = step[f[n - 1]][s[n]]
  <2>1. \A n \in 0..N : n # 0 => n \in 1..N /\ n - 1 \in 0..N
      BY <1>1
  <2>2. \A n \in 0..N : n # 0 => f[n - 1] \in X
      BY <2>1
  <2>. QED  BY <1>2, <2>1, <2>2
<1>5. f = [n \in 0..N |-> IF n = 0 THEN x0 ELSE round[n][f[n - 1]]]
    BY <1>3 DEF IsLoop
<1>. QED  BY <1>4, <1>5 DEF IsFold

(* Two folds agree as far as the sequences do.                             *)
Starts(s, t) == Len(s) <= Len(t) /\ \A i \in 1..Len(s) : s[i] = t[i]
AgreeUpto(f, g, N) == \A n \in 0..N : f[n] = g[n]

LEMMA FoldsAgree ==
    ASSUME NEW X, NEW C, NEW x0 \in X, NEW step \in [X -> [C -> X]],
           NEW s \in Seq(C), NEW t \in Seq(C), Starts(s, t),
           NEW f, NEW g, IsFold(f, x0, step, s), IsFold(g, x0, step, t)
    PROVE  AgreeUpto(f, g, Len(s))
<1>. DEFINE N == Len(s)
            S == {n \in 0..N : f[n] = g[n]}
<1>1. N \in Nat /\ Len(t) \in Nat /\ N <= Len(t) /\ \A i \in 1..N : s[i] = t[i]
  <2>1. Len(s) \in Nat /\ Len(t) \in Nat
      OBVIOUS
  <2>. QED  BY <2>1 DEF Starts
<1>2. 0 \in S
  <2>1. 0 \in 0..N /\ 0 \in 0..Len(t)
      BY <1>1
  <2>2. f[0] = x0 /\ g[0] = x0
      BY <2>1 DEF IsFold
  <2>. QED  BY <2>1, <2>2
<1>3. ASSUME NEW n \in 1..N, n - 1 \in S PROVE n \in S
  <2>1. n \in 0..N /\ n \in 0..Len(t) /\ n # 0 /\ s[n] = t[n]
    <3>. HIDE DEF N
    <3>. QED  BY <1>1
  <2>2. f[n] = step[f[n - 1]][s[n]] /\ g[n] = step[g[n - 1]][t[n]]
      BY <2>1 DEF IsFold
  <2>. QED  BY <1>3, <2>1, <2>2
<1>. HIDE DEF S
<1>4. \A n \in 0..N : n \in S
    BY <1>1, <1>2, <1>3, RoundByRound, Zenon
<1>. QED  BY <1>4 DEF S, AgreeUpto

(* The result of the loop, as a function of the sequence.                  *)
IsResult(F, C, x0, step) ==
    /\ F[<<>>] = x0
    /\ \A s \in Seq(C), c \in C : F[Append(s, c)] = step[F[s]][c]
    /\ \A s \in Seq(C) : \A f : IsFold(f, x0, step, s) => f[Len(s)] = F[s]

LEMMA FoldResult ==
    ASSUME NEW X, NEW C, NEW x0 \in X, NEW step \in [X -> [C -> X]]
    PROVE  \E F \in [Seq(C) -> X] : IsResult(F, C, x0, step)
<1>. DEFINE Run(s) == CHOOSE f : f \in [0..Len(s) -> X] /\ IsFold(f, x0, step, s)
            F      == [s \in Seq(C) |-> Run(s)[Len(s)]]
<1>1. ASSUME NEW s \in Seq(C) PROVE Run(s) \in [0..Len(s) -> X] /\ IsFold(Run(s), x0, step, s)
  <2>1. \E f : f \in [0..Len(s) -> X] /\ IsFold(f, x0, step, s)
      BY FoldIsDefined
  <2>. QED  BY <2>1, Zenon
<1>. HIDE DEF Run
<1>2. \A s \in Seq(C) : Len(s) \in Nat /\ Len(s) \in 0..Len(s) /\ 0 \in 0..Len(s)
    OBVIOUS
<1>3. F \in [Seq(C) -> X]
    BY <1>1, <1>2
<1>4. F[<<>>] = x0
  <2>1. <<>> \in Seq(C) /\ Len(<<>>) = 0
      OBVIOUS
  <2>2. Run(<<>>)[0] = x0
    <3>1. IsFold(Run(<<>>), x0, step, <<>>)
        BY <1>1, <2>1
    <3>2. 0 \in 0..Len(<<>>)
        BY <2>1
    <3>. QED  BY <3>1, <3>2 DEF IsFold
  <2>. QED  BY <2>1, <2>2
<1>5. ASSUME NEW s \in Seq(C), NEW c \in C PROVE F[Append(s, c)] = step[F[s]][c]
  <2>. DEFINE t == Append(s, c)
              N == Len(s)
  <2>1. /\ t \in Seq(C) /\ Len(t) = N + 1 /\ N \in Nat /\ t[N + 1] = c
        /\ \A i \in 1..N : s[i] = t[i]
      OBVIOUS
  <2>. HIDE DEF t
  <2>2. Run(s)[N] = Run(t)[N]
    <3>1. N <= Len(t) /\ N \in 0..N
        BY <2>1
    <3>2. IsFold(Run(s), x0, step, s) /\ IsFold(Run(t), x0, step, t)
        BY <1>1, <2>1
    <3>3. \A n \in 0..N : Run(s)[n] = Run(t)[n]
      <4>1. Starts(s, t)
          BY <2>1, <3>1 DEF Starts
      <4>2. AgreeUpto(Run(s), Run(t), Len(s))
          BY <2>1, <3>2, <4>1, FoldsAgree, Zenon
      <4>. QED  BY <4>2 DEF AgreeUpto
    <3>. QED  BY <3>1, <3>3
  <2>3. Run(t)[N + 1] = step[Run(t)[N]][t[N + 1]]
    <3>1. N + 1 \in 0..Len(t) /\ N + 1 # 0 /\ (N + 1) - 1 = N
        BY <2>1
    <3>2. IsFold(Run(t), x0, step, t)
        BY <1>1, <2>1
    <3>. QED  BY <3>1, <3>2 DEF IsFold
  <2>4. F[t] = Run(t)[N + 1] /\ F[s] = Run(s)[N]
      BY <2>1
  <2>. QED  BY <2>1, <2>2, <2>3, <2>4 DEF t
<1>6. ASSUME NEW s \in Seq(C), NEW f, IsFold(f, x0, step, s) PROVE f[Len(s)] = F[s]
  <2>1. \A n \in 0..Len(s) : f[n] = Run(s)[n]
    <3>1. Starts(s, s)
        BY <1>2 DEF Starts
    <3>2. IsFold(Run(s), x0, step, s)
        BY <1>1
    <3>3. AgreeUpto(f, Run(s), Len(s))
        BY <1>6, <3>1, <3>2, FoldsAgree, Zenon
    <3>. QED  BY <3>3 DEF AgreeUpto
  <2>. QED  BY <1>2, <2>1
<1>. QED  BY <1>3, <1>4, <1>5, <1>6 DEF IsResult

(* A property of the empty sequence that appending keeps is one of every   *)
(* sequence.                                                               *)
LEMMA OneByOne ==
    ASSUME NEW C, NEW P, <<>> \in P, \A s \in Seq(C), c \in C : s \in P => Append(s, c) \in P
    PROVE  \A s \in Seq(C) : s \in P
<1>. DEFINE S == {n \in Nat : \A s \in Seq(C) : Len(s) = n => s \in P}
<1>1. 0 \in S
  <2>1. \A s \in Seq(C) : Len(s) = 0 => s = <<>>
      OBVIOUS
  <2>. QED  BY <2>1
<1>2. ASSUME NEW n \in Nat, n \in S PROVE n + 1 \in S
  <2>. SUFFICES ASSUME NEW s \in Seq(C), Len(s) = n + 1 PROVE s \in P
      OBVIOUS
  <2>. DEFINE front == SubSeq(s, 1, n)
  <2>1. front \in Seq(C) /\ Len(front) = n /\ s[n + 1] \in C /\ \A i \in 1..n : front[i] = s[i]
      OBVIOUS
  <2>. HIDE DEF front
  <2>2. s = Append(front, s[n + 1])
    <3>1. Append(front, s[n + 1]) \in Seq(C) /\ Len(Append(front, s[n + 1])) = n + 1
        BY <2>1
    <3>2. \A i \in 1..(n + 1) : Append(front, s[n + 1])[i] = s[i]
        BY <2>1
    <3>. QED  BY <3>1, <3>2
  <2>3. front \in P
      BY <1>2, <2>1
  <2>. QED  BY <2>1, <2>2, <2>3
<1>. HIDE DEF S
<1>3. \A n \in Nat : n \in S
    BY <1>1, <1>2, Induction, Zenon
<1>. QED  BY <1>3 DEF S

(* What is appended to the second part is appended to the whole.           *)
LEMMA ConcatAppend ==
    ASSUME NEW C, NEW s \in Seq(C), NEW x \in Seq(C), NEW c \in C
    PROVE  s \o x \in Seq(C) /\ s \o Append(x, c) = Append(s \o x, c)
<1>1. <<c>> \in Seq(C) /\ s \o x \in Seq(C)
    OBVIOUS
<1>2. Append(x, c) = x \o <<c>> /\ Append(s \o x, c) = (s \o x) \o <<c>>
    BY <1>1, AppendIsConcat
<1>3. s \o (x \o <<c>>) = (s \o x) \o <<c>>
    BY <1>1, ConcatAssociative
<1>. QED  BY <1>1, <1>2, <1>3
=============================================================================

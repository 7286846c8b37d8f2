--------------------------- MODULE CStringProofs ---------------------------
(***************************************************************************)
(* What holds of the buffers for every page size, however many there are   *)
(* and however they come and go.                                           *)
(***************************************************************************)
EXTENDS CString, TLAPS

LEMMA DivMod ==
    ASSUME NEW n \in Nat, NEW d \in Nat \ {0}
    PROVE  /\ n \div d \in Nat
           /\ n % d \in 0..(d - 1)
           /\ n = (n \div d) * d + (n % d)
BY SMT

LEMMA MultipleHasNoRest ==
    ASSUME NEW q \in Nat, NEW d \in Nat \ {0}
    PROVE  q * d \in Nat /\ (q * d) % d = 0
BY SMT

LEMMA NextMultiple ==
    ASSUME NEW q \in Nat, NEW k \in Nat, NEW d \in Nat \ {0}, k > q
    PROVE  k * d >= q * d + d
BY SMT

(* A block is as long as its text, and longer if the text does not end     *)
(* with a page.                                                            *)
LEMMA RoundedIsEnough ==
    ASSUME NEW n \in Nat
    PROVE  /\ Rounded(n) \in Nat
           /\ Rounded(n) >= n
           /\ n % PageSize # 0 => Rounded(n) > n
           /\ n % PageSize = 0 => Rounded(n) = n
<1> DEFINE d == PageSize
           m == n + d - 1
           k == m \div d
           q == n \div d
<1> USE CStringAssumption
<1>1. m \in Nat /\ d \in Nat \ {0}
  OBVIOUS
<1>2. k \in Nat /\ m % d \in 0..(d - 1) /\ m = k * d + (m % d)
  BY <1>1, DivMod
<1>3. Rounded(n) = k * d
  BY DEF Rounded
<1>4. k * d \in Nat /\ (k * d) % d = 0
  BY <1>1, <1>2, MultipleHasNoRest
<1> HIDE DEF k, q
<1>5. k * d >= n /\ k * d <= n + d - 1
  BY <1>1, <1>2, <1>4
<1>6. n % d # 0 => k * d > n
  BY <1>1, <1>4, <1>5
<1>7. ASSUME n % d = 0 PROVE k * d = n
  <2>1. q \in Nat /\ n = q * d + (n % d)
    BY <1>1, DivMod DEF q
  <2>2. q * d \in Nat /\ n = q * d
    BY <1>1, <1>7, <2>1, MultipleHasNoRest
  <2>3. ~ (k > q)
    <3> SUFFICES ASSUME k > q PROVE FALSE
      OBVIOUS
    <3>1. k * d >= q * d + d
      BY <1>1, <1>2, <2>1, NextMultiple
    <3> QED BY <1>1, <1>4, <1>5, <2>2, <3>1
  <2>4. ~ (q > k)
    <3> SUFFICES ASSUME q > k PROVE FALSE
      OBVIOUS
    <3>1. q * d >= k * d + d
      BY <1>1, <1>2, <2>1, NextMultiple
    <3> QED BY <1>1, <1>4, <1>5, <2>2, <3>1
  <2>5. k = q
    BY <1>2, <2>1, <2>3, <2>4
  <2> QED BY <2>2, <2>5
<1> QED BY <1>3, <1>4, <1>5, <1>6, <1>7
-----------------------------------------------------------------------------
(* No text is empty, and a NUL in it is in it or right behind.             *)
Filled == \A b \in live : len[b] >= 1 /\ nul[b] <= len[b]

(* Two buffers never share an address, so that no text is changed by       *)
(* another, whatever is allocated and freed in between.                    *)
BuffersApart ==
    \A b, d \in live : b # d =>
        \/ Start(b) + Rounded(len[b]) <= Start(d)
        \/ Start(d) + Rounded(len[d]) <= Start(b)

(* The inductive invariant: PartialPageIsSafe needs that what lies behind  *)
(* the text in its last page is no other buffer's.                         *)
Inv == TypeOK /\ Filled /\ BuffersApart /\ PartialPageIsSafe

LEMMA StartIsNat ==
    ASSUME TypeOK, NEW b \in Buffers
    PROVE  Start(b) \in Nat /\ Rounded(len[b]) \in Nat /\ Rounded(len[b]) >= len[b]
<1>1. first[b] \in Nat /\ len[b] \in Nat
  BY DEF TypeOK
<1> QED BY <1>1, MultipleHasNoRest, RoundedIsEnough, CStringAssumption DEF Start

LEMMA InvInit == Init => Inv
BY DEF Init, Inv, TypeOK, Filled, BuffersApart, PartialPageIsSafe, NothingGot

(* A new buffer is put where no other is.                                  *)
LEMMA BuildKeepsInv ==
    ASSUME Inv, NEW b \in Buffers, Build(b)
    PROVE  Inv'
<1> USE DEF Inv
<1>1. PICK n \in 1..MaxLen, p \in 0..(NPages - 1) :
         /\ \A a \in (p * PageSize)..(p * PageSize + Rounded(n) - 1) : ~ Mapped(a)
         /\ first' = [first EXCEPT ![b] = p]
         /\ len' = [len EXCEPT ![b] = n]
         /\ \E z \in 0..n : nul' = [nul EXCEPT ![b] = z]
  BY DEF Build
<1>2. PICK z \in 0..n : nul' = [nul EXCEPT ![b] = z]
  BY <1>1
<1>3. b \notin live /\ live' = live \cup {b} /\ got' = NothingGot
  BY DEF Build
<1>4. n \in Nat /\ p \in Nat /\ z \in Nat
  BY CStringAssumption
<1>5. TypeOK'
  BY <1>1, <1>2, <1>3, <1>4 DEF TypeOK, NothingGot
<1>6. Filled'
  BY <1>1, <1>2, <1>3, <1>4 DEF Filled, TypeOK
<1>7. ASSUME NEW d \in live
      PROVE  p * PageSize + Rounded(n) <= Start(d) \/ Start(d) + Rounded(len[d]) <= p * PageSize
  <2>1. d \in Buffers /\ len[d] >= 1 /\ len[d] \in Nat
    BY DEF TypeOK, Filled
  <2>2. Start(d) \in Nat /\ Rounded(len[d]) \in Nat /\ Rounded(len[d]) >= 1
    BY <2>1, StartIsNat
  <2>3. p * PageSize \in Nat /\ Rounded(n) \in Nat /\ Rounded(n) >= 1
    BY <1>4, MultipleHasNoRest, RoundedIsEnough, CStringAssumption
  <2>4. \A a \in Start(d)..(Start(d) + Rounded(len[d]) - 1) : Mapped(a)
    BY <2>1 DEF Mapped, Holds
  <2> DEFINE q == p * PageSize
             r == Rounded(n)
             s == Start(d)
             t == Rounded(len[d])
  <2>5. \A a \in q..(q + r - 1) : a \notin s..(s + t - 1)
    BY <1>1, <2>4
  <2> HIDE DEF q, r, s, t
  <2>6. q \in Nat /\ r \in Nat /\ r >= 1 /\ s \in Nat /\ t \in Nat /\ t >= 1
    BY <2>2, <2>3 DEF q, r, s, t
  <2>7. q + r <= s \/ s + t <= q
    BY <2>5, <2>6
  <2> QED BY <2>7 DEF q, r, s, t
<1>8. BuffersApart'
  <2>1. \A d \in live : /\ Start(d)' = Start(d) /\ len'[d] = len[d]
                        /\ Rounded(len[d])' = Rounded(len[d])
    BY <1>1, <1>3 DEF Start, Rounded, TypeOK
  <2>2. /\ Start(b)' = p * PageSize
        /\ Rounded(len[b])' = Rounded(n)
    BY <1>1 DEF Start, Rounded, TypeOK
  <2> SUFFICES ASSUME NEW c \in live', NEW d \in live', c # d
               PROVE  \/ (Start(c) + Rounded(len[c]) <= Start(d))'
                      \/ (Start(d) + Rounded(len[d]) <= Start(c))'
    BY DEF BuffersApart
  <2>3. CASE c \in live /\ d \in live
    BY <2>1, <2>3 DEF BuffersApart
  <2>4. CASE c = b /\ d \in live
    BY <1>7, <2>1, <2>2, <2>4
  <2>5. CASE d = b /\ c \in live
    BY <1>7, <2>1, <2>2, <2>5
  <2> QED BY <1>3, <2>3, <2>4, <2>5
<1>9. PartialPageIsSafe'
  BY <1>3 DEF PartialPageIsSafe, NothingGot
<1> QED BY <1>5, <1>6, <1>8, <1>9

(* An address is in one buffer at most.                                    *)
LEMMA OneHolder ==
    ASSUME Inv, NEW b \in Buffers, NEW d \in Buffers, NEW a \in Nat, Holds(b, a), Holds(d, a)
    PROVE  b = d
<1>1. /\ b \in live /\ d \in live
      /\ Start(b) \in Nat /\ Rounded(len[b]) \in Nat /\ Start(d) \in Nat /\ Rounded(len[d]) \in Nat
  BY StartIsNat DEF Inv, Holds
<1>2. /\ a >= Start(b) /\ a < Start(b) + Rounded(len[b])
      /\ a >= Start(d) /\ a < Start(d) + Rounded(len[d])
  BY <1>1 DEF Holds
<1>3. b # d => \/ Start(b) + Rounded(len[b]) <= Start(d)
               \/ Start(d) + Rounded(len[d]) <= Start(b)
  BY <1>1 DEF Inv, BuffersApart
<1> QED BY <1>1, <1>2, <1>3

(* libpq meets nothing but the text and then its end.                      *)
LEMMA PQexecKeepsInv ==
    ASSUME Inv, NEW b \in Buffers, PQexec(b)
    PROVE  Inv'
<1> USE DEF Inv
<1>1. b \in live /\ UNCHANGED <<live, first, len, nul>>
  BY DEF PQexec
<1>2. PICK n \in 0..(NPages * PageSize) :
         /\ \A m \in 0..n : (Mapped(Start(b) + m) /\ ~ IsNul(Start(b) + m)) <=> m < n
         /\ got' = [buffer |-> b, taken |-> n, fault |-> ~ Mapped(Start(b) + n)]
  BY DEF PQexec
<1>3. n \in Nat
  OBVIOUS
<1>4. TypeOK'
  BY <1>1, <1>2, <1>3 DEF TypeOK
<1>5. Filled' /\ BuffersApart'
  BY <1>1 DEF Filled, BuffersApart, Start, Rounded
<1>6. ASSUME len[b] % PageSize # 0
      PROVE  n = nul[b] /\ Mapped(Start(b) + n)
  <2> DEFINE s == Start(b)
             z == nul[b]
  <2>1. /\ s \in Nat /\ z \in Nat /\ len[b] \in Nat /\ z <= len[b]
        /\ Rounded(len[b]) \in Nat /\ Rounded(len[b]) > len[b]
    BY <1>1, <1>6, StartIsNat, RoundedIsEnough DEF TypeOK, Filled
  <2>2. \A m \in 0..len[b] : Holds(b, s + m)
    BY <1>1, <2>1 DEF Holds
  <2>3. \A m \in 0..len[b] : Mapped(s + m)
    BY <2>2 DEF Mapped
  <2>4. IsNul(s + z)
    <3>1. (s + z) - Start(b) = nul[b]
      BY <2>1
    <3> QED BY <2>1, <2>2, <3>1 DEF IsNul
  <2>5. ASSUME NEW m \in 0..(z - 1) PROVE ~ IsNul(s + m)
    <3>1. m \in Nat /\ m < len[b] /\ m # nul[b] /\ s + m \in Nat /\ (s + m) - Start(b) = m
      BY <2>1
    <3>2. Holds(b, s + m)
      BY <2>1, <2>2
    <3> QED BY <2>1, <3>1, <3>2, OneHolder DEF IsNul
  <2> HIDE DEF s, z
  <2>6. \A m \in 0..n : (Mapped(s + m) /\ ~ IsNul(s + m)) <=> m < n
    BY <1>2 DEF s
  <2>7. ~ (n > z)
    BY <1>3, <2>1, <2>4, <2>6
  <2>8. ~ (n < z)
    <3> SUFFICES ASSUME n < z PROVE FALSE
      OBVIOUS
    <3>1. n \in 0..(z - 1) /\ n \in 0..len[b] /\ n \in 0..n
      BY <1>3, <2>1
    <3>2. Mapped(s + n) /\ ~ IsNul(s + n)
      BY <2>3, <2>5, <3>1
    <3> QED BY <1>3, <2>6, <3>1, <3>2
  <2>9. n = z
    BY <1>3, <2>1, <2>7, <2>8
  <2> QED BY <2>1, <2>3, <2>9 DEF s, z
<1>7. PartialPageIsSafe'
  BY <1>1, <1>2, <1>6 DEF PartialPageIsSafe
<1> QED BY <1>4, <1>5, <1>7

LEMMA ReleaseKeepsInv ==
    ASSUME Inv, NEW b \in Buffers, Release(b)
    PROVE  Inv'
<1> USE DEF Inv
<1>1. /\ live' = live \ {b} /\ got' = NothingGot
      /\ first' = [first EXCEPT ![b] = 0]
      /\ len' = [len EXCEPT ![b] = 0]
      /\ nul' = [nul EXCEPT ![b] = 0]
  BY DEF Release
<1>2. TypeOK'
  BY <1>1 DEF TypeOK, NothingGot
<1>3. \A d \in live' : /\ d \in live /\ len'[d] = len[d] /\ nul'[d] = nul[d]
                       /\ Start(d)' = Start(d)
                       /\ Rounded(len[d])' = Rounded(len[d])
  BY <1>1 DEF TypeOK, Start, Rounded
<1>4. Filled' /\ BuffersApart'
  BY <1>3 DEF Filled, BuffersApart
<1>5. PartialPageIsSafe'
  BY <1>1 DEF PartialPageIsSafe, NothingGot
<1> QED BY <1>2, <1>4, <1>5

LEMMA NextKeepsInv == Inv /\ [Next]_vars => Inv'
<1> SUFFICES ASSUME Inv, [Next]_vars PROVE Inv'
  OBVIOUS
<1>1. CASE Next
  BY <1>1, BuildKeepsInv, PQexecKeepsInv, ReleaseKeepsInv DEF Next
<1>2. CASE UNCHANGED vars
  BY <1>2 DEF vars, Inv, TypeOK, Filled, BuffersApart, PartialPageIsSafe,
     Mapped, Holds, Start, Rounded
<1> QED BY <1>1, <1>2

LEMMA InvHolds == Spec => []Inv
BY InvInit, NextKeepsInv, PTL DEF Spec

(* Every reachable state is well-formed: what libpq took last was taken    *)
(* from a buffer that is still alive, never from one that was freed.       *)
THEOREM TypeCorrect == Spec => []TypeOK
BY InvHolds, PTL DEF Inv

(* A query that does not end with a page is read by libpq as it was        *)
(* written, up to a NUL in it: with any page size, and whatever other      *)
(* buffers are alive around it.                                            *)
THEOREM PartialPagesAreSafe == Spec => []PartialPageIsSafe
BY InvHolds, PTL DEF Inv
=============================================================================

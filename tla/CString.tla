------------------------------ MODULE CString ------------------------------
(***************************************************************************)
(* The texts psql.zig builds and hands to libpq as C strings.  allocPrint  *)
(* and join make a block of exactly the length of the text, so no NUL is   *)
(* written after it; libpq reads on to the first NUL there is.  It finds   *)
(* one in what the page allocator rounds the block up to, if anything.     *)
(* An address is a number; page p is PageSize addresses from p * PageSize. *)
(***************************************************************************)
EXTENDS Naturals

CONSTANTS Buffers,   \* texts alive at once: queries, values, rows, leaked ones
          NoBuffer,
          PageSize,
          NPages,    \* bound on the address space
          MaxLen     \* bound on the length of a text

ASSUME CStringAssumption ==
    PageSize \in Nat \ {0} /\ NPages \in Nat /\ MaxLen \in Nat /\ NoBuffer \notin Buffers

VARIABLES live,   \* the buffers that are allocated
          first,  \* the first page of each
          len,    \* the length of its text
          nul,    \* where the text has a NUL in it; len if nowhere
          got     \* what libpq took the last query for

vars == <<live, first, len, nul, got>>

NothingGot == [buffer |-> NoBuffer, taken |-> 0, fault |-> FALSE]

TypeOK ==
    /\ live \in SUBSET Buffers
    /\ first \in [Buffers -> Nat]
    /\ len \in [Buffers -> Nat]
    /\ nul \in [Buffers -> Nat]
    /\ got \in [buffer : Buffers \cup {NoBuffer}, taken : Nat, fault : BOOLEAN]
    /\ got.buffer \in live \cup {NoBuffer}

Init ==
    /\ live = {}
    /\ first = [b \in Buffers |-> 0]
    /\ len = [b \in Buffers |-> 0]
    /\ nul = [b \in Buffers |-> 0]
    /\ got = NothingGot
-----------------------------------------------------------------------------
(* Mutant: an allocator that hands out the length it is asked for.         *)
RoundedExactly(n) == n

(* The page allocator maps whole pages, which the system has filled with   *)
(* zeros.                                                                  *)
Rounded(n) == ((n + PageSize - 1) \div PageSize) * PageSize

Start(b)    == first[b] * PageSize
Holds(b, a) == b \in live /\ a \in Start(b)..(Start(b) + Rounded(len[b]) - 1)
Mapped(a)   == \E b \in Buffers : Holds(b, a)

(* Past the text the block is as it was mapped.                            *)
IsNul(a) == \E b \in Buffers :
    Holds(b, a) /\ (a - Start(b) >= len[b] \/ a - Start(b) = nul[b])
-----------------------------------------------------------------------------
(* A block of n bytes on pages nobody has, and a text to fill it.          *)
Build(b) ==
    /\ b \notin live
    /\ live' = live \cup {b}
    /\ \E n \in 1..MaxLen, p \in 0..(NPages - 1) :
          /\ p * PageSize + Rounded(n) <= NPages * PageSize
          /\ \A a \in (p * PageSize)..(p * PageSize + Rounded(n) - 1) : ~ Mapped(a)
          /\ first' = [first EXCEPT ![b] = p]
          /\ len' = [len EXCEPT ![b] = n]
          /\ \E z \in 0..n : nul' = [nul EXCEPT ![b] = z]
    /\ got' = NothingGot

(* Mutant: the query is freed before it is used.                           *)
PQexecFreed(b) ==
    /\ b \in live
    /\ live' = live \ {b}
    /\ got' = [buffer |-> b, taken |-> 0, fault |-> TRUE]
    /\ UNCHANGED <<first, len, nul>>

(* libpq reads the text of b up to the first NUL, or up to an address that *)
(* is not mapped, which ends the program.                                  *)
PQexec(b) ==
    /\ b \in live
    /\ \E n \in 0..(NPages * PageSize) :
          /\ \A m \in 0..n : (Mapped(Start(b) + m) /\ ~ IsNul(Start(b) + m)) <=> m < n
          /\ got' = [buffer |-> b, taken |-> n, fault |-> ~ Mapped(Start(b) + n)]
    /\ UNCHANGED <<live, first, len, nul>>

Release(b) ==
    /\ b \in live
    /\ live' = live \ {b}
    /\ first' = [first EXCEPT ![b] = 0]
    /\ len' = [len EXCEPT ![b] = 0]
    /\ nul' = [nul EXCEPT ![b] = 0]
    /\ got' = NothingGot

Next == \E b \in Buffers : Build(b) \/ PQexec(b) \/ Release(b)
Spec == Init /\ [][Next]_vars
-----------------------------------------------------------------------------
(* libpq takes the whole text, or up to a NUL in it, and nothing else,     *)
(* whenever the text does not end with a page.  Nothing in the code sees   *)
(* to that; of a text that does, nothing is promised: what libpq reads     *)
(* behind it is whatever is mapped there.                                  *)
PartialPageIsSafe ==
    got.buffer # NoBuffer /\ len[got.buffer] % PageSize # 0 =>
        got.taken = nul[got.buffer] /\ ~ got.fault
=============================================================================

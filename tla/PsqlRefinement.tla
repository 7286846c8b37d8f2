--------------------------- MODULE PsqlRefinement ---------------------------
(***************************************************************************)
(* Psql implements KeyTable.  A client's block is its session's, except    *)
(* that a session left in COPY IN is going to abort its block at the next  *)
(* call whatever that is, so the block counts as failed from then on.      *)
(* What a lost call may still add is what the session it was sent on is    *)
(* running, so the sessions are the tickets.                               *)
(***************************************************************************)
EXTENDS Psql

InUse(c) == pc[c] \in {"ready", "exec"} /\ link[c] \in Sessions
Orphan(s) == \A c \in Clients : link[c] # s

BlockOf(s) ==
    IF txn[s] = "idle" THEN "none"
    ELSE IF phase[s] = "copyin" THEN "failed"
    ELSE txn[s]

ConnOf(c) ==
    IF pc[c] \in {"start", "dead"} THEN "closed"
    ELSE IF link[c] \in Sessions THEN "open"
    ELSE "cut"

(* The block a client is in, and what it has added there.                  *)
BlockSeenBy(c) == IF InUse(c) THEN BlockOf(link[c]) ELSE "none"
DraftOf(c) == IF BlockSeenBy(c) = "open" THEN pend[link[c]] ELSE {}

LateOf(s) ==
    IF ~ Busy(s) \/ ~ Orphan(s) THEN {}
    ELSE IF stmt[s].kind = "commit" THEN pend[s]
    ELSE IF stmt[s].kind \in InsertTexts \cup {"create"} /\ txn[s] = "idle"
    THEN {stmt[s].entry}
    ELSE {}

ResultOf(val) ==
    CASE val \in {"none", "ok"} -> val
      [] val = "PrimaryKeyDuplicate" -> "duplicate"
      [] val = "panic" -> "died"
      [] OTHER -> "failed"

Abstract == INSTANCE KeyTable WITH
    Requests  <- Statements,
    NoRequest <- NoCall.stmt,
    Tickets   <- Sessions,
    Nobody    <- NoSession,
    table <- committed,
    conn  <- [c \in Clients |-> ConnOf(c)],
    block <- [c \in Clients |-> BlockSeenBy(c)],
    draft <- [c \in Clients |-> DraftOf(c)],
    req   <- [c \in Clients |-> call[c].stmt],
    late  <- [s \in Sessions |-> LateOf(s)],
    reply <- [to  |-> answer.to,
              req |-> answer.call.stmt,
              res |-> ResultOf(answer.val)]

(* Whatever the sessions, the network and the other programs do, a program *)
(* that uses psql.zig sees the behaviour KeyTable describes: a call that   *)
(* returns has had its effect, one that fails has none and leaves nothing  *)
(* of its block, and only a call cut off may still have its effect, once.  *)
ImplementsKeyTable == Abstract!Spec
=============================================================================

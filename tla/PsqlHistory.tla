---------------------------- MODULE PsqlHistory ----------------------------
(***************************************************************************)
(* What a caller of psql.zig may conclude from the answers it got.  The    *)
(* history variables are computed from the answers alone, as a program     *)
(* that reads only return values and errors would; the properties compare  *)
(* that belief with the server's tables.                                   *)
(***************************************************************************)
EXTENDS Psql

VARIABLES inBlock,   \* the caller takes itself to be in a BEGIN block
          acked,     \* entries its block was told are in
          erred,     \* some call in the block did not return normally
          refused    \* ... with an error the server raised

historyVars == <<inBlock, acked, erred, refused>>
hvars == <<vars, historyVars>>

HistoryTypeOK ==
    /\ TypeOK
    /\ inBlock \in [Clients -> BOOLEAN]
    /\ acked \in [Clients -> SUBSET Entries]
    /\ erred \in [Clients -> BOOLEAN]
    /\ refused \in [Clients -> BOOLEAN]

HInit ==
    /\ Init
    /\ inBlock = [c \in Clients |-> FALSE]
    /\ acked = [c \in Clients |-> {}]
    /\ erred = [c \in Clients |-> FALSE]
    /\ refused = [c \in Clients |-> FALSE]
-----------------------------------------------------------------------------
(* How an answer a is read.                                                *)
Ok(a, kinds)   == a.val = "ok" /\ a.call.stmt.kind \in kinds
Begins(a)      == Ok(a, {"begin"})
Adds(a)        == Ok(a, InsertTexts \cup {"create"})
(* The block is over: ended by the caller, or with the psql value.         *)
Ends(a)        == \/ Ok(a, {"commit", "rollback"})
                  \/ a.val = "panic" \/ a.call.op \in {"init", "close"}
ServerErrors   == {"QueryFailed", "InsertionFailed", "PrimaryKeyDuplicate",
                   "SelectJoinFailed"}
(* An error for a statement the server never refuses for itself (an empty  *)
(* one, or a COPY) says nothing about the block.                           *)
Refuses(a)     == a.val \in ServerErrors /\ a.call.stmt.kind \notin {"empty", "copy"}

(* The history of client c after the answer a to it.                       *)
Starts(c, a)      == Begins(a) /\ ~ inBlock[c]
InBlockAfter(c, a) == ~ Ends(a) /\ (inBlock[c] \/ Begins(a))
AckedAfter(c, a)  == IF Ends(a) \/ Starts(c, a) \/ ~ inBlock[c] THEN {}
                     ELSE IF Adds(a) THEN acked[c] \cup {a.call.stmt.entry}
                     ELSE acked[c]
ErredAfter(c, a)  == ~ Ends(a) /\ inBlock[c] /\ (erred[c] \/ a.val # "ok")
RefusedAfter(c, a) == ~ Ends(a) /\ inBlock[c] /\ (refused[c] \/ Refuses(a))

(* What c may rely on from the answer a on: outside a block, the entry of  *)
(* a call that adds one; with a COMMIT, everything the block was told it   *)
(* had added, if no call of the block returned an error.                   *)
PromisedBy(c, a) ==
    IF Adds(a) /\ ~ inBlock[c] THEN {a.call.stmt.entry}
    ELSE IF Ok(a, {"commit"}) /\ inBlock[c] /\ ~ erred[c] THEN acked[c]
    ELSE {}

(* Reading the answer of this step, if it gave one.                        *)
Remember ==
    \/ /\ answer'.to \in Clients
       /\ LET a == answer'
              c == answer'.to
          IN  /\ inBlock' = [inBlock EXCEPT ![c] = InBlockAfter(c, a)]
              /\ acked' = [acked EXCEPT ![c] = AckedAfter(c, a)]
              /\ erred' = [erred EXCEPT ![c] = ErredAfter(c, a)]
              /\ refused' = [refused EXCEPT ![c] = RefusedAfter(c, a)]
    \/ /\ answer'.to \notin Clients
       /\ UNCHANGED historyVars

HNext == Next /\ Remember
HSpec == HInit /\ [][HNext]_hvars
-----------------------------------------------------------------------------
(* When an answer tells a caller that entries are in the table for good,   *)
(* they are, whatever the other clients do and however often connections   *)
(* are lost: the entry of an insert that returned outside a block, or all  *)
(* of a block whose COMMIT returned and none of whose calls failed.        *)
PromisesKept ==
    [][answer'.to \in Clients => PromisedBy(answer'.to, answer') \subseteq committed']_hvars

(* Once a caller has seen the server refuse a call inside a block, nothing *)
(* of the block is waiting to be committed, although the COMMIT that ends  *)
(* it will return normally.                                                *)
RefusedBlockIsEmpty ==
    \A c \in Clients :
        refused[c] /\ link[c] \in Sessions =>
            pend[link[c]] = {} /\ txn[link[c]] = "failed"

(* PrimaryKeyDuplicate is only returned for a key that is in the table, or *)
(* that the same caller's block was told it had put there; never for a     *)
(* failure of another kind.                                                *)
DuplicateIsReal ==
    answer.val = "PrimaryKeyDuplicate" =>
        answer.call.stmt.entry \in committed \cup acked[answer.to]

(* createTableFor says IF NOT EXISTS, yet two clients creating the table   *)
(* at once can fail one of them.  For a struct whose definition the server *)
(* takes, outside a block and with the connection up, it fails only when   *)
(* the table is there.                                                     *)
CreateRefusedOnlyIfThere ==
    /\ answer.call.op = "createTableFor" /\ answer.call.stmt.kind = "create"
    /\ answer.val = "QueryFailed"
    /\ link[answer.to] \in Sessions /\ ~ inBlock[answer.to]
    => Table \in committed

(* With memory enough, a program dies in insert only: of a connection that *)
(* is lost, or, with the connection up, of the rows it asked for with a    *)
(* RETURNING clause.  In the second case the row has been inserted, in the *)
(* table or in the block that is lost with the program.                    *)
DiesOnlyOfLossOrRows ==
    answer.val = "panic" =>
        \/ answer.call.op = "insert" /\ link[answer.to] = NoSession
        \/ /\ answer.call.op = "insert" /\ answer.call.stmt.kind = "returning"
           /\ answer.call.stmt.entry \in committed \cup pend[link[answer.to]]
        \/ answer.call.op \in {"select", "selectJoin"} /\ AllocMayFail

(* The README: "This function like the psql.execQuery will return whether  *)
(* the insertion was successful or not."  An insert that finds its         *)
(* connection lost does not return; nor does one that is answered with     *)
(* rows, though it was successful (DiesOnlyOfLossOrRows).                  *)
InsertAlwaysAnswers ==
    answer.call.op = "insert" => answer.val # "panic"
-----------------------------------------------------------------------------
(* Why the properties hold: what ties the caller's belief to its session,  *)
(* on top of what ties the client to it (module Psql).                     *)
Using(c)  == pc[c] \in {"ready", "exec"} /\ link[c] \in Sessions

(* The block a caller takes itself to be in is its session's, and what it  *)
(* was told has been added is there until a call of the block fails.       *)
BlockMatches(c) ==
    /\ inBlock[c] <=> txn[link[c]] # "idle"
    /\ pend[link[c]] \subseteq acked[c]
    /\ phase[link[c]] = "copyin" /\ inBlock[c] => erred[c]
    /\ inBlock[c] /\ ~ erred[c] => acked[c] \subseteq pend[link[c]] \cup committed
    /\ refused[c] => txn[link[c]] = "failed"

BlocksMatch == \A c \in Clients : Using(c) => BlockMatches(c)

OutOfUse ==
    \A c \in Clients : pc[c] \in {"start", "dead"} => ~ refused[c]

(* The invariant the proofs use: each part is needed for another one.      *)
BeliefInv ==
    /\ HistoryTypeOK
    /\ SystemInv
    /\ BlocksMatch
    /\ OutOfUse
=============================================================================

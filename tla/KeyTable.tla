------------------------------ MODULE KeyTable ------------------------------
(***************************************************************************)
(* What psql.zig promises to programs that keep entries in a table, said   *)
(* without sessions, locks, results, SQLSTATEs or COPY.  A call takes      *)
(* effect when it is answered, or it fails and has no effect.  There are   *)
(* two exceptions.  A call whose connection is lost: what it asked for may *)
(* still come, later, all of it and once, or never.  And an insert that    *)
(* asks for rows: it takes effect and is the end of the program.           *)
(***************************************************************************)
CONSTANTS Clients, Entries,
          Requests,   \* records with a kind and an entry
          NoRequest,
          Tickets,    \* lost calls that can be outstanding at once
          Nobody

VARIABLES table,  \* the entries that are in the table for good
          conn,   \* what each client has: nothing, a connection, a dead one
          block,  \* its BEGIN block, as it is or will be found to be
          draft,  \* what its open block has added
          req,    \* the call it is in
          late,   \* what each lost call may still add
          reply   \* what the last step told a client, if it did

kvars == <<table, conn, block, draft, req, late, reply>>

NoReply == [to |-> Nobody, req |-> NoRequest, res |-> "none"]

Init ==
    /\ table = {}
    /\ conn = [c \in Clients |-> "closed"]
    /\ block = [c \in Clients |-> "none"]
    /\ draft = [c \in Clients |-> {}]
    /\ req = [c \in Clients |-> NoRequest]
    /\ late = [t \in Tickets |-> {}]
    /\ reply = NoReply

Tell(c, q, res) == reply' = [to |-> c, req |-> q, res |-> res]
Idle(c) == req[c] = NoRequest
LeaveBlock(c) ==
    /\ block' = [block EXCEPT ![c] = "none"]
    /\ draft' = [draft EXCEPT ![c] = {}]
-----------------------------------------------------------------------------
Connect(c) ==
    /\ conn[c] = "closed"
    /\ \/ conn' = [conn EXCEPT ![c] = "open"] /\ Tell(c, NoRequest, "ok")
       \/ UNCHANGED conn /\ Tell(c, NoRequest, "failed")
    /\ UNCHANGED <<table, block, draft, req, late>>

(* The connection is closed; an open block is rolled back.                 *)
Disconnect(c) ==
    /\ conn[c] # "closed" /\ Idle(c)
    /\ conn' = [conn EXCEPT ![c] = "closed"]
    /\ LeaveBlock(c)
    /\ Tell(c, NoRequest, "ok")
    /\ UNCHANGED <<table, req, late>>

(* The connection is lost between two calls.                               *)
Break(c) ==
    /\ conn[c] = "open" /\ Idle(c)
    /\ conn' = [conn EXCEPT ![c] = "cut"]
    /\ LeaveBlock(c)
    /\ reply' = NoReply
    /\ UNCHANGED <<table, req, late>>

Ask(c) ==
    /\ conn[c] = "open" /\ Idle(c)
    /\ \E q \in Requests \ {NoRequest} : req' = [req EXCEPT ![c] = q]
    /\ reply' = NoReply
    /\ UNCHANGED <<table, conn, block, draft, late>>

(* A call that is not sent changes nothing.  Without a connection it may   *)
(* also be the end of the program.                                         *)
AskInVain(c) ==
    /\ conn[c] # "closed" /\ Idle(c)
    /\ \/ \E q \in Requests : Tell(c, q, "failed") /\ UNCHANGED conn
       \/ /\ conn[c] = "cut"
          /\ \E q \in Requests : Tell(c, q, "died")
          /\ conn' = [conn EXCEPT ![c] = "closed"]
    /\ UNCHANGED <<table, block, draft, req, late>>
-----------------------------------------------------------------------------
(* A call is answered.                                                     *)
Answers(c, kinds) == conn[c] = "open" /\ req[c].kind \in kinds
Finish(c, res) == Tell(c, req[c], res) /\ req' = [req EXCEPT ![c] = NoRequest]

Begun(c) ==
    /\ Answers(c, {"begin"}) /\ block[c] # "failed"
    /\ block' = [block EXCEPT ![c] = "open"]
    /\ Finish(c, "ok")
    /\ UNCHANGED <<table, conn, draft, late>>

Committed(c) ==
    /\ Answers(c, {"commit"})
    /\ table' = table \cup draft[c]
    /\ LeaveBlock(c)
    /\ Finish(c, "ok")
    /\ UNCHANGED <<conn, late>>

RolledBack(c) ==
    /\ Answers(c, {"rollback"})
    /\ LeaveBlock(c)
    /\ Finish(c, "ok")
    /\ UNCHANGED <<table, conn, late>>

(* An entry is added to the draft of an open block, or to the table: a new *)
(* one, that no other draft has either.                                    *)
Added(c) ==
    /\ Answers(c, {"insert", "create"}) /\ block[c] # "failed"
    /\ \A d \in Clients : req[c].entry \notin table \cup draft[d]
    /\ \/ /\ block[c] = "open"
          /\ draft' = [draft EXCEPT ![c] = @ \cup {req[c].entry}]
          /\ UNCHANGED table
       \/ /\ block[c] = "none"
          /\ table' = table \cup {req[c].entry}
          /\ UNCHANGED draft
    /\ Finish(c, "ok")
    /\ UNCHANGED <<conn, block, late>>

(* An insert that returns rows adds its entry like any other, but kills    *)
(* the program, and with it what its block has added.                      *)
AddedFatally(c) ==
    /\ Answers(c, {"returning"}) /\ block[c] # "failed"
    /\ \A d \in Clients : req[c].entry \notin table \cup draft[d]
    /\ table' = IF block[c] = "none" THEN table \cup {req[c].entry} ELSE table
    /\ conn' = [conn EXCEPT ![c] = "closed"]
    /\ LeaveBlock(c)
    /\ Finish(c, "died")
    /\ UNCHANGED late

(* Creating what is there is a success.                                    *)
AlreadyThere(c) ==
    /\ Answers(c, {"create"}) /\ block[c] # "failed"
    /\ req[c].entry \in table \cup draft[c]
    /\ Finish(c, "ok")
    /\ UNCHANGED <<table, conn, block, draft, late>>

(* A query changes nothing, whether its rows reach the program or kill it. *)
Queried(c) ==
    /\ Answers(c, {"select"})
    /\ \/ /\ \E res \in {"ok", "failed"} : Finish(c, res)
          /\ UNCHANGED <<conn, block, draft>>
       \/ /\ Finish(c, "died")
          /\ conn' = [conn EXCEPT ![c] = "closed"]
          /\ LeaveBlock(c)
    /\ UNCHANGED <<table, late>>

(* An error with the connection still up: the call has no effect, and      *)
(* (except for an empty one) there is nothing left of the block it was in. *)
(* It is a duplicate only for an entry that is there.                      *)
Refused(c) ==
    /\ conn[c] = "open" /\ req[c].kind \notin {"none", "commit", "rollback"}
    /\ \/ Finish(c, "failed")
       \/ /\ req[c].kind \in {"insert", "returning"} /\ req[c].entry \in table \cup draft[c]
          /\ Finish(c, "duplicate")
    /\ \/ /\ block[c] # "open" \/ req[c].kind = "empty"
          /\ UNCHANGED <<block, draft>>
       \/ /\ block[c] = "open" /\ req[c].kind # "empty"
          /\ block' = [block EXCEPT ![c] = "failed"]
          /\ draft' = [draft EXCEPT ![c] = {}]
    /\ UNCHANGED <<table, conn, late>>
-----------------------------------------------------------------------------
(* What a call would add if the answer to it is lost.                      *)
AtStake(c) ==
    IF req[c].kind = "commit" THEN draft[c]
    ELSE IF req[c].kind \in {"insert", "returning", "create"} /\ block[c] = "none"
    THEN {req[c].entry}
    ELSE {}

(* The connection is lost during a call: the program gets an error, or     *)
(* dies, and cannot know whether what is at stake comes.                   *)
Lost(c) ==
    /\ conn[c] = "open" /\ ~ Idle(c)
    /\ \/ Finish(c, "failed") /\ conn' = [conn EXCEPT ![c] = "cut"]
       \/ Finish(c, "died") /\ conn' = [conn EXCEPT ![c] = "closed"]
    /\ LeaveBlock(c)
    /\ \E t \in Tickets : late[t] = {} /\ late' = [late EXCEPT ![t] = AtStake(c)]
    /\ UNCHANGED table

(* It does come: all of it, and only what nobody has added meanwhile.      *)
ComesLate(t) ==
    /\ late[t] # {}
    /\ \A c \in Clients : late[t] \cap (table \cup draft[c]) = {}
    /\ table' = table \cup late[t]
    /\ late' = [late EXCEPT ![t] = {}]
    /\ reply' = NoReply
    /\ UNCHANGED <<conn, block, draft, req>>

(* It does not.                                                            *)
NeverComes(t) ==
    /\ late' = [late EXCEPT ![t] = {}]
    /\ reply' = NoReply
    /\ UNCHANGED <<table, conn, block, draft, req>>

Silence == reply' = NoReply /\ UNCHANGED <<table, conn, block, draft, req, late>>
-----------------------------------------------------------------------------
Next ==
    \/ \E c \in Clients :
          \/ Connect(c) \/ Disconnect(c) \/ Break(c) \/ Ask(c) \/ AskInVain(c)
          \/ Begun(c) \/ Committed(c) \/ RolledBack(c) \/ Added(c) \/ AddedFatally(c)
          \/ AlreadyThere(c) \/ Queried(c) \/ Refused(c) \/ Lost(c)
    \/ \E t \in Tickets : ComesLate(t) \/ NeverComes(t)
    \/ Silence

Spec == Init /\ [][Next]_kvars
=============================================================================

------------------------ MODULE PsqlRefinementProofs ------------------------
(***************************************************************************)
(* Psql implements KeyTable, for any number of clients, sessions and keys, *)
(* any set of functions in use, and with or without allocation failures.   *)
(* Every step of Psql is a step of KeyTable or none, by the invariant of   *)
(* the system.                                                             *)
(***************************************************************************)
EXTENDS PsqlRefinement, PsqlProofs

USE ServerAssumption, PsqlAssumption

(* What KeyTable knows of a client, or of a lost call, is what it was.     *)
ClientKept(c) ==
    /\ ConnOf(c)' = ConnOf(c) /\ BlockSeenBy(c)' = BlockSeenBy(c)
    /\ DraftOf(c)' = DraftOf(c) /\ call'[c] = call[c]

LateKept(s) == LateOf(s)' = LateOf(s)

LEMMA UntouchedClient ==
    ASSUME NEW c \in Clients,
           pc'[c] = pc[c], link'[c] = link[c], call'[c] = call[c],
           Linked(c) => /\ phase'[link[c]] = phase[link[c]] /\ txn'[link[c]] = txn[link[c]]
                        /\ pend'[link[c]] = pend[link[c]]
    PROVE  ClientKept(c)
BY DEF ClientKept, ConnOf, BlockSeenBy, DraftOf, InUse, BlockOf, Linked

LEMMA UntouchedLate ==
    ASSUME NEW s \in Sessions,
           phase'[s] = phase[s], txn'[s] = txn[s], pend'[s] = pend[s], stmt'[s] = stmt[s],
           Orphan(s)' <=> Orphan(s)
    PROVE  LateKept(s)
BY DEF LateKept, LateOf, Busy

(* A call that has not been lost is nothing that may come late.            *)
LEMMA NotLate ==
    ASSUME NEW s \in Sessions, ~ Busy(s) \/ ~ Orphan(s)
    PROVE  LateOf(s) = {}
BY DEF LateOf

(* The requests and the results KeyTable knows.                            *)
LEMMA ResultNames ==
    /\ ResultOf("none") = "none" /\ ResultOf("ok") = "ok" /\ ResultOf("panic") = "died"
    /\ ResultOf("PrimaryKeyDuplicate") = "duplicate"
    /\ \A v \in Values \ {"none", "ok", "PrimaryKeyDuplicate", "panic"} : ResultOf(v) = "failed"
BY DEF ResultOf, Values

LEMMA Silent ==
    ASSUME answer' = NoAnswer
    PROVE  [to |-> answer.to, req |-> answer.call.stmt, res |-> ResultOf(answer.val)]'
              = Abstract!NoReply
BY ResultNames DEF NoAnswer, NoCall, Bare, Abstract!NoReply
-----------------------------------------------------------------------------
LEMMA InitConnectedConnects ==
    ASSUME SystemInv, NEW c \in Clients, InitConnected(c)
    PROVE  Abstract!Connect(c)
<1> USE DEF SystemInv, TypeOK, ServerTypeOK
<1>1. PICK s \in Sessions : OpenSession(s) /\ link' = [link EXCEPT ![c] = s]
  BY DEF InitConnected
<1>2. \A d \in Clients : link[d] # s
  BY <1>1 DEF OpenSession, LinksAreOwn, Linked
<1>3. \A d \in Clients \ {c} : ClientKept(d)
  BY <1>1, <1>2, UntouchedClient DEF InitConnected, OpenSession, Linked
<1>4. \A t \in Sessions : LateKept(t)
  <2>1. \A t \in Sessions \ {s} : LateKept(t)
    <3>1. \A t \in Sessions \ {s} : Orphan(t)' <=> Orphan(t)
      BY <1>1 DEF InitConnected, CallsRun, Orphan
    <3>2. QED BY <1>1, <3>1, UntouchedLate DEF OpenSession
  <2>2. ~ Busy(s) /\ ~ Busy(s)'
    BY <1>1 DEF OpenSession, Busy
  <2>3. LateKept(s)
    BY <2>2 DEF LateKept, LateOf
  <2>4. QED BY <2>1, <2>3
<1>5. /\ ConnOf(c) = "closed" /\ ConnOf(c)' = "open"
      /\ BlockSeenBy(c)' = BlockSeenBy(c) /\ DraftOf(c)' = DraftOf(c)
  BY <1>1 DEF InitConnected, OpenSession, ConnOf, BlockSeenBy, DraftOf, BlockOf, InUse,
     PendingOnlyIfOpen
<1>6. /\ committed' = committed /\ call' = call
      /\ answer' = [to |-> c, call |-> Bare("init"), val |-> "ok"]
  BY <1>1 DEF InitConnected, OpenSession, Answer
<1>7. QED
  BY <1>3, <1>4, <1>5, <1>6, ResultNames
  DEF Abstract!Connect, Abstract!Tell, ClientKept, LateKept, NoCall, Bare

LEMMA InitFailedConnects ==
    ASSUME SystemInv, NEW c \in Clients, InitFailed(c)
    PROVE  Abstract!Connect(c)
<1>1. (\A d \in Clients : ClientKept(d)) /\ (\A s \in Sessions : LateKept(s))
  BY UntouchedClient, UntouchedLate DEF InitFailed, serverVars, Orphan
<1>2. ConnOf(c) = "closed" /\ committed' = committed
  BY DEF InitFailed, ConnOf, serverVars
<1>3. \E v \in {"ConnectionFailed", "OutOfMemory"} :
         answer' = [to |-> c, call |-> Bare("init"), val |-> v]
  BY DEF InitFailed, Answer
<1>4. [to |-> answer.to, req |-> answer.call.stmt, res |-> ResultOf(answer.val)]'
         = [to |-> c, req |-> NoCall.stmt, res |-> "failed"]
  BY <1>3, ResultNames DEF NoCall, Bare, Values
<1>5. QED
  BY <1>1, <1>2, <1>4 DEF Abstract!Connect, Abstract!Tell, ClientKept, LateKept

(* A session that a client lets go of, without being in a call, is not     *)
(* running anything that could come late.                                  *)
LEMMA LetGo ==
    ASSUME SystemInv, NEW c \in Clients, pc[c] # "exec", UNCHANGED <<serverVars, call>>,
           \A d \in Clients \ {c} : pc'[d] = pc[d] /\ link'[d] = link[d],
           link'[c] \in {link[c], NoSession}
    PROVE  /\ \A d \in Clients \ {c} : ClientKept(d)
           /\ \A s \in Sessions : LateKept(s)
<1> USE DEF SystemInv, TypeOK
<1>1. \A d \in Clients \ {c} : ClientKept(d)
  BY UntouchedClient DEF serverVars
<1>2. ASSUME NEW s \in Sessions PROVE LateKept(s)
  <2>1. CASE link[c] # s
    BY <2>1, UntouchedLate DEF serverVars, Orphan
  <2>2. CASE link[c] = s
    <3>1. ~ Busy(s) /\ ~ Busy(s)'
      BY <2>2 DEF CallsRun, Linked, Busy, serverVars
    <3>2. QED BY <3>1 DEF LateKept, LateOf
  <2>3. QED BY <2>1, <2>2
<1>3. QED BY <1>1, <1>2

LEMMA CloseDisconnects ==
    ASSUME SystemInv, NEW c \in Clients, Close(c)
    PROVE  Abstract!Disconnect(c)
<1> USE DEF SystemInv, TypeOK, Close
<1>1. (\A d \in Clients \ {c} : ClientKept(d)) /\ (\A s \in Sessions : LateKept(s))
  BY LetGo DEF serverVars
<1>2. /\ ConnOf(c) # "closed" /\ call[c] = NoCall /\ ConnOf(c)' = "closed"
      /\ BlockSeenBy(c)' = "none" /\ DraftOf(c)' = {}
  BY DEF ConnOf, BlockSeenBy, DraftOf, InUse, CallsRun
<1>3. /\ committed' = committed /\ call' = call
      /\ answer' = [to |-> c, call |-> Bare("close"), val |-> "ok"]
  BY DEF Answer, serverVars
<1>4. [to |-> answer.to, req |-> answer.call.stmt, res |-> ResultOf(answer.val)]'
         = [to |-> c, req |-> NoCall.stmt, res |-> "ok"]
  BY <1>3, ResultNames DEF NoCall, Bare
<1>5. QED
  BY <1>1, <1>2, <1>3, <1>4
  DEF Abstract!Disconnect, Abstract!Idle, Abstract!LeaveBlock, Abstract!Tell, ClientKept, LateKept

LEMMA DropIdleBreaks ==
    ASSUME SystemInv, NEW c \in Clients, DropIdle(c)
    PROVE  Abstract!Break(c) \/ Abstract!Silence
<1> USE DEF SystemInv, TypeOK, DropIdle
<1>1. (\A d \in Clients \ {c} : ClientKept(d)) /\ (\A s \in Sessions : LateKept(s))
  BY LetGo DEF serverVars
<1>2. /\ committed' = committed /\ call' = call /\ call[c] = NoCall
      /\ BlockSeenBy(c)' = "none" /\ DraftOf(c)' = {}
  BY DEF BlockSeenBy, DraftOf, InUse, CallsRun, serverVars
<1>3. CASE pc[c] = "ready"
  <2>1. ConnOf(c) = "open" /\ ConnOf(c)' = "cut"
    BY <1>3 DEF ConnOf
  <2>2. QED
    BY <1>1, <1>2, <2>1, Silent
    DEF Abstract!Break, Abstract!Idle, Abstract!LeaveBlock, ClientKept, LateKept
<1>4. CASE pc[c] = "dead"
  <2>1. /\ ConnOf(c)' = ConnOf(c) /\ BlockSeenBy(c)' = BlockSeenBy(c)
        /\ DraftOf(c)' = DraftOf(c)
    BY <1>2, <1>4 DEF ConnOf, BlockSeenBy, DraftOf, InUse
  <2>2. QED
    BY <1>1, <1>2, <2>1, Silent DEF Abstract!Silence, ClientKept, LateKept
<1>5. QED BY <1>3, <1>4

LEMMA RestartIsSilent ==
    ASSUME SystemInv, NEW c \in Clients, Restart(c)
    PROVE  Abstract!Silence
<1> USE DEF SystemInv, TypeOK, Restart
<1>1. (\A d \in Clients \ {c} : ClientKept(d)) /\ (\A s \in Sessions : LateKept(s))
  BY LetGo DEF serverVars
<1>2. ClientKept(c) /\ committed' = committed
  BY DEF ClientKept, ConnOf, BlockSeenBy, DraftOf, InUse, serverVars
<1>3. QED
  BY <1>1, <1>2, Silent DEF Abstract!Silence, ClientKept, LateKept
-----------------------------------------------------------------------------
(* A call that ends in the step it is made in.                             *)
LEMMA VainCall ==
    ASSUME SystemInv, NEW c \in Clients, NEW cl, NEW v \in Values, cl.stmt \in Statements,
           pc[c] = "ready", UNCHANGED <<serverVars, link>>,
           pc' = [pc EXCEPT ![c] = IF v = "panic" THEN "dead" ELSE "ready"],
           call' = [call EXCEPT ![c] = NoCall], Answer(c, cl, v),
           v \notin {"none", "ok", "PrimaryKeyDuplicate"},
           v = "panic" => link[c] = NoSession
    PROVE  Abstract!AskInVain(c)
<1> USE DEF SystemInv, TypeOK
<1>1. call[c] = NoCall /\ call' = call /\ committed' = committed
  BY DEF CallsRun, serverVars
<1>2. (\A d \in Clients \ {c} : ClientKept(d)) /\ (\A s \in Sessions : LateKept(s))
  BY <1>1, LetGo DEF serverVars
<1>3. BlockSeenBy(c)' = BlockSeenBy(c) /\ DraftOf(c)' = DraftOf(c)
  <2>1. CASE v = "panic"
    BY <2>1 DEF BlockSeenBy, DraftOf, InUse
  <2>2. CASE v # "panic"
    BY <2>2 DEF BlockSeenBy, DraftOf, InUse, BlockOf, serverVars
  <2>3. QED BY <2>1, <2>2
<1>4. [to |-> answer.to, req |-> answer.call.stmt, res |-> ResultOf(answer.val)]'
         = [to |-> c, req |-> cl.stmt, res |-> IF v = "panic" THEN "died" ELSE "failed"]
  BY ResultNames DEF Answer
<1>5. ConnOf(c) # "closed"
  BY DEF ConnOf
<1>6. CASE v # "panic"
  <2>1. ConnOf(c)' = ConnOf(c)
    BY <1>6 DEF ConnOf
  <2>2. QED
    BY <1>1, <1>2, <1>3, <1>4, <1>5, <1>6, <2>1
    DEF Abstract!AskInVain, Abstract!Idle, Abstract!Tell, ClientKept, LateKept
<1>7. CASE v = "panic"
  <2>1. ConnOf(c) = "cut" /\ ConnOf(c)' = "closed"
    BY <1>7 DEF ConnOf
  <2>2. [d \in Clients |-> ConnOf(d)]' = [[d \in Clients |-> ConnOf(d)] EXCEPT ![c] = "closed"]
    BY <1>2, <2>1 DEF ClientKept
  <2>3. cl.stmt \in Statements /\ Abstract!Tell(c, cl.stmt, "died")
    BY <1>1, <1>4, <1>7 DEF Abstract!Tell
  <2>4. Abstract!Idle(c)
    BY <1>1 DEF Abstract!Idle
  <2>5. QED
    BY <1>1, <1>2, <1>3, <1>5, <2>1, <2>2, <2>3, <2>4
    DEF Abstract!AskInVain, ClientKept, LateKept
<1>8. QED BY <1>6, <1>7

LEMMA RefusedCallAsksInVain ==
    ASSUME SystemInv, NEW c \in Clients, RefusedCall(c)
    PROVE  Abstract!AskInVain(c)
<1>1. PICK op \in Ops, v \in {"NotAStruct", "OutOfMemory"} : Return(c, Bare(op), v)
  BY DEF RefusedCall
<1>2. Bare(op).stmt \in Statements
  BY StatementsAreTyped DEF Bare, PlainKinds
<1>3. QED BY <1>1, <1>2, VainCall DEF RefusedCall, Return, Values

LEMMA QueryCallAsks ==
    ASSUME SystemInv, NEW c \in Clients, NEW op \in Ops, NEW st \in Statements,
           st.kind # "none", EnterPQexec(c, op, st)
    PROVE  Abstract!Ask(c) \/ Abstract!AskInVain(c)
<1> USE DEF SystemInv, TypeOK, ServerTypeOK
<1> DEFINE cl == [op |-> op, stmt |-> st]
           s == link[c]
<1>1. CASE s \in Sessions /\ Accept(s, st)
           /\ pc' = [pc EXCEPT ![c] = "exec"] /\ call' = [call EXCEPT ![c] = cl]
           /\ answer' = NoAnswer /\ UNCHANGED link
  <2>1. pc[c] = "ready" /\ call[c] = NoCall
    BY DEF EnterPQexec, CallsRun
  <2>2. \A d \in Clients \ {c} : ClientKept(d)
    BY <1>1, UntouchedClient DEF Accept, AbortBlock, LinksAreOwn, Linked
  <2>3. ASSUME NEW t \in Sessions PROVE LateKept(t)
    <3>1. CASE t # s
      BY <1>1, <3>1, UntouchedLate DEF Accept, AbortBlock, Orphan
    <3>2. CASE t = s
      BY <1>1, <3>2 DEF LateKept, LateOf, Orphan
    <3>3. QED BY <3>1, <3>2
  <2>4. ConnOf(c) = "open" /\ ConnOf(c)' = "open" /\ committed' = committed
    BY <1>1, <2>1 DEF ConnOf, Accept
  <2>5. BlockSeenBy(c)' = BlockSeenBy(c) /\ DraftOf(c)' = DraftOf(c)
    BY <1>1, <2>1 DEF BlockSeenBy, DraftOf, InUse, BlockOf, Accept, AbortBlock
  <2>6. st # NoCall.stmt
    BY DEF NoCall, Bare, Plain
  <2>7. [d \in Clients |-> call[d].stmt]' = [[d \in Clients |-> call[d].stmt] EXCEPT ![c] = st]
    BY <1>1
  <2>8. UNCHANGED <<committed, [d \in Clients |-> ConnOf(d)], [d \in Clients |-> BlockSeenBy(d)],
                    [d \in Clients |-> DraftOf(d)], [t \in Sessions |-> LateOf(t)]>>
    BY <2>2, <2>3, <2>4, <2>5 DEF ClientKept, LateKept
  <2>9. Abstract!Ask(c)
    BY <1>1, <2>1, <2>4, <2>6, <2>7, <2>8, Silent DEF Abstract!Ask, Abstract!Idle
  <2>10. QED BY <2>9
<1>2. CASE s = NoSession /\ UNCHANGED <<serverVars, link>>
           /\ \E r \in {NullResult} \cup LostResults : ReturnFrom(c, cl, r)
  <2>1. PICK r \in {NullResult} \cup LostResults : ReturnFrom(c, cl, r)
    BY <1>2
  <2>2. PICK v \in Values : Outcome(c, cl, r, v)
    BY <2>1, ReturnFromFacts
  <2>3. v \notin {"none", "ok", "PrimaryKeyDuplicate"}
    BY <2>2 DEF Outcome, NullResult, LostResults, Rejected, Succeeded
  <2>4. pc[c] = "ready" /\ cl.stmt \in Statements
    BY DEF EnterPQexec
  <2>5. QED BY <1>2, <2>2, <2>3, <2>4, VainCall DEF Outcome
<1>3. QED BY <1>1, <1>2 DEF EnterPQexec
-----------------------------------------------------------------------------
(* What the end of a call tells KeyTable.                                  *)
LEMMA CallFinishes ==
    ASSUME TypeOK, NEW c \in Clients, NEW r, NEW v, Outcome(c, call[c], r, v)
    PROVE  Abstract!Finish(c, ResultOf(v))
<1>1. answer' = [to |-> c, call |-> call[c], val |-> v] /\ call' = [call EXCEPT ![c] = NoCall]
  BY DEF Outcome, Answer
<1>2. [d \in Clients |-> call[d].stmt]'
         = [[d \in Clients |-> call[d].stmt] EXCEPT ![c] = NoCall.stmt]
  BY <1>1 DEF TypeOK
<1>3. QED BY <1>1, <1>2 DEF Abstract!Finish, Abstract!Tell

(* What KeyTable sees of an answer: of client c, from session s, by the    *)
(* statement that was running there, with result r, returned as v.         *)
Served(c, s, r, v) ==
    /\ v \in Values /\ Outcome(c, call[c], r, v) /\ CallShape(call[c])
    /\ call[c].stmt = stmt[s]
    /\ Abstract!Finish(c, ResultOf(v))
    /\ \A d \in Clients \ {c} :
          ConnOf(d)' = ConnOf(d) /\ BlockSeenBy(d)' = BlockSeenBy(d) /\ DraftOf(d)' = DraftOf(d)
    /\ \A t \in Sessions : LateKept(t)
    /\ ConnOf(c) = "open" /\ DraftOf(c) = pend[s]
    /\ BlockSeenBy(c) = IF txn[s] = "idle" THEN "none" ELSE txn[s]
    /\ v # "panic" =>
          /\ ConnOf(c)' = "open" /\ BlockSeenBy(c)' = BlockOf(s)'
          /\ DraftOf(c)' = IF BlockOf(s)' = "open" THEN pend'[s] ELSE {}
    /\ v = "panic" => ConnOf(c)' = "closed" /\ BlockSeenBy(c)' = "none" /\ DraftOf(c)' = {}

LEMMA ReplyServes ==
    ASSUME SystemInv, NEW s \in Sessions, Reply(s)
    PROVE  \E c \in Clients, r \in Replies, v \in Values : RunStatement(s, r) /\ Served(c, s, r, v)
<1> USE DEF SystemInv, TypeOK
<1>1. PICK c \in Clients, r \in Replies :
         link[c] = s /\ RunStatement(s, r) /\ ReturnFrom(c, call[c], r) /\ UNCHANGED link
  BY DEF Reply
<1>2. PICK v \in Values : Outcome(c, call[c], r, v)
  BY <1>1, ReturnFromFacts
<1>3. StatementEffect(s, r)
  BY <1>1, StatementEffects
<1>4. /\ pc[c] = "exec" /\ stmt[s] = call[c].stmt /\ CallShape(call[c])
      /\ \A d \in Clients \ {c} : link[d] # s
      /\ Busy(s)
  BY <1>1, <1>2 DEF CallsMatch, CallsRun, LinksAreOwn, Outcome, Linked
<1>5. /\ pc' = [pc EXCEPT ![c] = IF v = "panic" THEN "dead" ELSE "ready"]
      /\ call' = [call EXCEPT ![c] = NoCall]
  BY <1>2 DEF Outcome
<1>6. \A d \in Clients \ {c} : ClientKept(d)
  BY <1>1, <1>3, <1>4, <1>5, UntouchedClient DEF StatementEffect, Linked
<1>7. ASSUME NEW t \in Sessions PROVE LateKept(t)
  <2>1. CASE t # s
    BY <1>1, <1>3, <2>1, UntouchedLate DEF StatementEffect, Orphan
  <2>2. CASE t = s
    BY <1>1, <2>2 DEF LateKept, LateOf, Orphan
  <2>3. QED BY <2>1, <2>2
<1>8. /\ ConnOf(c) = "open" /\ DraftOf(c) = pend[s]
      /\ BlockSeenBy(c) = IF txn[s] = "idle" THEN "none" ELSE txn[s]
  BY <1>1, <1>4 DEF ConnOf, BlockSeenBy, DraftOf, InUse, BlockOf, PendingOnlyIfOpen, Busy,
     ServerTypeOK
<1>9. v # "panic" =>
         /\ ConnOf(c)' = "open" /\ BlockSeenBy(c)' = BlockOf(s)'
         /\ DraftOf(c)' = IF BlockOf(s)' = "open" THEN pend'[s] ELSE {}
  BY <1>1, <1>5 DEF ConnOf, BlockSeenBy, DraftOf, InUse, BlockOf
<1>10. v = "panic" => ConnOf(c)' = "closed" /\ BlockSeenBy(c)' = "none" /\ DraftOf(c)' = {}
  BY <1>1, <1>5 DEF ConnOf, BlockSeenBy, DraftOf, InUse
<1>11. Abstract!Finish(c, ResultOf(v))
  BY <1>2, CallFinishes
<1>12. QED
  BY <1>1, <1>2, <1>4, <1>6, <1>7, <1>8, <1>9, <1>10, <1>11 DEF Served, ClientKept

(* A command the server carries out is a success for every function.       *)
LEMMA CarriedOut ==
    ASSUME NEW c, NEW s, NEW r, NEW v, Served(c, s, r, v), r = Success("PGRES_COMMAND_OK"),
           stmt[s].kind \notin {"select", "bad"}
    PROVE  v = "ok" /\ Abstract!Finish(c, "ok")
BY ResultNames DEF Served, Outcome, Success, Succeeded, CallShape

(* An answer that does not kill the program leaves it its connection.      *)
LEMMA ServedGoesOn ==
    ASSUME NEW s \in Sessions, NEW c \in Clients, NEW r, NEW v, Served(c, s, r, v), v # "panic"
    PROVE  /\ UNCHANGED <<[d \in Clients |-> ConnOf(d)], [t \in Sessions |-> LateOf(t)]>>
           /\ BlockOf(s)' = BlockSeenBy(c) => UNCHANGED [d \in Clients |-> BlockSeenBy(d)]
           /\ DraftOf(c)' = DraftOf(c) => UNCHANGED [d \in Clients |-> DraftOf(d)]
           /\ [d \in Clients |-> DraftOf(d)]'
                 = [[d \in Clients |-> DraftOf(d)] EXCEPT ![c] = DraftOf(c)']
BY DEF Served, LateKept

LEMMA ReplyBegins ==
    ASSUME SystemInv, NEW s \in Sessions, NEW c \in Clients, NEW r, NEW v,
           Served(c, s, r, v), RunBegin(s, r)
    PROVE  Abstract!Begun(c)
<1>1. v = "ok" /\ Abstract!Finish(c, "ok")
  BY CarriedOut DEF RunBegin
<1>2. BlockOf(s)' = "open" /\ pend' = pend /\ committed' = committed
  BY DEF RunBegin, Answered, BlockOf, SystemInv, TypeOK, ServerTypeOK
<1>3. QED
  BY <1>1, <1>2 DEF RunBegin, Served, LateKept, Abstract!Begun, Abstract!Answers

LEMMA ReplyCommits ==
    ASSUME SystemInv, NEW s \in Sessions, NEW c \in Clients, NEW r, NEW v,
           Served(c, s, r, v), RunCommit(s, r)
    PROVE  Abstract!Committed(c)
<1>1. v = "ok" /\ Abstract!Finish(c, "ok")
  BY CarriedOut DEF RunCommit
<1>2. BlockOf(s)' = "none" /\ committed' = committed \cup pend[s]
  BY DEF RunCommit, BlockOf, SystemInv, TypeOK, ServerTypeOK
<1>3. QED
  BY <1>1, <1>2 DEF RunCommit, Served, LateKept, Abstract!Committed, Abstract!Answers,
     Abstract!LeaveBlock

LEMMA ReplyRollsBack ==
    ASSUME SystemInv, NEW s \in Sessions, NEW c \in Clients, NEW r, NEW v,
           Served(c, s, r, v), RunRollback(s, r)
    PROVE  Abstract!RolledBack(c)
<1>1. v = "ok" /\ Abstract!Finish(c, "ok")
  BY CarriedOut DEF RunRollback
<1>2. BlockOf(s)' = "none" /\ committed' = committed
  BY DEF RunRollback, BlockOf, SystemInv, TypeOK, ServerTypeOK
<1>3. QED
  BY <1>1, <1>2 DEF RunRollback, Served, LateKept, Abstract!RolledBack, Abstract!Answers,
     Abstract!LeaveBlock

(* An entry is only given to one client, whoever else is waiting for it.   *)
LEMMA ReplyAdds ==
    ASSUME SystemInv, NEW s \in Sessions, NEW c \in Clients, NEW r, NEW v,
           Served(c, s, r, v), ClaimFree(s, r), stmt[s].kind # "returning"
    PROVE  Abstract!Added(c)
<1> USE DEF SystemInv, TypeOK, ServerTypeOK
<1> DEFINE entry == stmt[s].entry
<1>1. stmt[s].kind \in {"insert", "create"}
  BY DEF ClaimFree, Claiming, InsertTexts
<1>2. v = "ok" /\ Abstract!Finish(c, "ok")
  BY <1>1, CarriedOut DEF ClaimFree
<1>3. \A t \in Sessions : entry \notin pend[t] \cup committed
  BY DEF ClaimFree, Waiting, HeldBy
<1>4. \A d \in Clients : entry \notin committed \cup DraftOf(d)
  BY <1>3 DEF DraftOf, BlockSeenBy, InUse
<1>5. txn' = txn /\ phase'[s] = "idle"
  BY DEF ClaimFree, Answered
<1>6. CASE txn[s] = "open" /\ pend' = [pend EXCEPT ![s] = @ \cup {entry}] /\ UNCHANGED committed
  <2>1. /\ BlockOf(s)' = "open" /\ BlockSeenBy(c) = "open"
        /\ DraftOf(c)' = DraftOf(c) \cup {call[c].stmt.entry}
    BY <1>2, <1>5, <1>6 DEF BlockOf, Served
  <2>2. QED
    BY <1>1, <1>2, <1>4, <1>6, <2>1, ServedGoesOn DEF Served, Abstract!Added, Abstract!Answers
<1>7. CASE txn[s] = "idle" /\ committed' = committed \cup {entry} /\ UNCHANGED pend
  <2>1. BlockOf(s)' = "none" /\ BlockSeenBy(c) = "none" /\ DraftOf(c)' = DraftOf(c)
    BY <1>2, <1>5, <1>7 DEF BlockOf, PendingOnlyIfOpen, Served
  <2>2. QED
    BY <1>1, <1>2, <1>4, <1>7, <2>1, ServedGoesOn DEF Served, Abstract!Added, Abstract!Answers
<1>8. QED BY <1>6, <1>7 DEF ClaimFree

(* An insert whose rows kill the program has added its entry; the block it *)
(* may have been in is gone with the program.                              *)
LEMMA ReplyAddsFatally ==
    ASSUME SystemInv, NEW s \in Sessions, NEW c \in Clients, NEW r, NEW v,
           Served(c, s, r, v), ClaimFree(s, r), stmt[s].kind = "returning"
    PROVE  Abstract!AddedFatally(c)
<1> USE DEF SystemInv, TypeOK, ServerTypeOK
<1> DEFINE entry == stmt[s].entry
<1>1. r = Success("PGRES_TUPLES_OK") /\ txn[s] # "failed"
  BY DEF ClaimFree, Claiming
<1>2. call[c].op = "insert"
  <2>1. call[c].op \in Functions \ {"none", "init", "close"} /\ CallShape(call[c])
        /\ call[c].stmt.kind = "returning"
    BY DEF Served, Outcome, Calls
  <2>2. QED BY <2>1 DEF CallShape, Functions, PlainKinds
<1>3. v = "panic"
  BY <1>1, <1>2 DEF Served, Outcome, Success
<1>4. Abstract!Finish(c, "died")
  BY <1>3, ResultNames DEF Served
<1>5. \A d \in Clients : entry \notin committed \cup DraftOf(d)
  BY DEF ClaimFree, Waiting, HeldBy, DraftOf, BlockSeenBy, InUse
<1>6. /\ BlockSeenBy(c) = IF txn[s] = "idle" THEN "none" ELSE txn[s]
      /\ call[c].stmt = stmt[s] /\ ConnOf(c) = "open"
  BY DEF Served
<1>7. committed' = IF BlockSeenBy(c) = "none" THEN committed \cup {entry} ELSE committed
  BY <1>6 DEF ClaimFree
<1>8. /\ Abstract!LeaveBlock(c)
      /\ [d \in Clients |-> ConnOf(d)]' = [[d \in Clients |-> ConnOf(d)] EXCEPT ![c] = "closed"]
  <2>1. /\ \A d \in Clients \ {c} : /\ ConnOf(d)' = ConnOf(d)
                                   /\ BlockSeenBy(d)' = BlockSeenBy(d)
                                   /\ DraftOf(d)' = DraftOf(d)
        /\ ConnOf(c)' = "closed" /\ BlockSeenBy(c)' = "none" /\ DraftOf(c)' = {}
    BY <1>3 DEF Served
  <2>2. QED BY <2>1 DEF Abstract!LeaveBlock
<1>9. BlockSeenBy(c) # "failed" /\ UNCHANGED [t \in Sessions |-> LateOf(t)]
  BY <1>1, <1>6 DEF Served, LateKept
<1>10. QED
  BY <1>4, <1>5, <1>6, <1>7, <1>8, <1>9 DEF Abstract!AddedFatally, Abstract!Answers

LEMMA ReplyFinds ==
    ASSUME SystemInv, NEW s \in Sessions, NEW c \in Clients, NEW r, NEW v,
           Served(c, s, r, v), CreateFindsTable(s, r)
    PROVE  Abstract!AlreadyThere(c)
<1> USE DEF SystemInv, TypeOK, ServerTypeOK
<1>1. v = "ok" /\ Abstract!Finish(c, "ok")
  BY CarriedOut DEF CreateFindsTable
<1>2. stmt[s].entry = Table
  BY DEF CreateFindsTable, Statements, Plain, PlainKinds, InsertOf, InsertTexts, CreateTable
<1>3. /\ UNCHANGED <<committed, pend, txn>> /\ phase'[s] = "idle"
      /\ (txn[s] # "open" => pend[s] = {})
  BY DEF CreateFindsTable, Answered, PendingOnlyIfOpen
<1>4. BlockOf(s)' = BlockSeenBy(c) /\ DraftOf(c)' = DraftOf(c)
  BY <1>1, <1>3 DEF BlockOf, Served
<1>5. QED
  BY <1>1, <1>2, <1>3, <1>4, ServedGoesOn
  DEF CreateFindsTable, Served, Abstract!AlreadyThere, Abstract!Answers

LEMMA ReplyQueries ==
    ASSUME SystemInv, NEW s \in Sessions, NEW c \in Clients, NEW r, NEW v,
           Served(c, s, r, v), RunSelect(s, r)
    PROVE  Abstract!Queried(c)
<1> USE DEF SystemInv, TypeOK, ServerTypeOK
<1>1. v \in {"ok", "OutOfMemory", "panic"}
  BY DEF RunSelect, Served, Outcome, Success, Succeeded, CallShape
<1>2. Abstract!Finish(c, IF v = "ok" THEN "ok" ELSE IF v = "panic" THEN "died" ELSE "failed")
  BY <1>1, ResultNames DEF Served
<1>3. /\ UNCHANGED <<committed, pend, txn>> /\ phase'[s] = "idle"
      /\ (txn[s] # "open" => pend[s] = {})
  BY DEF RunSelect, Answered, PendingOnlyIfOpen
<1>4. UNCHANGED [t \in Sessions |-> LateOf(t)] /\ Abstract!Answers(c, {"select"})
  BY DEF RunSelect, Served, LateKept, Abstract!Answers
<1>5. CASE v # "panic"
  <2>1. BlockOf(s)' = BlockSeenBy(c) /\ DraftOf(c)' = DraftOf(c)
    BY <1>3, <1>5 DEF BlockOf, Served
  <2>2. QED BY <1>2, <1>3, <1>4, <1>5, <2>1, ServedGoesOn DEF Abstract!Queried
<1>6. CASE v = "panic"
  <2>1. Abstract!LeaveBlock(c)
        /\ [d \in Clients |-> ConnOf(d)]' = [[d \in Clients |-> ConnOf(d)] EXCEPT ![c] = "closed"]
    BY <1>6 DEF Served, Abstract!LeaveBlock
  <2>2. QED BY <1>2, <1>3, <1>4, <1>6, <2>1 DEF Abstract!Queried
<1>7. QED BY <1>5, <1>6

(* An error leaves nothing of the block it happens in, whichever way it    *)
(* comes about; a COPY leaves a block that the next call will abort.       *)
LEMMA ReplyRefuses ==
    ASSUME SystemInv, NEW s \in Sessions, NEW c \in Clients, NEW r, NEW v, Served(c, s, r, v),
           \/ RunEmpty(s, r) \/ RunCopy(s, r) \/ RunBad(s, r) \/ RefuseInFailedBlock(s, r)
           \/ ClaimTaken(s, r) \/ DeadlockVictim(s, r)
    PROVE  Abstract!Refused(c)
<1> USE DEF SystemInv, TypeOK, ServerTypeOK
<1> DEFINE kind == stmt[s].kind
           Duplicate == v = "PrimaryKeyDuplicate"
           after == IF txn[s] = "idle" THEN "none" ELSE "failed"
<1>1. /\ call[c].stmt = stmt[s] /\ CallShape(call[c]) /\ Outcome(c, call[c], r, v)
      /\ v \in Values /\ Abstract!Finish(c, ResultOf(v)) /\ ConnOf(c) = "open"
      /\ DraftOf(c) = pend[s] /\ BlockSeenBy(c) = IF txn[s] = "idle" THEN "none" ELSE txn[s]
  BY DEF Served
<1> HIDE DEF kind, Duplicate, after
<1>2. /\ committed' = committed /\ kind \notin {"none", "commit", "rollback"}
      /\ Duplicate => kind \in InsertTexts /\ stmt[s].entry \in committed \cup pend[s]
      /\ v \notin {"none", "ok", "panic"}
  <2> USE <1>1 DEF kind, Duplicate, Outcome, CallShape, Success, Rejected, Succeeded, InsertTexts
  <2>1. CASE RunEmpty(s, r) BY <2>1 DEF RunEmpty
  <2>2. CASE RunCopy(s, r) BY <2>2 DEF RunCopy
  <2>3. CASE RunBad(s, r) BY <2>3 DEF RunBad
  <2>4. CASE RefuseInFailedBlock(s, r)
    BY <2>4 DEF RefuseInFailedBlock, CallsRun, CallsMatch, Served
  <2>5. CASE ClaimTaken(s, r) BY <2>5 DEF ClaimTaken, Claiming
  <2>6. CASE DeadlockVictim(s, r) BY <2>6 DEF DeadlockVictim, Waiting, Claiming
  <2>7. QED BY <2>1, <2>2, <2>3, <2>4, <2>5, <2>6
<1>3. /\ kind = "empty" => BlockOf(s)' = BlockSeenBy(c) /\ pend'[s] = pend[s]
      /\ kind # "empty" => BlockOf(s)' = after
  <2> USE <1>1 DEF kind, after, BlockOf, Answered, AbortBlock, PendingOnlyIfOpen, InsertTexts
  <2>1. CASE RunEmpty(s, r) BY <2>1 DEF RunEmpty
  <2>2. CASE RunCopy(s, r) BY <2>2 DEF RunCopy
  <2>3. CASE RunBad(s, r) BY <2>3 DEF RunBad
  <2>4. CASE RefuseInFailedBlock(s, r) BY <2>4 DEF RefuseInFailedBlock
  <2>5. CASE ClaimTaken(s, r) BY <2>5 DEF ClaimTaken, Claiming
  <2>6. CASE DeadlockVictim(s, r) BY <2>6 DEF DeadlockVictim, Waiting, Claiming
  <2>7. QED BY <2>1, <2>2, <2>3, <2>4, <2>5, <2>6
<1>4. /\ kind = "empty" => DraftOf(c)' = DraftOf(c)
      /\ kind # "empty" => DraftOf(c)' = {}
      /\ BlockSeenBy(c) # "open" => DraftOf(c) = {}
  BY <1>1, <1>2, <1>3 DEF after, Served, PendingOnlyIfOpen
<1>5. \/ Abstract!Finish(c, "failed")
      \/ kind \in InsertTexts /\ stmt[s].entry \in committed \cup pend[s] /\ Abstract!Finish(c, "duplicate")
  BY <1>1, <1>2, ResultNames DEF Duplicate
<1>6. /\ BlockSeenBy(c) # "open" \/ kind = "empty" =>
           BlockOf(s)' = BlockSeenBy(c) /\ DraftOf(c)' = DraftOf(c)
      /\ BlockSeenBy(c) = "open" /\ kind # "empty" =>
           BlockOf(s)' = "failed" /\ DraftOf(c)' = {}
  BY <1>1, <1>3, <1>4 DEF after
<1>7. [d \in Clients |-> BlockSeenBy(d)]'
         = [[d \in Clients |-> BlockSeenBy(d)] EXCEPT ![c] = BlockOf(s)']
  BY <1>2 DEF Served
<1>8. QED
  BY <1>1, <1>2, <1>5, <1>6, <1>7, ServedGoesOn DEF kind, Abstract!Refused, InsertTexts

(* Whatever a session answers its client is one of KeyTable's answers.     *)
LEMMA ReplyAnswers ==
    ASSUME SystemInv, NEW s \in Sessions, Reply(s)
    PROVE  Abstract!Next
<1>1. PICK c \in Clients, r \in Replies, v \in Values : RunStatement(s, r) /\ Served(c, s, r, v)
  BY ReplyServes
<1>2. \/ Abstract!Begun(c) \/ Abstract!Committed(c) \/ Abstract!RolledBack(c) \/ Abstract!Added(c)
      \/ Abstract!AddedFatally(c) \/ Abstract!AlreadyThere(c) \/ Abstract!Queried(c) \/ Abstract!Refused(c)
  BY <1>1, ReplyBegins, ReplyCommits, ReplyRollsBack, ReplyAdds, ReplyAddsFatally, ReplyFinds,
     ReplyQueries, ReplyRefuses DEF RunStatement
<1>3. QED BY <1>2 DEF Abstract!Next
-----------------------------------------------------------------------------
(* The connection is lost during a call: what its session is running is    *)
(* what may come late.                                                     *)
LEMMA DropInCallLoses ==
    ASSUME SystemInv, NEW c \in Clients, DropInCall(c)
    PROVE  Abstract!Lost(c)
<1> USE DEF SystemInv, TypeOK, ServerTypeOK
<1>1. PICK s \in Sessions :
         /\ link[c] = s /\ Busy(s) /\ stmt[s] = call[c].stmt /\ call[c].stmt # NoCall.stmt
         /\ \A d \in Clients \ {c} : link[d] # s
  BY DEF DropInCall, CallsRun, CallsMatch, LinksAreOwn, Linked, NoCall, Bare, Plain
<1>2. PICK r \in LostResults : ReturnFrom(c, call[c], r)
  BY DEF DropInCall
<1>3. PICK v \in Values : Outcome(c, call[c], r, v)
  BY <1>2, ReturnFromFacts
<1>4. v \notin {"none", "ok", "PrimaryKeyDuplicate"}
  BY <1>3 DEF Outcome, LostResults, Rejected, Succeeded
<1>5. /\ Abstract!Finish(c, IF v = "panic" THEN "died" ELSE "failed")
      /\ pc' = [pc EXCEPT ![c] = IF v = "panic" THEN "dead" ELSE "ready"]
      /\ call' = [call EXCEPT ![c] = NoCall]
  <2>1. ResultOf(v) = IF v = "panic" THEN "died" ELSE "failed"
    BY <1>4, ResultNames
  <2>2. Abstract!Finish(c, ResultOf(v))
    BY <1>3, CallFinishes
  <2>3. QED BY <1>3, <2>1, <2>2 DEF Outcome
<1>6. /\ link' = [link EXCEPT ![c] = NoSession]
      /\ UNCHANGED <<committed, phase, txn, pend, stmt>>
  BY DEF DropInCall, serverVars
<1>7. \A d \in Clients \ {c} : ClientKept(d)
  BY <1>5, <1>6, UntouchedClient
<1>8. /\ ConnOf(c) = "open" /\ BlockSeenBy(c)' = "none" /\ DraftOf(c)' = {}
      /\ ConnOf(c)' = IF v = "panic" THEN "closed" ELSE "cut"
  BY <1>1, <1>5, <1>6 DEF DropInCall, ConnOf, BlockSeenBy, DraftOf, InUse
<1>9. LateOf(s) = {} /\ (\A t \in Sessions \ {s} : LateKept(t))
  <2>1. ~ Orphan(s) /\ \A t \in Sessions \ {s} : Orphan(t)' <=> Orphan(t)
    BY <1>1, <1>6 DEF Orphan
  <2>2. QED BY <1>1, <1>6, <2>1, NotLate, UntouchedLate
<1>10. LateOf(s)' = Abstract!AtStake(c)
  <2>1. Busy(s)' /\ Orphan(s)'
    BY <1>1, <1>6 DEF Busy, Orphan
  <2>2. /\ DraftOf(c) = pend[s]
        /\ BlockSeenBy(c) = "none" <=> txn[s] = "idle"
    BY <1>1 DEF DropInCall, DraftOf, BlockSeenBy, BlockOf, InUse, PendingOnlyIfOpen, Busy
  <2>3. QED BY <1>1, <1>6, <2>1, <2>2 DEF LateOf, Abstract!AtStake, InsertTexts
<1>11. Abstract!LeaveBlock(c)
  <2>1. [d \in Clients |-> BlockSeenBy(d)]'
           = [[d \in Clients |-> BlockSeenBy(d)] EXCEPT ![c] = "none"]
    BY <1>7, <1>8 DEF ClientKept
  <2>2. [d \in Clients |-> DraftOf(d)]' = [[d \in Clients |-> DraftOf(d)] EXCEPT ![c] = {}]
    BY <1>7, <1>8 DEF ClientKept
  <2>3. QED BY <2>1, <2>2 DEF Abstract!LeaveBlock
<1>12. [d \in Clients |-> ConnOf(d)]'
          = [[d \in Clients |-> ConnOf(d)] EXCEPT ![c] = IF v = "panic" THEN "closed" ELSE "cut"]
  BY <1>7, <1>8 DEF ClientKept
<1>13. [t \in Sessions |-> LateOf(t)]'
          = [[t \in Sessions |-> LateOf(t)] EXCEPT ![s] = Abstract!AtStake(c)]
  BY <1>1, <1>9, <1>10 DEF LateKept
<1>14. ConnOf(c) = "open" /\ ~ Abstract!Idle(c)
  BY <1>1, <1>8 DEF Abstract!Idle
<1>15. \/ /\ Abstract!Finish(c, "failed")
          /\ [d \in Clients |-> ConnOf(d)]' = [[d \in Clients |-> ConnOf(d)] EXCEPT ![c] = "cut"]
       \/ /\ Abstract!Finish(c, "died")
          /\ [d \in Clients |-> ConnOf(d)]' = [[d \in Clients |-> ConnOf(d)] EXCEPT ![c] = "closed"]
  <2>1. CASE v = "panic"
    BY <1>5, <1>12, <2>1
  <2>2. CASE v # "panic"
    BY <1>5, <1>12, <2>2
  <2>3. QED BY <2>1, <2>2
<1>16. [t \in Sessions |-> LateOf(t)][s] = {}
  BY <1>9
<1>17. \E t \in Sessions : /\ [u \in Sessions |-> LateOf(u)][t] = {}
                          /\ [u \in Sessions |-> LateOf(u)]'
                               = [[u \in Sessions |-> LateOf(u)] EXCEPT ![t] = Abstract!AtStake(c)]
  BY <1>13, <1>16
<1>18. [d \in Clients |-> ConnOf(d)][c] = "open"
  BY <1>14
<1>19. QED
  BY <1>6, <1>11, <1>14, <1>15, <1>17, <1>18 DEF Abstract!Lost
-----------------------------------------------------------------------------
(* What a session does that nobody is linked to.                           *)
Unseen(s) ==
    /\ \A d \in Clients : ClientKept(d)
    /\ \A t \in Sessions \ {s} : LateKept(t)
    /\ LateOf(s)' = {}
    /\ answer' = NoAnswer

LEMMA UnseenNeverComes ==
    ASSUME NEW s \in Sessions, Unseen(s), committed' = committed
    PROVE  Abstract!NeverComes(s)
BY Silent DEF Unseen, Abstract!NeverComes, ClientKept, LateKept

(* What is added late is all that was at stake, and nobody has it yet.     *)
LEMMA UnseenComesLate ==
    ASSUME NEW s \in Sessions, Unseen(s), committed' = committed \cup LateOf(s),
           LateOf(s) \cap committed = {}, \A d \in Clients : LateOf(s) \cap DraftOf(d) = {}
    PROVE  Abstract!ComesLate(s) \/ Abstract!NeverComes(s)
<1>1. CASE LateOf(s) = {}
  BY <1>1, UnseenNeverComes
<1>2. CASE LateOf(s) # {}
  <2>1. \A d \in Clients : LateOf(s) \cap (committed \cup DraftOf(d)) = {}
    OBVIOUS
  <2>2. QED BY <1>2, <2>1, Silent DEF Unseen, Abstract!ComesLate, ClientKept, LateKept
<1>3. QED BY <1>1, <1>2

LEMMA ReplyLostComesLate ==
    ASSUME SystemInv, NEW s \in Sessions, ReplyLost(s)
    PROVE  Abstract!ComesLate(s) \/ Abstract!NeverComes(s)
<1> USE DEF SystemInv, TypeOK, ServerTypeOK
<1>1. PICK r \in Replies : RunStatement(s, r)
  BY DEF ReplyLost
<1>2. StatementEffect(s, r)
  BY <1>1, StatementEffects
<1>3. Orphan(s) /\ Busy(s) /\ ~ Busy(s)' /\ answer' = NoAnswer /\ UNCHANGED <<pc, link, call>>
  BY <1>2 DEF ReplyLost, Orphan, Busy, StatementEffect
<1>4. Unseen(s)
  <2>1. \A d \in Clients : ClientKept(d)
    BY <1>2, <1>3, UntouchedClient DEF StatementEffect, Orphan, Linked
  <2>2. \A t \in Sessions \ {s} : LateKept(t)
    BY <1>2, <1>3, UntouchedLate DEF StatementEffect, Orphan
  <2>3. LateOf(s)' = {}
    BY <1>3 DEF LateOf
  <2>4. QED BY <1>3, <2>1, <2>2, <2>3 DEF Unseen
<1>5. \A d \in Clients : DraftOf(d) = {} \/ \E t \in Sessions \ {s} : DraftOf(d) = pend[t]
  BY <1>3 DEF DraftOf, BlockSeenBy, InUse, Orphan
<1>6. CASE committed' = committed
  BY <1>4, <1>6, UnseenNeverComes
<1>7. CASE RunCommit(s, r)
  <2>1. LateOf(s) = pend[s] /\ committed' = committed \cup pend[s]
    BY <1>3, <1>7 DEF LateOf, RunCommit
  <2>2. LateOf(s) \cap committed = {} /\ \A d \in Clients : LateOf(s) \cap DraftOf(d) = {}
    BY <1>5, <2>1 DEF EntriesAreUnique
  <2>3. QED BY <1>4, <2>1, <2>2, UnseenComesLate
<1>8. CASE ClaimFree(s, r) /\ txn[s] = "idle" /\ committed' = committed \cup {stmt[s].entry}
  <2>1. stmt[s].kind \in InsertTexts \cup {"create"} /\ \A t \in Sessions : stmt[s].entry \notin pend[t] \cup committed
    BY <1>8 DEF ClaimFree, Claiming, Waiting, HeldBy
  <2>2. LateOf(s) = {stmt[s].entry}
    BY <1>3, <1>8, <2>1 DEF LateOf, InsertTexts
  <2>3. LateOf(s) \cap committed = {} /\ \A d \in Clients : LateOf(s) \cap DraftOf(d) = {}
    BY <1>5, <2>1, <2>2
  <2>4. QED BY <1>4, <1>8, <2>2, <2>3, UnseenComesLate
<1>9. QED
  BY <1>1, <1>6, <1>7, <1>8 DEF RunStatement, RunBegin, RunRollback, RunEmpty, RunSelect, RunCopy,
     RunBad, RefuseInFailedBlock, ClaimFree, ClaimTaken, DeadlockVictim, CreateFindsTable

LEMMA ReapNeverComes ==
    ASSUME SystemInv, NEW s \in Sessions, Reap(s)
    PROVE  Abstract!NeverComes(s)
<1> USE DEF SystemInv, TypeOK, ServerTypeOK, Reap, EndSession
<1>1. \A d \in Clients : ClientKept(d)
  BY UntouchedClient DEF Linked
<1>2. \A t \in Sessions \ {s} : LateKept(t)
  BY UntouchedLate DEF Orphan
<1>3. LateOf(s)' = {}
  BY DEF LateOf, Busy
<1>4. QED BY <1>1, <1>2, <1>3, UnseenNeverComes DEF Unseen

LEMMA LookupIsSilent ==
    ASSUME SystemInv, NEW s \in Sessions, Lookup(s)
    PROVE  Abstract!Silence
<1> USE DEF SystemInv, TypeOK, ServerTypeOK, Lookup, CreateLookup
<1>1. \A d \in Clients : ClientKept(d)
  BY DEF ClientKept, ConnOf, BlockSeenBy, DraftOf, InUse, BlockOf
<1>2. \A t \in Sessions : LateKept(t)
  BY DEF LateKept, LateOf, Busy, Orphan
<1>3. QED BY <1>1, <1>2, Silent DEF Abstract!Silence, ClientKept, LateKept
-----------------------------------------------------------------------------
LEMMA InitRefines == Init => Abstract!Init
<1> SUFFICES ASSUME Init PROVE Abstract!Init
  OBVIOUS
<1>1. \A c \in Clients : ConnOf(c) = "closed" /\ BlockSeenBy(c) = "none" /\ DraftOf(c) = {}
                          /\ call[c] = NoCall
  BY DEF Init, ConnOf, BlockSeenBy, DraftOf, InUse
<1>2. \A s \in Sessions : LateOf(s) = {}
  BY DEF Init, ServerInit, LateOf, Busy
<1>3. [to |-> answer.to, req |-> answer.call.stmt, res |-> ResultOf(answer.val)] = Abstract!NoReply
  BY ResultNames DEF Init, NoAnswer, NoCall, Bare, Abstract!NoReply
<1>4. QED BY <1>1, <1>2, <1>3 DEF Abstract!Init, Init, ServerInit

LEMMA StepRefines == SystemInv /\ [Next]_vars => [Abstract!Next]_Abstract!kvars
<1> SUFFICES ASSUME SystemInv, [Next]_vars PROVE Abstract!Next \/ UNCHANGED Abstract!kvars
  OBVIOUS
<1>1. CASE UNCHANGED vars
  BY <1>1 DEF vars, serverVars, clientVars, Abstract!kvars, ConnOf, BlockSeenBy, DraftOf, InUse,
     BlockOf, LateOf, Busy, Orphan, ResultOf
<1>2. ASSUME NEW c \in Clients, CallerStep(c) PROVE Abstract!Next
  <2>1. CASE InitConnected(c) \/ InitFailed(c) \/ Close(c) \/ RefusedCall(c)
    BY <2>1, InitConnectedConnects, InitFailedConnects, CloseDisconnects, RefusedCallAsksInVain
    DEF Abstract!Next
  <2>2. CASE \/ ExecQueryCall(c) \/ SelectCall(c) \/ SelectJoinCall(c)
             \/ InsertCall(c) \/ CreateTableForCall(c)
    <3>1. PICK op \in Ops, st \in Statements : st.kind # "none" /\ EnterPQexec(c, op, st)
      BY <2>2, QueryCalls
    <3>2. QED BY <3>1, QueryCallAsks DEF Abstract!Next
  <2>3. QED BY <1>2, <2>1, <2>2 DEF CallerStep
<1>3. ASSUME NEW c \in Clients, EnvironmentStep(c) PROVE Abstract!Next
  BY <1>3, DropInCallLoses, DropIdleBreaks, RestartIsSilent DEF EnvironmentStep, Abstract!Next
<1>4. ASSUME NEW s \in Sessions, ServerStep(s) PROVE Abstract!Next
  BY <1>4, ReplyAnswers, ReplyLostComesLate, ReapNeverComes, LookupIsSilent
  DEF ServerStep, Abstract!Next
<1>5. QED BY <1>1, <1>2, <1>3, <1>4 DEF Next

(* Whatever the sessions, the network and the other programs do, a call    *)
(* that returns has had its effect, one that fails has none and leaves     *)
(* nothing of its block, and only a call cut off may still have its        *)
(* effect, once: for any number of clients, sessions and keys.             *)
THEOREM Implements == Spec => ImplementsKeyTable
<1>1. QED
  BY InitRefines, StepRefines, SystemInvariant, PTL DEF Spec, ImplementsKeyTable, Abstract!Spec
=============================================================================

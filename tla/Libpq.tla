------------------------------- MODULE Libpq -------------------------------
(***************************************************************************)
(* What psql.zig sees of a PGresult: whether the pointer is NULL, the      *)
(* status PQresultStatus reports and the SQLSTATE PQresultErrorField       *)
(* reports.  libpq is a binary beside the code, so this is a model of how  *)
(* psql.zig uses it: no wording, no error text, no column data.            *)
(***************************************************************************)

(* The statuses psql.zig can be handed.  PGRES_FATAL_ERROR is also what    *)
(* PQresultStatus answers for a NULL result.                               *)
ExecStatus == {"PGRES_EMPTY_QUERY", "PGRES_COMMAND_OK", "PGRES_TUPLES_OK",
               "PGRES_COPY_IN", "PGRES_FATAL_ERROR"}

(* "none" is the NULL pointer PQresultErrorField returns when the error    *)
(* was not sent by the server.  23505 unique violation, 25P02 the block is *)
(* already aborted, 40P01 deadlock victim, 57P01 the server is hanging up, *)
(* 42601 any other rejection.                                              *)
SqlStates == {"none", "23505", "25P02", "40P01", "57P01", "42601"}

Results == [obj : BOOLEAN, status : ExecStatus, sqlstate : SqlStates]

Success(status)   == [obj |-> TRUE, status |-> status, sqlstate |-> "none"]
Rejected(state)   == [obj |-> TRUE, status |-> "PGRES_FATAL_ERROR", sqlstate |-> state]

(* PQexec on a connection that is gone: NULL if it knew already, else a    *)
(* result libpq makes up itself, with no SQLSTATE, or the last word of a   *)
(* server that hung up.                                                    *)
NullResult  == [obj |-> FALSE, status |-> "PGRES_FATAL_ERROR", sqlstate |-> "none"]
LostResults == {[obj |-> TRUE, status |-> "PGRES_FATAL_ERROR", sqlstate |-> "none"],
                Rejected("57P01")}

(* The results a server can send.                                          *)
Replies == {Success(st) : st \in ExecStatus \ {"PGRES_FATAL_ERROR"}}
             \cup {Rejected(q) : q \in SqlStates \ {"none"}}
=============================================================================

------------------------------ MODULE ConnInfo ------------------------------
(***************************************************************************)
(* The connection string: psql.init joins the caller's parameters to one   *)
(* text without quoting them, and libpq takes the text apart again.  A     *)
(* text is a sequence of characters, of which those libpq gives a meaning  *)
(* to are told apart; a keyword counts as one character.                   *)
(***************************************************************************)
EXTENDS Naturals, SequencesExt

CONSTANT MaxText   \* bound on the length of all the values together

ASSUME ConnInfoAssumption == MaxText \in Nat

VARIABLES connectionString,  \* the parameters init was given
          asked,             \* what libpq asks the server for, if it does
          outcome            \* what init has returned

vars == <<connectionString, asked, outcome>>

Order    == <<"dbname", "user", "password", "host", "port">>
Keywords == Range(Order)
Special  == {"letter", "blank", "quote", "backslash", "equals"}
Texts    == Seq(Keywords \cup Special \cup {"5432"})

(* The port is a u16, so its text is never empty and never special.        *)
Params(dbname, user, password, host) ==
    [k \in Keywords |->
        CASE k = "dbname" -> dbname [] k = "user" -> user
          [] k = "password" -> password [] k = "host" -> host
          [] k = "port" -> <<"5432">>]

NotAsked == [k \in {} |-> <<>>]

TypeOK ==
    /\ connectionString \in [Keywords -> Texts]
    /\ asked = NotAsked \/ asked \in [Keywords -> Texts]
    /\ outcome \in {"none", "ok", "ConnectionFailed"}
    /\ outcome = "ok" => asked # NotAsked

(* Every way to share out at most MaxText characters among the values.     *)
Init ==
    /\ \E word \in BoundedSeq(Special, MaxText) :
       \E i \in 0..Len(word) : \E j \in i..Len(word) : \E k \in j..Len(word) :
          connectionString = Params(SubSeq(word, 1, i), SubSeq(word, i + 1, j),
                                    SubSeq(word, j + 1, k), SubSeq(word, k + 1, Len(word)))
    /\ asked = NotAsked
    /\ outcome = "none"
-----------------------------------------------------------------------------
(* Mutant: the values are put between quotes, and not escaped.             *)
JoinQuoted(params) ==
    LET given(k) == <<k, "equals", "quote">> \o params[k] \o <<"quote">>
        and(chars, k) == chars \o <<"blank">> \o given(k)
    IN  and(and(and(and(given("dbname"), "user"), "password"), "host"), "port")

(* Mutant: the space between two parameters is forgotten.                  *)
JoinTight(params) ==
    LET given(k) == <<k, "equals">> \o params[k]
    IN  given("dbname") \o given("user") \o given("password") \o given("host") \o given("port")

(* "dbname=... user=... password=... host=... port=..."                    *)
Given(params, k)      == <<k, "equals">> \o params[k]
And(chars, params, k) == (chars \o <<"blank">>) \o Given(params, k)

Join(params) ==
    And(And(And(And(Given(params, "dbname"), params, "user"), params, "password"),
            params, "host"), params, "port")
-----------------------------------------------------------------------------
(* libpq's reading of it.  `name` and `text` are the keyword and the value *)
(* being read; a parameter that is not named has the empty text, which     *)
(* libpq replaces by its default, as it does for one that is given empty.  *)
Unread == [mode |-> "name", name |-> <<>>, text |-> <<>>,
           values |-> [k \in Keywords |-> <<>>]]

Store(st) == [mode |-> "name", name |-> <<>>, text |-> <<>>,
              values |-> [st.values EXCEPT ![st.name[1]] = st.text]]
Go(st, mode)   == [st EXCEPT !.mode = mode]
Take(st, mode, ch) == [mode |-> mode, name |-> st.name, text |-> Append(st.text, ch),
                       values |-> st.values]

ReadName(st, ch) ==
    CASE ch = "equals" -> Go(st, IF \E k \in Keywords : st.name = <<k>>
                                 THEN "start" ELSE "error")
      [] ch = "blank"  -> IF st.name = <<>> THEN st ELSE Go(st, "named")
      [] OTHER         -> IF st.mode = "named" THEN Go(st, "error")
                          ELSE [st EXCEPT !.name = Append(@, ch)]

ReadValue(st, ch) ==
    CASE st.mode = "start" /\ ch = "blank"       -> st
      [] st.mode = "start" /\ ch = "quote"       -> Go(st, "quoted")
      [] st.mode = "plain" /\ ch = "blank"       -> Store(st)
      [] st.mode = "quoted" /\ ch = "quote"      -> Store(st)
      [] st.mode = "quoted" /\ ch = "backslash"  -> Go(st, "quoted escape")
      [] st.mode = "quoted escape"               -> Take(st, "quoted", ch)
      [] st.mode \in {"start", "plain"} /\ ch = "backslash" -> Go(st, "escape")
      [] st.mode = "quoted" /\ ch \notin {"quote", "backslash"} -> Take(st, "quoted", ch)
      [] OTHER                                   -> Take(st, "plain", ch)

ReadChar(st, ch) ==
    CASE st.mode = "error"             -> st
      [] st.mode \in {"name", "named"} -> ReadName(st, ch)
      [] OTHER                         -> ReadValue(st, ch)

ReadEnd(st) ==
    CASE st.mode \in {"start", "plain", "escape"} -> Store(st)
      [] st.mode = "name" /\ st.name = <<>>       -> st
      [] OTHER                                    -> Go(st, "error")

ReadAll(chars) ==
    LET read[n \in 0..Len(chars)] ==
          IF n = 0 THEN Unread ELSE ReadChar(read[n - 1], chars[n])
    IN  read[Len(chars)]

conninfo_parse(chars) == ReadEnd(ReadAll(chars))
-----------------------------------------------------------------------------
(* Mutant: the status of the connection is not looked at.                  *)
initUnchecked ==
    /\ outcome = "none"
    /\ asked' = NotAsked
    /\ outcome' = "ok"
    /\ UNCHANGED connectionString

(* init.  A string libpq cannot read, and a server that cannot be reached  *)
(* or refuses, are the same to the caller.                                 *)
init ==
    /\ outcome = "none"
    /\ LET read == conninfo_parse(Join(connectionString)) IN
       \/ /\ read.mode = "error"
          /\ outcome' = "ConnectionFailed"
          /\ UNCHANGED asked
       \/ /\ read.mode # "error"
          /\ asked' = read.values
          /\ outcome' \in {"ok", "ConnectionFailed"}
    /\ UNCHANGED connectionString

Next == init
Spec == Init /\ [][Next]_vars
-----------------------------------------------------------------------------
AsGiven == asked = connectionString

Blankless(text) == \A i \in DOMAIN text : text[i] # "blank"
Unescaped(text) == \A i \in DOMAIN text : text[i] # "backslash"
Quoted(text)    == text # <<>> /\ text[1] = "quote"
Plain(text)     == text # <<>> /\ Blankless(text) /\ Unescaped(text) /\ ~ Quoted(text)

(* A psql value is connected with the parameters its connectionString      *)
(* holds exactly when each of them is non-empty and has no blank, no       *)
(* backslash and no quote in front.                                        *)
AsGivenIfPlain ==
    outcome = "ok" => (AsGiven <=> \A k \in Keywords : Plain(connectionString[k]))

(* The parameters that are taken by the one in front of them, and what     *)
(* libpq gets for each, if none is misread otherwise.                      *)
Taken(params) ==
    LET taken[i \in DOMAIN Order] == i > 1 /\ params[Order[i - 1]] = <<>> /\ ~ taken[i - 1]
    IN  taken

Got(params, i) ==
    IF Taken(params)[i] THEN <<>>
    ELSE IF params[Order[i]] # <<>> THEN params[Order[i]]
    ELSE Given(params, Order[i + 1])

(* An empty parameter, as the tests have three of them, is no default: it  *)
(* silently takes the next "keyword=value" for its value, and it is the    *)
(* next one that is left to the default.  Of two empty ones in a row the   *)
(* second goes with the first, and the port goes with an empty host.       *)
EmptyTakesNext ==
    /\ outcome # "none"
    /\ \A k \in Keywords : connectionString[k] = <<>> \/ Plain(connectionString[k])
    => /\ asked # NotAsked
       /\ \A i \in DOMAIN Order : asked[Order[i]] = Got(connectionString, i)

(* libpq objects to the string itself only for a blank or a quote in a     *)
(* value.  Whatever else is misread connects, or fails, as something the   *)
(* caller did not ask for.                                                 *)
RefusedOnlyForBlankOrQuote ==
    outcome # "none" /\ asked = NotAsked =>
        \E k \in Keywords : ~ Blankless(connectionString[k]) \/ Quoted(connectionString[k])
=============================================================================

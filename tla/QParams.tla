------------------------------ MODULE QParams ------------------------------
(***************************************************************************)
(* psql.QParams: the loop that writes a tuple of Zig values as the list    *)
(* between the parentheses of INSERT ... VALUES (...), and how PostgreSQL  *)
(* reads that list.  A text is a sequence of characters of which only the  *)
(* single quote matters; a number is written as one digit; ", " is one     *)
(* character.  Allocation failures are in module Memory.                   *)
(***************************************************************************)
EXTENDS Naturals, SequencesExt

CONSTANTS MaxValues,  \* bound on the length of the tuple
          MaxText     \* bound on the length of a text

ASSUME QParamsAssumption == MaxValues \in Nat /\ MaxText \in Nat

VARIABLES values,  \* the values of the tuple the loop has been through
          first,   \* no value with a fixed type has been written yet
          out      \* what has been written

vars == <<values, first, out>>

(* The types QParams writes.  A value of the first group has its type      *)
(* given by the caller; the type of one of the second group is guessed.    *)
(* Of any other type nothing is written: "other" stands for i64, bool,     *)
(* optionals and the like, "array" for a pointer to an array that is not   *)
(* a string literal.                                                       *)
Typed     == {"i32", "f32", "[]const u8"}
Guessed   == {"comptime_int", "comptime_float", "literal"}
Supported == Typed \cup Guessed
TextTypes == {"[]const u8", "literal"}

Texts  == BoundedSeq({"quote", "letter"}, MaxText)
Values == [type : TextTypes, text : Texts]
            \cup [type : (Supported \ TextTypes) \cup {"array", "other"}, text : {<<"digit">>}]

Chars == {"quote", "letter", "digit", "comma"}

TypeOK ==
    /\ values \in Seq(Values) /\ Len(values) <= MaxValues
    /\ first \in BOOLEAN
    /\ out \in Seq(Chars)

Init ==
    /\ values = <<>>
    /\ first = TRUE
    /\ out = <<>>
-----------------------------------------------------------------------------
(* Mutant: the quote is not doubled.                                       *)
escapeNothing(str) == str

(* escapeString doubles every quote.                                       *)
escapeString(str) ==
    LET escaped[n \in 0..Len(str)] ==
          IF n = 0 THEN <<>>
          ELSE escaped[n - 1] \o (IF str[n] = "quote" THEN <<"quote", "quote">> ELSE <<str[n]>>)
    IN  escaped[Len(str)]

Separator == IF first THEN <<>> ELSE <<"comma">>

(* Mutant: the sentinel of a string is written with it.                    *)
WrittenWithSentinel(value) ==
    IF value.type \in TextTypes
    THEN <<"quote">> \o escapeString(value.text) \o <<"nul", "quote">>
    ELSE value.text

(* A text between quotes, or a number.                                     *)
Written(value) ==
    IF value.type \in TextTypes
    THEN <<"quote">> \o escapeString(value.text) \o <<"quote">>
    ELSE value.text

NextValue(value) ==
    /\ Len(values) < MaxValues
    /\ values' = Append(values, value)

(* Mutant: the loop forgets that it has written a value.                   *)
AppendTypedStillFirst(value) ==
    /\ value.type \in Typed
    /\ NextValue(value)
    /\ out' = out \o Separator \o Written(value)
    /\ UNCHANGED first

(* A value of type i32, f32 or []const u8.                                 *)
AppendTyped(value) ==
    /\ value.type \in Typed
    /\ NextValue(value)
    /\ out' = out \o Separator \o Written(value)
    /\ first' = FALSE

(* A value of a guessed type: `first` stays what it was.                   *)
AppendGuessed(value) ==
    /\ value.type \in Guessed
    /\ NextValue(value)
    /\ out' = out \o Separator \o Written(value)
    /\ UNCHANGED first

(* A value of any other type is passed over.                               *)
Skip(value) ==
    /\ value.type \notin Supported
    /\ NextValue(value)
    /\ UNCHANGED <<first, out>>

Next == \E value \in Values : AppendTyped(value) \/ AppendGuessed(value) \/ Skip(value)
Spec == Init /\ [][Next]_vars
-----------------------------------------------------------------------------
(* How PostgreSQL reads the list: numbers and quoted texts with a comma    *)
(* between them; a doubled quote in a text is one quote.                   *)
AtLast(items, ch) == [items EXCEPT ![Len(items)] = Append(@, ch)]

ReadChar(st, ch) ==
    CASE st.mode = "value" /\ ch = "digit" ->
            [mode |-> "number", items |-> Append(st.items, <<ch>>)]
      [] st.mode = "value" /\ ch = "quote" ->
            [mode |-> "text", items |-> Append(st.items, <<>>)]
      [] st.mode = "number" /\ ch = "digit" ->
            [mode |-> "number", items |-> AtLast(st.items, ch)]
      [] st.mode = "text" /\ ch = "quote" ->
            [mode |-> "closing", items |-> st.items]
      [] st.mode = "text" /\ ch # "quote" ->
            [mode |-> "text", items |-> AtLast(st.items, ch)]
      [] st.mode = "closing" /\ ch = "quote" ->
            [mode |-> "text", items |-> AtLast(st.items, ch)]
      [] st.mode \in {"number", "closing"} /\ ch = "comma" ->
            [mode |-> "value", items |-> st.items]
      [] OTHER ->
            [mode |-> "error", items |-> st.items]

ReadList(chars) ==
    LET read[n \in 0..Len(chars)] ==
          IF n = 0 THEN [mode |-> "value", items |-> <<>>]
          ELSE ReadChar(read[n - 1], chars[n])
    IN  read[Len(chars)]

(* The loop may end after any value, so every state is one QParams can     *)
(* return in.                                                              *)
WrittenOf(vals) ==
    LET written[n \in 0..Len(vals)] ==
          IF n = 0 THEN <<>>
          ELSE IF vals[n].type \in Supported THEN Append(written[n - 1], vals[n])
          ELSE written[n - 1]
    IN  written[Len(vals)]

Wanted == WrittenOf(values)

ReadsAs(end, vals) ==
    /\ end.mode \in {"number", "closing"}
    /\ end.items = [i \in DOMAIN vals |-> vals[i].text]

ReadBack == IF out = <<>> THEN Wanted = <<>> ELSE ReadsAs(ReadList(out), Wanted)
-----------------------------------------------------------------------------
(* PostgreSQL reads back the values that were given, quotes and all, if    *)
(* and only if at most one was written or the first written one had its    *)
(* type given.  (Two guessed integers are read as one number, two string   *)
(* literals as one text with a quote in it.)                               *)
FirstIsTyped == Wanted[1].type \in Typed

ReadBackWhenFirstIsTyped == ReadBack <=> Len(Wanted) <= 1 \/ FirstIsTyped

(* Why: the flag is down once a value with a given type was written; what  *)
(* was written without separators behind a guessed first value is read as  *)
(* fewer values than were given, or not at all, and stays so.              *)
NothingWritten == Wanted = <<>> /\ out = <<>> /\ first

AsGiven ==
    /\ Wanted # <<>>
    /\ ReadsAs(ReadList(out), Wanted)
    /\ IF first THEN Len(Wanted) = 1 /\ ~ FirstIsTyped ELSE FirstIsTyped

Confused ==
    /\ Len(Wanted) > 1 /\ ~ FirstIsTyped
    /\ LET end == ReadList(out)
       IN  \/ end.mode = "error"
           \/ end.mode \in {"number", "closing"} /\ Len(end.items) < Len(Wanted)

(* The inductive invariant: every list is one of the three.                *)
ReadingInv == TypeOK /\ (NothingWritten \/ AsGiven \/ Confused)

(* Whatever the separators do, no character of a text ever stands outside  *)
(* the quotes: a reader that follows only the quotes meets letters inside  *)
(* them only, and the list ends outside.                                   *)
Turned(side) == IF side = "outside" THEN "inside" ELSE "outside"

Side(chars) ==
    LET side[n \in 0..Len(chars)] ==
          IF n = 0 THEN "outside"
          ELSE IF chars[n] = "quote" THEN Turned(side[n - 1]) ELSE side[n - 1]
    IN  side

TextStaysQuoted ==
    /\ \A n \in DOMAIN out : out[n] = "letter" => Side(out)[n] = "inside"
    /\ \A n \in DOMAIN out : out[n] \in {"digit", "comma"} => Side(out)[n] = "outside"
    /\ Side(out)[Len(out)] = "outside"

(* "This function makes sure that the values are properly formatted": the  *)
(* list QParams returns is read as the values it was given.                *)
ProperlyFormatted == ReadBack
=============================================================================

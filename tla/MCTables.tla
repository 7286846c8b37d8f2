------------------------------ MODULE MCTables ------------------------------
EXTENDS Tables

Field(name, type)        == [name |-> name, type |-> type]
Struct(typeName, fields) == [typeName |-> typeName, fields |-> fields]

(* A struct of each kind: one that fits, two that share its last name (one *)
(* of them after folding), one with floats, one with a field that is not   *)
(* written in the middle, columns that collide, a reserved name, no field  *)
(* and a generic type's.                                                   *)
MCStructs == {
    Struct(<<"main", ".", "Post">>, <<Field("id", "i32"), Field("name", "[]const u8")>>),
    Struct(<<"admin", ".", "Post">>, <<Field("id", "i32"), Field("at", "f32")>>),
    Struct(<<"main", ".", "post">>, <<Field("name", "[]const u8"), Field("id", "i32")>>),
    Struct(<<"main", ".", "Item">>,
           <<Field("id", "i32"), Field("size", "i64"), Field("name", "[]const u8")>>),
    Struct(<<"main", ".", "Flag">>, <<Field("on", "bool")>>),
    Struct(<<"Both">>, <<Field("id", "i32"), Field("Id", "i32")>>),
    Struct(<<"main", ".", "Unit">>, <<>>),
    Struct(<<"main", ".", "User">>, <<Field("id", "i32")>>),
    Struct(<<"main", ".", "List(", "main", ".", "Post)">>, <<Field("id", "i32")>>)}

MCLower ==
    [Post |-> "post", Item |-> "item", Flag |-> "flag", Unit |-> "unit",
     Both |-> "both", User |-> "user", Id |-> "id"]
      @@ [w \in {"post", "item", "flag", "unit", "both", "user", "main", "admin",
                 "id", "name", "at", "size", "on"} |-> w]
=============================================================================

----------------------------- MODULE SqlValues ------------------------------
(***************************************************************************)
(* Values on their way into a database and out of it: fields bound as      *)
(* parameters (param.rs, memdb.rs, postgres.rs, mysql.rs) and columns      *)
(* decoded into fields (postgres.rs, mysql.rs, query_util.rs).             *)
(*                                                                         *)
(* A field is [is |-> its kind, form |-> form, n |-> content], a column    *)
(* [ty |-> the name of its type, form |-> form, n |-> content].  The form  *)
(* tells a value itself from its decimal digits, its text, the hex digits  *)
(* of its bytes and its Rust debug text.                                   *)
(***************************************************************************)
EXTENDS Integers

CONSTANT MaxI64     \* i64::MAX

ASSUME WidthAssumption == MaxI64 \in Nat

MinI64 == - MaxI64 - 1
MaxUnsigned == 2 * MaxI64 + 1
I64 == MinI64..MaxI64

Value(is, n) == [is |-> is, form |-> "value", n |-> n]
Chars(form, n) == [is |-> "chars", form |-> form, n |-> n]
NullField == Value("null", 0)
Column(ty, form, n) == [ty |-> ty, form |-> form, n |-> n]
NullColumn == Column("NULL", "value", 0)

\* Kinds of fields that are bound by their text, and by their debug text.
TextKinds == {"chars", "symbol", "time", "hex", "ipnet", "ip", "domain", "url",
              "email", "idcard", "phone"}
DebugKinds == {"obj", "array"}

-----------------------------------------------------------------------------
(***************************************************************************)
(* Binding: the column a value is sent as                                  *)
(***************************************************************************)

TextOf(f, ty) ==
    Column(ty, IF f.is \in DebugKinds THEN "debug" ELSE IF f.is = "chars" THEN f.form ELSE "text", f.n)

bind_postgres_field(f) ==
    CASE f.is = "bool" -> Column("BOOL", "value", f.n)
      [] f.is = "int" -> Column("INT8", "value", f.n)
      [] f.is = "big" -> Column("NUMERIC", "value", f.n)
      [] f.is = "float" -> Column("FLOAT8", "value", f.n)
      [] f.is \in {"null", "ignore"} -> NullColumn
      [] OTHER -> TextOf(f, "TEXT")

bind_mysql_field(f) ==
    CASE f.is = "bool" -> Column("BOOLEAN", "value", f.n)
      [] f.is = "int" -> Column("BIGINT", "value", f.n)
      [] f.is = "big" -> Column("DECIMAL", "value", f.n)
      [] f.is = "float" -> Column("DOUBLE", "value", f.n)
      [] f.is \in {"null", "ignore"} -> NullColumn
      [] OTHER -> TextOf(f, "VARCHAR")

\* SQLite has no boolean, and no integer past i64: such a one goes as digits.
to_sql(f) ==
    CASE f.is \in {"bool", "int"} -> Column("INTEGER", "value", f.n)
      [] f.is = "big" -> Column("TEXT", "decimal", f.n)
      [] f.is = "float" -> Column("REAL", "value", f.n)
      [] f.is \in {"null", "ignore"} -> NullColumn
      [] OTHER -> TextOf(f, "TEXT")

\* named_params_to_fields: what SQLite would be sent, as a field again, for
\* the other providers to bind.
named_params_to_fields(f) ==
    LET out == to_sql(f)
    IN  CASE out.ty = "NULL" -> NullField
          [] out.ty = "INTEGER" -> Value("int", out.n)
          [] out.ty = "REAL" -> Value("float", out.n)
          [] OTHER -> Chars(out.form, out.n)

\* Through a QueryRequest, whose values are Null, Bool, Int, Float and Text: an
\* integer past i64 goes as digits.
QueryValue(val, f) == [val |-> val, form |-> f.form, n |-> f.n]

fields_to_params(f) ==
    CASE f.is \in {"null", "ignore"} -> QueryValue("Null", NullField)
      [] f.is = "bool" -> QueryValue("Bool", f)
      [] f.is = "int" -> QueryValue("Int", f)
      [] f.is = "float" -> QueryValue("Float", f)
      [] f.is = "big" -> QueryValue("Text", Chars("decimal", f.n))
      [] OTHER -> QueryValue("Text", TextOf(f, "TEXT"))

params_to_fields(p) ==
    CASE p.val = "Null" -> NullField
      [] p.val = "Bool" -> Value("bool", p.n)
      [] p.val = "Int" -> Value("int", p.n)
      [] p.val = "Float" -> Value("float", p.n)
      [] p.val = "Text" -> Chars(p.form, p.n)

-----------------------------------------------------------------------------
(***************************************************************************)
(* Decoding                                                                *)
(***************************************************************************)

Shown(c) == Chars(IF c.form = "value" THEN "decimal" ELSE c.form, c.n)

PgInts == {"INT2", "INT4", "INT8", "OID"}

map_value_postgres(c) ==
    CASE c.ty = "NULL" -> NullField
      [] c.ty = "BOOL" -> Value("bool", c.n)
      [] c.ty \in PgInts -> Value("int", c.n)
      [] c.ty \in {"FLOAT4", "FLOAT8"} -> Value("float", c.n)
      [] c.ty = "BYTEA" -> Chars("hex", c.n)
      [] OTHER -> Shown(c)      \* NUMERIC, network, time, JSON and text types

MySqlSigned == {"TINYINT", "SMALLINT", "MEDIUMINT", "INT", "INTEGER", "BIGINT", "YEAR"}
MySqlUnsigned == {"TINYINT UNSIGNED", "SMALLINT UNSIGNED", "MEDIUMINT UNSIGNED",
                  "INT UNSIGNED", "BIGINT UNSIGNED", "BIT"}
MySqlBinary == {"BINARY", "VARBINARY", "BLOB", "TINYBLOB", "MEDIUMBLOB", "LONGBLOB"}

\* Mutant: the value is cast, and wraps.
UnsignedCast(n) == Value("int", ((n - MinI64) % (MaxUnsigned + 1)) + MinI64)

\* Past i64 the digits are kept, as text.
UnsignedToField(n) == IF n <= MaxI64 THEN Value("int", n) ELSE Chars("decimal", n)

map_value_mysql(c) ==
    CASE c.ty = "NULL" -> NullField
      [] c.ty \in MySqlSigned \cup {"BOOLEAN"} -> Value("int", c.n)
      [] c.ty \in MySqlUnsigned -> UnsignedToField(c.n)
      [] c.ty \in {"FLOAT", "DOUBLE"} -> Value("float", c.n)
      [] c.ty \in MySqlBinary -> Chars("hex", c.n)
      [] OTHER -> Shown(c)      \* DECIMAL, time, JSON and text types

map_value_sqlite(c) ==
    CASE c.ty = "NULL" -> NullField
      [] c.ty = "INTEGER" -> Value("int", c.n)
      [] c.ty = "REAL" -> Value("float", c.n)
      [] OTHER -> Chars(c.form, c.n)

-----------------------------------------------------------------------------
(***************************************************************************)
(* Meaning                                                                 *)
(***************************************************************************)

\* What a rule makes of a field: a number, whether it comes as one or as
\* digits, a text, or nothing.
Meaning(f) ==
    IF f.is \in {"null", "ignore"} THEN <<"nothing">>
    ELSE IF f.is \in {"bool", "int", "big", "float"} \/ f.form = "decimal" THEN <<"number", f.n>>
    ELSE IF f.is \in DebugKinds THEN <<"debug", f.n>>
    ELSE IF f.is = "chars" THEN <<f.form, f.n>>
    ELSE <<"text", f.n>>

\* Every field a caller can bind.
Fields ==
    {Value("bool", n) : n \in 0..1} \cup {Value("int", n) : n \in I64}
      \cup {Value("big", n) : n \in 0 .. MaxUnsigned + 1} \cup {Value("float", n) : n \in I64}
      \cup {Value("null", 0), Value("ignore", 0)}
      \cup {Chars("text", 0)} \cup {Value(k, 0) : k \in (TextKinds \ {"chars"}) \cup DebugKinds}

\* What comes back from the database a field was bound for.
Echo(db, f) ==
    CASE db = "postgres" -> map_value_postgres(bind_postgres_field(f))
      [] db = "mysql" -> map_value_mysql(bind_mysql_field(f))
      [] db = "sqlite" -> map_value_sqlite(to_sql(f))
=============================================================================

------------------------ MODULE HostFunctionsProofs -------------------------
(***************************************************************************)
(* Proofs about HostFunctions: the intranet networks, for any addresses    *)
(* and configurations; the values of parameters and columns, for any width *)
(* of integers; the blocks of addresses, for any number of bits; the       *)
(* labels of refresh templates, for any period, bucket and clock; and the  *)
(* scans and the placeholders of statements, for any text.                 *)
(***************************************************************************)
EXTENDS HostFunctions, TLAPS, FiniteSetTheorems, SequenceTheorems, WellFoundedInduction

\* Every step keeps what is evaluated: it is chosen once.
InputInv ==
    /\ kind = "phase" => input \in Phases /\ now \in Nat
    /\ kind = "value" => input \in Fields
    /\ kind = "cidr" => input \in Cidrs

LEMMA InputInvHolds == FunctionsSpec => []InputInv
  <1>1. FunctionsInit => InputInv
    BY FunctionsAssumption DEF FunctionsInit, InputInv, TextKind
  <1>2. InputInv /\ [FunctionsNext]_allVars => InputInv'
    BY DEF InputInv, FunctionsNext, Write, Tick, Judge, allVars, functionVars, Phases
  <1> QED BY <1>1, <1>2, PTL DEF FunctionsSpec

-----------------------------------------------------------------------------
(***************************************************************************)
(* The intranet networks.  The set is built from the configuration of some *)
(* moment and stays, so that all answers are answers of this set.          *)
(***************************************************************************)
NetsBuilt == [v4 : SUBSET Networks, v6 : SUBSET Networks]

NetsInv ==
    /\ netsConf \in NetConfs \cup {NoConf}
    /\ judged \in [Addresses -> SUBSET BOOLEAN]
    /\ netsSet = Unbuilt => \A a \in Addresses : judged[a] = {}
    /\ netsSet # Unbuilt =>
         /\ netsSet \in NetsBuilt
         /\ \A a \in Addresses : judged[a] \subseteq {InNets(netsSet, Unmapped(a))}
         /\ \/ /\ {n \in Builtin : n.v = 4} \subseteq netsSet.v4
               /\ {n \in Builtin : n.v = 6} \subseteq netsSet.v6
            \/ \E conf \in NetConfs : /\ conf.enabled /\ conf.mode = "replace"
                                      /\ netsSet = split_nets(conf.nets \ {Invalid})

\* What the initializer builds: the builtin networks are in it, or a section
\* that replaces them is the configuration.
LEMMA BuiltNets ==
    ASSUME netsConf \in NetConfs \cup {NoConf}
    PROVE  /\ BuiltSet \in NetsBuilt
           /\ \/ /\ {n \in Builtin : n.v = 4} \subseteq BuiltSet.v4
                 /\ {n \in Builtin : n.v = 6} \subseteq BuiltSet.v6
              \/ \E conf \in NetConfs : /\ conf.enabled /\ conf.mode = "replace"
                                        /\ BuiltSet = split_nets(conf.nets \ {Invalid})
  <1>1. \A S \in SUBSET Networks :
           /\ split_nets(S) \in NetsBuilt
           /\ split_nets(S).v4 = {n \in S : n.v = 4}
           /\ split_nets(S).v6 = {n \in S : n.v = 6}
    BY DEF split_nets, NetsBuilt
  <1>2. Builtin \in SUBSET Networks
    BY DEF Networks
  <1>3. CASE ~ (netsConf # NoConf /\ netsConf.enabled)
    <2>1. BuiltSet = split_nets(Builtin)
      BY <1>3 DEF BuiltSet
    <2> QED BY <1>1, <1>2, <2>1
  <1>4. CASE netsConf # NoConf /\ netsConf.enabled
    <2>1. netsConf \in NetConfs
      BY <1>4
    <2> DEFINE own == split_nets(netsConf.nets \ {Invalid})
    <2>2. netsConf.nets \ {Invalid} \in SUBSET Networks
      BY <2>1 DEF Networks
    <2>3. own \in NetsBuilt
      BY <1>1, <2>2
    <2>4. BuiltSet = IF netsConf.mode = "replace" THEN own
                     ELSE [v4 |-> split_nets(Builtin).v4 \cup own.v4,
                           v6 |-> split_nets(Builtin).v6 \cup own.v6]
      BY <1>4 DEF BuiltSet, Merge
    <2>5. CASE netsConf.mode = "replace"
      BY <1>4, <2>1, <2>3, <2>4, <2>5
    <2> HIDE DEF own
    <2>6. CASE netsConf.mode # "replace"
      <3>1. /\ BuiltSet.v4 = split_nets(Builtin).v4 \cup own.v4
            /\ BuiltSet.v6 = split_nets(Builtin).v6 \cup own.v6
        BY <2>4, <2>6
      <3>2. BuiltSet \in NetsBuilt
        BY <1>1, <1>2, <2>3, <2>4, <2>6 DEF NetsBuilt
      <3> QED BY <1>1, <1>2, <3>1, <3>2
    <2> QED BY <2>5, <2>6
  <1> QED BY <1>3, <1>4

\* A first use builds the set, and the set a use finds stays.
LEMMA UsedNets ==
    ASSUME NetsInv, netsSet' = TheSet, netsConf' = netsConf,
           judged' \in [Addresses -> SUBSET BOOLEAN],
           \A a \in Addresses :
              judged'[a] \subseteq judged[a] \cup {InNets(TheSet, Unmapped(a))}
    PROVE  NetsInv'
  <1>1. TheSet # Unbuilt
    BY BuiltNets, NetsAssumption DEF NetsInv, TheSet, NetsBuilt
  <1>2. /\ TheSet \in NetsBuilt
        /\ \/ /\ {n \in Builtin : n.v = 4} \subseteq TheSet.v4
              /\ {n \in Builtin : n.v = 6} \subseteq TheSet.v6
           \/ \E conf \in NetConfs : /\ conf.enabled /\ conf.mode = "replace"
                                     /\ TheSet = split_nets(conf.nets \ {Invalid})
    BY BuiltNets DEF NetsInv, TheSet
  <1>3. \A a \in Addresses : judged[a] \subseteq {InNets(TheSet, Unmapped(a))}
    BY DEF NetsInv, TheSet
  <1>4. \A a \in Addresses : judged'[a] \subseteq {InNets(netsSet', Unmapped(a))}
    BY <1>3
  <1> QED BY <1>1, <1>2, <1>4 DEF NetsInv

LEMMA NetsInvHolds == NetsSpec => []NetsInv
  <1>1. NetsInit => NetsInv
    BY DEF NetsInit, NetsInv
  <1>2. NetsInv /\ [NetsNext]_netVars => NetsInv'
    <2> SUFFICES ASSUME NetsInv, [NetsNext]_netVars PROVE NetsInv'
      OBVIOUS
    <2>1. ASSUME NEW conf \in NetConfs \cup {NoConf}, SetConf(conf) PROVE NetsInv'
      BY <2>1 DEF SetConf, NetsInv
    <2>2. ASSUME NEW a \in Addresses, IsIntranet(a) PROVE NetsInv'
      <3>1. judged' = [judged EXCEPT ![a] = judged[a] \cup {InNets(TheSet, Unmapped(a))}]
        BY <2>2 DEF IsIntranet
      <3>2. InNets(TheSet, Unmapped(a)) \in BOOLEAN
        BY DEF InNets
      <3>3. judged \in [Addresses -> SUBSET BOOLEAN]
        BY DEF NetsInv
      <3>4. /\ judged' \in [Addresses -> SUBSET BOOLEAN]
            /\ \A b \in Addresses :
                 judged'[b] \subseteq judged[b] \cup {InNets(TheSet, Unmapped(b))}
        BY <3>1, <3>2, <3>3
      <3> QED BY <2>2, <3>4, UsedNets DEF IsIntranet
    <2>3. CASE InitNets
      BY <2>3, UsedNets DEF InitNets, NetsInv
    <2>4. CASE UNCHANGED netVars
      BY <2>4 DEF netVars, NetsInv
    <2> QED BY <2>1, <2>2, <2>3, <2>4 DEF NetsNext
  <1> QED BY <1>1, <1>2, PTL DEF NetsSpec

\* However often the configuration is parsed again and whoever uses the networks
\* first, a host has one answer for the life of the process, the same in both
\* forms of an IPv4 address.
THEOREM HostsKeepTheirSide == NetsSpec => []OneAnswerPerHost
  <1>1. NetsInv => OneAnswerPerHost
    <2> SUFFICES ASSUME NetsInv, NEW a \in Addresses, NEW b \in Addresses,
                        Unmapped(a) = Unmapped(b)
                 PROVE  Cardinality(judged[a] \cup judged[b]) <= 1
      BY DEF OneAnswerPerHost
    <2> DEFINE answer == InNets(netsSet, Unmapped(a))
    <2>1. judged[a] \cup judged[b] \subseteq {answer}
      BY DEF NetsInv
    <2>2. IsFiniteSet({answer}) /\ Cardinality({answer}) = 1
      BY FS_Singleton
    <2> HIDE DEF answer
    <2> QED BY <2>1, <2>2, FS_Subset
  <1> QED BY NetsInvHolds, <1>1, PTL

\* No configuration but one that is enabled, replaces the networks and was the
\* last one parsed before the first use puts a host of a builtin network outside.
THEOREM BuiltinHostsStayInside == NetsSpec => []BuiltinStayInside
  <1>1. NetsInv => BuiltinStayInside
    <2> SUFFICES ASSUME NetsInv, NEW a \in Addresses, FALSE \in judged[a],
                        NEW n \in Builtin, Unmapped(a) \in n.has
                 PROVE  \E conf \in NetConfs :
                           conf.enabled /\ conf.mode = "replace"
                             /\ netsSet = split_nets(conf.nets \ {Invalid})
      BY DEF BuiltinStayInside
    <2>1. netsSet # Unbuilt
      BY DEF NetsInv
    <2>2. ~ InNets(netsSet, Unmapped(a))
      BY <2>1 DEF NetsInv
    <2>3. n.v \in {4, 6} /\ Unmapped(a).v = n.v
      BY NetsAssumption
    <2>4. ~ (/\ {m \in Builtin : m.v = 4} \subseteq netsSet.v4
             /\ {m \in Builtin : m.v = 6} \subseteq netsSet.v6)
      BY <2>2, <2>3 DEF InNets
    <2> QED BY <2>1, <2>4 DEF NetsInv
  <1> QED BY NetsInvHolds, <1>1, PTL

\* What is exercised beside the networks leaves them alone: the theorems about
\* NetsSpec are theorems about this specification.
THEOREM FunctionsImplementNets == FunctionsSpec => NetsSpec
  <1>1. FunctionsInit => NetsInit
    BY DEF FunctionsInit
  <1>2. [FunctionsNext]_allVars => [NetsNext]_netVars
    BY DEF FunctionsNext, Write, Tick, Judge, allVars, functionVars, netVars
  <1> QED BY <1>1, <1>2, PTL DEF FunctionsSpec, NetsSpec

-----------------------------------------------------------------------------
(***************************************************************************)
(* Values.  A field means the same after a round trip when it is one of    *)
(* the forms that binding knows; every way of giving parameters makes such *)
(* a field of the same meaning of it.                                      *)
(***************************************************************************)
Numbers == {"bool", "int", "big", "float"}
Nulls == {"null", "ignore"}
Forms == {"text", "decimal", "debug"}
FieldKinds == Numbers \cup Nulls \cup (TextKinds \ {"chars"}) \cup DebugKinds

Bindable(f) ==
    \/ \E k \in FieldKinds, n \in Int : f = Value(k, n)
    \/ \E form \in Forms, n \in Int : f = Chars(form, n)

\* What becomes of a field: a number stays one or goes as digits, a null is a
\* null, and everything else is a text.
Kept(f, g) ==
    \/ \E k \in Numbers, n \in Int :
         /\ f = Value(k, n)
         /\ g \in {Value("bool", n), Value("int", n), Value("float", n), Chars("decimal", n)}
    \/ \E k \in Nulls, n \in Int : f = Value(k, n) /\ g = Value("null", 0)
    \/ \E k \in TextKinds \ {"chars"}, n \in Int : f = Value(k, n) /\ g = Chars("text", n)
    \/ \E k \in DebugKinds, n \in Int : f = Value(k, n) /\ g = Chars("debug", n)
    \/ \E form \in Forms, n \in Int : f = Chars(form, n) /\ g = f

LEMMA FieldsBindable == \A f \in Fields : Bindable(f)
  <1>1. ASSUME NEW n \in 0..1 PROVE Bindable(Value("bool", n))
    BY DEF Bindable, FieldKinds, Numbers
  <1>2. ASSUME NEW n \in I64 PROVE Bindable(Value("int", n)) /\ Bindable(Value("float", n))
    BY WidthAssumption DEF Bindable, FieldKinds, Numbers, I64, MinI64
  <1>3. ASSUME NEW n \in 0 .. MaxUnsigned + 1 PROVE Bindable(Value("big", n))
    BY WidthAssumption DEF Bindable, FieldKinds, Numbers, MaxUnsigned
  <1>4. Bindable(Value("null", 0)) /\ Bindable(Value("ignore", 0)) /\ Bindable(Chars("text", 0))
    BY DEF Bindable, FieldKinds, Nulls, Forms
  <1>5. ASSUME NEW k \in (TextKinds \ {"chars"}) \cup DebugKinds PROVE Bindable(Value(k, 0))
    BY DEF Bindable, FieldKinds
  <1> QED BY <1>1, <1>2, <1>3, <1>4, <1>5 DEF Fields

\* What a field of each kind means.
LEMMA MeaningOf ==
    ASSUME NEW n \in Int
    PROVE  /\ \A k \in Numbers : Meaning(Value(k, n)) = <<"number", n>>
           /\ \A k \in Nulls : Meaning(Value(k, n)) = <<"nothing">>
           /\ \A k \in TextKinds \ {"chars"} : Meaning(Value(k, n)) = <<"text", n>>
           /\ \A k \in DebugKinds : Meaning(Value(k, n)) = <<"debug", n>>
           /\ Meaning(Chars("text", n)) = <<"text", n>>
           /\ Meaning(Chars("decimal", n)) = <<"number", n>>
           /\ Meaning(Chars("debug", n)) = <<"debug", n>>
  BY DEF Meaning, Value, Chars, Numbers, Nulls, TextKinds, DebugKinds

LEMMA KeptMeaning ==
    ASSUME NEW f, NEW g, Kept(f, g)
    PROVE  Meaning(g) = Meaning(f) /\ Bindable(g)
  <1>1. ASSUME NEW k \in Numbers, NEW n \in Int, f = Value(k, n),
               g \in {Value("bool", n), Value("int", n), Value("float", n), Chars("decimal", n)}
        PROVE  Meaning(g) = Meaning(f) /\ Bindable(g)
    <2>1. Meaning(f) = <<"number", n>>
      BY <1>1, MeaningOf
    <2>2. Meaning(g) = <<"number", n>>
      BY <1>1, MeaningOf DEF Numbers
    <2>3. Bindable(g)
      BY <1>1 DEF Bindable, FieldKinds, Numbers, Forms
    <2> QED BY <2>1, <2>2, <2>3
  <1>2. ASSUME NEW k \in Nulls, NEW n \in Int, f = Value(k, n), g = Value("null", 0)
        PROVE  Meaning(g) = Meaning(f) /\ Bindable(g)
    <2>1. Meaning(f) = <<"nothing">>
      BY <1>2, MeaningOf
    <2>2. Meaning(g) = <<"nothing">>
      BY <1>2, MeaningOf DEF Nulls
    <2> QED BY <1>2, <2>1, <2>2 DEF Bindable, FieldKinds, Nulls
  <1>3. ASSUME NEW k \in TextKinds \ {"chars"}, NEW n \in Int, f = Value(k, n), g = Chars("text", n)
        PROVE  Meaning(g) = Meaning(f) /\ Bindable(g)
    BY <1>3, MeaningOf DEF Bindable, Forms
  <1>4. ASSUME NEW k \in DebugKinds, NEW n \in Int, f = Value(k, n), g = Chars("debug", n)
        PROVE  Meaning(g) = Meaning(f) /\ Bindable(g)
    BY <1>4, MeaningOf DEF Bindable, Forms
  <1>5. ASSUME NEW form \in Forms, NEW n \in Int, f = Chars(form, n), g = f
        PROVE  Meaning(g) = Meaning(f) /\ Bindable(g)
    BY <1>5 DEF Bindable
  <1> QED BY <1>1, <1>2, <1>3, <1>4, <1>5 DEF Kept

LEMMA EchoPostgres ==
    ASSUME NEW f, Bindable(f)
    PROVE  Kept(f, map_value_postgres(bind_postgres_field(f)))
  <1> DEFINE g == map_value_postgres(bind_postgres_field(f))
  <1> USE DEF Value, Chars, Column, NullColumn, NullField, bind_postgres_field, map_value_postgres,
              Shown, TextOf, PgInts, DebugKinds
  <1>1. ASSUME NEW k \in Numbers, NEW n \in Int, f = Value(k, n)
        PROVE  g \in {Value("bool", n), Value("int", n), Value("float", n), Chars("decimal", n)}
    BY <1>1 DEF Numbers
  <1>2. ASSUME NEW k \in Nulls, NEW n \in Int, f = Value(k, n)
        PROVE  g = Value("null", 0)
    BY <1>2 DEF Nulls
  <1>3. ASSUME NEW k \in TextKinds \ {"chars"}, NEW n \in Int, f = Value(k, n)
        PROVE  g = Chars("text", n)
    BY <1>3 DEF TextKinds
  <1>4. ASSUME NEW k \in DebugKinds, NEW n \in Int, f = Value(k, n)
        PROVE  g = Chars("debug", n)
    BY <1>4
  <1>5. ASSUME NEW form \in Forms, NEW n \in Int, f = Chars(form, n)
        PROVE  g = f
    BY <1>5 DEF Forms
  <1> HIDE DEF g, Value, Chars, DebugKinds
  <1>6. Kept(f, g)
    BY <1>1, <1>2, <1>3, <1>4, <1>5, Zenon DEF Bindable, FieldKinds, Kept
  <1> QED BY <1>6 DEF g

LEMMA EchoMySql ==
    ASSUME NEW f, Bindable(f)
    PROVE  Kept(f, map_value_mysql(bind_mysql_field(f)))
  <1> DEFINE g == map_value_mysql(bind_mysql_field(f))
  <1> USE DEF Value, Chars, Column, NullColumn, NullField, bind_mysql_field, map_value_mysql,
              Shown, TextOf, MySqlSigned, MySqlUnsigned, MySqlBinary, DebugKinds
  <1>1. ASSUME NEW k \in Numbers, NEW n \in Int, f = Value(k, n)
        PROVE  g \in {Value("bool", n), Value("int", n), Value("float", n), Chars("decimal", n)}
    BY <1>1 DEF Numbers
  <1>2. ASSUME NEW k \in Nulls, NEW n \in Int, f = Value(k, n)
        PROVE  g = Value("null", 0)
    BY <1>2 DEF Nulls
  <1>3. ASSUME NEW k \in TextKinds \ {"chars"}, NEW n \in Int, f = Value(k, n)
        PROVE  g = Chars("text", n)
    BY <1>3 DEF TextKinds
  <1>4. ASSUME NEW k \in DebugKinds, NEW n \in Int, f = Value(k, n)
        PROVE  g = Chars("debug", n)
    BY <1>4
  <1>5. ASSUME NEW form \in Forms, NEW n \in Int, f = Chars(form, n)
        PROVE  g = f
    BY <1>5 DEF Forms
  <1> HIDE DEF g, Value, Chars, DebugKinds
  <1>6. Kept(f, g)
    BY <1>1, <1>2, <1>3, <1>4, <1>5, Zenon DEF Bindable, FieldKinds, Kept
  <1> QED BY <1>6 DEF g

LEMMA EchoSqlite ==
    ASSUME NEW f, Bindable(f)
    PROVE  Kept(f, map_value_sqlite(to_sql(f)))
  <1> DEFINE g == map_value_sqlite(to_sql(f))
  <1> USE DEF Value, Chars, Column, NullColumn, NullField, to_sql, map_value_sqlite, TextOf, DebugKinds
  <1>1. ASSUME NEW k \in Numbers, NEW n \in Int, f = Value(k, n)
        PROVE  g \in {Value("bool", n), Value("int", n), Value("float", n), Chars("decimal", n)}
    BY <1>1 DEF Numbers
  <1>2. ASSUME NEW k \in Nulls, NEW n \in Int, f = Value(k, n)
        PROVE  g = Value("null", 0)
    BY <1>2 DEF Nulls
  <1>3. ASSUME NEW k \in TextKinds \ {"chars"}, NEW n \in Int, f = Value(k, n)
        PROVE  g = Chars("text", n)
    BY <1>3 DEF TextKinds
  <1>4. ASSUME NEW k \in DebugKinds, NEW n \in Int, f = Value(k, n)
        PROVE  g = Chars("debug", n)
    BY <1>4
  <1>5. ASSUME NEW form \in Forms, NEW n \in Int, f = Chars(form, n)
        PROVE  g = f
    BY <1>5 DEF Forms
  <1> HIDE DEF g, Value, Chars, DebugKinds
  <1>6. Kept(f, g)
    BY <1>1, <1>2, <1>3, <1>4, <1>5, Zenon DEF Bindable, FieldKinds, Kept
  <1> QED BY <1>6 DEF g

\* Named parameters reach PostgreSQL and MySQL by way of SQLite's own form.
LEMMA NamedParams ==
    ASSUME NEW f, Bindable(f)
    PROVE  Kept(f, named_params_to_fields(f))
  <1> DEFINE g == named_params_to_fields(f)
  <1> USE DEF Value, Chars, Column, NullColumn, NullField, to_sql, named_params_to_fields,
              TextOf, DebugKinds
  <1>1. ASSUME NEW k \in Numbers, NEW n \in Int, f = Value(k, n)
        PROVE  g \in {Value("bool", n), Value("int", n), Value("float", n), Chars("decimal", n)}
    BY <1>1 DEF Numbers
  <1>2. ASSUME NEW k \in Nulls, NEW n \in Int, f = Value(k, n)
        PROVE  g = Value("null", 0)
    BY <1>2 DEF Nulls
  <1>3. ASSUME NEW k \in TextKinds \ {"chars"}, NEW n \in Int, f = Value(k, n)
        PROVE  g = Chars("text", n)
    BY <1>3 DEF TextKinds
  <1>4. ASSUME NEW k \in DebugKinds, NEW n \in Int, f = Value(k, n)
        PROVE  g = Chars("debug", n)
    BY <1>4
  <1>5. ASSUME NEW form \in Forms, NEW n \in Int, f = Chars(form, n)
        PROVE  g = f
    BY <1>5 DEF Forms
  <1> HIDE DEF g, Value, Chars, DebugKinds
  <1>6. Kept(f, g)
    BY <1>1, <1>2, <1>3, <1>4, <1>5, Zenon DEF Bindable, FieldKinds, Kept
  <1> QED BY <1>6 DEF g

\* The parameters of a request are read back as fields.
LEMMA RequestParams ==
    ASSUME NEW f, Bindable(f)
    PROVE  Kept(f, params_to_fields(fields_to_params(f)))
  <1> DEFINE g == params_to_fields(fields_to_params(f))
  <1> USE DEF Value, Chars, Column, NullField, QueryValue, fields_to_params, params_to_fields,
              TextOf, DebugKinds
  <1>1. ASSUME NEW k \in Numbers, NEW n \in Int, f = Value(k, n)
        PROVE  g \in {Value("bool", n), Value("int", n), Value("float", n), Chars("decimal", n)}
    BY <1>1 DEF Numbers
  <1>2. ASSUME NEW k \in Nulls, NEW n \in Int, f = Value(k, n)
        PROVE  g = Value("null", 0)
    BY <1>2 DEF Nulls
  <1>3. ASSUME NEW k \in TextKinds \ {"chars"}, NEW n \in Int, f = Value(k, n)
        PROVE  g = Chars("text", n)
    BY <1>3 DEF TextKinds
  <1>4. ASSUME NEW k \in DebugKinds, NEW n \in Int, f = Value(k, n)
        PROVE  g = Chars("debug", n)
    BY <1>4
  <1>5. ASSUME NEW form \in Forms, NEW n \in Int, f = Chars(form, n)
        PROVE  g = f
    BY <1>5 DEF Forms
  <1> HIDE DEF g, Value, Chars, DebugKinds
  <1>6. Kept(f, g)
    BY <1>1, <1>2, <1>3, <1>4, <1>5, Zenon DEF Bindable, FieldKinds, Kept
  <1> QED BY <1>6 DEF g

\* Columns of integers are read as the number they hold, past i64 too.
LEMMA IntegersDecoded ==
    ASSUME NEW c \in IntegerColumns
    PROVE  Meaning(IF c.ty \in PgInts THEN map_value_postgres(c) ELSE map_value_mysql(c))
             = <<"number", c.n>>
  <1> USE DEF Value, Chars, Column, NullField, UnsignedToField, map_value_postgres, map_value_mysql,
              PgInts, MySqlSigned, MySqlUnsigned, MySqlBinary
  <1>1. ASSUME NEW ty \in PgInts, NEW n \in Int, c = Column(ty, "value", n)
        PROVE  map_value_postgres(c) = Value("int", n) /\ c.ty \in PgInts /\ c.n = n
    BY <1>1
  <1>2. ASSUME NEW ty \in MySqlSigned, NEW n \in Int, c = Column(ty, "value", n)
        PROVE  map_value_mysql(c) = Value("int", n) /\ c.ty \notin PgInts /\ c.n = n
    BY <1>2
  <1>3. ASSUME NEW ty \in MySqlUnsigned, NEW n \in Int, c = Column(ty, "value", n)
        PROVE  /\ map_value_mysql(c) \in {Value("int", n), Chars("decimal", n)}
               /\ c.ty \notin PgInts /\ c.n = n
    BY <1>3
  <1> HIDE DEF PgInts, MySqlSigned, MySqlUnsigned, map_value_postgres, map_value_mysql
  <1> HIDE DEF PgInts, MySqlSigned, MySqlUnsigned, MySqlBinary, Column, Value, Chars,
                 map_value_postgres, map_value_mysql
  <1>4. ASSUME NEW ty \in PgInts \cup MySqlSigned, NEW n \in I64, c = Column(ty, "value", n)
        PROVE  Meaning(IF c.ty \in PgInts THEN map_value_postgres(c) ELSE map_value_mysql(c))
                 = <<"number", c.n>>
    <2>1. n \in Int
      BY WidthAssumption DEF I64, MinI64
    <2>2. Meaning(Value("int", n)) = <<"number", n>>
      BY <2>1, MeaningOf DEF Numbers
    <2> QED BY <1>1, <1>2, <1>4, <2>1, <2>2
  <1>5. ASSUME NEW ty \in MySqlUnsigned, NEW n \in 0..MaxUnsigned, c = Column(ty, "value", n)
        PROVE  Meaning(IF c.ty \in PgInts THEN map_value_postgres(c) ELSE map_value_mysql(c))
                 = <<"number", c.n>>
    <2>1. n \in Int
      BY WidthAssumption DEF MaxUnsigned
    <2>2. Meaning(Value("int", n)) = <<"number", n>> /\ Meaning(Chars("decimal", n)) = <<"number", n>>
      BY <2>1, MeaningOf DEF Numbers
    <2> QED BY <1>3, <1>5, <2>1, <2>2
  <1> QED BY <1>4, <1>5 DEF IntegerColumns

\* For integers of any width, a field of any kind keeps its meaning through a
\* round trip by any database and by all ways of giving parameters, and integer
\* columns are read as the number they hold (param.rs, the bind and map_value
\* functions of memdb.rs, postgres.rs and mysql.rs).
THEOREM MeaningSurvives == FunctionsSpec => []ValuesKeepTheirMeaning
  <1>1. InputInv => ValuesKeepTheirMeaning
    <2> SUFFICES ASSUME InputInv, kind = "value" PROVE ValuesKeepTheirMeaning
      BY DEF ValuesKeepTheirMeaning
    <2>1. Bindable(input)
      BY FieldsBindable DEF InputInv
    <2>2. ASSUME NEW f, Bindable(f), NEW db \in {"postgres", "mysql", "sqlite"}
          PROVE  Meaning(Echo(db, f)) = Meaning(f)
      BY <2>2, EchoPostgres, EchoMySql, EchoSqlite, KeptMeaning DEF Echo
    <2>3. /\ Bindable(named_params_to_fields(input))
          /\ Meaning(named_params_to_fields(input)) = Meaning(input)
      BY <2>1, NamedParams, KeptMeaning
    <2>4. /\ Bindable(params_to_fields(fields_to_params(input)))
          /\ Meaning(params_to_fields(fields_to_params(input))) = Meaning(input)
      BY <2>1, RequestParams, KeptMeaning
    <2>5. \A db \in {"postgres", "mysql", "sqlite"} :
             /\ Meaning(Echo(db, input)) = Meaning(input)
             /\ Meaning(Echo(db, named_params_to_fields(input))) = Meaning(input)
             /\ Meaning(Echo(db, params_to_fields(fields_to_params(input)))) = Meaning(input)
      BY <2>1, <2>2, <2>3, <2>4
    <2> QED BY <2>5, IntegersDecoded DEF ValuesKeepTheirMeaning
  <1> QED BY <1>1, InputInvHolds, PTL

-----------------------------------------------------------------------------
(***************************************************************************)
(* Blocks of addresses.  A power of two is the number of subsets of a set, *)
(* and a subset of a union is a pair of subsets: so the addresses of a     *)
(* block divide all addresses.                                             *)
(***************************************************************************)
LEMMA PairForm ==
    ASSUME NEW X, NEW Y, NEW p \in X \X Y
    PROVE  p = <<p[1], p[2]>> /\ p[1] \in X /\ p[2] \in Y
  OBVIOUS

LEMMA SubsetsOfUnion ==
    ASSUME NEW A, NEW B, A \cap B = {}
    PROVE  ExistsBijection((SUBSET A) \X (SUBSET B), SUBSET (A \cup B))
  <1> DEFINE Pairs == (SUBSET A) \X (SUBSET B)
             F == [p \in Pairs |-> p[1] \cup p[2]]
  <1>0. ASSUME NEW p \in Pairs
        PROVE  /\ p = <<p[1], p[2]>> /\ p[1] \in SUBSET A /\ p[2] \in SUBSET B
               /\ F[p] = p[1] \cup p[2]
               /\ F[p] \cap A = p[1] /\ F[p] \cap B = p[2]
               /\ F[p] \in SUBSET (A \cup B)
    <2>1. p = <<p[1], p[2]>> /\ p[1] \in SUBSET A /\ p[2] \in SUBSET B
      BY PairForm
    <2>2. F[p] = p[1] \cup p[2]
      OBVIOUS
    <2>3. \A S \in SUBSET A, T \in SUBSET B :
             (S \cup T) \cap A = S /\ (S \cup T) \cap B = T /\ S \cup T \in SUBSET (A \cup B)
      OBVIOUS
    <2> HIDE DEF F
    <2> QED BY <2>1, <2>2, <2>3, Zenon
  <1>3. ASSUME NEW T \in SUBSET (A \cup B)
        PROVE  \E p \in Pairs : F[p] = T
    <2> DEFINE p == <<T \cap A, T \cap B>>
    <2>1. p \in Pairs OBVIOUS
    <2>2. p[1] = T \cap A /\ p[2] = T \cap B OBVIOUS
    <2>3. (T \cap A) \cup (T \cap B) = T OBVIOUS
    <2> HIDE DEF F, Pairs, p
    <2> QED BY <1>0, <2>1, <2>2, <2>3, Zenon
  <1>1. F \in [Pairs -> SUBSET (A \cup B)]
    <2>1. F = [p \in Pairs |-> F[p]] OBVIOUS
    <2> HIDE DEF F, Pairs
    <2> QED BY <2>1, <1>0
  <1>2. ASSUME NEW p \in Pairs, NEW q \in Pairs, F[p] = F[q]
        PROVE  p = q
    <2> HIDE DEF F, Pairs
    <2> QED BY <1>0, <1>2, Zenon
  <1> HIDE DEF F
  <1>4. F \in Bijection(Pairs, SUBSET (A \cup B))
    <2> HIDE DEF Pairs
    <2> QED BY <1>1, <1>2, <1>3 DEF Bijection, Injection, Surjection, IsInjective
  <1> QED
    BY <1>4 DEF ExistsBijection

LEMMA PowerSum == ASSUME NEW i \in Nat, NEW j \in Nat PROVE 2^(i + j) = 2^i * 2^j
  <1> DEFINE A == 1..i
             B == i + 1 .. i + j
  <1>1. IsFiniteSet(A) /\ Cardinality(A) = i /\ IsFiniteSet(B) /\ Cardinality(B) = j 
    <2>1. IsFiniteSet(A) /\ Cardinality(A) = IF 1 > i THEN 0 ELSE i - 1 + 1 BY FS_Interval
    <2>2. IsFiniteSet(B) /\ Cardinality(B) = IF i + 1 > i + j THEN 0 ELSE i + j - (i + 1) + 1
      BY FS_Interval, i + 1 \in Int, i + j \in Int
    <2> QED BY <2>1, <2>2
  <1>2. A \cup B = 1 .. i + j /\ A \cap B = {} OBVIOUS
  <1>3. IsFiniteSet(1..i+j) /\ Cardinality(1 .. i + j) = i + j
    <2>1. IsFiniteSet(1 .. i + j) /\ Cardinality(1 .. i + j) = IF 1 > i + j THEN 0 ELSE i + j - 1 + 1
      BY FS_Interval, i + j \in Int
    <2> QED BY <2>1
  <1> HIDE DEF A, B
  <1>4. IsFiniteSet(SUBSET A) /\ Cardinality(SUBSET A) = 2^i
    BY <1>1, FS_SUBSET
  <1>5. IsFiniteSet(SUBSET B) /\ Cardinality(SUBSET B) = 2^j
    BY <1>1, FS_SUBSET
  <1>6. Cardinality(SUBSET (A \cup B)) = 2^(i + j)
    BY <1>2, <1>3, FS_SUBSET
  <1>7. IsFiniteSet((SUBSET A) \X (SUBSET B))
        /\ Cardinality((SUBSET A) \X (SUBSET B)) = Cardinality(SUBSET A) * Cardinality(SUBSET B)
    BY <1>4, <1>5, FS_Product
  <1>8. ExistsBijection((SUBSET A) \X (SUBSET B), SUBSET (A \cup B))
    BY <1>2, SubsetsOfUnion
  <1>9. Cardinality(SUBSET (A \cup B)) = Cardinality((SUBSET A) \X (SUBSET B))
    BY <1>7, <1>8, FS_Bijection
  <1> QED BY <1>4, <1>5, <1>6, <1>7, <1>9

LEMMA PowerPositive == ASSUME NEW i \in Nat PROVE 2^i \in Nat /\ 2^i > 0
  <1>1. IsFiniteSet(1..i) /\ Cardinality(1..i) = i
    <2>1. IsFiniteSet(1..i) /\ Cardinality(1..i) = IF 1 > i THEN 0 ELSE i - 1 + 1 BY FS_Interval
    <2> QED BY <2>1
  <1>2. IsFiniteSet(SUBSET (1..i)) /\ Cardinality(SUBSET (1..i)) = 2^i
    BY <1>1, FS_SUBSET
  <1>3. {} \in SUBSET (1..i) OBVIOUS
  <1> QED BY <1>2, <1>3, FS_CardinalityType, FS_EmptySet

\* The block of an address: whole, inside the range, and all who are in it have
\* the same address of the block.
LEMMA BlockFacts ==
    ASSUME NEW S \in Nat, NEW N \in Nat, S > 0, NEW a \in Nat, a < S * N
    PROVE  /\ a - (a % S) \in Nat
           /\ a - (a % S) <= a /\ a <= a - (a % S) + S - 1
           /\ a - (a % S) + S - 1 < S * N
  <1> DEFINE q == a \div S
  <1>1. q \in Nat /\ a = S * q + (a % S) /\ a % S \in 0 .. S - 1
    OBVIOUS
  <1> HIDE DEF q
  <1>2. a - (a % S) = S * q
    BY <1>1
  <1>3. q < N
    <2>1. q >= N => S * q >= S * N
      BY <1>1
    <2>2. S * q <= a
      BY <1>1
    <2> QED BY <1>1, <2>1, <2>2
  <1>4. S * q + S <= S * N
    <2>1. S * (q + 1) <= S * N
      BY <1>1, <1>3
    <2> QED BY <1>1, <2>1
  <1> QED BY <1>1, <1>2, <1>4

LEMMA SameBlock ==
    ASSUME NEW S \in Nat, S > 0, NEW a \in Nat, NEW b \in Nat,
           a - (a % S) <= b, b <= a - (a % S) + S - 1
    PROVE  b - (b % S) = a - (a % S)
  <1> DEFINE q == a \div S
  <1>1. q \in Nat /\ a = S * q + (a % S) /\ a % S \in 0 .. S - 1
    OBVIOUS
  <1> HIDE DEF q
  <1> DEFINE r == b - S * q
  <1>2. a - (a % S) = S * q /\ S * q \in Nat
    BY <1>1
  <1>3. r \in 0 .. S - 1 /\ b = S * q + r
    BY <1>2
  <1> HIDE DEF r
  <1>4. b % S = r
    BY <1>1, <1>3
  <1> QED BY <1>2, <1>3, <1>4

LEMMA AddressFacts ==
    /\ 2^Bits \in Nat /\ 2^Bits > 0
    /\ MaxU32 \in Addrs /\ 0 \in Addrs
    /\ \A a \in Addrs : a \in Nat /\ a < 2^Bits /\ a <= MaxU32 /\ a # Garbage
    /\ \A a \in Addrs : AsU32(a) = a
    /\ \A a \in Nat : a < 2^Bits => a \in Addrs
  <1>1. 2^Bits \in Nat /\ 2^Bits > 0
    BY BitsAssumption, PowerPositive
  <1>2. \A a \in Addrs : a \in Nat /\ a < 2^Bits /\ a <= MaxU32 /\ a # Garbage
    BY <1>1, GarbageAssumption DEF Addrs, MaxU32
  <1>3. \A a \in Nat : a < 2^Bits => a \in Addrs
    BY <1>1 DEF Addrs, MaxU32
  <1>4. MaxU32 \in Addrs /\ 0 \in Addrs
    BY <1>1 DEF Addrs, MaxU32
  <1>5. \A a \in Addrs : a % 2^Bits = a
    <2> DEFINE M == 2^Bits
    <2>1. M \in Nat /\ M > 0 /\ \A a \in Addrs : a \in Nat /\ a < M
      BY <1>1, <1>2
    <2> HIDE DEF M
    <2>2. \A a \in Addrs : a % M = a
      BY <2>1
    <2> QED BY <2>2 DEF M
  <1> QED BY <1>1, <1>2, <1>3, <1>4, <1>5 DEF AsU32

\* What cidr4_min and cidr4_max give for a block, and what cidr4_contains says.
LEMMA CidrFacts ==
    ASSUME NEW c \in Cidrs, Parses(c)
    PROVE  /\ cidr4_min(c) \in Addrs /\ cidr4_max(c) \in Addrs
           /\ \A a \in Addrs : cidr4_contains(a, c) <=> cidr4_min(c) <= a /\ a <= cidr4_max(c)
  <1> DEFINE S == BlockSize(c.prefix)
             N == 2^(c.prefix)
             lo == c.ip - (c.ip % S)
  <1>1. c.ip \in Addrs /\ c.prefix \in Nat /\ c.prefix <= Bits /\ c # Garbage
    BY BitsAssumption DEF Cidrs, Parses
  <1>2. S \in Nat /\ S > 0 /\ N \in Nat
    BY <1>1, BitsAssumption, PowerPositive, Bits - c.prefix \in Nat DEF BlockSize
  <1>3. 2^Bits = S * N
    <2>1. Bits - c.prefix \in Nat /\ (Bits - c.prefix) + c.prefix = Bits
      BY <1>1, BitsAssumption
    <2>2. 2^((Bits - c.prefix) + c.prefix) = 2^(Bits - c.prefix) * 2^(c.prefix)
      BY <1>1, <2>1, PowerSum
    <2> QED BY <2>1, <2>2 DEF BlockSize
  <1>4. c.ip \in Nat /\ c.ip < S * N
    BY <1>1, <1>3, AddressFacts
  <1>5. cidr4_min(c) = lo /\ cidr4_max(c) = lo + S - 1
    BY DEF cidr4_min, cidr4_max, Masked
  <1>6. \A a \in Addrs : cidr4_contains(a, c) <=> a - (a % S) = lo
    BY AddressFacts DEF cidr4_contains, Masked
  <1> HIDE DEF S, N
  <1>7. lo \in Nat /\ lo + S - 1 < S * N
    BY <1>2, <1>4, BlockFacts
  <1>8. cidr4_min(c) \in Addrs /\ cidr4_max(c) \in Addrs
    <2>1. lo \in Nat /\ lo < 2^Bits /\ lo + S - 1 \in Nat /\ lo + S - 1 < 2^Bits
      BY <1>2, <1>3, <1>7
    <2> HIDE DEF lo
    <2> QED BY <1>5, <2>1, AddressFacts
  <1>9. ASSUME NEW a \in Addrs
        PROVE  a - (a % S) = lo <=> lo <= a /\ a <= lo + S - 1
    <2>1. a \in Nat /\ a < S * N
      BY <1>3, AddressFacts
    <2>2. a - (a % S) <= a /\ a <= a - (a % S) + S - 1
      BY <1>2, <2>1, BlockFacts
    <2>3. lo <= a /\ a <= lo + S - 1 => a - (a % S) = lo
      BY <1>2, <1>4, <2>1, SameBlock
    <2> HIDE DEF lo
    <2> QED BY <2>2, <2>3
  <1> HIDE DEF lo
  <1> QED BY <1>5, <1>6, <1>8, <1>9

\* For addresses of any number of bits, a row imported with the bounds of a block
\* and found with ip4_between is found just when cidr4_contains says so, up to the
\* two exceptions at the ends of the range (sqlite_ext.rs).
THEOREM BoundsAgreeWithBlocks == FunctionsSpec => []RangesMatchBlocks
  <1>1. InputInv => RangesMatchBlocks
    <2> SUFFICES ASSUME InputInv, kind = "cidr", NEW ip \in Addrs \cup {Garbage}
                 PROVE  LET between == ip4_between(ip, cidr4_min(input), cidr4_max(input))
                            contains == cidr4_contains(ip, input)
                        IN  /\ contains => between
                            /\ between /\ ~contains =>
                                 \/ ~Parses(input) /\ ip = 0
                                 \/ ip = Garbage /\ cidr4_max(input) = MaxU32
                            /\ ip # Garbage => ip4_text(ip4_int(ip)) = ip
      BY DEF RangesMatchBlocks
    <2> DEFINE lo == cidr4_min(input)
               hi == cidr4_max(input)
               v == IF ip = Garbage THEN MaxU32 ELSE ip
    <2>1. input \in Cidrs
      BY DEF InputInv
    <2>2. ip # Garbage => ip4_text(ip4_int(ip)) = ip
      BY AddressFacts DEF ip4_text, ip4_int
    <2>3. lo \in Addrs /\ hi \in Addrs
      BY <2>1, CidrFacts, AddressFacts DEF cidr4_min, cidr4_max
    <2>4. ip4_between(ip, lo, hi) <=> v >= lo /\ v <= hi
      BY <2>3, AddressFacts DEF ip4_between, Bound
    <2>5. v \in Addrs /\ (ip # Garbage => v = ip)
      BY AddressFacts
    <2>6. CASE ~Parses(input)
      <3>1. lo = 0 /\ hi = 0 /\ ~cidr4_contains(ip, input)
        BY <2>6 DEF cidr4_min, cidr4_max, cidr4_contains
      <3> QED BY <2>2, <2>4, <2>5, <2>6, <3>1, AddressFacts
    <2>7. CASE Parses(input) /\ ip # Garbage
      <3>1. cidr4_contains(ip, input) <=> lo <= ip /\ ip <= hi
        BY <2>1, <2>7, CidrFacts
      <3> QED BY <2>2, <2>3, <2>4, <2>7, <3>1
    <2>8. CASE Parses(input) /\ ip = Garbage
      <3>1. ~cidr4_contains(ip, input) /\ v = MaxU32
        BY <2>8 DEF cidr4_contains
      <3>2. hi \in Nat /\ hi <= MaxU32 /\ MaxU32 \in Nat
        BY <2>3, AddressFacts
      <3> QED BY <2>2, <2>4, <2>8, <3>1, <3>2
    <2> QED BY <2>6, <2>7, <2>8
  <1> QED BY <1>1, InputInvHolds, PTL

-----------------------------------------------------------------------------
(***************************************************************************)
(* Labels.  When a bucket divides the period, the slot of a time is the    *)
(* number of its bucket, counted round the period; a time no more than a   *)
(* bucket later is in the same or the next bucket.                         *)
(***************************************************************************)
LEMMA MinIs ==
    ASSUME NEW S \in SUBSET Int, NEW m \in S, \A x \in S : m <= x
    PROVE  Min(S) = m
  <1>1. \E x \in S : \A y \in S : x <= y
    OBVIOUS
  <1>2. Min(S) \in S /\ \A y \in S : Min(S) <= y
    BY <1>1 DEF Min
  <1> DEFINE n == Min(S)
  <1>3. n \in Int /\ m \in Int /\ n <= m /\ m <= n
    BY <1>2
  <1> HIDE DEF n
  <1>4. n = m
    BY <1>3
  <1> QED BY <1>4 DEF n

LEMMA Saturation ==
    ASSUME NEW a \in Nat, NEW b \in Nat
    PROVE  /\ saturating_mul(a, b) = IF a * b <= MaxU64 THEN a * b ELSE MaxU64
           /\ saturating_add(a, b) = IF a + b <= MaxU64 THEN a + b ELSE MaxU64
  <1>1. ASSUME NEW x \in Nat PROVE Min({x, MaxU64}) = IF x <= MaxU64 THEN x ELSE MaxU64
    <2>1. CASE x <= MaxU64
      BY <2>1, VelAssumption, MinIs
    <2>2. CASE x > MaxU64
      BY <2>2, VelAssumption, MinIs
    <2> QED BY <2>1, <2>2, VelAssumption
  <1>2. a * b \in Nat /\ a + b \in Nat
    OBVIOUS
  <1>3. Min({a * b, MaxU64}) = IF a * b <= MaxU64 THEN a * b ELSE MaxU64
    BY <1>1, <1>2
  <1> QED BY <1>1, <1>2, <1>3 DEF saturating_mul, saturating_add

\* The slot of the time t, k slots to the period.
LEMMA SlotIsBucket ==
    ASSUME NEW B \in Nat, B > 0, NEW k \in Nat, k > 0, NEW t \in Nat
    PROVE  (t % (B * k)) \div B = (t \div B) % k
  <1> DEFINE Q == t \div B
             r == t % B
             m == Q \div k
             j == Q % k
             P == B * k
  <1>1. Q \in Nat /\ r \in 0 .. B - 1 /\ t = B * Q + r
    OBVIOUS
  <1>2. P \in Nat /\ P > 0
    OBVIOUS
  <1> HIDE DEF Q, r
  <1>3. m \in Nat /\ j \in 0 .. k - 1 /\ Q = k * m + j
    BY <1>1
  <1> HIDE DEF m, j
  <1> DEFINE s == B * j + r
  <1>4. s \in Nat
    BY <1>1, <1>3
  <1>5. s < P
    <2>1. B * (j + 1) <= B * k
      BY <1>3
    <2> QED BY <1>1, <1>3, <2>1
  <1>6. t = P * m + s
    <2>1. B * Q = B * (k * m) + B * j
      BY <1>1, <1>3
    <2>2. B * (k * m) = P * m
      BY <1>3
    <2> QED BY <1>1, <1>2, <1>3, <2>1, <2>2
  <1>7. s \div B = j
    BY <1>1, <1>3
  <1> HIDE DEF P, s
  <1>8. t % P = s
    BY <1>2, <1>3, <1>4, <1>5, <1>6
  <1> QED BY <1>7, <1>8 DEF P, Q, j

LEMMA NextBucket ==
    ASSUME NEW B \in Nat, B > 0, NEW t \in Nat, NEW d \in 0..B
    PROVE  /\ (t + d) \div B \in {t \div B, (t \div B) + 1}
           /\ (t + B) \div B = (t \div B) + 1
  <1> DEFINE Q == t \div B
             r == t % B
  <1>1. Q \in Nat /\ r \in 0 .. B - 1 /\ t = B * Q + r
    OBVIOUS
  <1> HIDE DEF Q, r
  <1>2. B * (Q + 1) = B * Q + B
    BY <1>1
  <1>3. t + B = B * (Q + 1) + r
    BY <1>1, <1>2
  <1>4. (t + B) \div B = Q + 1
    BY <1>1, <1>3
  <1>5. CASE r + d < B
    <2>1. (t + d) = B * Q + (r + d) /\ r + d \in 0 .. B - 1
      BY <1>1, <1>5
    <2>2. (t + d) \div B = Q
      BY <1>1, <2>1
    <2> QED BY <1>4, <2>2 DEF Q
  <1>6. CASE r + d >= B
    <2>1. (t + d) = B * (Q + 1) + (r + d - B) /\ r + d - B \in 0 .. B - 1
      BY <1>1, <1>2, <1>6
    <2>2. (t + d) \div B = Q + 1
      BY <1>1, <2>1
    <2> QED BY <1>4, <2>2 DEF Q
  <1> QED BY <1>1, <1>5, <1>6

\* In the range of u64, and with a bucket that divides the period, the slot of a
\* time until a bucket has passed is that of phase_now or that of phase_next.
LEMMA SlotServesABucket ==
    ASSUME NEW period \in Nat, NEW bucket \in 1..period, period % bucket = 0,
           NEW t \in Nat, period * Nanos <= MaxU64, t + bucket * Nanos <= MaxU64,
           NEW d \in 0 .. bucket * Nanos,
           NEW x, x.fn = "phase_now", x.period = period, x.bucket = bucket,
           NEW y, y.fn = "phase_next", y.period = period, y.bucket = bucket
    PROVE  PhaseSlot(x, t + d) \in {PhaseSlot(x, t), PhaseSlot(y, t)}
  <1> DEFINE B == bucket * Nanos
             P == period * Nanos
             k == period \div bucket
  <1>1. k \in Nat /\ k > 0 /\ period = bucket * k
    <2>1. k \in Nat /\ period = bucket * k + (period % bucket)
      OBVIOUS
    <2> QED BY <2>1
  <1>2. B \in Nat /\ B > 0 /\ P \in Nat /\ Nanos \in Nat /\ Nanos > 0
    BY VelAssumption
  <1> HIDE DEF k
  <1>3. P = B * k
    <2>1. (bucket * k) * Nanos = (bucket * Nanos) * k
      BY <1>1, <1>2
    <2> QED BY <1>1, <2>1
  <1>4. B <= P
    BY <1>2
  <1>5. saturating_mul(period, Nanos) = P /\ saturating_mul(bucket, Nanos) = B
    <2>1. bucket \in Nat /\ B <= MaxU64 /\ P <= MaxU64
      BY <1>2, <1>4, VelAssumption
    <2> HIDE DEF B, P
    <2>2. saturating_mul(period, Nanos) = IF period * Nanos <= MaxU64 THEN period * Nanos ELSE MaxU64
      BY <1>2, Saturation
    <2>3. saturating_mul(bucket, Nanos) = IF bucket * Nanos <= MaxU64 THEN bucket * Nanos ELSE MaxU64
      BY <1>2, <2>1, Saturation
    <2> QED BY <2>1, <2>2, <2>3 DEF B, P
  <1>6. saturating_add(t, saturating_mul(bucket, Nanos)) = t + B
    BY <1>2, <1>5, Saturation, VelAssumption
  <1>7. /\ PhaseSlot(x, t + d) = ((t + d) % P) \div B
        /\ PhaseSlot(x, t) = (t % P) \div B
        /\ PhaseSlot(y, t) = ((t + B) % P) \div B
    BY <1>5, <1>6 DEF PhaseSlot
  <1> HIDE DEF B, P
  <1>8. d \in 0..B
    BY DEF B
  <1>9. /\ ((t + d) % P) \div B = ((t + d) \div B) % k
        /\ (t % P) \div B = (t \div B) % k
        /\ ((t + B) % P) \div B = ((t + B) \div B) % k
    <2>1. t + d \in Nat /\ t + B \in Nat
      BY <1>2, <1>8
    <2>2. \A u \in Nat : (u % (B * k)) \div B = (u \div B) % k
      BY <1>1, <1>2, SlotIsBucket
    <2> QED BY <1>3, <2>1, <2>2
  <1>10. /\ (t + d) \div B \in {t \div B, (t \div B) + 1}
         /\ (t + B) \div B = (t \div B) + 1
    BY <1>2, <1>8, NextBucket
  <1> QED BY <1>7, <1>9, <1>10

LEMMA CodeFacts ==
    ASSUME NEW e
    PROVE  /\ TemplateCode(e) # << >>
           /\ Definitions(TemplateCode(e)) = {2, 3}
           /\ TemplateCode(e)[2] = Define(<<"v">>, Phase(e, "phase_now"))
           /\ TemplateCode(e)[3] = Define(<<"v", "1">>, Phase(e, "phase_next"))
           /\ ~ ParseFails(TemplateCode(e))
  <1> DEFINE code == TemplateCode(e)
             d == Define(<<"v">>, Phase(e, "phase_now"))
             f == Define(<<"v", "1">>, Phase(e, "phase_next"))
  <1>1. /\ d.line = "define" /\ d.name = <<"v">>
        /\ f.line = "define" /\ f.name = <<"v", "1">>
        /\ Skipped.line = "skipped" /\ Bad.line = "bad"
    BY DEF Define, Skipped, Bad
  <1>2. <<"v">> # <<"v", "1">>
    OBVIOUS
  <1> HIDE DEF d, f
  <1>3. d # Skipped /\ f # Skipped /\ d # Bad /\ f # Bad
    BY <1>1
  <1>4. code = <<Skipped, d, f>>
    BY DEF TemplateCode, d, f
  <1> HIDE DEF code
  <1>5. DOMAIN code = 1..3 /\ code[1] = Skipped /\ code[2] = d /\ code[3] = f /\ code # << >>
    BY <1>4
  <1>6. Definitions(code) = {2, 3}
    BY <1>3, <1>5 DEF Definitions
  <1>7. ~ ParseFails(code)
    BY <1>1, <1>2, <1>3, <1>5, <1>6 DEF ParseFails
  <1> QED BY <1>5, <1>6, <1>7 DEF code, d, f

LEMMA PhaseFacts ==
    ASSUME NEW e, NEW fn
    PROVE  /\ Phase(e, fn).fn = fn /\ Phase(e, fn).period = e.period
           /\ Phase(e, fn).bucket = e.bucket /\ Phase(e, fn).prefix = <<"p">>
  BY DEF Phase

LEMMA DefineFacts ==
    ASSUME NEW name, NEW expr
    PROVE  Define(name, expr).name = name /\ Define(name, expr).expr = expr
  BY DEF Define

\* Both labels of the template are right or both are wrong.
LEMMA FailsWhen ==
    ASSUME NEW e
    PROVE  EvalFails(TemplateCode(e)) <=> ~ ValidPhase(Phase(e, "phase_now"))
  <1> DEFINE x == Phase(e, "phase_now")
             y == Phase(e, "phase_next")
             code == TemplateCode(e)
  <1>1. ValidPhase(x) <=> ValidPhase(y)
    BY PhaseFacts DEF ValidPhase
  <1>2. x.fn # "literal" /\ y.fn # "literal"
    BY PhaseFacts
  <1>3. code[2].expr = x /\ code[3].expr = y
    BY CodeFacts, DefineFacts
  <1>4. Definitions(code) = {2, 3} /\ ~ ParseFails(code)
    BY CodeFacts
  <1> HIDE DEF x, y, code
  <1>5. EvalFails(code) <=> ~ ValidPhase(x)
    BY <1>1, <1>2, <1>3, <1>4 DEF EvalFails
  <1> QED BY <1>5 DEF x, code

\* The values of the variables.
Label(e, fn, t) == <<"p", ToString(PhaseSlot(Phase(e, fn), t))>>

\* Putting texts together, and taking a part of one.
LEMMA ConcatIs ==
    ASSUME NEW T, NEW s \in Seq(T), NEW u \in Seq(T), NEW w \in Seq(T),
           Len(w) = Len(s) + Len(u),
           \A i \in 1 .. Len(s) : w[i] = s[i], \A i \in 1 .. Len(u) : w[Len(s) + i] = u[i]
    PROVE  s \o u = w
  <1>1. Len(s) \in Nat /\ Len(u) \in Nat
    BY LenProperties
  <1>2. /\ s \o u \in Seq(T) /\ Len(s \o u) = Len(w)
        /\ \A i \in 1 .. Len(s) + Len(u) : (s \o u)[i] = IF i <= Len(s) THEN s[i] ELSE u[i - Len(s)]
    BY ConcatProperties
  <1>3. ASSUME NEW i \in 1 .. Len(s) + Len(u) PROVE (s \o u)[i] = w[i]
    <2>1. CASE i <= Len(s)
      BY <1>1, <1>2, <2>1
    <2>2. CASE i > Len(s)
      <3> DEFINE k == i - Len(s)
      <3>1. k \in 1 .. Len(u) /\ Len(s) + k = i
        BY <1>1, <2>2
      <3>2. (s \o u)[i] = u[k]
        BY <1>1, <1>2, <2>2
      <3> HIDE DEF k
      <3> QED BY <3>1, <3>2
    <2> QED BY <1>1, <2>1, <2>2
  <1> QED BY <1>2, <1>3, SeqEqual

LEMMA PartIs ==
    ASSUME NEW T, NEW s, NEW m \in Nat, NEW n \in Nat, m <= n, NEW w \in Seq(T),
           \A i \in m..n : s[i] \in T, Len(w) = n - m + 1,
           \A i \in 1 .. n - m + 1 : w[i] = s[m + i - 1]
    PROVE  SubSeq(s, m, n) = w
  <1>1. /\ SubSeq(s, m, n) \in Seq(T) /\ Len(SubSeq(s, m, n)) = n - m + 1
        /\ \A i \in 1 .. n - m + 1 : SubSeq(s, m, n)[i] = s[m + i - 1]
    BY SubSeqProperties
  <1> QED BY <1>1, SeqEqual

LEMMA PairConcat == ASSUME NEW a, NEW b PROVE <<a>> \o <<b>> = <<a, b>>
  <1> DEFINE T == {a, b}
  <1>1. <<a>> \in Seq(T) /\ <<b>> \in Seq(T) /\ <<a, b>> \in Seq(T)
    OBVIOUS
  <1> DEFINE u == <<a>>
             v == <<b>>
             w == <<a, b>>
  <1>2. /\ Len(u) = 1 /\ Len(v) = 1 /\ Len(w) = 2
        /\ u[1] = a /\ v[1] = b /\ w[1] = a /\ w[2] = b
    OBVIOUS
  <1> HIDE DEF T, u, v, w
  <1>3. /\ Len(w) = Len(u) + Len(v)
        /\ \A i \in 1 .. Len(u) : w[i] = u[i]
        /\ \A i \in 1 .. Len(v) : w[Len(u) + i] = v[i]
    BY <1>2
  <1>4. u \in Seq(T) /\ v \in Seq(T) /\ w \in Seq(T)
    BY <1>1 DEF u, v, w
  <1>5. u \o v = w
    BY <1>3, <1>4, ConcatIs, Zenon
  <1> QED BY <1>5 DEF u, v, w

LEMMA EvalFacts ==
    ASSUME NEW e, NEW t
    PROVE  LET vars == eval(TemplateCode(e), t)
           IN  /\ DOMAIN vars = {<<"v">>, <<"v", "1">>}
               /\ vars[<<"v">>] = Label(e, "phase_now", t)
               /\ vars[<<"v", "1">>] = Label(e, "phase_next", t)
  <1> DEFINE x == Phase(e, "phase_now")
             y == Phase(e, "phase_next")
             code == TemplateCode(e)
             d == Define(<<"v">>, x)
             f == Define(<<"v", "1">>, y)
             defs == {code[i] : i \in Definitions(code)}
             ValueOf(z) == IF z.fn = "literal" THEN z.value
                           ELSE z.prefix \o <<ToString(PhaseSlot(z, t))>>
             Def(n) == CHOOSE g \in defs : g.name = n
  <1>1. defs = {d, f}
    <2>1. Definitions(code) = {2, 3} /\ code[2] = d /\ code[3] = f
      BY CodeFacts
    <2> HIDE DEF code, d, f
    <2> QED BY <2>1
  <1>2. d.name = <<"v">> /\ f.name = <<"v", "1">> /\ d.expr = x /\ f.expr = y
    BY DefineFacts
  <1>3. x.fn # "literal" /\ y.fn # "literal" /\ x.prefix = <<"p">> /\ y.prefix = <<"p">>
    BY PhaseFacts
  <1>4. <<"v">> # <<"v", "1">>
    OBVIOUS
  <1>5. eval(code, t) = [n \in {g.name : g \in defs} |-> ValueOf(Def(n).expr)]
    BY DEF eval
  <1> HIDE DEF x, y, code, d, f, defs
  <1>6. {g.name : g \in defs} = {<<"v">>, <<"v", "1">>}
    BY <1>1, <1>2
  <1>7. Def(<<"v">>) = d /\ Def(<<"v", "1">>) = f
    BY <1>1, <1>2, <1>4
  <1>8. ValueOf(x) = <<"p", ToString(PhaseSlot(x, t))>> /\ ValueOf(y) = <<"p", ToString(PhaseSlot(y, t))>>
    BY <1>3, PairConcat, Zenon
  <1> HIDE DEF ValueOf, Def
  <1>9. /\ DOMAIN eval(code, t) = {<<"v">>, <<"v", "1">>}
        /\ eval(code, t)[<<"v">>] = ValueOf(x) /\ eval(code, t)[<<"v", "1">>] = ValueOf(y)
    BY <1>2, <1>5, <1>6, <1>7
  <1> QED BY <1>8, <1>9 DEF Label, x, y, code

\* FlattenSeq of six texts.
LEMMA FlattenSix ==
    ASSUME NEW q, Len(q) = 6
    PROVE  FlattenSeq(q) = ((((q[1] \o q[2]) \o q[3]) \o q[4]) \o q[5]) \o q[6]
  <1> DEFINE Eqn(h) == h = [i \in 1..Len(q) |-> IF i = 1 THEN q[i] ELSE h[i - 1] \o q[i]]
             two == q[1] \o q[2]
             three == two \o q[3]
             four == three \o q[4]
             five == four \o q[5]
             six == five \o q[6]
             g == <<q[1], two, three, four, five, six>>
             fl == CHOOSE h : Eqn(h)
  <1>2. FlattenSeq(q) = fl[6]
    BY DEF FlattenSeq
  <1>3. g = [i \in 1..6 |-> IF i = 1 THEN q[i] ELSE g[i - 1] \o q[i]]
    <2>1. /\ DOMAIN g = 1..6 /\ g = [i \in 1..6 |-> g[i]]
          /\ g[1] = q[1] /\ g[2] = g[1] \o q[2] /\ g[3] = g[2] \o q[3]
          /\ g[4] = g[3] \o q[4] /\ g[5] = g[4] \o q[5] /\ g[6] = g[5] \o q[6]
      <3> HIDE DEF two, three, four, five, six
      <3>1. DOMAIN g = 1..6 /\ g = [i \in 1..6 |-> g[i]]
        OBVIOUS
      <3>2. /\ g[1] = q[1] /\ g[2] = two /\ g[3] = three /\ g[4] = four /\ g[5] = five /\ g[6] = six
        OBVIOUS
      <3> HIDE DEF g
      <3> QED BY <3>1, <3>2 DEF two, three, four, five, six
    <2> HIDE DEF g
    <2>2. \A i \in 1..6 : g[i] = IF i = 1 THEN q[i] ELSE g[i - 1] \o q[i]
      <3> SUFFICES ASSUME NEW i \in 1..6 PROVE g[i] = IF i = 1 THEN q[i] ELSE g[i - 1] \o q[i]
        OBVIOUS
      <3>1. CASE i = 1
        BY <2>1, <3>1
      <3>2. CASE i = 2
        <4>1. i # 1 /\ i - 1 = 1
          BY <3>2
        <4> QED BY <2>1, <3>2, <4>1, Zenon
      <3>3. CASE i = 3
        <4>1. i # 1 /\ i - 1 = 2
          BY <3>3
        <4> QED BY <2>1, <3>3, <4>1, Zenon
      <3>4. CASE i = 4
        <4>1. i # 1 /\ i - 1 = 3
          BY <3>4
        <4> QED BY <2>1, <3>4, <4>1, Zenon
      <3>5. CASE i = 5
        <4>1. i # 1 /\ i - 1 = 4
          BY <3>5
        <4> QED BY <2>1, <3>5, <4>1, Zenon
      <3>6. CASE i = 6
        <4>1. i # 1 /\ i - 1 = 5
          BY <3>6
        <4> QED BY <2>1, <3>6, <4>1, Zenon
      <3> QED BY <3>1, <3>2, <3>3, <3>4, <3>5, <3>6
    <2> QED BY <2>1, <2>2
  <1>4. Eqn(g)
    BY <1>3
  <1> HIDE DEF g
  <1>5. Eqn(fl)
    BY <1>4
  <1> HIDE DEF fl
  <1>6. /\ fl[1] = q[1] /\ fl[2] = fl[1] \o q[2] /\ fl[3] = fl[2] \o q[3]
        /\ fl[4] = fl[3] \o q[4] /\ fl[5] = fl[4] \o q[5] /\ fl[6] = fl[5] \o q[6]
    <2>1. \A i \in 1..6 : fl[i] = IF i = 1 THEN q[i] ELSE fl[i - 1] \o q[i]
      BY <1>5
    <2>2. fl[1] = q[1]
      BY <2>1
    <2>3. fl[2] = fl[1] \o q[2]
      BY <2>1
    <2>4. fl[3] = fl[2] \o q[3]
      BY <2>1
    <2>5. fl[4] = fl[3] \o q[4]
      BY <2>1
    <2>6. fl[5] = fl[4] \o q[5]
      BY <2>1
    <2>7. fl[6] = fl[5] \o q[6]
      BY <2>1
    <2> QED BY <2>2, <2>3, <2>4, <2>5, <2>6, <2>7
  <1> QED BY <1>2, <1>6

\* The names in the template.
LEMMA TemplateNames ==
    /\ DOMAIN Template = 1..6
    /\ Template[1] = "$" /\ Template[2] = "v" /\ Template[3] = "sp"
    /\ Template[4] = "$" /\ Template[5] = "v" /\ Template[6] = "1"
    /\ NameEnd(Template, 1) = 2 /\ NameEnd(Template, 4) = 6
    /\ SubSeq(Template, 2, 2) = <<"v">> /\ SubSeq(Template, 5, 6) = <<"v", "1">>
  <1> DEFINE s == Template
  <1>1. /\ DOMAIN s = 1..6 /\ Len(s) = 6 /\ s[1] = "$" /\ s[2] = "v" /\ s[3] = "sp"
        /\ s[4] = "$" /\ s[5] = "v" /\ s[6] = "1"
    BY DEF Template
  <1>2. SubSeq(s, 2, 2) = <<"v">> /\ SubSeq(s, 5, 6) = <<"v", "1">>
    <2> DEFINE T == {"$", "v", "sp", "1"}
    <2>1. <<"v">> \in Seq(T) /\ <<"v", "1">> \in Seq(T) /\ Len(<<"v">>) = 2 - 2 + 1
          /\ Len(<<"v", "1">>) = 6 - 5 + 1
      OBVIOUS
    <2>2. \A i \in 2..2 : s[i] \in T
      BY <1>1
    <2>3. \A i \in 5..6 : s[i] \in T
      BY <1>1
    <2> HIDE DEF s
    <2>4. \A i \in 1 .. 2 - 2 + 1 : <<"v">>[i] = s[2 + i - 1]
      BY <1>1
    <2>5. \A i \in 1 .. 6 - 5 + 1 : <<"v", "1">>[i] = s[5 + i - 1]
      BY <1>1
    <2> HIDE DEF T
    <2>0. 2 \in Nat /\ 5 \in Nat /\ 6 \in Nat /\ 2 <= 2 /\ 5 <= 6
      OBVIOUS
    <2>6. SubSeq(s, 2, 2) = <<"v">>
      BY <2>0, <2>1, <2>2, <2>4, PartIs, Zenon
    <2>7. SubSeq(s, 5, 6) = <<"v", "1">>
      BY <2>0, <2>1, <2>3, <2>5, PartIs, Zenon
    <2> QED BY <2>6, <2>7
  <1> HIDE DEF s
  <1>3. /\ is_ident_byte("v") /\ is_ident_byte("1")
        /\ ~ is_ident_byte("$") /\ ~ is_ident_byte("sp")
    BY FunctionsAssumption DEF is_ident_byte
  <1>4. {j \in 1 + 1 .. Len(s) : ~ is_ident_byte(s[j])} \cup {Len(s) + 1} = {3, 4, 7}
    <2> SUFFICES ASSUME NEW j \in 2..6 PROVE ~ is_ident_byte(s[j]) <=> j \in {3, 4}
      BY <1>1
    <2>1. j = 2 \/ j = 3 \/ j = 4 \/ j = 5 \/ j = 6
      OBVIOUS
    <2> QED BY <1>1, <1>3, <2>1
  <1>5. {j \in 4 + 1 .. Len(s) : ~ is_ident_byte(s[j])} \cup {Len(s) + 1} = {7}
    <2> SUFFICES ASSUME NEW j \in 5..6 PROVE is_ident_byte(s[j])
      BY <1>1
    <2> QED BY <1>1, <1>3
  <1>6. Min({3, 4, 7}) = 3 /\ Min({7}) = 7
    BY MinIs
  <1>7. NameEnd(s, 1) = 2 /\ NameEnd(s, 4) = 6
    <2>1. NameEnd(s, 1) = 3 - 1
      BY <1>4, <1>6 DEF NameEnd
    <2>2. NameEnd(s, 4) = 7 - 1
      BY <1>5, <1>6 DEF NameEnd
    <2> QED BY <2>1, <2>2
  <1> QED BY <1>1, <1>2, <1>7 DEF s

\* The parts of the rendered template, put together and taken out again.
LEMMA TemplateParts ==
    ASSUME NEW a, NEW b
    PROVE  /\ ((((<<"p", a>> \o << >>) \o <<"sp">>) \o <<"p", b>>) \o << >>) \o << >>
                = <<"p", a, "sp", "p", b>>
           /\ SubSeq(<<"p", a, "sp", "p", b>>, 1, 2) = <<"p", a>>
           /\ SubSeq(<<"p", a, "sp", "p", b>>, 4, 5) = <<"p", b>>
  <1> DEFINE T == {"p", "sp", a, b}
             pa == <<"p", a>>
             sp == <<"sp">>
             pb == <<"p", b>>
             three == <<"p", a, "sp">>
             w == <<"p", a, "sp", "p", b>>
  <1>1. pa \in Seq(T) /\ sp \in Seq(T) /\ pb \in Seq(T) /\ three \in Seq(T) /\ w \in Seq(T)
    OBVIOUS
  <1>2. Len(pa) = 2 /\ Len(sp) = 1 /\ Len(pb) = 2 /\ Len(three) = 3 /\ Len(w) = 5
    OBVIOUS
  <1>3. /\ pa[1] = "p" /\ pa[2] = a /\ sp[1] = "sp" /\ pb[1] = "p" /\ pb[2] = b
        /\ three[1] = "p" /\ three[2] = a /\ three[3] = "sp"
        /\ w[1] = "p" /\ w[2] = a /\ w[3] = "sp" /\ w[4] = "p" /\ w[5] = b
    OBVIOUS
  <1>4. "p" \in T /\ "sp" \in T /\ a \in T /\ b \in T
    OBVIOUS
  <1> HIDE DEF T, pa, sp, pb, three, w
  <1>5. pa \o sp = three
    <2>1. \A i \in 1 .. Len(pa) : three[i] = pa[i]
      BY <1>2, <1>3
    <2>2. \A i \in 1 .. Len(sp) : three[Len(pa) + i] = sp[i]
      BY <1>2, <1>3
    <2>3. Len(three) = Len(pa) + Len(sp)
      BY <1>2
    <2> QED BY <1>1, <2>1, <2>2, <2>3, ConcatIs, Zenon
  <1>6. three \o pb = w
    <2>1. \A i \in 1 .. Len(three) : w[i] = three[i]
      BY <1>2, <1>3
    <2>2. \A i \in 1 .. Len(pb) : w[Len(three) + i] = pb[i]
      BY <1>2, <1>3
    <2>3. Len(w) = Len(three) + Len(pb)
      BY <1>2
    <2> QED BY <1>1, <2>1, <2>2, <2>3, ConcatIs, Zenon
  <1>7. pa \o << >> = pa /\ w \o << >> = w
    BY <1>1, ConcatEmptySeq
  <1>8. ((((pa \o << >>) \o sp) \o pb) \o << >>) \o << >> = w
    BY <1>5, <1>6, <1>7
  <1>9. SubSeq(w, 1, 2) = pa
    <2>1. \A i \in 1..2 : w[i] \in T
      BY <1>3, <1>4
    <2>2. \A i \in 1 .. 2 - 1 + 1 : pa[i] = w[1 + i - 1]
      BY <1>3
    <2> QED BY <1>1, <1>2, <2>1, <2>2, PartIs
  <1>10. SubSeq(w, 4, 5) = pb
    <2>1. \A i \in 4..5 : w[i] \in T
      BY <1>3, <1>4
    <2>2. \A i \in 1 .. 5 - 4 + 1 : pb[i] = w[4 + i - 1]
      BY <1>3
    <2> QED BY <1>1, <1>2, <2>1, <2>2, PartIs
  <1> QED BY <1>8, <1>9, <1>10 DEF pa, sp, pb, w

\* What the template becomes.
LEMMA ResolvedTemplate ==
    ASSUME NEW vars, DOMAIN vars = {<<"v">>, <<"v", "1">>},
           NEW a, vars[<<"v">>] = <<"p", a>>, NEW b, vars[<<"v", "1">>] = <<"p", b>>
    PROVE  resolve_vars(Template, vars) = <<"p", a, "sp", "p", b>>
  <1> DEFINE s == Template
             known == {i \in DOMAIN s : /\ s[i] = "$" /\ is_param_start(At(s, i + 1))
                                        /\ SubSeq(s, i + 1, NameEnd(s, i)) \in DOMAIN vars}
             piece == [i \in DOMAIN s |->
                        IF i \in known THEN vars[SubSeq(s, i + 1, NameEnd(s, i))]
                        ELSE IF \E k \in known : i \in k .. NameEnd(s, k) THEN << >> ELSE <<s[i]>>]
  <1>1. /\ DOMAIN s = 1..6
        /\ s[1] = "$" /\ s[2] = "v" /\ s[3] = "sp" /\ s[4] = "$" /\ s[5] = "v" /\ s[6] = "1"
        /\ NameEnd(s, 1) = 2 /\ NameEnd(s, 4) = 6
        /\ SubSeq(s, 2, 2) = <<"v">> /\ SubSeq(s, 5, 6) = <<"v", "1">>
    BY TemplateNames
  <1>2. resolve_vars(s, vars) = FlattenSeq(piece)
    BY DEF resolve_vars
  <1> HIDE DEF s
  <1>3. At(s, 2) = "v" /\ At(s, 5) = "v" /\ is_param_start("v")
    BY <1>1, FunctionsAssumption DEF At, is_param_start
  <1>4. known = {1, 4}
    <2>1. \A i \in 1..6 : s[i] = "$" <=> i \in {1, 4}
      <3> SUFFICES ASSUME NEW i \in 1..6 PROVE s[i] = "$" <=> i \in {1, 4}
        OBVIOUS
      <3>1. i = 1 \/ i = 2 \/ i = 3 \/ i = 4 \/ i = 5 \/ i = 6
        OBVIOUS
      <3> QED BY <1>1, <3>1
    <2>2. 1 \in known
      BY <1>1, <1>3
    <2>3. 4 \in known
      BY <1>1, <1>3
    <2> QED BY <1>1, <2>1, <2>2, <2>3
  <1> HIDE DEF known
  <1>5. /\ piece[1] = <<"p", a>> /\ piece[2] = << >> /\ piece[3] = <<"sp">>
        /\ piece[4] = <<"p", b>> /\ piece[5] = << >> /\ piece[6] = << >>
    <2>1. \A i \in 1..6 : (\E k \in known : i \in k .. NameEnd(s, k)) <=> i \in 1..2 \cup 4..6
      BY <1>1, <1>4
    <2>2. piece[1] = <<"p", a>>
      <3>1. piece[1] = vars[SubSeq(s, 1 + 1, NameEnd(s, 1))]
        BY <1>1, <1>4
      <3>2. 1 + 1 = 2
        OBVIOUS
      <3> QED BY <1>1, <3>1, <3>2, Zenon
    <2>3. piece[4] = <<"p", b>>
      <3>1. piece[4] = vars[SubSeq(s, 4 + 1, NameEnd(s, 4))]
        BY <1>1, <1>4
      <3>2. 4 + 1 = 5
        OBVIOUS
      <3> QED BY <1>1, <3>1, <3>2, Zenon
    <2>4. piece[2] = << >> /\ piece[5] = << >> /\ piece[6] = << >>
      BY <1>1, <1>4, <2>1
    <2>5. piece[3] = <<"sp">>
      BY <1>1, <1>4, <2>1
    <2> QED BY <2>2, <2>3, <2>4, <2>5
  <1>6. piece = <<<<"p", a>>, << >>, <<"sp">>, <<"p", b>>, << >>, << >>>>
    <2>1. DOMAIN piece = 1..6 /\ piece = [i \in 1..6 |-> piece[i]]
      BY <1>1
    <2> HIDE DEF piece
    <2> QED BY <1>5, <2>1
  <1> HIDE DEF piece
  <1>7. FlattenSeq(piece) = ((((<<"p", a>> \o << >>) \o <<"sp">>) \o <<"p", b>>) \o << >>) \o << >>
    <2>1. Len(piece) = 6
      BY <1>6
    <2>2. FlattenSeq(piece) = ((((piece[1] \o piece[2]) \o piece[3]) \o piece[4]) \o piece[5]) \o piece[6]
      BY <2>1, FlattenSix
    <2> QED BY <1>5, <2>2, Zenon
  <1>8. ((((<<"p", a>> \o << >>) \o <<"sp">>) \o <<"p", b>>) \o << >>) \o << >> = <<"p", a, "sp", "p", b>>
    BY TemplateParts
  <1> QED BY <1>2, <1>7, <1>8 DEF s

LEMMA RenderedLabels ==
    ASSUME NEW e, NEW t, ValidPhase(Phase(e, "phase_now"))
    PROVE  LabelNow(e, t) = Label(e, "phase_now", t) /\ LabelNext(e, t) = Label(e, "phase_next", t)
  <1> DEFINE code == TemplateCode(e)
             a == ToString(PhaseSlot(Phase(e, "phase_now"), t))
             b == ToString(PhaseSlot(Phase(e, "phase_next"), t))
  <1>1. ~ EvalFails(code) /\ code # << >>
    BY FailsWhen, CodeFacts
  <1>2. Rendered(e, t) = resolve_vars(Template, eval(code, t))
    BY <1>1 DEF Rendered, render
  <1>3. /\ DOMAIN eval(code, t) = {<<"v">>, <<"v", "1">>}
        /\ eval(code, t)[<<"v">>] = <<"p", a>> /\ eval(code, t)[<<"v", "1">>] = <<"p", b>>
    BY EvalFacts DEF Label
  <1> HIDE DEF code, a, b
  <1>4. Rendered(e, t) = <<"p", a, "sp", "p", b>>
    BY <1>2, <1>3, ResolvedTemplate
  <1>5. SubSeq(<<"p", a, "sp", "p", b>>, 1, 2) = <<"p", a>>
        /\ SubSeq(<<"p", a, "sp", "p", b>>, 4, 5) = <<"p", b>>
    BY TemplateParts
  <1> QED BY <1>4, <1>5 DEF LabelNow, LabelNext, Label, a, b

\* For any period, bucket and clock, and any range of integers, the two labels of
\* a template serve for a whole bucket when the bucket divides the period, and
\* parameters that cannot be slots are an error (eval_expr and render in vel.rs).
THEOREM LabelsServe == FunctionsSpec => []LabelsServeABucket
  <1>1. InputInv => LabelsServeABucket
    <2> SUFFICES ASSUME InputInv, kind = "phase" PROVE LabelsServeABucket
      BY DEF LabelsServeABucket
    <2> DEFINE period == input.period
               bucket == input.bucket
               x == Phase(input, "phase_now")
               y == Phase(input, "phase_next")
    <2>1. period \in Nat /\ bucket \in Nat /\ now \in Nat
      BY FunctionsAssumption DEF InputInv, Phases, Seconds
    <2>2. /\ x.fn = "phase_now" /\ x.period = period /\ x.bucket = bucket
          /\ y.fn = "phase_next" /\ y.period = period /\ y.bucket = bucket
      BY PhaseFacts
    <2> HIDE DEF period, bucket, x, y
    <2>3. Nanos \in Nat /\ Nanos > 0 /\ MaxU64 \in Nat
      BY VelAssumption
    <2>4. /\ saturating_mul(period, Nanos) = IF period * Nanos <= MaxU64 THEN period * Nanos ELSE MaxU64
          /\ saturating_mul(bucket, Nanos) = IF bucket * Nanos <= MaxU64 THEN bucket * Nanos ELSE MaxU64
      BY <2>1, <2>3, Saturation
    <2>5. ASSUME bucket = 0 \/ (bucket > period /\ period * Nanos < MaxU64)
          PROVE  Rendered(input, now) = VelError
      <3>1. ~ ValidPhase(x)
        <4>1. CASE bucket = 0
          <5>1. bucket * Nanos = 0
            BY <2>3, <4>1
          <5> QED BY <2>2, <2>3, <2>4, <5>1 DEF ValidPhase
        <4>2. CASE bucket > period /\ period * Nanos < MaxU64
          <5>1. bucket * Nanos > period * Nanos
            BY <2>1, <2>3, <4>2
          <5> QED BY <2>1, <2>2, <2>3, <2>4, <4>2, <5>1 DEF ValidPhase
        <4> QED BY <2>5, <4>1, <4>2
      <3> QED BY <3>1, FailsWhen, CodeFacts DEF Rendered, render, x
    <2>6. ASSUME bucket \in 1..period, period % bucket = 0, period * Nanos <= MaxU64,
                 now + bucket * Nanos <= MaxU64, NEW d \in 0 .. bucket * Nanos
          PROVE  LabelNow(input, now + d) \in {LabelNow(input, now), LabelNext(input, now)}
      <3>1. ValidPhase(x)
        <4>1. bucket * Nanos <= period * Nanos /\ bucket * Nanos > 0
          BY <2>1, <2>3, <2>6
        <4> QED BY <2>1, <2>2, <2>3, <2>4, <2>6, <4>1 DEF ValidPhase
      <3>2. PhaseSlot(x, now + d) \in {PhaseSlot(x, now), PhaseSlot(y, now)}
        BY <2>1, <2>2, <2>6, SlotServesABucket
      <3>3. /\ LabelNow(input, now + d) = <<"p", ToString(PhaseSlot(x, now + d))>>
            /\ LabelNow(input, now) = <<"p", ToString(PhaseSlot(x, now))>>
            /\ LabelNext(input, now) = <<"p", ToString(PhaseSlot(y, now))>>
        BY <3>1, RenderedLabels DEF Label, x, y
      <3> QED BY <3>2, <3>3
    <2> QED BY <2>5, <2>6 DEF LabelsServeABucket, period, bucket
  <1> QED BY <1>1, InputInvHolds, PTL

-----------------------------------------------------------------------------
(***************************************************************************)
(* Statements: the scans.  The lexemes of a text are defined by a          *)
(* recursive function, so first it is shown to exist, from the end of the  *)
(* text back, and then what it returns.  The induction is an argument      *)
(* about the least natural number that is not in a set.                    *)
(***************************************************************************)
\* The order by which least elements are taken.
Below == {ss \in Nat \X Nat : ss[1] < ss[2]}

LEMMA LeastNatural ==
    ASSUME NEW S \in SUBSET Nat, S # {}
    PROVE  \E m \in S : \A x \in S : m <= x
  <1>1. IsWellFoundedOn(Below, Nat)
    BY NatLessThanWellFounded DEF OpToRel, Below
  <1>2. PICK m \in S : \A x \in S : ~ (<<x, m>> \in Below)
    BY <1>1, WFMin
  <1>3. ASSUME NEW x \in S PROVE m <= x
    <2>1. x \in Nat /\ m \in Nat
      OBVIOUS
    <2>2. <<x, m>> \in Below <=> x < m
      BY <2>1 DEF Below
    <2> QED BY <1>2, <2>1, <2>2
  <1> QED BY <1>3

LEMMA AllNaturals ==
    ASSUME NEW S, 0 \in S, \A n \in Nat : n \in S => n + 1 \in S
    PROVE  Nat \subseteq S
  <1> SUFFICES ASSUME NEW k \in Nat \ S PROVE FALSE
    OBVIOUS
  <1>1. PICK m \in Nat \ S : \A x \in Nat \ S : m <= x
    BY LeastNatural, Nat \ S \in SUBSET Nat
  <1>2. m # 0 /\ m - 1 \in Nat
    BY <1>1
  <1>3. m - 1 \in S
    BY <1>1, <1>2
  <1>4. (m - 1) + 1 = m
    BY <1>1
  <1> QED BY <1>1, <1>2, <1>3, <1>4

LEMMA MinIsLeast ==
    ASSUME NEW S \in SUBSET Nat, S # {}
    PROVE  Min(S) \in S /\ \A x \in S : Min(S) <= x
  <1>1. \E m \in S : \A x \in S : m <= x
    BY LeastNatural
  <1> QED BY <1>1 DEF Min

LEMMA FirstWithin ==
    ASSUME NEW n \in Nat, NEW i \in Nat, NEW S \in SUBSET (i .. n)
    PROVE  /\ Min(S \cup {n}) \in Nat /\ Min(S \cup {n}) <= n
           /\ Min(S \cup {n}) >= i \/ Min(S \cup {n}) = n
  <1>1. S \cup {n} \in SUBSET Nat /\ S \cup {n} # {}
    OBVIOUS
  <1>2. Min(S \cup {n}) \in S \cup {n} /\ \A x \in S \cup {n} : Min(S \cup {n}) <= x
    BY <1>1, MinIsLeast
  <1> DEFINE m == Min(S \cup {n})
  <1> HIDE DEF m
  <1>3. (m \in S \/ m = n) /\ m <= n
    BY <1>2 DEF m
  <1>4. m \in i .. n \/ m = n
    BY <1>3
  <1>5. m \in Nat /\ m <= n /\ (m >= i \/ m = n)
    BY <1>3, <1>4
  <1> QED BY <1>5 DEF m

LEMMA PairMin ==
    ASSUME NEW a \in Nat, NEW b \in Nat
    PROVE  Min({a, b}) \in {a, b} /\ Min({a, b}) <= a /\ Min({a, b}) <= b
  <1> QED BY MinIsLeast, {a, b} \in SUBSET Nat, {a, b} # {}

LEMMA DollarEndWithin ==
    ASSUME NEW T, NEW s \in Seq(T), NEW i \in 1 .. Len(s), parse_dollar_quote_tag(s, i) # {}
    PROVE  DollarEnd(s, i) \in i .. Len(s)
  <1> DEFINE n == Len(s)
             m == Min(parse_dollar_quote_tag(s, i))
             tag == SubSeq(s, i, m)
             S == {j \in i + Len(tag) .. n : StartsAt(s, j, tag)}
             f == Min(S \cup {n})
  <1>1. n \in Nat
    BY LenProperties
  <1>2. m \in i + 1 .. n
    <2>1. parse_dollar_quote_tag(s, i) \subseteq i + 1 .. n
      BY DEF parse_dollar_quote_tag
    <2>2. parse_dollar_quote_tag(s, i) \in SUBSET Nat
      BY <1>1, <2>1
    <2> QED BY <2>1, <2>2, MinIsLeast
  <1>3. Len(tag) = m - i + 1
    BY <1>1, <1>2, SubSeqProperties
  <1> HIDE DEF n, m, tag
  <1>4. i \in 1 .. n
    BY DEF n
  <1>5. i + Len(tag) \in Nat /\ S \in SUBSET (i + Len(tag) .. n)
    BY <1>1, <1>2, <1>3, <1>4
  <1> HIDE DEF S
  <1>6. f \in Nat /\ f <= n /\ (f >= i + Len(tag) \/ f = n)
    BY <1>1, <1>5, FirstWithin
  <1>7. DollarEnd(s, i) = Min({f + Len(tag) - 1, n})
    BY DEF DollarEnd, First, f, S, tag, m, n
  <1> HIDE DEF f
  <1>8. f + Len(tag) - 1 \in Nat /\ f + Len(tag) - 1 >= i
    BY <1>1, <1>2, <1>3, <1>4, <1>6
  <1>9. Min({f + Len(tag) - 1, n}) \in i .. n
    BY <1>1, <1>4, <1>8, PairMin
  <1> QED BY <1>7, <1>9 DEF n

LEMMA ColonEndWithin ==
    ASSUME NEW T, NEW s \in Seq(T), NEW i \in 1 .. Len(s)
    PROVE  ColonEnd(s, i) \in i .. Len(s)
  <1> DEFINE n == Len(s)
             S == {j \in i + 2 .. n : ~is_param_continue(s[j])} \cup {n + 1}
  <1>1. n \in Nat /\ DOMAIN s = 1 .. n
    BY LenProperties
  <1>2. At(s, i + 1) = ":" => i + 1 \in i .. n
    BY <1>1 DEF At
  <1>3. Min(S) - 1 \in i .. n
    <2>1. S \in SUBSET Nat /\ S # {} /\ \A x \in S : x \in i + 1 .. n + 1
      BY <1>1
    <2> HIDE DEF S, n
    <2>2. Min(S) \in S
      BY <2>1, MinIsLeast
    <2>3. Min(S) \in i + 1 .. n + 1
      BY <2>1, <2>2
    <2> DEFINE m == Min(S)
    <2> HIDE DEF m
    <2>4. m \in i + 1 .. n + 1 => m - 1 \in i .. n
      BY <1>1
    <2> QED BY <2>3, <2>4 DEF m
  <1> HIDE DEF n
  <1>4. ColonEnd(s, i) = IF At(s, i + 1) = ":" THEN i + 1
                         ELSE IF ~is_param_start(At(s, i + 1)) THEN i ELSE Min(S) - 1
    BY DEF ColonEnd, S, n
  <1>5. i \in i .. n
    BY <1>1 DEF n
  <1> HIDE DEF S
  <1> QED BY <1>2, <1>3, <1>4, <1>5 DEF n

\* Wherever a lexeme begins, it ends in the text.
LEMMA LexemeEndWithin ==
    ASSUME NEW T, NEW s \in Seq(T), NEW i \in 1 .. Len(s), NEW scan
    PROVE  LexemeEnd(scan, s, i) \in i .. Len(s)
  <1> DEFINE n == Len(s)
  <1>1. n \in Nat
    BY LenProperties
  <1>2. \A S : S \in SUBSET (i + 1 .. n) => Min(S \cup {n}) \in i .. n
    <2> SUFFICES ASSUME NEW S \in SUBSET (i + 1 .. n) PROVE Min(S \cup {n}) \in i .. n
      OBVIOUS
    <2>1. i + 1 \in Nat /\ i <= n
      BY <1>1
    <2>2. /\ Min(S \cup {n}) \in Nat /\ Min(S \cup {n}) <= n
          /\ Min(S \cup {n}) >= i + 1 \/ Min(S \cup {n}) = n
      BY <1>1, <2>1, FirstWithin
    <2> DEFINE m == Min(S \cup {n})
    <2> HIDE DEF m
    <2>3. m \in Nat /\ m <= n /\ (m >= i + 1 \/ m = n) => m \in i .. n
      BY <1>1, <2>1
    <2> QED BY <2>2, <2>3 DEF m
  <1>3. First(s, i + 1, LAMBDA j : ClosesQuote(s, i, j)) \in i .. n
    BY <1>2 DEF First
  <1>4. First(s, i + 1, LAMBDA j : ClosesPair(s, i, j)) \in i .. n
    BY <1>2 DEF First
  <1>5. First(s, i + 2, LAMBDA j : s[j] = "nl") \in i .. n
    BY <1>1, <1>2, {j \in i + 2 .. n : s[j] = "nl"} \in SUBSET (i + 1 .. n) DEF First
  <1>6. Min({First(s, i + 2, LAMBDA j : StartsAt(s, j, <<"*", "/">>)) + 1, Len(s)}) \in i .. n
    <2> DEFINE f == First(s, i + 2, LAMBDA j : StartsAt(s, j, <<"*", "/">>))
    <2>1. f \in i .. n
      BY <1>1, <1>2, {j \in i + 2 .. n : StartsAt(s, j, <<"*", "/">>)} \in SUBSET (i + 1 .. n) DEF First
    <2> HIDE DEF f
    <2>2. Min({f + 1, n}) \in i .. n
      BY <1>1, <2>1, PairMin
    <2> QED BY <2>2 DEF f
  <1>7. parse_dollar_quote_tag(s, i) # {} => DollarEnd(s, i) \in i .. n
    BY DollarEndWithin
  <1>8. ColonEnd(s, i) \in i .. n
    BY ColonEndWithin
  <1>9. i \in i .. n
    BY <1>1
  <1> QED BY <1>3, <1>4, <1>5, <1>6, <1>7, <1>8, <1>9, Zenon DEF LexemeEnd
\* The last k places of a text of n symbols, and the place after it.
From(n, k) == n + 1 - k .. n + 1

\* The body of the function by which Lexemes is defined.
ScanStep(scan, s, f, i) ==
    IF i > Len(s) THEN << >>
    ELSE <<[at |-> i, to |-> LexemeEnd(scan, s, i)]>> \o f[LexemeEnd(scan, s, i) + 1]

\* The function exists on the last k places.
ScanFrom(scan, s, k) ==
    \E f : f = [i \in From(Len(s), k) |-> ScanStep(scan, s, f, i)]

LEMMA ScanGoesBack ==
    ASSUME NEW T, NEW s \in Seq(T), NEW scan, NEW k \in Nat, k + 1 <= Len(s), ScanFrom(scan, s, k)
    PROVE  ScanFrom(scan, s, k + 1)
  <1> DEFINE n == Len(s)
             j == n - k
  <1>1. n \in Nat
    BY LenProperties
  <1>2. PICK f : f = [i \in From(n, k) |-> ScanStep(scan, s, f, i)]
    BY DEF ScanFrom
  <1> DEFINE g == [i \in From(n, k + 1) |-> IF i = j THEN ScanStep(scan, s, f, j) ELSE f[i]]
  <1>3. /\ j \in 1 .. n /\ j \notin From(n, k)
        /\ \A i \in From(n, k + 1) : i \in From(n, k) \/ i = j
        /\ \A i \in From(n, k) : i \in From(n, k + 1)
    BY <1>1 DEF From
  <1>4. \A i \in From(n, k + 1) : i <= n => LexemeEnd(scan, s, i) + 1 \in From(n, k)
    <2> SUFFICES ASSUME NEW i \in From(n, k + 1), i <= n PROVE LexemeEnd(scan, s, i) + 1 \in From(n, k)
      OBVIOUS
    <2>1. i \in 1 .. n /\ i >= n - k
      BY <1>1 DEF From
    <2>2. LexemeEnd(scan, s, i) \in i .. n
      BY <2>1, LexemeEndWithin
    <2> QED BY <1>1, <2>1, <2>2 DEF From
  <1>5. \A i \in From(n, k) : g[i] = f[i]
    BY <1>3
  <1>6. ASSUME NEW i \in From(n, k + 1) PROVE ScanStep(scan, s, g, i) = ScanStep(scan, s, f, i)
    <2> HIDE DEF g
    <2>1. i \in Nat
      BY <1>1 DEF From
    <2>2. CASE i > n
      BY <2>2 DEF ScanStep
    <2>3. CASE i <= n
      <3>1. LexemeEnd(scan, s, i) + 1 \in From(n, k)
        BY <1>4, <1>6, <2>3
      <3>2. g[LexemeEnd(scan, s, i) + 1] = f[LexemeEnd(scan, s, i) + 1]
        BY <1>5, <3>1
      <3> QED BY <3>2 DEF ScanStep
    <2> QED BY <1>1, <2>1, <2>2, <2>3
  <1>7. \A i \in From(n, k) : f[i] = ScanStep(scan, s, f, i)
    BY <1>2
  <1>8. \A i \in From(n, k + 1) : g[i] = ScanStep(scan, s, g, i)
    BY <1>3, <1>6, <1>7
  <1>9. g = [i \in From(n, k + 1) |-> ScanStep(scan, s, g, i)]
    <2>1. g = [i \in From(n, k + 1) |-> g[i]]
      OBVIOUS
    <2> HIDE DEF g
    <2> QED BY <1>8, <2>1
  <1> HIDE DEF g
  <1> QED BY <1>9 DEF ScanFrom

LEMMA ScanExists ==
    ASSUME NEW T, NEW s \in Seq(T), NEW scan
    PROVE  ScanFrom(scan, s, Len(s))
  <1> DEFINE S == {k \in Nat : k <= Len(s) => ScanFrom(scan, s, k)}
  <1>1. Len(s) \in Nat
    BY LenProperties
  <1>2. 0 \in S
    <2> DEFINE f == [i \in From(Len(s), 0) |-> << >>]
    <2>1. \A i \in From(Len(s), 0) : ScanStep(scan, s, f, i) = << >>
      BY <1>1 DEF From, ScanStep
    <2>2. f = [i \in From(Len(s), 0) |-> ScanStep(scan, s, f, i)]
      BY <2>1
    <2> HIDE DEF f
    <2>3. ScanFrom(scan, s, 0)
      BY <2>2 DEF ScanFrom
    <2> QED BY <2>3
  <1>3. ASSUME NEW k \in Nat, k \in S PROVE k + 1 \in S
    <2>1. k + 1 <= Len(s) => k <= Len(s)
      BY <1>1
    <2>2. k + 1 <= Len(s) => ScanFrom(scan, s, k + 1)
      BY <1>3, <2>1, ScanGoesBack
    <2> QED BY <2>2
  <1>4. Len(s) \in S
    <2> HIDE DEF S
    <2> QED BY <1>1, <1>2, <1>3, AllNaturals
  <1> QED BY <1>1, <1>4

LEMMA LexemesOfScan ==
    ASSUME NEW T, NEW s \in Seq(T), NEW scan
    PROVE  \E f : /\ f = [i \in 1 .. Len(s) + 1 |-> ScanStep(scan, s, f, i)]
                  /\ Lexemes(scan, s) = f[1]
  <1>1. From(Len(s), Len(s)) = 1 .. Len(s) + 1
    BY LenProperties DEF From
  <1>2. \E f : f = [i \in 1 .. Len(s) + 1 |-> ScanStep(scan, s, f, i)]
    <2>1. PICK f : f = [i \in From(Len(s), Len(s)) |-> ScanStep(scan, s, f, i)]
      BY ScanExists DEF ScanFrom
    <2> QED BY <1>1, <2>1
  <1> DEFINE g == CHOOSE f : f = [i \in 1 .. Len(s) + 1 |-> ScanStep(scan, s, f, i)]
  <1>3. g = [i \in 1 .. Len(s) + 1 |-> ScanStep(scan, s, g, i)]
    BY <1>2
  <1>4. Lexemes(scan, s) = g[1]
    BY Zenon DEF Lexemes, ScanStep
  <1> HIDE DEF g
  <1> QED BY <1>3, <1>4
\* The lexemes a text may have.
Lexeme(s) == [at : 1 .. Len(s), to : 1 .. Len(s)]

\* ls cuts the text from i on: each symbol is in one lexeme, each lexeme is
\* what the scan finds where it begins, and they come in the order of the text.
Cuts(scan, s, ls, i) ==
    /\ ls \in Seq(Lexeme(s))
    /\ \A p \in i .. Len(s) : \E k \in DOMAIN ls : p \in ls[k].at .. ls[k].to
    /\ \A k \in DOMAIN ls : i <= ls[k].at /\ ls[k].to = LexemeEnd(scan, s, ls[k].at)
    /\ \A j, k \in DOMAIN ls : j < k => ls[j].to < ls[k].at

LEMMA OneMoreLexeme ==
    ASSUME NEW T, NEW s \in Seq(T), NEW scan, NEW i \in 1 .. Len(s), NEW rest,
           Cuts(scan, s, rest, LexemeEnd(scan, s, i) + 1)
    PROVE  Cuts(scan, s, <<[at |-> i, to |-> LexemeEnd(scan, s, i)]>> \o rest, i)
  <1> DEFINE n == Len(s)
             e == LexemeEnd(scan, s, i)
             l == [at |-> i, to |-> e]
             ls == <<l>> \o rest
  <1>1. n \in Nat /\ e \in i .. n
    BY LenProperties, LexemeEndWithin
  <1>2. l \in Lexeme(s) /\ rest \in Seq(Lexeme(s))
    BY <1>1 DEF Cuts, Lexeme
  <1>3. <<l>> \in Seq(Lexeme(s)) /\ Len(<<l>>) = 1 /\ <<l>>[1] = l
    BY <1>2
  <1>4. Len(rest) \in Nat /\ DOMAIN rest = 1 .. Len(rest)
    BY <1>2, LenProperties
  <1> HIDE DEF e, l
  <1>5. /\ ls \in Seq(Lexeme(s)) /\ Len(ls) = 1 + Len(rest)
        /\ \A k \in 1 .. 1 + Len(rest) : ls[k] = IF k <= 1 THEN <<l>>[k] ELSE rest[k - 1]
    BY <1>2, <1>3, ConcatProperties
  <1> HIDE DEF ls
  <1>6. DOMAIN ls = 1 .. 1 + Len(rest) /\ ls[1] = l
    BY <1>3, <1>4, <1>5, LenProperties
  <1>7. \A k \in DOMAIN ls : k # 1 => k - 1 \in DOMAIN rest /\ ls[k] = rest[k - 1]
    BY <1>4, <1>5, <1>6
  <1>8. \A k \in DOMAIN rest : k + 1 \in DOMAIN ls /\ ls[k + 1] = rest[k]
    BY <1>4, <1>5, <1>6
  <1>9. l.at = i /\ l.to = e
    BY DEF l
  <1>10. /\ \A p \in e + 1 .. n : \E k \in DOMAIN rest : p \in rest[k].at .. rest[k].to
         /\ \A k \in DOMAIN rest : e + 1 <= rest[k].at /\ rest[k].to = LexemeEnd(scan, s, rest[k].at)
         /\ \A j, k \in DOMAIN rest : j < k => rest[j].to < rest[k].at
    BY DEF Cuts, e
  <1>11. \A k \in DOMAIN rest : rest[k].at \in Nat /\ rest[k].to \in Nat
    <2> SUFFICES ASSUME NEW k \in DOMAIN rest PROVE rest[k].at \in Nat /\ rest[k].to \in Nat
      OBVIOUS
    <2>1. rest[k] \in Lexeme(s)
      BY <1>2, <1>4, ElementOfSeq
    <2>2. rest[k].at \in 1 .. n /\ rest[k].to \in 1 .. n
      BY <2>1 DEF Lexeme
    <2> QED BY <1>1, <2>2
  <1>12. ASSUME NEW p \in i .. n PROVE \E k \in DOMAIN ls : p \in ls[k].at .. ls[k].to
    <2>1. CASE p <= e
      BY <1>1, <1>4, <1>6, <1>9, <2>1
    <2>2. CASE p > e
      <3>1. PICK k \in DOMAIN rest : p \in rest[k].at .. rest[k].to
        BY <1>1, <1>10, <2>2
      <3> QED BY <1>8, <3>1
    <2> QED BY <1>1, <2>1, <2>2
  <1>13. ASSUME NEW k \in DOMAIN ls PROVE i <= ls[k].at /\ ls[k].to = LexemeEnd(scan, s, ls[k].at)
    <2>1. CASE k = 1
      BY <1>6, <1>9, <2>1 DEF e
    <2>2. CASE k # 1
      BY <1>1, <1>7, <1>10, <1>11, <2>2
    <2> QED BY <2>1, <2>2
  <1>14. ASSUME NEW j \in DOMAIN ls, NEW k \in DOMAIN ls, j < k PROVE ls[j].to < ls[k].at
    <2>1. k # 1 /\ j \in Nat /\ k \in Nat
      BY <1>4, <1>6, <1>14
    <2>2. CASE j = 1
      BY <1>1, <1>6, <1>7, <1>9, <1>10, <1>11, <2>1, <2>2
    <2>3. CASE j # 1
      <3>1. j - 1 < k - 1
        BY <1>14, <2>1
      <3> QED BY <1>7, <1>10, <2>1, <2>3, <3>1
    <2> QED BY <2>2, <2>3
  <1>15. Cuts(scan, s, ls, i)
    BY <1>5, <1>12, <1>13, <1>14 DEF Cuts
  <1> QED BY <1>15 DEF ls, l, e

\* The loops over the bytes of a statement (rewrite_sql in postgres.rs and
\* mysql.rs, the scans of sql_route.rs) skip nothing and read nothing twice:
\* every symbol of any text is in exactly one lexeme, and none runs past the
\* end, literals and comments that are never closed included.
THEOREM ScansCoverTheText ==
    ASSUME NEW T, NEW s \in Seq(T), NEW scan
    PROVE  Cuts(scan, s, Lexemes(scan, s), 1)
  <1> DEFINE n == Len(s)
  <1>1. n \in Nat
    BY LenProperties
  <1>2. PICK f : f = [i \in 1 .. n + 1 |-> ScanStep(scan, s, f, i)] /\ Lexemes(scan, s) = f[1]
    BY LexemesOfScan
  <1>3. \A i \in 1 .. n + 1 : f[i] = ScanStep(scan, s, f, i)
    BY <1>2
  <1> DEFINE S == {k \in Nat : k <= n => \A i \in From(n, k) : Cuts(scan, s, f[i], i)}
  <1>4. 0 \in S
    <2>1. ASSUME NEW i \in From(n, 0) PROVE Cuts(scan, s, f[i], i)
      <3>1. i = n + 1
        BY <1>1 DEF From
      <3>2. f[i] = << >>
        <4>1. i \in 1 .. n + 1 /\ i > Len(s)
          BY <1>1, <3>1
        <4>2. ScanStep(scan, s, f, i) = << >>
          BY <4>1 DEF ScanStep
        <4> QED BY <1>3, <4>1, <4>2
      <3>3. << >> \in Seq(Lexeme(s)) /\ DOMAIN << >> = {}
        OBVIOUS
      <3>4. i .. Len(s) = {}
        BY <1>1, <3>1
      <3> QED BY <3>2, <3>3, <3>4 DEF Cuts
    <2> QED BY <2>1
  <1>5. ASSUME NEW k \in Nat, k \in S PROVE k + 1 \in S
    <2> SUFFICES ASSUME k + 1 <= n, NEW i \in From(n, k + 1) PROVE Cuts(scan, s, f[i], i)
      OBVIOUS
    <2>1. \A m \in From(n, k) : Cuts(scan, s, f[m], m)
      BY <1>1, <1>5
    <2>2. CASE i \in From(n, k)
      BY <2>1, <2>2
    <2>3. CASE i \notin From(n, k)
      <3>1. i = n - k /\ i \in 1 .. n /\ ~(i > n)
        BY <1>1, <2>3 DEF From
      <3>2. LexemeEnd(scan, s, i) \in i .. n
        BY <3>1, LexemeEndWithin
      <3>3. LexemeEnd(scan, s, i) + 1 \in From(n, k)
        BY <1>1, <3>1, <3>2 DEF From
      <3>4. Cuts(scan, s, f[LexemeEnd(scan, s, i) + 1], LexemeEnd(scan, s, i) + 1)
        BY <2>1, <3>3
      <3>5. f[i] = <<[at |-> i, to |-> LexemeEnd(scan, s, i)]>> \o f[LexemeEnd(scan, s, i) + 1]
        <4>1. i \in 1 .. n + 1 /\ ~(i > Len(s))
          BY <1>1, <3>1
        <4>2. f[i] = ScanStep(scan, s, f, i)
          BY <1>3, <4>1
        <4> QED BY <4>1, <4>2 DEF ScanStep
      <3> QED BY <3>1, <3>4, <3>5, OneMoreLexeme
    <2> QED BY <2>2, <2>3
  <1>6. n \in S
    <2> HIDE DEF S, n
    <2> QED BY <1>1, <1>4, <1>5, AllNaturals
  <1>7. 1 \in From(n, n)
    BY <1>1 DEF From
  <1>8. \A i \in From(n, n) : Cuts(scan, s, f[i], i)
    BY <1>1, <1>6
  <1> QED BY <1>2, <1>7, <1>8

-----------------------------------------------------------------------------
(***************************************************************************)
(* Statements: the loop of rewrite_sql, as the states r[0], r[1], ...      *)
(* after each lexeme.  A fold is a recursive function on sets of indices:  *)
(* it is shown to exist, and to be such a run.                             *)
(***************************************************************************)
\* Before the first lexeme.
Start == [text |-> << >>, names |-> << >>]

\* What the driver's rewriter writes for a name, and the names bound with it.
Marked(driver, names, name) ==
    IF driver = "postgres" THEN Numbered(names, name) ELSE Positional(names, name)

\* One turn of the loop of rewrite_sql.
RewriteStep(driver, s, acc, l) ==
    IF IsName(s, l)
    THEN [text |-> acc.text \o Marked(driver, acc.names, Piece(s, l)).text,
          names |-> Marked(driver, acc.names, Piece(s, l)).names]
    ELSE [acc EXCEPT !.text = @ \o Copied(Piece(s, l))]

\* The body of the function by which FoldLeft is defined.
FoldStep(driver, s, ls, f, x) ==
    IF x = {} THEN Start ELSE RewriteStep(driver, s, f[x \ {Max(x)}], ls[Max(x)])

\* What is returned at the end of the loop.
Outcome(params, all) ==
    IF ToSet(all.names) \subseteq DOMAIN ByName(params)
    THEN [text |-> all.text, binds |-> [k \in DOMAIN all.names |-> ByName(params)[all.names[k]]]]
    ELSE Missing

\* f is the fold over the first k lexemes.
FoldOf(driver, s, ls, k, f) == f = [x \in SUBSET (1 .. k) |-> FoldStep(driver, s, ls, f, x)]

FoldUpTo(driver, s, ls, k) == \E f : FoldOf(driver, s, ls, k, f)

LEMMA FoldGoesOn ==
    ASSUME NEW driver, NEW s, NEW ls, NEW k \in Nat, FoldUpTo(driver, s, ls, k)
    PROVE  FoldUpTo(driver, s, ls, k + 1)
  <1>1. PICK f : f = [x \in SUBSET (1 .. k) |-> FoldStep(driver, s, ls, f, x)]
    BY DEF FoldUpTo, FoldOf
  <1> DEFINE g == [x \in SUBSET (1 .. k + 1) |->
                     IF k + 1 \in x THEN RewriteStep(driver, s, f[x \ {k + 1}], ls[k + 1]) ELSE f[x]]
  <1>2. \A x \in SUBSET (1 .. k) : x \in SUBSET (1 .. k + 1) /\ k + 1 \notin x
    OBVIOUS
  <1>3. \A x \in SUBSET (1 .. k) : g[x] = f[x]
    BY <1>2
  <1>4. \A x \in SUBSET (1 .. k) : f[x] = FoldStep(driver, s, ls, f, x)
    BY <1>1
  <1>5. ASSUME NEW x \in SUBSET (1 .. k + 1) PROVE g[x] = FoldStep(driver, s, ls, g, x)
    <2>1. CASE k + 1 \in x
      <3>1. x \ {k + 1} \in SUBSET (1 .. k)
        OBVIOUS
      <3>2. Max(x) = k + 1
        <4>1. \A y \in x : y \in Int /\ k + 1 >= y
          OBVIOUS
        <4>2. \A m \in x : (\A y \in x : m >= y) => m = k + 1
          BY <2>1, <4>1
        <4> QED BY <2>1, <4>1, <4>2 DEF Max
      <3>3. g[x] = RewriteStep(driver, s, f[x \ {k + 1}], ls[k + 1])
        BY <2>1
      <3>4. g[x \ {k + 1}] = f[x \ {k + 1}]
        BY <1>3, <3>1
      <3> HIDE DEF g
      <3> QED BY <2>1, <3>2, <3>3, <3>4 DEF FoldStep
    <2>2. CASE k + 1 \notin x
      <3>1. x \in SUBSET (1 .. k)
        BY <2>2
      <3>2. x \ {Max(x)} \in SUBSET (1 .. k)
        BY <3>1
      <3>3. g[x] = FoldStep(driver, s, ls, f, x)
        BY <1>3, <1>4, <3>1
      <3>4. g[x \ {Max(x)}] = f[x \ {Max(x)}]
        BY <1>3, <3>2
      <3> HIDE DEF g
      <3> QED BY <3>3, <3>4 DEF FoldStep
    <2> QED BY <2>1, <2>2
  <1>6. g = [x \in SUBSET (1 .. k + 1) |-> FoldStep(driver, s, ls, g, x)]
    <2>1. g = [x \in SUBSET (1 .. k + 1) |-> g[x]]
      OBVIOUS
    <2> HIDE DEF g
    <2> QED BY <1>5, <2>1
  <1> HIDE DEF g
  <1> QED BY <1>6 DEF FoldUpTo, FoldOf

LEMMA FoldExists ==
    ASSUME NEW driver, NEW s, NEW ls, NEW n \in Nat
    PROVE  FoldUpTo(driver, s, ls, n)
  <1> DEFINE S == {k \in Nat : FoldUpTo(driver, s, ls, k)}
  <1>1. 0 \in S
    <2> DEFINE f == [x \in SUBSET (1 .. 0) |-> Start]
    <2>1. \A x \in SUBSET (1 .. 0) : FoldStep(driver, s, ls, f, x) = Start
      BY DEF FoldStep
    <2>2. f = [x \in SUBSET (1 .. 0) |-> FoldStep(driver, s, ls, f, x)]
      BY <2>1
    <2> HIDE DEF f
    <2>3. FoldUpTo(driver, s, ls, 0)
      BY <2>2 DEF FoldUpTo, FoldOf
    <2> QED BY <2>3
  <1>2. ASSUME NEW k \in Nat, k \in S PROVE k + 1 \in S
    BY <1>2, FoldGoesOn
  <1>3. n \in S
    <2> HIDE DEF S
    <2> QED BY <1>1, <1>2, AllNaturals
  <1> QED BY <1>3

\* The states of the loop of rewrite_sql, one per lexeme.
Run(driver, s, ls, r) ==
    /\ r[0] = Start
    /\ \A j \in 1 .. Len(ls) : r[j] = RewriteStep(driver, s, r[j - 1], ls[j])

LEMMA RunOfFold ==
    ASSUME NEW driver, NEW s, NEW ls, Len(ls) \in Nat, NEW f,
           FoldOf(driver, s, ls, Len(ls), f)
    PROVE  \E r : Run(driver, s, ls, r) /\ r[Len(ls)] = f[1 .. Len(ls)]
  <1> DEFINE n == Len(ls)
             r == [j \in 0 .. n |-> f[1 .. j]]
  <1>1. \A x \in SUBSET (1 .. n) : f[x] = FoldStep(driver, s, ls, f, x)
    BY DEF FoldOf
  <1>2. \A j \in 0 .. n : r[j] = f[1 .. j]
    OBVIOUS
  <1> HIDE DEF r
  <1>3. r[0] = Start
    <2>1. 1 .. 0 = {} /\ {} \in SUBSET (1 .. n) /\ 0 \in 0 .. n
      OBVIOUS
    <2> QED BY <1>1, <1>2, <2>1 DEF FoldStep
  <1>4. ASSUME NEW j \in 1 .. n PROVE r[j] = RewriteStep(driver, s, r[j - 1], ls[j])
    <2>1. /\ 1 .. j \in SUBSET (1 .. n) /\ 1 .. j # {} /\ j \in 0 .. n /\ j - 1 \in 0 .. n
          /\ (1 .. j) \ {j} = 1 .. j - 1
      <3> HIDE DEF n
      <3>1. n \in Nat
        BY DEF n
      <3>2. j \in Nat /\ 1 <= j /\ j <= n
        BY <3>1
      <3>3. 1 .. j # {} /\ (1 .. j) \ {j} = 1 .. j - 1
        BY <3>2
      <3> QED BY <3>1, <3>2, <3>3
    <2>2. Max(1 .. j) = j
      <3>1. j \in 1 .. j /\ \A y \in 1 .. j : j >= y
        OBVIOUS
      <3>2. \A m \in 1 .. j : (\A y \in 1 .. j : m >= y) => m = j
        OBVIOUS
      <3> QED BY <3>1, <3>2 DEF Max
    <2>3. f[1 .. j] = RewriteStep(driver, s, f[1 .. j - 1], ls[j])
      BY <1>1, <2>1, <2>2 DEF FoldStep
    <2> QED BY <1>2, <2>1, <2>3
  <1>5. r[n] = f[1 .. n]
    BY <1>2, n \in 0 .. n
  <1> QED BY <1>3, <1>4, <1>5 DEF Run

\* Each rewriter returns the outcome of a run.
LEMMA PostgresRuns ==
    ASSUME NEW T, NEW s \in Seq(T), NEW params
    PROVE  LET ls == Lexemes(RewriteScan, s)
           IN  \E r : /\ Run("postgres", s, ls, r)
                      /\ rewrite_postgres(s, params) = Outcome(params, r[Len(ls)])
  <1> DEFINE ls == Lexemes(RewriteScan, s)
             Step(acc, l) == IF IsName(s, l)
                             THEN [text |-> acc.text \o Numbered(acc.names, Piece(s, l)).text,
                                   names |-> Numbered(acc.names, Piece(s, l)).names]
                             ELSE [acc EXCEPT !.text = @ \o Copied(Piece(s, l))]
             Body(f, x) == IF x = {} THEN Start ELSE Step(f[x \ {Max(x)}], ls[Max(x)])
             g == CHOOSE f : f = [x \in SUBSET (DOMAIN ls) |-> Body(f, x)]
  <1>1. rewrite_postgres(s, params) = Outcome(params, g[DOMAIN ls])
    BY Zenon DEF rewrite_postgres, Rewritten, FoldLeft, MapThenFoldSet, Outcome, Start
  <1>2. ls \in Seq(Lexeme(s))
    BY ScansCoverTheText DEF Cuts
  <1>3. Len(ls) \in Nat /\ DOMAIN ls = 1 .. Len(ls)
    BY <1>2, LenProperties
  <1>4. \A f, x : FoldStep("postgres", s, ls, f, x) = Body(f, x)
    <2> HIDE DEF ls
    <2> QED BY Zenon DEF FoldStep, RewriteStep, Marked
  <1> HIDE DEF ls, Body
  <1>5. \E f : f = [x \in SUBSET (DOMAIN ls) |-> Body(f, x)]
    <2>1. FoldUpTo("postgres", s, ls, Len(ls))
      BY <1>3, FoldExists
    <2>2. PICK f : FoldOf("postgres", s, ls, Len(ls), f)
      BY <2>1 DEF FoldUpTo
    <2>3. f = [x \in SUBSET (DOMAIN ls) |-> Body(f, x)]
      BY <1>3, <1>4, <2>2 DEF FoldOf
    <2> QED BY <2>3
  <1>6. g = [x \in SUBSET (DOMAIN ls) |-> Body(g, x)]
    BY <1>5
  <1> HIDE DEF g
  <1>7. FoldOf("postgres", s, ls, Len(ls), g)
    BY <1>3, <1>4, <1>6 DEF FoldOf
  <1>8. \E r : Run("postgres", s, ls, r) /\ r[Len(ls)] = g[1 .. Len(ls)]
    BY <1>3, <1>7, RunOfFold
  <1> QED BY <1>1, <1>3, <1>8 DEF ls

LEMMA MySqlRuns ==
    ASSUME NEW T, NEW s \in Seq(T), NEW params
    PROVE  LET ls == Lexemes(RewriteScan, s)
           IN  \E r : /\ Run("mysql", s, ls, r)
                      /\ rewrite_mysql(s, params) = Outcome(params, r[Len(ls)])
  <1> DEFINE ls == Lexemes(RewriteScan, s)
             Step(acc, l) == IF IsName(s, l)
                             THEN [text |-> acc.text \o Positional(acc.names, Piece(s, l)).text,
                                   names |-> Positional(acc.names, Piece(s, l)).names]
                             ELSE [acc EXCEPT !.text = @ \o Copied(Piece(s, l))]
             Body(f, x) == IF x = {} THEN Start ELSE Step(f[x \ {Max(x)}], ls[Max(x)])
             g == CHOOSE f : f = [x \in SUBSET (DOMAIN ls) |-> Body(f, x)]
  <1>1. rewrite_mysql(s, params) = Outcome(params, g[DOMAIN ls])
    BY Zenon DEF rewrite_mysql, Rewritten, FoldLeft, MapThenFoldSet, Outcome, Start
  <1>2. ls \in Seq(Lexeme(s))
    BY ScansCoverTheText DEF Cuts
  <1>3. Len(ls) \in Nat /\ DOMAIN ls = 1 .. Len(ls)
    BY <1>2, LenProperties
  <1>4. \A f, x : FoldStep("mysql", s, ls, f, x) = Body(f, x)
    <2> HIDE DEF ls
    <2> QED BY Zenon DEF FoldStep, RewriteStep, Marked
  <1> HIDE DEF ls, Body
  <1>5. \E f : f = [x \in SUBSET (DOMAIN ls) |-> Body(f, x)]
    <2>1. FoldUpTo("mysql", s, ls, Len(ls))
      BY <1>3, FoldExists
    <2>2. PICK f : FoldOf("mysql", s, ls, Len(ls), f)
      BY <2>1 DEF FoldUpTo
    <2>3. f = [x \in SUBSET (DOMAIN ls) |-> Body(f, x)]
      BY <1>3, <1>4, <2>2 DEF FoldOf
    <2> QED BY <2>3
  <1>6. g = [x \in SUBSET (DOMAIN ls) |-> Body(g, x)]
    BY <1>5
  <1> HIDE DEF g
  <1>7. FoldOf("mysql", s, ls, Len(ls), g)
    BY <1>3, <1>4, <1>6 DEF FoldOf
  <1>8. \E r : Run("mysql", s, ls, r) /\ r[Len(ls)] = g[1 .. Len(ls)]
    BY <1>3, <1>7, RunOfFold
  <1> QED BY <1>1, <1>3, <1>8 DEF ls

\* The function by which FlattenSeq is defined exists.
LEMMA FlattenExists ==
    ASSUME NEW q, NEW n \in Nat
    PROVE  \E f : f = [i \in 1 .. n |-> IF i = 1 THEN q[i] ELSE f[i - 1] \o q[i]]
  <1> DEFINE Body(f, i) == IF i = 1 THEN q[i] ELSE f[i - 1] \o q[i]
             Ex(k) == \E f : f = [i \in 1 .. k |-> Body(f, i)]
             S == {k \in Nat : Ex(k)}
  <1>1. 0 \in S
    <2> DEFINE f == [i \in 1 .. 0 |-> << >>]
    <2>1. f = [i \in 1 .. 0 |-> Body(f, i)]
      OBVIOUS
    <2> HIDE DEF f
    <2>2. Ex(0)
      BY <2>1
    <2> HIDE DEF Ex
    <2> QED BY <2>2
  <1>2. ASSUME NEW k \in Nat, k \in S PROVE k + 1 \in S
    <2>1. PICK f : f = [i \in 1 .. k |-> Body(f, i)]
      <3>1. Ex(k)
        <4> HIDE DEF Ex
        <4> QED BY <1>2
      <3> QED BY <3>1
    <2> DEFINE g == [i \in 1 .. k + 1 |-> IF i = k + 1 THEN Body(f, k + 1) ELSE f[i]]
    <2>2. \A i \in 1 .. k : i \in 1 .. k + 1 /\ i # k + 1
      OBVIOUS
    <2>3. \A i \in 1 .. k : g[i] = f[i]
      BY <2>2
    <2>4. ASSUME NEW i \in 1 .. k + 1 PROVE Body(g, i) = Body(f, i)
      <3>1. CASE i = 1
        BY <3>1
      <3>2. CASE i # 1
        <4>1. i - 1 \in 1 .. k
          BY <3>2
        <4>2. g[i - 1] = f[i - 1]
          BY <2>3, <4>1
        <4> HIDE DEF g
        <4> QED BY <3>2, <4>2
      <3> QED BY <3>1, <3>2
    <2>5. \A i \in 1 .. k : f[i] = Body(f, i)
      BY <2>1
    <2> HIDE DEF Body
    <2>6. \A i \in 1 .. k + 1 : g[i] = Body(f, i)
      <3>1. \A i \in 1 .. k + 1 : i \in 1 .. k \/ i = k + 1
        OBVIOUS
      <3>2. g[k + 1] = Body(f, k + 1)
        OBVIOUS
      <3> HIDE DEF g
      <3> QED BY <2>3, <2>5, <3>1, <3>2
    <2>7. g = [i \in 1 .. k + 1 |-> Body(g, i)]
      <3>1. g = [i \in 1 .. k + 1 |-> g[i]]
        OBVIOUS
      <3> HIDE DEF g
      <3> QED BY <2>4, <2>6, <3>1
    <2> HIDE DEF g
    <2>8. Ex(k + 1)
      BY <2>7
    <2> HIDE DEF Ex
    <2> QED BY <2>8
  <1>3. n \in S
    <2> HIDE DEF S
    <2> QED BY <1>1, <1>2, AllNaturals
  <1>4. Ex(n)
    <2> HIDE DEF Ex
    <2> QED BY <1>3
  <1> QED BY <1>4

\* FlattenSeq adds one text after the other.
LEMMA FlattenRuns ==
    ASSUME NEW q, Len(q) \in Nat, Len(q) > 0
    PROVE  \E f : /\ FlattenSeq(q) = f[Len(q)] /\ f[1] = q[1]
                  /\ \A i \in 2 .. Len(q) : f[i] = f[i - 1] \o q[i]
  <1> DEFINE g == CHOOSE f : f = [i \in 1 .. Len(q) |-> IF i = 1 THEN q[i] ELSE f[i - 1] \o q[i]]
  <1>1. FlattenSeq(q) = g[Len(q)]
    <2>1. ~(Len(q) = 0)
      OBVIOUS
    <2> QED BY <2>1, Zenon DEF FlattenSeq
  <1>2. g = [i \in 1 .. Len(q) |-> IF i = 1 THEN q[i] ELSE g[i - 1] \o q[i]]
    BY FlattenExists
  <1> HIDE DEF g
  <1>3. \A i \in 1 .. Len(q) : g[i] = IF i = 1 THEN q[i] ELSE g[i - 1] \o q[i]
    BY <1>2
  <1>4. g[1] = q[1]
    BY <1>3
  <1>5. ASSUME NEW i \in 2 .. Len(q) PROVE g[i] = g[i - 1] \o q[i]
    <2>1. i \in 1 .. Len(q) /\ i # 1
      OBVIOUS
    <2> QED BY <1>3, <2>1
  <1> QED BY <1>1, <1>4, <1>5

LEMMA FlattenType ==
    ASSUME NEW U, NEW q \in Seq(Seq(U))
    PROVE  FlattenSeq(q) \in Seq(U)
  <1>1. Len(q) \in Nat /\ \A i \in 1 .. Len(q) : q[i] \in Seq(U)
    BY LenProperties, ElementOfSeq
  <1>2. CASE Len(q) = 0
    <2>1. q = << >>
      BY <1>2, EmptySeq
    <2>2. FlattenSeq(q) = q
      BY <1>2, Zenon DEF FlattenSeq
    <2> QED BY <2>1, <2>2, EmptySeq
  <1>3. CASE Len(q) > 0
    <2>1. PICK f : /\ FlattenSeq(q) = f[Len(q)] /\ f[1] = q[1]
                   /\ \A i \in 2 .. Len(q) : f[i] = f[i - 1] \o q[i]
      BY <1>1, <1>3, FlattenRuns
    <2> DEFINE S == {k \in Nat : k + 1 <= Len(q) => f[k + 1] \in Seq(U)}
    <2>2. 0 \in S
      <3>1. f[0 + 1] \in Seq(U)
        BY <1>1, <1>3, <2>1
      <3> QED BY <3>1
    <2>3. ASSUME NEW k \in Nat, k \in S PROVE k + 1 \in S
      <3> SUFFICES ASSUME (k + 1) + 1 <= Len(q) PROVE f[(k + 1) + 1] \in Seq(U)
        OBVIOUS
      <3>1. f[k + 1] \in Seq(U)
        BY <1>1, <2>3
      <3>2. (k + 1) + 1 \in 2 .. Len(q) /\ ((k + 1) + 1) - 1 = k + 1 /\ (k + 1) + 1 \in 1 .. Len(q)
        BY <1>1
      <3>3. f[(k + 1) + 1] = f[k + 1] \o q[(k + 1) + 1]
        BY <2>1, <3>2
      <3> QED BY <1>1, <3>1, <3>2, <3>3, ConcatProperties
    <2>4. Len(q) - 1 \in S
      <3>1. Len(q) - 1 \in Nat
        BY <1>1, <1>3
      <3> HIDE DEF S
      <3> QED BY <2>2, <2>3, <3>1, AllNaturals
    <2>5. Len(q) - 1 \in Nat /\ (Len(q) - 1) + 1 = Len(q)
      BY <1>1, <1>3
    <2> QED BY <2>1, <2>4, <2>5
  <1> QED BY <1>1, <1>2, <1>3

-----------------------------------------------------------------------------
(***************************************************************************)
(* Statements: what the loop has done after j lexemes.                     *)
(***************************************************************************)
Drivers == {"postgres", "mysql"}

\* b begins with a.
Extends(b, a) == Len(a) <= Len(b) /\ \A k \in 1 .. Len(a) : a[k] = b[k]

\* The names among the first j lexemes.
NamesUpTo(s, ls, j) == {Piece(s, ls[i]) : i \in {i \in 1 .. j : IsName(s, ls[i])}}

NoRepeats(names) == \A j, k \in DOMAIN names : names[j] = names[k] => j = k

\* names are those of the first j lexemes, in their order.
InOrder(s, ls, j, names) ==
    \E at \in [DOMAIN names -> 1 .. j] :
        /\ \A k, m \in DOMAIN names : k < m => at[k] < at[m]
        /\ \A i \in 1 .. j : IsName(s, ls[i]) => \E k \in DOMAIN names : at[k] = i
        /\ \A k \in DOMAIN names : IsName(s, ls[at[k]]) /\ names[k] = Piece(s, ls[at[k]])

IsState(acc) == acc = [text |-> acc.text, names |-> acc.names]

\* The invariant of the loop: the names bound are those met, once each for
\* PostgreSQL, as they come for MySQL; and no name ever loses its place, so
\* that a number written stays the number of its name.
LoopInv(driver, T, s, ls, r, j) ==
    /\ IsState(r[j])
    /\ r[j].names \in Seq(Seq(T))
    /\ ToSet(r[j].names) = NamesUpTo(s, ls, j)
    /\ driver = "postgres" => NoRepeats(r[j].names)
    /\ driver = "mysql" => InOrder(s, ls, j, r[j].names)
    /\ \A i \in 0 .. j : Extends(r[j].names, r[i].names)

LEMMA PieceIsText ==
    ASSUME NEW T, NEW s \in Seq(T), NEW l \in Lexeme(s)
    PROVE  Piece(s, l) \in Seq(T)
  <1>1. l.at \in 1 .. Len(s) /\ l.to \in 1 .. Len(s)
    BY DEF Lexeme
  <1>2. \A i \in l.at .. l.to : s[i] \in T
    BY <1>1, LenProperties, ElementOfSeq
  <1> QED BY <1>1, <1>2, SubSeqProperties DEF Piece

\* The number by which PostgreSQL knows a name.
NumberOf(names, name) == CHOOSE n \in DOMAIN names : names[n] = name

\* What one turn of the loop does with the lexeme l.
StepOK(driver, s, l, acc, next) ==
    /\ IsState(next)
    /\ ~IsName(s, l) => next.names = acc.names /\ next.text = acc.text \o Copied(Piece(s, l))
    /\ IsName(s, l) /\ driver = "postgres" =>
         /\ next.names = IF Piece(s, l) \in ToSet(acc.names) THEN acc.names
                         ELSE Append(acc.names, Piece(s, l))
         /\ next.text = acc.text \o <<"$", ToString(NumberOf(next.names, Piece(s, l)))>>
    /\ IsName(s, l) /\ driver # "postgres" =>
         /\ next.names = Append(acc.names, Piece(s, l))
         /\ next.text = acc.text \o <<"?">>

LEMMA StepFacts ==
    ASSUME NEW driver, NEW s, NEW l, NEW acc, IsState(acc)
    PROVE  StepOK(driver, s, l, acc, RewriteStep(driver, s, acc, l))
  <1> DEFINE next == RewriteStep(driver, s, acc, l)
  <1> SUFFICES StepOK(driver, s, l, acc, next)
    OBVIOUS
  <1> DEFINE name == Piece(s, l)
             marked == Marked(driver, acc.names, name)
             more == IF name \in ToSet(acc.names) THEN acc.names ELSE Append(acc.names, name)
  <1>1. CASE ~IsName(s, l)
    <2>1. next = [text |-> acc.text \o Copied(name), names |-> acc.names]
      BY <1>1 DEF RewriteStep, IsState
    <2> HIDE DEF next
    <2> QED BY <1>1, <2>1 DEF IsState, StepOK
  <1>2. CASE IsName(s, l)
    <2>1. next = [text |-> acc.text \o marked.text, names |-> marked.names]
      BY <1>2, Zenon DEF RewriteStep
    <2>2. driver = "postgres" => marked = [text |-> <<"$", ToString(NumberOf(more, name))>>, names |-> more]
      BY Zenon DEF Marked, Numbered, NumberOf
    <2>3. driver # "postgres" => marked = [text |-> <<"?">>, names |-> Append(acc.names, name)]
      BY Zenon DEF Marked, Positional
    <2> HIDE DEF marked, more, name, next
    <2>4. next.names = marked.names /\ next.text = acc.text \o marked.text
      BY <2>1 DEF IsState
    <2>5. driver = "postgres" => marked.names = more /\ marked.text = <<"$", ToString(NumberOf(more, name))>>
      BY <2>2
    <2>6. driver # "postgres" => marked.names = Append(acc.names, name) /\ marked.text = <<"?">>
      BY <2>3
    <2>7. IsState(next)
      BY <2>1 DEF IsState
    <2> QED BY <1>2, <2>4, <2>5, <2>6, <2>7, Zenon DEF more, name, StepOK
  <1> QED BY <1>1, <1>2

LEMMA LoopStep ==
    ASSUME NEW driver \in Drivers, NEW T, NEW s \in Seq(T), NEW ls \in Seq(Lexeme(s)), NEW r,
           Run(driver, s, ls, r), NEW j \in Nat, j + 1 <= Len(ls), LoopInv(driver, T, s, ls, r, j)
    PROVE  LoopInv(driver, T, s, ls, r, j + 1)
  <1> DEFINE l == ls[j + 1]
             name == Piece(s, l)
             names == r[j].names
             more == r[j + 1].names
  <1>1. /\ j + 1 \in 1 .. Len(ls) /\ (j + 1) - 1 = j
        /\ \A i \in 1 .. j + 1 : i \in 1 .. j \/ i = j + 1
        /\ \A i \in 1 .. j : i \in 1 .. j + 1
    BY LenProperties
  <1>2. r[j + 1] = RewriteStep(driver, s, r[j], l)
    BY <1>1 DEF Run
  <1>3. l \in Lexeme(s) /\ name \in Seq(T)
    BY <1>1, ElementOfSeq, PieceIsText
  <1>4. /\ names \in Seq(Seq(T)) /\ ToSet(names) = NamesUpTo(s, ls, j)
        /\ driver = "postgres" => NoRepeats(names)
        /\ driver = "mysql" => InOrder(s, ls, j, names)
        /\ \A i \in 0 .. j : Extends(names, r[i].names)
        /\ IsState(r[j])
    BY DEF LoopInv
  <1>5. /\ IsState(r[j + 1])
        /\ ~IsName(s, l) => more = names
        /\ IsName(s, l) => more = IF driver = "postgres" /\ name \in ToSet(names) THEN names
                                  ELSE Append(names, name)
    <2>1. StepOK(driver, s, l, r[j], r[j + 1])
      BY <1>2, <1>4, StepFacts
    <2> HIDE DEF l
    <2> QED BY <2>1 DEF StepOK
  <1>6. IF IsName(s, l) THEN NamesUpTo(s, ls, j + 1) = NamesUpTo(s, ls, j) \cup {name}
                        ELSE NamesUpTo(s, ls, j + 1) = NamesUpTo(s, ls, j)
    BY <1>1 DEF NamesUpTo
  <1>7. Len(names) \in Nat /\ DOMAIN names = 1 .. Len(names)
    BY <1>4, LenProperties
  <1> HIDE DEF l, name, names, more
  <1>8. \A i \in 0 .. j + 1 : i \in 0 .. j \/ i = j + 1
    OBVIOUS
  <1>9. CASE more = names /\ (IsName(s, l) => driver = "postgres" /\ name \in ToSet(names))
    <2>1. ToSet(more) = NamesUpTo(s, ls, j + 1)
      BY <1>4, <1>6, <1>9
    <2>2. ASSUME driver = "mysql" PROVE InOrder(s, ls, j + 1, more)
      <3>1. ~IsName(s, ls[j + 1])
        BY <1>9, <2>2 DEF l
      <3>2. PICK at \in [DOMAIN names -> 1 .. j] :
               /\ \A k, m \in DOMAIN names : k < m => at[k] < at[m]
               /\ \A i \in 1 .. j : IsName(s, ls[i]) => \E k \in DOMAIN names : at[k] = i
               /\ \A k \in DOMAIN names : IsName(s, ls[at[k]]) /\ names[k] = Piece(s, ls[at[k]])
        BY <1>4, <2>2 DEF InOrder
      <3>3. at \in [DOMAIN names -> 1 .. j + 1]
        BY <1>1
      <3>4. \A i \in 1 .. j + 1 : IsName(s, ls[i]) => \E k \in DOMAIN names : at[k] = i
        BY <1>1, <3>1, <3>2
      <3> QED BY <1>9, <3>2, <3>3, <3>4 DEF InOrder
    <2>3. \A i \in 0 .. j + 1 : Extends(more, r[i].names)
      <3>1. Extends(more, more)
        BY <1>7, <1>9 DEF Extends
      <3> QED BY <1>4, <1>8, <1>9, <3>1 DEF more
    <2> QED BY <1>4, <1>5, <1>9, <2>1, <2>2, <2>3 DEF LoopInv, more
  <1>10. CASE more = Append(names, name) /\ IsName(s, l) /\ (driver = "postgres" => name \notin ToSet(names))
    <2>1. /\ more \in Seq(Seq(T)) /\ Len(more) = Len(names) + 1 /\ DOMAIN more = 1 .. Len(names) + 1
          /\ \A k \in 1 .. Len(names) : more[k] = names[k]
          /\ more[Len(names) + 1] = name
      BY <1>3, <1>4, <1>10, AppendProperties, LenProperties
    <2>2. /\ \A k \in DOMAIN more : k \in DOMAIN names \/ k = Len(more)
          /\ \A k \in DOMAIN names : k \in DOMAIN more /\ k < Len(more) /\ k # Len(more)
          /\ Len(more) \in DOMAIN more /\ more[Len(more)] = name
          /\ \A k \in DOMAIN names : more[k] = names[k]
      BY <1>7, <2>1
    <2>3. ToSet(more) = NamesUpTo(s, ls, j + 1)
      <3>1. ToSet(more) = ToSet(names) \cup {name}
        BY <2>2 DEF ToSet
      <3> QED BY <1>4, <1>6, <1>10, <3>1
    <2>4. ASSUME driver = "postgres" PROVE NoRepeats(more)
      <3>1. \A k \in DOMAIN names : names[k] # name
        BY <1>10, <2>4 DEF ToSet
      <3> QED BY <1>4, <2>2, <2>4, <3>1 DEF NoRepeats
    <2>5. ASSUME driver = "mysql" PROVE InOrder(s, ls, j + 1, more)
      <3>1. PICK at \in [DOMAIN names -> 1 .. j] :
               /\ \A k, m \in DOMAIN names : k < m => at[k] < at[m]
               /\ \A i \in 1 .. j : IsName(s, ls[i]) => \E k \in DOMAIN names : at[k] = i
               /\ \A k \in DOMAIN names : IsName(s, ls[at[k]]) /\ names[k] = Piece(s, ls[at[k]])
        BY <1>4, <2>5 DEF InOrder
      <3> DEFINE to == [k \in DOMAIN more |-> IF k = Len(more) THEN j + 1 ELSE at[k]]
      <3>2. /\ to[Len(more)] = j + 1
            /\ \A k \in DOMAIN names : to[k] = at[k] /\ at[k] \in 1 .. j
        BY <2>2
      <3>3. to \in [DOMAIN more -> 1 .. j + 1]
        BY <1>1, <2>2
      <3> HIDE DEF to
      <3>4. ASSUME NEW k \in DOMAIN more, NEW m \in DOMAIN more, k < m PROVE to[k] < to[m]
        <4>1. k \in DOMAIN names
          <5>1. k # Len(more)
            BY <1>7, <2>1, <3>4
          <5> QED BY <2>2, <5>1
        <4>2. CASE m \in DOMAIN names
          BY <3>1, <3>2, <3>4, <4>1, <4>2
        <4>3. CASE m = Len(more)
          <5>1. to[m] = j + 1 /\ to[k] \in 1 .. j
            BY <3>2, <4>1, <4>3
          <5> QED BY <5>1
        <4> QED BY <2>2, <4>2, <4>3
      <3>5. ASSUME NEW i \in 1 .. j + 1, IsName(s, ls[i]) PROVE \E k \in DOMAIN more : to[k] = i
        <4>1. CASE i = j + 1
          BY <2>2, <3>2, <4>1
        <4>2. CASE i \in 1 .. j
          BY <2>2, <3>1, <3>2, <3>5, <4>2
        <4> QED BY <1>1, <4>1, <4>2
      <3>6. ASSUME NEW k \in DOMAIN more PROVE IsName(s, ls[to[k]]) /\ more[k] = Piece(s, ls[to[k]])
        <4>1. CASE k = Len(more)
          BY <1>10, <2>2, <3>2, <4>1 DEF l, name
        <4>2. CASE k \in DOMAIN names
          BY <2>2, <3>1, <3>2, <4>2
        <4> QED BY <2>2, <4>1, <4>2
      <3> QED BY <3>3, <3>4, <3>5, <3>6 DEF InOrder
    <2>6. \A i \in 0 .. j + 1 : Extends(more, r[i].names)
      <3>1. Extends(more, more)
        BY <2>1 DEF Extends
      <3>2. ASSUME NEW i \in 0 .. j PROVE Extends(more, r[i].names)
        <4>1. Len(r[i].names) <= Len(names) /\ \A k \in 1 .. Len(r[i].names) : r[i].names[k] = names[k]
          BY <1>4 DEF Extends
        <4> QED BY <1>7, <2>1, <4>1 DEF Extends
      <3> QED BY <1>8, <3>1, <3>2 DEF more
    <2> QED BY <1>5, <2>1, <2>3, <2>4, <2>5, <2>6 DEF LoopInv, more
  <1> QED BY <1>5, <1>9, <1>10 DEF Drivers

LEMMA LoopInvHolds ==
    ASSUME NEW driver \in Drivers, NEW T, NEW s \in Seq(T), NEW ls \in Seq(Lexeme(s)), NEW r,
           Run(driver, s, ls, r)
    PROVE  \A j \in 0 .. Len(ls) : LoopInv(driver, T, s, ls, r, j)
  <1> DEFINE n == Len(ls)
             S == {j \in Nat : j <= n => LoopInv(driver, T, s, ls, r, j)}
  <1>1. n \in Nat
    BY LenProperties
  <1>2. 0 \in S
    <2>1. r[0] = Start /\ r[0].names = << >> /\ IsState(r[0])
      BY DEF Run, Start, IsState
    <2>2. << >> \in Seq(Seq(T)) /\ DOMAIN << >> = {} /\ Len(<< >>) = 0
      OBVIOUS
    <2>3. ToSet(<< >>) = NamesUpTo(s, ls, 0) /\ NoRepeats(<< >>)
      BY <2>2 DEF ToSet, NamesUpTo, NoRepeats
    <2>4. InOrder(s, ls, 0, << >>)
      <3> DEFINE at == [k \in {} |-> 1]
      <3>1. at \in [DOMAIN << >> -> 1 .. 0]
        BY <2>2
      <3>2. 1 .. 0 = {}
        OBVIOUS
      <3> HIDE DEF at
      <3> QED BY <2>2, <3>1, <3>2 DEF InOrder
    <2>5. \A i \in 0 .. 0 : Extends(<< >>, r[i].names)
      BY <2>1, <2>2 DEF Extends
    <2>6. LoopInv(driver, T, s, ls, r, 0)
      BY <2>1, <2>2, <2>3, <2>4, <2>5 DEF LoopInv
    <2> QED BY <2>6
  <1>3. ASSUME NEW j \in Nat, j \in S PROVE j + 1 \in S
    <2>1. j + 1 <= n => j <= n
      BY <1>1
    <2>2. j + 1 <= n => LoopInv(driver, T, s, ls, r, j + 1)
      BY <1>3, <2>1, LoopStep
    <2> QED BY <2>2
  <1>4. Nat \subseteq S
    <2> HIDE DEF S
    <2> QED BY <1>2, <1>3, AllNaturals
  <1> QED BY <1>1, <1>4

\* What is written for the lexeme l when the values are those of names.
Out(driver, s, names, l) ==
    IF ~IsName(s, l) THEN Copied(Piece(s, l))
    ELSE IF driver = "postgres" THEN <<"$", ToString(NumberOf(names, Piece(s, l)))>>
    ELSE <<"?">>

\* The number written for a name is still its number at the end.
LEMMA NumbersStand ==
    ASSUME NEW T, NEW a \in Seq(T), NEW b \in Seq(T), Extends(b, a), NoRepeats(b), NEW name \in ToSet(a)
    PROVE  NumberOf(a, name) = NumberOf(b, name)
  <1>1. /\ Len(a) \in Nat /\ Len(b) \in Nat /\ DOMAIN a = 1 .. Len(a) /\ DOMAIN b = 1 .. Len(b)
    BY LenProperties
  <1>2. \A k \in DOMAIN a : k \in DOMAIN b /\ b[k] = a[k]
    BY <1>1 DEF Extends
  <1>3. PICK k \in DOMAIN a : a[k] = name
    BY DEF ToSet
  <1>4. \A m \in DOMAIN a : a[m] = name => m = k
    BY <1>2, <1>3 DEF NoRepeats
  <1>5. \A m \in DOMAIN b : b[m] = name => m = k
    BY <1>2, <1>3 DEF NoRepeats
  <1>6. NumberOf(a, name) = k
    BY <1>3, <1>4, Zenon DEF NumberOf
  <1>7. NumberOf(b, name) = k
    BY <1>2, <1>3, <1>5, Zenon DEF NumberOf
  <1> QED BY <1>6, <1>7

LEMMA CopiedType ==
    ASSUME NEW T, NEW p \in Seq(T)
    PROVE  Copied(p) \in Seq(T \cup {"byte"})
  <1> DEFINE U == T \cup {"byte"}
             q == [k \in DOMAIN p |-> IF p[k] \in Wide THEN <<"byte", "byte">> ELSE <<p[k]>>]
  <1>1. Len(p) \in Nat /\ DOMAIN p = 1 .. Len(p) /\ \A k \in 1 .. Len(p) : p[k] \in T
    BY LenProperties, ElementOfSeq
  <1>2. <<"byte", "byte">> \in Seq(U)
    OBVIOUS
  <1>3. \A k \in 1 .. Len(p) : <<p[k]>> \in Seq(U)
    BY <1>1
  <1> HIDE DEF U
  <1>4. \A k \in 1 .. Len(p) : (IF p[k] \in Wide THEN <<"byte", "byte">> ELSE <<p[k]>>) \in Seq(U)
    BY <1>2, <1>3
  <1>5. q \in Seq(Seq(U))
    BY <1>1, <1>4, IsASeq
  <1>6. Copied(p) = FlattenSeq(q)
    BY Zenon DEF Copied
  <1> HIDE DEF q
  <1> QED BY <1>5, <1>6, FlattenType DEF U

LEMMA OutType ==
    ASSUME NEW driver, NEW T, NEW s \in Seq(T), NEW l \in Lexeme(s), NEW names
    PROVE  \E U : Out(driver, s, names, l) \in Seq(U)
  <1>1. CASE ~IsName(s, l)
    BY <1>1, PieceIsText, CopiedType DEF Out
  <1>2. CASE IsName(s, l) /\ driver = "postgres"
    <2> DEFINE x == ToString(NumberOf(names, Piece(s, l)))
    <2>1. Out(driver, s, names, l) = <<"$", x>>
      BY <1>2 DEF Out
    <2> HIDE DEF x
    <2>2. <<"$", x>> \in Seq({"$", x})
      OBVIOUS
    <2> QED BY <2>1, <2>2
  <1>3. CASE IsName(s, l) /\ driver # "postgres"
    <2>1. Out(driver, s, names, l) = <<"?">>
      BY <1>3 DEF Out
    <2>2. <<"?">> \in Seq({"?"})
      OBVIOUS
    <2> QED BY <2>1, <2>2
  <1> QED BY <1>1, <1>2, <1>3

\* What each turn writes is what the final names tell.
TextGrows(driver, s, ls, r) ==
    \A j \in 1 .. Len(ls) : r[j].text = r[j - 1].text \o Out(driver, s, r[Len(ls)].names, ls[j])

LEMMA TextStep ==
    ASSUME NEW driver \in Drivers, NEW T, NEW s \in Seq(T), NEW ls \in Seq(Lexeme(s)), NEW r,
           Run(driver, s, ls, r)
    PROVE  TextGrows(driver, s, ls, r)
  <1> SUFFICES ASSUME NEW j \in 1 .. Len(ls)
               PROVE  r[j].text = r[j - 1].text \o Out(driver, s, r[Len(ls)].names, ls[j])
    BY DEF TextGrows
  <1> DEFINE n == Len(ls)
             l == ls[j]
  <1>1. n \in Nat /\ j \in 0 .. n /\ j - 1 \in 0 .. n /\ n \in 0 .. n /\ j \in 1 .. j
    BY LenProperties
  <1>2. /\ LoopInv(driver, T, s, ls, r, j) /\ LoopInv(driver, T, s, ls, r, j - 1)
        /\ LoopInv(driver, T, s, ls, r, n)
    BY <1>1, LoopInvHolds
  <1>3. StepOK(driver, s, l, r[j - 1], r[j])
    <2>1. r[j] = RewriteStep(driver, s, r[j - 1], l)
      BY DEF Run
    <2>2. IsState(r[j - 1])
      BY <1>2 DEF LoopInv
    <2> QED BY <2>1, <2>2, StepFacts
  <1>4. ASSUME IsName(s, l), driver = "postgres"
        PROVE  NumberOf(r[j].names, Piece(s, l)) = NumberOf(r[n].names, Piece(s, l))
    <2>1. Piece(s, l) \in ToSet(r[j].names)
      <3>1. Piece(s, l) \in NamesUpTo(s, ls, j)
        BY <1>1, <1>4 DEF NamesUpTo
      <3> QED BY <1>2, <3>1 DEF LoopInv
    <2>2. /\ r[j].names \in Seq(Seq(T)) /\ r[n].names \in Seq(Seq(T))
          /\ Extends(r[n].names, r[j].names) /\ NoRepeats(r[n].names)
      BY <1>1, <1>2, <1>4 DEF LoopInv
    <2> QED BY <2>1, <2>2, NumbersStand
  <1> HIDE DEF l, n
  <1>5. r[j].text = r[j - 1].text \o Out(driver, s, r[n].names, l)
    <2>1. CASE ~IsName(s, l)
      BY <1>3, <2>1 DEF StepOK, Out
    <2>2. CASE IsName(s, l) /\ driver = "postgres"
      BY <1>3, <1>4, <2>2, Zenon DEF StepOK, Out
    <2>3. CASE IsName(s, l) /\ driver # "postgres"
      BY <1>3, <2>3, Zenon DEF StepOK, Out
    <2> QED BY <2>1, <2>2, <2>3
  <1> QED BY <1>5 DEF l, n

LEMMA RunText ==
    ASSUME NEW driver \in Drivers, NEW T, NEW s \in Seq(T), NEW ls \in Seq(Lexeme(s)), NEW r,
           Run(driver, s, ls, r)
    PROVE  r[Len(ls)].text = FlattenSeq([i \in DOMAIN ls |-> Out(driver, s, r[Len(ls)].names, ls[i])])
  <1> DEFINE n == Len(ls)
             names == r[n].names
             q == [i \in DOMAIN ls |-> Out(driver, s, names, ls[i])]
  <1>1. n \in Nat /\ DOMAIN ls = 1 .. n
    BY LenProperties
  <1>2. Len(q) = n /\ \A i \in 1 .. n : q[i] = Out(driver, s, names, ls[i])
    BY <1>1
  <1>3. r[0].text = << >>
    BY DEF Run, Start
  <1>4. \A j \in 1 .. n : r[j].text = r[j - 1].text \o q[j]
    <2>1. \A j \in 1 .. n : r[j].text = r[j - 1].text \o Out(driver, s, names, ls[j])
      <3>1. TextGrows(driver, s, ls, r)
        BY TextStep
      <3> QED BY <3>1 DEF TextGrows
    <2> HIDE DEF q, n, names
    <2> QED BY <1>2, <2>1
  <1>5. CASE n = 0
    <2>1. q = << >>
      BY <1>1, <1>5
    <2>2. FlattenSeq(q) = q
      <3> HIDE DEF q
      <3> QED BY <1>2, <1>5, Zenon DEF FlattenSeq
    <2> QED BY <1>3, <1>5, <2>1, <2>2
  <1>6. CASE n > 0
    <2>1. \E U : q[1] \in Seq(U)
      <3>1. 1 \in 1 .. n
        BY <1>1, <1>6
      <3>2. ls[1] \in Lexeme(s)
        BY <3>1, ElementOfSeq
      <3> HIDE DEF q, n, names
      <3> QED BY <1>2, <3>1, <3>2, OutType
    <2> HIDE DEF q, n, names
    <2>2. PICK f : /\ FlattenSeq(q) = f[n] /\ f[1] = q[1]
                   /\ \A i \in 2 .. n : f[i] = f[i - 1] \o q[i]
      BY <1>1, <1>2, <1>6, FlattenRuns
    <2> DEFINE S == {k \in Nat : k + 1 <= n => f[k + 1] = r[k + 1].text}
    <2>3. 0 \in S
      <3>1. r[1].text = << >> \o q[1]
        <4>1. 1 \in 1 .. n /\ 1 - 1 = 0
          BY <1>1, <1>6
        <4>2. r[1].text = r[1 - 1].text \o q[1]
          BY <1>4, <4>1
        <4> QED BY <1>3, <4>1, <4>2
      <3>2. << >> \o q[1] = q[1]
        BY <2>1, ConcatEmptySeq
      <3>3. f[0 + 1] = r[0 + 1].text
        BY <2>2, <3>1, <3>2
      <3> QED BY <3>3
    <2>4. ASSUME NEW k \in Nat, k \in S PROVE k + 1 \in S
      <3> SUFFICES ASSUME (k + 1) + 1 <= n PROVE f[(k + 1) + 1] = r[(k + 1) + 1].text
        OBVIOUS
      <3>1. f[k + 1] = r[k + 1].text
        BY <1>1, <2>4
      <3>2. (k + 1) + 1 \in 2 .. n /\ ((k + 1) + 1) - 1 = k + 1 /\ (k + 1) + 1 \in 1 .. n
        BY <1>1
      <3>3. f[(k + 1) + 1] = f[k + 1] \o q[(k + 1) + 1]
        BY <2>2, <3>2
      <3>4. r[(k + 1) + 1].text = r[k + 1].text \o q[(k + 1) + 1]
        BY <1>4, <3>2
      <3> QED BY <3>1, <3>3, <3>4
    <2>5. n - 1 \in S
      <3>1. n - 1 \in Nat
        BY <1>1, <1>6
      <3> HIDE DEF S
      <3> QED BY <2>3, <2>4, <3>1, AllNaturals
    <2>6. n - 1 \in Nat /\ (n - 1) + 1 = n
      BY <1>1, <1>6
    <2>7. FlattenSeq(q) = r[n].text
      BY <2>2, <2>5, <2>6
    <2> QED BY <2>7 DEF q, n, names
  <1> QED BY <1>1, <1>5, <1>6

-----------------------------------------------------------------------------
(***************************************************************************)
(* Statements: what the rewriters return.                                  *)
(***************************************************************************)
\* The names of a statement.
NamesIn(s) == {Piece(s, l) : l \in {l \in ToSet(Lexemes(RewriteScan, s)) : IsName(s, l)}}

\* The statement with its names replaced, and the values bound.
Written(driver, s, params, names) ==
    LET ls == Lexemes(RewriteScan, s)
    IN  [text |-> FlattenSeq([i \in DOMAIN ls |-> Out(driver, s, names, ls[i])]),
         binds |-> [k \in DOMAIN names |-> ByName(params)[names[k]]]]

LEMMA RunResult ==
    ASSUME NEW driver \in Drivers, NEW T, NEW s \in Seq(T), NEW params, NEW r,
           Run(driver, s, Lexemes(RewriteScan, s), r)
    PROVE  LET ls == Lexemes(RewriteScan, s)
               names == r[Len(ls)].names
           IN  /\ names \in Seq(Seq(T)) /\ ToSet(names) = NamesIn(s)
               /\ driver = "postgres" => NoRepeats(names)
               /\ driver = "mysql" => InOrder(s, ls, Len(ls), names)
               /\ Outcome(params, r[Len(ls)]) =
                    IF NamesIn(s) \subseteq DOMAIN ByName(params)
                    THEN Written(driver, s, params, names) ELSE Missing
  <1> DEFINE ls == Lexemes(RewriteScan, s)
             n == Len(ls)
             names == r[n].names
  <1>1. ls \in Seq(Lexeme(s))
    BY ScansCoverTheText DEF Cuts
  <1>2. n \in Nat /\ DOMAIN ls = 1 .. n
    BY <1>1, LenProperties
  <1>3. LoopInv(driver, T, s, ls, r, n)
    BY <1>1, <1>2, LoopInvHolds
  <1>4. NamesUpTo(s, ls, n) = NamesIn(s)
    <2> HIDE DEF ls
    <2>1. ToSet(ls) = {ls[i] : i \in 1 .. n}
      BY <1>2 DEF ToSet
    <2>2. NamesIn(s) = {Piece(s, l) : l \in {l \in ToSet(ls) : IsName(s, l)}}
      BY DEF NamesIn, ls
    <2> HIDE DEF n
    <2> QED BY <2>1, <2>2 DEF NamesUpTo
  <1>5. /\ names \in Seq(Seq(T)) /\ ToSet(names) = NamesIn(s)
        /\ driver = "postgres" => NoRepeats(names)
        /\ driver = "mysql" => InOrder(s, ls, n, names)
    BY <1>3, <1>4 DEF LoopInv
  <1>6. r[n].text = FlattenSeq([i \in DOMAIN ls |-> Out(driver, s, names, ls[i])])
    BY <1>1, RunText
  <1>7. Outcome(params, r[n]) = IF NamesIn(s) \subseteq DOMAIN ByName(params)
                                THEN Written(driver, s, params, names) ELSE Missing
    <2> HIDE DEF ls, n
    <2>1. ToSet(r[n].names) = NamesIn(s)
      BY <1>5
    <2> QED BY <1>6, <2>1, Zenon DEF Outcome, Written, ls
  <1> QED BY <1>5, <1>7

\* rewrite_sql of postgres.rs and of mysql.rs, for any text and any parameters.
\* When a name has no parameter the statement is refused.  Otherwise it is the
\* statement, with $n for each occurrence of the n-th of its distinct names
\* (PostgreSQL), or ? for each occurrence, with its values in the order of the
\* occurrences (MySQL); what is in literals, comments, dollar quotes and casts
\* is copied.
THEOREM PlaceholdersOfAnyText ==
    ASSUME NEW T, NEW s \in Seq(T), NEW params
    PROVE  /\ \E names \in Seq(Seq(T)) :
                /\ ToSet(names) = NamesIn(s) /\ NoRepeats(names)
                /\ rewrite_postgres(s, params) = IF NamesIn(s) \subseteq DOMAIN ByName(params)
                                                 THEN Written("postgres", s, params, names) ELSE Missing
           /\ \E names \in Seq(Seq(T)) :
                /\ ToSet(names) = NamesIn(s)
                /\ InOrder(s, Lexemes(RewriteScan, s), Len(Lexemes(RewriteScan, s)), names)
                /\ rewrite_mysql(s, params) = IF NamesIn(s) \subseteq DOMAIN ByName(params)
                                              THEN Written("mysql", s, params, names) ELSE Missing
  <1> DEFINE ls == Lexemes(RewriteScan, s)
  <1>1. \E names \in Seq(Seq(T)) :
                /\ ToSet(names) = NamesIn(s) /\ NoRepeats(names)
                /\ rewrite_postgres(s, params) = IF NamesIn(s) \subseteq DOMAIN ByName(params)
                                                 THEN Written("postgres", s, params, names) ELSE Missing
    <2>1. PICK r : Run("postgres", s, ls, r) /\ rewrite_postgres(s, params) = Outcome(params, r[Len(ls)])
      BY PostgresRuns
    <2> DEFINE names == r[Len(ls)].names
    <2>2. /\ names \in Seq(Seq(T)) /\ ToSet(names) = NamesIn(s) /\ NoRepeats(names)
          /\ Outcome(params, r[Len(ls)]) = IF NamesIn(s) \subseteq DOMAIN ByName(params)
                                           THEN Written("postgres", s, params, names) ELSE Missing
      BY <2>1, RunResult DEF Drivers
    <2> HIDE DEF names, ls
    <2> QED BY <2>1, <2>2
  <1>2. \E names \in Seq(Seq(T)) :
                /\ ToSet(names) = NamesIn(s)
                /\ InOrder(s, ls, Len(ls), names)
                /\ rewrite_mysql(s, params) = IF NamesIn(s) \subseteq DOMAIN ByName(params)
                                              THEN Written("mysql", s, params, names) ELSE Missing
    <2>1. PICK r : Run("mysql", s, ls, r) /\ rewrite_mysql(s, params) = Outcome(params, r[Len(ls)])
      BY MySqlRuns
    <2> DEFINE names == r[Len(ls)].names
    <2>2. /\ names \in Seq(Seq(T)) /\ ToSet(names) = NamesIn(s) /\ InOrder(s, ls, Len(ls), names)
          /\ Outcome(params, r[Len(ls)]) = IF NamesIn(s) \subseteq DOMAIN ByName(params)
                                           THEN Written("mysql", s, params, names) ELSE Missing
      BY <2>1, RunResult DEF Drivers
    <2> HIDE DEF names, ls
    <2> QED BY <2>1, <2>2
  <1> QED BY <1>1, <1>2

LEMMA WrittenIsNotMissing ==
    ASSUME NEW driver, NEW T, NEW s \in Seq(T), NEW params, "missing" \notin T,
           NEW names \in Seq(Seq(T)), ToSet(names) = NamesIn(s)
    PROVE  Written(driver, s, params, names) # Missing
  <1> DEFINE ls == Lexemes(RewriteScan, s)
             q == [i \in DOMAIN ls |-> Out(driver, s, names, ls[i])]
             b == [k \in DOMAIN names |-> ByName(params)[names[k]]]
  <1>1. Written(driver, s, params, names) = [text |-> FlattenSeq(q), binds |-> b]
    BY Zenon DEF Written
  <1>2. ls \in Seq(Lexeme(s))
    BY ScansCoverTheText DEF Cuts
  <1>3. Len(ls) \in Nat /\ DOMAIN ls = 1 .. Len(ls) /\ \A i \in DOMAIN ls : ls[i] \in Lexeme(s)
    BY <1>2, LenProperties, ElementOfSeq
  <1>4. CASE DOMAIN names # {}
    <2>1. b # << >>
      <3>1. DOMAIN b = DOMAIN names
        OBVIOUS
      <3>2. DOMAIN << >> = {}
        OBVIOUS
      <3> HIDE DEF b
      <3> QED BY <1>4, <3>1, <3>2
    <2> HIDE DEF b, q
    <2> QED BY <1>1, <2>1 DEF Missing
  <1>5. CASE DOMAIN names = {}
    <2>1. NamesIn(s) = {}
      BY <1>5 DEF ToSet
    <2>2. \A i \in DOMAIN ls : ~IsName(s, ls[i])
      BY <2>1 DEF NamesIn, ToSet
    <2>3. \A i \in 1 .. Len(ls) : Out(driver, s, names, ls[i]) \in Seq(T \cup {"byte"})
      <3> SUFFICES ASSUME NEW i \in 1 .. Len(ls) PROVE Out(driver, s, names, ls[i]) \in Seq(T \cup {"byte"})
        OBVIOUS
      <3>1. Piece(s, ls[i]) \in Seq(T)
        BY <1>3, PieceIsText
      <3>2. Copied(Piece(s, ls[i])) \in Seq(T \cup {"byte"})
        BY <3>1, CopiedType
      <3>3. Out(driver, s, names, ls[i]) = Copied(Piece(s, ls[i]))
        BY <1>3, <2>2 DEF Out
      <3> QED BY <3>2, <3>3
    <2>4. q \in Seq(Seq(T \cup {"byte"}))
      BY <1>3, <2>3, IsASeq
    <2> HIDE DEF b, q
    <2>5. FlattenSeq(q) \in Seq(T \cup {"byte"})
      BY <2>4, FlattenType
    <2>6. FlattenSeq(q) # <<"missing">>
      <3> SUFFICES ASSUME <<"missing">> \in Seq(T \cup {"byte"}) PROVE FALSE
        BY <2>5
      <3>1. <<"missing">>[1] \in T \cup {"byte"}
        BY ElementOfSeq, Len(<<"missing">>) = 1, 1 \in 1 .. 1
      <3> QED BY <3>1
    <2> QED BY <1>1, <2>6 DEF Missing
  <1> QED BY <1>4, <1>5

\* rewrite_sql of postgres.rs and of mysql.rs refuse the same statements: those
\* with a name that no parameter has.  (The model's error is a text of the
\* symbol "missing", which is no symbol of a statement.)
THEOREM RewritersRefuseTheSame ==
    ASSUME NEW T, NEW s \in Seq(T), NEW params, "missing" \notin T
    PROVE  /\ (rewrite_postgres(s, params) = Missing) <=> ~(NamesIn(s) \subseteq DOMAIN ByName(params))
           /\ (rewrite_mysql(s, params) = Missing) <=> ~(NamesIn(s) \subseteq DOMAIN ByName(params))
  <1>1. PICK names \in Seq(Seq(T)) :
           /\ ToSet(names) = NamesIn(s)
           /\ rewrite_postgres(s, params) = IF NamesIn(s) \subseteq DOMAIN ByName(params)
                                            THEN Written("postgres", s, params, names) ELSE Missing
    BY PlaceholdersOfAnyText
  <1>2. Written("postgres", s, params, names) # Missing
    BY <1>1, WrittenIsNotMissing
  <1>3. PICK listed \in Seq(Seq(T)) :
           /\ ToSet(listed) = NamesIn(s)
           /\ rewrite_mysql(s, params) = IF NamesIn(s) \subseteq DOMAIN ByName(params)
                                         THEN Written("mysql", s, params, listed) ELSE Missing
    BY PlaceholdersOfAnyText
  <1>4. Written("mysql", s, params, listed) # Missing
    BY <1>3, WrittenIsNotMissing
  <1> QED BY <1>1, <1>2, <1>3, <1>4

\* Each lexeme begins where the one before ends.
LEMMA LexemesAdjoin ==
    ASSUME NEW T, NEW s \in Seq(T), NEW scan, NEW ls, Cuts(scan, s, ls, 1)
    PROVE  /\ Len(ls) \in Nat /\ DOMAIN ls = 1 .. Len(ls)
           /\ \A k \in 1 .. Len(ls) : ls[k].at \in 1 .. Len(s) /\ ls[k].to \in ls[k].at .. Len(s)
           /\ Len(s) > 0 => Len(ls) > 0 /\ ls[1].at = 1 /\ ls[Len(ls)].to = Len(s)
           /\ Len(s) = 0 => Len(ls) = 0
           /\ \A k \in 1 .. Len(ls) : k + 1 <= Len(ls) => ls[k + 1].at = ls[k].to + 1
  <1> DEFINE n == Len(ls)
             len == Len(s)
  <1>1. len \in Nat
    BY LenProperties
  <1>2. ls \in Seq(Lexeme(s))
    BY DEF Cuts
  <1>3. n \in Nat /\ DOMAIN ls = 1 .. n
    BY <1>2, LenProperties
  <1>4. \A k \in 1 .. n : ls[k].at \in 1 .. len /\ ls[k].to \in 1 .. len
    <2> SUFFICES ASSUME NEW k \in 1 .. n PROVE ls[k].at \in 1 .. len /\ ls[k].to \in 1 .. len
      OBVIOUS
    <2>1. ls[k] \in Lexeme(s)
      BY <1>2, ElementOfSeq
    <2> QED BY <2>1 DEF Lexeme
  <1>5. /\ \A p \in 1 .. len : \E k \in 1 .. n : p \in ls[k].at .. ls[k].to
        /\ \A k \in 1 .. n : ls[k].to = LexemeEnd(scan, s, ls[k].at)
        /\ \A j, k \in 1 .. n : j < k => ls[j].to < ls[k].at
    BY <1>3 DEF Cuts
  <1>6. \A k \in 1 .. n : ls[k].to \in ls[k].at .. len
    BY <1>4, <1>5, LexemeEndWithin
  <1>7. ASSUME len > 0 PROVE n > 0 /\ ls[1].at = 1 /\ ls[n].to = len
    <2> HIDE DEF n, len
    <2>1. PICK k \in 1 .. n : 1 \in ls[k].at .. ls[k].to
      BY <1>1, <1>5, <1>7, 1 \in 1 .. len
    <2>2. PICK m \in 1 .. n : len \in ls[m].at .. ls[m].to
      BY <1>1, <1>5, <1>7
    <2>3. n > 0 /\ 1 \in 1 .. n /\ n \in 1 .. n
      BY <1>3, <2>1
    <2>4. k = 1
      <3> SUFFICES ASSUME 1 < k PROVE FALSE
        BY <1>3, <2>1
      <3>1. ls[1].to < ls[k].at
        BY <1>5, <2>1, <2>3
      <3>2. ls[1].to \in 1 .. len /\ ls[k].at \in 1 .. len
        BY <1>4, <2>1, <2>3
      <3> QED BY <1>1, <2>1, <3>1, <3>2
    <2>5. m = n
      <3> SUFFICES ASSUME m < n PROVE FALSE
        BY <1>3, <2>2
      <3>1. ls[m].to < ls[n].at
        BY <1>5, <2>2, <2>3
      <3>2. ls[m].to \in 1 .. len /\ ls[n].at \in 1 .. len
        BY <1>4, <2>2, <2>3
      <3> QED BY <1>1, <2>2, <3>1, <3>2
    <2>6. ls[1].at \in 1 .. len /\ ls[n].to \in 1 .. len
      BY <1>4, <2>3
    <2> QED BY <1>1, <2>1, <2>2, <2>3, <2>4, <2>5, <2>6
  <1>8. ASSUME len = 0 PROVE n = 0
    <2>1. \A k \in 1 .. n : FALSE
      BY <1>1, <1>4, <1>8
    <2> QED BY <1>3, <2>1
  <1>9. ASSUME NEW k \in 1 .. n, k + 1 <= n PROVE ls[k + 1].at = ls[k].to + 1
    <2> DEFINE p == ls[k].to + 1
               a == ls[k + 1].at
               b == ls[k + 1].to
    <2>1. k + 1 \in 1 .. n /\ k < k + 1
      BY <1>3, <1>9
    <2>2. /\ ls[k].to \in 1 .. len /\ a \in 1 .. len /\ b \in a .. len /\ ls[k].to < a
      BY <1>4, <1>5, <1>6, <2>1
    <2> HIDE DEF n, len, a, b
    <2>3. p \in 1 .. len
      BY <1>1, <2>2
    <2>4. PICK m \in 1 .. n : p \in ls[m].at .. ls[m].to
      BY <1>5, <2>3
    <2>5. ls[m].at \in 1 .. len /\ ls[m].to \in 1 .. len
      BY <1>4, <2>4
    <2>6. m <= k \/ m = k + 1 \/ m > k + 1
      BY <1>3, <2>4
    <2>7. ~(m <= k)
      <3> SUFFICES ASSUME m <= k PROVE FALSE
        OBVIOUS
      <3>1. CASE m = k
        BY <1>1, <2>2, <2>4, <2>5, <3>1
      <3>2. CASE m < k
        <4>1. ls[m].to < ls[k].at /\ ls[k].at \in 1 .. len /\ ls[k].to \in ls[k].at .. len
          BY <1>4, <1>5, <1>6, <2>4, <3>2
        <4> QED BY <1>1, <2>2, <2>4, <2>5, <4>1
      <3> QED BY <1>3, <2>4, <3>1, <3>2
    <2>8. ~(m > k + 1)
      <3> SUFFICES ASSUME k + 1 < m PROVE FALSE
        BY <1>3, <2>4
      <3>1. b < ls[m].at
        BY <1>5, <2>1, <2>4 DEF b
      <3> QED BY <1>1, <2>2, <2>4, <2>5, <3>1
    <2>9. m = k + 1
      BY <2>6, <2>7, <2>8
    <2>10. a <= p
      BY <1>1, <2>2, <2>3, <2>4, <2>9 DEF a
    <2>11. a = p
      BY <1>1, <2>2, <2>10
    <2> QED BY <2>11 DEF a
  <1> QED BY <1>3, <1>4, <1>6, <1>7, <1>8, <1>9

\* The pieces that the loops of rewrite_sql and of sql_route.rs cut a statement
\* into are, one after the other, the statement.
THEOREM LexemesAreTheText ==
    ASSUME NEW T, NEW s \in Seq(T), NEW scan
    PROVE  LET ls == Lexemes(scan, s)
           IN  FlattenSeq([i \in DOMAIN ls |-> Piece(s, ls[i])]) = s
  <1> DEFINE ls == Lexemes(scan, s)
             n == Len(ls)
             len == Len(s)
             q == [i \in DOMAIN ls |-> Piece(s, ls[i])]
  <1>1. Cuts(scan, s, ls, 1)
    BY ScansCoverTheText
  <1> HIDE DEF ls
  <1>2. /\ n \in Nat /\ DOMAIN ls = 1 .. n
        /\ \A k \in 1 .. n : ls[k].at \in 1 .. len /\ ls[k].to \in ls[k].at .. len
        /\ len > 0 => n > 0 /\ ls[1].at = 1 /\ ls[n].to = len
        /\ len = 0 => n = 0
        /\ \A k \in 1 .. n : k + 1 <= n => ls[k + 1].at = ls[k].to + 1
    BY <1>1, LexemesAdjoin
  <1>3. Len(q) = n /\ \A i \in 1 .. n : q[i] = Piece(s, ls[i])
    BY <1>2
  <1>4. len \in Nat
    BY LenProperties
  <1>5. CASE len = 0
    <2>1. s = << >>
      BY <1>5, EmptySeq
    <2>2. q = << >>
      BY <1>2, <1>5
    <2>3. FlattenSeq(q) = q
      <3> HIDE DEF q
      <3> QED BY <1>2, <1>3, <1>5, Zenon DEF FlattenSeq
    <2> QED BY <2>1, <2>2, <2>3 DEF ls
  <1>6. CASE len > 0
    <2> HIDE DEF q, n
    <2>1. PICK f : /\ FlattenSeq(q) = f[n] /\ f[1] = q[1]
                   /\ \A i \in 2 .. n : f[i] = f[i - 1] \o q[i]
      <3>1. Len(q) \in Nat /\ Len(q) > 0
        BY <1>2, <1>3, <1>6
      <3>2. \E f : /\ FlattenSeq(q) = f[Len(q)] /\ f[1] = q[1]
                   /\ \A i \in 2 .. Len(q) : f[i] = f[i - 1] \o q[i]
        BY <3>1, FlattenRuns
      <3> QED BY <1>3, <3>2
    <2> DEFINE S == {k \in Nat : k + 1 <= n => f[k + 1] = SubSeq(s, 1, ls[k + 1].to)}
    <2>2. 0 \in S
      <3>1. f[0 + 1] = SubSeq(s, 1, ls[0 + 1].to)
        <4>1. 1 \in 1 .. n /\ ls[1].at = 1
          BY <1>2, <1>6
        <4>2. q[1] = SubSeq(s, ls[1].at, ls[1].to)
          BY <1>3, <4>1 DEF Piece
        <4> QED BY <2>1, <4>1, <4>2
      <3> QED BY <3>1
    <2>3. ASSUME NEW k \in Nat, k \in S PROVE k + 1 \in S
      <3> DEFINE i == k + 1
      <3> SUFFICES ASSUME i + 1 <= n PROVE f[i + 1] = SubSeq(s, 1, ls[i + 1].to)
        OBVIOUS
      <3>1. f[i] = SubSeq(s, 1, ls[i].to)
        BY <1>2, <2>3
      <3>2. i \in 1 .. n /\ i + 1 \in 1 .. n /\ i + 1 \in 2 .. n /\ (i + 1) - 1 = i
        BY <1>2
      <3> HIDE DEF i
      <3>3. f[i + 1] = SubSeq(s, 1, ls[i].to) \o SubSeq(s, ls[i + 1].at, ls[i + 1].to)
        BY <1>3, <2>1, <3>1, <3>2 DEF Piece
      <3>4. /\ ls[i + 1].at = ls[i].to + 1
            /\ ls[i].to \in 1 .. len /\ ls[i + 1].to \in 1 .. len /\ ls[i].to < ls[i + 1].to
        <4>1. ls[i + 1].at = ls[i].to + 1
          BY <1>2, <3>2
        <4>2. /\ ls[i].at \in 1 .. len /\ ls[i].to \in ls[i].at .. len
              /\ ls[i + 1].at \in 1 .. len /\ ls[i + 1].to \in ls[i + 1].at .. len
          BY <1>2, <3>2
        <4> QED BY <1>4, <4>1, <4>2
      <3>5. SubSeq(s, 1, ls[i].to) \o SubSeq(s, ls[i].to + 1, ls[i + 1].to) = SubSeq(s, 1, ls[i + 1].to)
        <4> DEFINE x == ls[i].to
                   y == ls[i + 1].to
        <4>1. 1 \in 1 .. Len(s) + 1 /\ x \in 1 - 1 .. Len(s) /\ y \in x .. Len(s)
          BY <1>4, <3>4
        <4> HIDE DEF x, y
        <4>2. SubSeq(s, 1, x) \o SubSeq(s, x + 1, y) = SubSeq(s, 1, y)
          BY <4>1, ConcatAdjacentSubSeq
        <4> QED BY <4>2 DEF x, y
      <3> QED BY <3>3, <3>4, <3>5
    <2>4. n - 1 \in S
      <3>1. n - 1 \in Nat
        BY <1>2, <1>6
      <3> HIDE DEF S
      <3> QED BY <2>2, <2>3, <3>1, AllNaturals
    <2>5. n - 1 \in Nat /\ (n - 1) + 1 = n
      BY <1>2, <1>6
    <2>6. FlattenSeq(q) = SubSeq(s, 1, len)
      BY <1>2, <1>6, <2>1, <2>4, <2>5
    <2>7. SubSeq(s, 1, len) = s
      BY SubSeqFull
    <2> QED BY <2>6, <2>7 DEF q, ls
  <1> QED BY <1>4, <1>5, <1>6

\* Text of one-byte symbols is copied as it is.
LEMMA CopiedWhole ==
    ASSUME NEW T, T \cap Wide = {}, NEW p \in Seq(T)
    PROVE  Copied(p) = p
  <1> DEFINE n == Len(p)
             q == [k \in DOMAIN p |-> IF p[k] \in Wide THEN <<"byte", "byte">> ELSE <<p[k]>>]
  <1>1. n \in Nat /\ DOMAIN p = 1 .. n /\ \A k \in 1 .. n : p[k] \in T
    BY LenProperties, ElementOfSeq
  <1>2. Len(q) = n /\ \A k \in 1 .. n : q[k] = <<p[k]>>
    BY <1>1
  <1>3. Copied(p) = FlattenSeq(q)
    BY Zenon DEF Copied
  <1>4. CASE n = 0
    <2>1. p = << >> /\ q = << >>
      BY <1>1, <1>4, EmptySeq
    <2>2. FlattenSeq(q) = q
      <3> HIDE DEF q
      <3> QED BY <1>2, <1>4, Zenon DEF FlattenSeq
    <2> QED BY <1>3, <2>1, <2>2
  <1>5. CASE n > 0
    <2> HIDE DEF q, n
    <2>1. PICK f : /\ FlattenSeq(q) = f[n] /\ f[1] = q[1]
                   /\ \A i \in 2 .. n : f[i] = f[i - 1] \o q[i]
      <3>1. Len(q) \in Nat /\ Len(q) > 0
        BY <1>1, <1>2, <1>5
      <3>2. \E f : /\ FlattenSeq(q) = f[Len(q)] /\ f[1] = q[1]
                   /\ \A i \in 2 .. Len(q) : f[i] = f[i - 1] \o q[i]
        BY <3>1, FlattenRuns
      <3> QED BY <1>2, <3>2
    <2>2. \A i \in 1 .. n : SubSeq(p, i, i) = <<p[i]>>
      <3> SUFFICES ASSUME NEW i \in 1 .. n PROVE SubSeq(p, i, i) = <<p[i]>>
        OBVIOUS
      <3>1. i \in Int /\ i - i + 1 = 1 /\ i + 1 - 1 = i /\ \A m \in i .. i : p[m] \in T
        BY <1>1
      <3>2. /\ SubSeq(p, i, i) \in Seq(T) /\ Len(SubSeq(p, i, i)) = 1
            /\ \A m \in 1 .. 1 : SubSeq(p, i, i)[m] = p[i + m - 1]
        BY <3>1, SubSeqProperties
      <3>3. SubSeq(p, i, i)[1] = p[i]
        BY <3>1, <3>2, 1 \in 1 .. 1
      <3>4. <<p[i]>> \in Seq(T) /\ Len(<<p[i]>>) = 1 /\ <<p[i]>>[1] = p[i]
        BY <1>1
      <3>5. \A m \in 1 .. 1 : SubSeq(p, i, i)[m] = <<p[i]>>[m]
        BY <3>3, <3>4
      <3> QED BY <3>2, <3>4, <3>5, SeqEqual
    <2> DEFINE S == {k \in Nat : k + 1 <= n => f[k + 1] = SubSeq(p, 1, k + 1)}
    <2>3. 0 \in S
      <3>1. 1 \in 1 .. n
        BY <1>1, <1>5
      <3>2. f[0 + 1] = SubSeq(p, 1, 0 + 1)
        BY <1>2, <2>1, <2>2, <3>1
      <3> QED BY <3>2
    <2>4. ASSUME NEW k \in Nat, k \in S PROVE k + 1 \in S
      <3> DEFINE i == k + 1
      <3> SUFFICES ASSUME i + 1 <= n PROVE f[i + 1] = SubSeq(p, 1, i + 1)
        OBVIOUS
      <3>1. f[i] = SubSeq(p, 1, i)
        BY <1>1, <2>4
      <3>2. /\ i + 1 \in 1 .. n /\ i + 1 \in 2 .. n /\ (i + 1) - 1 = i
            /\ 1 \in 1 .. n + 1 /\ i \in 1 - 1 .. n /\ i + 1 \in i .. n
        BY <1>1
      <3> HIDE DEF i
      <3>3. f[i + 1] = SubSeq(p, 1, i) \o SubSeq(p, i + 1, i + 1)
        <4>1. f[i + 1] = f[i] \o q[i + 1]
          BY <2>1, <3>2
        <4>2. q[i + 1] = SubSeq(p, i + 1, i + 1)
          BY <1>2, <2>2, <3>2
        <4> QED BY <3>1, <4>1, <4>2
      <3>4. SubSeq(p, 1, i) \o SubSeq(p, i + 1, i + 1) = SubSeq(p, 1, i + 1)
        BY <3>2, ConcatAdjacentSubSeq DEF n
      <3> QED BY <3>3, <3>4
    <2>5. n - 1 \in S
      <3>1. n - 1 \in Nat
        BY <1>1, <1>5
      <3> HIDE DEF S
      <3> QED BY <2>3, <2>4, <3>1, AllNaturals
    <2>6. n - 1 \in Nat /\ (n - 1) + 1 = n
      BY <1>1, <1>5
    <2>7. FlattenSeq(q) = SubSeq(p, 1, n)
      BY <2>1, <2>5, <2>6
    <2>8. SubSeq(p, 1, n) = p
      BY SubSeqFull DEF n
    <2> QED BY <1>3, <2>7, <2>8
  <1> QED BY <1>1, <1>4, <1>5

\* A statement without names, and without characters of more than one byte,
\* leaves rewrite_sql of postgres.rs and of mysql.rs as it came, whatever
\* parameters are given: colons in literals, comments and casts are no names.
THEOREM NamelessStatementsUnchanged ==
    ASSUME NEW T, T \cap Wide = {}, NEW s \in Seq(T), NEW params, NamesIn(s) = {}
    PROVE  /\ rewrite_postgres(s, params) = [text |-> s, binds |-> << >>]
           /\ rewrite_mysql(s, params) = [text |-> s, binds |-> << >>]
  <1> DEFINE ls == Lexemes(RewriteScan, s)
  <1>1. ls \in Seq(Lexeme(s))
    BY ScansCoverTheText DEF Cuts
  <1>2. \A i \in DOMAIN ls : ls[i] \in Lexeme(s) /\ ~IsName(s, ls[i])
    <2>1. \A i \in DOMAIN ls : ls[i] \in Lexeme(s)
      BY <1>1, LenProperties, ElementOfSeq
    <2> QED BY <2>1 DEF NamesIn, ToSet
  <1>3. FlattenSeq([i \in DOMAIN ls |-> Piece(s, ls[i])]) = s
    BY LexemesAreTheText
  <1>4. ASSUME NEW driver, NEW names \in Seq(Seq(T)), ToSet(names) = NamesIn(s)
        PROVE  Written(driver, s, params, names) = [text |-> s, binds |-> << >>]
    <2>1. names = << >>
      <3>1. DOMAIN names = {}
        BY <1>4 DEF ToSet
      <3>2. DOMAIN names = 1 .. Len(names) /\ Len(names) \in Nat
        BY <1>4, LenProperties
      <3>3. Len(names) = 0
        BY <3>1, <3>2
      <3> QED BY <3>3, EmptySeq
    <2>2. [k \in DOMAIN names |-> ByName(params)[names[k]]] = << >>
      BY <2>1
    <2>3. \A i \in DOMAIN ls : Out(driver, s, names, ls[i]) = Piece(s, ls[i])
      <3> SUFFICES ASSUME NEW i \in DOMAIN ls PROVE Out(driver, s, names, ls[i]) = Piece(s, ls[i])
        OBVIOUS
      <3>1. Piece(s, ls[i]) \in Seq(T)
        BY <1>2, PieceIsText
      <3>2. Copied(Piece(s, ls[i])) = Piece(s, ls[i])
        BY <3>1, CopiedWhole
      <3> QED BY <1>2, <3>2 DEF Out
    <2> HIDE DEF ls
    <2>4. [i \in DOMAIN ls |-> Out(driver, s, names, ls[i])] = [i \in DOMAIN ls |-> Piece(s, ls[i])]
      BY <2>3
    <2> QED BY <1>3, <2>2, <2>4, Zenon DEF Written, ls
  <1>5. NamesIn(s) \subseteq DOMAIN ByName(params)
    OBVIOUS
  <1>6. PICK names \in Seq(Seq(T)) :
           /\ ToSet(names) = NamesIn(s)
           /\ rewrite_postgres(s, params) = IF NamesIn(s) \subseteq DOMAIN ByName(params)
                                            THEN Written("postgres", s, params, names) ELSE Missing
    BY PlaceholdersOfAnyText
  <1>7. PICK listed \in Seq(Seq(T)) :
           /\ ToSet(listed) = NamesIn(s)
           /\ rewrite_mysql(s, params) = IF NamesIn(s) \subseteq DOMAIN ByName(params)
                                         THEN Written("mysql", s, params, listed) ELSE Missing
    BY PlaceholdersOfAnyText
  <1>8. rewrite_postgres(s, params) = [text |-> s, binds |-> << >>]
    BY <1>4, <1>5, <1>6
  <1>9. rewrite_mysql(s, params) = [text |-> s, binds |-> << >>]
    BY <1>4, <1>5, <1>7
  <1> QED BY <1>8, <1>9
=============================================================================

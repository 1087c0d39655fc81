--------------------------- MODULE HostFunctions ---------------------------
(***************************************************************************)
(* The pure algorithms of the crate over every input of a bounded size,    *)
(* and the intranet networks.  Init chooses what is exercised: a text that *)
(* grows fragment by fragment (a statement for PostgreSQL and MySQL, one   *)
(* for routing), a clock that runs for the labels of a refresh template,   *)
(* a value, a CIDR block, or the intranet networks.                        *)
(***************************************************************************)
EXTENDS Vel, IntranetNets, SqlValues, SqliteExt

CONSTANTS
    Fragments,  \* kind of text -> what it is put together from
    MaxFragments,
    Params,     \* names of the parameters given with a statement
    Providers,  \* names of the registered providers
    MaxSeconds  \* bound on the periods and buckets of labels, in seconds

\* The texts are statements to rewrite and statements to route; the symbols of
\* the template below are what they stand for.
ASSUME FunctionsAssumption ==
    /\ DOMAIN Fragments = {"rewrite", "route"}
    /\ MaxSeconds \in Nat
    /\ "v" \in Letters /\ "1" \in Digits /\ {"$", "sp"} \cap (Letters \cup Digits) = {}

VARIABLES
    kind,       \* what is exercised
    text,       \* the text so far
    length,     \* fragments in it
    now,        \* the clock, in nanoseconds: a u64
    input       \* what is evaluated: a phase, a field or a block

functionVars == <<kind, text, length, now, input>>
allVars == <<functionVars, netVars>>

TextKind == DOMAIN Fragments

Seconds == 0..MaxSeconds
Phases == [period : Seconds, bucket : Seconds]
Cidrs == {Garbage} \cup [ip : Addrs, prefix : 0 .. Bits + 1]

FunctionsInit ==
    /\ NetsInit
    /\ text = <<>> /\ length = 0 /\ now = 0
    /\ \/ kind \in TextKind \cup {"intranet"} /\ input = "none"
       \/ kind = "phase" /\ input \in Phases
       \/ kind = "value" /\ input \in Fields
       \/ kind = "cidr" /\ input \in Cidrs

\* An author writes on.
Write ==
    /\ kind \in TextKind
    /\ length < MaxFragments
    /\ \E f \in Fragments[kind] : text' = text \o f
    /\ length' = length + 1
    /\ UNCHANGED <<kind, now, input, netVars>>

Tick ==
    /\ kind = "phase"
    /\ now < MaxU64
    /\ now' = now + 1
    /\ UNCHANGED <<kind, text, length, input, netVars>>

Judge ==
    /\ kind = "intranet"
    /\ NetsNext
    /\ UNCHANGED functionVars

FunctionsNext == Write \/ Tick \/ Judge

FunctionsSpec == FunctionsInit /\ [][FunctionsNext]_allVars

-----------------------------------------------------------------------------
(***************************************************************************)
(* Placeholders                                                            *)
(***************************************************************************)

\* How a database reads the rewritten text: literals and comments as the
\* rewriter does, and its own placeholders.
DriverScan == [RewriteScan EXCEPT !.names = FALSE]

\* The placeholders of a text: where each stands and the number of its value.
PgMarks(s) ==
    LET code == {l.at : l \in ToSet(Lexemes(DriverScan, s))}
    IN  {i \in code : s[i] = "$" /\ At(s, i + 1) \in Digits}
MySqlMarks(s) == {l.at : l \in {l \in ToSet(Lexemes(DriverScan, s)) : s[l.at] = "?"}}

\* The number that the placeholder at i asks for.
PgNumber(s, i) == CHOOSE n \in 1..9 : ToString(n) = s[i + 1]
MySqlNumber(s, i) == Cardinality({j \in MySqlMarks(s) : j <= i})

\* The text with every placeholder replaced by the name of its value.
Named(out, marks, Number(_, _), width) ==
    FlattenSeq([i \in DOMAIN out.text |->
        IF i \in marks
        THEN normalize_param_name(Params[out.binds[Number(out.text, i)]])
        ELSE IF \E m \in marks : i \in m .. m + width - 1 THEN <<>> ELSE <<out.text[i]>>])

\* Statements outside of which the database and the rewriter read alike: no
\* placeholders of the driver's own, no dollar or identifier that would grow
\* together with a placeholder, and bytes only.
Plain(s) ==
    /\ ToSet(s) \cap Wide = {}
    /\ \A i \in DOMAIN s :
        /\ s[i] = "$" => At(s, i + 1) \notin Digits \cup {":"}
        /\ is_ident_byte(s[i]) /\ At(s, i + 1) = ":" => At(s, i + 2) = ":"

Nameless(s) == \A l \in ToSet(Lexemes(RewriteScan, s)) : ~IsName(s, l)

\* rewrite_sql of PostgreSQL and of MySQL: reading each placeholder of the
\* rewritten text as the name of the value bound for it gives back the
\* statement, and no name is left.  So every name gets its own value whatever
\* its number, nothing else changes, nothing in a literal, a comment, a dollar
\* quote or a cast is taken for a name, and every value sent is asked for.
PlaceholdersBindTheirNames ==
    kind = "rewrite" /\ Plain(text) =>
        LET pg == rewrite_postgres(text, Params)
            my == rewrite_mysql(text, Params)
        IN  /\ pg # Missing =>
                 /\ Nameless(pg.text)
                 /\ Named(pg, PgMarks(pg.text), PgNumber, 2) = text
                 /\ {PgNumber(pg.text, i) : i \in PgMarks(pg.text)} = DOMAIN pg.binds
            /\ my # Missing =>
                 /\ Nameless(my.text)
                 /\ Named(my, MySqlMarks(my.text), MySqlNumber, 1) = text
                 /\ Cardinality(MySqlMarks(my.text)) = Len(my.binds)
            /\ (pg = Missing) <=> (my = Missing)

-----------------------------------------------------------------------------
(***************************************************************************)
(* Routing                                                                 *)
(***************************************************************************)

\* Statements in which taking "name." out does not join what stood around it,
\* and "from" is no column.
Separable(s) ==
    \A i \in DOMAIN s :
        /\ <<s[i]>> \in Providers => At(s, i - 1) \notin {"'", "\"", "bt", ":"}
        /\ s[i] = "from" => At(s, i - 1) # "."

\* The quoted pieces of a text, in their order.
Literals(s) ==
    LET quoted == SelectSeq(Lexemes(StripScan, s), LAMBDA l :
                    s[l.at] \in StripScan.doubled \cup StripScan.paired)
    IN  [k \in DOMAIN quoted |-> Piece(s, quoted[k])]

\* strip_provider_prefix and first_table_name scan a statement on their own:
\* in the text that a provider is sent, the first table is still the one that
\* chose the provider, less the provider's name, quoted literals and
\* identifiers are whole, and the parameters are asked for in the same order.
\* (The scan does not know dollar quotes: in one, the prefix is taken out.)
RoutedTextKeepsItsTable ==
    kind = "route" /\ Separable(text) =>
        \A route \in compute_route(text, Providers) :
            /\ first_table_name(route[2]) = strip_provider_prefix(first_table_name(text), route[1])
            /\ Literals(route[2]) = Literals(text)
            /\ LET sent == rewrite_mysql(route[2], Params)
                   written == rewrite_mysql(text, Params)
               IN  sent.binds = written.binds /\ ((sent = Missing) <=> (written = Missing))

-----------------------------------------------------------------------------
(***************************************************************************)
(* Templates                                                               *)
(***************************************************************************)

\* A template with the label of now and the next one, in variables of which one
\* begins with the other's name.
Template == <<"$", "v", "sp", "$", "v", "1">>
Phase(e, fn) == [fn |-> fn, period |-> e.period, bucket |-> e.bucket, prefix |-> <<"p">>]
TemplateCode(e) ==
    <<Skipped, Define(<<"v">>, Phase(e, "phase_now")), Define(<<"v", "1">>, Phase(e, "phase_next"))>>

Rendered(e, t) == render(Template, TemplateCode(e), t)

LabelNow(e, t) == SubSeq(Rendered(e, t), 1, 2)
LabelNext(e, t) == SubSeq(Rendered(e, t), 4, 5)

\* phase_now and phase_next: rows fetched for the two labels of a template serve
\* for a whole bucket.  Until a bucket has passed, over the end of the period
\* too, the label of the moment is one of them (for buckets that divide the
\* period, in the range of u64).  A bucket of 0, or past its period, is an error;
\* one past a period that saturates is taken for the period.
LabelsServeABucket ==
    kind = "phase" =>
        LET period_ns == input.period * Nanos
            bucket_ns == input.bucket * Nanos
            labels == {LabelNow(input, now), LabelNext(input, now)}
        IN  /\ input.bucket = 0 \/ (input.bucket > input.period /\ period_ns < MaxU64) =>
                 Rendered(input, now) = VelError
            /\ (/\ input.bucket \in 1..input.period /\ input.period % input.bucket = 0
                /\ period_ns <= MaxU64 /\ now + bucket_ns <= MaxU64) =>
                 \A d \in 0..bucket_ns : LabelNow(input, now + d) \in labels

-----------------------------------------------------------------------------
(***************************************************************************)
(* Values                                                                  *)
(***************************************************************************)

\* Columns of integers over the whole range of their type.
IntegerColumns ==
    {Column(ty, "value", n) : ty \in PgInts \cup MySqlSigned, n \in I64}
      \cup {Column(ty, "value", n) : ty \in MySqlUnsigned, n \in 0..MaxUnsigned}

\* A value bound as a parameter and read back means what it meant, in every
\* database and by all ways of giving parameters, past the range of i64 too.
\* (Decoding of integer columns is checked with it.)
ValuesKeepTheirMeaning ==
    kind = "value" =>
        /\ \A db \in {"postgres", "mysql", "sqlite"} :
             /\ Meaning(Echo(db, input)) = Meaning(input)
             /\ Meaning(Echo(db, named_params_to_fields(input))) = Meaning(input)
             /\ Meaning(Echo(db, params_to_fields(fields_to_params(input)))) = Meaning(input)
        /\ \A c \in IntegerColumns :
             c.n = input.n /\ input.is = "big" =>
                Meaning(IF c.ty \in PgInts THEN map_value_postgres(c) ELSE map_value_mysql(c))
                  = <<"number", c.n>>

\* A row imported with cidr4_min and cidr4_max and found with ip4_between is
\* found just when cidr4_contains says so, with two exceptions at the ends of
\* the range: an address that does not parse is in blocks that reach the last
\* address, and a block that does not parse has the address 0.  ip4_text gives
\* back what ip4_int read.
RangesMatchBlocks ==
    kind = "cidr" =>
        \A ip \in Addrs \cup {Garbage} :
            LET between == ip4_between(ip, cidr4_min(input), cidr4_max(input))
                contains == cidr4_contains(ip, input)
            IN  /\ contains => between
                /\ between /\ ~contains =>
                     \/ ~Parses(input) /\ ip = 0
                     \/ ip = Garbage /\ cidr4_max(input) = MaxU32
                /\ ip # Garbage => ip4_text(ip4_int(ip)) = ip
=============================================================================

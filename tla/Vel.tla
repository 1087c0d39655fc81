-------------------------------- MODULE Vel ---------------------------------
(***************************************************************************)
(* The variable evaluation language of refresh templates (vel.rs): a code  *)
(* of assignments, evaluated at the time of each refresh, whose values     *)
(* replace $name in the SQL of the refresh.                                *)
(*                                                                         *)
(* A line of code is what parse makes of it: skipped, bad, or a definition *)
(* [name, expr].  An expression is [fn |-> "literal", value |-> text] or a *)
(* phase label [fn |-> "phase_now" or "phase_next", period, bucket,        *)
(* prefix], with times in seconds.                                         *)
(***************************************************************************)
EXTENDS SqlText

CONSTANTS
    MaxU64,     \* u64::MAX
    Nanos       \* nanoseconds in a second

ASSUME VelAssumption == MaxU64 \in Nat /\ Nanos \in Nat \ {0}

Skipped == [line |-> "skipped"]
Bad == [line |-> "bad"]
Define(name, expr) == [line |-> "define", name |-> name, expr |-> expr]

\* The lines that are left when blank ones and comments go.
Definitions(code) == {i \in DOMAIN code : code[i] # Skipped}

\* Any bad line, and a second definition of a name, is an error of the whole
\* code.
ParseFails(code) ==
    \/ \E i \in Definitions(code) : code[i] = Bad
    \/ \E i, j \in Definitions(code) : i < j /\ code[i].name = code[j].name

saturating_mul(a, b) == Min({a * b, MaxU64})
saturating_add(a, b) == Min({a + b, MaxU64})

ValidPhase(e) ==
    LET period_ns == saturating_mul(e.period, Nanos)
        bucket_ns == saturating_mul(e.bucket, Nanos)
    IN  period_ns # 0 /\ bucket_ns # 0 /\ bucket_ns <= period_ns

\* Mutant: the next slot is one number on, past the end of the period too.
SlotAfter(e, now) ==
    LET period_ns == saturating_mul(e.period, Nanos)
        bucket_ns == saturating_mul(e.bucket, Nanos)
    IN  (now % period_ns) \div bucket_ns + IF e.fn = "phase_next" THEN 1 ELSE 0

\* The slot of the period at now, or one bucket later.
PhaseSlot(e, now) ==
    LET period_ns == saturating_mul(e.period, Nanos)
        bucket_ns == saturating_mul(e.bucket, Nanos)
        t == IF e.fn = "phase_next" THEN saturating_add(now, bucket_ns) ELSE now
    IN  (t % period_ns) \div bucket_ns

EvalFails(code) ==
    \/ ParseFails(code)
    \/ \E i \in Definitions(code) : code[i].expr.fn # "literal" /\ ~ValidPhase(code[i].expr)

\* The values of all names.
eval(code, now) ==
    LET defs == {code[i] : i \in Definitions(code)}
        ValueOf(e) == IF e.fn = "literal" THEN e.value
                    ELSE e.prefix \o <<ToString(PhaseSlot(e, now))>>
    IN  [n \in {d.name : d \in defs} |-> ValueOf((CHOOSE d \in defs : d.name = n).expr)]

\* The end of the name that begins behind the dollar at i.
NameEnd(s, i) == Min({j \in i + 1 .. Len(s) : ~is_ident_byte(s[j])} \cup {Len(s) + 1}) - 1

\* Whole names only: a dollar before anything else, and an unknown name, stay.
resolve_vars(s, vars) ==
    LET known == {i \in DOMAIN s : /\ s[i] = "$" /\ is_param_start(At(s, i + 1))
                                   /\ SubSeq(s, i + 1, NameEnd(s, i)) \in DOMAIN vars}
    IN  FlattenSeq([i \in DOMAIN s |->
          IF i \in known THEN vars[SubSeq(s, i + 1, NameEnd(s, i))]
          ELSE IF \E k \in known : i \in k .. NameEnd(s, k) THEN <<>> ELSE <<s[i]>>])

VelError == <<"vel error">>

\* A blank code leaves the statement as it is.
render(s, code, now) ==
    IF code = <<>> THEN s
    ELSE IF EvalFails(code) THEN VelError
    ELSE resolve_vars(s, eval(code, now))
=============================================================================

------------------------------ MODULE SqlText -------------------------------
(***************************************************************************)
(* What happens to the text of a statement on its way to a database.       *)
(* Routing finds the first table of the statement and takes the provider's *)
(* name out of it (sql_route.rs); the PostgreSQL and MySQL providers then  *)
(* put the placeholders of their drivers for every :name (postgres.rs,     *)
(* mysql.rs).                                                              *)
(*                                                                         *)
(* A text is a sequence of symbols.  A symbol is one byte, or a word: a    *)
(* member of Letters stands for a run of bytes that may begin a name, one  *)
(* of Digits for a run that only continues one, one of Wide for a          *)
(* character that is encoded in two bytes; "bt" is a backtick, "sp" and    *)
(* "nl" are white space.                                                   *)
(***************************************************************************)
EXTENDS Naturals, Sequences, SequencesExt, FiniteSetsExt, TLC

CONSTANTS Letters, Digits, Wide

ASSUME SymbolsDistinct ==
    /\ Letters \cap Digits = {}
    /\ Wide \cap (Letters \cup Digits) = {}

Spaces == {"sp", "nl"}

is_param_start(c) == c \in Letters
is_ident_byte(c) == c \in Letters \cup Digits

is_param_continue(c) == c \in Letters \cup Digits

At(s, i) == IF i \in DOMAIN s THEN s[i] ELSE "end"
StartsAt(s, i, t) == i + Len(t) - 1 <= Len(s) /\ SubSeq(s, i, i + Len(t) - 1) = t

\* The first place from i on where P holds, or the end of the text.
First(s, i, P(_)) == Min({j \in i..Len(s) : P(j)} \cup {Len(s)})

-----------------------------------------------------------------------------
(***************************************************************************)
(* Scanning                                                                *)
(*                                                                         *)
(* Four loops of the code scan a text byte by byte, past literals and      *)
(* comments.  They differ in what they take for a quote, and in whether    *)
(* they know dollar quotes and names.                                      *)
(***************************************************************************)

RewriteScan == [doubled |-> {"'", "\""}, paired |-> {}, dollars |-> TRUE, names |-> TRUE]
KeywordScan == [doubled |-> {"'", "\""}, paired |-> {"bt", "["}, dollars |-> FALSE, names |-> FALSE]
StripScan == [doubled |-> {"'", "\"", "bt"}, paired |-> {"["}, dollars |-> FALSE, names |-> FALSE]

\* Of a run of quotes, two by two are quotes in the literal: the literal ends
\* with the last of an odd run.
ClosesQuote(s, i, j) ==
    /\ s[j] = s[i]
    /\ At(s, j + 1) # s[i]
    /\ (j - Max({m \in i..j : m = i \/ s[m] # s[i]})) % 2 = 1

ClosesPair(s, i, j) == s[j] = IF s[i] = "[" THEN "]" ELSE "bt"

\* Where the tag $...$ that begins at i ends: at most one place.
parse_dollar_quote_tag(s, i) ==
    {j \in i + 1 .. Len(s) :
        /\ s[j] = "$"
        /\ \A m \in i + 1 .. j - 1 :
              IF m = i + 1 THEN is_param_start(s[m]) ELSE is_ident_byte(s[m])}

DollarEnd(s, i) ==
    LET tag == SubSeq(s, i, Min(parse_dollar_quote_tag(s, i)))
    IN  Min({First(s, i + Len(tag), LAMBDA j : StartsAt(s, j, tag)) + Len(tag) - 1, Len(s)})

\* The last byte of a cast ::, of a name, or of a colon alone.
ColonEnd(s, i) ==
    IF At(s, i + 1) = ":" THEN i + 1
    ELSE IF ~is_param_start(At(s, i + 1)) THEN i
    ELSE Min({j \in i + 2 .. Len(s) : ~is_param_continue(s[j])} \cup {Len(s) + 1}) - 1

\* The last byte of what begins at i.  (The scans of routing leave the newline
\* after a comment to the code, where it is no part of anything.)
LexemeEnd(scan, s, i) ==
    CASE s[i] \in scan.doubled -> First(s, i + 1, LAMBDA j : ClosesQuote(s, i, j))
      [] s[i] \in scan.paired -> First(s, i + 1, LAMBDA j : ClosesPair(s, i, j))
      [] StartsAt(s, i, <<"-", "-">>) -> First(s, i + 2, LAMBDA j : s[j] = "nl")
      [] StartsAt(s, i, <<"/", "*">>) ->
            Min({First(s, i + 2, LAMBDA j : StartsAt(s, j, <<"*", "/">>)) + 1, Len(s)})
      [] scan.dollars /\ s[i] = "$" /\ parse_dollar_quote_tag(s, i) # {} -> DollarEnd(s, i)
      [] scan.names /\ s[i] = ":" -> ColonEnd(s, i)
      [] OTHER -> i

Lexemes(scan, s) ==
    LET from[i \in 1 .. Len(s) + 1] ==
          IF i > Len(s) THEN <<>>
          ELSE <<[at |-> i, to |-> LexemeEnd(scan, s, i)]>> \o from[LexemeEnd(scan, s, i) + 1]
    IN  from[1]

Piece(s, l) == SubSeq(s, l.at, l.to)
IsName(s, l) == s[l.at] = ":" /\ l.to > l.at /\ s[l.to] # ":"

-----------------------------------------------------------------------------
(***************************************************************************)
(* Placeholders                                                            *)
(***************************************************************************)

normalize_param_name(n) == IF At(n, 1) = ":" THEN n ELSE <<":">> \o n

\* A parameter is known by its place in the list; of two with one name the
\* later is bound.
ByName(params) ==
    LET named == [k \in DOMAIN params |-> normalize_param_name(params[k])]
    IN  [n \in ToSet(named) |-> Max({k \in DOMAIN params : named[k] = n})]

\* Outside names, bytes[i] as char: two characters for one of two bytes.
Copied(piece) ==
    FlattenSeq([k \in DOMAIN piece |-> IF piece[k] \in Wide THEN <<"byte", "byte">> ELSE <<piece[k]>>])

\* The error of a name that no parameter has.
Missing == [text |-> <<"missing">>, binds |-> <<>>]

\* Put(names, name): what is written for a name, and the names bound with it.
Rewritten(s, params, Put(_, _)) ==
    LET by_name == ByName(params)
        Step(acc, l) ==
          IF IsName(s, l)
          THEN LET put == Put(acc.names, Piece(s, l))
               IN  [text |-> acc.text \o put.text, names |-> put.names]
          ELSE [acc EXCEPT !.text = @ \o Copied(Piece(s, l))]
        all == FoldLeft(Step, [text |-> <<>>, names |-> <<>>], Lexemes(RewriteScan, s))
    IN  IF ToSet(all.names) \subseteq DOMAIN by_name
        THEN [text |-> all.text, binds |-> [k \in DOMAIN all.names |-> by_name[all.names[k]]]]
        ELSE Missing

\* Mutant: a name met again is given the number of the last one.
NumberedByCount(names, name) ==
    LET now == IF name \in ToSet(names) THEN names ELSE Append(names, name)
    IN  [text |-> <<"$", ToString(Len(now))>>, names |-> now]

\* PostgreSQL: one number, and one value, for all occurrences of a name.
Numbered(names, name) ==
    LET now == IF name \in ToSet(names) THEN names ELSE Append(names, name)
    IN  [text |-> <<"$", ToString(CHOOSE n \in DOMAIN now : now[n] = name)>>, names |-> now]

\* MySQL: a value for every occurrence.
Positional(names, name) == [text |-> <<"?">>, names |-> Append(names, name)]

rewrite_postgres(s, params) == Rewritten(s, params, Numbered)
rewrite_mysql(s, params) == Rewritten(s, params, Positional)

-----------------------------------------------------------------------------
(***************************************************************************)
(* Routing                                                                 *)
(***************************************************************************)

NoText == <<>>

\* The first "from" in the code of a text, or 0.
find_keyword(s) ==
    LET found == {l \in ToSet(Lexemes(KeywordScan, s)) :
                    /\ s[l.at] = "from"
                    /\ ~is_ident_byte(At(s, l.at - 1))
                    /\ ~is_ident_byte(At(s, l.at + 1))}
    IN  Min({l.at : l \in found} \cup {Len(s) + 1}) % (Len(s) + 1)

\* Where the parenthesis at open is closed: at most one place.
matching_paren(s, open) ==
    LET code == {open - 1 + l.at : l \in ToSet(Lexemes(KeywordScan, SubSeq(s, open, Len(s))))}
        Depth(j) == Cardinality({k \in code : k <= j /\ s[k] = "("})
                      - Cardinality({k \in code : k <= j /\ s[k] = ")"})
    IN  {j \in open..Len(s) : Depth(j) = 0 /\ \A k \in open .. j - 1 : Depth(k) # 0}

\* The table named after the first "from", down into subqueries.  A table ends
\* at a white space or a separator, whatever is in it.
first_table_name(s) ==
    LET table[t \in Seq(ToSet(s))] ==
          LET from == find_keyword(t)
              start == Min({j \in from + 1 .. Len(t) : t[j] \notin Spaces} \cup {Len(t) + 1})
              end == Min({j \in start..Len(t) : t[j] \in Spaces \cup {";", ",", ")"}} \cup {Len(t) + 1})
              close == matching_paren(t, start)
          IN  IF from = 0 THEN NoText
              ELSE IF At(t, start) # "(" THEN SubSeq(t, start, end - 1)
              ELSE IF close = {} THEN NoText
              ELSE table[SubSeq(t, start + 1, Min(close) - 1)]
    IN  table[s]

\* Mutant: the prefix is taken out wherever it stands in the code.
StripAnywhere(s, name) ==
    LET strips == {l.at : l \in {l \in ToSet(Lexemes(StripScan, s)) : StartsAt(s, l.at, Append(name, "."))}}
    IN  FlattenSeq([i \in DOMAIN s |->
          IF \E b \in strips : i \in b .. b + Len(name) THEN <<>> ELSE <<s[i]>>])

\* Every "name." in the code goes that begins an identifier and has an
\* identifier, perhaps quoted, behind it; literals and comments are copied whole.
strip_provider_prefix(s, name) ==
    LET strips == {l.at : l \in {l \in ToSet(Lexemes(StripScan, s)) :
                      /\ ~is_ident_byte(At(s, l.at - 1)) /\ At(s, l.at - 1) # "."
                      /\ StartsAt(s, l.at, Append(name, "."))
                      /\ LET next == At(s, l.at + Len(name) + 1)
                         IN  is_ident_byte(next) \/ next \in {"\"", "bt", "["}}}
        code == {l.at : l \in ToSet(Lexemes(StripScan, s))}
    IN  FlattenSeq([i \in DOMAIN s |->
          IF \E b \in strips : i \in b .. b + Len(name) THEN <<>>
          ELSE IF i \in code THEN Copied(<<s[i]>>) ELSE <<s[i]>>])

\* None or Some of the provider a statement goes to and the text it is sent, as a
\* set: without one the default provider gets the statement as it is.  The name is
\* what the table has before its first dot.
compute_route(s, providers) ==
    LET names == {n \in providers : n # NoText /\ "." \notin ToSet(n)}
    IN  {<<name, strip_provider_prefix(s, name)>> :
            name \in {n \in names : IsPrefix(Append(n, "."), Append(first_table_name(s), "."))}}
=============================================================================

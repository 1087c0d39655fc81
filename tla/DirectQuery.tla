----------------------------- MODULE DirectQuery ----------------------------
(***************************************************************************)
(* What a query of the knowledge runtime promises, with no cache in sight: *)
(* a call either is refused because there is no provider, or is bound to   *)
(* one handle, and then it fails or answers with what that handle says of  *)
(* the query that was asked.  QueryRuntime is shown to implement this.     *)
(***************************************************************************)
CONSTANTS Callers, Queries, Handles, NoAnswer

VARIABLES
    status,   \* of each caller's latest call
    asked,    \* the handle and the query of that call
    answer    \* what it answered, or NoAnswer

vars == <<status, asked, answer>>

Question == [handle : Handles, query : Queries]

Init ==
    /\ status = [c \in Callers |-> "idle"]
    /\ asked \in [Callers -> Question]
    /\ answer = [c \in Callers |-> NoAnswer]

Ask(c) ==
    /\ status[c] # "pending"
    /\ status' = [status EXCEPT ![c] = "pending"]
    /\ asked'[c] \in Question
    /\ asked' = [asked EXCEPT ![c] = asked'[c]]
    /\ answer' = [answer EXCEPT ![c] = NoAnswer]

Refuse(c) ==
    /\ status[c] # "pending"
    /\ status' = [status EXCEPT ![c] = "failed"]
    /\ answer' = [answer EXCEPT ![c] = NoAnswer]
    /\ UNCHANGED asked

Answer(c) ==
    /\ status[c] = "pending"
    /\ status' = [status EXCEPT ![c] = "answered"]
    /\ answer' = [answer EXCEPT ![c] = asked[c]]
    /\ UNCHANGED asked

Fail(c) ==
    /\ status[c] = "pending"
    /\ status' = [status EXCEPT ![c] = "failed"]
    /\ UNCHANGED <<asked, answer>>

Next == \E c \in Callers : Ask(c) \/ Refuse(c) \/ Answer(c) \/ Fail(c)

Spec == Init /\ [][Next]_vars
=============================================================================

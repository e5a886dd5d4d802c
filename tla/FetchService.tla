---------------------------- MODULE FetchService ----------------------------
(***************************************************************************)
(* What Broker::fetch promises its caller (the doc comment of fetch in     *)
(* crates/server/src/broker.rs): a call returns at most once; it returns   *)
(* an answer, or Err only after MAX_ATTEMPTS failed attempts of its own    *)
(* or because the broker is shutting down.  A call made after the flag is  *)
(* up is refused.  No queue, lease, node or audit appears here.            *)
(***************************************************************************)
EXTENDS Integers

CONSTANTS Request, Answer, Err, None, MAX_ATTEMPTS

VARIABLES
  state,        \* state[r]: "idle", "pending" or "done"
  answer,       \* answer[r]: the returned value
  strikes,      \* strikes[r]: failed attempts of the pending call r
  down          \* shutdown has begun

svars == <<state, answer, strikes, down>>

Pending == {r \in Request : state[r] = "pending"}

Init ==
  /\ state = [r \in Request |-> "idle"]
  /\ answer = [r \in Request |-> None]
  /\ strikes = [r \in Request |-> 0]
  /\ down = FALSE

\* The calls in R return a.
Return(R, a) ==
  /\ state' = [r \in Request |-> IF r \in R THEN "done" ELSE state[r]]
  /\ answer' = [r \in Request |-> IF r \in R THEN a ELSE answer[r]]

Begin(r) ==
  /\ ~down
  /\ state[r] = "idle"
  /\ state' = [state EXCEPT ![r] = "pending"]
  /\ UNCHANGED <<answer, strikes, down>>

Refuse(r) ==
  /\ down
  /\ state[r] = "idle"
  /\ Return({r}, Err)
  /\ UNCHANGED <<strikes, down>>

Respond(r, a) ==
  /\ r \in Pending
  /\ Return({r}, a)
  /\ strikes' = [strikes EXCEPT ![r] = 0]
  /\ UNCHANGED down

\* One failed attempt of each call in S; a call with its last strike returns Err.
Strike(S) ==
  LET out == {r \in S : strikes[r] + 1 >= MAX_ATTEMPTS}
  IN  /\ S \subseteq Pending
      /\ Return(out, Err)
      /\ strikes' = [r \in Request |->
                       IF r \in out THEN 0
                       ELSE IF r \in S THEN strikes[r] + 1 ELSE strikes[r]]
      /\ UNCHANGED down

Close ==
  /\ down' = TRUE
  /\ UNCHANGED <<state, answer, strikes>>

Drain(S) ==
  /\ down
  /\ S \subseteq Pending
  /\ Return(S, Err)
  /\ strikes' = [r \in Request |-> IF r \in S THEN 0 ELSE strikes[r]]
  /\ UNCHANGED down

Next ==
  \/ \E r \in Request : Begin(r) \/ Refuse(r)
  \/ \E r \in Request, a \in Answer : Respond(r, a)
  \/ \E S \in SUBSET Request : Strike(S) \/ Drain(S)
  \/ Close

Spec == Init /\ [][Next]_svars
=============================================================================

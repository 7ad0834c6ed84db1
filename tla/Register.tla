------------------------------ MODULE Register ------------------------------
(***************************************************************************)
(* What the clients of one key may rely on, if they may rely on anything:  *)
(* an atomic register.  A write takes effect at one instant, at most once; *)
(* one that succeeded did so between its call and its answer, and one that *)
(* failed or was abandoned may have, or may still, or never.  A read       *)
(* returns what the register held at one instant between its call and its  *)
(* answer, and it is answered.                                             *)
(*                                                                         *)
(* AsyncReads shows for which reads a MultiBackend is one.                 *)
(***************************************************************************)
CONSTANTS
    Writers,     \* the writes that clients may call
    Readers,     \* the reads that clients may call
    Value(_),    \* what a write leaves in the register
    Empty        \* what the register holds at first

VARIABLES
    value,    \* the content
    write,    \* write[w]: how far the call of w has come
    todo,     \* writes called that have not taken effect and still may
    reader    \* reader[q]: how far the call of q has come, and its result

regVars == <<value, write, todo, reader>>

Unasked   == [at |-> "idle", got |-> Empty]
Asked     == [at |-> "asked", got |-> Empty]
Taken(v)  == [at |-> "taken", got |-> v]
Told(v)   == [at |-> "told", got |-> v]

RegInit ==
    /\ value = Empty
    /\ write = [w \in Writers |-> "idle"]
    /\ todo = {}
    /\ reader = [q \in Readers |-> Unasked]

Call(w) ==
    /\ write[w] = "idle"
    /\ write' = [write EXCEPT ![w] = "called"]
    /\ todo' = todo \cup {w}
    /\ UNCHANGED <<value, reader>>

TakeEffect(w) ==
    /\ w \in todo
    /\ value' = Value(w)
    /\ todo' = todo \ {w}
    /\ UNCHANGED <<write, reader>>

Succeed(w) ==
    /\ write[w] = "called"
    /\ w \notin todo
    /\ write' = [write EXCEPT ![w] = "succeeded"]
    /\ UNCHANGED <<value, todo, reader>>

\* A write fails, or its client stops waiting: it may still take effect, or
\* it is over.
Fail(w) ==
    /\ write[w] = "called"
    /\ write' = [write EXCEPT ![w] = "failed"]
    /\ todo' \in {todo, todo \ {w}}
    /\ UNCHANGED <<value, reader>>

\* A failed write turns out never to take effect.
Fade(w) ==
    /\ write[w] = "failed"
    /\ w \in todo
    /\ todo' = todo \ {w}
    /\ UNCHANGED <<value, write, reader>>

Inquire(q) ==
    /\ reader[q] = Unasked
    /\ reader' = [reader EXCEPT ![q] = Asked]
    /\ UNCHANGED <<value, write, todo>>

Take(q) ==
    /\ reader[q] = Asked
    /\ reader' = [reader EXCEPT ![q] = Taken(value)]
    /\ UNCHANGED <<value, write, todo>>

Tell(q) ==
    /\ reader[q].at = "taken"
    /\ reader' = [reader EXCEPT ![q] = Told(@.got)]
    /\ UNCHANGED <<value, write, todo>>

RegNext ==
    \/ \E w \in Writers :
          Call(w) \/ TakeEffect(w) \/ Succeed(w) \/ Fail(w) \/ Fade(w)
    \/ \E q \in Readers : Inquire(q) \/ Take(q) \/ Tell(q)

RegSpec ==
    /\ RegInit
    /\ [][RegNext]_regVars
    /\ \A q \in Readers : WF_regVars(Take(q) \/ Tell(q))

=============================================================================

----------------------------- MODULE AtomicMap -----------------------------
(***************************************************************************)
(* What a Map promises: each operation takes effect and computes its       *)
(* answer at one instant between call and return.  A call that reports an  *)
(* error has no effect, or is left behind and may have it later, once.     *)
(***************************************************************************)
EXTENDS Naturals

CONSTANTS Workers, Keys, Values, NoValue

VARIABLES
    map,      \* the value of each key, NoValue when the key is absent
    call,     \* the operation of each worker and its outcome
    orphans   \* operations without a caller that may still happen, once each

vars == <<map, call, orphans>>

\* The keys whose values an operation answers.
Asked(op, key) ==
    CASE op = "entries" -> Keys
      [] op = "insert"  -> {}
      [] OTHER          -> {key}

Answer(o, entries) == [k \in Asked(o.op, o.key) |-> entries[k]]

Effect(o, entries) ==
    CASE o.op = "insert" -> [entries EXCEPT ![o.key] = o.value]
      [] o.op = "insert_if_absent" /\ entries[o.key] = NoValue
                         -> [entries EXCEPT ![o.key] = o.value]
      [] o.op = "remove" -> [entries EXCEPT ![o.key] = NoValue]
      [] OTHER           -> entries

Operation(w) ==
    [op |-> call[w].op, key |-> call[w].key, value |-> call[w].value]

Finish(w, outcome, answer) ==
    call' = [call EXCEPT ![w].outcome = outcome, ![w].answer = answer]

Init ==
    /\ map = [k \in Keys |-> NoValue]
    /\ \A w \in Workers : call[w].outcome = "none"
    /\ orphans = {}

\* The next operation of w; its predecessor's outcome is forgotten.
Begin(w) ==
    /\ call[w].outcome # "pending"
    /\ call'[w].outcome = "pending"
    /\ call' = [call EXCEPT ![w] = call'[w]]
    /\ UNCHANGED <<map, orphans>>

Take(w) ==
    /\ call[w].outcome = "pending"
    /\ map' = Effect(Operation(w), map)
    /\ Finish(w, "done", Answer(Operation(w), map))
    /\ UNCHANGED orphans

Fail(w) ==
    /\ call[w].outcome = "pending"
    /\ Finish(w, "failed", <<>>)
    /\ \/ orphans' = orphans
       \/ \E o \in orphans' \ orphans : /\ o[2] = Operation(w)
                                       /\ orphans' = orphans \cup {o}
    /\ UNCHANGED map

Late(o) ==
    /\ map' \in {map, Effect(o[2], map)}
    /\ orphans' = orphans \ {o}
    /\ UNCHANGED call

Next ==
    \/ \E w \in Workers : Begin(w) \/ Take(w) \/ Fail(w)
    \/ \E o \in orphans : Late(o)

Spec == Init /\ [][Next]_vars
============================================================================

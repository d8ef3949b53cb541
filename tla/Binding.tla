------------------------------ MODULE Binding ------------------------------
(***************************************************************************)
(* The Node.js binding: a native registry of open structures that          *)
(* JavaScript objects refer to by number (crates/objsds-napi/src/lib.rs),  *)
(* and the classes of npm/src/index.ts that open, use, close and lose      *)
(* them.  Every call is a task of libuv's worker pool and can be aborted   *)
(* while it waits, runs, or has finished but is not yet delivered.         *)
(*                                                                         *)
(* A structure is known by the number of the call that opened it; what it  *)
(* does is the business of Map, Log and Queue, and values, JSON and error  *)
(* texts are left out.  How AsyncTask and the pool behave is taken from    *)
(* their use here and from the binding's README.                           *)
(***************************************************************************)
EXTENDS Naturals, FiniteSets

CONSTANTS
    Tasks,        \* calls that may be under way together
    Kinds,        \* map, log, queue
    HandleCount,  \* 2^32, the values of the u32 counter next_handle
    PoolSize,     \* worker threads of the pool
    MaxOpens      \* bound: structures that are opened

ASSUME BindingAssumption ==
    /\ HandleCount \in Nat \ {0} /\ PoolSize \in Nat \ {0}
    /\ MaxOpens \in Nat /\ Kinds # {}

VARIABLES
    next,      \* next_handle
    registry,  \* per kind, the structure under each handle, 0 for none
    task,      \* the calls under way
    wrapper,   \* the JavaScript object of each structure
    opens      \* lifecycle calls so far

vars == <<next, registry, task, wrapper, opens>>

----------------------------------------------------------------------------

Handles == 0..(HandleCount - 1)

Structures == 1..MaxOpens

TaskRecords ==
    [stage : {"idle", "queued", "opening", "using", "finished"},
     op : {"open", "use"}, kind : Kinds, structure : Structures \cup {0},
     handle : Handles, reached : Structures \cup {0}, aborted : BOOLEAN]

\* open: in use; dropped: garbage that is not finalized yet; closed: released.
Wrappers == [state : {"none", "open", "dropped", "closed"}, kind : Kinds,
             handle : Handles]

AnyKind == CHOOSE k \in Kinds : TRUE

\* A free task slot; the other fields mean nothing.
Free == [stage |-> "idle", op |-> "open", kind |-> AnyKind, structure |-> 0,
         handle |-> 0, reached |-> 0, aborted |-> FALSE]

\* State::new, and no call or object yet.
Init ==
    /\ next = 1 % HandleCount
    /\ registry = [k \in Kinds |-> [h \in Handles |-> 0]]
    /\ task = [t \in Tasks |-> Free]
    /\ wrapper = [s \in Structures |->
                    [state |-> "none", kind |-> AnyKind, handle |-> 0]]
    /\ opens = 0

----------------------------------------------------------------------------
(* JavaScript: calls *)

\* The methods of NativeClient: an AsyncTask is queued.
Enqueue(t, op, kind, structure, handle) ==
    /\ task[t].stage = "idle"
    /\ task' = [task EXCEPT ![t] = [Free EXCEPT
                    !.kind = kind, !.stage = "queued", !.op = op,
                    !.structure = structure, !.handle = handle]]

\* create, open and openOrCreate of a builder.
CallOpen(t) ==
    /\ opens < MaxOpens
    /\ opens' = opens + 1
    /\ \E k \in Kinds : Enqueue(t, "open", k, opens + 1, 0)
    /\ UNCHANGED <<next, registry, wrapper>>

\* A method of an object that is not closed (openHandle()).
CallUse(t, s) ==
    /\ wrapper[s].state = "open"
    /\ Enqueue(t, "use", wrapper[s].kind, s, wrapper[s].handle)
    /\ UNCHANGED <<next, registry, wrapper, opens>>

----------------------------------------------------------------------------
(* The worker pool: compute() and execute() *)

Busy == {t \in Tasks : task[t].stage \in {"opening", "using"}}

\* Faulty variant: a load and a store instead of fetch_add; another call that
\* is about to draw its handle loads the same value.
LostUpdate ==
    IF Cardinality({t \in Tasks : /\ task[t].stage = "queued"
                                  /\ task[t].op = "open"}) > 1
      THEN next ELSE (next + 1) % HandleCount

\* fetch_add(1) on an AtomicU32, which wraps around.
Increment == (next + 1) % HandleCount

\* A worker takes a lifecycle call and draws its handle, before any I/O.
BeginOpen(t) ==
    /\ task[t].stage = "queued" /\ task[t].op = "open"
    /\ Cardinality(Busy) < PoolSize
    /\ task' = [task EXCEPT ![t].stage = "opening", ![t].handle = next]
    /\ next' = Increment
    /\ UNCHANGED <<registry, wrapper, opens>>

\* A worker takes another call and looks its handle up; if it has been
\* released since the call was made, the call fails with InvalidHandle.
BeginUse(t) ==
    /\ task[t].stage = "queued" /\ task[t].op = "use"
    /\ Cardinality(Busy) < PoolSize
    /\ LET found == registry[task[t].kind][task[t].handle] IN
         task' = [task EXCEPT
                    ![t].reached = found,
                    ![t].stage = IF found = 0 THEN "finished" ELSE "using"]
    /\ UNCHANGED <<next, registry, wrapper, opens>>

\* The lifecycle operation succeeds and its structure is registered ...
Register(t) ==
    /\ task[t].stage = "opening"
    /\ registry' = [registry EXCEPT ![task[t].kind][task[t].handle] =
                      task[t].structure]
    /\ task' = [task EXCEPT ![t].stage = "finished",
                            ![t].reached = task[t].structure]
    /\ UNCHANGED <<next, wrapper, opens>>

\* ... or fails; the handle it drew is never used.
OpenFails(t) ==
    /\ task[t].stage = "opening"
    /\ task' = [task EXCEPT ![t].stage = "finished"]
    /\ UNCHANGED <<next, registry, wrapper, opens>>

\* The operation on the structure returns.  It held the structure by its own
\* Arc, whatever happened to the registry in between.
FinishUse(t) ==
    /\ task[t].stage = "using"
    /\ task' = [task EXCEPT ![t].stage = "finished"]
    /\ UNCHANGED <<next, registry, wrapper, opens>>

----------------------------------------------------------------------------
(* JavaScript: results, cancellation, release *)

\* Faulty variant: the result of an aborted call is never collected.
DeliverWanted(t) ==
    /\ task[t].stage = "finished" /\ ~task[t].aborted
    /\ task' = [task EXCEPT ![t] = Free]
    /\ wrapper' = IF task[t].op = "open" /\ task[t].reached # 0
                    THEN [wrapper EXCEPT ![task[t].structure] =
                            [state |-> "open", kind |-> task[t].kind,
                             handle |-> task[t].handle]]
                    ELSE wrapper
    /\ UNCHANGED <<next, registry, opens>>

\* The event loop takes a finished task.  Its promise settles, and an opened
\* structure gets its object, which registers with the finalizer; the result
\* of an aborted task is dropped.
Deliver(t) ==
    /\ task[t].stage = "finished"
    /\ task' = [task EXCEPT ![t] = Free]
    /\ wrapper' = IF task[t].op = "open" /\ task[t].reached # 0
                       /\ ~task[t].aborted
                    THEN [wrapper EXCEPT ![task[t].structure] =
                            [state |-> "open", kind |-> task[t].kind,
                             handle |-> task[t].handle]]
                    ELSE wrapper
    /\ UNCHANGED <<next, registry, opens>>

\* The signal of a call fires: its promise is rejected.  A queued task never
\* runs; one that runs or has finished goes on without a listener.
Abort(t) ==
    /\ task[t].stage # "idle" /\ ~task[t].aborted
    /\ task' = [task EXCEPT ![t] = IF task[t].stage = "queued"
                                     THEN Free
                                     ELSE [task[t] EXCEPT !.aborted = TRUE]]
    /\ UNCHANGED <<next, registry, wrapper, opens>>

\* Faulty variant: every release goes to the registry of one kind.
ReleaseAnyKind(s) ==
    registry' = [registry EXCEPT ![AnyKind][wrapper[s].handle] = 0]

\* mapRelease, logRelease and queueRelease: the kind picks the registry.
Release(s) ==
    registry' = [registry EXCEPT ![wrapper[s].kind][wrapper[s].handle] = 0]

\* close(): once, and the finalizer is unregistered.
Close(s) ==
    /\ wrapper[s].state = "open"
    /\ wrapper' = [wrapper EXCEPT ![s].state = "closed"]
    /\ Release(s)
    /\ UNCHANGED <<next, task, opens>>

\* The program drops its last reference, perhaps with calls still queued.
Drop(s) ==
    /\ wrapper[s].state = "open"
    /\ wrapper' = [wrapper EXCEPT ![s].state = "dropped"]
    /\ UNCHANGED <<next, registry, task, opens>>

\* The FinalizationRegistry's callback runs after garbage collection.
Finalize(s) ==
    /\ wrapper[s].state = "dropped"
    /\ wrapper' = [wrapper EXCEPT ![s].state = "closed"]
    /\ Release(s)
    /\ UNCHANGED <<next, task, opens>>

----------------------------------------------------------------------------

Begin(t) == BeginOpen(t) \/ BeginUse(t)

Finish(t) == Register(t) \/ OpenFails(t) \/ FinishUse(t)

Next ==
    \/ \E t \in Tasks :
         \/ CallOpen(t) \/ Begin(t) \/ Finish(t) \/ Deliver(t) \/ Abort(t)
         \/ \E s \in Structures : CallUse(t, s)
    \/ \E s \in Structures : Close(s) \/ Drop(s) \/ Finalize(s)

Spec == Init /\ [][Next]_vars

\* Store calls return, the event loop turns, and the pool serves its queue in
\* order, so that a queued task is not overtaken for ever.
FairSpec ==
    /\ Spec
    /\ \A t \in Tasks : /\ SF_vars(Begin(t))
                        /\ WF_vars(Finish(t))
                        /\ WF_vars(Deliver(t))

----------------------------------------------------------------------------
(* Properties *)

\* Types of the binding's state.
TypeOK ==
    /\ next \in Handles
    /\ registry \in [Kinds -> [Handles -> Structures \cup {0}]]
    /\ task \in [Tasks -> TaskRecords]
    /\ wrapper \in [Structures -> Wrappers]
    /\ opens \in 0..MaxOpens

\* The handle of an object that is not released leads to the object's own
\* structure, and the handle of a released one no longer does, whatever else
\* was opened, aborted, closed or finalized meanwhile (as long as no more than
\* HandleCount structures were opened).
HandlesResolve ==
    \A s \in Structures :
        LET found == registry[wrapper[s].kind][wrapper[s].handle] IN
          /\ wrapper[s].state \in {"open", "dropped"} => found = s
          /\ wrapper[s].state = "closed" => found # s

\* An operation never runs on another structure than that of the object it
\* was called on: when the object is closed while the call waits in the pool,
\* the call fails instead.
ReachesOwn ==
    \A t \in Tasks : task[t].op = "use" =>
        task[t].reached \in {0, task[t].structure}

\* Every call leaves the pool, however many are queued, aborted or blocked
\* behind others in fewer workers than there are calls.
CallsEnd ==
    \A t \in Tasks : task[t].stage = "queued" ~> task[t].stage = "idle"

\* "... otherwise a FinalizationRegistry releases their native registry
\* entries after garbage collection": every entry belongs to an object that
\* will release it, or to a call that is about to make one.
EntriesOwned ==
    \A k \in Kinds, h \in Handles :
        LET s == registry[k][h] IN
          s # 0 =>
            \/ wrapper[s].state \in {"open", "dropped"}
            \/ \E t \in Tasks : /\ task[t].op = "open"
                                /\ task[t].stage = "finished"
                                /\ task[t].structure = s
                                /\ ~task[t].aborted
============================================================================

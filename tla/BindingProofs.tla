---------------------------- MODULE BindingProofs ----------------------------
(***************************************************************************)
(* Handles of the Node.js binding lead to their own structures, for any    *)
(* number of calls, kinds and worker threads, as long as no more than      *)
(* HandleCount structures are opened.                                      *)
(*                                                                         *)
(* No variable tells which handle a structure drew, nor how many were      *)
(* drawn: calls that were aborted or failed leave no trace.  The inductive *)
(* invariant says that there is such an assignment H of handles to the     *)
(* structures that drew one, without repetition and in the order of the    *)
(* counter, and that the registry, the calls and the objects all agree     *)
(* with it.                                                                *)
(***************************************************************************)
EXTENDS Binding, FiniteSetTheorems, TLAPS

\* The handle that is drawn after n others.
HandleOf(n) == IF n + 1 < HandleCount THEN n + 1 ELSE 0

Drawn(H) ==
    LET n == Cardinality(DOMAIN H) IN
    /\ DOMAIN H \subseteq 1..opens
    /\ \A s \in DOMAIN H : \E i \in 0..(n - 1) : H[s] = HandleOf(i)
    /\ \A r, s \in DOMAIN H : H[r] = H[s] => r = s
    /\ n < HandleCount => next = HandleOf(n)

\* What is registered under a handle is the structure that drew it.
RegistryOK(H) ==
    \A k \in Kinds, h \in Handles :
        registry[k][h] # 0 =>
            registry[k][h] \in DOMAIN H /\ H[registry[k][h]] = h

OpenTaskOK(H, t) ==
    /\ task[t].structure \in 1..opens
    /\ wrapper[task[t].structure].state = "none"
    /\ task[t].reached \in {0, task[t].structure}
    /\ task[t].stage # "using"
    /\ task[t].stage = "queued" => /\ task[t].structure \notin DOMAIN H
                                   /\ task[t].reached = 0
    /\ task[t].stage # "queued" => /\ task[t].structure \in DOMAIN H
                                   /\ task[t].handle = H[task[t].structure]
    /\ task[t].stage = "opening" => task[t].reached = 0
    /\ task[t].reached # 0 =>
         registry[task[t].kind][task[t].handle] = task[t].structure

UseTaskOK(t) ==
    /\ task[t].structure \in Structures
    /\ wrapper[task[t].structure].state # "none"
    /\ task[t].kind = wrapper[task[t].structure].kind
    /\ task[t].handle = wrapper[task[t].structure].handle
    /\ task[t].reached \in {0, task[t].structure}
    /\ task[t].stage # "opening"

TaskOK(H, t) ==
    IF task[t].op = "open"
      THEN task[t].stage # "idle" => OpenTaskOK(H, t)
      ELSE UseTaskOK(t)

TasksApart ==
    \A t, u \in Tasks :
        /\ task[t].op = "open" /\ task[t].stage # "idle"
        /\ task[u].op = "open" /\ task[u].stage # "idle"
        /\ task[t].structure = task[u].structure
        => t = u

WrapperOK(H, s) ==
    LET found == registry[wrapper[s].kind][wrapper[s].handle] IN
    /\ wrapper[s].state # "none" =>
         s \in DOMAIN H /\ wrapper[s].handle = H[s]
    /\ wrapper[s].state \in {"open", "dropped"} => found = s
    /\ wrapper[s].state = "closed" => found # s

Assigned(H) ==
    /\ Drawn(H)
    /\ RegistryOK(H)
    /\ \A t \in Tasks : TaskOK(H, t)
    /\ \A s \in Structures : WrapperOK(H, s)

BindingInv ==
    /\ TypeOK
    /\ TasksApart
    /\ \E D \in SUBSET Structures : \E H \in [D -> Handles] : Assigned(H)

----------------------------------------------------------------------------
(* The counter *)

\* fetch_add before the counter reaches its last value, and at it.
LEMMA CounterWraps ==
    ASSUME NEW n \in Nat, n <= HandleCount
    PROVE  n % HandleCount = IF n < HandleCount THEN n ELSE 0
<1>1. HandleCount \in Nat /\ HandleCount > 0
  BY BindingAssumption
<1>2. QED
  BY <1>1, SMTT(30)

\* The first HandleCount handles are distinct.
LEMMA HandlesDiffer ==
    ASSUME NEW i \in 0..(HandleCount - 1), NEW j \in 0..(HandleCount - 1),
           HandleOf(i) = HandleOf(j)
    PROVE  i = j
BY BindingAssumption DEF HandleOf

\* One draw leads from the handle after n others to the one after n + 1.
LEMMA CounterSteps ==
    ASSUME NEW n \in Nat, n < HandleCount, next = HandleOf(n)
    PROVE  /\ Increment \in Handles
           /\ n + 1 < HandleCount => Increment = HandleOf(n + 1)
<1>1. HandleCount \in Nat /\ HandleCount > 0
  BY BindingAssumption
<1>2. next + 1 \in Nat /\ next + 1 <= HandleCount
  BY <1>1 DEF HandleOf
<1>3. Increment = IF next + 1 < HandleCount THEN next + 1 ELSE 0
  BY <1>2, CounterWraps DEF Increment
<1>4. QED
  BY <1>1, <1>2, <1>3 DEF HandleOf, Handles

\* The counter stays in its range whatever was drawn.
LEMMA CounterTyped ==
    ASSUME next \in Handles
    PROVE  Increment \in Handles
<1>1. HandleCount \in Nat /\ HandleCount > 0
  BY BindingAssumption
<1>2. next + 1 \in Nat /\ next + 1 <= HandleCount
  BY <1>1 DEF Handles
<1>3. Increment = IF next + 1 < HandleCount THEN next + 1 ELSE 0
  BY <1>2, CounterWraps DEF Increment
<1>4. QED
  BY <1>1, <1>2, <1>3 DEF Handles

LEMMA FreeTyped == Free \in TaskRecords /\ AnyKind \in Kinds
BY BindingAssumption DEF Free, TaskRecords, AnyKind, Handles

----------------------------------------------------------------------------
(* The initial state: nothing is drawn *)

LEMMA BindingInit ==
    ASSUME Init
    PROVE  BindingInv
<1>1. TypeOK
  <2>1. 1 % HandleCount = IF 1 < HandleCount THEN 1 ELSE 0
    BY CounterWraps, BindingAssumption
  <2>2. next \in Handles
    BY <2>1, BindingAssumption DEF Init, Handles
  <2>3. 0 \in Handles
    BY BindingAssumption DEF Handles
  <2>4. QED
    BY <2>2, <2>3, FreeTyped, BindingAssumption DEF Init, TypeOK, Wrappers
<1>2. \A t \in Tasks : task[t].op = "open" /\ task[t].stage = "idle"
  BY DEF Init, Free
<1>3. TasksApart
  BY <1>2 DEF TasksApart
<1> DEFINE H == [x \in {} |-> 0]
<1>4. H \in [{} -> Handles]
  OBVIOUS
<1>5. Assigned(H)
  <2>1. DOMAIN H = {} /\ Cardinality(DOMAIN H) = 0
    BY <1>4, FS_EmptySet
  <2>2. next = HandleOf(0)
    BY CounterWraps, BindingAssumption DEF Init, HandleOf
  <2>3. Drawn(H)
    BY <2>1, <2>2 DEF Drawn
  <2>4. RegistryOK(H)
    BY DEF RegistryOK, Init
  <2>5. \A t \in Tasks : TaskOK(H, t)
    BY <1>2 DEF TaskOK
  <2>6. \A s \in Structures : WrapperOK(H, s)
    BY DEF WrapperOK, Init
  <2>7. QED
    BY <2>3, <2>4, <2>5, <2>6 DEF Assigned
<1>6. QED
  BY <1>1, <1>3, <1>4, <1>5 DEF BindingInv

----------------------------------------------------------------------------
(* Steps that draw no handle keep the assignment *)

\* A task whose record is the same, and whose part of the registry and of the
\* objects is, is as right as before.
LEMMA TaskKept ==
    ASSUME TypeOK, NEW D \in SUBSET Structures, NEW H \in [D -> Handles],
           NEW u \in Tasks, TaskOK(H, u), task'[u] = task[u],
           opens \in Nat, opens' \in Nat, opens <= opens',
           \A s \in Structures :
               task[u].structure = s =>
                 IF task[u].op = "open" /\ task[u].stage # "idle"
                   THEN wrapper'[s].state = "none"
                   ELSE /\ wrapper[s].state # "none" =>
                             wrapper'[s].state # "none"
                        /\ wrapper[s].state # "none" =>
                             wrapper'[s].kind = wrapper[s].kind
                        /\ wrapper[s].state # "none" =>
                             wrapper'[s].handle = wrapper[s].handle,
           task[u].op = "open" /\ task[u].stage # "idle"
             /\ registry[task[u].kind][task[u].handle] = task[u].structure
             => registry'[task[u].kind][task[u].handle] = task[u].structure
    PROVE  TaskOK(H, u)'
<1>1. CASE task[u].op = "open" /\ task[u].stage # "idle"
  <2>1. OpenTaskOK(H, u) /\ opens <= MaxOpens
    BY <1>1 DEF TaskOK, TypeOK
  <2>2. task[u].structure \in Structures /\ task[u].structure \in 1..opens'
    BY <2>1, BindingAssumption DEF OpenTaskOK, Structures
  <2>3. QED
    BY <1>1, <2>1, <2>2 DEF TaskOK, OpenTaskOK
<1>2. CASE task[u].op = "open" /\ task[u].stage = "idle"
  BY <1>2 DEF TaskOK
<1>3. CASE task[u].op # "open"
  BY <1>3 DEF TaskOK, UseTaskOK
<1>4. QED
  BY <1>1, <1>2, <1>3

\* What all those steps preserve.
Kept(H) == TypeOK /\ TasksApart /\ Assigned(H)

\* A step that replaces one task and leaves the counter, the registry and the
\* objects alone need only be checked on that task; if it is a lifecycle call,
\* its structure is the one it had, or a new one.
LEMMA OneTask ==
    ASSUME NEW D \in SUBSET Structures, NEW H \in [D -> Handles], Kept(H),
           NEW t \in Tasks, NEW r \in TaskRecords,
           task' = [task EXCEPT ![t] = r], UNCHANGED <<next, registry, wrapper>>,
           opens' \in opens..MaxOpens,
           r.op = "open" /\ r.stage # "idle" =>
             \/ /\ task[t].op = "open" /\ task[t].stage # "idle"
                /\ task[t].structure = r.structure
             \/ r.structure = opens + 1,
           TaskOK(H, t)'
    PROVE  Kept(H)'
<1>1. TypeOK /\ TasksApart /\ Drawn(H) /\ RegistryOK(H)
      /\ (\A u \in Tasks : TaskOK(H, u))
      /\ (\A s \in Structures : WrapperOK(H, s))
  BY DEF Kept, Assigned
<1>2. opens \in 0..MaxOpens /\ MaxOpens \in Nat
  BY <1>1, BindingAssumption DEF TypeOK
<1>3. TypeOK'
  BY <1>1, <1>2 DEF TypeOK
<1>4. \A u \in Tasks : task'[u] = IF u = t THEN r ELSE task[u]
  BY <1>1 DEF TypeOK
<1>5. \A u \in Tasks : task[u].op = "open" /\ task[u].stage # "idle" =>
                          /\ task[u].structure \in 1..opens
                          /\ wrapper[task[u].structure].state = "none"
  BY <1>1 DEF TaskOK, OpenTaskOK
<1>6. TasksApart'
  <2>1. SUFFICES ASSUME NEW u \in Tasks, NEW v \in Tasks,
                        task'[u].op = "open", task'[u].stage # "idle",
                        task'[v].op = "open", task'[v].stage # "idle",
                        task'[u].structure = task'[v].structure
                 PROVE  u = v
    BY DEF TasksApart
  <2>2. QED
    BY <1>1, <1>2, <1>4, <1>5, <2>1 DEF TasksApart
<1>7. Drawn(H)'
  <2>1. DOMAIN H \subseteq 1..opens'
    BY <1>1, <1>2 DEF Drawn
  <2>2. QED
    BY <1>1, <2>1 DEF Drawn
<1>8. RegistryOK(H)'
  BY <1>1 DEF RegistryOK
<1>9. ASSUME NEW u \in Tasks, u # t
      PROVE  TaskOK(H, u)'
  <2>1. task'[u] = task[u]
    BY <1>4, <1>9
  <2>2. TaskOK(H, u)
    BY <1>1
  <2>3. QED
    BY <1>1, <1>2, <1>5, <2>1, <2>2, TaskKept
<1>10. \A s \in Structures : WrapperOK(H, s)'
  BY <1>1 DEF WrapperOK
<1>11. Assigned(H)'
  BY <1>7, <1>8, <1>9, <1>10 DEF Assigned
<1>12. QED
  BY <1>3, <1>6, <1>11 DEF Kept

\* A lifecycle call is made: its structure is new, and has drawn nothing.
LEMMA CallOpenKeeps ==
    ASSUME NEW D \in SUBSET Structures, NEW H \in [D -> Handles], Kept(H),
           NEW t \in Tasks, CallOpen(t)
    PROVE  Kept(H)'
<1>1. /\ TypeOK /\ TaskOK(H, t) /\ RegistryOK(H)
      /\ \A s \in Structures : WrapperOK(H, s)
  BY DEF Kept, Assigned
<1>2. task[t] \in TaskRecords
  BY <1>1 DEF TypeOK
<1>3. PICK k \in Kinds : Enqueue(t, "open", k, opens + 1, 0)
  BY DEF CallOpen
<1> DEFINE r == [Free EXCEPT !.kind = k, !.stage = "queued", !.op = "open",
                             !.structure = opens + 1, !.handle = 0]
<1>4. opens \in 0..MaxOpens /\ opens < MaxOpens /\ MaxOpens \in Nat
  BY <1>1, BindingAssumption DEF TypeOK, CallOpen
<1>5. /\ r \in TaskRecords /\ r.op = "open" /\ r.stage = "queued"
      /\ r.structure = opens + 1 /\ r.reached = 0
  <2>1. opens + 1 \in Structures /\ 0 \in Handles
    BY <1>4, BindingAssumption DEF Structures, Handles
  <2>2. QED
    BY <2>1, FreeTyped DEF Free, TaskRecords
<1>6. task' = [task EXCEPT ![t] = r]
  BY <1>3 DEF Enqueue
<1>7. task'[t] = r
  BY <1>1, <1>6 DEF TypeOK
<1>8. DOMAIN H \subseteq 1..opens
  BY DEF Kept, Assigned, Drawn
<1>9. opens + 1 \in Structures /\ opens + 1 \notin D
  BY <1>4, <1>8 DEF Structures
<1>10. wrapper[opens + 1].state = "none"
  BY <1>1, <1>9 DEF WrapperOK
<1>11. OpenTaskOK(H, t)'
  BY <1>4, <1>5, <1>7, <1>9, <1>10 DEF OpenTaskOK, CallOpen
<1>12. TaskOK(H, t)'
  BY <1>5, <1>7, <1>11 DEF TaskOK
<1> HIDE DEF r
<1>13. opens' \in opens..MaxOpens /\ UNCHANGED <<next, registry, wrapper>>
  BY <1>4 DEF CallOpen
<1>14. QED
  BY <1>5, <1>6, <1>12, <1>13, OneTask

\* A method is called on an open object: the call takes its handle along.
LEMMA CallUseKeeps ==
    ASSUME NEW D \in SUBSET Structures, NEW H \in [D -> Handles], Kept(H),
           NEW t \in Tasks, NEW s \in Structures, CallUse(t, s)
    PROVE  Kept(H)'
<1>1. /\ TypeOK /\ TaskOK(H, t) /\ RegistryOK(H)
      /\ \A x \in Structures : WrapperOK(H, x)
  BY DEF Kept, Assigned
<1>2. task[t] \in TaskRecords
  BY <1>1 DEF TypeOK
<1> DEFINE r == [Free EXCEPT !.kind = wrapper[s].kind, !.stage = "queued",
                   !.op = "use", !.structure = s, !.handle = wrapper[s].handle]
<1>3. wrapper[s] \in Wrappers /\ wrapper[s].state = "open"
  BY <1>1 DEF TypeOK, CallUse
<1>4. /\ r \in TaskRecords /\ r.op = "use" /\ r.stage = "queued"
      /\ r.structure = s /\ r.reached = 0
      /\ r.kind = wrapper[s].kind /\ r.handle = wrapper[s].handle
  BY <1>3, FreeTyped DEF Free, TaskRecords, Wrappers
<1>5. task' = [task EXCEPT ![t] = r]
  BY DEF Enqueue, CallUse
<1>6. task'[t] = r
  BY <1>1, <1>5 DEF TypeOK
<1> HIDE DEF r
<1>7. UseTaskOK(t)'
  BY <1>3, <1>4, <1>6 DEF UseTaskOK, CallUse
<1>8. TaskOK(H, t)'
  BY <1>4, <1>6, <1>7 DEF TaskOK
<1>9. opens' \in opens..MaxOpens
  BY <1>1, BindingAssumption DEF TypeOK, CallUse
<1>10. QED
  BY <1>4, <1>5, <1>8, <1>9, OneTask DEF CallUse

\* A use is looked up: what it finds is its own structure, or nothing.
LEMMA BeginUseKeeps ==
    ASSUME NEW D \in SUBSET Structures, NEW H \in [D -> Handles], Kept(H),
           NEW t \in Tasks, BeginUse(t)
    PROVE  Kept(H)'
<1>1. /\ TypeOK /\ TaskOK(H, t) /\ RegistryOK(H)
      /\ \A s \in Structures : WrapperOK(H, s)
  BY DEF Kept, Assigned
<1>2. task[t] \in TaskRecords
  BY <1>1 DEF TypeOK
<1> DEFINE found == registry[task[t].kind][task[t].handle]
           r == [task[t] EXCEPT !.reached = found,
                    !.stage = IF found = 0 THEN "finished" ELSE "using"]
<1>3. /\ task[t].stage = "queued" /\ task[t].op = "use"
      /\ task' = [task EXCEPT ![t] = r]
  BY DEF BeginUse
<1>4. UseTaskOK(t)
  BY <1>1, <1>3 DEF TaskOK
<1>5. found \in {0, task[t].structure}
  <2>1. PICK s \in Structures : s = task[t].structure
    BY <1>4 DEF UseTaskOK
  <2>2. /\ s \in DOMAIN H /\ task[t].handle = H[s]
    BY <1>1, <1>4, <2>1 DEF UseTaskOK, WrapperOK
  <2>3. task[t].kind \in Kinds /\ task[t].handle \in Handles
    BY <1>2 DEF TaskRecords
  <2>4. found # 0 => found \in DOMAIN H /\ H[found] = H[s]
    BY <1>1, <2>2, <2>3 DEF RegistryOK
  <2>5. \A a, b \in DOMAIN H : H[a] = H[b] => a = b
    BY DEF Kept, Assigned, Drawn
  <2>6. QED
    BY <2>1, <2>2, <2>4, <2>5
<1>6. /\ r \in TaskRecords /\ r.op = "use" /\ r.stage \in {"using", "finished"}
      /\ r.structure = task[t].structure /\ r.reached = found
      /\ r.kind = task[t].kind /\ r.handle = task[t].handle
  BY <1>2, <1>3, <1>5 DEF TaskRecords
<1>7. task'[t] = r
  BY <1>1, <1>3 DEF TypeOK
<1> HIDE DEF r, found
<1>8. UseTaskOK(t)'
  BY <1>4, <1>5, <1>6, <1>7 DEF UseTaskOK, BeginUse
<1>9. TaskOK(H, t)'
  BY <1>6, <1>7, <1>8 DEF TaskOK
<1>10. opens' \in opens..MaxOpens
  BY <1>1, BindingAssumption DEF TypeOK, BeginUse
<1>11. QED
  BY <1>3, <1>6, <1>9, <1>10, OneTask DEF BeginUse

\* A lifecycle call fails, or a use returns.
LEMMA FinishKeeps ==
    ASSUME NEW D \in SUBSET Structures, NEW H \in [D -> Handles], Kept(H),
           NEW t \in Tasks, OpenFails(t) \/ FinishUse(t)
    PROVE  Kept(H)'
<1>1. /\ TypeOK /\ TaskOK(H, t) /\ RegistryOK(H)
      /\ \A s \in Structures : WrapperOK(H, s)
  BY DEF Kept, Assigned
<1>2. task[t] \in TaskRecords
  BY <1>1 DEF TypeOK
<1> DEFINE r == [task[t] EXCEPT !.stage = "finished"]
<1>3. /\ task' = [task EXCEPT ![t] = r] /\ task[t].stage \in {"opening", "using"}
      /\ UNCHANGED <<next, registry, wrapper, opens>>
  BY DEF OpenFails, FinishUse
<1>4. /\ r \in TaskRecords /\ r.op = task[t].op /\ r.stage = "finished"
      /\ r.structure = task[t].structure /\ r.reached = task[t].reached
      /\ r.kind = task[t].kind /\ r.handle = task[t].handle
  BY <1>2 DEF TaskRecords
<1>5. task'[t] = r
  BY <1>1, <1>3 DEF TypeOK
<1> HIDE DEF r
<1>6. TaskOK(H, t)'
  BY <1>1, <1>3, <1>4, <1>5 DEF TaskOK, OpenTaskOK, UseTaskOK
<1>7. opens' \in opens..MaxOpens
  BY <1>1, <1>3, BindingAssumption DEF TypeOK
<1>8. QED
  BY <1>3, <1>4, <1>6, <1>7, OneTask

\* A call is aborted: a queued one leaves no trace.
LEMMA AbortKeeps ==
    ASSUME NEW D \in SUBSET Structures, NEW H \in [D -> Handles], Kept(H),
           NEW t \in Tasks, Abort(t)
    PROVE  Kept(H)'
<1>1. /\ TypeOK /\ TaskOK(H, t) /\ RegistryOK(H)
      /\ \A s \in Structures : WrapperOK(H, s)
  BY DEF Kept, Assigned
<1>2. task[t] \in TaskRecords
  BY <1>1 DEF TypeOK
<1> DEFINE r == IF task[t].stage = "queued" THEN Free
                ELSE [task[t] EXCEPT !.aborted = TRUE]
<1>3. /\ task' = [task EXCEPT ![t] = r] /\ task[t].stage # "idle"
  BY DEF Abort
<1>4. task'[t] = r
  BY <1>1, <1>3 DEF TypeOK
<1>5. CASE task[t].stage = "queued"
  <2>1. /\ r \in TaskRecords /\ r.op = "open" /\ r.stage = "idle"
    BY <1>5, FreeTyped DEF Free
  <2>2. TaskOK(H, t)'
    BY <1>4, <2>1 DEF TaskOK
  <2> HIDE DEF r
  <2>3. opens' \in opens..MaxOpens
    BY <1>1, BindingAssumption DEF TypeOK, Abort
  <2>4. QED
    BY <1>3, <2>1, <2>2, <2>3, OneTask DEF Abort
<1>6. CASE task[t].stage # "queued"
  <2>1. /\ r \in TaskRecords /\ r.op = task[t].op /\ r.stage = task[t].stage
        /\ r.structure = task[t].structure /\ r.reached = task[t].reached
        /\ r.kind = task[t].kind /\ r.handle = task[t].handle
    BY <1>2, <1>6 DEF TaskRecords
  <2> HIDE DEF r
  <2>2. TaskOK(H, t)'
    BY <1>1, <1>3, <1>4, <2>1 DEF TaskOK, OpenTaskOK, UseTaskOK, Abort
  <2>3. opens' \in opens..MaxOpens
    BY <1>1, BindingAssumption DEF TypeOK, Abort
  <2>4. QED
    BY <1>3, <2>1, <2>2, <2>3, OneTask DEF Abort
<1>7. QED
  BY <1>5, <1>6

\* A structure is registered under the handle it drew, which nothing else has.
LEMMA RegisterKeeps ==
    ASSUME NEW D \in SUBSET Structures, NEW H \in [D -> Handles], Kept(H),
           NEW t \in Tasks, Register(t)
    PROVE  Kept(H)'
<1>1. TypeOK /\ TasksApart /\ Drawn(H) /\ RegistryOK(H)
      /\ (\A u \in Tasks : TaskOK(H, u))
      /\ (\A x \in Structures : WrapperOK(H, x))
  BY DEF Kept, Assigned
<1>2. opens \in 0..MaxOpens /\ MaxOpens \in Nat
  BY <1>1, BindingAssumption DEF TypeOK
<1>3. \A x, y \in D : H[x] = H[y] => x = y
  BY <1>1 DEF Drawn
<1>4. \A u \in Tasks : task[u].op = "open" /\ task[u].stage # "idle" =>
                          /\ task[u].structure \in 1..opens
                          /\ task[u].structure \in Structures
                          /\ wrapper[task[u].structure].state = "none"
                          /\ task[u].stage # "queued" =>
                               /\ task[u].structure \in D
                               /\ task[u].handle = H[task[u].structure]
  BY <1>1, <1>2 DEF TaskOK, OpenTaskOK, Structures
<1> DEFINE s == task[t].structure
           r == [task[t] EXCEPT !.stage = "finished", !.reached = s]
<1>5. /\ task' = [task EXCEPT ![t] = r] /\ task[t].stage = "opening"
      /\ registry' = [registry EXCEPT ![task[t].kind][task[t].handle] = s]
      /\ UNCHANGED <<next, wrapper, opens>>
  BY DEF Register
<1>6. task[t] \in TaskRecords
  BY <1>1 DEF TypeOK
<1>7. task[t].op = "open" /\ OpenTaskOK(H, t)
  BY <1>1, <1>5, <1>6 DEF TaskOK, UseTaskOK, TaskRecords
<1>8. /\ s \in D /\ s \in Structures /\ task[t].handle = H[s]
      /\ wrapper[s].state = "none" /\ s \in 1..opens
      /\ task[t].kind \in Kinds /\ task[t].handle \in Handles
  BY <1>4, <1>5, <1>6, <1>7 DEF TaskRecords
<1>9. /\ r \in TaskRecords /\ r.op = "open" /\ r.stage = "finished"
      /\ r.structure = s /\ r.reached = s
      /\ r.kind = task[t].kind /\ r.handle = task[t].handle
  BY <1>6, <1>7, <1>8 DEF TaskRecords
<1>10. \A k \in Kinds, h \in Handles :
         registry'[k][h] = IF k = task[t].kind /\ h = task[t].handle
                             THEN s ELSE registry[k][h]
  BY <1>1, <1>5, <1>8 DEF TypeOK
<1>11. \A u \in Tasks : task'[u] = IF u = t THEN r ELSE task[u]
  BY <1>1, <1>5 DEF TypeOK
<1> HIDE DEF s, r
<1>12. TypeOK'
  <2>1. registry' \in [Kinds -> [Handles -> Structures \cup {0}]]
    BY <1>1, <1>5, <1>8 DEF TypeOK
  <2>2. QED
    BY <1>1, <1>5, <1>9, <2>1 DEF TypeOK
<1>13. TasksApart'
  BY <1>1, <1>5, <1>7, <1>9, <1>11 DEF TasksApart, s
<1>14. RegistryOK(H)'
  BY <1>1, <1>8, <1>10 DEF RegistryOK
<1>15. ASSUME NEW u \in Tasks
       PROVE  TaskOK(H, u)'
  <2>1. CASE u = t
    BY <1>5, <1>8, <1>9, <1>10, <1>11, <2>1 DEF TaskOK, OpenTaskOK
  <2>2. CASE u # t
    <3>1. task'[u] = task[u] /\ task[u] \in TaskRecords
      BY <1>1, <1>11, <2>2 DEF TypeOK
    <3>2. task[u].op = "open" /\ task[u].stage # "idle"
            /\ registry[task[u].kind][task[u].handle] = task[u].structure
          => registry'[task[u].kind][task[u].handle] = task[u].structure
      <4>1. SUFFICES ASSUME task[u].op = "open", task[u].stage # "idle",
                            registry[task[u].kind][task[u].handle]
                              = task[u].structure
                     PROVE  registry'[task[u].kind][task[u].handle]
                              = task[u].structure
        OBVIOUS
      <4>2. task[u].kind \in Kinds /\ task[u].handle \in Handles
        BY <3>1 DEF TaskRecords
      <4>3. task[u].structure # 0 /\ task[u].structure # s
        BY <1>1, <1>2, <1>4, <1>5, <1>7, <2>2, <4>1 DEF TasksApart, s
      <4>4. /\ task[u].structure \in D
            /\ task[u].handle = H[task[u].structure]
        BY <1>1, <4>1, <4>2, <4>3 DEF RegistryOK
      <4>5. task[u].handle # task[t].handle
        BY <1>3, <1>8, <4>3, <4>4
      <4>6. QED
        BY <1>10, <4>1, <4>2, <4>5
    <3>3. TaskOK(H, u) /\ opens \in Nat /\ opens' \in Nat /\ opens <= opens'
      BY <1>1, <1>2, <1>5
    <3>4. QED
      BY <1>1, <1>4, <1>5, <3>1, <3>2, <3>3, TaskKept
  <2>3. QED
    BY <2>1, <2>2
<1>16. ASSUME NEW x \in Structures
       PROVE  WrapperOK(H, x)'
  <2>1. WrapperOK(H, x) /\ wrapper[x] \in Wrappers
    BY <1>1 DEF TypeOK
  <2>2. wrapper[x].kind \in Kinds /\ wrapper[x].handle \in Handles
    BY <2>1 DEF Wrappers
  <2>3. wrapper[x].state # "none" => x # s /\ H[x] # H[s]
    BY <1>3, <1>8, <2>1 DEF WrapperOK
  <2>4. QED
    BY <1>5, <1>8, <1>10, <2>1, <2>2, <2>3 DEF WrapperOK
<1>17. Drawn(H)'
  BY <1>1, <1>5 DEF Drawn
<1>18. QED
  BY <1>12, <1>13, <1>14, <1>15, <1>16, <1>17 DEF Kept, Assigned

\* A result is taken: a structure that was registered gets its object.
LEMMA DeliverKeeps ==
    ASSUME NEW D \in SUBSET Structures, NEW H \in [D -> Handles], Kept(H),
           NEW t \in Tasks, Deliver(t)
    PROVE  Kept(H)'
<1>1. TypeOK /\ TasksApart /\ Drawn(H) /\ RegistryOK(H)
      /\ (\A u \in Tasks : TaskOK(H, u))
      /\ (\A x \in Structures : WrapperOK(H, x))
  BY DEF Kept, Assigned
<1>2. opens \in 0..MaxOpens /\ MaxOpens \in Nat
  BY <1>1, BindingAssumption DEF TypeOK
<1>3. \A x, y \in D : H[x] = H[y] => x = y
  BY <1>1 DEF Drawn
<1>4. \A u \in Tasks : task[u].op = "open" /\ task[u].stage # "idle" =>
                          /\ task[u].structure \in 1..opens
                          /\ task[u].structure \in Structures
                          /\ wrapper[task[u].structure].state = "none"
                          /\ task[u].stage # "queued" =>
                               /\ task[u].structure \in D
                               /\ task[u].handle = H[task[u].structure]
  BY <1>1, <1>2 DEF TaskOK, OpenTaskOK, Structures
<1> DEFINE s == task[t].structure
           made == /\ task[t].op = "open" /\ task[t].reached # 0
                   /\ ~task[t].aborted
           w == [state |-> "open", kind |-> task[t].kind,
                 handle |-> task[t].handle]
<1>5. /\ task' = [task EXCEPT ![t] = Free] /\ task[t].stage = "finished"
      /\ wrapper' = IF made THEN [wrapper EXCEPT ![s] = w] ELSE wrapper
      /\ UNCHANGED <<next, registry, opens>>
  BY DEF Deliver
<1>6. task[t] \in TaskRecords
  BY <1>1 DEF TypeOK
<1>7. made => /\ OpenTaskOK(H, t) /\ s \in D /\ s \in Structures
              /\ task[t].handle = H[s] /\ wrapper[s].state = "none"
              /\ registry[task[t].kind][task[t].handle] = s
  BY <1>1, <1>4, <1>5 DEF TaskOK, OpenTaskOK
<1>8. /\ w \in Wrappers /\ w.state = "open" /\ w.kind = task[t].kind
      /\ w.handle = task[t].handle
  BY <1>6 DEF TaskRecords, Wrappers
<1>9. \A u \in Tasks : task'[u] = IF u = t THEN Free ELSE task[u]
  BY <1>1, <1>5 DEF TypeOK
<1>10. Free.op = "open" /\ Free.stage = "idle"
  BY DEF Free
<1> HIDE DEF w
<1>11. \A x \in Structures :
         wrapper'[x] = IF made /\ x = s THEN w ELSE wrapper[x]
  BY <1>1, <1>5 DEF TypeOK
<1>12. TypeOK'
  <2>1. wrapper' \in [Structures -> Wrappers]
    BY <1>1, <1>5, <1>8 DEF TypeOK
  <2>2. task' \in [Tasks -> TaskRecords]
    BY <1>1, <1>5, FreeTyped DEF TypeOK
  <2>3. QED
    BY <1>1, <1>5, <2>1, <2>2 DEF TypeOK
<1>13. TasksApart'
  BY <1>1, <1>9, <1>10 DEF TasksApart
<1>14. RegistryOK(H)' /\ Drawn(H)'
  BY <1>1, <1>5 DEF RegistryOK, Drawn
<1>15. ASSUME NEW u \in Tasks
       PROVE  TaskOK(H, u)'
  <2>1. CASE u = t
    BY <1>9, <1>10, <2>1 DEF TaskOK
  <2>2. CASE u # t
    <3>1. task'[u] = task[u] /\ TaskOK(H, u)
      BY <1>1, <1>9, <2>2
    <3>2. ASSUME NEW x \in Structures, task[u].structure = x
          PROVE  IF task[u].op = "open" /\ task[u].stage # "idle"
                   THEN wrapper'[x].state = "none"
                   ELSE /\ wrapper[x].state # "none" =>
                             wrapper'[x].state # "none"
                        /\ wrapper[x].state # "none" =>
                             wrapper'[x].kind = wrapper[x].kind
                        /\ wrapper[x].state # "none" =>
                             wrapper'[x].handle = wrapper[x].handle
      <4>1. CASE task[u].op = "open" /\ task[u].stage # "idle"
        <5>1. made => x # s
          BY <1>1, <1>5, <2>2, <3>2, <4>1 DEF TasksApart
        <5>2. QED
          BY <1>4, <1>11, <3>2, <4>1, <5>1
      <4>2. CASE ~(task[u].op = "open" /\ task[u].stage # "idle")
        BY <1>7, <1>11, <4>2
      <4>3. QED
        BY <4>1, <4>2
    <3>3. opens \in Nat /\ opens' \in Nat /\ opens <= opens'
      BY <1>2, <1>5
    <3>4. QED
      BY <1>1, <1>5, <3>1, <3>2, <3>3, TaskKept
  <2>3. QED
    BY <2>1, <2>2
<1>16. ASSUME NEW x \in Structures
       PROVE  WrapperOK(H, x)'
  BY <1>1, <1>5, <1>7, <1>8, <1>11 DEF WrapperOK
<1>17. QED
  BY <1>12, <1>13, <1>14, <1>15, <1>16 DEF Kept, Assigned

\* close() and the finalizer take away only the entry of their own object.
LEMMA ReleaseKeeps ==
    ASSUME NEW D \in SUBSET Structures, NEW H \in [D -> Handles], Kept(H),
           NEW s \in Structures, Close(s) \/ Finalize(s)
    PROVE  Kept(H)'
<1>1. TypeOK /\ TasksApart /\ Drawn(H) /\ RegistryOK(H)
      /\ (\A u \in Tasks : TaskOK(H, u))
      /\ (\A x \in Structures : WrapperOK(H, x))
  BY DEF Kept, Assigned
<1>2. opens \in 0..MaxOpens /\ MaxOpens \in Nat
  BY <1>1, BindingAssumption DEF TypeOK
<1>3. \A x, y \in D : H[x] = H[y] => x = y
  BY <1>1 DEF Drawn
<1>4. \A u \in Tasks : task[u].op = "open" /\ task[u].stage # "idle" =>
                          /\ task[u].structure \in 1..opens
                          /\ task[u].structure \in Structures
                          /\ wrapper[task[u].structure].state = "none"
                          /\ task[u].stage # "queued" =>
                               /\ task[u].structure \in D
                               /\ task[u].handle = H[task[u].structure]
  BY <1>1, <1>2 DEF TaskOK, OpenTaskOK, Structures
<1> DEFINE w == [wrapper[s] EXCEPT !.state = "closed"]
<1>5. /\ wrapper[s].state \in {"open", "dropped"}
      /\ wrapper' = [wrapper EXCEPT ![s] = w]
      /\ registry' = [registry EXCEPT ![wrapper[s].kind][wrapper[s].handle] = 0]
      /\ UNCHANGED <<next, task, opens>>
  BY DEF Close, Finalize, Release
<1>6. wrapper[s] \in Wrappers
  BY <1>1 DEF TypeOK
<1>7. /\ wrapper[s].kind \in Kinds /\ wrapper[s].handle \in Handles
      /\ s \in D /\ wrapper[s].handle = H[s]
  BY <1>1, <1>5, <1>6 DEF WrapperOK, Wrappers
<1>8. /\ w \in Wrappers /\ w.state = "closed"
      /\ w.kind = wrapper[s].kind /\ w.handle = wrapper[s].handle
  BY <1>6 DEF Wrappers
<1> HIDE DEF w
<1>9. \A x \in Structures : wrapper'[x] = IF x = s THEN w ELSE wrapper[x]
  BY <1>1, <1>5 DEF TypeOK
<1>10. \A k \in Kinds, h \in Handles :
         registry'[k][h] = IF k = wrapper[s].kind /\ h = wrapper[s].handle
                             THEN 0 ELSE registry[k][h]
  BY <1>1, <1>5, <1>7 DEF TypeOK
<1>11. TypeOK'
  <2>1. registry' \in [Kinds -> [Handles -> Structures \cup {0}]]
    BY <1>1, <1>5, <1>7 DEF TypeOK
  <2>2. wrapper' \in [Structures -> Wrappers]
    BY <1>1, <1>5, <1>8 DEF TypeOK
  <2>3. QED
    BY <1>1, <1>5, <2>1, <2>2 DEF TypeOK
<1>12. TasksApart' /\ Drawn(H)'
  BY <1>1, <1>5 DEF TasksApart, Drawn
<1>13. RegistryOK(H)'
  BY <1>1, <1>10 DEF RegistryOK
<1>14. ASSUME NEW u \in Tasks
       PROVE  TaskOK(H, u)'
  <2>1. /\ task'[u] = task[u] /\ TaskOK(H, u) /\ task[u] \in TaskRecords
        /\ opens \in Nat /\ opens' \in Nat /\ opens <= opens'
    BY <1>1, <1>2, <1>5 DEF TypeOK
  <2>2. task[u].op = "open" /\ task[u].stage # "idle" => task[u].structure # s
    BY <1>4, <1>5
  <2>3. task[u].op = "open" /\ task[u].stage # "idle"
          /\ registry[task[u].kind][task[u].handle] = task[u].structure
        => registry'[task[u].kind][task[u].handle] = task[u].structure
    <3>1. SUFFICES ASSUME task[u].op = "open", task[u].stage # "idle",
                          registry[task[u].kind][task[u].handle]
                            = task[u].structure
                   PROVE  registry'[task[u].kind][task[u].handle]
                            = task[u].structure
      OBVIOUS
    <3>2. task[u].kind \in Kinds /\ task[u].handle \in Handles
      BY <2>1 DEF TaskRecords
    <3>3. task[u].structure # 0
      BY <1>2, <1>4, <3>1
    <3>4. task[u].structure \in D /\ task[u].handle = H[task[u].structure]
      BY <1>1, <3>1, <3>2, <3>3 DEF RegistryOK
    <3>5. task[u].handle # wrapper[s].handle
      BY <1>3, <1>7, <2>2, <3>1, <3>4
    <3>6. QED
      BY <1>10, <3>1, <3>2, <3>5
  <2>4. ASSUME NEW x \in Structures, task[u].structure = x
        PROVE  IF task[u].op = "open" /\ task[u].stage # "idle"
                 THEN wrapper'[x].state = "none"
                 ELSE /\ wrapper[x].state # "none" =>
                           wrapper'[x].state # "none"
                      /\ wrapper[x].state # "none" =>
                           wrapper'[x].kind = wrapper[x].kind
                      /\ wrapper[x].state # "none" =>
                           wrapper'[x].handle = wrapper[x].handle
    BY <1>4, <1>8, <1>9, <2>2, <2>4
  <2>5. QED
    BY <1>1, <2>1, <2>3, <2>4, TaskKept
<1>15. ASSUME NEW x \in Structures
       PROVE  WrapperOK(H, x)'
  <2>1. WrapperOK(H, x) /\ wrapper[x] \in Wrappers
    BY <1>1 DEF TypeOK
  <2>2. /\ wrapper[x].kind \in Kinds /\ wrapper[x].handle \in Handles
        /\ x # 0
    BY <2>1, BindingAssumption DEF Wrappers, Structures
  <2>3. CASE x = s
    BY <1>7, <1>8, <1>9, <1>10, <2>2, <2>3 DEF WrapperOK
  <2>4. CASE x # s
    <3>1. wrapper[x].state # "none" => wrapper[x].handle # wrapper[s].handle
      BY <1>3, <1>7, <2>1, <2>4 DEF WrapperOK
    <3>2. wrapper'[x] = wrapper[x]
      BY <1>9, <2>4
    <3>3. QED
      BY <1>10, <2>1, <2>2, <3>1, <3>2 DEF WrapperOK
  <2>5. QED
    BY <2>3, <2>4
<1>16. QED
  BY <1>11, <1>12, <1>13, <1>14, <1>15 DEF Kept, Assigned

\* An object that becomes garbage keeps its entry until it is finalized.
LEMMA DropKeeps ==
    ASSUME NEW D \in SUBSET Structures, NEW H \in [D -> Handles], Kept(H),
           NEW s \in Structures, Drop(s)
    PROVE  Kept(H)'
<1>1. TypeOK /\ TasksApart /\ Drawn(H) /\ RegistryOK(H)
      /\ (\A u \in Tasks : TaskOK(H, u))
      /\ (\A x \in Structures : WrapperOK(H, x))
  BY DEF Kept, Assigned
<1>2. opens \in 0..MaxOpens /\ MaxOpens \in Nat
  BY <1>1, BindingAssumption DEF TypeOK
<1>3. \A x, y \in D : H[x] = H[y] => x = y
  BY <1>1 DEF Drawn
<1>4. \A u \in Tasks : task[u].op = "open" /\ task[u].stage # "idle" =>
                          /\ task[u].structure \in 1..opens
                          /\ task[u].structure \in Structures
                          /\ wrapper[task[u].structure].state = "none"
                          /\ task[u].stage # "queued" =>
                               /\ task[u].structure \in D
                               /\ task[u].handle = H[task[u].structure]
  BY <1>1, <1>2 DEF TaskOK, OpenTaskOK, Structures
<1> DEFINE w == [wrapper[s] EXCEPT !.state = "dropped"]
<1>5. /\ wrapper[s].state = "open" /\ wrapper' = [wrapper EXCEPT ![s] = w]
      /\ UNCHANGED <<next, registry, task, opens>>
  BY DEF Drop
<1>6. wrapper[s] \in Wrappers
  BY <1>1 DEF TypeOK
<1>7. /\ w \in Wrappers /\ w.state = "dropped"
      /\ w.kind = wrapper[s].kind /\ w.handle = wrapper[s].handle
  BY <1>6 DEF Wrappers
<1> HIDE DEF w
<1>8. \A x \in Structures : wrapper'[x] = IF x = s THEN w ELSE wrapper[x]
  BY <1>1, <1>5 DEF TypeOK
<1>9. TypeOK'
  BY <1>1, <1>5, <1>7 DEF TypeOK
<1>10. TasksApart' /\ Drawn(H)' /\ RegistryOK(H)'
  BY <1>1, <1>5 DEF TasksApart, Drawn, RegistryOK
<1>11. ASSUME NEW u \in Tasks
       PROVE  TaskOK(H, u)'
  <2>1. /\ task'[u] = task[u] /\ TaskOK(H, u) /\ registry' = registry
        /\ opens \in Nat /\ opens' \in Nat /\ opens <= opens'
    BY <1>1, <1>2, <1>5
  <2>2. ASSUME NEW x \in Structures, task[u].structure = x
        PROVE  IF task[u].op = "open" /\ task[u].stage # "idle"
                 THEN wrapper'[x].state = "none"
                 ELSE /\ wrapper[x].state # "none" =>
                           wrapper'[x].state # "none"
                      /\ wrapper[x].state # "none" =>
                           wrapper'[x].kind = wrapper[x].kind
                      /\ wrapper[x].state # "none" =>
                           wrapper'[x].handle = wrapper[x].handle
    BY <1>4, <1>5, <1>7, <1>8, <2>2
  <2>3. QED
    BY <1>1, <2>1, <2>2, TaskKept
<1>12. ASSUME NEW x \in Structures
       PROVE  WrapperOK(H, x)'
  BY <1>1, <1>5, <1>7, <1>8 DEF WrapperOK
<1>13. QED
  BY <1>9, <1>10, <1>11, <1>12 DEF Kept, Assigned

----------------------------------------------------------------------------
(* Drawing a handle extends the assignment *)

\* While no more than HandleCount structures are opened, the handle that a
\* call draws is nobody else's.
LEMMA BeginOpenExtends ==
    ASSUME MaxOpens <= HandleCount,
           NEW D \in SUBSET Structures, NEW H \in [D -> Handles], Kept(H),
           NEW t \in Tasks, BeginOpen(t)
    PROVE  \E E \in SUBSET Structures : \E G \in [E -> Handles] : Kept(G)'
<1>1. TypeOK /\ TasksApart /\ Drawn(H) /\ RegistryOK(H)
      /\ (\A u \in Tasks : TaskOK(H, u))
      /\ (\A x \in Structures : WrapperOK(H, x))
  BY DEF Kept, Assigned
<1>2. opens \in 0..MaxOpens /\ MaxOpens \in Nat
  BY <1>1, BindingAssumption DEF TypeOK
<1>3. \A x, y \in D : H[x] = H[y] => x = y
  BY <1>1 DEF Drawn
<1>4. \A u \in Tasks : task[u].op = "open" /\ task[u].stage # "idle" =>
                          /\ task[u].structure \in 1..opens
                          /\ task[u].structure \in Structures
                          /\ wrapper[task[u].structure].state = "none"
                          /\ task[u].stage # "queued" =>
                               /\ task[u].structure \in D
                               /\ task[u].handle = H[task[u].structure]
  BY <1>1, <1>2 DEF TaskOK, OpenTaskOK, Structures
<1> DEFINE s == task[t].structure
           n == Cardinality(D)
           r == [task[t] EXCEPT !.stage = "opening", !.handle = next]
<1>5. /\ task[t].stage = "queued" /\ task[t].op = "open"
      /\ task' = [task EXCEPT ![t] = r] /\ next' = Increment
      /\ UNCHANGED <<registry, wrapper, opens>>
  BY DEF BeginOpen
<1>6. task[t] \in TaskRecords /\ next \in Handles
  BY <1>1 DEF TypeOK
<1>7. /\ s \in Structures /\ s \in 1..opens /\ s \notin D
      /\ wrapper[s].state = "none" /\ task[t].reached = 0
  BY <1>1, <1>4, <1>5 DEF TaskOK, OpenTaskOK
<1>8. /\ r \in TaskRecords /\ r.op = "open" /\ r.stage = "opening"
      /\ r.structure = s /\ r.reached = 0 /\ r.handle = next
      /\ r.kind = task[t].kind
  BY <1>5, <1>6, <1>7 DEF TaskRecords
<1>9. \A u \in Tasks : task'[u] = IF u = t THEN r ELSE task[u]
  BY <1>1, <1>5 DEF TypeOK
<1> HIDE DEF r
<1>10. DOMAIN H = D /\ D \subseteq 1..opens
  BY <1>1 DEF Drawn
<1>11. PICK E \in SUBSET Structures : E = D \cup {s}
  BY <1>7
<1>12. PICK G \in [E -> Handles] :
         G = [x \in E |-> IF x = s THEN next ELSE H[x]]
  BY <1>6, <1>11
<1>13. n \in Nat /\ n < HandleCount /\ Cardinality(E) = n + 1
  <2>1. IsFiniteSet(1..opens) /\ Cardinality(1..opens) = opens
    BY <1>2, FS_Interval
  <2>2. IsFiniteSet(D)
    BY <1>10, <2>1, FS_Subset
  <2>3. Cardinality(E) = n + 1 /\ n \in Nat
    BY <1>7, <1>11, <2>2, FS_AddElement, FS_CardinalityType
  <2>4. E \subseteq 1..opens
    BY <1>7, <1>10, <1>11
  <2>5. Cardinality(E) <= opens
    BY <2>1, <2>4, FS_Subset
  <2>6. QED
    BY <1>2, <2>3, <2>5, BindingAssumption
<1>14. next = HandleOf(n)
  BY <1>1, <1>10, <1>13 DEF Drawn
<1>15. Increment \in Handles /\ (n + 1 < HandleCount => Increment = HandleOf(n + 1))
  BY <1>13, <1>14, CounterSteps
<1>16. DOMAIN G = E
  OBVIOUS
<1>17. \A x \in D : x # s /\ G[x] = H[x]
  BY <1>7, <1>11, <1>12
<1>18. s \in E /\ G[s] = next
  BY <1>11, <1>12
<1>19. \A x \in D : \E i \in 0..(n - 1) : H[x] = HandleOf(i)
  BY <1>1, <1>10 DEF Drawn
<1>20. \A x \in D : H[x] # next
  BY <1>13, <1>14, <1>19, HandlesDiffer, BindingAssumption
<1>21. Drawn(G)'
  <2>1. E \subseteq 1..opens'
    BY <1>5, <1>7, <1>10, <1>11
  <2>2. \A x \in E : \E i \in 0..((n + 1) - 1) : G[x] = HandleOf(i)
    BY <1>13, <1>14, <1>17, <1>18, <1>19, <1>11
  <2>3. \A x, y \in E : G[x] = G[y] => x = y
    BY <1>3, <1>17, <1>18, <1>20, <1>11
  <2>4. n + 1 < HandleCount => next' = HandleOf(n + 1)
    BY <1>5, <1>15
  <2>5. QED
    BY <1>13, <1>16, <2>1, <2>2, <2>3, <2>4 DEF Drawn, HandleOf
<1>22. TypeOK'
  BY <1>1, <1>5, <1>8, <1>15 DEF TypeOK
<1>23. TasksApart'
  BY <1>1, <1>5, <1>8, <1>9 DEF TasksApart
<1>24. RegistryOK(G)'
  BY <1>1, <1>5, <1>10, <1>16, <1>17, <1>11 DEF RegistryOK
<1>25. ASSUME NEW u \in Tasks
       PROVE  TaskOK(G, u)'
  <2>1. CASE u = t
    <3>1. task'[u] = r
      BY <1>9, <2>1
    <3>2. OpenTaskOK(G, u)'
      BY <1>5, <1>7, <1>8, <1>16, <1>18, <3>1 DEF OpenTaskOK
    <3>3. QED
      BY <1>8, <3>1, <3>2 DEF TaskOK
  <2>2. CASE u # t
    <3>1. task'[u] = task[u] /\ TaskOK(H, u)
      BY <1>1, <1>9, <2>2
    <3>2. CASE task[u].op = "open" /\ task[u].stage # "idle"
      <4>1. task[u].structure # s
        BY <1>1, <1>5, <2>2, <3>2 DEF TasksApart
      <4>2. task[u].structure \in E <=> task[u].structure \in D
        BY <1>11, <4>1
      <4>3. OpenTaskOK(H, u)
        BY <3>1, <3>2 DEF TaskOK
      <4>4. OpenTaskOK(G, u)'
        BY <1>5, <1>10, <1>16, <1>17, <1>11, <3>1, <4>2, <4>3 DEF OpenTaskOK
      <4>5. QED
        BY <3>1, <3>2, <4>4 DEF TaskOK
    <3>3. CASE ~(task[u].op = "open" /\ task[u].stage # "idle")
      BY <1>5, <3>1, <3>3 DEF TaskOK, UseTaskOK
    <3>4. QED
      BY <3>2, <3>3
  <2>3. QED
    BY <2>1, <2>2
<1>26. ASSUME NEW x \in Structures
       PROVE  WrapperOK(G, x)'
  <2>1. WrapperOK(H, x)
    BY <1>1
  <2>2. QED
    BY <1>5, <1>10, <1>16, <1>17, <1>11, <2>1 DEF WrapperOK
<1>27. Kept(G)'
  BY <1>21, <1>22, <1>23, <1>24, <1>25, <1>26 DEF Kept, Assigned
<1>28. QED
  BY <1>27

----------------------------------------------------------------------------
(* The theorems *)

LEMMA TypeStep ==
    ASSUME TypeOK, [Next]_vars
    PROVE  TypeOK'
<1>1. \A t \in Tasks : task[t] \in TaskRecords
  BY DEF TypeOK
<1>2. \A s \in Structures : wrapper[s] \in Wrappers
  BY DEF TypeOK
<1>3. opens \in 0..MaxOpens /\ MaxOpens \in Nat /\ 0 \in Handles
  BY BindingAssumption DEF TypeOK, Handles
<1>4. ASSUME NEW t \in Tasks, CallOpen(t) PROVE TypeOK'
  <2>1. PICK k \in Kinds : Enqueue(t, "open", k, opens + 1, 0)
    BY <1>4 DEF CallOpen
  <2>2. opens + 1 \in Structures /\ opens' \in 0..MaxOpens
    BY <1>3, <1>4 DEF CallOpen, Structures
  <2>3. task' \in [Tasks -> TaskRecords]
    BY <1>3, <2>1, <2>2, FreeTyped DEF TypeOK, Enqueue, TaskRecords
  <2>4. QED
    BY <1>4, <2>2, <2>3 DEF TypeOK, CallOpen
<1>5. ASSUME NEW t \in Tasks, NEW s \in Structures, CallUse(t, s) PROVE TypeOK'
  <2>1. wrapper[s].kind \in Kinds /\ wrapper[s].handle \in Handles
    BY <1>2 DEF Wrappers
  <2>2. task' \in [Tasks -> TaskRecords]
    BY <1>5, <2>1, FreeTyped DEF TypeOK, CallUse, Enqueue, TaskRecords
  <2>3. QED
    BY <1>5, <2>2 DEF TypeOK, CallUse
<1>6. ASSUME NEW t \in Tasks, BeginOpen(t) PROVE TypeOK'
  <2>1. task' \in [Tasks -> TaskRecords]
    BY <1>1, <1>6 DEF TypeOK, BeginOpen, TaskRecords
  <2>2. QED
    BY <1>6, <2>1, CounterTyped DEF TypeOK, BeginOpen
<1>7. ASSUME NEW t \in Tasks, BeginUse(t) PROVE TypeOK'
  <2>1. task[t].kind \in Kinds /\ task[t].handle \in Handles
    BY <1>1 DEF TaskRecords
  <2>2. registry[task[t].kind][task[t].handle] \in Structures \cup {0}
    BY <2>1 DEF TypeOK
  <2>3. task' \in [Tasks -> TaskRecords]
    BY <1>1, <1>7, <2>2 DEF TypeOK, BeginUse, TaskRecords
  <2>4. QED
    BY <1>7, <2>3 DEF TypeOK, BeginUse
<1>8. ASSUME NEW t \in Tasks, Register(t) PROVE TypeOK'
  <2>1. /\ task[t].kind \in Kinds /\ task[t].handle \in Handles
        /\ task[t].structure \in Structures \cup {0}
    BY <1>1 DEF TaskRecords
  <2>2. registry' \in [Kinds -> [Handles -> Structures \cup {0}]]
    BY <1>8, <2>1 DEF TypeOK, Register
  <2>3. [task[t] EXCEPT !.stage = "finished", !.reached = task[t].structure]
          \in TaskRecords
    BY <1>1, <2>1 DEF TaskRecords
  <2>4. task' \in [Tasks -> TaskRecords]
    BY <1>8, <2>3 DEF TypeOK, Register
  <2>5. QED
    BY <1>8, <2>2, <2>4 DEF TypeOK, Register
<1>9. ASSUME NEW t \in Tasks, OpenFails(t) \/ FinishUse(t) PROVE TypeOK'
  <2>1. [task[t] EXCEPT !.stage = "finished"] \in TaskRecords
    BY <1>1 DEF TaskRecords
  <2>2. task' \in [Tasks -> TaskRecords]
    BY <1>9, <2>1 DEF TypeOK, OpenFails, FinishUse
  <2>3. QED
    BY <1>9, <2>2 DEF TypeOK, OpenFails, FinishUse
<1>10. ASSUME NEW t \in Tasks, Deliver(t) PROVE TypeOK'
  <2>1. task[t].kind \in Kinds /\ task[t].handle \in Handles
    BY <1>1 DEF TaskRecords
  <2>2. wrapper' \in [Structures -> Wrappers]
    BY <1>10, <2>1 DEF TypeOK, Deliver, Wrappers
  <2>3. task' \in [Tasks -> TaskRecords]
    BY <1>10, FreeTyped DEF TypeOK, Deliver
  <2>4. QED
    BY <1>10, <2>2, <2>3 DEF TypeOK, Deliver
<1>11. ASSUME NEW t \in Tasks, Abort(t) PROVE TypeOK'
  <2>1. [task[t] EXCEPT !.aborted = TRUE] \in TaskRecords
    BY <1>1 DEF TaskRecords
  <2>2. task' \in [Tasks -> TaskRecords]
    BY <1>11, <2>1, FreeTyped DEF TypeOK, Abort
  <2>3. QED
    BY <1>11, <2>2 DEF TypeOK, Abort
<1>12. ASSUME NEW s \in Structures, Close(s) \/ Finalize(s) PROVE TypeOK'
  <2>1. wrapper[s].kind \in Kinds /\ wrapper[s].handle \in Handles
    BY <1>2 DEF Wrappers
  <2>2. registry' \in [Kinds -> [Handles -> Structures \cup {0}]]
    BY <1>12, <2>1 DEF TypeOK, Close, Finalize, Release
  <2>3. wrapper' \in [Structures -> Wrappers]
    BY <1>2, <1>12 DEF TypeOK, Close, Finalize, Wrappers
  <2>4. QED
    BY <1>12, <2>2, <2>3 DEF TypeOK, Close, Finalize
<1>13. ASSUME NEW s \in Structures, Drop(s) PROVE TypeOK'
  <2>1. wrapper' \in [Structures -> Wrappers]
    BY <1>2, <1>13 DEF TypeOK, Drop, Wrappers
  <2>2. QED
    BY <1>13, <2>1 DEF TypeOK, Drop
<1>14. CASE UNCHANGED vars
  BY <1>14 DEF vars, TypeOK
<1>15. CASE Next
  BY <1>4, <1>5, <1>6, <1>7, <1>8, <1>9, <1>10, <1>11, <1>12, <1>13, <1>15
     DEF Next, Begin, Finish
<1>16. QED
  BY <1>14, <1>15

LEMMA BindingStep ==
    ASSUME MaxOpens <= HandleCount, BindingInv, [Next]_vars
    PROVE  BindingInv'
<1>1. PICK D \in SUBSET Structures : \E H \in [D -> Handles] : Assigned(H)
  BY DEF BindingInv
<1>2. PICK H \in [D -> Handles] : Assigned(H)
  BY <1>1
<1>3. Kept(H)
  BY <1>2 DEF BindingInv, Kept
<1>4. ASSUME NEW E \in SUBSET Structures, NEW G \in [E -> Handles], Kept(G)'
      PROVE  BindingInv'
  BY <1>4 DEF BindingInv, Kept
<1>5. ASSUME UNCHANGED vars PROVE Kept(H)'
  BY <1>3, <1>5 DEF vars, Kept, Assigned, TypeOK, TasksApart, Drawn, RegistryOK,
     TaskOK, OpenTaskOK, UseTaskOK, WrapperOK
<1>6. ASSUME NEW t \in Tasks, CallOpen(t) PROVE Kept(H)'
  BY <1>3, <1>6, CallOpenKeeps
<1>7. ASSUME NEW t \in Tasks, NEW s \in Structures, CallUse(t, s) PROVE Kept(H)'
  BY <1>3, <1>7, CallUseKeeps
<1>8. ASSUME NEW t \in Tasks, BeginOpen(t)
      PROVE  BindingInv'
  BY <1>3, <1>4, <1>8, BeginOpenExtends
<1>9. ASSUME NEW t \in Tasks, BeginUse(t) PROVE Kept(H)'
  BY <1>3, <1>9, BeginUseKeeps
<1>10. ASSUME NEW t \in Tasks, Register(t) PROVE Kept(H)'
  BY <1>3, <1>10, RegisterKeeps
<1>11. ASSUME NEW t \in Tasks, OpenFails(t) \/ FinishUse(t) PROVE Kept(H)'
  BY <1>3, <1>11, FinishKeeps
<1>12. ASSUME NEW t \in Tasks, Deliver(t) PROVE Kept(H)'
  BY <1>3, <1>12, DeliverKeeps
<1>13. ASSUME NEW t \in Tasks, Abort(t) PROVE Kept(H)'
  BY <1>3, <1>13, AbortKeeps
<1>14. ASSUME NEW s \in Structures, Close(s) \/ Finalize(s) PROVE Kept(H)'
  BY <1>3, <1>14, ReleaseKeeps
<1>15. ASSUME NEW s \in Structures, Drop(s) PROVE Kept(H)'
  BY <1>3, <1>15, DropKeeps
<1>16. CASE Next
  BY <1>4, <1>6, <1>7, <1>8, <1>9, <1>10, <1>11, <1>12, <1>13, <1>14, <1>15, <1>16
     DEF Next, Begin, Finish
<1>17. QED
  BY <1>4, <1>5, <1>16

\* There is always an assignment of distinct handles that the counter, the
\* registry, the calls and the objects agree with, if no more structures are
\* opened than next_handle has values.
THEOREM BindingInvariance ==
    ASSUME MaxOpens <= HandleCount
    PROVE  Spec => []BindingInv
BY BindingInit, BindingStep, PTL DEF Spec

\* The counter, the registry, the calls and the objects keep their types
\* however often the counter wraps around.
THEOREM BindingTyped == Spec => []TypeOK
<1>1. Init => TypeOK
  BY BindingInit DEF BindingInv
<1>2. TypeOK /\ [Next]_vars => TypeOK'
  BY TypeStep
<1>3. QED
  BY <1>1, <1>2, PTL DEF Spec

\* An object that is not released finds its own structure under its handle and
\* a released one does not, whatever was opened, aborted, closed or finalized.
THEOREM ObjectsResolve ==
    ASSUME MaxOpens <= HandleCount
    PROVE  Spec => []HandlesResolve
<1>1. BindingInv => HandlesResolve
  BY DEF BindingInv, Assigned, WrapperOK, HandlesResolve
<1>2. QED
  BY <1>1, BindingInvariance, PTL

\* A call that waited in the pool runs on the structure of the object it was
\* made on, or not at all.
THEOREM CallsReachOwn ==
    ASSUME MaxOpens <= HandleCount
    PROVE  Spec => []ReachesOwn
<1>1. BindingInv => ReachesOwn
  BY DEF BindingInv, Assigned, TaskOK, UseTaskOK, ReachesOwn
<1>2. QED
  BY <1>1, BindingInvariance, PTL
=============================================================================

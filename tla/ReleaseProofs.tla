--------------------------- MODULE ReleaseProofs ---------------------------
(***************************************************************************)
(* Tags are complete, crates are published in order and a resolved version *)
(* leaves nothing but the last crate behind, for any number of overlapping *)
(* runs, faults and re-runs. The inductive invariant ReleaseInv is about   *)
(* one run at a time: all crates before the one it is at are on crates.io  *)
(* in its version, which no longer changes once its publishing jobs have   *)
(* started. Registries only grow, so no run can disturb another.           *)
(*                                                                         *)
(* What a run read from a registry while it resolved its version may be    *)
(* old when it is used, but was there: ResolveInv keeps that, with the     *)
(* types and with the fact that crates.io took the crate objsds only after *)
(* its dependencies.                                                       *)
(***************************************************************************)
EXTENDS Release, TLAPS

\* The part of the types that the argument needs: versions may be anything.
Shape ==
    /\ stage \in [Runs -> {"new", "crate", "resolve", "validate", "package",
                           "publish", "done"}]
    /\ version = [r \in Runs |-> version[r]]
    /\ crates \in [Runs -> {"waiting", "status", "upload", "ok", "failed"}]
    /\ next \in [Runs -> 1..7]
    /\ package \in [Runs -> {"waiting", "view", "upload", "ok", "failed"}]

RunOK(r) ==
    /\ stage[r] \notin {"publish", "done"} =>
         crates[r] = "waiting" /\ package[r] = "waiting"
    /\ crates[r] = "waiting" => next[r] = 1
    /\ crates[r] \in {"status", "upload"} => next[r] \in 1..6
    /\ crates[r] = "ok" => next[r] = 7
    /\ crates[r] # "failed" =>
         \A i \in 1..6 : i < next[r] => <<version[r], CRATES[i]>> \in uploaded
    /\ package[r] = "ok" => version[r] \in npm
    /\ stage[r] = "done" => r \notin halted

ReleaseInv ==
    /\ Shape
    /\ \A r \in Runs : RunOK(r)
    /\ TagComplete

\* The list of crates.
LEMMA CratesListed ==
    /\ Len(CRATES) = 6 /\ DOMAIN CRATES = 1..6
    /\ Names = {"store", "filesystem", "memory", "s3", "objsds", "queue"}
    /\ \A c \in Names : \E i \in 1..6 : c = CRATES[i]
    /\ \A i \in 1..6 : CRATES[i] \in Names
<1>1. Len(CRATES) = 6 /\ DOMAIN CRATES = 1..6
  BY DEF CRATES
<1>2. /\ CRATES[1] = "store" /\ CRATES[2] = "filesystem"
      /\ CRATES[3] = "memory" /\ CRATES[4] = "s3"
      /\ CRATES[5] = "objsds" /\ CRATES[6] = "queue"
  BY DEF CRATES
<1>3. Names = {"store", "filesystem", "memory", "s3", "objsds", "queue"}
  <2>1. \A i \in 1..6 : \/ i = 1 \/ i = 2 \/ i = 3 \/ i = 4 \/ i = 5 \/ i = 6
    OBVIOUS
  <2>2. 1 \in 1..6 /\ 2 \in 1..6 /\ 3 \in 1..6 /\ 4 \in 1..6 /\ 5 \in 1..6
        /\ 6 \in 1..6
    OBVIOUS
  <2> QED
    BY <1>1, <1>2, <2>1, <2>2 DEF Names
<1>4. \A c \in Names : \E i \in 1..6 : c = CRATES[i]
  BY <1>1 DEF Names
<1>5. \A i \in 1..6 : CRATES[i] \in Names
  BY <1>1 DEF Names
<1> QED
  BY <1>1, <1>3, <1>4, <1>5

\* CRATES is a topological order: dependencies come first.
LEMMA DependenciesFirst ==
    ASSUME NEW i \in 1..6, NEW d \in Dependencies[CRATES[i]]
    PROVE  \E j \in 1..6 : j < i /\ d = CRATES[j]
<1>1. /\ CRATES[1] = "store" /\ CRATES[2] = "filesystem"
      /\ CRATES[3] = "memory" /\ CRATES[4] = "s3"
      /\ CRATES[5] = "objsds" /\ CRATES[6] = "queue"
  BY DEF CRATES
<1>2. \/ i = 1 \/ i = 2 \/ i = 3 \/ i = 4 \/ i = 5 \/ i = 6
  OBVIOUS
<1>3. CASE i = 1
  BY <1>1, <1>3 DEF Dependencies
<1>4. CASE i \in {2, 3, 4}
  <2>1. d = "store"
    BY <1>1, <1>4 DEF Dependencies
  <2> QED
    BY <1>1, <1>4, <2>1
<1>5. CASE i = 5
  <2>1. d \in {"store", "s3", "filesystem", "memory"}
    BY <1>1, <1>5 DEF Dependencies
  <2> QED
    BY <1>1, <1>5, <2>1
<1>6. CASE i = 6
  <2>1. d \in {"store", "memory"}
    BY <1>1, <1>6 DEF Dependencies
  <2> QED
    BY <1>1, <1>6, <2>1
<1> QED
  BY <1>2, <1>3, <1>4, <1>5, <1>6

\* A run that only adds to the registries disturbs no other run.
LEMMA OthersKeep ==
    ASSUME ReleaseInv, NEW r \in Runs,
           \A q \in Runs \ {r} :
             /\ stage'[q] = stage[q] /\ version'[q] = version[q]
             /\ crates'[q] = crates[q] /\ next'[q] = next[q]
             /\ package'[q] = package[q],
           uploaded \subseteq uploaded', npm \subseteq npm',
           halted' \subseteq halted \cup {r}, Shape', RunOK(r)',
           \/ tags' = tags
           \/ /\ tags' = tags \cup {version[r]}
              /\ \A c \in Names : <<version[r], c>> \in uploaded
              /\ version[r] \in npm
    PROVE  ReleaseInv'
<1>1. \A q \in Runs : RunOK(q)'
  BY DEF ReleaseInv, RunOK
<1>2. TagComplete'
  BY DEF ReleaseInv, TagComplete, Published
<1> QED
  BY <1>1, <1>2 DEF ReleaseInv

\* What a run that has published all crates and the package may promise.
LEMMA SucceededComplete ==
    ASSUME ReleaseInv, NEW r \in Runs, Succeeded(r)
    PROVE  /\ \A c \in Names : <<version[r], c>> \in uploaded
           /\ version[r] \in npm
<1>1. RunOK(r)
  BY DEF ReleaseInv
<1>2. \A i \in 1..6 : <<version[r], CRATES[i]>> \in uploaded
  BY <1>1 DEF RunOK, Succeeded
<1>3. version[r] \in npm
  BY <1>1 DEF RunOK, Succeeded
<1> QED
  BY <1>2, <1>3, CratesListed

\* The loop goes on with the next crate once this one is on crates.io.
LEMMA AdvanceKeeps ==
    ASSUME ReleaseInv, NEW r \in Runs, Advance(r),
           crates[r] \in {"status", "upload"}, stage[r] = "publish",
           <<version[r], Crate(r)>> \in uploaded',
           uploaded \subseteq uploaded',
           UNCHANGED <<npm, tags, stage, halted, version, package>>
    PROVE  ReleaseInv'
<1> USE CratesListed
<1>1. Shape /\ RunOK(r)
  BY DEF ReleaseInv
<1>2. next[r] \in 1..6
  BY <1>1 DEF RunOK
<1>3. /\ next' = [next EXCEPT ![r] = next[r] + 1]
      /\ crates' = [crates EXCEPT ![r] = IF next[r] = 6 THEN "ok"
                                         ELSE "status"]
  BY DEF Advance
<1>4. Shape'
  <2>1. /\ next' \in [Runs -> 1..7]
        /\ crates' \in [Runs -> {"waiting", "status", "upload", "ok",
                                 "failed"}]
    BY <1>1, <1>2, <1>3 DEF Shape
  <2> QED
    BY <1>1, <2>1 DEF Shape
<1>5. /\ next'[r] = next[r] + 1
      /\ crates'[r] = IF next[r] = 6 THEN "ok" ELSE "status"
      /\ \A q \in Runs \ {r} : crates'[q] = crates[q] /\ next'[q] = next[q]
  BY <1>1, <1>3 DEF Shape
<1>6. RunOK(r)'
  <2>1. ASSUME NEW i \in 1..6, i < next[r] + 1
        PROVE  <<version[r], CRATES[i]>> \in uploaded'
    BY <1>1, <1>2, <2>1 DEF RunOK, Crate
  <2> QED
    BY <1>1, <1>2, <1>5, <2>1 DEF RunOK
<1> QED
  BY <1>4, <1>5, <1>6, OthersKeep

\* Another attempt, or none.
LEMMA AgainKeeps ==
    ASSUME ReleaseInv, NEW r \in Runs, Again(r),
           crates[r] \in {"status", "upload"}, stage[r] = "publish",
           uploaded \subseteq uploaded',
           UNCHANGED <<npm, tags, stage, halted, version, package>>
    PROVE  ReleaseInv'
<1> USE CratesListed
<1>1. Shape /\ RunOK(r)
  BY DEF ReleaseInv
<1>2. next[r] \in 1..6
  BY <1>1 DEF RunOK
<1>4. Shape'
  <2>1. crates' \in [Runs -> {"waiting", "status", "upload", "ok", "failed"}]
    BY <1>1 DEF Shape, Again
  <2> QED
    BY <1>1, <2>1 DEF Shape, Again
<1>5. /\ crates'[r] \in {"status", "failed"} /\ next' = next
      /\ \A q \in Runs \ {r} : crates'[q] = crates[q]
  BY <1>1 DEF Shape, Again
<1>6. RunOK(r)'
  BY <1>1, <1>2, <1>5 DEF RunOK
<1> QED
  BY <1>4, <1>5, <1>6, OthersKeep

\* Until its publishing jobs start, a run touches no registry.
LEMMA BeforePublishing ==
    ASSUME ReleaseInv, NEW r \in Runs,
           \/ \E o \in Overrides \cup {0} : Dispatch(r, o)
           \/ ReadCrate(r) \/ Resolve(r) \/ Validate(r)
    PROVE  ReleaseInv'
<1>1. Shape /\ RunOK(r)
  BY DEF ReleaseInv
<1>2. /\ stage[r] \notin {"publish", "done"}
      /\ \E l \in {"new", "crate", "resolve", "validate", "package"} :
           stage' = [stage EXCEPT ![r] = l]
  <2>1. CASE \E o \in Overrides \cup {0} : Dispatch(r, o)
    BY <2>1, <1>1 DEF Shape, Dispatch, Goto
  <2>2. CASE ReadCrate(r)
    BY <2>2, <1>1 DEF Shape, ReadCrate, Goto
  <2>3. CASE Resolve(r)
    <3>1. stage[r] = "resolve" /\ stage = [stage EXCEPT ![r] = "resolve"]
      BY <2>3, <1>1 DEF Shape, Resolve
    <3>2. stage' = stage \/ stage' = [stage EXCEPT ![r] = "validate"]
      BY <2>3 DEF Resolve, Goto
    <3> QED
      BY <3>1, <3>2
  <2>4. CASE Validate(r)
    <3>1. stage[r] = "validate" /\ stage = [stage EXCEPT ![r] = "validate"]
      BY <2>4, <1>1 DEF Shape, Validate
    <3>2. stage' = stage \/ stage' = [stage EXCEPT ![r] = "package"]
      BY <2>4 DEF Validate, Goto
    <3> QED
      BY <3>1, <3>2
  <2> QED
    BY <2>1, <2>2, <2>3, <2>4
<1>3. /\ UNCHANGED <<uploaded, npm, tags, crates, next, package>>
      /\ halted' \subseteq halted \cup {r}
  BY DEF Dispatch, ReadCrate, Resolve, Validate, Halt, registries, jobs
<1>4. \/ version' = version
      \/ \E v : version' = [version EXCEPT ![r] = v]
  BY DEF Dispatch, ReadCrate, Resolve, Validate
<1>5. Shape' /\ \A q \in Runs \ {r} : /\ stage'[q] = stage[q]
                                      /\ version'[q] = version[q]
  <2>1. version' = [q \in Runs |-> version'[q]]
    BY <1>1, <1>4 DEF Shape
  <2>2. \A q \in Runs \ {r} : version'[q] = version[q]
    BY <1>1, <1>4 DEF Shape
  <2>3. /\ stage' \in [Runs -> {"new", "crate", "resolve", "validate",
                                "package", "publish", "done"}]
        /\ \A q \in Runs \ {r} : stage'[q] = stage[q]
    BY <1>1, <1>2 DEF Shape
  <2>4. /\ crates' \in [Runs -> {"waiting", "status", "upload", "ok", "failed"}]
        /\ next' \in [Runs -> 1..7]
        /\ package' \in [Runs -> {"waiting", "view", "upload", "ok", "failed"}]
    BY <1>1, <1>3 DEF Shape
  <2>5. Shape'
    BY <2>1, <2>3, <2>4, Zenon DEF Shape
  <2> QED
    BY <2>2, <2>3, <2>5
<1>6. RunOK(r)'
  <2>1. crates[r] = "waiting" /\ package[r] = "waiting" /\ next[r] = 1
    BY <1>1, <1>2 DEF RunOK
  <2>2. /\ crates'[r] = "waiting" /\ package'[r] = "waiting"
        /\ next'[r] = 1 /\ stage'[r] # "done"
    BY <1>1, <1>2, <1>3, <2>1 DEF Shape
  <2>3. \A i \in 1..6 : i < next'[r] => <<version'[r], CRATES[i]>> \in uploaded'
    BY <2>2
  <2>4. 1 \in 1..6
    OBVIOUS
  <2> QED
    BY <2>2, <2>3, <2>4 DEF RunOK
<1> QED
  BY <1>3, <1>5, <1>6, OthersKeep

\* The publishing jobs start with the first crate.
LEMMA PackageKeeps ==
    ASSUME ReleaseInv, NEW r \in Runs, Package(r)
    PROVE  ReleaseInv'
<1>1. Shape /\ RunOK(r)
  BY DEF ReleaseInv
<1>2. /\ stage[r] = "package" /\ next[r] = 1
      /\ UNCHANGED <<uploaded, npm, tags, halted, next, version>>
  BY <1>1 DEF Package, RunOK, registries
<1>3. /\ Shape' /\ stage'[r] = "publish" /\ crates'[r] = "status"
      /\ package'[r] = "view"
      /\ \A q \in Runs \ {r} : /\ stage'[q] = stage[q]
                               /\ crates'[q] = crates[q]
                               /\ package'[q] = package[q]
  BY <1>1, <1>2 DEF Package, Shape, Goto
<1>4. RunOK(r)'
  BY <1>2, <1>3 DEF RunOK
<1> QED
  BY <1>2, <1>3, <1>4, OthersKeep

\* A job that fails, or leaves the loop to call cargo publish.
LEMMA CrateLabelKeeps ==
    ASSUME ReleaseInv, NEW r \in Runs, NEW label \in {"failed", "upload"},
           crates[r] = "status", stage[r] = "publish",
           crates' = [crates EXCEPT ![r] = label],
           UNCHANGED <<uploaded, npm, tags, stage, halted, version, next,
                       package>>
    PROVE  ReleaseInv'
<1>1. Shape /\ RunOK(r)
  BY DEF ReleaseInv
<1>2. /\ Shape' /\ crates'[r] = label
      /\ \A q \in Runs \ {r} : crates'[q] = crates[q]
  BY <1>1 DEF Shape
<1>3. RunOK(r)'
  BY <1>1, <1>2 DEF RunOK
<1> QED
  BY <1>2, <1>3, OthersKeep

\* A crate is skipped only when it is on crates.io.
LEMMA StatusKeeps ==
    ASSUME ReleaseInv, NEW r \in Runs, Status(r)
    PROVE  ReleaseInv'
<1>1. /\ stage[r] = "publish" /\ crates[r] = "status"
      /\ UNCHANGED <<uploaded, npm, tags, stage, halted, version, package>>
  BY DEF Status, registries
<1>2. CASE <<version[r], Crate(r)>> \in uploaded
  <2>1. Advance(r)
    BY <1>2 DEF Status
  <2> QED
    BY <1>1, <1>2, <2>1, AdvanceKeeps
<1>3. CASE <<version[r], Crate(r)>> \notin uploaded
  <2>1. crates' = [crates EXCEPT ![r] = "upload"] /\ next' = next
    BY <1>3 DEF Status
  <2> QED
    BY <1>1, <2>1, CrateLabelKeeps
<1> QED
  BY <1>2, <1>3

\* An upload that was accepted moves on to the next crate, one that was not
\* is tried again.
LEMMA UploadKeeps ==
    ASSUME ReleaseInv, NEW r \in Runs, Upload(r)
    PROVE  ReleaseInv'
<1>1. /\ stage[r] = "publish" /\ crates[r] = "upload"
      /\ UNCHANGED <<npm, tags, stage, halted, version, package>>
  BY DEF Upload
<1>2. CASE Accepts(version[r], Crate(r))
  <2>1. Store(r) /\ Advance(r)
    BY <1>2 DEF Upload
  <2>2. uploaded \subseteq uploaded' /\ <<version[r], Crate(r)>> \in uploaded'
    BY <2>1 DEF Store
  <2> QED
    BY <1>1, <2>1, <2>2, AdvanceKeeps
<1>3. CASE ~Accepts(version[r], Crate(r))
  <2>1. uploaded' = uploaded /\ Again(r)
    BY <1>3 DEF Upload
  <2> QED
    BY <1>1, <2>1, AgainKeeps
<1> QED
  BY <1>2, <1>3

\* A failed request or upload never skips a crate.
LEMMA CratesFaultKeeps ==
    ASSUME ReleaseInv, NEW r \in Runs, CratesFault(r)
    PROVE  ReleaseInv'
<1>1. /\ stage[r] = "publish"
      /\ UNCHANGED <<npm, tags, stage, halted, version, package>>
  BY DEF CratesFault
<1>2. CASE crates[r] = "status"
  <2>1. PICK label \in {"failed", "upload"} :
          crates' = [crates EXCEPT ![r] = label]
    BY <1>2 DEF CratesFault
  <2>2. UNCHANGED <<uploaded, next>>
    BY <1>2 DEF CratesFault
  <2> QED
    BY <1>1, <1>2, <2>1, <2>2, CrateLabelKeeps
<1>3. CASE crates[r] = "upload"
  <2>1. Again(r) /\ uploaded \subseteq uploaded'
    BY <1>3 DEF CratesFault, Store
  <2> QED
    BY <1>1, <1>3, <2>1, AgainKeeps
<1> QED
  BY <1>2, <1>3 DEF CratesFault

\* A step of publish-npm.
LEMMA NpmKeeps ==
    ASSUME ReleaseInv, NEW r \in Runs,
           NEW label \in {"view", "upload", "ok", "failed"}, Npm(r, label),
           stage[r] = "publish",
           npm \subseteq npm', label = "ok" => version[r] \in npm',
           UNCHANGED <<uploaded, tags, stage, halted, version, crates, next>>
    PROVE  ReleaseInv'
<1>1. Shape /\ RunOK(r)
  BY DEF ReleaseInv
<1>2. /\ Shape' /\ package'[r] = label
      /\ \A q \in Runs \ {r} : package'[q] = package[q]
  BY <1>1 DEF Shape, Npm
<1>3. RunOK(r)'
  BY <1>1, <1>2 DEF RunOK
<1> QED
  BY <1>2, <1>3, OthersKeep

\* publish-npm is done only once npm has the version.
LEMMA NpmJobKeeps ==
    ASSUME ReleaseInv, NEW r \in Runs,
           View(r) \/ UploadNpm(r) \/ NpmFault(r)
    PROVE  ReleaseInv'
<1>1. /\ stage[r] = "publish"
      /\ UNCHANGED <<uploaded, tags, stage, halted, version, crates, next>>
  BY DEF View, UploadNpm, NpmFault, registries
<1>2. CASE View(r)
  <2>1. npm' = npm
    BY <1>2 DEF View, registries
  <2>2. PICK label \in {"ok", "upload"} :
          Npm(r, label) /\ (label = "ok" => version[r] \in npm)
    BY <1>2 DEF View
  <2> QED
    BY <1>1, <2>1, <2>2, NpmKeeps
<1>3. CASE UploadNpm(r)
  <2>1. /\ npm \subseteq npm'
        /\ \/ Npm(r, "failed")
           \/ Npm(r, "ok") /\ version[r] \in npm'
    BY <1>3 DEF UploadNpm, StoreNpm
  <2> QED
    BY <1>1, <2>1, NpmKeeps
<1>4. CASE NpmFault(r)
  <2>1. npm \subseteq npm' /\ (Npm(r, "failed") \/ Npm(r, "upload"))
    BY <1>4 DEF NpmFault, StoreNpm
  <2> QED
    BY <1>1, <2>1, NpmKeeps
<1> QED
  BY <1>2, <1>3, <1>4

\* Only a run that has published everything creates a tag.
LEMMA TagKeeps ==
    ASSUME ReleaseInv, NEW r \in Runs,
           GithubRelease(r) \/ Conclude(r) \/ Fault(r)
    PROVE  ReleaseInv'
<1>1. Shape /\ RunOK(r)
  BY DEF ReleaseInv
<1>2. UNCHANGED <<uploaded, npm, version, crates, next, package>>
  BY DEF GithubRelease, Conclude, Fault, jobs, registries
<1>3. \/ stage' = stage
      \/ stage[r] = "publish" /\ stage' = [stage EXCEPT ![r] = "done"]
  BY DEF GithubRelease, Conclude, Fault, Goto
<1>4. /\ Shape' /\ \A q \in Runs \ {r} : stage'[q] = stage[q]
  BY <1>1, <1>2, <1>3 DEF Shape
<1>5. /\ \/ stage'[r] = stage[r]
         \/ stage[r] = "publish" /\ stage'[r] = "done"
      /\ halted' \subseteq halted \cup {r}
      /\ stage'[r] = "done" => r \notin halted'
  <2>1. CASE GithubRelease(r)
    BY <2>1, <1>1 DEF GithubRelease, Goto, Shape
  <2>2. CASE Conclude(r)
    BY <2>2, <1>1 DEF Conclude, Halt, Shape
  <2>3. CASE Fault(r)
    BY <2>3, <1>1 DEF Fault, Halt, Active, Shape
  <2> QED
    BY <2>1, <2>2, <2>3
<1>6. RunOK(r)'
  BY <1>1, <1>2, <1>5 DEF RunOK
<1>7. \/ tags' = tags
      \/ tags' = tags \cup {version[r]} /\ Succeeded(r)
  BY DEF GithubRelease, Conclude, Fault, registries
<1> QED
  BY <1>2, <1>4, <1>5, <1>6, <1>7, OthersKeep, SucceededComplete

\* A job that is run again starts over, with the version of the run.
LEMMA RerunKeeps ==
    ASSUME ReleaseInv, NEW r \in Runs, Rerun(r)
    PROVE  ReleaseInv'
<1>1. Shape /\ RunOK(r)
  BY DEF ReleaseInv
<1>2. UNCHANGED <<uploaded, npm, tags, version>> /\ halted' \subseteq halted
  BY DEF Rerun, registries
<1>3. PICK l \in {"crate", "resolve", "package", "publish"} :
        /\ stage' = [stage EXCEPT ![r] = l]
        /\ l = "publish" <=> stage[r] = "publish"
        /\ l = "package" <=> stage[r] = "package"
  BY <1>1 DEF Rerun, Goto, Shape
<1>4. package' = [package EXCEPT ![r] = IF package[r] = "failed" THEN "view"
                                        ELSE package[r]]
  BY DEF Rerun, Npm
<1>5. \/ /\ crates[r] = "failed"
         /\ crates' = [crates EXCEPT ![r] = "status"]
         /\ next' = [next EXCEPT ![r] = 1]
      \/ crates[r] # "failed" /\ UNCHANGED <<crates, next>>
  BY DEF Rerun
<1>6. /\ Shape'
      /\ \A q \in Runs \ {r} : /\ stage'[q] = stage[q]
                               /\ crates'[q] = crates[q]
                               /\ next'[q] = next[q]
                               /\ package'[q] = package[q]
  BY <1>1, <1>2, <1>3, <1>4, <1>5 DEF Shape
<1>7. RunOK(r)'
  <2>1. package[r] = "failed" => package'[r] = "view"
    BY <1>1, <1>4 DEF Shape
  <2>2. package[r] # "failed" => package'[r] = package[r]
    BY <1>1, <1>4 DEF Shape
  <2>3. \/ crates[r] = "failed" /\ crates'[r] = "status" /\ next'[r] = 1
        \/ crates[r] # "failed" /\ crates'[r] = crates[r] /\ next'[r] = next[r]
    BY <1>1, <1>5 DEF Shape
  <2>4. stage'[r] = l
    BY <1>1, <1>3 DEF Shape
  <2>5. stage[r] \in {"new", "crate", "resolve", "validate", "package",
                      "publish"}
    BY <1>1 DEF Shape, RunOK, Rerun
  <2> QED
    BY <1>1, <1>2, <1>3, <2>1, <2>2, <2>3, <2>4, <2>5 DEF RunOK
<1> QED
  BY <1>2, <1>6, <1>7, OthersKeep

----------------------------------------------------------------------------
(* Theorems *)

\* The invariant holds before the first run.
LEMMA ReleaseInitially == Init => ReleaseInv
<1> SUFFICES ASSUME Init PROVE ReleaseInv
  OBVIOUS
<1>1. Shape
  BY DEF Init, Shape
<1>2. ASSUME NEW r \in Runs PROVE RunOK(r)
  <2>1. /\ stage[r] = "new" /\ crates[r] = "waiting"
        /\ package[r] = "waiting" /\ next[r] = 1
    BY DEF Init
  <2>2. \A i \in 1..6 : i < next[r] => <<version[r], CRATES[i]>> \in uploaded
    BY <2>1
  <2> QED
    BY <2>1, <2>2, Zenon DEF RunOK
<1>3. TagComplete
  <2>1. \/ uploaded = {} /\ npm = {} /\ tags = {}
        \/ uploaded = {1} \X Names /\ npm = {1} /\ tags = {1}
    BY DEF Init
  <2> QED
    BY <2>1 DEF TagComplete, Published
<1> QED
  BY <1>1, <1>2, <1>3 DEF ReleaseInv

\* The invariant is kept by every step.
LEMMA ReleaseSteps == ReleaseInv /\ [Next]_vars => ReleaseInv'
<1> SUFFICES ASSUME ReleaseInv, [Next]_vars PROVE ReleaseInv'
  OBVIOUS
<1>1. CASE UNCHANGED vars
  <2>1. UNCHANGED <<uploaded, npm, tags, stage, halted, version, crates, next,
                    package>>
    BY <1>1 DEF vars, registries, jobs
  <2> QED
    BY <2>1 DEF ReleaseInv, Shape, RunOK, TagComplete, Published
<1>2. CASE Next
  <2>1. PICK r \in Runs :
          \/ \E o \in Overrides \cup {0} : Dispatch(r, o)
          \/ Progress(r) \/ CratesFault(r) \/ NpmFault(r) \/ Fault(r)
          \/ Rerun(r)
    BY <1>2 DEF Next
  <2>2. CASE \E o \in Overrides \cup {0} : Dispatch(r, o)
    BY <2>2, BeforePublishing
  <2>3. CASE Progress(r)
    BY <2>3, BeforePublishing, PackageKeeps, StatusKeeps, UploadKeeps,
       NpmJobKeeps, TagKeeps DEF Progress
  <2>4. CASE CratesFault(r)
    BY <2>4, CratesFaultKeeps
  <2>5. CASE NpmFault(r)
    BY <2>5, NpmJobKeeps
  <2>6. CASE Fault(r)
    BY <2>6, TagKeeps
  <2>7. CASE Rerun(r)
    BY <2>7, RerunKeeps
  <2> QED
    BY <2>1, <2>2, <2>3, <2>4, <2>5, <2>6, <2>7
<1> QED
  BY <1>1, <1>2

\* A tag is only there when its version is on crates.io, whole, and on npm,
\* for any number of runs, faults and re-runs.
THEOREM TagsComplete == Spec => []TagComplete
<1>1. ReleaseInv => TagComplete
  BY DEF ReleaseInv
<1> QED
  BY <1>1, ReleaseInitially, ReleaseSteps, PTL DEF Spec

\* cargo publish is only called for a crate whose dependencies are there, for
\* any number of runs, faults and re-runs.
THEOREM UploadsInOrder == Spec => []NeverPremature
<1>1. ReleaseInv => NeverPremature
  <2> SUFFICES ASSUME ReleaseInv, NEW r \in Runs, crates[r] = "upload",
                      NEW d \in Dependencies[Crate(r)]
               PROVE  <<version[r], d>> \in uploaded
    BY DEF NeverPremature, Published
  <2>1. RunOK(r) /\ next[r] \in 1..6
    BY DEF ReleaseInv, RunOK
  <2>2. PICK j \in 1..6 : j < next[r] /\ d = CRATES[j]
    BY <2>1, DependenciesFirst DEF Crate
  <2> QED
    BY <2>1, <2>2 DEF RunOK
<1> QED
  BY <1>1, ReleaseInitially, ReleaseSteps, PTL DEF Spec

----------------------------------------------------------------------------
(* What a resolved version leaves behind *)

\* The types that Shape leaves out.
Values ==
    /\ uploaded \subseteq Nat \X Names
    /\ npm \subseteq Nat /\ latest \in Nat /\ tags \subseteq Nat
    /\ halted \subseteq Runs
    /\ override \in [Runs -> Nat] /\ version \in [Runs -> Nat]
    /\ seen \in [Runs -> [crate : Nat, npm : Nat]]
    /\ attempt \in [Runs -> 1..Attempts]
    /\ faults \in Nat /\ reruns \in Nat

\* crates.io took objsds only after its dependencies, one of its versions is
\* the newest, and npm's latest version is there.
RegistriesOK ==
    /\ latest # 0 => latest \in npm
    /\ \A u \in uploaded : u[2] = "objsds" =>
         Published(u[1], Names \ {"queue", "objsds"})
    /\ (\E u \in uploaded : u[2] = "objsds") =>
         \E u \in uploaded : /\ u[2] = "objsds"
                             /\ \A w \in uploaded : w[2] = "objsds" => w[1] <= u[1]

SeenOK(r) ==
    /\ stage[r] = "new" => seen[r].crate = 0
    /\ stage[r] = "crate" => override[r] = 0
    /\ override[r] # 0 => seen[r].crate = 0
    /\ seen[r].crate # 0 => <<seen[r].crate, "objsds">> \in uploaded
    /\ seen[r].crate # 0 /\ seen[r].npm # 0 =>
         version[r] = seen[r].crate + 1 /\ seen[r].crate \in npm

ResolveInv ==
    /\ Values
    /\ RegistriesOK
    /\ \A r \in Runs : SeenOK(r)

\* max_stable_version is a version of objsds, or there is none.
LEMMA NewestUploaded ==
    ASSUME Values, RegistriesOK
    PROVE  Newest \in Nat /\ (Newest # 0 => <<Newest, "objsds">> \in uploaded)
<1> DEFINE versions == {u[1] : u \in {w \in uploaded : w[2] = "objsds"}}
<1>1. \A u \in uploaded : u[1] \in Nat /\ u = <<u[1], u[2]>>
  BY DEF Values
<1>2. CASE versions = {}
  BY <1>2 DEF Newest
<1>3. CASE versions # {}
  <2>1. PICK u \in uploaded :
          u[2] = "objsds" /\ \A w \in uploaded : w[2] = "objsds" => w[1] <= u[1]
    BY <1>3 DEF RegistriesOK
  <2>2. u[1] \in versions /\ \A w \in versions : w <= u[1]
    BY <2>1
  <2>3. Newest = CHOOSE v \in versions : \A w \in versions : w <= v
    BY <1>3 DEF Newest
  <2>4. Newest \in versions
    BY <2>2, <2>3
  <2>5. QED
    BY <1>1, <2>4
<1>4. QED
  BY <1>2, <1>3

\* Steps that only add to the registries, and send no run back to the version
\* job but one without an input.
LEMMA SeenKept ==
    ASSUME \A q \in Runs : SeenOK(q), UNCHANGED <<override, version, seen>>,
           uploaded \subseteq uploaded', npm \subseteq npm',
           \A q \in Runs : /\ stage'[q] = "new" => stage[q] = "new"
                           /\ stage'[q] = "crate" =>
                                stage[q] = "crate" \/ override[q] = 0
    PROVE  \A q \in Runs : SeenOK(q)'
BY DEF SeenOK

\* One more upload that crates.io accepts.
LEMMA StoreKeeps ==
    ASSUME Values, RegistriesOK, NEW v \in Nat, NEW c \in Names, Accepts(v, c),
           uploaded' = uploaded \cup {<<v, c>>}, UNCHANGED <<npm, latest>>
    PROVE  uploaded' \subseteq Nat \X Names /\ RegistriesOK'
<1>1. uploaded' \subseteq Nat \X Names
  BY DEF Values
<1>2. \A u \in uploaded : u[1] \in Nat
  BY DEF Values
<1>3. <<v, c>>[1] = v /\ <<v, c>>[2] = c
  OBVIOUS
<1>4. c = "objsds" => Published(v, Names \ {"queue", "objsds"})
  <2>1. Dependencies["objsds"] = {"store", "s3", "filesystem", "memory"}
    BY DEF Dependencies
  <2>2. QED
    BY <2>1, CratesListed DEF Accepts, Published
<1>5. \A u \in uploaded' : u[2] = "objsds" =>
        Published(u[1], Names \ {"queue", "objsds"})
  BY <1>3, <1>4 DEF RegistriesOK
<1>6. (\E u \in uploaded' : u[2] = "objsds") =>
        \E u \in uploaded' : /\ u[2] = "objsds"
                             /\ \A w \in uploaded' : w[2] = "objsds" => w[1] <= u[1]
  <2>1. CASE c # "objsds"
    BY <1>3, <2>1 DEF RegistriesOK
  <2>2. CASE c = "objsds" /\ ~\E u \in uploaded : u[2] = "objsds"
    BY <1>3, <2>2
  <2>3. CASE c = "objsds" /\ \E u \in uploaded : u[2] = "objsds"
    <3>1. PICK u \in uploaded :
            u[2] = "objsds" /\ \A w \in uploaded : w[2] = "objsds" => w[1] <= u[1]
      BY <2>3 DEF RegistriesOK
    <3>2. CASE v <= u[1]
      BY <1>3, <3>1, <3>2
    <3>3. CASE u[1] <= v
      BY <1>2, <1>3, <2>3, <3>1, <3>3
    <3>4. QED
      BY <1>2, <3>2, <3>3
  <2>4. QED
    BY <2>1, <2>2, <2>3
<1>7. QED
  BY <1>1, <1>5, <1>6 DEF RegistriesOK, Published

\* The version job: what it reads, and what it makes of it.
LEMMA VersionJobKeeps ==
    ASSUME ReleaseInv, ResolveInv, NEW r \in Runs,
           \/ \E o \in Overrides \cup {0} : Dispatch(r, o)
           \/ ReadCrate(r) \/ Resolve(r) \/ Validate(r) \/ Package(r)
    PROVE  ResolveInv'
<1>1. Values /\ RegistriesOK /\ Shape /\ \A q \in Runs : SeenOK(q)
  BY DEF ReleaseInv, ResolveInv
<1>2. UNCHANGED <<registries, attempt, faults, reruns>>
  BY DEF Dispatch, ReadCrate, Resolve, Validate, Package, jobs, bounds
<1>3. RegistriesOK'
  BY <1>1, <1>2 DEF registries, RegistriesOK, Published
<1>4. ASSUME NEW o \in Overrides \cup {0}, Dispatch(r, o)
      PROVE  Values' /\ \A q \in Runs : SeenOK(q)'
  <2>1. o \in Nat
    BY ReleaseAssumption DEF ReleaseAssumption
  <2>2. Values'
    BY <1>1, <1>2, <1>4, <2>1 DEF Values, Dispatch, registries
  <2>3. stage[r] = "new" /\ stage'[r] = IF o = 0 THEN "crate" ELSE "resolve"
    BY <1>1, <1>4 DEF Shape, Dispatch, Goto
  <2>4. override'[r] = o
    BY <1>1, <1>4 DEF Values, Dispatch
  <2>5. \A q \in Runs \ {r} : stage'[q] = stage[q] /\ override'[q] = override[q]
    BY <1>1, <1>4 DEF Values, Shape, Dispatch, Goto
  <2>6. UNCHANGED <<uploaded, npm, seen, version>>
    BY <1>4 DEF Dispatch, registries
  <2>7. QED
    BY <1>1, <2>2, <2>3, <2>4, <2>5, <2>6 DEF SeenOK
<1>5. CASE ReadCrate(r)
  <2>1. [crate |-> Newest, npm |-> 0] \in [crate : Nat, npm : Nat]
    BY <1>1, NewestUploaded
  <2>2. Values'
    BY <1>1, <1>2, <1>5, <2>1 DEF Values, ReadCrate, registries
  <2>3. stage[r] = "crate" /\ stage'[r] = "resolve"
    BY <1>1, <1>5 DEF Shape, ReadCrate, Goto
  <2>4. seen'[r].crate = Newest /\ seen'[r].npm = 0
    BY <1>1, <1>5 DEF Values, ReadCrate
  <2>5. \A q \in Runs \ {r} : stage'[q] = stage[q] /\ seen'[q] = seen[q]
    BY <1>1, <1>5 DEF Values, Shape, ReadCrate, Goto
  <2>6. UNCHANGED <<uploaded, npm, override, version>>
    BY <1>5 DEF ReadCrate, registries
  <2>7. SeenOK(r)'
    BY <1>1, <2>3, <2>4, <2>6, NewestUploaded DEF SeenOK
  <2>8. QED
    BY <1>1, <1>3, <2>2, <2>5, <2>6, <2>7 DEF SeenOK, ResolveInv
<1>6. CASE Resolve(r)
  <2>1. UNCHANGED <<uploaded, npm, latest, override>> /\ stage[r] = "resolve"
    BY <1>6 DEF Resolve, registries
  <2>2. seen[r] \in [crate : Nat, npm : Nat] /\ override[r] \in Nat /\ latest \in Nat
    BY <1>1 DEF Values
  <2>3. CASE override[r] # 0 /\ UNCHANGED <<seen, halted>>
             /\ version' = [version EXCEPT ![r] = override[r]]
             /\ Goto(r, "validate")
    <3>1. Values'
      BY <1>1, <1>2, <2>1, <2>2, <2>3 DEF Values, registries
    <3>2. stage'[r] = "validate" /\ \A q \in Runs \ {r} : stage'[q] = stage[q]
                                                     /\ version'[q] = version[q]
      BY <1>1, <2>3 DEF Shape, Values, Goto
    <3>3. QED
      BY <1>1, <1>3, <2>1, <2>3, <3>1, <3>2 DEF SeenOK, ResolveInv
  <2>4. CASE override[r] = 0 /\ ~Differ(r) /\ Goto(r, "validate") /\ halted' = halted
             /\ seen' = [seen EXCEPT ![r].npm = latest]
             /\ version' = [version EXCEPT ![r] =
                  1 + IF seen[r].crate # 0 THEN seen[r].crate ELSE latest]
    <3>1. PICK v \in Nat : v = 1 + IF seen[r].crate # 0 THEN seen[r].crate ELSE latest
      BY <2>2
    <3>2. PICK n \in [crate : Nat, npm : Nat] : n = [seen[r] EXCEPT !.npm = latest]
      BY <2>2
    <3>3. n.crate = seen[r].crate /\ n.npm = latest
      BY <2>2, <3>2
    <3>4. version' = [version EXCEPT ![r] = v] /\ seen' = [seen EXCEPT ![r] = n]
      BY <2>4, <3>1, <3>2
    <3>5. Values'
      BY <1>1, <1>2, <2>1, <2>4, <3>4 DEF Values, registries
    <3>6. /\ stage'[r] = "validate" /\ version'[r] = v /\ seen'[r] = n
          /\ \A q \in Runs \ {r} : /\ stage'[q] = stage[q] /\ seen'[q] = seen[q]
                                   /\ version'[q] = version[q]
      BY <1>1, <2>4, <3>4 DEF Shape, Values, Goto
    <3>7. seen[r].crate # 0 /\ latest # 0 => v = seen[r].crate + 1 /\ seen[r].crate \in npm
      BY <1>1, <2>2, <2>4, <3>1 DEF Differ, RegistriesOK
    <3>8. SeenOK(r)'
      BY <1>1, <2>1, <2>4, <3>3, <3>6, <3>7 DEF SeenOK
    <3>9. QED
      BY <1>1, <1>3, <2>1, <3>5, <3>6, <3>8 DEF SeenOK, ResolveInv
  <2>5. CASE Halt(r) /\ UNCHANGED <<seen, version, stage>>
    <3>1. Values'
      BY <1>1, <1>2, <2>1, <2>5 DEF Values, registries, Halt
    <3>2. QED
      BY <1>1, <1>3, <2>1, <2>5, <3>1 DEF SeenOK, ResolveInv
  <2>6. QED
    BY <1>3, <1>6, <2>3, <2>4, <2>5 DEF Resolve
<1>7. CASE Validate(r) \/ Package(r)
  <2>1. UNCHANGED <<override, version, seen>> /\ halted' \subseteq halted \cup {r}
    BY <1>7 DEF Validate, Package, Halt
  <2>2. Values'
    BY <1>1, <1>2, <2>1 DEF Values, registries
  <2>3. \A q \in Runs : stage'[q] \in {stage[q], "package", "publish"}
    BY <1>1, <1>7 DEF Shape, Validate, Package, Goto
  <2>4. uploaded \subseteq uploaded' /\ npm \subseteq npm'
    BY <1>2 DEF registries
  <2>5. \A q \in Runs : SeenOK(q)'
    BY <1>1, <2>1, <2>3, <2>4, SeenKept
  <2>6. QED
    BY <1>3, <2>2, <2>5 DEF ResolveInv
<1>8. QED
  BY <1>3, <1>4, <1>5, <1>6, <1>7 DEF ResolveInv

\* The attempts of a crate are counted up to Attempts.
LEMMA AttemptsTyped ==
    ASSUME Values, NEW r \in Runs, Advance(r) \/ Again(r)
    PROVE  attempt' \in [Runs -> 1..Attempts]
<1>1. Attempts \in Nat /\ 1 \in 1..Attempts
  BY ReleaseAssumption DEF ReleaseAssumption
<1>2. attempt[r] \in 1..Attempts
  BY DEF Values
<1>3. (IF attempt[r] = Attempts THEN attempt[r] ELSE attempt[r] + 1) \in 1..Attempts
  BY <1>1, <1>2
<1>4. QED
  BY <1>1, <1>3 DEF Values, Advance, Again

\* The publishing jobs add to the registries what they accept.
LEMMA CratesJobKeeps ==
    ASSUME ReleaseInv, ResolveInv, NEW r \in Runs,
           Status(r) \/ Upload(r) \/ CratesFault(r)
    PROVE  ResolveInv'
<1>1. Values /\ RegistriesOK /\ RunOK(r) /\ \A q \in Runs : SeenOK(q)
  BY DEF ReleaseInv, ResolveInv
<1>2. UNCHANGED <<npm, latest, tags, stage, halted, override, version, seen, reruns>>
      /\ faults' \in Nat
  BY <1>1 DEF Status, Upload, CratesFault, registries, bounds, Values
<1>3. attempt' \in [Runs -> 1..Attempts]
  <2>1. CASE UNCHANGED attempt
    BY <1>1, <2>1 DEF Values
  <2>2. CASE ~UNCHANGED attempt
    BY <1>1, <2>2, AttemptsTyped DEF Status, Upload, CratesFault
  <2>3. QED
    BY <2>1, <2>2
<1>4. /\ uploaded' \subseteq Nat \X Names /\ RegistriesOK'
      /\ uploaded \subseteq uploaded'
  <2>1. CASE UNCHANGED uploaded
    BY <1>1, <1>2, <2>1 DEF Values, RegistriesOK, Published
  <2>2. CASE ~UNCHANGED uploaded
    <3>1. crates[r] = "upload" /\ Accepts(version[r], Crate(r)) /\ Store(r)
      BY <2>2 DEF Status, Upload, CratesFault, registries
    <3>2. Crate(r) \in Names /\ version[r] \in Nat
      BY <1>1, <3>1, CratesListed DEF RunOK, Crate, Values
    <3>3. uploaded' = uploaded \cup {<<version[r], Crate(r)>>}
      BY <3>1 DEF Store
    <3>4. QED
      BY <1>1, <1>2, <3>1, <3>2, <3>3, StoreKeeps
  <2>3. QED
    BY <2>1, <2>2
<1>5. Values'
  BY <1>1, <1>2, <1>3, <1>4 DEF Values
<1>6. \A q \in Runs : SeenOK(q)'
  BY <1>1, <1>2, <1>4, SeenKept
<1>7. QED
  BY <1>4, <1>5, <1>6 DEF ResolveInv

LEMMA OtherJobsKeep ==
    ASSUME ReleaseInv, ResolveInv, NEW r \in Runs,
           \/ View(r) \/ UploadNpm(r) \/ NpmFault(r) \/ GithubRelease(r)
           \/ Conclude(r) \/ Fault(r) \/ Rerun(r)
    PROVE  ResolveInv'
<1>1. Values /\ RegistriesOK /\ Shape /\ \A q \in Runs : SeenOK(q)
  BY DEF ReleaseInv, ResolveInv
<1>2. UNCHANGED <<uploaded, override, version, seen>>
  BY DEF View, UploadNpm, NpmFault, GithubRelease, Conclude, Fault, Rerun,
     registries
<1>3. version[r] \in Nat
  BY <1>1 DEF Values
<1>4. \/ UNCHANGED <<npm, latest>>
      \/ npm' = npm \cup {version[r]} /\ latest' = version[r]
  BY DEF View, UploadNpm, NpmFault, GithubRelease, Conclude, Fault, Rerun,
     registries, StoreNpm
<1>5. tags' = tags \/ tags' = tags \cup {version[r]}
  BY DEF View, UploadNpm, NpmFault, GithubRelease, Conclude, Fault, Rerun,
     registries
<1>6. halted' \subseteq halted \cup {r}
  BY DEF View, UploadNpm, NpmFault, GithubRelease, Conclude, Fault, Rerun, Halt
<1>7. attempt' \in [Runs -> 1..Attempts]
  <2>1. 1 \in 1..Attempts
    BY ReleaseAssumption DEF ReleaseAssumption
  <2>2. attempt' = attempt \/ attempt' = [attempt EXCEPT ![r] = 1]
    BY DEF View, UploadNpm, NpmFault, GithubRelease, Conclude, Fault, Rerun, jobs
  <2>3. QED
    BY <1>1, <2>1, <2>2 DEF Values
<1>8. faults' \in Nat /\ reruns' \in Nat
  <2>1. faults' \in {faults, faults + 1} /\ reruns' \in {reruns, reruns + 1}
    BY DEF View, UploadNpm, NpmFault, GithubRelease, Conclude, Fault, Rerun,
       bounds
  <2>2. QED
    BY <1>1, <2>1 DEF Values
<1>9. Values'
  BY <1>1, <1>2, <1>3, <1>4, <1>5, <1>6, <1>7, <1>8 DEF Values
<1>10. RegistriesOK'
  BY <1>1, <1>2, <1>4 DEF RegistriesOK, Published
<1>11. \A q \in Runs : /\ stage'[q] = "new" => stage[q] = "new"
                       /\ stage'[q] = "crate" =>
                            stage[q] = "crate" \/ override[q] = 0
  <2>1. CASE UNCHANGED stage
    BY <2>1
  <2>2. CASE GithubRelease(r)
    BY <1>1, <2>2 DEF Shape, GithubRelease, Goto
  <2>3. CASE Rerun(r)
    BY <1>1, <2>3 DEF Shape, Rerun, Goto
  <2>4. QED
    BY <2>1, <2>2, <2>3 DEF View, UploadNpm, NpmFault, Conclude, Fault
<1>12. uploaded \subseteq uploaded' /\ npm \subseteq npm'
  BY <1>2, <1>4
<1>13. \A q \in Runs : SeenOK(q)'
  BY <1>1, <1>2, <1>11, <1>12, SeenKept
<1>14. QED
  BY <1>9, <1>10, <1>13 DEF ResolveInv

LEMMA ResolveInitially == Init => ResolveInv
<1> SUFFICES ASSUME Init PROVE ResolveInv
  OBVIOUS
<1>1. Attempts \in Nat \ {0} /\ 1 \in 1..Attempts
  BY ReleaseAssumption DEF ReleaseAssumption
<1>2. \/ uploaded = {} /\ npm = {} /\ latest = 0 /\ tags = {}
      \/ uploaded = {1} \X Names /\ npm = {1} /\ latest = 1 /\ tags = {1}
  BY DEF Init
<1>3. Values
  <2>1. uploaded \subseteq Nat \X Names /\ npm \subseteq Nat /\ latest \in Nat
        /\ tags \subseteq Nat
    BY <1>2
  <2>2. QED
    BY <1>1, <2>1 DEF Init, Values
<1>4. RegistriesOK
  <2>1. CASE uploaded = {} /\ latest = 0
    BY <2>1 DEF RegistriesOK
  <2>2. CASE uploaded = {1} \X Names /\ npm = {1} /\ latest = 1
    <3>1. \A u \in uploaded : u[1] = 1
      BY <2>2
    <3>2. <<1, "objsds">> \in uploaded /\ <<1, "objsds">>[2] = "objsds"
      BY <2>2, CratesListed
    <3>3. \A c \in Names : <<1, c>> \in uploaded
      BY <2>2
    <3>4. \A u \in uploaded : Published(u[1], Names \ {"queue", "objsds"})
      BY <3>1, <3>3 DEF Published
    <3>5. QED
      BY <2>2, <3>1, <3>2, <3>4 DEF RegistriesOK
  <2>3. QED
    BY <1>2, <2>1, <2>2
<1>5. \A r \in Runs : SeenOK(r)
  BY DEF Init, SeenOK
<1>6. QED
  BY <1>3, <1>4, <1>5 DEF ResolveInv

LEMMA ResolveSteps == ReleaseInv /\ ResolveInv /\ [Next]_vars => ResolveInv'
<1> SUFFICES ASSUME ReleaseInv, ResolveInv, [Next]_vars PROVE ResolveInv'
  OBVIOUS
<1>1. CASE UNCHANGED vars
  <2>1. UNCHANGED <<uploaded, npm, latest, tags, stage, halted, override, version,
                    seen, attempt, faults, reruns>>
    BY <1>1 DEF vars, registries, jobs, bounds
  <2> QED
    BY <2>1 DEF ResolveInv, Values, RegistriesOK, SeenOK, Published
<1>2. CASE Next
  <2>1. PICK r \in Runs :
          \/ \E o \in Overrides \cup {0} : Dispatch(r, o)
          \/ Progress(r) \/ CratesFault(r) \/ NpmFault(r) \/ Fault(r)
          \/ Rerun(r)
    BY <1>2 DEF Next
  <2> QED
    BY <2>1, VersionJobKeeps, CratesJobKeeps, OtherJobsKeep DEF Progress
<1> QED
  BY <1>1, <1>2

FetchedOK == fetched \in [Runs -> SUBSET Nat]

\* Only a checkout changes what a run knows of the tags.
LEMMA FetchedKept ==
    ASSUME Values, FetchedOK, [Next]_vars
    PROVE  FetchedOK'
<1>1. tags \in SUBSET Nat
  BY DEF Values
<1>2. CASE UNCHANGED fetched
  BY <1>2 DEF FetchedOK
<1>3. ASSUME NEW r \in Runs, Checkout(r)
      PROVE  FetchedOK'
  BY <1>1, <1>3 DEF Checkout, FetchedOK
<1>4. ASSUME NEW r \in Runs,
             ReadCrate(r) \/ Resolve(r) \/ Validate(r) \/ Package(r)
      PROVE  UNCHANGED fetched
  BY <1>4 DEF ReadCrate, Resolve, Validate, Package
<1>5. ASSUME NEW r \in Runs,
             Status(r) \/ Upload(r) \/ CratesFault(r) \/ View(r)
      PROVE  UNCHANGED fetched
  BY <1>5 DEF Status, Upload, CratesFault, View
<1>6. ASSUME NEW r \in Runs,
             UploadNpm(r) \/ NpmFault(r) \/ GithubRelease(r) \/ Conclude(r)
             \/ Fault(r)
      PROVE  UNCHANGED fetched
  BY <1>6 DEF UploadNpm, NpmFault, GithubRelease, Conclude, Fault
<1>7. ASSUME NEW r \in Runs, Rerun(r)
      PROVE  FetchedOK'
  BY <1>2, <1>3, <1>7 DEF Rerun
<1>8. ASSUME NEW r \in Runs, NEW o \in Overrides \cup {0}, Dispatch(r, o)
      PROVE  FetchedOK'
  BY <1>3, <1>8 DEF Dispatch
<1>9. CASE UNCHANGED vars
  BY <1>2, <1>9 DEF vars
<1> QED
  BY <1>2, <1>4, <1>5, <1>6, <1>7, <1>8, <1>9 DEF Next, Progress

\* The release's state keeps its types: no crate is tried more than Attempts
\* times, and the newest version of a registry is a version.
THEOREM ReleaseTyped == Spec => []TypeOK
<1>1. ReleaseInv /\ ResolveInv /\ FetchedOK => TypeOK
  BY CratesListed DEF ReleaseInv, Shape, ResolveInv, Values, FetchedOK, TypeOK
<1>2. Init => FetchedOK
  BY DEF Init, FetchedOK
<1>3. ResolveInv /\ FetchedOK /\ [Next]_vars => FetchedOK'
  BY FetchedKept DEF ResolveInv
<1> QED
  BY <1>1, <1>2, <1>3, ReleaseInitially, ReleaseSteps, ResolveInitially,
     ResolveSteps, PTL DEF Spec

\* A version that is resolved from both registries follows one that is on npm
\* and, but for the crate objsds-queue, on crates.io, for any number of runs
\* that overlap, fail and are re-run.
THEOREM NothingElseLeftBehind == Spec => []OnlyQueueLeftBehind
<1>1. ResolveInv => OnlyQueueLeftBehind
  <2> SUFFICES ASSUME ResolveInv, NEW r \in Runs,
                      seen[r].crate # 0, seen[r].npm # 0
               PROVE  /\ Published(version[r] - 1, Names \ {"queue"})
                      /\ version[r] - 1 \in npm
    BY DEF OnlyQueueLeftBehind
  <2>1. seen[r].crate \in Nat
    BY DEF ResolveInv, Values
  <2>2. /\ <<seen[r].crate, "objsds">> \in uploaded
        /\ version[r] = seen[r].crate + 1 /\ seen[r].crate \in npm
    BY DEF ResolveInv, SeenOK
  <2>3. version[r] - 1 = seen[r].crate
    BY <2>1, <2>2
  <2>4. PICK u \in uploaded : u = <<seen[r].crate, "objsds">>
    BY <2>2
  <2>5. Published(seen[r].crate, Names \ {"queue", "objsds"})
    BY <2>4 DEF ResolveInv, RegistriesOK
  <2>6. Published(seen[r].crate, Names \ {"queue"})
    BY <2>2, <2>5 DEF Published
  <2> QED
    BY <2>2, <2>3, <2>6
<1> QED
  BY <1>1, ReleaseInitially, ReleaseSteps, ResolveInitially, ResolveSteps, PTL
     DEF Spec
============================================================================

------------------------------ MODULE Release ------------------------------
(***************************************************************************)
(* Releases: scripts/release.py (resolve_version, validate, publish), the  *)
(* tasks of mise.toml that call it and the jobs of .github/workflows/      *)
(* release.yml.  Two registries are written by jobs that run side by side, *)
(* crate by crate, and any of them may fail half way; a version is then    *)
(* resumed by re-running the failed jobs or by a new dispatch.             *)
(*                                                                         *)
(* Abstractions.  A version is its patch number, 0 a version that does not *)
(* exist and the development baseline.  Rehearsals write nothing and are   *)
(* left out.  A registry that does not show an upload yet, an HTTP error,  *)
(* a time-out, a failing build and a cancelled job are faults.  The        *)
(* registries and GitHub's job scheduling are external: a job starts when  *)
(* the jobs it needs succeeded, failed jobs can be re-run, and runs of one *)
(* concurrency group do not overlap.                                       *)
(***************************************************************************)
EXTENDS Integers, Sequences

CONSTANTS
    Runs,        \* runs of the workflow
    Overrides,   \* versions that are entered by hand
    Attempts,    \* calls of cargo publish per crate (12)
    MaxFaults,   \* bound: faults
    MaxReruns    \* bound: re-runs of failed jobs

ASSUME ReleaseAssumption ==
    /\ Overrides \subseteq Nat \ {0}
    /\ Attempts \in Nat \ {0} /\ MaxFaults \in Nat /\ MaxReruns \in Nat

VARIABLES
    uploaded,  \* <<version, crate>> on crates.io
    npm,       \* versions of @objsds/client on npm
    latest,    \* the version npm calls latest
    tags,      \* versions with a tag and a GitHub Release
    stage,     \* where each run stands
    halted,    \* runs with a failed job
    override,  \* the version input of each run, 0 if empty
    fetched,   \* the tags that the checkout of its version job fetched
    version,   \* the resolved version of each run
    seen,      \* the versions in the registries that it read
    crates,    \* its job publish-crates ...
    next,      \*   ... which crate it is at ...
    attempt,   \*   ... and the attempt
    package,   \* its job publish-npm
    faults,
    reruns

registries == <<uploaded, npm, latest, tags>>
jobs == <<crates, next, attempt, package>>
bounds == <<faults, reruns>>
vars == <<registries, stage, halted, override, fetched, version, seen, jobs,
          bounds>>

----------------------------------------------------------------------------
(* The workspace *)

\* Faulty variant: the order of WORKSPACE_DEPENDENCIES.
CratesAsListed == <<"objsds", "queue", "store", "memory", "filesystem", "s3">>

CRATES == <<"store", "filesystem", "memory", "s3", "objsds", "queue">>

Names == {CRATES[i] : i \in DOMAIN CRATES}

\* The Cargo manifests, development dependencies included.
Dependencies ==
    [store |-> {}, filesystem |-> {"store"}, memory |-> {"store"},
     s3 |-> {"store"}, objsds |-> {"store", "s3", "filesystem", "memory"},
     queue |-> {"store", "memory"}]

Published(v, names) == \A c \in names : <<v, c>> \in uploaded

\* max_stable_version of crate objsds, 0 if there is none.
Newest ==
    LET versions == {u[1] : u \in {w \in uploaded : w[2] = "objsds"}}
    IN  IF versions = {} THEN 0
        ELSE CHOOSE v \in versions : \A w \in versions : w <= v

----------------------------------------------------------------------------

Active(r) == stage[r] \notin {"new", "done"} /\ r \notin halted

Goto(r, label) == stage' = [stage EXCEPT ![r] = label]

Halt(r) == halted' = halted \cup {r}

\* Nothing was released yet, or version 1 was.
Init ==
    /\ \/ uploaded = {} /\ npm = {} /\ latest = 0
       \/ uploaded = {1} \X Names /\ npm = {1} /\ latest = 1
    /\ tags = npm
    /\ stage = [r \in Runs |-> "new"]
    /\ halted = {}
    /\ override = [r \in Runs |-> 0]
    /\ fetched = [r \in Runs |-> {}]
    /\ version = [r \in Runs |-> 0]
    /\ seen = [r \in Runs |-> [crate |-> 0, npm |-> 0]]
    /\ crates = [r \in Runs |-> "waiting"]
    /\ next = [r \in Runs |-> 1]
    /\ attempt = [r \in Runs |-> 1]
    /\ package = [r \in Runs |-> "waiting"]
    /\ faults = 0
    /\ reruns = 0

\* The concurrency group of a run is its version input.
GroupFree(r, o) == \A q \in Runs \ {r} : ~(Active(q) /\ override[q] = o)

\* The version job begins with a checkout, which fetches the tags.
Checkout(r) == fetched' = [fetched EXCEPT ![r] = tags]

\* workflow_dispatch with or without a version.
Dispatch(r, o) ==
    /\ stage[r] = "new"
    /\ GroupFree(r, o)
    /\ override' = [override EXCEPT ![r] = o]
    /\ Checkout(r)
    /\ Goto(r, IF o = 0 THEN "crate" ELSE "resolve")
    /\ UNCHANGED <<registries, halted, version, seen, jobs, bounds>>

----------------------------------------------------------------------------
(* Job version *)

\* published_versions reads crates.io ...
ReadCrate(r) ==
    /\ stage[r] = "crate"
    /\ seen' = [seen EXCEPT ![r] = [crate |-> Newest, npm |-> 0]]
    /\ Goto(r, "resolve")
    /\ UNCHANGED <<registries, halted, override, fetched, version, jobs,
                   bounds>>

\* Faulty variant: the registries are not compared.
DifferNever(r) == FALSE

\* Both registries have versions, and not the same one.
Differ(r) ==
    seen[r].crate # 0 /\ latest # 0 /\ seen[r].crate # latest

\* ... and npm; resolve_version returns the override, or one patch more than
\* what both registries, or the one that has a version, say.
Resolve(r) ==
    /\ stage[r] = "resolve"
    /\ \/ /\ override[r] # 0
          /\ version' = [version EXCEPT ![r] = override[r]]
          /\ Goto(r, "validate")
          /\ UNCHANGED <<seen, halted>>
       \/ /\ override[r] = 0 /\ ~Differ(r)
          /\ seen' = [seen EXCEPT ![r].npm = latest]
          /\ version' = [version EXCEPT ![r] =
               1 + IF seen[r].crate # 0 THEN seen[r].crate ELSE latest]
          /\ Goto(r, "validate")
          /\ halted' = halted
       \/ /\ override[r] = 0 /\ Differ(r)
          /\ Halt(r)
          /\ UNCHANGED <<seen, version, stage>>
    /\ UNCHANGED <<registries, override, fetched, jobs, bounds>>

\* validate: no release of this version was finished when the tags were
\* fetched.
Validate(r) ==
    /\ stage[r] = "validate"
    /\ IF version[r] \in fetched[r] THEN Halt(r) /\ stage' = stage
                                   ELSE Goto(r, "package") /\ halted' = halted
    /\ UNCHANGED <<registries, override, fetched, version, seen, jobs,
                   bounds>>

\* Jobs native-build and package-npm succeed; the publishing jobs start.
Package(r) ==
    /\ stage[r] = "package"
    /\ Goto(r, "publish")
    /\ crates' = [crates EXCEPT ![r] = "status"]
    /\ package' = [package EXCEPT ![r] = "view"]
    /\ UNCHANGED <<registries, halted, override, fetched, version, seen, next,
                   attempt, bounds>>

----------------------------------------------------------------------------
(* Job publish-crates *)

Crate(r) == CRATES[next[r]]

\* The loop over CRATES goes on with the next one.
Advance(r) ==
    /\ next' = [next EXCEPT ![r] = @ + 1]
    /\ attempt' = [attempt EXCEPT ![r] = 1]
    /\ crates' = [crates EXCEPT ![r] =
                    IF next[r] = Len(CRATES) THEN "ok" ELSE "status"]

\* Faulty variant: attempts are counted on after the last one.
AgainUncapped(r) ==
    /\ attempt' = [attempt EXCEPT ![r] = @ + 1]
    /\ crates' = [crates EXCEPT ![r] =
                    IF attempt[r] > Attempts THEN "failed" ELSE "status"]
    /\ next' = next

\* CalledProcessError: another attempt, or the error is raised.
Again(r) ==
    /\ attempt' = [attempt EXCEPT ![r] = IF @ = Attempts THEN @ ELSE @ + 1]
    /\ crates' = [crates EXCEPT ![r] =
                    IF attempt[r] = Attempts THEN "failed" ELSE "status"]
    /\ next' = next

\* Faulty variant: crates that are there already are published again.
StatusIgnored(r) ==
    /\ stage[r] = "publish" /\ crates[r] = "status"
    /\ crates' = [crates EXCEPT ![r] = "upload"]
    /\ UNCHANGED <<registries, stage, halted, override, fetched, version,
                   seen, next, attempt, package, bounds>>

\* registry_status: a crate that is there is skipped.
Status(r) ==
    /\ stage[r] = "publish" /\ crates[r] = "status"
    /\ IF <<version[r], Crate(r)>> \in uploaded
         THEN Advance(r)
         ELSE /\ crates' = [crates EXCEPT ![r] = "upload"]
              /\ UNCHANGED <<next, attempt>>
    /\ UNCHANGED <<registries, stage, halted, override, fetched, version,
                   seen, package, bounds>>

\* crates.io takes a new version of a crate once its dependencies are there.
Accepts(v, c) == <<v, c>> \notin uploaded /\ Published(v, Dependencies[c])

Store(r) == uploaded' = uploaded \cup {<<version[r], Crate(r)>>}

\* cargo publish.
Upload(r) ==
    /\ stage[r] = "publish" /\ crates[r] = "upload"
    /\ IF Accepts(version[r], Crate(r))
         THEN Store(r) /\ Advance(r)
         ELSE uploaded' = uploaded /\ Again(r)
    /\ UNCHANGED <<npm, latest, tags, stage, halted, override, fetched,
                   version, seen, package, bounds>>

\* The status request fails for good, or misses a crate; cargo publish fails,
\* with the upload applied or not.
CratesFault(r) ==
    /\ stage[r] = "publish" /\ faults < MaxFaults
    /\ \/ /\ crates[r] = "status"
          /\ \E label \in {"failed", "upload"} :
               crates' = [crates EXCEPT ![r] = label]
          /\ UNCHANGED <<uploaded, next, attempt>>
       \/ /\ crates[r] = "upload"
          /\ Again(r)
          /\ \/ Accepts(version[r], Crate(r)) /\ Store(r)
             \/ uploaded' = uploaded
    /\ faults' = faults + 1
    /\ UNCHANGED <<npm, latest, tags, stage, halted, override, fetched,
                   version, seen, package, reruns>>

----------------------------------------------------------------------------
(* Job publish-npm *)

Npm(r, label) == package' = [package EXCEPT ![r] = label]

\* npm view: a version that is there is skipped.
View(r) ==
    /\ stage[r] = "publish" /\ package[r] = "view"
    /\ Npm(r, IF version[r] \in npm THEN "ok" ELSE "upload")
    /\ UNCHANGED <<registries, stage, halted, override, fetched, version,
                   seen, crates, next, attempt, bounds>>

\* npm publish of a version that npm does not have yet.
StoreNpm(r) ==
    /\ version[r] \notin npm
    /\ npm' = npm \cup {version[r]}
    /\ latest' = version[r]

UploadNpm(r) ==
    /\ stage[r] = "publish" /\ package[r] = "upload"
    /\ \/ StoreNpm(r) /\ Npm(r, "ok")
       \/ version[r] \in npm /\ Npm(r, "failed") /\ UNCHANGED <<npm, latest>>
    /\ UNCHANGED <<uploaded, tags, stage, halted, override, fetched, version,
                   seen, crates, next, attempt, bounds>>

\* npm view fails, which counts as "not there"; npm publish fails, applied or
\* not; the job fails before.
NpmFault(r) ==
    /\ stage[r] = "publish" /\ faults < MaxFaults
    /\ \/ package[r] = "view" /\ Npm(r, "upload") /\ UNCHANGED <<npm, latest>>
       \/ /\ package[r] \in {"view", "upload"} /\ Npm(r, "failed")
          /\ \/ package[r] = "upload" /\ StoreNpm(r)
             \/ UNCHANGED <<npm, latest>>
    /\ faults' = faults + 1
    /\ UNCHANGED <<uploaded, tags, stage, halted, override, fetched, version,
                   seen, crates, next, attempt, reruns>>

----------------------------------------------------------------------------
(* Job github-release, failures and re-runs *)

\* Faulty variant: the job does not need publish-npm.
SucceededCrates(r) == crates[r] = "ok" /\ package[r] \in {"ok", "failed"}

Succeeded(r) == crates[r] = "ok" /\ package[r] = "ok"

\* The tag and the GitHub Release are created, or its assets replaced.
GithubRelease(r) ==
    /\ stage[r] = "publish" /\ r \notin halted /\ Succeeded(r)
    /\ tags' = tags \cup {version[r]}
    /\ Goto(r, "done")
    /\ UNCHANGED <<uploaded, npm, latest, halted, override, fetched, version,
                   seen, jobs, bounds>>

\* A publishing job failed and the other one has ended.
Conclude(r) ==
    /\ stage[r] = "publish" /\ r \notin halted
    /\ {crates[r], package[r]} \in {{"ok", "failed"}, {"failed"}}
    /\ Halt(r)
    /\ UNCHANGED <<registries, stage, override, fetched, version, seen, jobs,
                   bounds>>

\* Any other job fails; github-release may have created its tag.
Fault(r) ==
    /\ Active(r) /\ faults < MaxFaults
    /\ stage[r] = "publish" => Succeeded(r)
    /\ \/ tags' = tags
       \/ stage[r] = "publish" /\ tags' = tags \cup {version[r]}
    /\ faults' = faults + 1
    /\ Halt(r)
    /\ UNCHANGED <<uploaded, npm, latest, stage, override, fetched, version,
                   seen, jobs, reruns>>

\* Re-run failed jobs: the version job starts over, the others keep the
\* version that was resolved.
Rerun(r) ==
    /\ r \in halted /\ reruns < MaxReruns /\ GroupFree(r, override[r])
    /\ reruns' = reruns + 1
    /\ halted' = halted \ {r}
    /\ Goto(r, IF stage[r] \in {"package", "publish"} THEN stage[r]
               ELSE IF override[r] = 0 THEN "crate" ELSE "resolve")
    /\ IF stage[r] \in {"package", "publish"} THEN fetched' = fetched
                                              ELSE Checkout(r)
    /\ IF crates[r] = "failed"
         THEN /\ crates' = [crates EXCEPT ![r] = "status"]
              /\ next' = [next EXCEPT ![r] = 1]
              /\ attempt' = [attempt EXCEPT ![r] = 1]
         ELSE UNCHANGED <<crates, next, attempt>>
    /\ Npm(r, IF package[r] = "failed" THEN "view" ELSE package[r])
    /\ UNCHANGED <<registries, override, version, seen, faults>>

----------------------------------------------------------------------------

Progress(r) ==
    \/ ReadCrate(r) /\ r \notin halted
    \/ Resolve(r) /\ r \notin halted
    \/ Validate(r) /\ r \notin halted
    \/ Package(r) /\ r \notin halted
    \/ Status(r) \/ Upload(r) \/ View(r) \/ UploadNpm(r)
    \/ GithubRelease(r) \/ Conclude(r)

Next ==
    \E r \in Runs :
        \/ \E o \in Overrides \cup {0} : Dispatch(r, o)
        \/ Progress(r) \/ CratesFault(r) \/ NpmFault(r) \/ Fault(r)
        \/ Rerun(r)

Spec == Init /\ [][Next]_vars

\* Started jobs keep running.
FairSpec == Spec /\ \A r \in Runs : WF_vars(Progress(r))

----------------------------------------------------------------------------
(* Properties *)

\* Types of the release's state; in particular a crate is never tried more
\* than Attempts times.
TypeOK ==
    /\ uploaded \subseteq Nat \X Names
    /\ npm \subseteq Nat /\ latest \in Nat /\ tags \subseteq Nat
    /\ stage \in [Runs -> {"new", "crate", "resolve", "validate", "package",
                           "publish", "done"}]
    /\ halted \subseteq Runs
    /\ override \in [Runs -> Nat] /\ version \in [Runs -> Nat]
    /\ fetched \in [Runs -> SUBSET Nat]
    /\ seen \in [Runs -> [crate : Nat, npm : Nat]]
    /\ crates \in [Runs -> {"waiting", "status", "upload", "ok", "failed"}]
    /\ next \in [Runs -> 1..Len(CRATES) + 1]
    /\ attempt \in [Runs -> 1..Attempts]
    /\ package \in [Runs -> {"waiting", "view", "upload", "ok", "failed"}]
    /\ faults \in Nat /\ reruns \in Nat

\* A tag v<version> promises that the version is on both registries, whole:
\* through failed uploads, races of overlapping runs and partial re-runs.
TagComplete == \A v \in tags : Published(v, Names) /\ v \in npm

\* cargo publish is only called for a crate whose dependencies are published
\* in this version: an attempt that is refused for another reason is a fault,
\* and the attempts are not used up by waiting for crates that never come.
NeverPremature ==
    \A r \in Runs : crates[r] = "upload" =>
        Published(version[r], Dependencies[Crate(r)])

\* The next patch leaves nothing behind but objsds-queue: when a run resolves
\* its version from both registries, the version before is on npm and, except
\* for the one crate that is published after objsds, on crates.io.
OnlyQueueLeftBehind ==
    \A r \in Runs :
        seen[r].crate # 0 /\ seen[r].npm # 0 =>
            /\ Published(version[r] - 1, Names \ {"queue"})
            /\ version[r] - 1 \in npm

\* No other run works on the version of r.
Alone(r) == \A q \in Runs \ {r} : ~(Active(q) /\ version[q] = version[r])

\* A partial release can be finished: a run with the version as its input gets
\* to the tag, whatever was published before, if nothing fails any more and no
\* other run interferes.
ReleaseResumes ==
    \A r \in Runs, v \in Overrides :
        [](/\ stage[r] = "resolve" /\ r \notin halted /\ override[r] = v
           /\ faults = MaxFaults /\ []Alone(r)
           => <>(v \in tags))
=============================================================================

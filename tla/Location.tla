------------------------------ MODULE Location ------------------------------
(***************************************************************************)
(* From the strings a caller configures to the object and the lock file of *)
(* a structure: is_path_segment and Location (crates/objsds-store/src/     *)
(* location.rs), the client and structure builders, and the paths of the   *)
(* filesystem adapter (crates/objsds-store-filesystem/src/path.rs).        *)
(*                                                                         *)
(* A string is the sequence of its words, the parts between slashes:       *)
(* "a/./b" is <<"a", "dot", "b">>, "" is <<"empty">>, "a/" is              *)
(* <<"a", "empty">>; the words "", "." and ".." are named, not spelled.    *)
(***************************************************************************)
EXTENDS Integers, Sequences, FiniteSets

CONSTANTS
    Words,      \* strings without a slash
    Values,     \* strings that callers pass to the builders
    Json,       \* format!("{name}.json") on the last word of a name
    LockNames   \* the file names lock_path makes: hexadecimal digits, ".lock"

Kinds == {"maps", "logs", "queues"}

\* Words that are no names, and the words that Path::components drops.
Special == {"empty", "dot", "dotdot"}
Dropped == {"empty", "dot"}

\* An Option that is not set.
None == <<>>

ASSUME LocationAssumption ==
    /\ Values \subseteq Seq(Words) /\ None \notin Values
    /\ \A v, w \in Words : Json[v] = Json[w] => v = w
    /\ \A w \in Words : Json[w] \notin Special
    /\ LockNames \cap Kinds = {}

----------------------------------------------------------------------------
(* Locations *)

\* Faulty variant: a value with a slash passes.
IsPathSegmentWithSlash(v) == v \notin {<<w>> : w \in Special}

\* One word that is not empty, "." or "..".
IsPathSegment(v) == Len(v) = 1 /\ v[1] \notin Special

\* Location::new: not empty, no leading slash, no "//".
IsLocation(v) == v[1] # "empty" /\ \A i \in 2..Len(v) - 1 : v[i] # "empty"

\* Location::structure, which validates its parts again.
Structure(namespace, kind, name) ==
    namespace \o <<kind>> \o [name EXCEPT ![Len(name)] = Json[@]]

IsStructure(namespace, kind, name) ==
    /\ IsPathSegment(namespace) /\ IsPathSegment(name)
    /\ IsLocation(Structure(namespace, kind, name))

----------------------------------------------------------------------------
(* Builders.  The order of their checks only decides which BuildError is   *)
(* returned. *)

Configurations ==
    [kind : Kinds, namespace : Values \cup {None}, name : Values,
     schema : {None, <<"empty">>} \cup Values]

HasSchema(b) == b.schema \notin {None, <<"empty">>}

\* ObjsdsBuilder::build.
ClientBuilds(b) == b.namespace # None /\ IsPathSegment(b.namespace)

\* MapBuilder and LogBuilder: location() at once, the rest in finish.
ClientFinishes(b) ==
    /\ ClientBuilds(b)
    /\ IsPathSegment(b.name) /\ IsStructure(b.namespace, b.kind, b.name)
    /\ HasSchema(b)

\* QueueBuilder::finish; the namespace is an argument and always there.
QueueFinishes(b) ==
    /\ b.namespace # None
    /\ IsPathSegment(b.namespace) /\ IsPathSegment(b.name)
    /\ HasSchema(b) /\ IsStructure(b.namespace, b.kind, b.name)

\* The configurations for which a handle is built, and its location.
Built ==
    {b \in Configurations : IF b.kind = "queues" THEN QueueFinishes(b)
                                                 ELSE ClientFinishes(b)}

LocationOf(b) == Structure(b.namespace, b.kind, b.name)

----------------------------------------------------------------------------
(* Paths of the filesystem adapter *)

\* object_path: every component is Normal.  Path::components drops empty
\* words and "." except in front.
IsObjectPath(v) == v[1] # "dot" /\ \A i \in DOMAIN v : v[i] # "dotdot"

Kept(v) == {i \in DOMAIN v : v[i] \notin Dropped}

\* The path below the root as the kernel walks it, each component with its
\* depth: one path is a directory of another, or equal, iff it is a subset.
Components(v) ==
    {<<Cardinality(Kept(v) \cap 1..i), v[i]>> : i \in Kept(v)}

LockDirectory == "objsds_locks"

\* lock_path encodes the spelling of the location, whatever file it names.
LockFiles == {{<<1, LockDirectory>>, <<2, n>>} : n \in LockNames}

----------------------------------------------------------------------------

\* Structures that differ in namespace, kind or name have different objects
\* (and so differently spelled locations and different lock files), no object
\* lies where another structure needs a directory, and none is, contains or
\* lies below a lock file: what configuration strings callers may combine, the
\* builders' checks keep their objects, directories and locks apart.
StructuresApart ==
    \A b \in Built :
        LET object == Components(LocationOf(b)) IN
        /\ IsObjectPath(LocationOf(b))
        /\ \A d \in Built :
             object \subseteq Components(LocationOf(d)) =>
               <<b.namespace, b.kind, b.name>> = <<d.namespace, d.kind, d.name>>
        /\ \A lock \in LockFiles : ~(object \subseteq lock)
                                   /\ ~(lock \subseteq object)
=============================================================================

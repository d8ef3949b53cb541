----------------------------- MODULE Structures -----------------------------
(***************************************************************************)
(* Structures on the filesystem adapter: the objects of FilesystemStore at *)
(* the locations that the builders of Location make from configuration     *)
(* strings, and the paths of crates/objsds-store-filesystem/src/path.rs.   *)
(***************************************************************************)
EXTENDS Location, FilesystemStore

\* The locations of all handles that can be built.
BuiltLocations == {LocationOf(b) : b \in Built}

\* One of two paths is, or contains, the other.
Meet(path, other) == path \subseteq other \/ other \subseteq path

----------------------------------------------------------------------------

\* An object that exists belongs to one structure: whatever namespaces, kinds
\* and names callers combine, the builders accept none that leads to the same
\* object by another spelling, needs a directory in its place or lies below
\* it, and the object is, contains and lies below no lock file.
ObjectsApart ==
    \A l \in Locations : files[PathOf[l]] # NoFile =>
        /\ \A other \in BuiltLocations :
             Meet(Components(l), Components(other)) => l = other
        /\ \A lock \in LockFiles : ~Meet(Components(l), lock)
=============================================================================

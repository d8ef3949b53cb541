------------------------- MODULE MCFilesystemStore -------------------------
(* Instances of Structures, and so of FilesystemStore and Location, for TLC. *)
EXTENDS Structures

CONSTANTS c1, c2, f1

MCWords == Special \cup {"a", "a.json", "maps", LockDirectory, "61.lock"}

MCValues ==
    {<<w>> : w \in MCWords}
    \cup {<<"a", "maps">>, <<"a", "a.json">>, <<"dot", "a">>, <<"a", "empty">>,
          <<LockDirectory, "61.lock">>, <<"empty", "a">>, <<"dotdot", "a">>,
          <<"maps", "a">>}

MCJson == [w \in MCWords |-> w \o ".json"]

MCLockNames == {"61.lock"}

\* The location of one structure.
OneLocation == {Structure(<<"a">>, "maps", <<"a">>)}

\* Location::new accepts both "a/./b" and "a/b"; object_path makes one file
\* of them.
Aliases == {<<"a", "dot", "a">>, <<"a", "a">>}

ASSUME \A l \in Aliases : IsLocation(l) /\ IsObjectPath(l)

\* The locations of either instance are one file.
OneFile == [l \in Locations |-> f1]

ASSUME \A l, m \in Locations : Components(l) = Components(m)
============================================================================

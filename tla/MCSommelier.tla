---------------------------- MODULE MCSommelier ----------------------------
(***************************************************************************)
(* SommelierApi for TLC.                                                   *)
(***************************************************************************)
EXTENDS SommelierApi, TLC

CONSTANTS b1, p1, p2, s0, f0, n1, q1, a1

\* Callers, sessions and profiles are interchangeable, as long as every library
\* is there under each name.
Symmetry == {c @@ s @@ p : c \in Permutations(Clients), s \in Permutations(Sessions),
                           p \in Permutations(Profiles)}

\* A column and its back-fill, as the fifth version has them, and then, in the
\* transaction of the back-fill, the table of the presets.
Migrations ==
  <<[version |-> 2, needs |-> {}, fills |-> FALSE],
    [version |-> 2, needs |-> {1}, fills |-> TRUE],
    [version |-> 3, needs |-> {}, fills |-> FALSE]>>
NoMigrations == <<>>

Migrated == [NoDatabase EXCEPT !.version = LastVersion, !.migrated = Statements,
                               !.presets = SystemPresets]

\* A library in use: a bean in a hopper, two profiles, a session with a recipe
\* and a favorite made of it.  Or a database of the first version, or none.
Library(s, p) == [Migrated EXCEPT
  !.beans = {b1}, !.hoppers = [h \in Hoppers |-> IF h = 1 THEN b1 ELSE None],
  !.profiles = {p1, p2}, !.active = {p},
  !.sessions = {[id |-> s, profile |-> None, hopper |-> [h \in Hoppers |-> None]]},
  !.recipes = {<<s, 1>>},
  !.favorites = {[id |-> f0, source |-> <<s, 1>>]}]

FirstVersion == [NoDatabase EXCEPT !.version = 1]
Libraries == {Library(s, p) : s \in Sessions, p \in {p1, p2}} \cup {FirstVersion, NoDatabase}

\* The same with a pantry.
Catalog == [Library(s0, p1) EXCEPT
  !.producers = [p \in Producers |-> IF p = q1 THEN n1 ELSE None],
  !.additives = {[id |-> a1, producer |-> q1, available |-> TRUE]}]
Catalogs == {Catalog, NoDatabase}
=============================================================================

----------------------------- MODULE Ownership -----------------------------
(***************************************************************************)
(* Who owns a path: tracker definitions, as their files give them, and the *)
(* rules that settle a path's owner (tracker.rs; trackers.md, Ownership).  *)
(*                                                                         *)
(* A path is a sequence of components and "." is the empty one; a tracker's*)
(* definition file is named by its stem, so that of `a` is at              *)
(* .newgit/trackers/a.  An id is the sequence of the names it joins.       *)
(***************************************************************************)
EXTENDS Integers, FiniteSets, Sequences, SequencesExt, Functions, FiniteSetsExt

CONSTANTS
    Alphabet,       \* the path components and names in use, in byte order
    Audiences       \* the audiences a definition may name

ASSUME AlphabetAssumption == Alphabet \in Seq(STRING)

Dot == <<>>
DefinitionsDir == <<".newgit", "trackers">>
PinsDir == <<".newgit", "pins">>
RootTracker == <<"root">>
Access == "access"
Project == "project"

Rank(s) == IF s \in Range(Alphabet)
           THEN CHOOSE i \in DOMAIN Alphabet : Alphabet[i] = s ELSE 0

\* The byte order of two sequences of components.
Before(s, t) ==
    LET same == {i \in 0..Min({Len(s), Len(t)}) : SubSeq(s, 1, i) = SubSeq(t, 1, i)}
        n == Max(same) + 1
    IN  IF n > Len(s) THEN n <= Len(t)
        ELSE n <= Len(t) /\ Rank(s[n]) < Rank(t[n])

Under(path, dir) == IsPrefix(dir, path)
Relative(path, dir) == SubSeq(path, Len(dir) + 1, Len(path))

ChildId(parent, name) == IF parent = RootTracker THEN <<name>> ELSE Append(parent, name)
LeafName(id) == Last(id)
\* Names that would make two ids look alike: "__" inside, "_" at an end.
NameFitsId(name) == name # "_"

(***************************************************************************)
(* Definitions.  A file holds mount, claims (each a path and whether `!`   *)
(* excludes it), git, audience, role and requires.                         *)
(***************************************************************************)
RelativePath(p) == p = Dot \/ (Head(p) # "/" /\ ".." \notin Range(p))
Normalized(p) == IF RelativePath(p) THEN SelectSeq(p, LAMBDA c : c # ".") ELSE p

PlacedClaim(mount, p) ==
    LET path == Normalized(p) IN IF RelativePath(path) THEN mount \o path ELSE path

FromText(name, file) ==
    LET mount == Normalized(file.mount)
        placed(out) == {PlacedClaim(mount, c.path) : c \in {d \in file.claims : d.out = out}}
    IN  [name |-> name, mount |-> mount, claims |-> file.claims,
         paths |-> placed(FALSE), exclusions |-> placed(TRUE),
         git |-> file.git, audience |-> file.audience, role |-> file.role,
         requires |-> file.requires, parent |-> {}]

ToFile(d) ==
    [mount |-> d.mount, claims |-> d.claims, git |-> d.git, audience |-> d.audience,
     role |-> d.role, requires |-> d.requires]

Mounted(d) == d.mount # Dot
OwnsEverything(d) == Dot \in d.paths
Carved(d) == d.git /\ ~OwnsEverything(d)

InGit(name, audience, mount) ==
    FromText(name, [mount |-> mount, claims |-> {[path |-> Dot, out |-> FALSE]}, git |-> TRUE,
                    audience |-> audience, role |-> {}, requires |-> {}])
RootDefinition(id) == InGit(id, "project-devs", Dot)
AccessDefinition == InGit(<<Access>>, "project-devs", DefinitionsDir)

\* A definition read from `parent`'s own tree, moved to where it is mounted.
NestUnder(d, parent, at) ==
    [d EXCEPT !.paths = {at \o p : p \in @}, !.exclusions = {at \o p : p \in @},
              !.mount = at \o @, !.name = ChildId(parent, LeafName(@)), !.parent = {parent}]

\* `tracker track`: paths added to a definition.
WithAddedPaths(d, added) ==
    [d EXCEPT !.paths = @ \union {Normalized(p) : p \in added},
              !.claims = @ \union {[path |-> Normalized(p), out |-> FALSE] : p \in added \ d.paths}]

IsDefinitionFile(p) == Len(p) = 3 /\ Under(p, DefinitionsDir)

\* What validate lets a definition claim.
MayClaim(d, p) ==
    \/ p = Dot
    \/ /\ RelativePath(p)
       /\ IF IsDefinitionFile(p)
          THEN Last(p) # Access /\ Last(p) # LeafName(d.name) /\ Carved(d)
          ELSE Head(p) \notin {".git", ".newgit"}

Valid(d) ==
    /\ d.audience \in Audiences
    /\ OwnsEverything(d) => Cardinality(d.paths) = 1
    /\ \/ LeafName(d.name) = Project /\ d.paths = {<<".newgit">>}
       \/ LeafName(d.name) = Access /\ d.paths = {DefinitionsDir}
       \/ \A p \in d.paths \union d.exclusions \union
                   {m \in {d.mount} : m # Dot /\ ~(d.git /\ m = DefinitionsDir)} : MayClaim(d, p)

(***************************************************************************)
(* owner_of: the deepest mount holding the path decides, and there the     *)
(* longest claim.                                                          *)
(***************************************************************************)
ClaimsOn(d, p) ==
    IF \E x \in d.exclusions : Under(p, x) THEN {} ELSE {Len(c) : c \in {q \in d.paths : Under(p, q)}}

OwnersOf(definitions, p) ==
    LET holding == {d \in definitions : Under(p, d.mount)}
        there == {d \in holding : \A e \in holding : Len(e.mount) <= Len(d.mount)}
        claiming == {d \in there : ClaimsOn(d, p) # {}}
    IN  {d \in claiming : \A e \in claiming \ {d} :
            \/ Max(ClaimsOn(e, p)) < Max(ClaimsOn(d, p))
            \/ Max(ClaimsOn(e, p)) = Max(ClaimsOn(d, p)) /\ ~Before(e.name, d.name)}

(***************************************************************************)
(* resolve_ownership: what of a tracker's own is another's, settled once   *)
(* for all paths, and who conflicts.                                       *)
(***************************************************************************)
Conflicts(definitions) ==
    \/ Cardinality({d \in definitions : OwnsEverything(d)}) > 1
    \/ \E d \in definitions : \E e \in definitions \ {d} :
          /\ d.role = {} \/ d.role # e.role
          /\ d.paths \intersect e.paths # {}

Excluded(definitions, d) ==
    LET others == {e \in definitions : e.name # d.name}
    IN  {p \in UNION {e.paths : e \in others} :
            p # Dot /\ \E outer \in d.paths : outer = Dot \/ (p # outer /\ Under(p, outer))}
        \union
        {m \in {e.mount : e \in {o \in others : Mounted(o)}} :
            Len(m) > Len(d.mount) /\ \E outer \in d.paths : Under(m, outer)}

Owns(definitions, d, p) ==
    /\ \E c \in d.paths : Under(p, c)
    /\ \A x \in d.exclusions \union Excluded(definitions, d) : ~Under(p, x)

\* A nested definition's requires, read as a path from its parent's tree.
RequiresOf(definitions, d) ==
    LET step(path, part) == IF part \in {"", "."} THEN path
                            ELSE IF part = ".." THEN SubSeq(path, 1, Len(path) - 1)
                            ELSE Append(path, part)
        named(parent, needed) == FoldLeft(step, parent, needed)
    IN  {IF d.parent = {} THEN needed
         ELSE LET id == named(CHOOSE parent \in d.parent : TRUE, needed)
              IN  IF \E e \in definitions : e.name = id THEN id ELSE needed
            : needed \in d.requires}

(***************************************************************************)
(* Links: whether a link's target, judged by its text, stays inside.       *)
(***************************************************************************)
LinkTargetInside(link, target) ==
    LET climb(at, c) == IF at = {} \/ c = "." THEN at
                        ELSE LET here == CHOOSE p \in at : TRUE
                             IN  IF c = "/" THEN {}
                                 ELSE IF c # ".." THEN {Append(here, c)}
                                 ELSE IF here = Dot THEN {} ELSE {Front(here)}
    IN  target # <<>> /\ FoldLeft(climb, {Front(link)}, target) # {}
=============================================================================

----------------------------- MODULE Projection -----------------------------
(***************************************************************************)
(* A project whose Git is composed of trackers, at work: instances commit  *)
(* and merge in views of it, each commit is split into the trackers' own   *)
(* histories, trackers are carved and imported, and mirrors are exported   *)
(* to and pulled from (manager.rs on top of compose.rs).                   *)
(*                                                                         *)
(* Each reader stands for an instance whose state is its root branch; what *)
(* it shows is the view composed from that.  Home is the project root.     *)
(***************************************************************************)
EXTENDS Compose

CONSTANTS
    Reader, Home,   \* the instances; Home is the project root itself
    Sees,           \* how each reader composes and splits
    Layouts,        \* the trees a project may have grown through, in order
    Edited,         \* the sets of files a commit may write
    Removed,        \* the files a commit may remove
    Redefinitions,  \* [at, file]: definitions Home may write by hand
    Carves,         \* [name, mount, audience]: trackers Home may carve
    Imports,        \* [name, mount, audience, commit]: histories it may import
    Targets,        \* [name, root, trackers]: mirrors
    WritesUnseen,   \* whether an instance writes where a tracker it lacks is
    MaxStep         \* bound on the steps of a behaviour

ASSUME ProjectionAssumption == Home \in Reader /\ MaxStep \in Nat

VARIABLES
    heads,          \* each instance's root branch
    work,           \* the view commit it has checked out
    notes,          \* the root commit each view commit stands for, as noted
    mirrors,        \* each target's branch: at most one commit
    last,           \* the step last taken: what was committed and its root
    step

vars == <<heads, work, notes, mirrors, last, step>>

(***************************************************************************)
(* Composing and splitting in a repository, which notes what stands for    *)
(* what.                                                                   *)
(***************************************************************************)
Readable(root, r) == Composes(root, RootTracker, Sees[r])

\* Composing commit `tip` of tracker `root` notes every view commit of its
\* history.
NotesOf(tip, root, as) ==
    LET views == {<<c, View(c, root, as)>> : c \in Ancestors(tip)}
        made == {<<v[2].id, v[1]>> : v \in {w \in views : w[2].noted}}
    IN  [id \in {m[1] : m \in made} |-> (CHOOSE m \in made : m[1] = id)[2]]

ComposeNotes(root, as) == NotesOf(root, RootTracker, as)

\* The commits view commit `v` stands for: by its note, or named by one.
KnownFor(noted, head, v) ==
    IF v \in DOMAIN noted THEN {noted[v]}
    ELSE {c \in Ancestors(head) : IsSplit(c.message) /\ ParseSplit(c.message).source = v}
RootsOf(r, v) == KnownFor(notes[r], heads[r], v)

Definitions(tree) == Flattened(tree, Dot, RootTracker)

LoadedImported(tree) ==
    LET top == DefinitionsIn(tree, RootTracker)
        dir(d) == d.mount \o DefinitionsDir
        files(d) == {p \in DOMAIN tree : Under(p, dir(d)) /\ Len(p) = Len(dir(d)) + 1}
        inside(d) ==
            IF ~d.git \/ ~Mounted(d) THEN {}
            ELSE {NestUnder(FromText(<<Last(p)>>, tree[p]), d.name, d.mount) : p \in files(d)}
    IN  top \union UNION {inside(d) : d \in top}

\* The project's definitions as the store loads them from a working tree.
Loaded(tree) ==
    LET top == DefinitionsIn(tree, RootTracker)
        dir(d) == d.mount \o DefinitionsDir
        named(d) == {Last(p) : p \in {q \in DOMAIN tree : Under(q, dir(d)) /\ Len(q) = Len(dir(d)) + 1}}
        read(d, n) == FromText(<<n>>, tree[Append(dir(d), n)])
        inside(d) ==
            IF ~d.git \/ ~Mounted(d) \/ d.mount \o <<".newgit", "config">> \in DOMAIN tree THEN {}
            ELSE {NestUnder(read(d, n), d.name, d.mount) : n \in {m \in named(d) :
                     /\ m # LeafName(d.name) /\ NameFitsId(m)
                     /\ Valid(read(d, m)) /\ read(d, m).git /\ Mounted(read(d, m))}}
        more(all) == all \union UNION {inside(d) : d \in all}
    IN  FoldLeft(LAMBDA all, n : more(all), top, <<1, 2, 3>>)
Policy == Definitions(work[Home].tree)

Step(kind, root, view, who) ==
    /\ step' = step + 1
    /\ last' = [kind |-> kind, root |-> root, view |-> view, who |-> who]

\* Instance `r` lands on view commit `v`, and `split` says what it is made of.
Lands(kind, r, v, split, from) ==
    /\ split.refused = {}
    /\ heads' = [heads EXCEPT ![r] = split.root]
    /\ work' = [work EXCEPT ![r] = v]
    /\ notes' = [notes EXCEPT ![r] = (v :> split.root) @@ split.noted @@ @]
    /\ Step(kind, split.root, from, r)

\* Instance `r` has committed `v` on the views of root commits `parents`.  No
\* command runs where the project root's own definitions conflict.
Splits(kind, r, v, parents, newgitMade, policy) ==
    /\ Lands(kind, r, v, SplitView(v, parents, v, newgitMade, policy, Sees[r]) @@ [noted |-> <<>>], v)
    /\ r = Home => ~Conflicts(Definitions(v.tree))
    /\ UNCHANGED mirrors

(***************************************************************************)
(* Work: any edit of a view, committed and split.                          *)
(***************************************************************************)
Written(tree, at, file) == Overlay(tree, [p \in at |-> file])
Fresh == [text |-> step + 1]
Work == <<ToString(step + 1)>>

Mine(r, p, policy) == \A d \in OwnersOf(policy, p) : WritesUnseen \/ d.name \notin Sees[r].lacks

Edits(r, tree, policy) ==
    {Written(tree, at, Fresh) : at \in {ps \in Edited : \A p \in ps : Mine(r, p, policy)}}
    \union {Restrict(tree, DOMAIN tree \ {p}) : p \in Removed \intersect DOMAIN tree}
    \union (IF r = Home THEN {Written(tree, {d.at}, d.file) : d \in Redefinitions}
                             \union {Restrict(tree, DOMAIN tree \ {d.at}) : d \in Redefinitions}
            ELSE {})

CommitWork(r) ==
    LET signature == IF Sees[r].signs THEN {"gpgsig"} ELSE {}
    IN  /\ step < MaxStep
        /\ \E policy \in {Policy} :
           \E root \in RootsOf(r, work[r]), tree \in Edits(r, work[r].tree, policy) :
              Splits("work", r, Commit(tree, NoPins, <<work[r]>>, r, signature, Words(Work)),
                     <<root>>, FALSE, policy)

(***************************************************************************)
(* Git's own merge.  A path both sides changed is a conflict.              *)
(***************************************************************************)
MergeBases(a, b) ==
    LET common == Ancestors(a) \intersect Ancestors(b)
    IN  {c \in common : \A d \in common \ {c} : ~IsAncestor(c, d)}
At(tree, p) == IF p \in DOMAIN tree THEN {tree[p]} ELSE {}
BothChanged(base, ours, theirs) ==
    {p \in ChangedPaths(base, ours) \intersect ChangedPaths(base, theirs) :
        At(ours, p) # At(theirs, p)}
MergedTree(base, ours, theirs) ==
    LET from(p) == IF At(ours, p) = At(base, p) THEN theirs ELSE ours
    IN  [p \in {q \in DOMAIN ours \union DOMAIN theirs : q \in DOMAIN from(q)} |-> from(p)[p]]
BaseTree(a, b) == IF MergeBases(a, b) = {} THEN EmptyTree
                  ELSE (CHOOSE c \in MergeBases(a, b) : TRUE).tree

\* An instance takes in another's branch: composed here, it fast-forwards to
\* it, or merges in its own view, settling conflicts its own way in Git's
\* words, or the other's way in its own words.
Follow(r, o, theirs, noted) ==
    /\ IsAncestor(heads[r], heads[o])
    /\ heads' = [heads EXCEPT ![r] = heads[o]]
    /\ work' = [work EXCEPT ![r] = theirs]
    /\ notes' = [notes EXCEPT ![r] = noted]
    /\ Step("follow", heads[o], theirs, r)
    /\ UNCHANGED mirrors

Merge(r, theirs, base, noted) ==
    LET root(v) == IF v \in DOMAIN noted THEN {noted[v]} ELSE RootsOf(r, v)
        tree(ours) == IF ours THEN MergedTree(base, work[r].tree, theirs.tree)
                      ELSE MergedTree(base, theirs.tree, work[r].tree)
        words(ours) == IF ours THEN <<"Merge">> ELSE Work
    IN  /\ ~IsAncestor(work[r], theirs) /\ ~IsAncestor(theirs, work[r])
        /\ \E a \in root(work[r]), b \in root(theirs), ours \in BOOLEAN :
              Splits("work", r, Commit(tree(ours), NoPins, <<work[r], theirs>>, r, {},
                                       Words(words(ours))), <<a, b>>, FALSE, Policy)

TakeIn(r, o) ==
    /\ step < MaxStep /\ heads[r] # heads[o] /\ Readable(heads[o], r)
    /\ \E theirs \in {View(heads[o], RootTracker, Sees[r]).id},
          noted \in {ComposeNotes(heads[o], Sees[r]) @@ notes[r]} :
          \/ Follow(r, o, theirs, noted)
          \/ Merge(r, theirs, BaseTree(work[r], theirs), noted)

(***************************************************************************)
(* tracker create --git: a directory becomes a tracker.                    *)
(***************************************************************************)
CarvedOf(definitions) == {d \in definitions : Carved(d)}
Occupied(tree, m) == m \in DOMAIN tree \/ HasTree(tree, m)

\* The deepest tracker whose files hold mount `m` becomes the parent (of two at
\* one mount, either).
ParentsAt(carved, m) ==
    LET outer == {d \in carved : /\ d.name # <<Access>> /\ Mounted(d)
                                 /\ d.mount # m /\ Under(m, d.mount)}
    IN  {d \in outer : \A e \in outer : Len(e.mount) <= Len(d.mount)}

CarveIn(c, parent, at, policy) ==
    LET definition == InGit(<<c.name>>, c.audience, Relative(c.mount, at))
        placed == IF at = Dot THEN definition ELSE NestUnder(definition, parent, at)
        tree == Written(work[Home].tree, {at \o DefinitionsDir \o <<c.name>>}, ToFile(definition))
    IN  /\ c.name # LeafName(parent)
        /\ \A d \in policy : d.name # placed.name
        /\ ~Conflicts(policy \union {placed})
        /\ \E root \in RootsOf(Home, work[Home]) :
              Splits("carve", Home, Commit(tree, NoPins, <<work[Home]>>, Home, {},
                                           Words(<<"Create", c.name>>)), <<root>>, TRUE, policy)

Carve(c) ==
    /\ step < MaxStep /\ c.mount # Dot /\ NameFitsId(c.name)
    /\ \E policy \in {Policy} : \E parents \in {ParentsAt(CarvedOf(policy), c.mount)} :
          /\ ~\E d \in CarvedOf(policy) : Mounted(d) /\ d.mount # c.mount /\ Under(d.mount, c.mount)
          /\ \/ parents = {} /\ CarveIn(c, RootTracker, Dot, policy)
             \/ \E d \in parents : CarveIn(c, d.name, d.mount, policy)

(***************************************************************************)
(* Files of a tracker outside Git, in what a history adds.                 *)
(***************************************************************************)
Adds(c) == IF c.parents = <<>> THEN DOMAIN c.tree
           ELSE UNION {{p \in ChangedPaths(c.parents[i].tree, c.tree) : p \in DOMAIN c.tree} :
                           i \in DOMAIN c.parents}
OutsideGit(commits, definitions, mount) ==
    \E c \in commits : \E p \in Adds(c) : \E d \in OwnersOf(definitions, mount \o p) : ~d.git

(***************************************************************************)
(* tracker create --git --from: another repository's history as a tracker. *)
(***************************************************************************)
CommitDefinition(base, name, file, pin) ==
    LET words == Words(<<"Import", name>>)
        access == base.pins[Access]
        added == [p \in {<<name>>} |-> file]
        inAccess == Commit(Overlay(access.tree, added), access.pins, <<access>>, Home, {}, words)
    IN  IF Access \in DOMAIN base.pins
        THEN Commit(base.tree, (name :> pin) @@ (Access :> inAccess) @@ base.pins,
                    <<base>>, Home, {}, words)
        ELSE Commit(Overlay(base.tree, Placed(added, DefinitionsDir)), (name :> pin) @@ base.pins,
                    <<base>>, Home, {}, words)

\* The project root takes root commit `root`, a commit of newgit's own.
Takes(kind, root, view, from) ==
    /\ Readable(root, Home) /\ IsAncestor(work[Home], view)
    /\ heads' = [heads EXCEPT ![Home] = root]
    /\ work' = [work EXCEPT ![Home] = view]
    /\ notes' = [notes EXCEPT ![Home] = ComposeNotes(root, Sees[Home]) @@ @]
    /\ Step(kind, root, from, Home)
    /\ UNCHANGED mirrors
Adopts(kind, root, from) == Takes(kind, root, View(root, RootTracker, Sees[Home]).id, from)

Import(i) ==
    LET definition == InGit(<<i.name>>, i.audience, i.mount)
    IN  /\ step < MaxStep /\ i.mount # Dot /\ NameFitsId(i.name)
        /\ \E policy \in {Policy} :
              /\ \A d \in policy : d.name # <<i.name>>
              /\ ~Conflicts(policy \union {definition})
              /\ ~OutsideGit(Ancestors(i.commit), policy \union {definition}, i.mount)
        /\ ~Occupied(work[Home].tree, i.mount)
        /\ Adopts("import", CommitDefinition(heads[Home], i.name, ToFile(definition), i.commit),
                  i.commit)

(***************************************************************************)
(* Exports.  A target ships the trackers it lists, or the public ones, or  *)
(* a tracker it is rooted at with what that mounts.                        *)
(***************************************************************************)
ExportReason(t, d) ==
    IF t.root # {} THEN IF d.name \in t.root THEN "root"
                        ELSE IF \E r \in t.root : IsStrictPrefix(r, d.name) THEN "mounted"
                        ELSE "withheld"
    ELSE IF ~(IF t.trackers = {} THEN d.audience = "public" ELSE d.name \in t.trackers)
    THEN "withheld" ELSE IF d.audience = "public" THEN "public" ELSE "listed"

Shipped(t, all) == {d \in CarvedOf(all) \union {e \in all : e.name = RootTracker} :
                        ExportReason(t, d) # "withheld"}
\* A target naming what is no tracker in Git here is an error.
Checked(t, all) == t.root \union t.trackers \subseteq
                       {d.name : d \in {e \in all : Carved(e) \/ e.name = RootTracker}}
Withholds(t, all) == {d \in CarvedOf(all) : ExportReason(t, d) = "withheld"}

\* What a rooted target would lose, or send past its audience.
NarrowerChildren(t, all) ==
    \E r \in t.root : \E d \in CarvedOf(all) : d.name = r /\
        \/ \E w \in Withholds(t, all) : w.mount # d.mount /\ Under(w.mount, d.mount)
        \/ \E c \in Shipped(t, all) : c.name # r /\ c.audience \notin {d.audience, "public"}

ExportRoot(t) == IF t.root = {} THEN RootTracker ELSE CHOOSE r \in t.root : TRUE
ExportCommits(t) == {h[2] : h \in {g \in HeldBy(heads[Home], RootTracker, Sees[Home]) :
                                       g[1] = ExportRoot(t)}}
ExportMount(t, all) == LET named == {d \in all : d.name = ExportRoot(t)}
                       IN  IF named = {} THEN Dot ELSE (CHOOSE d \in named : TRUE).mount
\* How Home composes for target `t`, the project's definitions being `all`.
Shipping(t, all) == [Sees[Home] EXCEPT !.reads = {d.name : d \in Shipped(t, all)}]

\* Commit `c`, composed to `tip` as the target is shown it, may leave.
Exportable(t, c, as, tip, all) ==
    /\ Composes(c, ExportRoot(t), as)
    /\ ~NarrowerChildren(t, all)
    /\ ~OutsideGit(Ancestors(tip), all, ExportMount(t, all))

\* It is pushed where it descends from what the target has.
Sends(t, c, as, tip, all) ==
    /\ Exportable(t, c, as, tip, all)
    /\ \A old \in mirrors[t.name] : IsAncestor(old, tip) /\ old # tip
    /\ mirrors' = [mirrors EXCEPT ![t.name] = {tip}]
    /\ notes' = IF t.root = {} THEN [notes EXCEPT ![Home] = ComposeNotes(c, as) @@ @] ELSE notes
    /\ Step("export", heads[Home], tip, Home)
    /\ UNCHANGED <<heads, work>>

Export(t) ==
    /\ step < MaxStep
    /\ \E all \in {Policy}, c \in ExportCommits(t) :
          /\ Checked(t, all)
          /\ \E as \in {Shipping(t, all)} : Sends(t, c, as, View(c, ExportRoot(t), as).id, all)

\* Somebody else commits to a mirror; to one tracker's, a file of its own or
\* of one it mounts.
Outsider(t) ==
    /\ step < MaxStep
    /\ \E tip \in mirrors[t.name], p \in UNION Edited, all \in {Policy} :
          LET at == IF t.root = {} THEN p ELSE Relative(p, ExportMount(t, all))
              c == Commit(Written(tip.tree, {at}, Fresh), NoPins, <<tip>>, "outsider",
                          {"gpgsig"}, Words(Work))
          IN  /\ \A r \in t.root : OwnersOf(all, p) # {}
                                  /\ \A d \in OwnersOf(all, p) : IsPrefix(r, d.name)
              /\ mirrors' = [mirrors EXCEPT ![t.name] = {c}]
              /\ Step("outside", heads[Home], c, Home)
    /\ UNCHANGED <<heads, work, notes>>

(***************************************************************************)
(* pull --from a mirror of the project.                                    *)
(***************************************************************************)
\* The withheld tracker `d`'s files, of the parent that is ahead there.
Ahead(parents, d) ==
    {i \in DOMAIN parents : \A j \in DOMAIN parents :
        \/ Subtree(parents[j].tree, d.mount) = Subtree(parents[i].tree, d.mount)
        \/ IsAncestor(parents[j], parents[i])}

RECURSIVE BroughtIn(_, _)
\* Commit `c` of a mirror as a view commit here, the pairs of each rebuilt
\* commit with its original, and why it is refused.
BroughtIn(c, withheld) ==
    LET found == {View(root, RootTracker, Sees[Home]).id : root \in RootsOf(Home, c)}
        brought == [i \in DOMAIN c.parents |-> BroughtIn(c.parents[i], withheld)] \o <<>>
        parents == Distinct([i \in DOMAIN brought |-> brought[i].commit])
        touched == {d \in withheld : Occupied(c.tree, d.mount)}
        unclear == {d \in withheld : Ahead(parents, d) = {}}
        restored == FoldSet(LAMBDA d, tree :
                        PutTree(tree, d.mount, Subtree(parents[Min(Ahead(parents, d))].tree, d.mount)),
                        c.tree, withheld)
        made == [c EXCEPT !.tree = restored, !.parents = parents, !.headers = UnsignedHeaders(@)]
        refused == UNION {brought[i].refused : i \in DOMAIN brought}
        from == UNION {brought[i].origins : i \in DOMAIN brought}
    IN  IF found # {} THEN [commit |-> CHOOSE v \in found : TRUE, origins |-> {}, refused |-> {}]
        ELSE IF c.parents = <<>> THEN [commit |-> c, origins |-> {}, refused |-> {"unrelated"}]
        ELSE IF refused # {} \/ touched # {} \/ unclear # {}
        THEN [commit |-> c, origins |-> {}, refused |-> refused \union {"withheld"}]
        ELSE IF restored = c.tree /\ parents = c.parents
        THEN [commit |-> c, origins |-> from, refused |-> {}]
        ELSE [commit |-> made, origins |-> from \union {<<made, c>>}, refused |-> {}]

\* View commit `v`, split as `split` says behind `parents`, split themselves.
SplitAfter(v, parents, split) ==
    IF \E i \in DOMAIN parents : parents[i].refused # {}
    THEN [root |-> v, noted |-> <<>>, refused |-> {"behind"}]
    ELSE [root |-> split.root, refused |-> split.refused,
          noted |-> FoldLeft(LAMBDA noted, part : part.noted @@ noted, v :> split.root, parents)]

SplitBehind(v, root, parents, sources, policy) ==
    SplitAfter(v, parents,
               SplitRooted(v, root, [i \in DOMAIN parents |-> parents[i].root],
                           IF sources = {} THEN v ELSE CHOOSE c \in sources : TRUE,
                           FALSE, policy, Sees[Home]))

RECURSIVE SplitTo(_, _, _, _, _, _)
\* The commit of tracker `root` that Home's view commit `v` is, its history
\* split as needed where it is neither noted nor named behind `head`: what it
\* is, the notes made on the way, and why it is refused.
SplitTo(v, root, noted, head, origins, policy) ==
    LET known == KnownFor(noted, head, v)
    IN  IF known # {}
        THEN [root |-> CHOOSE c \in known : TRUE, noted |-> <<>>, refused |-> {}]
        ELSE SplitBehind(v, root,
                         [i \in DOMAIN v.parents |->
                             SplitTo(v.parents[i], root, noted, head, origins, policy)] \o <<>>,
                         {o[2] : o \in {p \in origins : p[1] = v}}, policy)
SplitHere(v, origins, policy) == SplitTo(v, RootTracker, notes[Home], heads[Home], origins, policy)

\* Brought in, merged where both moved, and split.  (A commit that cannot be
\* split stays on the project root's branch in the code, and stops there.)
MergedHere(head, tip) ==
    Commit(MergedTree(BaseTree(head, tip), head.tree, tip.tree), NoPins, <<head, tip>>, Home, {},
           Words(<<"Merge">>))

PullBrought(theirs, brought, head, policy) ==
    LET tip == brought.commit
        ahead == IsAncestor(head, tip)
        new == IF ahead THEN tip ELSE MergedHere(head, tip)
    IN  /\ brought.refused = {} /\ ~IsAncestor(tip, head)
        /\ ~OutsideGit(Ancestors(tip) \ Ancestors(head), policy, Dot)
        /\ ahead \/ BothChanged(BaseTree(head, tip), head.tree, tip.tree) = {}
        /\ Lands("pull", Home, new, SplitHere(new, brought.origins, policy), theirs)

Pull(t) ==
    /\ step < MaxStep /\ t.root = {}
    /\ \E theirs \in mirrors[t.name], all \in {Policy} :
          /\ Checked(t, all)
          /\ ~IsAncestor(theirs, work[Home])
          /\ PullBrought(theirs, BroughtIn(theirs, Withholds(t, all)), work[Home], all)
    /\ UNCHANGED mirrors

\* `main` of a tracker takes commits `theirs` in or merges them (Git refuses to
\* merge unrelated histories), and the project root's pin follows, in a commit
\* of its own.
TakeMain(tracker, ours, theirs, bases, from) ==
    LET ahead == IsAncestor(ours, theirs)
        base == CHOOSE c \in bases : TRUE
        main == IF ahead THEN theirs
                ELSE Commit(MergedTree(base.tree, ours.tree, theirs.tree),
                            MergedTree(base.pins, ours.pins, theirs.pins),
                            <<ours, theirs>>, Home, {}, Words(<<"Merge">>))
    IN  /\ ~IsAncestor(theirs, ours)
        /\ ahead \/ /\ bases # {}
                    /\ BothChanged(base.tree, ours.tree, theirs.tree) = {}
                    /\ BothChanged(base.pins, ours.pins, theirs.pins) = {}
        /\ Adopts("pull", Commit(heads[Home].tree,
                                 (LeafName(tracker) :> main) @@ heads[Home].pins,
                                 <<heads[Home]>>, Home, {}, Words(<<"Pull", tracker>>)), from)

TakeSplit(tracker, ours, split, from) ==
    split.refused = {} /\ TakeMain(tracker, ours, split.root, MergeBases(ours, split.root), from)

\* A mirror of one tracker holds its own commits; of one that mounts others,
\* its view, which is split among them.
PullRooted(t) ==
    /\ step < MaxStep /\ t.root # {}
    /\ \E theirs \in mirrors[t.name], ours \in ExportCommits(t), all \in {Policy} :
          LET tracker == ExportRoot(t)
              mounts == \E d \in CarvedOf(all) : IsStrictPrefix(tracker, d.name)
              seen == IF mounts THEN View(ours, tracker, Sees[Home]).id ELSE ours
          IN  /\ Checked(t, all) /\ LeafName(tracker) \in DOMAIN heads[Home].pins
              /\ ~OutsideGit(Ancestors(theirs) \ Ancestors(seen), all, ExportMount(t, all))
              /\ TakeSplit(tracker, ours,
                           IF mounts
                           THEN SplitTo(theirs, tracker, NotesOf(ours, tracker, Sees[Home]), ours,
                                        {}, all)
                           ELSE [root |-> theirs, refused |-> {}], theirs)

\* The mirror gets the project root's branch, recomposed, where that descends
\* from what it has.
SendsBack(t, theirs, root, as, again, all) ==
    mirrors' = IF Exportable(t, root, as, again, all) /\ IsAncestor(theirs, again)
               THEN [mirrors EXCEPT ![t.name] = {again}] ELSE mirrors

FollowsMirror(t, theirs, split, as, all) ==
    /\ Lands("pull", Home, theirs, split, theirs)
    /\ SendsBack(t, theirs, split.root, as, View(split.root, RootTracker, as).id, all)

\* An export to a mirror of the project that is strictly ahead brings what was
\* merged there in first, where the project root's branch can follow it, and
\* sends the mirror what that composes to, which must descend from it.
ExportPulls(t) ==
    /\ step < MaxStep /\ t.root = {}
    /\ \E theirs \in mirrors[t.name], c \in ExportCommits(t), all \in {Policy} :
          /\ Checked(t, all)
          /\ IsAncestor(work[Home], theirs)
          /\ \E as \in {Shipping(t, all)} : \E tip \in {View(c, RootTracker, as).id} :
                /\ Exportable(t, c, as, tip, all)
                /\ tip # theirs /\ IsAncestor(tip, theirs)
                /\ FollowsMirror(t, theirs, SplitHere(theirs, {}, all), as, all)

(***************************************************************************)
(* The specification.                                                      *)
(***************************************************************************)
\* A project grown through `trees`, each carved by a commit of newgit's own,
\* and exported to the mirrors that are not rooted.
Grown(trees) ==
    LET grow(roots, tree) ==
            LET on == [i \in DOMAIN roots |-> View(roots[i], RootTracker, Sees[Home]).id] \o <<>>
                v == Commit(tree, NoPins, on, Home, {}, Words(<<"Create", "project">>))
            IN  <<SplitView(v, roots, v, TRUE, {}, Sees[Home]).root>>
    IN  FoldLeft(grow, <<>>, trees)[1]

Begins(root, all) ==
    LET whole == {t \in Targets : t.root = {} /\ t.trackers \subseteq {d.name : d \in all}}
        sent(n) == {t \in whole : t.name = n}
    IN  /\ heads = [r \in Reader |-> root]
        /\ work = [r \in Reader |-> View(root, RootTracker, Sees[r]).id]
        /\ notes = [r \in Reader |->
                FoldSet(LAMBDA as, noted : ComposeNotes(root, as) @@ noted, <<>>,
                        {Sees[r]} \union (IF r = Home THEN {Shipping(t, all) : t \in whole} ELSE {}))]
        /\ mirrors = [n \in {t.name : t \in Targets} |->
                          {View(root, RootTracker, Shipping(t, all)).id : t \in sent(n)}]
        /\ last = [kind |-> "start", root |-> root, view |-> root, who |-> Home]

Init ==
    /\ \E trees \in Layouts : \E root \in {Grown(trees)} :
          Begins(root, Definitions(View(root, RootTracker, Sees[Home]).tree))
    /\ step = 0

Next ==
    \/ \E r \in Reader : CommitWork(r)
    \/ \E r \in Reader, o \in Reader : TakeIn(r, o)
    \/ \E c \in Carves : Carve(c)
    \/ \E i \in Imports : Import(i)
    \/ \E t \in Targets :
           Export(t) \/ ExportPulls(t) \/ Outsider(t) \/ Pull(t) \/ PullRooted(t)

Spec == Init /\ [][Next]_vars

(***************************************************************************)
(* Properties.                                                             *)
(***************************************************************************)
\* What a reader commits is what it gets back, byte for byte: the root commit
\* its work was split into composes to that very commit (compose, split), as
\* what an outsider committed to a mirror is in what the mirror gets back.
GivenBack ==
    /\ last.kind = "work" => View(last.root, RootTracker, Sees[last.who]).id = last.view
    /\ last.kind = "pull" =>
          \E t \in Targets : \E c \in ExportCommits(t) :
              IsAncestor(last.view, View(c, ExportRoot(t), Shipping(t, Policy)).id)

\* Every commit of every branch composes, for whoever may read the project:
\* no split leaves a history nobody can be shown (compose.rs mount_for).
AlwaysComposes ==
    last.kind # "export" => \A r \in Reader : Composable(last.root, RootTracker, Sees[r], {})

\* A file a tracker in Git owns is in that tracker's commits and in no other's:
\* split_part, that carves them, agrees with owner_of, that judges them.  (A
\* path that lost its owner, or whose owner left Git, is only refused once it
\* changes.)
FileIn(h, definitions, p) ==
    \E d \in definitions :
        d.name = h[1] /\ Under(p, d.mount) /\ Relative(p, d.mount) \in DOMAIN OwnTree(h[2])
SplitAsOwned ==
    LET tree == ViewTree(last.root, RootTracker, Sees[Home])
        held == HeldBy(last.root, RootTracker, Sees[Home])
        all == Definitions(tree)
    IN  \A p \in DOMAIN tree : (\E d \in OwnersOf(all, p) : d.git) /\ ~Conflicts(all) =>
            {h[1] : h \in {g \in held : FileIn(g, all, p)}} = {d.name : d \in OwnersOf(all, p)}

\* A tracker's pin is never behind, nor beside, the one a parent had.
PinsGoForward ==
    \A i \in DOMAIN last.root.parents :
        \A n \in DOMAIN last.root.pins \intersect DOMAIN last.root.parents[i].pins :
            IsAncestor(last.root.parents[i].pins[n], last.root.pins[n])

\* The paths the last commit changed, and the paths reader `r` may not or may
\* read, by who owns them.
Plain == last.kind = "work" /\ Len(last.view.parents) = 1
Touched == IF Plain THEN ChangedPaths(last.view.parents[1].tree, last.view.tree) ELSE {}
OwnedBy(paths, Judged(_)) ==
    LET all == Definitions(last.view.tree)
    IN  {p \in paths : LET names == {d.name : d \in OwnersOf(all, p)}
                       IN  names # {} /\ Judged(names)}
Hidden(paths, r) == OwnedBy(paths, LAMBDA names : ~(names \subseteq Sees[r].reads))
ReadBy(paths, r) == OwnedBy(paths, LAMBDA names : names \subseteq Sees[r].reads)

\* What a reader is shown holds no file of a tracker it may not read, and no
\* message of work on one, even of work on others too (mixed audiences).
KeepsAudience ==
    last.kind \in {"work", "carve", "pull"} =>
    \A r \in {q \in Reader : Sees[q].lacks # {}} :
        LET shown == View(last.root, RootTracker, Sees[r]).id
        IN  /\ Hidden(DOMAIN shown.tree, r) = {}
            /\ Hidden(Touched, r) # {} =>
                  \A c \in Ancestors(shown) : c.message.words # last.view.message.words

\* Who may read a file sees the commit that last changed it, in its author's
\* name and words, however many trackers the work was split over.
CreditsWork ==
    \A r \in Reader \ {last.who} :
        ReadBy(Touched, r) # {} =>
            \E c \in Ancestors(View(last.root, RootTracker, Sees[r]).id) :
                c.message = last.view.message /\ c.by = last.view.by

\* A reader is shown no more than it may read, and what it may read is credited.
ShownToReaders == KeepsAudience /\ CreditsWork

\* The store, that loads definitions from a working tree, and a split, that
\* reads them from a commit, know the same trackers (store.rs
\* load_nested_definitions: "what is skipped here is nobody's child there").
SameDefinitions ==
    LET tree == work[Home].tree
        known(all) == {[d EXCEPT !.parent = {}] : d \in all}
    IN  known(Loaded(tree)) = {d \in known(Definitions(tree)) : d.name # RootTracker}
=============================================================================

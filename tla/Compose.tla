------------------------------ MODULE Compose ------------------------------
(***************************************************************************)
(* How a workspace's Git is composed from the histories of trackers, and   *)
(* how work in it is split back into them (compose.rs, objects.rs).        *)
(*                                                                         *)
(* A commit is the record of what Git hashes: two commits are one exactly  *)
(* when their bytes are.  A tree is a function from the paths of its files *)
(* to their content; a tracker's commit keeps the pins of .newgit/pins     *)
(* beside its tree.  A message is its words and the split trailers after   *)
(* them.  Author, committer and dates are one value, `by`.                 *)
(*                                                                         *)
(* Who composes or splits is a reader:                                     *)
(*   reads  the trackers it may read      lacks  those not here at all     *)
(*   bound  the trackers it works on      signs  whether it signs commits  *)
(***************************************************************************)
EXTENDS Ownership

EmptyTree == <<>>
NoPins == <<>>

(***************************************************************************)
(* Trees.                                                                  *)
(***************************************************************************)
HasTree(tree, m) == m = Dot \/ \E p \in DOMAIN tree : Under(p, m) /\ p # m
Subtree(tree, m) ==
    LET inside == {Relative(p, m) : p \in {q \in DOMAIN tree : Under(q, m) /\ (q # m)}}
    IN  [p \in inside |-> tree[m \o p]]
Without(tree, dirs) == Restrict(tree, {p \in DOMAIN tree : \A d \in dirs : ~Under(p, d)})
Placed(tree, m) == [p \in {m \o q : q \in DOMAIN tree} |-> tree[Relative(p, m)]]

\* `top` laid over `base`: its entries win, directories on both sides merge.
Overlay(base, top) ==
    LET beside == {p \in DOMAIN base : \A q \in DOMAIN top : ~Under(p, q) /\ ~Under(q, p)}
    IN  [p \in beside \union DOMAIN top |-> IF p \in DOMAIN top THEN top[p] ELSE base[p]]

PutTree(tree, m, sub) == Overlay(Without(tree, {m}), Placed(sub, m))
Graft(tree, m, child) == Overlay(tree, Placed(child, m))
ChangedPaths(left, right) ==
    {p \in DOMAIN left \union DOMAIN right :
        ~(p \in DOMAIN left /\ p \in DOMAIN right /\ left[p] = right[p])}

(***************************************************************************)
(* Commits and their messages.                                             *)
(***************************************************************************)
Commit(tree, pins, parents, by, headers, message) ==
    [tree |-> tree, pins |-> pins, parents |-> parents, by |-> by,
     headers |-> headers, message |-> message]
Words(words) == [words |-> words, trailers |-> <<>>]

WithSplitTrailers(message, source, headers) ==
    [message EXCEPT !.trailers = Append(@, [source |-> source, headers |-> headers])]
IsSplit(message) == message.trailers # <<>>
ParseSplitPlain(message) ==
    [message |-> [message EXCEPT !.trailers = Front(@)],
     source |-> Last(message.trailers).source, headers |-> {}]
ParseSplit(message) ==
    [message |-> [message EXCEPT !.trailers = Front(@)],
     source |-> Last(message.trailers).source, headers |-> Last(message.trailers).headers]

UnsignedHeaders(headers) == headers \ {"gpgsig", "mergetag"}
EncodingHeader(headers) == headers \intersect {"encoding"}

RECURSIVE Ancestors(_)
\* A commit and everything behind it.
Ancestors(c) == {c} \union UNION {Ancestors(p) : p \in Range(c.parents)}
IsAncestor(c, d) == c \in Ancestors(d)

\* The members of a set in the order of Less, a strict total order.
InOrder(S, Less(_, _)) ==
    [i \in 1..Cardinality(S) |-> CHOOSE x \in S : Cardinality({y \in S : Less(y, x)}) = i - 1] \o <<>>

\* Each of a sequence once, where it first is.
Distinct(s) == FoldLeft(LAMBDA seen, x : IF x \in Range(seen) THEN seen ELSE Append(seen, x), <<>>, s)

(***************************************************************************)
(* Definitions, as a tree has them.                                        *)
(***************************************************************************)
IsDefinition(tree, p) == p \in DOMAIN tree /\ "mount" \in DOMAIN tree[p]
OwnTree(c) == Without(c.tree, {PinsDir})
Present(id, reader) == id \notin reader.lacks

DefinitionsTreeOwn(c, owner, reader) ==
    IF HasTree(c.tree, DefinitionsDir) THEN {Subtree(c.tree, DefinitionsDir)} ELSE {}

\* The trees holding the definitions of what commit `c` mounts: at most one.
DefinitionsTree(c, owner, reader) ==
    LET mounted == {n \in DOMAIN c.pins :
            /\ Present(ChildId(owner, n), reader)
            /\ IsDefinition(c.pins[n].tree, <<n>>)
            /\ c.pins[n].tree[<<n>>].mount = DefinitionsDir}
    IN  IF HasTree(c.tree, DefinitionsDir) THEN {Subtree(c.tree, DefinitionsDir)}
        ELSE {c.pins[n].tree : n \in {m \in mounted : \A o \in mounted : Rank(m) <= Rank(o)}}

\* Where each wanted child is mounted, of those a definition says so for.
MountsOf(c, owner, wanted, reader) ==
    LET trees == DefinitionsTree(c, owner, reader)
        defined == {n \in wanted : \E t \in trees : IsDefinition(t, <<n>>)}
    IN  [n \in defined |-> (CHOOSE t \in trees : TRUE)[<<n>>].mount]

\* Shallowest first, then by mount and name: the order of grafting.
ByDepth(mounts) ==
    InOrder(DOMAIN mounts, LAMBDA m, n :
        \/ Len(mounts[m]) < Len(mounts[n])
        \/ /\ Len(mounts[m]) = Len(mounts[n])
           /\ \/ Before(mounts[m], mounts[n])
              \/ mounts[m] = mounts[n] /\ Rank(m) < Rank(n))

(***************************************************************************)
(* Compose.                                                                *)
(***************************************************************************)
Expanded(c, owner, reader) ==
    {n \in DOMAIN c.pins : /\ ChildId(owner, n) \in reader.reads
                           /\ Present(ChildId(owner, n), reader)}
MountsFor(c, owner, reader) == MountsOf(c, owner, Expanded(c, owner, reader), reader)

RECURSIVE ChildTree(_, _, _)
\* The tree of commit `c` of tracker `id` as the reader sees it: its own, and
\* each child's under its mount.  No commit's parents are read.
ChildTree(c, id, reader) ==
    LET mounts == MountsFor(c, id, reader)
    IN  FoldLeft(LAMBDA tree, n : Graft(tree, mounts[n],
                                        ChildTree(c.pins[n], ChildId(id, n), reader)),
                 OwnTree(c), ByDepth(mounts))

RECURSIVE Composable(_, _, _, _)
\* Every child expanded is defined where it is pinned, and no tracker is
\* mounted inside itself: compose does not fail at this commit.
Composable(c, id, reader, outer) ==
    /\ id \notin outer
    /\ Expanded(c, id, reader) = DOMAIN MountsFor(c, id, reader)
    /\ \A n \in Expanded(c, id, reader) :
          Composable(c.pins[n], ChildId(id, n), reader, outer \union {id})

\* The first child, by mount, whose pin moved at this commit: it holds the
\* work, and so the metadata, of a commit that changed no file of its own.
WorkHolders(c, mounts, parents, views) ==
    LET moved(n) == \A i \in DOMAIN parents :
            ~(/\ n \in DOMAIN parents[i].pins /\ parents[i].pins[n] = c.pins[n]
              /\ n \in views[i].expanded)
        order == SelectSeq(ByDepth(mounts), moved)
    IN  IF order = <<>> THEN {} ELSE {c.pins[order[1]]}

\* The words and headers a view commit gets, and the commit it should be.
Metadata(c, mounts, views) ==
    IF ~IsSplit(c.message)
    THEN [by |-> c.by, message |-> c.message, headers |-> c.headers, expected |-> c]
    ELSE LET split == ParseSplit(c.message)
             ownUnchanged == IF c.parents = <<>> THEN OwnTree(c) = EmptyTree
                             ELSE OwnTree(c.parents[1]) = OwnTree(c)
             holders == IF ownUnchanged THEN WorkHolders(c, mounts, c.parents, views) ELSE {}
             message(h) == IF IsSplit(h.message) THEN ParseSplit(h.message).message ELSE h.message
         IN  IF holders = {}
             THEN [by |-> c.by, message |-> split.message,
                   headers |-> split.headers, expected |-> split.source]
             ELSE LET h == CHOOSE h \in holders : TRUE
                  IN  [by |-> h.by, message |-> message(h),
                       headers |-> split.headers, expected |-> split.source]

\* A single-parent commit whose only change was to children not read here.
OnlyWithheldMoved(c, mounts, views) ==
    /\ Len(c.parents) = 1
    /\ LET parent == c.parents[1]
           moved == {n \in DOMAIN c.pins \union DOMAIN parent.pins :
                        ~(/\ n \in DOMAIN c.pins /\ n \in DOMAIN parent.pins
                          /\ c.pins[n] = parent.pins[n])}
       IN  /\ OwnTree(parent) = OwnTree(c)
           /\ moved # {}
           /\ moved \intersect (DOMAIN mounts \union views[1].expanded) = {}

\* A merge whose sides differ in the pin of a child not expanded here.
JoinsWithheld(c, mounts) ==
    \E n \in DOMAIN c.pins \ DOMAIN mounts : \E i \in DOMAIN c.parents :
        LET first == c.parents[1].pins
            side == c.parents[i].pins
        IN  ~(IF n \in DOMAIN first THEN n \in DOMAIN side /\ side[n] = first[n]
              ELSE n \notin DOMAIN side)

\* The parents whose view has this tree and is ahead of every other's.
EmptyMerge(tree, views) ==
    {i \in DOMAIN views : views[i].tree = tree /\ \A j \in DOMAIN views :
                                                     IsAncestor(views[j].id, views[i].id)}

\* The view commit of this tree: the very one it was split from, or unsigned.
ViewCommit(whole, expected) ==
    IF whole = expected THEN whole ELSE [whole EXCEPT !.headers = UnsignedHeaders(@)]

\* The view of `c`, its parents' being `views`: its id, its tree, the children
\* it expands, whether a note names `c` on it, and the commit it should have
\* been when it is another.
ViewOn(c, views, mounts, tree, meta) ==
    LET as(i) == [views[i] EXCEPT !.noted = FALSE, !.canonical = {}]
        parents == Distinct([i \in DOMAIN views |-> views[i].id])
        named(id) == [id |-> id, tree |-> tree, expanded |-> DOMAIN mounts, noted |-> TRUE,
                      canonical |-> IF IsSplit(c.message) /\ id # meta.expected
                                    THEN {meta.expected} ELSE {}]
    IN  IF OnlyWithheldMoved(c, mounts, views) THEN as(1)
        ELSE IF Len(views) > 1 /\ JoinsWithheld(c, mounts) /\ EmptyMerge(tree, views) # {}
        THEN as(Min(EmptyMerge(tree, views)))
        ELSE named(ViewCommit(Commit(tree, NoPins, parents, meta.by, meta.headers, meta.message),
                              meta.expected))
ViewFrom(c, views, mounts, tree) == ViewOn(c, views, mounts, tree, Metadata(c, mounts, views))

RECURSIVE View(_, _, _)
\* The view of commit `c` of tracker `root`.
View(c, root, reader) ==
    ViewFrom(c, [i \in DOMAIN c.parents |-> View(c.parents[i], root, reader)] \o <<>>,
             MountsFor(c, root, reader), ChildTree(c, root, reader))

\* Every commit of `c`'s history composes for the reader.
Composes(c, root, reader) ==
    /\ root \in reader.reads
    /\ \A d \in Ancestors(c) : Composable(d, root, reader, {})

(***************************************************************************)
(* What a root commit holds: itself and every pin, by tracker.             *)
(***************************************************************************)
RECURSIVE HeldBy(_, _, _)
HeldBy(c, id, reader) ==
    {<<id, c>>} \union
    (IF Present(id, reader)
     THEN UNION {HeldBy(c.pins[n], ChildId(id, n), reader) : n \in DOMAIN c.pins} ELSE {})

(***************************************************************************)
(* Split.                                                                  *)
(***************************************************************************)
\* The definitions `owner`'s tree holds in its own .newgit/trackers.  Any
\* tracker but root is held to what makes a child.
DefinitionsIn(tree, owner) ==
    LET names == {Last(p) : p \in {q \in DOMAIN tree : IsDefinitionFile(q)}}
        at(n) == Append(DefinitionsDir, n)
        all == {FromText(<<n>>, tree[at(n)]) :
                    n \in {m \in names : NameFitsId(m) /\ IsDefinition(tree, at(m))}}
        imported == <<".newgit", "config">> \in DOMAIN tree
    IN  IF owner = RootTracker THEN all
        ELSE IF imported THEN {}
        ELSE {d \in all : Valid(d) /\ d.git /\ Mounted(d)}

RECURSIVE Flattened(_, _, _)
\* Every definition in the view `tree` of `owner`, mounted at `at`, with each
\* mounted tracker's own brought in under its mount.
Flattened(tree, at, owner) ==
    LET definitions == DefinitionsIn(tree, owner)
        itself(d) == d.name = <<LeafName(owner)>>
        named(d) == IF itself(d) THEN [d EXCEPT !.name = owner]
                    ELSE [d EXCEPT !.name = ChildId(owner, LeafName(@)),
                                   !.mount = at \o @,
                                   !.paths = {at \o p : p \in @},
                                   !.exclusions = {at \o p : p \in @}]
        kept == {d \in definitions : at = Dot \/ ~itself(d)}
        inside(d) == IF d.git /\ Mounted(d) /\ ~itself(d) /\ HasTree(tree, d.mount)
                     THEN Flattened(Subtree(tree, d.mount), at \o d.mount, named(d).name) ELSE {}
        root == IF at = Dot /\ ~\E d \in definitions : itself(d)
                THEN {RootDefinition(owner)} ELSE {}
    IN  root \union {named(d) : d \in kept} \union UNION {inside(d) : d \in kept}

RefusedPath(v, definitions) ==
    LET changes == [i \in DOMAIN v.parents |-> ChangedPaths(v.parents[i].tree, v.tree)]
        changed == IF v.parents = <<>> THEN DOMAIN v.tree
                   ELSE {p \in changes[1] : \A i \in DOMAIN changes : p \in changes[i]}
        owners(p) == OwnersOf(definitions, p)
        refused(p) == IF Under(p, PinsDir) THEN "reserved"
                      ELSE IF p \notin DOMAIN v.tree THEN ""
                      ELSE IF owners(p) = {} THEN "unowned"
                      ELSE IF \E d \in owners(p) : ~d.git THEN "outside Git" ELSE ""
    IN  {refused(p) : p \in changed} \ {""}

\* The files of child `d` in its parent's view subtree `tree`, `all` being the
\* definitions there.  A child that has its mount to itself takes it whole;
\* another takes what it claims beside the rest, the longest claim winning.
TakesWholeAlways(d, others) == Mounted(d) /\ d.exclusions = {} /\ d.paths = {d.mount}
TakesWhole(d, others) ==
    /\ Mounted(d) /\ d.exclusions = {} /\ d.paths = {d.mount}
    /\ \A o \in others : o.mount # d.mount

PartOf(tree, d, all, ownName) ==
    LET others == {o \in all : o.name # d.name /\ o.name # <<ownName>>}
        children == {o \in others : o.git}
        base == Subtree(tree, d.mount)
        at(p) == IF Under(p, d.mount) THEN Relative(p, d.mount) ELSE p
        deeper == {at(o.mount) : o \in {c \in children : c.mount # d.mount /\ Under(c.mount, d.mount)}}
        claimed == {p \in DOMAIN base : \E c \in d.paths : Under(p, at(c))}
        stronger(o, c) == Max({-1} \union ClaimsOn(o, c)) > Max({-1} \union ClaimsOn(d, c))
        taken == UNION {{at(c) : c \in {q \in o.paths : stronger(o, q)}} :
                            o \in {x \in others : x.mount = d.mount}}
        out == {at(x) : x \in d.exclusions} \union taken \union deeper
    IN  IF TakesWhole(d, others) THEN Without(base, deeper)
        ELSE Without(Restrict(base, claimed), out \ {Dot})

\* Deepest first.
ChildOrder(children) ==
    InOrder(children, LAMBDA d, e :
        \/ Len(d.mount) > Len(e.mount)
        \/ Len(d.mount) = Len(e.mount) /\ Before(d.name, e.name))

\* Commit `message` of tree and pins on `parents`, as the work's author.
Make(tree, pins, parents, v, message, reader) ==
    Commit(tree, pins, parents, v.by,
           EncodingHeader(v.headers) \union (IF reader.signs THEN {"gpgsig"} ELSE {}), message)

RECURSIVE ViewTree(_, _, _)
\* A tracker commit's tree with every pin that is here under its mount.
ViewTree(c, id, reader) ==
    LET here == {n \in DOMAIN c.pins : Present(ChildId(id, n), reader)}
        mounts == MountsOf(c, id, here, reader)
    IN  FoldLeft(LAMBDA tree, n : Graft(tree, mounts[n],
                                        ViewTree(c.pins[n], ChildId(id, n), reader)),
                 OwnTree(c), ByDepth(mounts))

\* A pin that is ahead of the others, and one whose tree is what the view has.
AheadOfAll(pins, i) == \A j \in DOMAIN pins : IsAncestor(pins[j], pins[i])
ReusableAny(before, part, child, reader) ==
    {i \in DOMAIN before : ViewTree(before[i], child, reader) = part}
Reusable(before, part, child, reader) ==
    {i \in DOMAIN before : ViewTree(before[i], child, reader) = part /\ AheadOfAll(before, i)}

\* Child `d` of `acc`'s tracker, its part of the view made of `inner`, or its
\* pin as it was, one of `before`.
PinnedAt(acc, name, c) == [acc EXCEPT !.pins = (name :> c) @@ @]
MadeIn(acc, child, made, inner) ==
    [PinnedAt(acc, LeafName(child), made) EXCEPT !.made = @ \o inner.made \o <<<<child, made>>>>]
SplitInto(acc, v, child, before, inner, reader) ==
    IF inner.refused # {} THEN [acc EXCEPT !.refused = @ \union inner.refused]
    ELSE MadeIn(acc, child, Make(inner.own, inner.pins, before, v, v.message, reader), inner)

\* A child that is not here keeps the pin ahead of the others.
KeptUnseen(acc, child, before) ==
    LET first == {i \in DOMAIN before : AheadOfAll(before, i)}
    IN  IF first = {} THEN [acc EXCEPT !.refused = @ \union {"two lines not here"}]
        ELSE PinnedAt(acc, LeafName(child), before[Min(first)])

RECURSIVE SplitPart(_, _, _, _, _)
RECURSIVE SplitChild(_, _, _, _, _, _)
SplitChild(acc, v, child, part, before, reader) ==
    LET reusable == Reusable(before, part, child, reader)
    IN  IF part = EmptyTree /\ before = <<>> THEN acc
        ELSE IF before # <<>> /\ ~Present(child, reader) THEN KeptUnseen(acc, child, before)
        ELSE IF reusable # {} THEN PinnedAt(acc, LeafName(child), before[Min(reusable)])
        ELSE IF child \notin reader.bound THEN [acc EXCEPT !.refused = @ \union {"unbound"}]
        ELSE SplitInto(acc, v, child, before, SplitPart(v, child, part, before, reader), reader)

\* What is left to the parent of a tree when child `d` has its part.
OwnLeft(own, d, part, others) ==
    IF TakesWhole(d, others) THEN Without(own, {d.mount})
    ELSE Restrict(own, DOMAIN own \ {d.mount \o p : p \in DOMAIN part})

\* The pins of child `name` at commits `parents`, each once.
PinsBefore(parents, name) ==
    LET pinned == SelectSeq(parents, LAMBDA c : name \in DOMAIN c.pins)
    IN  Distinct([i \in DOMAIN pinned |-> pinned[i].pins[name]] \o <<>>)

\* Tracker `id`'s part of view commit `v`: `tree` is its view subtree and
\* `parents` its commits at v's parents.  Gives its own tree, the pin each
\* child gets, the commits made in them, and why it refuses.
SplitPart(v, id, tree, parents, reader) ==
    LET all == DefinitionsIn(tree, id)
        itself == <<LeafName(id)>>
        take(acc, d, part) ==
            SplitChild([acc EXCEPT !.own = OwnLeft(@, d, part, {o \in all : o.name \notin {d.name, itself}})],
                       v, ChildId(id, LeafName(d.name)), part, PinsBefore(parents, LeafName(d.name)),
                       reader)
        step(acc, d) == IF acc.refused # {} THEN acc ELSE take(acc, d, PartOf(tree, d, all, LeafName(id)))
    IN  FoldLeft(step, [own |-> Without(tree, {PinsDir}), pins |-> NoPins, made |-> <<>>,
                        refused |-> {}],
                 ChildOrder({d \in all : d.git /\ d.name # itself}))

AudienceOfParent(policy, definitions, id) ==
    LET parent == IF Len(id) > 1 THEN Front(id) ELSE RootTracker
        found == {d \in policy \union definitions : d.name = parent}
    IN  IF found = {} THEN "project-devs" ELSE (CHOOSE d \in found : TRUE).audience

\* The audience of a tracker that would carry the message: the project's own
\* word for it first, then that of the commit's definitions.
AudienceOf(policy, definitions, id) ==
    LET named(all) == {d \in all : d.name = id}
        found == IF named(policy) # {} THEN named(policy) ELSE named(definitions)
    IN  IF found = {} THEN "project-devs" ELSE (CHOOSE d \in found : TRUE).audience

StockMerge(v) == Len(v.parents) > 1 /\ v.message.words = <<"Merge">>

\* The commit of `root` made of `part`, unless it is refused.
SplitOnto(v, root, onto, definitions, part, origin, newgitMade, policy, reader) ==
    LET ownChanged == IF onto = <<>> THEN part.own # EmptyTree ELSE OwnTree(onto[1]) # part.own
        onRoot == ownChanged \/ part.made = <<>>
        carriers == {part.made[i][1] : i \in DOMAIN part.made}
                    \union (IF onRoot THEN {root} ELSE {})
        mixed == /\ ~StockMerge(v) /\ ~newgitMade
                 /\ Cardinality({AudienceOf(policy, definitions, id) : id \in carriers}) > 1
        words == IF onRoot THEN v.message ELSE Words(<<"Update", carriers>>)
        invalid == root = RootTracker /\ \E d \in DefinitionsIn(v.tree, root) : ~Valid(d)
    IN  [refused |-> RefusedPath(v, definitions) \union part.refused
                     \union (IF invalid THEN {"invalid"} ELSE {})
                     \union (IF mixed THEN {"mixed audience"} ELSE {}),
         made |-> part.made,
         root |-> Make(part.own, part.pins, onto, v,
                       WithSplitTrailers(words, origin, origin.headers), reader)]

\* The commit of tracker `root` that view commit `v` of it is split into, its
\* parents standing for the commits `parents`; `origin` is the commit v was
\* rebuilt from, and `newgitMade` says that the message is newgit's own.
SplitRooted(v, root, parents, origin, newgitMade, policy, reader) ==
    LET onto == Distinct(parents)
    IN  SplitOnto(v, root, onto, Flattened(v.tree, Dot, root),
                  SplitPart(v, root, v.tree, onto, reader), origin, newgitMade, policy, reader)
SplitView(v, parents, origin, newgitMade, policy, reader) ==
    SplitRooted(v, RootTracker, parents, origin, newgitMade, policy, reader)
=============================================================================

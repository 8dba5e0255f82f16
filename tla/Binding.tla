------------------------------ MODULE Binding ------------------------------
(***************************************************************************)
(* Which trackers an instance binds (newgit-core: manager.rs): how a spawn *)
(* chooses them by role, priority and `requires`, and how `tracker use`    *)
(* and `tracker drop` move that, with what they bring, swap and refuse.    *)
(*                                                                         *)
(* A command holds the instance's lock, saves the record as it goes, and   *)
(* may be killed between any two of its effects; a tracker in Git may have *)
(* uncommitted work, which a drop refuses, stashes or discards.            *)
(***************************************************************************)
EXTENDS Integers, SequencesExt

CONSTANTS
    Listed,     \* the trackers, in the order of their names
    Role,
    None,       \* no role, no parent, no default
    Projects,   \* the projects considered: see Project
    MaxCommand, \* bound: commands in a behaviour
    MaxKill     \* bound: commands killed

Tracker == ToSet(Listed)

\* A project: its trackers' definitions, and this person's default by role.
Project == [role : [Tracker -> Role \cup {None}], priority : [Tracker -> -1 .. 1],
            requires : [Tracker -> SUBSET (Tracker \cup Role)],
            parent : [Tracker -> Tracker \cup {None}],
            git : SUBSET Tracker, default : [Role -> Tracker \cup {None}]]

ASSUME BindingAssumption ==
    /\ IsInjective(Listed) /\ Tracker \cap Role = {} /\ None \notin Tracker \cup Role
    /\ Projects \subseteq Project
    /\ MaxCommand \in Nat /\ MaxKill \in Nat

VARIABLES
    project,  \* the project, one of Projects
    here,     \* the instance has been spawned
    dropped,  \* its record: what it does not bind
    work,     \* trackers in Git with uncommitted work in the workspace
    stash,    \* what its Git has stashed: trackers, the newest first
    discarded, \* history: the last command was a drop told to discard
    cut,      \* history: commands that were killed or, bound, failed half way
    commands, kills

vars == <<project, here, dropped, work, stash, discarded, cut, commands, kills>>

Bound == Tracker \ dropped

\* `requires` and then the parent, in the order a command goes through them.
Named(S) == SelectSeq(Listed, LAMBDA t : t \in S)
InRole(r) == {t \in Tracker : project.role[t] = r}
Needs(t) == project.requires[t] \cup ({project.parent[t]} \ {None})
ChildrenOf(t) == {c \in Tracker : project.parent[c] = t}

(***************************************************************************)
(* Choosing: `spawn`, with --use and --drop.                               *)
(***************************************************************************)
Choice == [uses : SUBSET Tracker, drops : SUBSET Tracker]
NoChoice == [uses |-> {}, drops |-> {}]

\* Mutant: a negative priority is picked as any other.
FillRoleAny(r, choice) ==
    LET asked == InRole(r) \cap choice.uses
        wanted == ({project.default[r]} \cap InRole(r)) \ choice.drops
        willing == InRole(r) \ choice.drops
        best == {t \in willing : \A u \in willing : project.priority[u] <= project.priority[t]}
    IN  IF asked # {} THEN asked
        ELSE IF wanted # {} THEN wanted
        ELSE IF best = {} THEN {} ELSE {Named(best)[1]}

\* The tracker a role gets: asked for, else the default, else the highest
\* priority that is not negative, by name.
FillRole(r, choice) ==
    LET asked == InRole(r) \cap choice.uses
        wanted == ({project.default[r]} \cap InRole(r)) \ choice.drops
        willing == {t \in InRole(r) \ choice.drops : project.priority[t] >= 0}
        best == {t \in willing : \A u \in willing : project.priority[u] <= project.priority[t]}
    IN  IF asked # {} THEN asked
        ELSE IF wanted # {} THEN wanted
        ELSE IF best = {} THEN {} ELSE {Named(best)[1]}

\* The roles two trackers are asked for.
AskedTwice(choice) ==
    {r \in Role : \E t, u \in InRole(r) \cap choice.uses : t # u}

\* Bound but for what they require: one per role, and the others willing.
Willing(choice) ==
    {t \in InRole(None) : \/ t \in choice.uses
                          \/ project.priority[t] >= 0 /\ t \notin choice.drops}
    \cup UNION {FillRole(r, choice) : r \in {project.role[t] : t \in Tracker} \ {None}}

RECURSIVE WithoutOrphans(_, _)
\* Without the children whose parent is not bound, but those asked for.
WithoutOrphans(bound, choice) ==
    LET orphans == {t \in bound \ choice.uses :
                        project.parent[t] # None /\ project.parent[t] \notin bound}
    IN  IF orphans = {} THEN bound ELSE WithoutOrphans(bound \ orphans, choice)

\* The tracker `needed` stands for, if it is not filled by `bound` already.
Target(needed, bound, choice) ==
    IF needed \in Tracker THEN {needed}
    ELSE IF InRole(needed) \cap bound # {} THEN {}
    ELSE FillRole(needed, choice)

RECURSIVE WithNeeds(_, _, _)
\* What the trackers queued require, and each one's parent, the last in first
\* out; empty when a requirement is dropped, or no tracker fills a role.
WithNeeds(bound, queue, choice) ==
    IF queue = <<>> THEN {bound}
    ELSE LET t == Last(queue)
             step(state, needed) ==
                 LET target == Target(needed, state.bound, choice)
                     fresh == target \ state.bound
                 IN  [bound |-> state.bound \cup target,
                      queue |-> state.queue \o SetToSeq(fresh),
                      ok |-> /\ state.ok
                             /\ needed \in Tracker => needed \notin choice.drops
                             /\ needed \in Role => InRole(needed)
                                       \cap (state.bound \cup target) # {}]
             needs == SetToSeq(project.requires[t] \cap Role)
                         \o Named(project.requires[t])
                          \o Named({project.parent[t]})
             next == FoldLeft(step, [bound |-> bound, queue |-> Front(queue), ok |-> TRUE], needs)
         IN  IF next.ok THEN WithNeeds(next.bound, next.queue, choice) ELSE {}

\* What a new instance binds, or nothing when the choice is refused.
ChooseBinding(choice) ==
    LET bound == WithoutOrphans(Willing(choice), choice)
    IN  IF choice.uses \cap choice.drops # {} \/ AskedTwice(choice) # {} THEN {}
        ELSE WithNeeds(bound, Named(bound), choice)

(***************************************************************************)
(* A command's effects: where it is, whether it goes on, and the states a  *)
(* kill can leave behind.                                                  *)
(***************************************************************************)
At(d, w, s) == [dropped |-> d, work |-> w, stash |-> s]
Here == [at |-> At(dropped, work, stash), ok |-> TRUE, cuts |-> {}]
Goes(run, at) == [run EXCEPT !.at = at, !.cuts = @ \cup {run.at}]
Fails(run) == [run EXCEPT !.ok = FALSE]
\* Each of `todo` in turn, until one fails.
Each(run, todo, Do(_, _)) ==
    FoldLeft(LAMBDA r, t : IF r.ok THEN Do(r, t) ELSE r, run, todo)

\* Mutant: a tracker that fills a required role is not missed.
NeededByName(t, gone) == \E u \in Tracker \ (gone \cup {t}) : t \in project.requires[u]

\* Whether a bound tracker requires `t`, or its role, which nothing else fills.
Needed(t, gone) ==
    \E u \in Tracker \ (gone \cup {t}) :
        \/ t \in project.requires[u]
        \/ /\ project.role[t] # None /\ project.role[t] \in project.requires[u]
           /\ InRole(project.role[t]) \ (gone \cup {t}) = {}

(***************************************************************************)
(* `tracker drop`.                                                         *)
(***************************************************************************)
\* Mutant: the tree is cleaned before what was there is stashed.
SettleCleaned(run, t, how) ==
    LET at == run.at
        clean == [at EXCEPT !.work = @ \ {t}]
    IN  IF t \notin at.work THEN run
        ELSE CASE how = "refuse" -> Fails(run)
               [] how = "stash" -> Goes(Goes(run, clean), [clean EXCEPT !.stash = <<t>> \o @])
               [] how = "discard" -> Goes(run, clean)

\* What becomes of uncommitted work, once it may be dropped.
Settle(run, t, how) ==
    LET at == run.at
        clean == [at EXCEPT !.work = @ \ {t}]
    IN  IF t \notin at.work THEN run
        ELSE CASE how = "refuse" -> Fails(run)
               [] how = "stash" -> Goes(run, [clean EXCEPT !.stash = <<t>> \o @])
               [] how = "discard" -> Goes(run, clean)

RECURSIVE DropInner(_, _, _)
\* Its children go first, and what bound trackers require stays.
DropInner(run, t, how) ==
    LET children == Named(ChildrenOf(t) \ run.at.dropped)
        alone == Each(run, children, LAMBDA r, c : DropInner(r, c, how))
        settled == Settle(alone, t, how)
    IN  IF t \in run.at.dropped THEN run
        ELSE IF ~alone.ok THEN alone
        ELSE IF Needed(t, alone.at.dropped) THEN Fails(alone)
        ELSE IF ~settled.ok THEN settled
        ELSE Goes(settled, [settled.at EXCEPT !.dropped = @ \cup {t}])

(***************************************************************************)
(* `tracker use`.                                                          *)
(***************************************************************************)
\* Mutant: refused by one of them, it stays bound beside it.
SwapBeside(run, t) ==
    LET others == Named((InRole(project.role[t]) \ {t}) \ run.at.dropped)
        counted == Goes(run, [run.at EXCEPT !.dropped = @ \ {t}])
    IN  IF project.role[t] = None THEN run
        ELSE Each(counted, others, LAMBDA r, o : DropInner(r, o, "refuse"))

\* Others in its role make way; refused, it is dropped again.
Swap(run, t) ==
    LET others == Named((InRole(project.role[t]) \ {t}) \ run.at.dropped)
        counted == Goes(run, [run.at EXCEPT !.dropped = @ \ {t}])
        swapped == Each(counted, others, LAMBDA r, o : DropInner(r, o, "refuse"))
    IN  IF project.role[t] = None THEN run
        ELSE IF swapped.ok THEN swapped
        ELSE Goes(swapped, [swapped.at EXCEPT !.dropped = @ \cup {t}])

\* What a drop stashed comes back with its files.
Pop(run, t) ==
    LET stashed == run.at.stash
    IN  IF t \notin project.git \/ t \notin ToSet(stashed) THEN run
        ELSE Goes(run, [run.at EXCEPT !.work = @ \cup {t},
                                      !.stash = RemoveFirst(stashed, t)])

RECURSIVE UseInner(_, _)
\* It, what it requires, its parent, and the children that need not be asked.
UseInner(run, t) ==
    LET swapped == Swap(run, t)
        popped == Pop(swapped, t)
        bound == Goes(popped, [popped.at EXCEPT !.dropped = @ \ {t}])
        needed(r, n) ==
            LET target == Target(n, Tracker \ r.at.dropped, NoChoice)
            IN  Each(r, SetToSeq(target \cap r.at.dropped), UseInner)
        needs == SetToSeq(project.requires[t] \cap Role) \o Named(project.requires[t])
                     \o Named({project.parent[t]})
        brought == Each(bound, needs, needed)
        children == Named({c \in ChildrenOf(t) :
                               project.priority[c] >= 0 /\ project.role[c] = None})
    IN  IF t \notin run.at.dropped THEN run
        ELSE IF ~swapped.ok THEN swapped
        ELSE Each(brought, children, UseInner)

(***************************************************************************)
(* The commands.                                                           *)
(***************************************************************************)
Command(how) ==
    /\ commands < MaxCommand /\ commands' = commands + 1
    /\ discarded' = (how = "discard")

Leaves(at) == dropped' = at.dropped /\ work' = at.work /\ stash' = at.stash

\* It ends, well or refused (or half way), or is killed between two effects.
Runs(op, how, run, half) ==
    /\ here
    /\ Command(how)
    /\ \/ /\ Leaves(run.at)
          /\ cut' = IF half THEN cut \cup {op} ELSE cut
          /\ UNCHANGED kills
       \/ /\ kills < MaxKill /\ kills' = kills + 1
          /\ \E at \in run.cuts \ {Here.at, run.at} : Leaves(at)
          /\ cut' = cut \cup {op}
    /\ UNCHANGED <<project, here>>

Spawn(choice) ==
    /\ ~here
    /\ \E bound \in ChooseBinding(choice) : dropped' = Tracker \ bound
    /\ here' = TRUE
    /\ Command(None)
    /\ UNCHANGED <<project, work, stash, cut, kills>>

Drop(t, how) == Runs("drop", how, DropInner(Here, t, how), FALSE)
\* A use that cannot bring what its tracker needs leaves it bound without.
Use(t) == LET run == UseInner(Here, t)
          IN  Runs("use", None, run, ~run.ok /\ Swap(Here, t).ok)

\* Somebody works on a bound tracker in Git.
Works(t) ==
    /\ here /\ t \in project.git \ (dropped \cup work)
    /\ work' = work \cup {t}
    /\ UNCHANGED <<project, here, dropped, stash, discarded, cut, commands, kills>>

Init ==
    /\ project \in Projects
    /\ here = FALSE /\ dropped = {} /\ work = {} /\ stash = <<>>
    /\ discarded = FALSE /\ cut = {} /\ commands = 0 /\ kills = 0

Next ==
    \/ \E choice \in Choice : Spawn(choice)
    \/ \E t \in Tracker, how \in {"refuse", "stash", "discard"} : Drop(t, how)
    \/ \E t \in Tracker : Use(t) \/ Works(t)

Spec == Init /\ [][Next]_vars

(***************************************************************************)
(* Properties.                                                             *)
(***************************************************************************)
\* What `t` needs is bound (or it is a role that nothing would fill unasked: a
\* spawn refuses that and a use goes on without).
Met(t, bound) ==
    \A n \in Needs(t) : IF n \in Tracker THEN n \in bound
                       ELSE InRole(n) \cap bound # {} \/ FillRole(n, NoChoice) = {}

\* Nothing bound is left without what it requires, nor without its parent, by
\* drops (killed or refused half way, too), swaps and uses, until a use is cut
\* short (trackers.md: "An instance cannot bind `electron` without
\* `supabase`"; manager.rs: drop_tracker_inner, "Nothing bound may be left
\* without what it requires").
RequirementsMet == here /\ "use" \notin cut => \A t \in Bound : Met(t, Bound)

\* Uses and drops keep a role's trackers exclusive, a use that is refused half
\* way through its swap too (manager.rs: use_tracker_inner).
OnePerRole ==
    \A t, u \in Bound : t # u /\ project.role[t] # None => project.role[t] # project.role[u]
KeepsOnePerRole ==
    [][here /\ "use" \notin cut' /\ OnePerRole => OnePerRole']_vars

\* Uncommitted work is in the workspace or in the stash through every drop and
\* use, killed ones too, but for the work a drop is told to discard.
WorkKept ==
    [][~discarded' => work \cup ToSet(stash) \subseteq work' \cup ToSet(stash')]_vars

\* A spawn binds what is asked for and nothing it is to drop, with what that
\* needs, and picks no tracker of negative priority that nobody asked for nor
\* needs (trackers.md: "Negative: never picked automatically").
SpawnAsAsked ==
    ~here => \A choice \in Choice : \A bound \in ChooseBinding(choice) :
        /\ choice.uses \subseteq bound /\ choice.drops \cap bound = {}
        /\ \A t \in bound : Met(t, bound)
        /\ \A t \in bound : \/ t \in choice.uses \/ project.priority[t] >= 0
                            \/ t \in {project.default[q] : q \in Role}
                            \/ \E u \in bound : t \in Needs(u)
=============================================================================

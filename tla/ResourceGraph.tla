--------------------------- MODULE ResourceGraph ---------------------------
(***************************************************************************)
(* Resource definitions (newgit-core: resource.rs): which of them load,    *)
(* and the graph they make, in the two orders commands walk.  A dependency *)
(* orders the whole life of its resources; a template that reads another   *)
(* resource's export orders their binding only.                            *)
(*                                                                         *)
(* A definition is a record (see Definition); a project's definitions are  *)
(* a sequence, in the order of their names.                                *)
(***************************************************************************)
EXTENDS Integers, FiniteSets, Sequences
LOCAL Seqs == INSTANCE SequencesExt

\* A command, a template or a path is abstracted to what the checks tell
\* apart: whether it is there, and what it names.
NoAction == [there |-> FALSE, command |-> FALSE, signal |-> FALSE, long |-> FALSE,
             autostart |-> FALSE, captures |-> {}]
Finishing == [NoAction EXCEPT !.there = TRUE, !.command = TRUE]
ActionNames == {"prepare", "start", "stop", "suspend", "resume", "rebuild"}

\* A definition that says nothing but its name.
Definition(name) ==
    [name |-> name, ownership |-> "workspace", depends |-> <<>>,
     paths |-> {}, produces |-> {}, keyCommand |-> FALSE,  \* [identity]
     ports |-> {}, env |-> <<>>,     \* ports, and the variables that carry one
     exports |-> {}, reads |-> {},   \* what it exports, what its templates read
     renders |-> {},                 \* [path, count]: count is "any" or a number
     within |-> {},                  \* workdirs, and the files `reads` lists
     actions |-> [a \in ActionNames |-> NoAction],
     checkpoint |-> "absent", dumps |-> FALSE, stateRef |-> FALSE,
     restore |-> "absent", restores |-> FALSE, again |-> "prepare",
     cleanup |-> FALSE, takesRef |-> {}] \* the commands that name {{state_ref}}

ActionsOf(d) == {a \in ActionNames : d.actions[a].there}
CapturesOf(d) == UNION {d.actions[a].captures : a \in ActionsOf(d)}

-----------------------------------------------------------------------------
(* What a definition means *)

RunnablePrepare(d) == d.actions["prepare"].command /\ ~d.actions["prepare"].long
HasLongRunning(d) == \E a \in ActionsOf(d) : d.actions[a].long
RunsAtSpawn(d) == \E a \in ActionsOf(d) : d.actions[a].autostart
ProducingAction(d) == IF d.restore = "recompute" THEN d.again ELSE "prepare"

-----------------------------------------------------------------------------
(* Which definitions load *)

\* Relative, and not out of the workspace nor into `dirs`.
Inside(path, dirs) == path # <<>> /\ Seqs!ToSet(path) \cap ({".", "..", "/"} \cup dirs) = {}

IdentityPaths(d) ==
    \A p \in d.paths \cup d.produces : Inside(p, {}) /\ p[1] \notin {".git", ".newgit"}

\* What a store entry stands in for: one finishing `prepare`, with no output
\* but the tree, keyed on inputs outside that tree.
IdentityStore(d) ==
    LET build == d.actions[ProducingAction(d)]
    IN  /\ d.paths = {} => d.produces = {} /\ ~d.keyCommand
        /\ d.produces # {} =>
             /\ ProducingAction(d) = "prepare"
             /\ build.command /\ ~build.long /\ build.captures = {}
             /\ \A p \in d.produces :
                  \A q \in d.paths \cup (d.produces \ {p}) : ~Seqs!IsPrefix(p, q)

\* What is recorded can be restored by what is to restore it.
CheckpointRestore(d) ==
    /\ d.checkpoint = "hash" => d.paths # {}
    /\ d.checkpoint = "command" => d.dumps
    /\ d.checkpoint = "external" => d.stateRef
    /\ d.restore = "command" => d.restores
    /\ d.restore = "recompute" => d.actions[d.again].there
    /\ ~(d.checkpoint = "external" /\ d.restore = "recompute")

\* A command that is handed a state ref has a checkpoint that records one.
StateRefRecordable(d) ==
    d.checkpoint \in {"command", "external"}
    \/ d.takesRef \cap ((IF d.restore = "command" THEN {"restore"} ELSE {})
                        \cup (IF d.cleanup THEN {"cleanup"} ELSE {})) = {}

SuspendResume(d) ==
    /\ d.actions["suspend"].there <=> d.actions["resume"].there
    /\ \A a \in {"suspend", "resume"} \cap ActionsOf(d) :
           d.actions[a].command /\ ~d.actions[a].long

\* A render into a built tree replaces whatever the build wrote.
Renders(d) ==
    \A r \in d.renders :
        /\ Inside(r.path, {".newgit"})
        /\ r.count # 0
        /\ r.count = "any" \/ \A p \in d.produces : ~Seqs!IsPrefix(p, r.path)

Valid(d) ==
    /\ IdentityPaths(d) /\ IdentityStore(d)
    /\ CheckpointRestore(d) /\ StateRefRecordable(d)
    /\ SuspendResume(d) /\ Renders(d)
    /\ \A p \in d.within : Seqs!ToSet(p) \cap {"..", "/"} = {}
    /\ \A a \in ActionsOf(d) :
           /\ d.actions[a].command \/ (d.actions[a].signal /\ ~d.actions[a].long)
           /\ d.actions[a].autostart => d.actions[a].long
    /\ Cardinality({a \in ActionsOf(d) : d.actions[a].autostart}) <= 1

-----------------------------------------------------------------------------
(* The graph *)

ResourceNames(defs) == {d.name : d \in Seqs!ToSet(defs)}
NamesOf(defs) == [i \in DOMAIN defs |-> defs[i].name]
Named(defs, name) == defs[CHOOSE i \in DOMAIN defs : defs[i].name = name]

\* The resource whose export a template reads: the last that claims the name.
Owner(defs, value) ==
    {defs[i].name : i \in {j \in DOMAIN defs :
        /\ value \in defs[j].exports \cup CapturesOf(defs[j])
        /\ \A k \in DOMAIN defs : k > j =>
               value \notin defs[k].exports \cup CapturesOf(defs[k])}}

\* Mutant: a template's own resource counts too.
DataEdgesOwn(defs) ==
    [r \in ResourceNames(defs) |-> UNION {Owner(defs, v) : v \in Named(defs, r).reads}]

\* The edges nobody declared: a template that reads another's export.
DataEdges(defs) ==
    [r \in ResourceNames(defs) |->
        UNION {Owner(defs, v) : v \in Named(defs, r).reads} \ {r}]

\* A walk of the graph: what is in order, what is being visited, and what is
\* wrong.
Problem(defs) ==
    ({"missing"} \X ResourceNames(defs) \X UNION {Seqs!ToSet(d.depends) : d \in Seqs!ToSet(defs)})
    \cup ({"cycle"} \X Seq(ResourceNames(defs)))
Walk(defs) == [ordered : Seq(ResourceNames(defs)), stack : Seq(ResourceNames(defs)),
               problems : SUBSET Problem(defs)]

\* Depth first, what it depends on and then what it reads from.  A resource on
\* the stack closes a cycle and is not entered again.
Visit(defs, trackers, data) ==
    LET visit[walk \in Walk(defs), name \in ResourceNames(defs)] ==
          LET goOn(w, n) == visit[w, n]
              depend(w, n) ==
                  IF n \in trackers THEN w
                  ELSE IF n \notin ResourceNames(defs)
                    THEN [w EXCEPT !.problems = @ \cup {<<"missing", name, n>>}]
                  ELSE visit[w, n]
              entered == [walk EXCEPT !.stack = Append(@, name)]
              declared == Seqs!FoldLeft(depend, entered, Named(defs, name).depends)
              inferred == Seqs!FoldLeft(goOn, declared,
                                   SelectSeq(NamesOf(defs), LAMBDA n : n \in data[name]))
          IN  IF name \in Seqs!ToSet(walk.ordered) THEN walk
              ELSE IF name \in Seqs!ToSet(walk.stack)
                THEN [walk EXCEPT !.problems = @ \cup {<<"cycle", Append(walk.stack, name)>>}]
              ELSE [inferred EXCEPT !.stack = Seqs!Front(@), !.ordered = Append(@, name)]
    IN  visit

\* Every resource in turn, those it needs before it.
ResolveOrder(defs, trackers, data) ==
    Seqs!FoldLeft(LAMBDA w, n : Visit(defs, trackers, data)[w, n],
             [ordered |-> <<>>, stack |-> <<>>, problems |-> {}], NamesOf(defs))

ReservedEnv == {"NEWGIT_BRANCH", "NEWGIT_WORKSPACE", "NEWGIT_LOCKED"}

\* Who sets a variable: a resource by its exports and captures, and each port.
Claims(defs, value) ==
    {<<d.name, 0>> : d \in {e \in Seqs!ToSet(defs) : value \in e.exports \cup CapturesOf(e)}}
    \cup UNION {{<<d.name, i>> : i \in {j \in DOMAIN d.env : d.env[j] = value}} :
                 d \in Seqs!ToSet(defs)}

\* A variable set twice, or one that is newgit's.
CheckEnvNames(defs) ==
    LET values == UNION {d.exports \cup CapturesOf(d) \cup Seqs!ToSet(d.env) : d \in Seqs!ToSet(defs)}
    IN  {<<"env", v>> : v \in {w \in values :
            w \in ReservedEnv \/ Cardinality(Claims(defs, w)) > 1}}

ResolveGraph(defs, trackers) ==
    LET data == DataEdges(defs)
        bind == ResolveOrder(defs, trackers, data)
        none == [r \in DOMAIN data |-> {}]
    IN  [bindOrder |-> bind.ordered, dataEdges |-> data,
         lifecycleOrder |-> ResolveOrder(defs, trackers, none).ordered,
         problems |-> bind.problems \cup CheckEnvNames(defs)]
=============================================================================

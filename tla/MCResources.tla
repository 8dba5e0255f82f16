---------------------------- MODULE MCResources ----------------------------
(* Instances of Resources for TLC. *)
EXTENDS Resources, TLC
Seqs == INSTANCE SequencesExt
Files == INSTANCE MCRenders

CONSTANTS deps, db, web

LongRunning == [Finishing EXCEPT !.long = TRUE, !.autostart = TRUE]
Hooks == ("prepare" :> Finishing) @@ ("suspend" :> Finishing) @@ ("resume" :> Finishing)

\* What is installed, a database that needs it, and a server that needs the
\* database and reads the address it exports.
Install == [Definition(deps) EXCEPT !.ownership = "project", !.cleanup = TRUE,
                !.actions["prepare"] = Finishing]
Database == [Definition(db) EXCEPT !.depends = <<deps>>, !.exports = {"DB_URL"},
                !.cleanup = TRUE, !.actions = Hooks @@ @]
Server == [Definition(web) EXCEPT !.depends = <<db>>, !.ports = {"http"},
                !.reads = {"DB_URL"}, !.actions["start"] = LongRunning]
MCDefinitions == <<Database, Install, Server>>

\* The smallest with a database and a server, both on ports.
MCPair == <<[Database EXCEPT !.depends = <<>>, !.ports = {"db"}], Server>>

Ports == Permutations(Port)

-----------------------------------------------------------------------------
(* The graph, over every project of three resources whose dependencies and *)
(* templates name one another, and every one in which a resource's also    *)
(* name a tracker, itself or nothing there is, and templates read their    *)
(* own resource's export.                                                  *)

Three == {db, deps, web}
Apart == {f \in [Three -> SUBSET Three] : \A r \in Three : r \notin f[r]}
Drawings ==
    [depends : Apart, reads : Apart]
    \cup {[depends |-> [f EXCEPT ![db] = @ \cup more], reads |-> [r \in Three |-> {r}]] :
            f \in Apart, more \in SUBSET {db, "lane", "lost"}}

DefinitionsOf(g) ==
    [i \in 1 .. 3 |->
        LET r == <<db, deps, web>>[i]
        IN  [Definition(r) EXCEPT !.depends = Seqs!SetToSeq(g.depends[r]),
                                  !.exports = {r}, !.reads = g.reads[r]]]

Declared(g) == {e \in Three \X Three : e[2] \in g.depends[e[1]]}
Read(g) == {e \in Three \X Three : e[1] # e[2] /\ e[2] \in g.reads[e[1]]}
Cyclic(edges) == \E S \in SUBSET Three \ {{}} :
                     \A r \in S : \E q \in S : <<r, q>> \in edges
Respects(order, edges) ==
    /\ Len(order) = 3 /\ {order[i] : i \in 1 .. 3} = Three
    /\ \A i, j \in 1 .. 3 : <<order[i], order[j]>> \in edges => j < i

\* Whatever the definitions say of one another, every resource has one place
\* in each order, a cycle is reported exactly when there is one, whichever
\* kinds of edge it is made of, and without it everything comes after what it
\* depends on and binds after what it reads from (resource.rs: resolve_graph).
GraphSound ==
    commands = 0 => \A g \in Drawings :
        LET graph == ResolveGraph(DefinitionsOf(g), {"lane"})
            edges == Declared(g) \cup Read(g)
            kinds == {p[1] : p \in graph.problems}
        IN  /\ Respects(graph.bindOrder, IF Cyclic(edges) THEN {} ELSE edges)
            /\ Respects(graph.lifecycleOrder,
                        IF Cyclic(Declared(g)) THEN {} ELSE Declared(g))
            /\ "cycle" \in kinds <=> Cyclic(edges)
            /\ "missing" \in kinds <=> \E r \in Three : "lost" \in g.depends[r]

\* What a render puts into a file comes out of it again: a capture records the
\* user's edit of it and no value of this instance, or refuses; an unbound
\* resource's values go and another's stay; a re-render discards nothing
\* unnamed; and an export resolves whenever it can (render.rs, manager.rs:
\* unrender_for_capture, unrender_binding, render_drift, resolve_exports).
RendersSound == commands = 0 => Files!FilesSound /\ Files!ExportsSound
=============================================================================

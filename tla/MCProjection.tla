---------------------------- MODULE MCProjection ----------------------------
(* Small projects for Projection: how they are laid out, and who reads them. *)
EXTENDS Projection

MCAlphabet == <<".", "..", ".newgit", "a", "access", "b", "c", "config", "d", "env", "f", "g",
                "n", "pins", "s", "trackers", "x">>
MCAudiences == {"project-devs", "public", "team"}

Claims(paths, out) == {[path |-> p, out |-> FALSE] : p \in paths}
                      \union {[path |-> p, out |-> TRUE] : p \in out}
File(mount, claims, git, audience) ==
    [mount |-> mount, claims |-> claims, git |-> git, audience |-> audience,
     role |-> {}, requires |-> {}]
Whole(mount, audience) == File(mount, Claims({Dot}, {}), TRUE, audience)
Defined(n) == Append(DefinitionsDir, n)
Old == [text |-> 0]

Files(ps) == [p \in ps |-> Old]
Start == Overlay(Files({<<"x">>, <<".newgit", "config">>}),
                 [p \in {Defined(Access)} |-> Whole(DefinitionsDir, "project-devs")])
With(tree, name, file, ps) == Overlay(tree, Overlay([p \in {Defined(name)} |-> file], Files(ps)))

\* Two siblings, one of them private and with definitions that make no child:
\* its own, and one outside Git.
Siblings == Overlay(
    With(With(Start, "a", Whole(<<"a">>, "project-devs"), {<<"a", "f">>}),
         "s", Whole(<<"s">>, "team"), {<<"s", "f">>}),
    [p \in {<<"s">> \o Defined("s"), <<"s">> \o Defined("d")} |->
         IF Last(p) = "s" THEN Whole(<<"g">>, "team")
         ELSE File(Dot, Claims({<<"n">>}, {}), FALSE, "team")])
\* A tracker defined in another's tree; files outside Git.
Nested == Overlay(
    With(With(Start, "a", Whole(<<"a">>, "project-devs"), {<<"a", "f">>}),
         "d", File(Dot, Claims({<<"a", "env">>}, {}), FALSE, "project-devs"), {}),
    Overlay([p \in {<<"a">> \o Defined("n")} |-> Whole(<<"n">>, "project-devs")],
            Files({<<"a", "n", "f">>})))
\* Two trackers at one mount, one claiming part of it; and another project
\* imported whole, whose definitions are none of this one's.
Shared == Overlay(
    With(With(With(Start, "a", Whole(<<"a">>, "project-devs"), {<<"a", "f">>}),
              "c", File(<<"a">>, Claims({<<"g">>}, {}), TRUE, "project-devs"), {<<"a", "g">>}),
         "n", Whole(<<"n">>, "public"), {<<"n", "f">>, <<"n", ".newgit", "config">>}),
    [p \in {<<"n">> \o Defined("b")} |-> Whole(<<"b">>, "public")])
MCLayouts == {<<Start, Siblings>>, <<Start, Nested>>, <<Start, Shared>>}

Ids == {RootTracker, <<Access>>, <<"a">>, <<"b">>, <<"c">>, <<"n">>, <<"s">>, <<"a", "n">>,
        <<"a", "b">>}
\* The guest's project lacks the private tracker; its instance dropped `c`.
MCReader == {"home", "guest"}
MCSees == [r \in MCReader |->
    IF r = "home" THEN [reads |-> Ids, lacks |-> {}, bound |-> Ids, signs |-> FALSE]
    ELSE [reads |-> Ids \ {<<"s">>}, lacks |-> {<<"s">>},
          bound |-> Ids \ {<<"s">>, <<"c">>}, signs |-> TRUE]]

MCEdited == {{<<"x">>}, {<<"a", "f">>}, {<<"a", "g">>}, {<<"s", "f">>},
             {<<"x">>, <<"a", "f">>}, {<<"a", "f">>, <<"s", "f">>}}
MCRemoved == {<<"a", "f">>}
MCRedefinitions == {[at |-> Defined("a"), file |-> Whole(<<"b">>, "project-devs")]}
MCCarves == {[name |-> "b", mount |-> <<"a", "n">>, audience |-> "project-devs"]}
MCImports == {[name |-> "b", mount |-> <<"b">>, audience |-> "public",
               commit |-> Commit(Files({<<"f">>}), NoPins, <<>>, "upstream", {}, Words(<<"theirs">>))]}
MCTargets == {[name |-> "listed", root |-> {}, trackers |-> {RootTracker, <<Access>>, <<"a">>}],
              [name |-> "all", root |-> {}, trackers |-> {RootTracker, <<Access>>, <<"a">>, <<"a", "n">>}],
              [name |-> "rooted", root |-> {<<"a">>}, trackers |-> {}]}
=============================================================================

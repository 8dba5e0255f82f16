----------------------------- MODULE MCRenders -----------------------------
(* Renders, checked over every small file, two resources' rules and one    *)
(* edit; exports over every three of one resource's.                       *)
EXTENDS Renders

\* The record's resources, in its order.
Names == <<"db", "web">>

\* Files of up to three lines; definitions look for `f` and `g`.
MaxLine == 3
Files == UNION {[1 .. k -> {<<"f">>, <<"x", "f">>, <<"g", "x">>, <<"f", "g">>, <<"x">>}] :
                    k \in 1 .. MaxLine}

Rules(finds, values) == [find : finds, value : values, count : {1, 2}]
Bindings ==
    [db : {<<>>, <<[find |-> <<"f">>, value |-> <<"p">>, count |-> 1],
                   [find |-> <<"x">>, value |-> <<"r">>, count |-> 2]>>}
          \cup [{1} -> Rules({<<"f">>, <<"x", "f">>}, {<<"p">>, <<"p", "q">>, <<"g">>})],
     web : {<<>>} \cup [{1} -> Rules({<<"g">>, <<"f", "g">>}, {<<"q">>, <<"p">>, <<"x">>})]]

RECURSIVE TextOf(_), LinesOf(_)
TextOf(lines) == IF Len(lines) = 1 THEN Head(lines)
                 ELSE Head(lines) \o <<Newline>> \o TextOf(Tail(lines))
LinesOf(text) ==
    LET ends == {p \in DOMAIN text : text[p] = Newline}
        first == CHOOSE p \in ends : \A q \in ends : p <= q
    IN  IF ends = {} THEN <<text>>
        ELSE <<SubSeq(text, 1, first - 1)>> \o LinesOf(SubSeq(text, first + 1, Len(text)))

\* One edit of a line: another put in before it, the line taken out, or its
\* beginning changed.  A file keeps its lines through a render, so the same
\* edit can be made in the committed file.
Edits == [kind : {"insert"}, at : 1 .. MaxLine + 1,
          line : {<<"x">>, <<"p">>, <<"x", "p">>, <<"y", "q">>, <<"f">>}]
         \cup [kind : {"delete", "change"}, at : 1 .. MaxLine, line : {<<"y">>}]
EditsOf(file) ==
    {e \in Edits : IF e.kind = "insert" THEN e.at <= Len(file) + 1
                   ELSE e.at <= Len(file) /\ (e.kind = "delete" => Len(file) > 1)}
Edited(e, lines) ==
    LET above == SubSeq(lines, 1, e.at - 1)
    IN  CASE e.kind = "insert" -> above \o <<e.line>> \o SubSeq(lines, e.at, Len(lines))
          [] e.kind = "delete" -> above \o SubSeq(lines, e.at + 1, Len(lines))
          [] e.kind = "change" -> [lines EXCEPT ![e.at] = e.line \o @]

-----------------------------------------------------------------------------

\* What `tracker capture` records of a rendered file somebody has edited is
\* what the same edit makes of the committed file, with no value of this
\* instance and nothing of the user's changed into a `find`; every instance
\* finds in it what it looks for, and if this one can render it at all, it
\* renders to the file as it was.  Otherwise it refuses.
CapturesTheEdit(committed, edited, wanted, bound) ==
    \E out \in {UnrenderForCapture(edited, committed, bound, Names)} :
        \/ out.refused
        \/ /\ out.text = wanted
           /\ Substitute(wanted, ClaimsOn(bound, Names)).ok
           /\ \E again \in {Compose(wanted, ClaimsOn(bound, Names))} :
                  again.ok => again.text = edited

\* What a re-render discards was named before it.
DriftIsNamed(committed, edited, bound) ==
    \/ edited = committed
    \/ RenderDrift(edited, committed, bound, Names)
    \/ RerenderAll(edited, committed, bound, Names) = edited

\* One resource's values taken out leave the other's, and both the committed
\* file.
UnbindsApart(committed, rendered, bound) ==
    \E left \in {UnrenderBinding(rendered, committed, bound["db"])} :
        /\ left = Substitute(committed, bound["web"]).text
        /\ UnrenderBinding(left, committed, bound["web"]) = committed

\* A built file stored without its values is the same again where they are put
\* back.
TreesMove(rendered, bound) ==
    \E rules \in {ClaimsOn(bound, Names)} :
        Restore(Reverse(rendered, rules), rules) = rendered

\* `render --check` passes what a render takes, of each resource's rules.
ChecksWhatRenders(committed, bound) ==
    \A name \in {"db", "web"} : \A i \in DOMAIN bound[name] :
        Check(committed, bound[name])[i]

FileSound(committed, bound, out) ==
    out.ok =>
        /\ UnbindsApart(committed, out.text, bound)
        /\ CapturesTheEdit(committed, out.text, committed, bound)
        /\ DriftIsNamed(committed, out.text, bound)
        /\ ChecksWhatRenders(committed, bound)
        /\ TreesMove(out.text, bound)
        /\ \A e \in EditsOf(LinesOf(committed)) :
               \E edited \in {TextOf(Edited(e, LinesOf(out.text)))} :
                   /\ CapturesTheEdit(committed, edited,
                                      TextOf(Edited(e, LinesOf(committed))), bound)
                   /\ DriftIsNamed(committed, edited, bound)

FilesSound ==
    \A file \in Files, bound \in {b \in Bindings : ValidateDisjoint(b["db"], b["web"])} :
        FileSound(TextOf(file), bound, Compose(TextOf(file), ClaimsOn(bound, Names)))

\* An export stays unresolved exactly when it is one of some that each name
\* one of them or nothing there is, and the report says which.
Keys == {"A", "B", "C"}
ExportsSound ==
    \A templates \in [Keys -> SUBSET (Keys \cup {"bound", "lost"})] :
        \E out \in {ResolveExports(templates, {"bound"})} :
            \A k \in Keys :
                /\ k \notin out.resolved <=>
                       \E S \in SUBSET Keys :
                           k \in S /\ \A j \in S : templates[j] \cap (S \cup {"lost"}) # {}
                /\ k \notin out.resolved => out.unresolved[k] # {}
=============================================================================

------------------------------ MODULE Renders ------------------------------
(* What a render writes into a file and how it is taken back out:          *)
(* render.rs, and the parts of manager.rs that render a resource's files,  *)
(* capture and unbind them, and resolve its exports.                       *)
(*                                                                         *)
(* A text is a sequence of characters, "\n" among them.  A rule is what    *)
(* render.rs calls an applied replacement: the `find` it takes, the value  *)
(* it puts there and how often it must occur; a resource claims a path by  *)
(* its sequence of rules on it.  `bound` gives each resource's claim, in   *)
(* the order `names` of the record, <<>> without one.  An answer is        *)
(* [ok, text], with ok FALSE for an error.                                 *)
EXTENDS Naturals, Sequences, FiniteSets
LOCAL Seqs == INSTANCE SequencesExt

Newline == "\n"
Finds(rules) == [i \in DOMAIN rules |-> rules[i].find]
Values(rules) == [i \in DOMAIN rules |-> rules[i].value]

-----------------------------------------------------------------------------
(* Locating *)

RECURSIVE Starts(_, _, _)
\* Where `find` occurs at or after `from`, no two overlapping.
Starts(text, find, from) ==
    IF from + Len(find) - 1 > Len(text) THEN {}
    ELSE IF SubSeq(text, from, from + Len(find) - 1) = find
      THEN {from} \cup Starts(text, find, from + Len(find))
    ELSE Starts(text, find, from + 1)

Before(h, g) == \/ h.start < g.start
                \/ h.start = g.start /\ h.end < g.end
                \/ h.start = g.start /\ h.end = g.end /\ h.rule < g.rule

\* Every occurrence of every pattern, in order of place; an empty one has none.
Locate(text, finds) ==
    Seqs!SetToSortSeq(UNION {{[start |-> p, end |-> p + Len(finds[r]), rule |-> r] :
                             p \in Starts(text, finds[r], 1)} :
                         r \in {q \in DOMAIN finds : finds[q] # <<>>}}, Before)

Count(hits, rule) == Cardinality({i \in DOMAIN hits : hits[i].rule = rule})

RECURSIVE Weave(_, _, _, _)
\* The text from `cursor` on with each hit replaced; leftmost wins.
Weave(text, hits, to, cursor) ==
    IF hits = <<>> THEN SubSeq(text, cursor, Len(text))
    ELSE LET hit == Head(hits)
         IN  IF hit.start < cursor THEN Weave(text, Tail(hits), to, cursor)
             ELSE SubSeq(text, cursor, hit.start - 1) \o to[hit.rule]
                  \o Weave(text, Tail(hits), to, hit.end)

SwapEvery(text, from, to) == Weave(text, Locate(text, from), to, 1)
Reverse(rendered, rules) == SwapEvery(rendered, Values(rules), Finds(rules))
Restore(stored, rules) == SwapEvery(stored, Finds(rules), Values(rules))

-----------------------------------------------------------------------------
(* Rendering *)

Refused == [ok |-> FALSE, text |-> <<>>, spans |-> <<>>]

\* Where hit i's value lands: after the text before it, itself rendered.
Span(text, hits, to, i) ==
    LET start == 1 + Len(Weave(SubSeq(text, 1, hits[i].start - 1),
                               SubSeq(hits, 1, i - 1), to, 1))
    IN  [rule |-> hits[i].rule, start |-> start, end |-> start + Len(to[hits[i].rule])]

\* The rules' values in place of the hits, if each is found as often as it says
\* and none over another.
SubstituteAt(committed, rules, hits, to) ==
    IF \/ \E r \in DOMAIN rules : Count(hits, r) # rules[r].count
       \/ \E i \in 1 .. Len(hits) - 1 : hits[i + 1].start < hits[i].end
      THEN Refused
    ELSE [ok |-> TRUE, text |-> Weave(committed, hits, to, 1),
          spans |-> [i \in DOMAIN hits |-> Span(committed, hits, to, i)]]

\* Every rule at once.
Substitute(committed, rules) ==
    SubstituteAt(committed, rules, Locate(committed, Finds(rules)), Values(rules))

\* How often Rust's `matches` finds a pattern: an empty one at every place.
Matches(text, find) == IF find = <<>> THEN Len(text) + 1
                       ELSE Cardinality(Starts(text, find, 1))

\* A render that could not be run backwards is refused.
Compose(committed, rules) ==
    LET out == Substitute(committed, rules)
    IN  IF out.ok /\ \A r \in DOMAIN rules :
                         Matches(out.text, rules[r].value) = rules[r].count
        THEN out ELSE Refused

\* What `render --check` reports of each find.
Check(text, rules) ==
    [r \in DOMAIN rules |-> Count(Locate(text, Finds(rules)), r) = rules[r].count]

Within(find, other) == find = <<>> \/ Starts(other, find, 1) # {}

\* At load: no resource's find is another's, or part of it.
ValidateDisjoint(left, right) ==
    \A i \in DOMAIN left, j \in DOMAIN right :
        ~ Within(left[i].find, right[j].find) /\ ~ Within(right[j].find, left[i].find)

-----------------------------------------------------------------------------
(* Taking a render back out *)

\* A value's place: its rule, the whole line it is on and its column there.
Place(text, hit) ==
    LET before == {p \in 1 .. hit.start - 1 : text[p] = Newline}
        after == {p \in hit.end .. Len(text) : text[p] = Newline}
        first == IF before = {} THEN 1 ELSE 1 + CHOOSE p \in before : \A q \in before : q <= p
        last == IF after = {} THEN Len(text) ELSE (CHOOSE p \in after : \A q \in after : p <= q) - 1
    IN  <<hit.rule, SubSeq(text, first, last), hit.start - first>>

\* By value alone: all there is to go by once the committed file takes these
\* rules no more.
ReverseByValue(current, committed, rules) ==
    [text |-> Reverse(current, rules), unplaced |-> {}]

\* Only what the render wrote: on a line as it wrote it, or, that line being
\* edited, where the value occurs as often as it wrote it.  A value it cannot
\* place is left there and named.
ReverseWritten(current, rules, found, written) ==
    LET keys == {written[i] : i \in DOMAIN written}
        at(key) == {i \in DOMAIN found : Place(current, found[i]) = key}
        intact == {key \in keys :
            Cardinality(at(key)) = Cardinality({i \in DOMAIN written : written[i] = key})}
        missing == {key[1] : key \in keys \ intact}
        all(r) == {i \in DOMAIN found : found[i].rule = r}
        whole == {r \in missing : Cardinality(all(r)) = rules[r].count}
        chosen == UNION {at(key) : key \in intact} \cup UNION {all(r) : r \in whole}
        kept == Seqs!SetToSortSeq(chosen, <)
    IN  [text |-> Weave(current, [i \in DOMAIN kept |-> found[kept[i]]], Finds(rules), 1),
         unplaced |-> {r \in missing \ whole : ~ all(r) \subseteq chosen}]

ReverseExpected(current, committed, rules, expected) ==
    IF ~ expected.ok THEN ReverseByValue(current, committed, rules)
    ELSE ReverseWritten(current, rules, Locate(current, Values(rules)),
                        [i \in DOMAIN expected.spans |-> Place(expected.text, expected.spans[i])])

ReverseRendered(current, committed, rules) ==
    ReverseExpected(current, committed, rules, Substitute(committed, rules))

Unrenderable(content, rules) == ~ Substitute(content, rules).ok

-----------------------------------------------------------------------------
(* What the manager makes of it: one file of an instance *)

\* Every resource's claim on the file, in resource-name order.
ClaimsOn(bound, names) == Seqs!FlattenSeq([i \in DOMAIN names |-> bound[names[i]]])

\* The file a resource renders: one batch over every claim, those of other
\* resources that the committed content no longer takes left out.
RenderResource(committed, bound, names, resource, mine) ==
    LET others == [r \in DOMAIN bound |->
            IF r = resource \/ ~ Substitute(committed, bound[r]).ok THEN <<>> ELSE bound[r]]
    IN  Compose(committed, ClaimsOn(others, names) \o mine)

RECURSIVE RenderFrom(_, _, _, _, _)
\* Each resource's render in turn; one that fails leaves the file as it is.
RenderFrom(file, committed, bound, names, order) ==
    IF order = <<>> THEN file
    ELSE LET out == RenderResource(committed, bound, names, Head(order), bound[Head(order)])
         IN  RenderFrom(IF bound[Head(order)] # <<>> /\ out.ok THEN out.text ELSE file,
                        committed, bound, names, Tail(order))

RerenderAll(file, committed, bound, names) == RenderFrom(file, committed, bound, names, names)

\* Whether a re-render is about to discard an edit: the file is neither what
\* the render produces nor the committed content.
RenderDrift(file, committed, bound, names) ==
    LET expected == Substitute(committed, ClaimsOn(bound, names))
    IN  expected.ok /\ file # expected.text /\ file # committed

\* What a capture records, and whether `tracker capture` refuses it.
UnrenderForCapture(file, committed, bound, names) ==
    LET rules == ClaimsOn(bound, names)
        out == ReverseRendered(file, committed, rules)
    IN  [text |-> out.text, refused |-> out.unplaced # {} \/ Unrenderable(out.text, rules)]

\* A resource's values out of a file, its binding going away.
UnrenderBinding(file, committed, rules) == ReverseRendered(file, committed, rules).text

-----------------------------------------------------------------------------
(* Exports: what each template names, what is bound before it *)

RECURSIVE ResolvePass(_, _, _)
\* Passes over what is pending until one resolves nothing.
ResolvePass(templates, bound, resolved) ==
    LET more == {k \in DOMAIN templates \ resolved :
                     templates[k] \subseteq bound \cup resolved}
    IN  IF more = {} THEN resolved ELSE ResolvePass(templates, bound, resolved \cup more)

ResolveExports(templates, bound) ==
    LET resolved == ResolvePass(templates, bound, {})
    IN  [resolved |-> resolved,
         unresolved |-> [k \in DOMAIN templates \ resolved |->
                            templates[k] \ (bound \cup resolved)]]
=============================================================================

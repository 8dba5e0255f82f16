----------------------------- MODULE MCBinding -----------------------------
(* Instances of Binding for TLC. *)
EXTENDS Binding

CONSTANTS a, b, c, r, q

MCListed == <<a, b, c>>

\* What a tracker comes to need by name, however indirectly.
RECURSIVE Reach(_, _)
Reach(p, S) ==
    LET more == S \cup (UNION {p.requires[t] : t \in S} \cap Tracker)
                  \cup ({p.parent[t] : t \in S} \ {None})
    IN  IF more = S THEN S ELSE Reach(p, more)

\* No tracker comes to need two of a role by name.
Sensible(p) ==
    \A t \in Tracker : \A u, v \in Reach(p, {t}) :
        /\ u # v /\ p.role[u] # None => p.role[u] # p.role[v]
        /\ p.role[u] # None => p.role[u] \notin p.requires[t]
\* Alternatives of a role, one of them under a parent or in need of another.
Roles == {f \in [Tracker -> Role \cup {None}] : q \notin {f[a], f[b]}}
Wants == {f \in [Tracker -> SUBSET (Tracker \cup Role)] :
             f[b] = {} /\ Cardinality(f[a]) < 2 /\ Cardinality(f[c]) < 2}
Trees == {[t \in Tracker |-> IF t = edge[1] THEN edge[2] ELSE None] :
             edge \in {<<None, None>>, <<b, a>>, <<c, a>>, <<c, b>>}}

Priorities == {f \in [Tracker -> {-1, 0}] : f[a] = 0}
Defaults == {f \in [Role -> {None, b}] : f[q] = None}

MCProjects ==
    {p \in [role : Roles, priority : Priorities, requires : Wants, parent : Trees,
            git : {Tracker}, default : Defaults] : Sensible(p)}
=============================================================================

---------------------------- MODULE RemoteProofs ----------------------------
(***************************************************************************)
(* Theorems about a project and its remote, for any instances, machines,   *)
(* edits and mirrors, and any interleaving of commands, landings, follows, *)
(* kills and deaths of workers.                                            *)
(***************************************************************************)
EXTENDS Remote, SequenceTheorems, FiniteSetTheorems, TLAPS

-----------------------------------------------------------------------------
(* Commits, and what names them.                                           *)

Pins == UNION {[D -> Nat] : D \in SUBSET Tracker}
Commit == [of : Tracker, pins : Pins, secret : BOOLEAN, behind : SUBSET Nat]

\* What is behind a commit was made before it, and what a root commit pins too.
Node(commits, c) ==
    /\ commits[c].behind \subseteq 1 .. c
    /\ c \in commits[c].behind
    /\ \A d \in commits[c].behind : commits[d].behind \subseteq commits[c].behind
    /\ \A t \in DOMAIN commits[c].pins : commits[c].pins[t] \in 1 .. c
    /\ Root \in DOMAIN commits[c].pins => commits[c].pins[Root] = c
Graph(commits) ==
    /\ commits \in Seq(Commit)
    /\ \A c \in 1 .. Len(commits) : Node(commits, c)
RootsOf(commits) == {c \in 1 .. Len(commits) : Root \in DOMAIN commits[c].pins}
Roots == RootsOf(made)

\* Commits are only ever added.
Extends(commits, more) ==
    /\ Len(commits) <= Len(more)
    /\ \A c \in 1 .. Len(commits) : more[c] = commits[c]
Grows(commits, more) == Graph(more) /\ Extends(commits, more)

\* Commits that were made, by tracker; and root's among them a root commit.
NamesIn(commits, f) == \A t \in DOMAIN f : f[t] \in 1 .. Len(commits)
Names(f) == NamesIn(made, f)
Tree(f) == Names(f) /\ (Root \in DOMAIN f => f[Root] \in Roots)
IsIndex(f) == Root \in DOMAIN f /\ f[Root] \in Roots /\ f = Index(f[Root])

-----------------------------------------------------------------------------
(* Partial maps of trackers.                                               *)

LEMMA TrackerIs == /\ Tracker = {"a", "b", "root"} /\ Root \in Tracker /\ Children \subseteq Tracker
                   /\ Root \notin Children
  BY DEF Tracker, Children, Root

LEMMA PinsOf ==
    ASSUME NEW f \in Pins
    PROVE  /\ DOMAIN f \subseteq Tracker
           /\ \A t \in DOMAIN f : f[t] \in Nat
           /\ f = [t \in DOMAIN f |-> f[t]]
  BY DEF Pins

LEMMA NoPins == <<>> \in Pins /\ DOMAIN <<>> = {}
<1>1. <<>> \in Seq(Nat) /\ Len(<<>>) = 0
  OBVIOUS
<1>2. DOMAIN <<>> = {}
  BY <1>1
<1>3. <<>> \in [{} -> Nat]
  BY <1>2
<1> QED
  BY <1>2, <1>3 DEF Pins

LEMMA PinsFrom ==
    ASSUME NEW D \in SUBSET Tracker, NEW f \in [D -> Nat]
    PROVE  f \in Pins
  BY DEF Pins

\* A map that has one more name, or another.
IsPut(g, f, t, c) ==
    /\ g \in Pins /\ DOMAIN g = DOMAIN f \union {t} /\ g[t] = c
    /\ \A u \in DOMAIN f : u # t => g[u] = f[u]

LEMMA PutPins ==
    ASSUME NEW f \in Pins, NEW t \in Tracker, NEW c \in Nat
    PROVE  IsPut(Put(f, t, c), f, t, c)
<1> DEFINE D == DOMAIN f \union {t}
<1>1. D \in SUBSET Tracker /\ \A u \in DOMAIN f : f[u] \in Nat
  BY PinsOf
<1>2. Put(f, t, c) \in [D -> Nat]
  BY <1>1 DEF Put
<1>3. Put(f, t, c) \in Pins
  BY <1>1, <1>2, PinsFrom
<1>4. /\ DOMAIN Put(f, t, c) = D
      /\ Put(f, t, c)[t] = c
      /\ \A u \in DOMAIN f : u # t => Put(f, t, c)[u] = f[u]
  BY DEF Put
<1> QED
  BY <1>3, <1>4 DEF IsPut

-----------------------------------------------------------------------------
(* New commits.                                                            *)

LEMMA ExtendsIs ==
    ASSUME NEW commits \in Seq(Commit), NEW more \in Seq(Commit), Extends(commits, more)
    PROVE  /\ Len(commits) \in Nat /\ Len(more) \in Nat /\ Len(commits) <= Len(more)
           /\ 1 .. Len(commits) \subseteq 1 .. Len(more)
           /\ RootsOf(commits) \subseteq RootsOf(more)
           /\ \A c \in 1 .. Len(commits) : more[c] = commits[c]
<1>1. Len(commits) \in Nat /\ Len(more) \in Nat /\ Len(commits) <= Len(more)
  BY DEF Extends
<1>2. \A c \in 1 .. Len(commits) : more[c] = commits[c]
  BY DEF Extends
<1>3. 1 .. Len(commits) \subseteq 1 .. Len(more)
  BY <1>1
<1> QED
  BY <1>1, <1>2, <1>3 DEF RootsOf

LEMMA ExtendsAll ==
    ASSUME NEW commits \in Seq(Commit)
    PROVE  /\ Extends(commits, commits)
           /\ \A more \in Seq(Commit), most \in Seq(Commit) :
                  Extends(commits, more) /\ Extends(more, most) => Extends(commits, most)
<1>1. Extends(commits, commits)
  BY DEF Extends
<1>2. ASSUME NEW more \in Seq(Commit), NEW most \in Seq(Commit),
             Extends(commits, more), Extends(more, most)
      PROVE  Extends(commits, most)
  BY <1>2, ExtendsIs DEF Extends
<1> QED
  BY <1>1, <1>2

LEMMA CommitAt ==
    ASSUME NEW commits, Graph(commits), NEW c \in 1 .. Len(commits)
    PROVE  /\ Len(commits) \in Nat /\ c \in Nat
           /\ commits[c] \in Commit
           /\ commits[c].behind \subseteq 1 .. c /\ commits[c].behind \subseteq 1 .. Len(commits)
           /\ c \in commits[c].behind
           /\ \A d \in commits[c].behind : commits[d].behind \subseteq commits[c].behind
           /\ commits[c].pins \in Pins
           /\ \A t \in DOMAIN commits[c].pins : commits[c].pins[t] \in 1 .. c
           /\ NamesIn(commits, commits[c].pins)
           /\ Root \in DOMAIN commits[c].pins => commits[c].pins[Root] = c
           /\ commits[c].secret \in BOOLEAN
<1>1. commits \in Seq(Commit) /\ Node(commits, c)
  BY DEF Graph
<1>2. Len(commits) \in Nat /\ c \in Nat /\ commits[c] \in Commit /\ 1 .. c \subseteq 1 .. Len(commits)
  BY <1>1
<1>3. commits[c].pins \in Pins /\ commits[c].secret \in BOOLEAN
  BY <1>2 DEF Commit
<1> QED
  BY <1>1, <1>2, <1>3 DEF Node, NamesIn

\* What the next commit may be.
Newest(commits, node, new) ==
    /\ node \in Commit /\ new = Len(commits) + 1
    /\ new \in node.behind
    /\ \A d \in node.behind : d # new => d \in 1 .. Len(commits) /\ commits[d].behind \subseteq node.behind
    /\ \A u \in DOMAIN node.pins : node.pins[u] \in 1 .. new
    /\ Root \in DOMAIN node.pins => node.pins[Root] = new

LEMMA AppendIs ==
    ASSUME NEW commits, Graph(commits), NEW node, NEW new, NEW more, more = Append(commits, node),
           Newest(commits, node, new)
    PROVE  /\ Grows(commits, more)
           /\ Len(more) = new
           /\ new \in 1 .. Len(more)
           /\ more[new] = node
<1> USE DEF Newest
<1>1. commits \in Seq(Commit) /\ Len(commits) \in Nat /\ new \in Nat /\ node \in Commit
  BY DEF Graph
<1>2. /\ more \in Seq(Commit) /\ Len(more) = new /\ more[new] = node
      /\ \A c \in 1 .. Len(commits) : more[c] = commits[c]
  BY <1>1
<1>3. Extends(commits, more)
  BY <1>1, <1>2 DEF Extends
<1>4. \A d \in node.behind : d \in 1 .. new
  BY <1>1
<1>5. ASSUME NEW c \in 1 .. Len(more) PROVE Node(more, c)
  <2>1. CASE c = new
    <3>1. ASSUME NEW d \in node.behind PROVE more[d].behind \subseteq node.behind
      <4>1. CASE d = new
        BY <1>2, <4>1
      <4>2. CASE d # new
        BY <1>2, <4>2
      <4> QED
        BY <4>1, <4>2
    <3>2. node.behind \subseteq 1 .. new
      BY <1>4
    <3> QED
      BY <1>2, <2>1, <3>1, <3>2 DEF Node
  <2>2. CASE c # new
    <3>1. c \in 1 .. Len(commits) /\ c \in Nat
      BY <1>1, <1>2, <2>2
    <3>2. more[c] = commits[c] /\ \A d \in commits[c].behind : more[d] = commits[d]
      BY <1>2, <3>1, CommitAt
    <3>3. Node(commits, c)
      BY <3>1 DEF Graph
    <3> QED
      BY <3>2, <3>3 DEF Node
  <2> QED
    BY <2>1, <2>2
<1>6. Graph(more)
  BY <1>2, <1>5 DEF Graph
<1>7. new \in 1 .. Len(more)
  BY <1>1, <1>2
<1> QED
  BY <1>2, <1>3, <1>6, <1>7 DEF Grows

\* What the next commit may pin.
Fit(pins, new) ==
    /\ pins \in Pins
    /\ \A u \in DOMAIN pins : pins[u] \in 1 .. new
    /\ Root \in DOMAIN pins => pins[Root] = new

\* A new commit comes last, over its parents and all behind them.
Adds(commits, more, new, parents, pins, secret) ==
    /\ Grows(commits, more)
    /\ Len(more) = new /\ new \in 1 .. Len(more)
    /\ more[new].pins = pins /\ more[new].secret = secret
    /\ more[new].behind = (UNION {commits[q].behind : q \in parents}) \union {new}
LEMMA WithIs ==
    ASSUME NEW commits, Graph(commits), NEW t \in Tracker,
           NEW parents \in SUBSET (1 .. Len(commits)), NEW pins, NEW secret \in BOOLEAN,
           NEW more, more = With(commits, t, parents, pins, secret),
           NEW new, new = Len(commits) + 1, Fit(pins, new)
    PROVE  Adds(commits, more, new, parents, pins, secret)
<1>1. PICK behind : behind = (UNION {commits[q].behind : q \in parents}) \union {new}
  OBVIOUS
<1>2. PICK node : node = [of |-> t, pins |-> pins, secret |-> secret, behind |-> behind]
  OBVIOUS
<1>3. commits \in Seq(Commit) /\ Len(commits) \in Nat /\ new \in Nat
  BY DEF Graph
<1>4. \A q \in parents : /\ commits[q].behind \subseteq 1 .. Len(commits)
                         /\ \A d \in commits[q].behind : commits[d].behind \subseteq commits[q].behind
  BY CommitAt
<1>5. \A d \in behind : d # new => \E q \in parents : d \in commits[q].behind
  <2> SUFFICES ASSUME NEW d \in behind, d # new PROVE \E q \in parents : d \in commits[q].behind
    OBVIOUS
  <2>1. d \in UNION {commits[q].behind : q \in parents}
    BY <1>1
  <2> QED
    BY <2>1
<1>6. \A d \in behind : d # new => d \in 1 .. Len(commits) /\ commits[d].behind \subseteq behind
  <2> SUFFICES ASSUME NEW d \in behind, d # new
               PROVE  d \in 1 .. Len(commits) /\ commits[d].behind \subseteq behind
    OBVIOUS
  <2>1. PICK q \in parents : d \in commits[q].behind
    BY <1>5
  <2>2. commits[q].behind \subseteq behind
    BY <1>1
  <2> QED
    BY <1>4, <2>1, <2>2
<1>7. new \in behind /\ behind \subseteq Nat
  <2>1. new \in behind
    BY <1>1
  <2>2. \A d \in behind : d \in Nat
    BY <1>3, <1>6
  <2> QED
    BY <2>1, <2>2
<1>8. node \in Commit
  BY <1>2, <1>7 DEF Commit, Fit
<1>9. more = Append(commits, node)
  BY <1>1, <1>2 DEF With
<1>10. /\ node.pins = pins /\ node.secret = secret /\ node.behind = behind
  BY <1>2
<1>11. /\ Grows(commits, more)
       /\ Len(more) = new /\ new \in 1 .. Len(more) /\ more[new] = node
  <2>1. new \in node.behind
    BY <1>7, <1>10
  <2>2. \A d \in node.behind : d # new => d \in 1 .. Len(commits) /\ commits[d].behind \subseteq node.behind
    BY <1>6, <1>10
  <2>3. /\ \A u \in DOMAIN node.pins : node.pins[u] \in 1 .. new
        /\ Root \in DOMAIN node.pins => node.pins[Root] = new
    BY <1>10 DEF Fit
  <2>4. Newest(commits, node, new)
    BY <1>8, <2>1, <2>2, <2>3 DEF Newest
  <2>5. Grows(commits, more)
    BY <1>9, <2>4, AppendIs
  <2>6. Len(more) = new /\ new \in 1 .. Len(more) /\ more[new] = node
    BY <1>9, <2>4, AppendIs
  <2> QED
    BY <2>5, <2>6
<1> QED
  BY <1>1, <1>10, <1>11 DEF Adds

LEMMA GrowsIs ==
    ASSUME NEW commits, Graph(commits), NEW more, Grows(commits, more)
    PROVE  /\ Graph(more) /\ commits \in Seq(Commit) /\ more \in Seq(Commit)
           /\ Len(commits) \in Nat /\ Len(more) \in Nat /\ Len(commits) <= Len(more)
           /\ 1 .. Len(commits) \subseteq 1 .. Len(more)
           /\ RootsOf(commits) \subseteq RootsOf(more)
           /\ \A c \in 1 .. Len(commits) : more[c] = commits[c]
  BY ExtendsIs DEF Grows, Graph

LEMMA GrowsAll ==
    ASSUME NEW commits, Graph(commits)
    PROVE  /\ Grows(commits, commits)
           /\ \A more, most : Grows(commits, more) /\ Grows(more, most) => Grows(commits, most)
<1>1. Grows(commits, commits)
  BY ExtendsAll DEF Grows, Graph
<1>2. ASSUME NEW more, NEW most, Grows(commits, more), Grows(more, most)
      PROVE  Grows(commits, most)
  <2>1. Extends(commits, most)
    BY <1>2, ExtendsAll DEF Grows, Graph
  <2> QED
    BY <1>2, <2>1 DEF Grows
<1> QED
  BY <1>1, <1>2

\* Commits and pins on the way to a root commit; from one to the next, only
\* tracker `t`'s pin changes, and no root commit is new.
Partly(commits, pins) == Graph(commits) /\ pins \in Pins /\ NamesIn(commits, pins)
Advances(commits, pins, more, after, t) ==
    /\ Partly(more, after) /\ Grows(commits, more)
    /\ DOMAIN pins \subseteq DOMAIN after /\ DOMAIN after \subseteq DOMAIN pins \union {t}
    /\ \A u \in DOMAIN pins : u # t => after[u] = pins[u]
    /\ \A c \in 1 .. Len(more) : c \notin 1 .. Len(commits) => Root \notin DOMAIN more[c].pins

\* The pin of `t` is over some commits, and adds no secret to theirs but a told one.
Over(commits, pins, t, from, told) ==
    /\ from # {} => t \in DOMAIN pins
    /\ t \in DOMAIN pins =>
          /\ from \subseteq commits[pins[t]].behind
          /\ \A c \in commits[pins[t]].behind :
                commits[c].secret /\ ~told => \E q \in from : c \in commits[q].behind

Child(next, commits, pins, t, from, told) ==
    \E more, after : /\ next = [commits |-> more, pins |-> after]
                     /\ Advances(commits, pins, more, after, t)
                     /\ Over(more, after, t, from, told)

LEMMA PinningIs ==
    ASSUME NEW commits, NEW pins, Partly(commits, pins), NEW t \in Children,
           NEW from \in SUBSET (1 .. Len(commits)), NEW secret \in BOOLEAN
    PROVE  Child(Pinning([commits |-> commits, pins |-> pins], t, from, secret),
                 commits, pins, t, from, secret)
<1>1. PICK new : new = Len(commits) + 1
  OBVIOUS
<1>2. PICK more : more = With(commits, t, from, <<>>, secret)
  OBVIOUS
<1>3. PICK after : after = Put(pins, t, new)
  OBVIOUS
<1>4. t \in Tracker /\ t # Root
  BY TrackerIs
<1>5. Graph(commits) /\ pins \in Pins /\ NamesIn(commits, pins) /\ Len(commits) \in Nat
  BY DEF Partly, Graph
<1>6. /\ Grows(commits, more)
      /\ Len(more) = new /\ new \in 1 .. Len(more)
      /\ more[new].pins = <<>> /\ more[new].secret = secret
      /\ more[new].behind = (UNION {commits[q].behind : q \in from}) \union {new}
  <2>1. PICK none \in Pins : none = <<>> /\ DOMAIN none = {}
    BY NoPins
  <2>2. Fit(none, new)
    BY <2>1 DEF Fit
  <2>3. more = With(commits, t, from, none, secret)
    BY <1>2, <2>1
  <2>4. Adds(commits, more, new, from, none, secret)
    BY <1>1, <1>4, <1>5, <2>2, <2>3, WithIs
  <2> QED
    BY <2>1, <2>4 DEF Adds
<1>7. Pinning([commits |-> commits, pins |-> pins], t, from, secret) = [commits |-> more, pins |-> after]
  BY <1>1, <1>2, <1>3 DEF Pinning
<1>8. new \in Nat
  BY <1>1, <1>5
<1>9. /\ after \in Pins
      /\ DOMAIN after = DOMAIN pins \union {t}
      /\ after[t] = new
      /\ \A u \in DOMAIN pins : u # t => after[u] = pins[u]
  <2>1. IsPut(after, pins, t, new)
    BY <1>3, <1>4, <1>5, <1>8, PutPins
  <2> QED
    BY <2>1 DEF IsPut
<1>10. Graph(more) /\ \A c \in 1 .. Len(commits) : c \in 1 .. Len(more) /\ more[c] = commits[c]
  BY <1>5, <1>6, GrowsIs
<1>11. NamesIn(more, after)
  BY <1>5, <1>6, <1>9, <1>10 DEF NamesIn
<1>12. Partly(more, after)
  BY <1>9, <1>10, <1>11 DEF Partly
<1>13. \A c \in 1 .. Len(more) : c \notin 1 .. Len(commits) => c = new
  BY <1>1, <1>5, <1>6
<1>14. \A c \in 1 .. Len(more) : c \notin 1 .. Len(commits) => Root \notin DOMAIN more[c].pins
  BY NoPins, <1>6, <1>13
<1>15. Advances(commits, pins, more, after, t)
  BY <1>6, <1>9, <1>12, <1>14 DEF Advances
<1>16. ASSUME NEW c \in more[new].behind, more[c].secret, ~secret
       PROVE  \E q \in from : c \in more[q].behind
  <2>1. c # new
    BY <1>6, <1>16
  <2>2. PICK q \in from : c \in commits[q].behind
    BY <1>6, <1>16, <2>1
  <2>3. more[q] = commits[q]
    BY <1>10
  <2> QED
    BY <2>2, <2>3
<1>17. from \subseteq more[new].behind
  <2> SUFFICES ASSUME NEW q \in from PROVE q \in commits[q].behind
    BY <1>6
  <2> QED
    BY <1>5, CommitAt
<1>18. Over(more, after, t, from, secret)
  BY <1>9, <1>16, <1>17 DEF Over
<1> QED
  BY <1>7, <1>15, <1>18 DEF Child

\* What some names name for a tracker.
From(f, t) == IF t \in DOMAIN f THEN {f[t]} ELSE {}

LEMMA Stays ==
    ASSUME NEW commits, NEW pins, Partly(commits, pins), NEW t \in Children, NEW told \in BOOLEAN
    PROVE  Child([commits |-> commits, pins |-> pins], commits, pins, t, From(pins, t), told)
<1>1. Graph(commits) /\ Grows(commits, commits)
  BY GrowsAll DEF Partly
<1>2. Advances(commits, pins, commits, pins, t)
  BY <1>1 DEF Advances
<1>3. ASSUME t \in DOMAIN pins
      PROVE  pins[t] \in commits[pins[t]].behind
  <2>1. pins[t] \in 1 .. Len(commits)
    BY <1>3 DEF Partly, NamesIn
  <2> QED
    BY <1>1, <2>1, CommitAt
<1>4. Over(commits, pins, t, From(pins, t), told)
  BY <1>3 DEF Over, From
<1> QED
  BY <1>2, <1>4 DEF Child

LEMMA OverGrows ==
    ASSUME NEW commits, NEW pins, Partly(commits, pins), NEW more, Grows(commits, more), NEW after,
           NEW t, t \in DOMAIN after <=> t \in DOMAIN pins, t \in DOMAIN pins => after[t] = pins[t],
           NEW from \in SUBSET (1 .. Len(commits)), NEW told, Over(commits, pins, t, from, told)
    PROVE  Over(more, after, t, from, told)
<1>1. Graph(commits)
  BY DEF Partly
<1>2. \A c \in 1 .. Len(commits) : more[c] = commits[c]
  BY <1>1, GrowsIs
<1>3. CASE t \in DOMAIN pins
  <2>1. PICK d : d = pins[t]
    OBVIOUS
  <2>2. d \in 1 .. Len(commits) /\ after[t] = d
    BY <1>3, <2>1 DEF Partly, NamesIn
  <2>3. more[d] = commits[d] /\ commits[d].behind \subseteq 1 .. Len(commits)
    BY <1>1, <1>2, <2>2, CommitAt
  <2>4. /\ from \subseteq commits[d].behind
        /\ \A c \in commits[d].behind :
              commits[c].secret /\ ~told => \E q \in from : c \in commits[q].behind
    BY <1>3, <2>1 DEF Over
  <2>5. ASSUME NEW c \in more[d].behind, more[c].secret, ~told
        PROVE  \E q \in from : c \in more[q].behind
    <3>1. c \in commits[d].behind /\ more[c] = commits[c]
      BY <1>2, <2>3, <2>5
    <3>2. PICK q \in from : c \in commits[q].behind
      BY <2>4, <2>5, <3>1
    <3> QED
      BY <1>2, <3>2
  <2>6. from \subseteq more[d].behind
    BY <2>3, <2>4
  <2> QED
    BY <1>3, <2>2, <2>5, <2>6 DEF Over
<1>4. CASE t \notin DOMAIN pins
  BY <1>4 DEF Over
<1> QED
  BY <1>3, <1>4

LEMMA StillOver ==
    ASSUME NEW commits, NEW pins, Partly(commits, pins), NEW more, NEW after, NEW u \in Children,
           Advances(commits, pins, more, after, u), NEW t \in Children, t # u,
           NEW from \in SUBSET (1 .. Len(commits)), NEW told, Over(commits, pins, t, from, told)
    PROVE  Over(more, after, t, from, told)
<1>1. /\ DOMAIN pins \subseteq DOMAIN after /\ DOMAIN after \subseteq DOMAIN pins \union {u}
      /\ \A v \in DOMAIN pins : v # u => after[v] = pins[v]
  BY DEF Advances
<1>2. t \in DOMAIN after <=> t \in DOMAIN pins
  BY <1>1
<1>3. t \in DOMAIN pins => after[t] = pins[t]
  BY <1>1
<1>4. Grows(commits, more)
  BY DEF Advances
<1> QED
  BY <1>2, <1>3, <1>4, OverGrows

LEMMA OverAny ==
    ASSUME NEW commits, NEW pins, NEW t, NEW from, NEW told, Over(commits, pins, t, from, told),
           NEW said, told => said
    PROVE  Over(commits, pins, t, from, said)
  BY DEF Over

LEMMA RootedIs ==
    ASSUME NEW commits, NEW pins, Partly(commits, pins), NEW parents \in SUBSET (1 .. Len(commits)),
           NEW secret \in BOOLEAN, NEW more, NEW new, new = Len(commits) + 1,
           more = Rooted([commits |-> commits, pins |-> pins], parents, secret)
    PROVE  Adds(commits, more, new, parents, Put(pins, Root, new), secret)
<1>1. PICK after : after = Put(pins, Root, new)
  OBVIOUS
<1>2. Graph(commits) /\ pins \in Pins /\ NamesIn(commits, pins) /\ Len(commits) \in Nat
  BY DEF Partly, Graph
<1>3. new \in Nat /\ Root \in Tracker
  BY <1>2, TrackerIs
<1>4. /\ after \in Pins
      /\ DOMAIN after = DOMAIN pins \union {Root}
      /\ after[Root] = new
      /\ \A u \in DOMAIN pins : u # Root => after[u] = pins[u]
  <2>1. IsPut(after, pins, Root, new)
    BY <1>1, <1>2, <1>3, PutPins
  <2> QED
    BY <2>1 DEF IsPut
<1>5. Fit(after, new)
  <2>1. 1 .. Len(commits) \subseteq 1 .. new /\ new \in 1 .. new
    BY <1>2, <1>3
  <2>2. \A u \in DOMAIN after : after[u] \in 1 .. new
    BY <1>2, <1>4, <2>1 DEF NamesIn
  <2> QED
    BY <1>4, <2>2 DEF Fit
<1>6. more = With(commits, Root, parents, after, secret)
  BY <1>1 DEF Rooted
<1> QED
  BY <1>1, <1>2, <1>3, <1>5, <1>6, WithIs

LEMMA IndexIs ==
    ASSUME Graph(made), NEW r \in Roots
    PROVE  /\ r \in 1 .. Len(made) /\ r \in Nat /\ r # 0 /\ Len(made) \in Nat
           /\ Index(r) = made[r].pins /\ Index(r) \in Pins
           /\ Root \in DOMAIN Index(r) /\ Index(r)[Root] = r
           /\ NamesIn(made, Index(r)) /\ Tree(Index(r)) /\ IsIndex(Index(r))
<1>1. r \in 1 .. Len(made) /\ Root \in DOMAIN made[r].pins
  BY DEF Roots, RootsOf
<1>2. PICK pins : pins = made[r].pins
  OBVIOUS
<1>3. pins \in Pins /\ NamesIn(made, pins) /\ pins[Root] = r /\ r \in Nat /\ Len(made) \in Nat
  BY <1>1, <1>2, CommitAt
<1>4. [pins EXCEPT ![Root] = r] = pins
  BY <1>3, PinsOf
<1>5. r # 0
  BY <1>1, <1>3
<1>6. Index(r) = pins
  BY <1>2, <1>4, <1>5 DEF Index
<1>7. Root \in DOMAIN Index(r) /\ Index(r)[Root] = r
  BY <1>1, <1>2, <1>3, <1>6
<1>8. Tree(Index(r)) /\ IsIndex(Index(r))
  BY <1>3, <1>6, <1>7 DEF Tree, IsIndex, Names
<1> QED
  BY <1>1, <1>2, <1>3, <1>5, <1>6, <1>7, <1>8

LEMMA AtIs ==
    ASSUME NEW commits, Len(commits) \in Nat, NEW f, NamesIn(commits, f), NEW t
    PROVE  /\ At(f, t) \in Nat /\ At(f, t) \in {0} \union (1 .. Len(commits))
           /\ {At(f, t)} \ {0} = From(f, t)
           /\ From(f, t) \subseteq 1 .. Len(commits)
           /\ t \in DOMAIN f => At(f, t) = f[t] /\ At(f, t) # 0
           /\ t \notin DOMAIN f => At(f, t) = 0
<1>1. CASE t \in DOMAIN f
  <2>1. f[t] \in 1 .. Len(commits) /\ f[t] \in Nat /\ f[t] # 0
    BY <1>1 DEF NamesIn
  <2> QED
    BY <1>1, <2>1 DEF At, From
<1>2. CASE t \notin DOMAIN f
  BY <1>2 DEF At, From
<1> QED
  BY <1>1, <1>2

LEMMA EditChildIs ==
    ASSUME NEW commits, NEW pins, Partly(commits, pins), NEW t \in Children,
           NEW head, NEW edit,
           From(Index(head), t) = From(pins, t), {At(Index(head), t)} \ {0} = From(pins, t)
    PROVE  Child(EditChild([commits |-> commits, pins |-> pins], t, head, edit),
                 commits, pins, t, From(pins, t), t \in edit.secret)
<1>1. PICK from \in SUBSET (1 .. Len(commits)) : from = From(pins, t)
  BY DEF Partly, NamesIn, From
<1>a. PICK secret : secret = (t \in edit.secret)
  OBVIOUS
<1>b. secret \in BOOLEAN
  BY <1>a
<1>2. CASE t \in edit.in
  <2>1. EditChild([commits |-> commits, pins |-> pins], t, head, edit)
            = Pinning([commits |-> commits, pins |-> pins], t, from, secret)
    BY <1>1, <1>a, <1>2 DEF EditChild
  <2>2. Child(Pinning([commits |-> commits, pins |-> pins], t, from, secret), commits, pins, t, from, secret)
    BY <1>b, PinningIs
  <2> QED
    BY <1>1, <1>a, <2>1, <2>2
<1>3. CASE t \notin edit.in
  <2>1. EditChild([commits |-> commits, pins |-> pins], t, head, edit) = [commits |-> commits, pins |-> pins]
    BY <1>3 DEF EditChild
  <2>2. Child([commits |-> commits, pins |-> pins], commits, pins, t, From(pins, t), secret)
    BY <1>b, Stays
  <2> QED
    BY <1>a, <2>1, <2>2
<1> QED
  BY <1>2, <1>3

LEMMA LaterIs ==
    ASSUME Graph(made), NEW a \in {0} \union (1 .. Len(made)), NEW b \in {0} \union (1 .. Len(made)),
           ~ (a = 0 /\ b = 0)
    PROVE  /\ Later(a, b) = {} => a # 0 /\ b # 0
           /\ Later(a, b) # {} => \E c \in 1 .. Len(made) :
                 /\ Later(a, b) = {c} /\ c \in {a, b}
                 /\ {a, b} \ {0} \subseteq made[c].behind
<1>1. \A c \in 1 .. Len(made) : c # 0 /\ c \in made[c].behind
  BY CommitAt
<1>2. CASE a = 0 \/ (b # 0 /\ Ancestor(a, b))
  <2>1. Later(a, b) = {b} /\ b # 0 /\ b \in 1 .. Len(made)
    BY <1>2 DEF Later
  <2>2. {a, b} \ {0} \subseteq made[b].behind
    BY <1>1, <1>2, <2>1 DEF Ancestor, Behind
  <2> QED
    BY <2>1, <2>2
<1>3. CASE ~ (a = 0 \/ (b # 0 /\ Ancestor(a, b))) /\ (b = 0 \/ Ancestor(b, a))
  <2>1. Later(a, b) = {a} /\ a # 0 /\ a \in 1 .. Len(made)
    BY <1>3 DEF Later
  <2>2. {a, b} \ {0} \subseteq made[a].behind
    BY <1>1, <1>3, <2>1 DEF Ancestor, Behind
  <2> QED
    BY <2>1, <2>2
<1>4. CASE ~ (a = 0 \/ (b # 0 /\ Ancestor(a, b))) /\ ~ (b = 0 \/ Ancestor(b, a))
  <2>1. Later(a, b) = {}
    BY <1>4 DEF Later
  <2> QED
    BY <1>4, <2>1
<1> QED
  BY <1>2, <1>3, <1>4

LEMMA JoinChildIs ==
    ASSUME Graph(made), NEW commits, NEW pins, Partly(commits, pins), Grows(made, commits),
           NEW t \in Children, NEW a \in {0} \union (1 .. Len(made)),
           NEW b \in {0} \union (1 .. Len(made)), From(pins, t) = {a} \ {0}
    PROVE  Child(JoinChild([commits |-> commits, pins |-> pins], t, a, b),
                 commits, pins, t, {a, b} \ {0}, FALSE)
<1> DEFINE so == [commits |-> commits, pins |-> pins]
<1>1. /\ Graph(commits) /\ pins \in Pins /\ NamesIn(commits, pins)
      /\ \A c \in 1 .. Len(made) : c \in 1 .. Len(commits) /\ commits[c] = made[c]
  BY GrowsIs DEF Partly
<1>2. CASE a = 0 /\ b = 0
  <2>1. JoinChild(so, t, a, b) = so /\ {a, b} \ {0} = From(pins, t)
    BY <1>2 DEF JoinChild
  <2>2. Child(so, commits, pins, t, From(pins, t), FALSE)
    BY Stays
  <2> QED
    BY <2>1, <2>2
<1>3. CASE ~ (a = 0 /\ b = 0) /\ Later(a, b) = {}
  <2>1. a # 0 /\ b # 0
    BY <1>3, LaterIs
  <2>2. {a, b} \in SUBSET (1 .. Len(commits)) /\ {a, b} \ {0} = {a, b}
    BY <1>1, <2>1
  <2>3. JoinChild(so, t, a, b) = Pinning(so, t, {a, b}, FALSE)
    BY <1>3 DEF JoinChild
  <2>4. PICK from \in SUBSET (1 .. Len(commits)) : from = {a, b}
    BY <2>2
  <2>5. PICK secret \in BOOLEAN : secret = FALSE
    OBVIOUS
  <2>6. Child(Pinning([commits |-> commits, pins |-> pins], t, from, secret), commits, pins, t, from, secret)
    BY PinningIs
  <2> QED
    BY <2>2, <2>3, <2>4, <2>5, <2>6
<1>4. CASE ~ (a = 0 /\ b = 0) /\ Later(a, b) # {}
  <2>1. PICK c \in 1 .. Len(made) : /\ Later(a, b) = {c} /\ c \in {a, b}
                                    /\ {a, b} \ {0} \subseteq made[c].behind
    BY <1>4, LaterIs
  <2>2. (CHOOSE x \in Later(a, b) : TRUE) = c
    BY <2>1
  <2>3. PICK after : after = Put(pins, t, c)
    OBVIOUS
  <2>4. JoinChild(so, t, a, b) = [commits |-> commits, pins |-> after]
    BY <1>4, <2>2, <2>3 DEF JoinChild
  <2>5. t \in Tracker /\ c \in 1 .. Len(commits) /\ c \in Nat /\ c # 0
    BY <1>1, <2>1, TrackerIs
  <2>6. /\ after \in Pins
        /\ DOMAIN after = DOMAIN pins \union {t}
        /\ after[t] = c
        /\ \A u \in DOMAIN pins : u # t => after[u] = pins[u]
    <3>1. pins \in Pins
      BY <1>1
    <3>2. IsPut(after, pins, t, c)
      BY <2>3, <2>5, <3>1, PutPins
    <3> QED
      BY <3>2 DEF IsPut
  <2>7. Partly(commits, after)
    BY <1>1, <2>5, <2>6 DEF Partly, NamesIn
  <2>8. Advances(commits, pins, commits, after, t)
    BY <1>1, <2>6, <2>7, GrowsAll DEF Advances
  <2>9. commits[c].behind = made[c].behind /\ c \in {a, b} \ {0}
    BY <1>1, <2>1, <2>5
  <2>10. Over(commits, after, t, {a, b} \ {0}, FALSE)
    BY <2>1, <2>6, <2>9 DEF Over
  <2> QED
    BY <2>4, <2>8, <2>10 DEF Child
<1> QED
  BY <1>2, <1>3, <1>4

\* What some commits pin of a tracker.
PinnedBy(commits, parents, t) == UNION {From(commits[q].pins, t) : q \in parents}

\* Commits with one new root commit, the last, over its parents.
NewRoot(commits, more, parents, told) ==
    /\ Grows(commits, more) /\ Len(commits) < Len(more)
    /\ Root \in DOMAIN more[Len(more)].pins
    /\ more[Len(more)].behind = (UNION {commits[q].behind : q \in parents}) \union {Len(more)}
    /\ more[Len(more)].secret = told
    /\ \A c \in 1 .. Len(more) : c \notin 1 .. Len(commits) /\ c # Len(more) => Root \notin DOMAIN more[c].pins
    /\ \A t \in Children : Over(more, more[Len(more)].pins, t, PinnedBy(commits, parents, t), told)

LEMMA PinnedByIs ==
    ASSUME NEW commits, Graph(commits), NEW parents \in SUBSET (1 .. Len(commits)), NEW t
    PROVE  PinnedBy(commits, parents, t) \in SUBSET (1 .. Len(commits))
<1> SUFFICES ASSUME NEW q \in parents PROVE From(commits[q].pins, t) \subseteq 1 .. Len(commits)
  BY DEF PinnedBy
<1>1. NamesIn(commits, commits[q].pins)
  BY CommitAt
<1> QED
  BY <1>1 DEF NamesIn, From

LEMMA RootOverIs ==
    ASSUME NEW base, Graph(base), NEW commits, NEW pins, Partly(commits, pins), Grows(base, commits),
           NEW parents \in SUBSET (1 .. Len(base)), NEW told \in BOOLEAN,
           \A c \in 1 .. Len(commits) : c \notin 1 .. Len(base) => Root \notin DOMAIN commits[c].pins,
           \A t \in Children : Over(commits, pins, t, PinnedBy(base, parents, t), told),
           NEW more, more = Rooted([commits |-> commits, pins |-> pins], parents, told)
    PROVE  NewRoot(base, more, parents, told)
<1>1. PICK new : new = Len(commits) + 1
  OBVIOUS
<1>2. PICK after : after = Put(pins, Root, new)
  OBVIOUS
<1>3. /\ Graph(commits) /\ pins \in Pins /\ Len(commits) \in Nat /\ Len(base) \in Nat
      /\ 1 .. Len(base) \subseteq 1 .. Len(commits) /\ Len(base) <= Len(commits)
      /\ \A c \in 1 .. Len(base) : commits[c] = base[c]
  BY GrowsIs DEF Partly
<1>4. Adds(commits, more, new, parents, after, told)
  <2>1. parents \in SUBSET (1 .. Len(commits))
    BY <1>3
  <2> QED
    BY <1>1, <1>2, <2>1, RootedIs
<1>5. /\ Grows(commits, more) /\ Len(more) = new /\ new \in 1 .. Len(more)
      /\ more[new].pins = after /\ more[new].secret = told
      /\ more[new].behind = (UNION {commits[q].behind : q \in parents}) \union {new}
  BY <1>4 DEF Adds
<1>6. Grows(base, more)
  BY <1>5, GrowsAll
<1>7. Len(base) < Len(more)
  BY <1>1, <1>3, <1>5
<1>8. Root \in Tracker /\ new \in Nat
  BY <1>1, <1>3, TrackerIs
<1>9. IsPut(after, pins, Root, new)
  BY <1>2, <1>3, <1>8, PutPins
<1>10. (UNION {commits[q].behind : q \in parents}) = UNION {base[q].behind : q \in parents}
  BY <1>3
<1>11. \A c \in 1 .. Len(commits) : more[c] = commits[c]
  BY <1>3, <1>5, GrowsIs
<1>12. ASSUME NEW c \in 1 .. Len(more), c \notin 1 .. Len(base), c # Len(more)
       PROVE  Root \notin DOMAIN more[c].pins
  <2>1. c \in 1 .. Len(commits)
    BY <1>1, <1>3, <1>5, <1>12
  <2> QED
    BY <1>11, <1>12, <2>1
<1>13. ASSUME NEW t \in Children
       PROVE  Over(more, after, t, PinnedBy(base, parents, t), told)
  <2>1. t # Root
    BY TrackerIs
  <2>2. t \in DOMAIN after <=> t \in DOMAIN pins
    BY <1>9, <2>1 DEF IsPut
  <2>3. t \in DOMAIN pins => after[t] = pins[t]
    BY <1>9, <2>1 DEF IsPut
  <2>4. PICK from \in SUBSET (1 .. Len(base)) : from = PinnedBy(base, parents, t)
    BY PinnedByIs
  <2>5. from \in SUBSET (1 .. Len(commits)) /\ Over(commits, pins, t, from, told)
    BY <1>3, <2>4
  <2>6. Over(more, after, t, from, told)
    BY <1>5, <2>2, <2>3, <2>5, OverGrows
  <2> QED
    BY <2>4, <2>6
<1> QED
  BY <1>5, <1>6, <1>7, <1>9, <1>10, <1>12, <1>13 DEF NewRoot, IsPut

\* One child's pin after the other's, and the root commit over both.
LEMMA BothChildren ==
    ASSUME NEW base, Graph(base), NEW pins, Partly(base, pins), NEW parents \in SUBSET (1 .. Len(base)),
           NEW told \in BOOLEAN, NEW saidA, NEW saidB, saidA => told, saidB => told,
           NEW commits, NEW then, Advances(base, pins, commits, then, "a"),
           Over(commits, then, "a", PinnedBy(base, parents, "a"), saidA),
           NEW two, Child(two, commits, then, "b", PinnedBy(base, parents, "b"), saidB)
    PROVE  NewRoot(base, Rooted(two, parents, told), parents, told)
<1>1. PICK more, after : /\ two = [commits |-> more, pins |-> after]
                         /\ Advances(commits, then, more, after, "b")
                         /\ Over(more, after, "b", PinnedBy(base, parents, "b"), saidB)
  BY DEF Child
<1>2. "a" \in Children /\ "b" \in Children /\ "a" # "b" /\ \A t \in Children : t \in {"a", "b"}
  BY DEF Children
<1>3. /\ Partly(commits, then) /\ Grows(base, commits)
      /\ \A c \in 1 .. Len(commits) : c \notin 1 .. Len(base) => Root \notin DOMAIN commits[c].pins
  BY DEF Advances
<1>4. /\ Partly(more, after) /\ Grows(commits, more)
      /\ \A c \in 1 .. Len(more) : c \notin 1 .. Len(commits) => Root \notin DOMAIN more[c].pins
  BY <1>1 DEF Advances
<1>5. Grows(base, more)
  BY <1>3, <1>4, GrowsAll
<1>6. PICK from \in SUBSET (1 .. Len(base)) : from = PinnedBy(base, parents, "a")
  BY PinnedByIs
<1>7. from \in SUBSET (1 .. Len(commits))
  BY <1>3, <1>6, GrowsIs
<1>8. Over(more, after, "a", from, saidA)
  <2>1. Over(commits, then, "a", from, saidA)
    BY <1>6
  <2> QED
    BY <1>1, <1>2, <1>3, <1>7, <2>1, StillOver
<1>9. Over(more, after, "a", PinnedBy(base, parents, "a"), told)
  BY <1>6, <1>8, OverAny
<1>10. Over(more, after, "b", PinnedBy(base, parents, "b"), told)
  BY <1>1, OverAny
<1>11. \A t \in Children : Over(more, after, t, PinnedBy(base, parents, t), told)
  BY <1>2, <1>9, <1>10
<1>12. ASSUME NEW c \in 1 .. Len(more), c \notin 1 .. Len(base)
       PROVE  Root \notin DOMAIN more[c].pins
  <2>1. CASE c \in 1 .. Len(commits)
    <3>1. more[c] = commits[c]
      BY <1>3, <1>4, <2>1, GrowsIs DEF Partly
    <3> QED
      BY <1>3, <1>12, <2>1, <3>1
  <2>2. CASE c \notin 1 .. Len(commits)
    BY <1>4, <2>2
  <2> QED
    BY <2>1, <2>2
<1> QED
  BY <1>1, <1>4, <1>5, <1>11, <1>12, RootOverIs

LEMMA EditedIs ==
    ASSUME Graph(made), NEW head \in Roots, NEW edit
    PROVE  NewRoot(made, Edited(head, edit), {head}, edit.secret # {})
<1>1. PICK pins : pins = Index(head)
  OBVIOUS
<1>2. pins = made[head].pins /\ Partly(made, pins) /\ head \in 1 .. Len(made) /\ head # 0 /\ Len(made) \in Nat
  BY <1>1, IndexIs DEF Partly
<1>3. PICK parents : parents = {head}
  OBVIOUS
<1>4. parents \in SUBSET (1 .. Len(made)) /\ {head} \ {0} = parents
  BY <1>2, <1>3
<1>5. \A t \in Children : PinnedBy(made, parents, t) = From(pins, t)
  BY <1>2, <1>3 DEF PinnedBy
<1>6. "a" \in Children /\ "b" \in Children /\ "a" # "b"
  BY DEF Children
<1>7. \A t \in Children : {At(pins, t)} \ {0} = From(pins, t)
  BY <1>2, AtIs DEF Partly
<1>8. PICK saidA, saidB : saidA = ("a" \in edit.secret) /\ saidB = ("b" \in edit.secret)
  OBVIOUS
<1>9. PICK told \in BOOLEAN : told = (edit.secret # {})
  <2>1. (edit.secret # {}) \in BOOLEAN
    OBVIOUS
  <2> QED
    BY <2>1
<1>10. (saidA => told) /\ (saidB => told)
  BY <1>8, <1>9
<1>11. PICK one : one = EditChild([commits |-> made, pins |-> pins], "a", head, edit)
  OBVIOUS
<1>12. Child(one, made, pins, "a", From(pins, "a"), saidA)
  BY <1>1, <1>2, <1>6, <1>7, <1>8, <1>11, EditChildIs
<1>13. PICK commits, then : /\ one = [commits |-> commits, pins |-> then]
                            /\ Advances(made, pins, commits, then, "a")
                            /\ Over(commits, then, "a", From(pins, "a"), saidA)
  BY <1>12 DEF Child
<1>14. PICK two : two = EditChild(one, "b", head, edit)
  OBVIOUS
<1>15. From(then, "b") = From(pins, "b")
  BY <1>6, <1>13 DEF Advances, From
<1>16. Child(two, commits, then, "b", From(pins, "b"), saidB)
  <2>1. Partly(commits, then)
    BY <1>13 DEF Advances
  <2>2. From(Index(head), "b") = From(then, "b") /\ {At(Index(head), "b")} \ {0} = From(then, "b")
    BY <1>1, <1>6, <1>7, <1>15
  <2>3. two = EditChild([commits |-> commits, pins |-> then], "b", head, edit)
    BY <1>13, <1>14
  <2>4. Child(two, commits, then, "b", From(then, "b"), "b" \in edit.secret)
    BY <1>6, <2>1, <2>2, <2>3, EditChildIs
  <2> QED
    BY <1>8, <1>15, <2>4
<1>17. NewRoot(made, Rooted(two, parents, told), parents, told)
  <2>1. Over(commits, then, "a", PinnedBy(made, parents, "a"), saidA)
    BY <1>5, <1>6, <1>13
  <2>2. Child(two, commits, then, "b", PinnedBy(made, parents, "b"), saidB)
    BY <1>5, <1>6, <1>16
  <2> QED
    BY <1>2, <1>4, <1>10, <1>13, <2>1, <2>2, BothChildren
<1>18. Edited(head, edit) = Rooted(two, parents, told)
  BY <1>1, <1>4, <1>9, <1>11, <1>14 DEF Edited
<1> QED
  BY <1>3, <1>9, <1>17, <1>18

LEMMA JoinedIs ==
    ASSUME Graph(made), NEW ours \in Roots, NEW theirs \in Roots
    PROVE  NewRoot(made, Joined(ours, theirs), {ours, theirs}, FALSE)
<1>1. PICK pins, others : pins = Index(ours) /\ others = Index(theirs)
  OBVIOUS
<1>2. pins = made[ours].pins /\ Partly(made, pins) /\ ours \in 1 .. Len(made) /\ ours # 0 /\ Len(made) \in Nat
  BY <1>1, IndexIs DEF Partly
<1>3. others = made[theirs].pins /\ NamesIn(made, others) /\ theirs \in 1 .. Len(made) /\ theirs # 0
  BY <1>1, IndexIs
<1>4. PICK parents : parents = {ours, theirs}
  OBVIOUS
<1>5. parents \in SUBSET (1 .. Len(made)) /\ {ours, theirs} \ {0} = parents
  BY <1>2, <1>3, <1>4
<1>6. \A t : PinnedBy(made, parents, t) = From(pins, t) \union From(others, t)
  BY <1>2, <1>3, <1>4 DEF PinnedBy
<1>7. "a" \in Children /\ "b" \in Children /\ "a" # "b"
  BY DEF Children
<1>8. \A t : /\ At(pins, t) \in {0} \union (1 .. Len(made)) /\ At(others, t) \in {0} \union (1 .. Len(made))
             /\ {At(pins, t)} \ {0} = From(pins, t) /\ {At(others, t)} \ {0} = From(others, t)
             /\ {At(pins, t), At(others, t)} \ {0} = From(pins, t) \union From(others, t)
  <2> TAKE t
  <2>1. At(pins, t) \in {0} \union (1 .. Len(made)) /\ {At(pins, t)} \ {0} = From(pins, t)
    BY <1>2, AtIs DEF Partly
  <2>2. At(others, t) \in {0} \union (1 .. Len(made)) /\ {At(others, t)} \ {0} = From(others, t)
    BY <1>2, <1>3, AtIs
  <2> QED
    BY <2>1, <2>2
<1>9. Grows(made, made)
  BY GrowsAll
<1>10. PICK one : one = JoinChild([commits |-> made, pins |-> pins], "a", At(pins, "a"), At(others, "a"))
  OBVIOUS
<1>11. Child(one, made, pins, "a", PinnedBy(made, parents, "a"), FALSE)
  <2>1. PICK a, b : a = At(pins, "a") /\ b = At(others, "a")
    OBVIOUS
  <2>2. a \in {0} \union (1 .. Len(made)) /\ b \in {0} \union (1 .. Len(made)) /\ From(pins, "a") = {a} \ {0}
    BY <1>8, <2>1
  <2>3. Child(JoinChild([commits |-> made, pins |-> pins], "a", a, b), made, pins, "a", {a, b} \ {0}, FALSE)
    BY <1>2, <1>7, <1>9, <2>2, JoinChildIs
  <2>4. {a, b} \ {0} = PinnedBy(made, parents, "a")
    BY <1>6, <1>8, <2>1
  <2> QED
    BY <1>10, <2>1, <2>3, <2>4
<1>12. PICK commits, then : /\ one = [commits |-> commits, pins |-> then]
                            /\ Advances(made, pins, commits, then, "a")
                            /\ Over(commits, then, "a", PinnedBy(made, parents, "a"), FALSE)
  BY <1>11 DEF Child
<1>13. PICK two : two = JoinChild(one, "b", At(pins, "b"), At(others, "b"))
  OBVIOUS
<1>14. Child(two, commits, then, "b", PinnedBy(made, parents, "b"), FALSE)
  <2>1. PICK a, b : a = At(pins, "b") /\ b = At(others, "b")
    OBVIOUS
  <2>2. From(then, "b") = From(pins, "b") /\ Partly(commits, then) /\ Grows(made, commits)
    BY <1>7, <1>12 DEF Advances, From
  <2>3. a \in {0} \union (1 .. Len(made)) /\ b \in {0} \union (1 .. Len(made)) /\ From(then, "b") = {a} \ {0}
    BY <1>8, <2>1, <2>2
  <2>4. Child(JoinChild([commits |-> commits, pins |-> then], "b", a, b), commits, then, "b", {a, b} \ {0}, FALSE)
    BY <1>7, <2>2, <2>3, JoinChildIs
  <2>5. {a, b} \ {0} = PinnedBy(made, parents, "b")
    BY <1>6, <1>8, <2>1
  <2> QED
    BY <1>12, <1>13, <2>1, <2>4, <2>5
<1>15. PICK told \in BOOLEAN : told = FALSE
  OBVIOUS
<1>16. NewRoot(made, Rooted(two, parents, told), parents, told)
  <2>1. Over(commits, then, "a", PinnedBy(made, parents, "a"), told)
    BY <1>12, <1>15
  <2>2. Child(two, commits, then, "b", PinnedBy(made, parents, "b"), told)
    BY <1>14, <1>15
  <2> QED
    BY <1>2, <1>5, <1>12, <1>15, <2>1, <2>2, BothChildren
<1>17. Joined(ours, theirs) = Rooted(two, parents, told)
  BY <1>1, <1>4, <1>10, <1>13, <1>15 DEF Joined
<1> QED
  BY <1>4, <1>15, <1>16, <1>17

\* A root commit that moves one pin.
PulledRoot(commits, head, t, new) ==
    With(commits, Root, {head}, Put(Put(Index(head), t, new), Root, Len(commits) + 1), FALSE)

LEMMA PulledIs ==
    ASSUME Graph(made), NEW head \in Roots, NEW t \in Children, NEW new \in 1 .. Len(made),
           NEW id, id = Len(made) + 1
    PROVE  /\ Adds(made, PulledRoot(made, head, t, new), id, {head}, Put(Put(Index(head), t, new), Root, id), FALSE)
           /\ Put(Put(Index(head), t, new), Root, id)
                 = [u \in DOMAIN Index(head) \union {t, Root} |->
                       IF u = Root THEN id ELSE IF u = t THEN new ELSE Index(head)[u]]
<1>1. PICK pins : pins = Index(head)
  OBVIOUS
<1>2. pins \in Pins /\ NamesIn(made, pins) /\ head \in 1 .. Len(made) /\ Len(made) \in Nat
  BY <1>1, IndexIs
<1>3. PICK one : one = Put(pins, t, new)
  OBVIOUS
<1>4. t \in Tracker /\ Root \in Tracker /\ t # Root /\ new \in Nat /\ id \in Nat
  BY <1>2, TrackerIs
<1>5. IsPut(one, pins, t, new)
  BY <1>2, <1>3, <1>4, PutPins
<1>6. one \in Pins /\ NamesIn(made, one)
  BY <1>2, <1>5 DEF IsPut, NamesIn
<1>7. PICK two : two = Put(one, Root, id)
  OBVIOUS
<1>8. IsPut(two, one, Root, id)
  BY <1>4, <1>6, <1>7, PutPins
<1>9. Fit(two, id)
  <2>1. 1 .. Len(made) \subseteq 1 .. id /\ id \in 1 .. id
    BY <1>2, <1>4
  <2> QED
    BY <1>6, <1>8, <2>1 DEF Fit, IsPut, NamesIn
<1>10. PICK parents \in SUBSET (1 .. Len(made)) : parents = {head}
  BY <1>2
<1>11. PICK told \in BOOLEAN : told = FALSE
  OBVIOUS
<1>12. PICK more : more = With(made, Root, parents, two, told)
  OBVIOUS
<1>a. PulledRoot(made, head, t, new) = With(made, Root, parents, two, told)
  BY <1>1, <1>3, <1>7, <1>10, <1>11 DEF PulledRoot
<1>13. Adds(made, more, id, parents, two, told)
  BY <1>4, <1>9, <1>12, WithIs
<1>14. two = [u \in DOMAIN pins \union {t, Root} |->
                IF u = Root THEN id ELSE IF u = t THEN new ELSE pins[u]]
  BY <1>3, <1>4, <1>7 DEF Put
<1> QED
  BY <1>1, <1>3, <1>7, <1>10, <1>11, <1>12, <1>a, <1>13, <1>14

-----------------------------------------------------------------------------
(* What must catch up with a merge.                                        *)

Move == [tracker : Children, old : Nat, new : Nat]

\* A tracker moves from its `main` to a commit over it and over what is pinned.
Sound(commits, v, pins, heads) ==
    /\ v \in Move /\ v.tracker \in DOMAIN pins /\ v.old = At(heads, v.tracker)
    /\ v.new \in 1 .. Len(commits)
    /\ pins[v.tracker] \in commits[v.new].behind
    /\ v.old # 0 => v.old \in commits[v.new].behind

\* Some trackers have caught up.
Caught(base, commits, moves, done, pins, heads) ==
    /\ Grows(base, commits)
    /\ \A c \in 1 .. Len(commits) : c \notin 1 .. Len(base) => Root \notin DOMAIN commits[c].pins
    /\ \A v \in moves : Sound(commits, v, pins, heads) /\ v.tracker \in done
    /\ \A v, w \in moves : v.tracker = w.tracker => v = w
    /\ \A t \in done : \/ \E v \in moves : v.tracker = t
                       \/ At(heads, t) # 0 /\ pins[t] \in commits[At(heads, t)].behind

LEMMA SoundGrows ==
    ASSUME NEW commits, Graph(commits), NEW more, Grows(commits, more), NEW v, NEW pins, NEW heads,
           Sound(commits, v, pins, heads)
    PROVE  Sound(more, v, pins, heads)
<1>1. /\ 1 .. Len(commits) \subseteq 1 .. Len(more)
      /\ \A c \in 1 .. Len(commits) : more[c] = commits[c]
  BY GrowsIs
<1>2. v.new \in 1 .. Len(commits)
  BY DEF Sound
<1>3. more[v.new] = commits[v.new] /\ v.new \in 1 .. Len(more)
  BY <1>1, <1>2
<1> QED
  BY <1>3 DEF Sound

\* One more has, by its move.
LEMMA CaughtOne ==
    ASSUME NEW base, Graph(base), NEW commits, Graph(commits), NEW moves, NEW done, NEW pins, NEW heads,
           Caught(base, commits, moves, done, pins, heads), NEW t \in Children, t \notin done,
           NamesIn(base, heads), NEW more, Grows(commits, more),
           \A c \in 1 .. Len(more) : c \notin 1 .. Len(commits) => Root \notin DOMAIN more[c].pins,
           NEW v, v.tracker = t, Sound(more, v, pins, heads)
    PROVE  Caught(base, more, moves \union {v}, done \union {t}, pins, heads)
<1>1. Len(commits) \in Nat /\ \A c \in 1 .. Len(commits) : more[c] = commits[c]
  BY GrowsIs
<1>2. /\ Grows(base, commits)
      /\ \A c \in 1 .. Len(commits) : c \notin 1 .. Len(base) => Root \notin DOMAIN commits[c].pins
      /\ \A w \in moves : Sound(commits, w, pins, heads) /\ w.tracker \in done
      /\ \A u, w \in moves : u.tracker = w.tracker => u = w
  BY DEF Caught
<1>3. \A u \in done : \/ \E w \in moves : w.tracker = u
                      \/ At(heads, u) # 0 /\ pins[u] \in commits[At(heads, u)].behind
  BY DEF Caught
<1>4. Grows(base, more)
  BY <1>2, GrowsAll
<1>5. ASSUME NEW c \in 1 .. Len(more), c \notin 1 .. Len(base)
      PROVE  Root \notin DOMAIN more[c].pins
  BY <1>1, <1>2, <1>5
<1>6. ASSUME NEW w \in moves PROVE Sound(more, w, pins, heads) /\ w.tracker \in done
  <2>1. Sound(commits, w, pins, heads)
    BY <1>2
  <2>2. Sound(more, w, pins, heads)
    BY <2>1, SoundGrows
  <2> QED
    BY <1>2, <2>2
<1>7. \A u, w \in moves \union {v} : u.tracker = w.tracker => u = w
  BY <1>2, <1>6
<1>8. ASSUME NEW u \in done
      PROVE  \/ \E w \in moves \union {v} : w.tracker = u
             \/ At(heads, u) # 0 /\ pins[u] \in more[At(heads, u)].behind
  <2>1. CASE \E w \in moves : w.tracker = u
    BY <2>1
  <2>2. CASE At(heads, u) # 0 /\ pins[u] \in commits[At(heads, u)].behind
    <3>1. At(heads, u) \in 1 .. Len(base) /\ 1 .. Len(base) \subseteq 1 .. Len(commits)
      BY <1>2, <2>2, GrowsIs DEF At, NamesIn
    <3> QED
      BY <1>1, <2>2, <3>1
  <2> QED
    BY <1>3, <2>1, <2>2
<1>9. \E w \in moves \union {v} : w.tracker = t
  OBVIOUS
<1> QED
  BY <1>4, <1>5, <1>6, <1>7, <1>8, <1>9 DEF Caught

CaughtSo(next, base, done, pins, heads) ==
    \E more, after : /\ next = [commits |-> more, moves |-> after]
                     /\ Caught(base, more, after, done, pins, heads)

LEMMA CatchUpChildIs ==
    ASSUME NEW base, Graph(base), NEW commits, NEW moves, NEW done, NEW pins, NEW heads,
           Caught(base, commits, moves, done, pins, heads), NEW t \in Children, t \notin done,
           NamesIn(base, heads), NEW trackers, t \in trackers => t \in DOMAIN pins /\ pins[t] \in 1 .. Len(base)
    PROVE  CaughtSo(CatchUpChild([commits |-> commits, moves |-> moves], t, trackers, pins, At(heads, t)),
                    base, done \union ({t} \intersect trackers), pins, heads)
<1> DEFINE so == [commits |-> commits, moves |-> moves]
           next == CatchUpChild(so, t, trackers, pins, At(heads, t))
<1>1. Grows(base, commits) /\ Graph(commits)
  BY DEF Caught, Grows
<1>2. /\ Len(commits) \in Nat /\ Len(base) \in Nat /\ 1 .. Len(base) \subseteq 1 .. Len(commits)
      /\ \A c \in 1 .. Len(base) : commits[c] = base[c]
  BY <1>1, GrowsIs
<1>3. PICK head : head = At(heads, t)
  OBVIOUS
<1>4. head \in Nat /\ head \in {0} \union (1 .. Len(base))
  BY <1>2, <1>3, AtIs
<1>5. CASE t \notin trackers
  <2>1. next = so /\ done \union ({t} \intersect trackers) = done
    BY <1>5 DEF CatchUpChild
  <2> QED
    BY <2>1 DEF CaughtSo
<1>6. ASSUME t \in trackers
      PROVE  CaughtSo(next, base, done \union {t}, pins, heads)
  <2>1. PICK pin : pin = pins[t] /\ pin \in 1 .. Len(commits) /\ pin \in Nat /\ t \in DOMAIN pins
    BY <1>2, <1>6
  <2>2. CASE head # 0 /\ pin \in commits[head].behind
    <3>1. next = so
      BY <1>3, <2>1, <2>2 DEF CatchUpChild
    <3>2. Caught(base, commits, moves, done \union {t}, pins, heads)
      BY <1>3, <2>1, <2>2 DEF Caught
    <3> QED
      BY <3>1, <3>2 DEF CaughtSo
  <2>3. CASE ~ (head # 0 /\ pin \in commits[head].behind) /\ (head = 0 \/ head \in commits[pin].behind)
    <3>1. PICK v : v = [tracker |-> t, old |-> head, new |-> pin]
      OBVIOUS
    <3>2. next = [commits |-> commits, moves |-> moves \union {v}]
      BY <1>3, <1>6, <2>1, <2>3, <3>1 DEF CatchUpChild, Moving
    <3>3. v \in Move /\ v.tracker = t /\ v.old = head /\ v.new = pin
      BY <1>4, <2>1, <3>1 DEF Move
    <3>4. pin \in commits[pin].behind
      BY <1>1, <2>1, CommitAt
    <3>5. Sound(commits, v, pins, heads)
      BY <1>3, <2>1, <2>3, <3>3, <3>4 DEF Sound
    <3>6. Grows(commits, commits)
      BY <1>1, GrowsAll
    <3>7. Caught(base, commits, moves \union {v}, done \union {t}, pins, heads)
      BY <1>1, <3>3, <3>5, <3>6, CaughtOne
    <3> QED
      BY <3>2, <3>7 DEF CaughtSo
  <2>4. CASE ~ (head # 0 /\ pin \in commits[head].behind) /\ ~ (head = 0 \/ head \in commits[pin].behind)
    <3>1. PICK new : new = Len(commits) + 1
      OBVIOUS
    <3>2. PICK v : v = [tracker |-> t, old |-> head, new |-> new]
      OBVIOUS
    <3>3. PICK more : more = With(commits, t, {head, pin}, <<>>, FALSE)
      OBVIOUS
    <3>4. next = [commits |-> more, moves |-> moves \union {v}]
      BY <1>3, <1>6, <2>1, <2>4, <3>1, <3>2, <3>3 DEF CatchUpChild, Moving
    <3>5. PICK parents \in SUBSET (1 .. Len(commits)) : parents = {head, pin}
      BY <1>2, <1>4, <2>1, <2>4
    <3>6. PICK none \in Pins : none = <<>> /\ DOMAIN none = {}
      BY NoPins
    <3>7. PICK told \in BOOLEAN : told = FALSE
      OBVIOUS
    <3>8. Adds(commits, more, new, parents, none, told)
      <4>1. Fit(none, new)
        BY <3>6 DEF Fit
      <4>2. t \in Tracker
        BY TrackerIs
      <4>3. more = With(commits, t, parents, none, told)
        BY <3>3, <3>5, <3>6, <3>7
      <4> QED
        BY <1>1, <3>1, <4>1, <4>2, <4>3, WithIs
    <3>9. /\ Grows(commits, more) /\ Len(more) = new /\ new \in 1 .. Len(more) /\ more[new].pins = none
          /\ more[new].behind = (UNION {commits[q].behind : q \in {head, pin}}) \union {new}
      BY <3>5, <3>8 DEF Adds
    <3>10. head \in more[new].behind /\ pin \in more[new].behind
      <4>1. head \in 1 .. Len(commits)
        BY <1>2, <1>4, <2>4
      <4>2. head \in commits[head].behind /\ pin \in commits[pin].behind
        BY <1>1, <2>1, <4>1, CommitAt
      <4> QED
        BY <3>9, <4>2
    <3>11. v \in Move /\ v.tracker = t /\ v.old = head /\ v.new = new
      BY <1>2, <1>4, <3>1, <3>2 DEF Move
    <3>12. Sound(more, v, pins, heads)
      BY <1>3, <2>1, <3>9, <3>10, <3>11 DEF Sound
    <3>13. ASSUME NEW c \in 1 .. Len(more), c \notin 1 .. Len(commits)
           PROVE  Root \notin DOMAIN more[c].pins
      <4>1. c = new
        BY <1>2, <3>1, <3>9, <3>13
      <4> QED
        BY <3>6, <3>9, <4>1
    <3>14. Caught(base, more, moves \union {v}, done \union {t}, pins, heads)
      BY <1>1, <3>9, <3>11, <3>12, <3>13, CaughtOne
    <3> QED
      BY <3>4, <3>14 DEF CaughtSo
  <2> QED
    BY <2>2, <2>3, <2>4
<1>7. CASE t \in trackers
  <2>1. done \union ({t} \intersect trackers) = done \union {t}
    BY <1>7
  <2> QED
    BY <1>6, <1>7, <2>1
<1> QED
  BY <1>5, <1>7

LEMMA CatchUpIs ==
    ASSUME NEW commits, Graph(commits), NEW pins, NEW heads, NamesIn(commits, heads),
           NEW trackers \in SUBSET Children,
           \A t \in trackers : t \in DOMAIN pins /\ pins[t] \in 1 .. Len(commits)
    PROVE  CaughtSo(CatchUp(commits, trackers, pins, heads), commits, trackers, pins, heads)
<1>1. Caught(commits, commits, {}, {}, pins, heads)
  BY GrowsAll DEF Caught
<1>2. "a" \in Children /\ "b" \in Children /\ "a" # "b" /\ \A t \in Children : t \in {"a", "b"}
  BY DEF Children
<1>3. PICK one : one = CatchUpChild([commits |-> commits, moves |-> {}], "a", trackers, pins, At(heads, "a"))
  OBVIOUS
<1>4. CaughtSo(one, commits, {} \union ({"a"} \intersect trackers), pins, heads)
  BY <1>1, <1>2, <1>3, CatchUpChildIs
<1>5. PICK done : done = {"a"} \intersect trackers
  OBVIOUS
<1>6. PICK more, moves : /\ one = [commits |-> more, moves |-> moves]
                         /\ Caught(commits, more, moves, done, pins, heads)
  BY <1>4, <1>5 DEF CaughtSo
<1>7. PICK two : two = CatchUpChild(one, "b", trackers, pins, At(heads, "b"))
  OBVIOUS
<1>8. CaughtSo(two, commits, done \union ({"b"} \intersect trackers), pins, heads)
  <2>1. "b" \notin done
    BY <1>5
  <2>2. two = CatchUpChild([commits |-> more, moves |-> moves], "b", trackers, pins, At(heads, "b"))
    BY <1>6, <1>7
  <2> QED
    BY <1>2, <1>6, <2>1, <2>2, CatchUpChildIs
<1>9. done \union ({"b"} \intersect trackers) = trackers
  BY <1>2, <1>5
<1>10. CatchUp(commits, trackers, pins, heads) = two
  BY <1>3, <1>7 DEF CatchUp
<1> QED
  BY <1>8, <1>9, <1>10

-----------------------------------------------------------------------------
(* The state.                                                              *)

\* A project without a remote runs one command at a time (InstanceLock).
OneAtATime == LocalAtOnce <= 1

Maps(S) == UNION {[D -> S] : D \in SUBSET Tracker}
Op == [cmd : {"none", "checkpoint", "merge", "create", "pull"},
       at : {"idle", "sync", "publish", "merge", "fetch", "make", "seed", "land", "wait",
             "root", "keep", "children", "create", "seeds"},
       theirs : Nat, tip : Nat, base : Pins, heads : Pins, merged : Nat,
       moves : SUBSET Move, writes : SUBSET Tracker, todo : Seq(Tracker)]
Landing == [by : Process, moves : SUBSET Move, at : {"read", "move", "moves"},
            held : Nat, head : Nat, drop : SUBSET Nat, tries : Nat]
Repo == [main : Nat, landing : SUBSET Nat, stray : SUBSET Nat, holds : SUBSET Nat]

TypeOK ==
    /\ inst \in [Process -> [head : Nat, tip : Nat]]
    /\ main \in [Range(Host) -> Pins] /\ kept \in [Range(Host) -> Pins]
    /\ has \in [Range(Host) -> SUBSET Nat]
    /\ linked \in BOOLEAN
    /\ list \in Pins /\ was \in SUBSET Nat
    /\ pending \in SUBSET [by : Process, root : Nat, writes : SUBSET Tracker]
    /\ stored \in SUBSET [by : Process, head : Nat, tip : Nat]
    /\ repo \in Maps(Repo)
    /\ fork \in [Process -> Maps(SUBSET Nat)]
    /\ follows \in SUBSET Landing
    /\ op \in [Process -> Op]
    /\ acked \in SUBSET Nat
    /\ spent \in [{"commands", "updates", "kills", "deaths"} -> Nat]

\* What names a commit names one that was made; a workspace's tip is over its head.
Checkpointed(head, tip) == head \in Roots /\ tip \in Roots /\ Ancestor(head, tip)
InstRefs == \A p \in Process : inst[p].head # 0 => Checkpointed(inst[p].head, inst[p].tip)
MainRefs == \A m \in Range(Host) : Tree(main[m]) /\ Tree(kept[m])
StoredRefs == \A c \in stored : Checkpointed(c.head, c.tip)
RepoRefs == \A t \in DOMAIN repo : repo[t].main \in 1 .. Len(made) /\ repo[t].holds \subseteq 1 .. Len(made)
FollowRefs == was \subseteq Roots /\ \A f \in follows : \A v \in f.moves : v.new \in 1 .. Len(made)
OpRefs(p) ==
    /\ Tree(op[p].base) /\ Names(op[p].heads)
    /\ \A v \in op[p].moves : v.new \in 1 .. Len(made)
    /\ ~Idle(p) => op[p].theirs \in Roots
Refs == /\ InstRefs /\ MainRefs /\ StoredRefs /\ RepoRefs /\ FollowRefs
        /\ \A p \in Process : OpRefs(p)

\* A project on its remote: root's branch there, and what follows it, only
\* ever go forward, along the heads `main` had.
OnRemote ==
    /\ IsIndex(list) /\ DOMAIN list \subseteq DOMAIN repo
    /\ list[Root] \in was /\ repo[Root].main \in was
    /\ \A w \in was : Ancestor(w, list[Root])
    /\ \A f \in follows : f.at = "move" =>
            /\ f.head \in was /\ f.held \in was
            /\ Ancestor(f.held, f.head) /\ Ancestor(f.held, repo[Root].main)

\* A command there: what it read of `main` is behind what it makes, and behind
\* what `main` is.
Runs(p) ==
    LET o == op[p]
    IN  /\ o.cmd # "create"
        /\ o.at \in {"idle", "sync", "publish", "merge", "fetch", "make", "seed", "land", "wait", "children"}
        /\ o.at \in {"sync", "publish"} => Checkpointed(o.theirs, o.tip)
        /\ o.at = "publish" => /\ DOMAIN o.base \subseteq DOMAIN repo
                               /\ Range(o.todo) \subseteq DOMAIN Index(o.tip)
        /\ o.at \in {"fetch", "make", "seed", "land"} =>
              IsIndex(o.base) /\ Ancestor(o.base[Root], list[Root]) /\ DOMAIN o.base \subseteq DOMAIN repo
        /\ o.at \in {"seed", "land", "wait", "children"} => o.merged \in Roots
        /\ o.at \in {"seed", "land"} => Ancestor(o.base[Root], o.merged) /\ Ancestor(o.theirs, o.merged)
        /\ o.at = "seed" => Range(o.todo) \subseteq DOMAIN Index(o.merged) \ DOMAIN o.base
        /\ o.at = "land" => \A t \in Range(o.todo) : t = Root \/ \E v \in o.moves : v.tracker = t
        /\ o.at \in {"wait", "children"} => Ancestor(o.theirs, list[Root])

\* A project without a remote: one machine, one command, nothing on a remote
\* but the repos of a creation that was cut short.
Here(f) == Root \in DOMAIN f
AtHome ==
    /\ list = <<>> /\ was = {} /\ pending = {} /\ stored = {} /\ follows = {}
    /\ \A p \in Process : inst[p].head # 0 => Host[p] = Home /\ Here(main[Home]) /\ Here(kept[Home])
    /\ \A p \in Process : ~Idle(p) => Host[p] = Home /\ Here(main[Home]) /\ Here(kept[Home])
    /\ \A p, q \in Process : Idle(p) \/ Idle(q) \/ p = q

\* The command: what it read of `main` is what the store keeps, until it keeps
\* what it merged.
RunsHere(p) ==
    LET o == op[p]
        k == kept[Home]
    IN  /\ o.cmd \in {"none", "merge", "create"} /\ (o.cmd = "create" => o.at # "idle")
        /\ o.at \in {"idle", "merge", "make", "root", "keep", "children", "create", "seeds"}
        /\ o.at = "make" => /\ o.base = Index(k[Root]) /\ o.heads = main[Home]
                            /\ \A t \in DOMAIN k : t \in DOMAIN main[Home] /\ main[Home][t] = k[t]
        /\ o.at \in {"root", "keep", "children"} => o.merged \in Roots /\ Ancestor(o.theirs, o.merged)
        /\ o.at \in {"root", "keep"} => At(o.base, Root) = k[Root] /\ Ancestor(k[Root], o.merged)
        /\ o.at = "root" => main[Home][Root] = k[Root]
        /\ o.at = "keep" => main[Home][Root] = o.merged
        /\ o.at = "children" => k[Root] = o.merged
        /\ o.at = "seeds" => /\ o.base = Index(k[Root])
                             /\ DOMAIN o.heads = DOMAIN o.base /\ Range(o.todo) \subseteq DOMAIN o.base
                             /\ o.heads[Root] = k[Root]
                             /\ \A t \in DOMAIN o.base \ Range(o.todo) : t \in DOMAIN repo
                             /\ Root \notin Range(o.todo) => repo[Root].main = k[Root]

\* What is where `main` is: nothing merged is ever not behind it.
Truth == IF linked THEN list[Root] ELSE At(kept[Home], Root)

Inv ==
    /\ Graph(made) /\ TypeOK /\ Refs
    /\ linked => OnRemote /\ \A p \in Process : Runs(p)
    /\ ~linked => AtHome /\ \A p \in Process : RunsHere(p)
    /\ NothingLost

-----------------------------------------------------------------------------
(* Nothing made is unmade: what held of commits holds when there are more. *)

LEMMA NamesGrow ==
    ASSUME NEW commits, Graph(commits), NEW more, Grows(commits, more), NEW f, NamesIn(commits, f)
    PROVE  NamesIn(more, f)
<1>1. 1 .. Len(commits) \subseteq 1 .. Len(more)
  BY GrowsIs
<1> QED
  BY <1>1 DEF NamesIn

LEMMA GoesOn ==
    ASSUME Graph(made), Grows(made, made')
    PROVE  /\ Graph(made') /\ Len(made) \in Nat /\ Len(made') \in Nat /\ Len(made) <= Len(made')
           /\ 1 .. Len(made) \subseteq 1 .. Len(made') /\ Roots \subseteq Roots'
           /\ \A c \in 1 .. Len(made) : c # 0 /\ made'[c] = made[c]
<1>1. 0 \notin 1 .. Len(made)
  OBVIOUS
<1> QED
  BY <1>1, GrowsIs DEF Roots

LEMMA BehindGoesOn ==
    ASSUME Graph(made), Grows(made, made'), NEW c \in {0} \union (1 .. Len(made))
    PROVE  Behind(c)' = Behind(c)
<1>1. CASE c = 0
  BY <1>1 DEF Behind
<1>2. CASE c \in 1 .. Len(made)
  BY <1>2, GoesOn DEF Behind
<1> QED
  BY <1>1, <1>2

LEMMA AncestorGoesOn ==
    ASSUME Graph(made), Grows(made, made'), NEW a, NEW b \in 1 .. Len(made)
    PROVE  Ancestor(a, b)' <=> Ancestor(a, b)
<1>1. Behind(b)' = Behind(b)
  BY BehindGoesOn
<1> QED
  BY <1>1 DEF Ancestor

LEMMA IndexGoesOn ==
    ASSUME Graph(made), Grows(made, made'), NEW r \in Roots
    PROVE  Index(r)' = Index(r) /\ r \in Roots' /\ r \in 1 .. Len(made) /\ r # 0
<1>1. r \in 1 .. Len(made) /\ r # 0
  BY IndexIs
<1>2. made'[r] = made[r] /\ r \in Roots'
  BY <1>1, GoesOn
<1> QED
  BY <1>1, <1>2 DEF Index

LEMMA TreeGoesOn ==
    ASSUME Graph(made), Grows(made, made'), NEW f, Tree(f)
    PROVE  Tree(f)'
<1>1. NamesIn(made', f)
  BY NamesGrow DEF Tree, Names
<1>2. Roots \subseteq Roots'
  BY GoesOn
<1> QED
  BY <1>1, <1>2 DEF Tree, Names

LEMMA IsIndexGoesOn ==
    ASSUME Graph(made), Grows(made, made'), NEW f, IsIndex(f)
    PROVE  IsIndex(f)'
<1>1. PICK r \in Roots : r = f[Root]
  BY DEF IsIndex
<1>2. Index(r)' = Index(r) /\ r \in Roots'
  BY IndexGoesOn
<1> QED
  BY <1>1, <1>2 DEF IsIndex

LEMMA CheckpointedGoesOn ==
    ASSUME Graph(made), Grows(made, made'), NEW head, NEW tip, Checkpointed(head, tip)
    PROVE  Checkpointed(head, tip)'
<1>1. head \in Roots /\ tip \in Roots /\ tip \in 1 .. Len(made)
  BY IndexIs DEF Checkpointed
<1>2. Ancestor(head, tip)'
  BY <1>1, AncestorGoesOn DEF Checkpointed
<1>3. head \in Roots' /\ tip \in Roots'
  BY <1>1, GoesOn
<1> QED
  BY <1>2, <1>3 DEF Checkpointed

LEMMA AncestorIs ==
    ASSUME Graph(made), NEW b \in 1 .. Len(made)
    PROVE  /\ Ancestor(b, b) /\ Behind(b) = made[b].behind /\ Behind(b) \subseteq 1 .. Len(made)
           /\ \A a : Ancestor(a, b) => a \in 1 .. Len(made) /\ Behind(a) \subseteq Behind(b)
           /\ \A a, c : Ancestor(a, b) /\ Ancestor(c, a) => Ancestor(c, b)
<1>1. b \in made[b].behind /\ made[b].behind \subseteq 1 .. Len(made) /\ b # 0
  BY CommitAt
<1>2. Behind(b) = made[b].behind
  BY <1>1 DEF Behind
<1>3. ASSUME NEW a \in Behind(b) PROVE a \in 1 .. Len(made) /\ Behind(a) \subseteq Behind(b)
  <2>1. a \in 1 .. Len(made) /\ made[a].behind \subseteq made[b].behind /\ a # 0
    BY <1>1, <1>2, CommitAt
  <2> QED
    BY <1>2, <2>1 DEF Behind
<1> QED
  BY <1>1, <1>2, <1>3 DEF Ancestor

-----------------------------------------------------------------------------
(* What a step that leaves a part of the state alone keeps.                *)

LEMMA StaysTree ==
    ASSUME Graph(made), Grows(made, made'), MainRefs, main' = main, kept' = kept
    PROVE  MainRefs'
<1> SUFFICES ASSUME NEW m \in Range(Host) PROVE Tree(main[m])' /\ Tree(kept[m])'
  BY DEF MainRefs
<1>1. PICK f, g : f = main[m] /\ g = kept[m] /\ Tree(f) /\ Tree(g)
  BY DEF MainRefs
<1>2. Tree(f)' /\ Tree(g)'
  BY <1>1, TreeGoesOn
<1> QED
  BY <1>1, <1>2

LEMMA StaysInst ==
    ASSUME Graph(made), Grows(made, made'), InstRefs,
           \A q \in Process : \/ inst'[q] = inst[q]
                              \/ Checkpointed(inst[q].head, inst[q].tip)'
    PROVE  InstRefs'
<1> SUFFICES ASSUME NEW q \in Process, inst'[q].head # 0
             PROVE  Checkpointed(inst[q].head, inst[q].tip)'
  BY DEF InstRefs
<1>1. CASE inst'[q] = inst[q]
  <2>1. PICK h, t : h = inst[q].head /\ t = inst[q].tip /\ Checkpointed(h, t)
    BY <1>1 DEF InstRefs
  <2>2. Checkpointed(h, t)'
    BY <2>1, CheckpointedGoesOn
  <2> QED
    BY <1>1, <2>1, <2>2
<1> QED
  BY <1>1

LEMMA StaysStored ==
    ASSUME Graph(made), Grows(made, made'), StoredRefs, stored' = stored
    PROVE  StoredRefs'
<1> SUFFICES ASSUME NEW c \in stored PROVE Checkpointed(c.head, c.tip)'
  BY DEF StoredRefs
<1>1. PICK h, t : h = c.head /\ t = c.tip /\ Checkpointed(h, t)
  BY DEF StoredRefs
<1>2. Checkpointed(h, t)'
  BY <1>1, CheckpointedGoesOn
<1> QED
  BY <1>1, <1>2

LEMMA StaysRepo ==
    ASSUME Graph(made), Grows(made, made'), RepoRefs, repo' = repo
    PROVE  RepoRefs'
<1>1. 1 .. Len(made) \subseteq 1 .. Len(made')
  BY GoesOn
<1> QED
  BY <1>1 DEF RepoRefs

LEMMA StaysFollow ==
    ASSUME Graph(made), Grows(made, made'), FollowRefs, was' = was,
           \A f \in follows' : f \notin follows => \A v \in f.moves : v.new \in 1 .. Len(made')
    PROVE  FollowRefs'
<1>1. 1 .. Len(made) \subseteq 1 .. Len(made') /\ Roots \subseteq Roots'
  BY GoesOn
<1>2. ASSUME NEW f \in follows' PROVE \A v \in f.moves : v.new \in 1 .. Len(made')
  BY <1>1 DEF FollowRefs
<1>3. was' \subseteq Roots'
  BY <1>1 DEF FollowRefs
<1> QED
  BY <1>2, <1>3 DEF FollowRefs

LEMMA StaysOp ==
    ASSUME Graph(made), Grows(made, made'), NEW q, OpRefs(q), op'[q] = op[q]
    PROVE  OpRefs(q)'
<1>1. 1 .. Len(made) \subseteq 1 .. Len(made') /\ Roots \subseteq Roots'
  BY GoesOn
<1>2. PICK f, g : f = op[q].base /\ g = op[q].heads /\ Tree(f) /\ Names(g)
  BY DEF OpRefs
<1>3. Tree(f)' /\ Names(g)'
  BY <1>2, TreeGoesOn, NamesGrow DEF Names
<1> QED
  BY <1>1, <1>2, <1>3 DEF OpRefs, Idle

\* Only one process's command moves on.
Others(p) == \A q \in Process \ {p} : op'[q] = op[q]

LEMMA RefsStep ==
    ASSUME Graph(made), Refs, Grows(made, made'), NEW p \in Process, Others(p),
           InstRefs', MainRefs', StoredRefs', RepoRefs', FollowRefs', OpRefs(p)'
    PROVE  Refs'
<1>1. ASSUME NEW q \in Process PROVE OpRefs(q)'
  <2>1. CASE q = p
    BY <2>1
  <2>2. CASE q # p
    <3>1. op'[q] = op[q] /\ OpRefs(q)
      BY <2>2 DEF Others, Refs
    <3> QED
      BY <3>1, StaysOp
  <2> QED
    BY <2>1, <2>2
<1> QED
  BY <1>1 DEF Refs

LEMMA BecomesIs ==
    ASSUME op \in [Process -> Op], NEW p \in Process, NEW record \in Op, Becomes(p, record)
    PROVE  op' \in [Process -> Op] /\ op'[p] = record /\ Others(p)
  BY DEF Becomes, Others

LEMMA NoOpIs ==
    /\ NoOp \in Op /\ NoOp.cmd = "none" /\ NoOp.at = "idle" /\ NoOp.theirs = 0 /\ NoOp.tip = 0
    /\ NoOp.base = <<>> /\ NoOp.heads = <<>> /\ NoOp.moves = {} /\ NoOp.merged = 0
    /\ NoOp.todo = <<>> /\ NoOp.writes = {}
<1>1. <<>> \in Pins /\ <<>> \in Seq(Tracker)
  BY NoPins
<1> QED
  BY <1>1 DEF NoOp, Op

LEMMA Stopped ==
    ASSUME NEW p, op'[p] = NoOp
    PROVE  OpRefs(p)' /\ Runs(p)' /\ RunsHere(p)'
<1>1. OpRefs(p)'
  BY NoOpIs, NoPins DEF OpRefs, Tree, Names, NamesIn, Idle
<1>2. Runs(p)'
  BY NoOpIs DEF Runs
<1>3. RunsHere(p)'
  BY NoOpIs DEF RunsHere
<1> QED
  BY <1>1, <1>2, <1>3

LEMMA AncestorThen ==
    ASSUME Graph(made'), NEW b \in 1 .. Len(made')
    PROVE  /\ Ancestor(b, b)'
           /\ \A a : Ancestor(a, b)' => a \in 1 .. Len(made')
           /\ \A a, c : Ancestor(a, b)' /\ Ancestor(c, a)' => Ancestor(c, b)'
<1>1. b \in made'[b].behind /\ made'[b].behind \subseteq 1 .. Len(made') /\ b # 0
  BY CommitAt
<1>2. ASSUME NEW a \in made'[b].behind
      PROVE  a # 0 /\ made'[a].behind \subseteq made'[b].behind
  BY <1>1, CommitAt
<1> QED
  BY <1>1, <1>2 DEF Ancestor, Behind

\* A command goes on as `main` does.
LEMMA RunsGoesOn ==
    ASSUME Graph(made), Grows(made, made'), NEW q, OpRefs(q), Runs(q), op'[q] = op[q],
           DOMAIN repo \subseteq DOMAIN repo', NEW head \in Roots, head = list[Root],
           NEW next \in Roots', next = list'[Root], Ancestor(head, next)'
    PROVE  Runs(q)'
<1>1. PICK o : o = op[q] /\ o = op'[q]
  OBVIOUS
<1>2. Graph(made') /\ Roots \subseteq Roots'
  BY GoesOn
<1>3. next \in 1 .. Len(made')
  BY <1>2, IndexGoesOn DEF Roots, RootsOf
<1>4. ASSUME NEW a, Ancestor(a, head) PROVE Ancestor(a, next)'
  <2>1. head \in 1 .. Len(made)
    BY IndexIs
  <2>2. Ancestor(a, head)'
    BY <1>4, <2>1, AncestorGoesOn
  <2> QED
    BY <1>2, <1>3, <2>2, AncestorThen
<1>5. o.at \in {"sync", "publish"} => Checkpointed(o.theirs, o.tip)'
  <2>1. PICK h, t : h = o.theirs /\ t = o.tip
    OBVIOUS
  <2>2. Checkpointed(h, t) => Checkpointed(h, t)'
    BY CheckpointedGoesOn
  <2> QED
    BY <1>1, <2>1, <2>2 DEF Runs
<1>6. o.at = "publish" => /\ DOMAIN o.base \subseteq DOMAIN repo'
                          /\ Range(o.todo) \subseteq DOMAIN Index(o.tip)'
  <2> SUFFICES ASSUME o.at = "publish"
               PROVE  /\ DOMAIN o.base \subseteq DOMAIN repo'
                      /\ Range(o.todo) \subseteq DOMAIN Index(o.tip)'
    OBVIOUS
  <2>1. PICK t \in Roots : t = o.tip
    BY <1>1 DEF Runs, Checkpointed
  <2>2. Index(t)' = Index(t)
    BY IndexGoesOn
  <2> QED
    BY <1>1, <2>1, <2>2 DEF Runs
<1>7. o.at \in {"fetch", "make", "seed", "land"} =>
         IsIndex(o.base)' /\ Ancestor(o.base[Root], next)' /\ DOMAIN o.base \subseteq DOMAIN repo'
  <2> SUFFICES ASSUME o.at \in {"fetch", "make", "seed", "land"}
               PROVE  IsIndex(o.base)' /\ Ancestor(o.base[Root], next)' /\ DOMAIN o.base \subseteq DOMAIN repo'
    OBVIOUS
  <2>1. PICK f, r : f = o.base /\ r = o.base[Root] /\ IsIndex(f) /\ Ancestor(r, head)
    BY <1>1 DEF Runs
  <2>2. IsIndex(f)' /\ Ancestor(r, next)'
    BY <1>4, <2>1, IsIndexGoesOn
  <2> QED
    BY <1>1, <2>1, <2>2 DEF Runs
<1>8. o.at \in {"seed", "land", "wait", "children"} => o.merged \in Roots'
  BY <1>1, <1>2 DEF Runs
<1>9. o.at \in {"seed", "land"} => Ancestor(o.base[Root], o.merged)' /\ Ancestor(o.theirs, o.merged)'
  <2> SUFFICES ASSUME o.at \in {"seed", "land"}
               PROVE  Ancestor(o.base[Root], o.merged)' /\ Ancestor(o.theirs, o.merged)'
    OBVIOUS
  <2>1. PICK r \in Roots : r = o.merged
    BY <1>1 DEF Runs
  <2>a. PICK b, t : b = o.base[Root] /\ t = o.theirs
    OBVIOUS
  <2>2. Ancestor(b, r) /\ Ancestor(t, r) /\ r \in 1 .. Len(made)
    BY <1>1, <2>1, <2>a, IndexIs DEF Runs
  <2>3. Ancestor(b, r)' /\ Ancestor(t, r)'
    BY <2>2, AncestorGoesOn
  <2> QED
    BY <2>1, <2>a, <2>3
<1>10. o.at = "seed" => Range(o.todo) \subseteq DOMAIN Index(o.merged)' \ DOMAIN o.base
  <2> SUFFICES ASSUME o.at = "seed"
               PROVE  Range(o.todo) \subseteq DOMAIN Index(o.merged)' \ DOMAIN o.base
    OBVIOUS
  <2>1. PICK r \in Roots : r = o.merged
    BY <1>1 DEF Runs
  <2>2. Index(r)' = Index(r)
    BY IndexGoesOn
  <2> QED
    BY <1>1, <2>1, <2>2 DEF Runs
<1>11. o.at \in {"wait", "children"} => Ancestor(o.theirs, next)'
  <2>1. PICK t : t = o.theirs
    OBVIOUS
  <2>2. Ancestor(t, head) => Ancestor(t, next)'
    BY <1>4
  <2> QED
    BY <1>1, <2>1, <2>2 DEF Runs
<1>12. /\ o.cmd # "create"
       /\ o.at \in {"idle", "sync", "publish", "merge", "fetch", "make", "seed", "land", "wait", "children"}
       /\ o.at = "land" => \A t \in Range(o.todo) : t = Root \/ \E v \in o.moves : v.tracker = t
  BY <1>1 DEF Runs
<1> HIDE DEF Runs
<1> QED
  BY <1>1, <1>5, <1>6, <1>7, <1>8, <1>9, <1>10, <1>11, <1>12 DEF Runs

LEMMA IdleRunsHere ==
    ASSUME NEW q, RunsHere(q), op'[q] = op[q], Idle(q)
    PROVE  RunsHere(q)'
<1>1. op'[q].at = "idle" /\ op'[q].cmd \in {"none", "merge"}
  BY DEF RunsHere, Idle
<1> QED
  BY <1>1 DEF RunsHere

LEMMA RunsHereGoesOn ==
    ASSUME Graph(made), Grows(made, made'), NEW q, RunsHere(q), op'[q] = op[q],
           main' = main, kept' = kept, repo' = repo, Tree(kept[Home]), Here(kept[Home])
    PROVE  RunsHere(q)'
<1>1. PICK o : o = op[q] /\ o = op'[q]
  OBVIOUS
<1>2. PICK k \in Roots : k = kept[Home][Root]
  BY DEF Tree, Here
<1>3. Index(k)' = Index(k)
  BY IndexGoesOn
<1>4. Roots \subseteq Roots'
  BY GoesOn
<1>5. o.at \in {"root", "keep", "children"} => o.merged \in Roots' /\ Ancestor(o.theirs, o.merged)'
  <2> SUFFICES ASSUME o.at \in {"root", "keep", "children"}
               PROVE  o.merged \in Roots' /\ Ancestor(o.theirs, o.merged)'
    OBVIOUS
  <2>1. PICK r \in Roots : r = o.merged
    BY <1>1 DEF RunsHere
  <2>a. PICK t : t = o.theirs
    OBVIOUS
  <2>2. Ancestor(t, r) /\ r \in 1 .. Len(made)
    BY <1>1, <2>1, <2>a, IndexIs DEF RunsHere
  <2>3. Ancestor(t, r)'
    BY <2>2, AncestorGoesOn
  <2> QED
    BY <1>4, <2>1, <2>a, <2>3
<1>6. o.at \in {"root", "keep"} => At(o.base, Root) = k /\ Ancestor(k, o.merged)'
  <2> SUFFICES ASSUME o.at \in {"root", "keep"}
               PROVE  At(o.base, Root) = k /\ Ancestor(k, o.merged)'
    OBVIOUS
  <2>1. PICK r \in Roots : r = o.merged
    BY <1>1 DEF RunsHere
  <2>2. Ancestor(k, r) /\ r \in 1 .. Len(made) /\ At(o.base, Root) = k
    BY <1>1, <1>2, <2>1, IndexIs DEF RunsHere
  <2>3. Ancestor(k, r)'
    BY <2>2, AncestorGoesOn
  <2> QED
    BY <2>1, <2>2, <2>3
<1>7. (At(o.base, Root))' = At(o.base, Root)
  BY DEF At
<1> QED
  BY <1>1, <1>2, <1>3, <1>5, <1>6, <1>7 DEF RunsHere

\* A step that leaves `main` and what follows it, and moves one command on.
LEMMA ThereStep ==
    ASSUME Inv, linked, Grows(made, made'), list' = list, was' = was,
           DOMAIN repo \subseteq DOMAIN repo', repo'[Root].main = repo[Root].main,
           \A f \in follows' : f.at = "move" => f \in follows,
           NEW p, Others(p), Runs(p)'
    PROVE  OnRemote' /\ \A q \in Process : Runs(q)'
<1>1. Graph(made) /\ OnRemote /\ Refs /\ \A q \in Process : Runs(q) /\ OpRefs(q)
  BY DEF Inv, Refs
<1>2. PICK head \in Roots : head = list[Root]
  BY <1>1 DEF OnRemote, IsIndex
<1>3. head \in 1 .. Len(made) /\ Graph(made') /\ Roots \subseteq Roots'
  BY <1>1, <1>2, IndexIs, GoesOn
<1>4. Ancestor(head, head)'
  BY <1>1, <1>3, AncestorIs, AncestorGoesOn
<1>5. ASSUME NEW q \in Process, q # p PROVE Runs(q)'
  BY <1>1, <1>2, <1>3, <1>4, <1>5, RunsGoesOn DEF Others
<1>6. ASSUME NEW w \in was PROVE Ancestor(w, head)'
  <2>1. Ancestor(w, head)
    BY <1>1, <1>2 DEF OnRemote
  <2> QED
    BY <1>1, <1>3, <2>1, AncestorGoesOn
<1>7. was \subseteq 1 .. Len(made)
  BY <1>1, IndexIs DEF Refs, FollowRefs
<1>8. ASSUME NEW f \in follows', f.at = "move"
      PROVE  /\ f.head \in was /\ f.held \in was
             /\ Ancestor(f.held, f.head)' /\ Ancestor(f.held, repo[Root].main)'
  <2>1. PICK from, to, branch : from = f.held /\ to = f.head /\ branch = repo[Root].main
    OBVIOUS
  <2>2. to \in was /\ from \in was /\ branch \in was /\ Ancestor(from, to) /\ Ancestor(from, branch)
    BY <1>1, <1>8, <2>1 DEF OnRemote
  <2>3. Ancestor(from, to)' /\ Ancestor(from, branch)'
    BY <1>1, <1>7, <2>2, AncestorGoesOn
  <2> QED
    BY <2>1, <2>2, <2>3
<1>9. IsIndex(list)'
  <2>1. PICK f : f = list /\ IsIndex(f)
    BY <1>1 DEF OnRemote
  <2>2. IsIndex(f)'
    BY <1>1, <2>1, IsIndexGoesOn
  <2> QED
    BY <2>1, <2>2
<1>10. /\ DOMAIN list' \subseteq DOMAIN repo' /\ list'[Root] \in was' /\ repo'[Root].main \in was'
  BY <1>1 DEF OnRemote
<1>11. OnRemote'
  BY <1>2, <1>6, <1>8, <1>9, <1>10 DEF OnRemote
<1> QED
  BY <1>5, <1>11

LEMMA HereStep ==
    ASSUME Inv, ~linked, Grows(made, made'),
           list' = list, was' = was, pending' = pending, stored' = stored, follows' = follows,
           Here(main[Home]) => Here(main[Home])', Here(kept[Home]) => Here(kept[Home])',
           \A q \in Process : inst'[q].head # 0 => inst[q].head # 0,
           NEW p \in Process, Others(p), RunsHere(p)',
           op'[p].at # "idle" => ~Idle(p) \/ (inst[p].head # 0 /\ \A q \in Process \ {p} : Idle(q)),
           \/ \A q \in Process \ {p} : Idle(q)
           \/ main' = main /\ kept' = kept /\ repo' = repo
    PROVE  AtHome' /\ \A q \in Process : RunsHere(q)'
<1>1. Graph(made) /\ AtHome /\ MainRefs /\ \A q \in Process : RunsHere(q)
  BY DEF Inv, Refs
<1>2. ASSUME NEW q \in Process, q # p PROVE RunsHere(q)'
  <2>1. op'[q] = op[q] /\ RunsHere(q)
    BY <1>1, <1>2 DEF Others
  <2>2. CASE Idle(q)
    BY <2>1, <2>2, IdleRunsHere
  <2>3. CASE ~Idle(q)
    <3>1. Here(kept[Home]) /\ Home \in Range(Host)
      BY <1>1, <2>3, RemoteAssumption DEF AtHome
    <3>2. main' = main /\ kept' = kept /\ repo' = repo
      BY <1>2, <2>3
    <3>3. Tree(kept[Home])
      BY <1>1, <3>1 DEF MainRefs
    <3> QED
      BY <1>1, <2>1, <3>1, <3>2, <3>3, RunsHereGoesOn
  <2> QED
    BY <2>2, <2>3
<1>3. ASSUME NEW q \in Process, op'[q].at # "idle"
      PROVE  q = p \/ ~Idle(q)
  BY <1>3 DEF Others, Idle
<1>4. \A q \in Process : inst'[q].head # 0 => Host[q] = Home /\ Here(main[Home])' /\ Here(kept[Home])'
  BY <1>1 DEF AtHome
<1>5. \A q \in Process : ~Idle(q)' => Host[q] = Home /\ Here(main[Home])' /\ Here(kept[Home])'
  BY <1>1, <1>3 DEF AtHome, Idle
<1>6. \A q, r \in Process : Idle(q)' \/ Idle(r)' \/ q = r
  <2> SUFFICES ASSUME NEW q \in Process, NEW r \in Process, ~Idle(q)', ~Idle(r)', q # r
               PROVE  FALSE
    OBVIOUS
  <2>1. op'[q].at # "idle" /\ op'[r].at # "idle"
    BY DEF Idle
  <2>2. (q = p \/ ~Idle(q)) /\ (r = p \/ ~Idle(r))
    BY <1>3, <2>1
  <2> QED
    BY <1>1, <2>1, <2>2 DEF AtHome
<1>7. list' = <<>> /\ was' = {} /\ pending' = {} /\ stored' = {} /\ follows' = {}
  BY <1>1 DEF AtHome
<1>8. AtHome'
  BY <1>4, <1>5, <1>6, <1>7 DEF AtHome
<1> QED
  BY <1>2, <1>8

LEMMA TruthIs ==
    ASSUME Inv, Home \in Range(Host)
    PROVE  Truth \in {0} \union (1 .. Len(made)) /\ (Truth # 0 => Truth \in Roots)
<1>1. CASE linked
  <2>1. list[Root] \in Roots
    BY <1>1 DEF Inv, OnRemote, IsIndex
  <2> QED
    BY <1>1, <2>1, IndexIs DEF Truth, Inv
<1>2. CASE ~linked
  <2>1. PICK f : f = kept[Home] /\ Tree(f)
    BY DEF Inv, Refs, MainRefs
  <2>2. At(f, Root) # 0 => At(f, Root) \in Roots
    BY <2>1 DEF Tree, At
  <2> QED
    BY <1>2, <2>1, <2>2, IndexIs DEF Truth, Inv
<1> QED
  BY <1>1, <1>2

\* Where `main` is the same, or further on, nothing is lost.
LEMMA StaysFound ==
    ASSUME Inv, Home \in Range(Host), Grows(made, made'), acked' \subseteq acked,
           NEW truth, truth = Truth, NEW then \in {0} \union (1 .. Len(made')), then = Truth',
           truth = 0 \/ truth = then \/ Ancestor(truth, then)'
    PROVE  NothingLost'
<1>1. Graph(made) /\ Graph(made') /\ 1 .. Len(made) \subseteq 1 .. Len(made')
  BY GoesOn DEF Inv
<1>2. truth \in {0} \union (1 .. Len(made))
  BY TruthIs
<1>3. ASSUME NEW c \in acked PROVE Ancestor(c, then)'
  <2>1. Ancestor(c, truth)
    BY DEF Inv, NothingLost, Truth
  <2>2. truth # 0
    BY <2>1 DEF Ancestor, Behind
  <2>3. Ancestor(c, truth)'
    BY <1>1, <1>2, <2>1, <2>2, AncestorGoesOn
  <2>4. CASE truth = then
    BY <2>3, <2>4
  <2>5. CASE Ancestor(truth, then)'
    <3>1. then # 0
      BY <2>5 DEF Ancestor, Behind
    <3> QED
      BY <1>1, <2>3, <2>5, <3>1, AncestorThen
  <2> QED
    BY <2>2, <2>4, <2>5
<1> QED
  BY <1>3 DEF NothingLost, Truth

-----------------------------------------------------------------------------
(* Sequences of trackers to see to.                                        *)

LEMMA OnlyIs ==
    ASSUME NEW t \in Tracker, NEW trackers
    PROVE  Only(t, trackers) \in Seq(Tracker) /\ Range(Only(t, trackers)) = {t} \intersect trackers
<1>1. CASE t \in trackers
  <2>1. Only(t, trackers) = <<t>> /\ <<t>> \in Seq(Tracker) /\ Len(<<t>>) = 1 /\ <<t>>[1] = t
    BY <1>1 DEF Only
  <2>2. DOMAIN <<t>> = {1}
    BY <2>1
  <2>3. Range(<<t>>) = {t}
    BY <2>1, <2>2 DEF Range
  <2> QED
    BY <1>1, <2>1, <2>3
<1>2. CASE t \notin trackers
  <2>1. Only(t, trackers) = <<>> /\ <<>> \in Seq(Tracker) /\ Range(<<>>) = {}
    BY <1>2 DEF Only, Range
  <2> QED
    BY <1>2, <2>1
<1> QED
  BY <1>1, <1>2

LEMMA ConcatIs ==
    ASSUME NEW s \in Seq(Tracker), NEW r \in Seq(Tracker)
    PROVE  s \o r \in Seq(Tracker) /\ Range(s \o r) = Range(s) \union Range(r)
<1>1. /\ s \o r \in Seq(Tracker) /\ Len(s) \in Nat /\ Len(r) \in Nat /\ Len(s \o r) = Len(s) + Len(r)
      /\ \A i \in 1 .. Len(s) + Len(r) : (s \o r)[i] = IF i <= Len(s) THEN s[i] ELSE r[i - Len(s)]
      /\ DOMAIN s = 1 .. Len(s) /\ DOMAIN r = 1 .. Len(r) /\ DOMAIN (s \o r) = 1 .. Len(s) + Len(r)
  OBVIOUS
<1>2. Range(s \o r) \subseteq Range(s) \union Range(r)
  BY <1>1 DEF Range
<1>3. ASSUME NEW i \in 1 .. Len(s) PROVE s[i] \in Range(s \o r)
  <2>1. i \in 1 .. Len(s) + Len(r) /\ (s \o r)[i] = s[i]
    BY <1>1
  <2> QED
    BY <1>1, <2>1 DEF Range
<1>4. ASSUME NEW i \in 1 .. Len(r) PROVE r[i] \in Range(s \o r)
  <2>1. i + Len(s) \in 1 .. Len(s) + Len(r) /\ (s \o r)[i + Len(s)] = r[i]
    BY <1>1
  <2> QED
    BY <1>1, <2>1 DEF Range
<1>5. Range(s) \subseteq Range(s \o r) /\ Range(r) \subseteq Range(s \o r)
  BY <1>1, <1>3, <1>4 DEF Range
<1> QED
  BY <1>1, <1>2, <1>5

LEMMA InOrderIs ==
    ASSUME NEW trackers \in SUBSET Tracker
    PROVE  /\ InOrder(trackers) \in Seq(Tracker) /\ Range(InOrder(trackers)) = trackers
           /\ RootFirst(trackers) \in Seq(Tracker) /\ Range(RootFirst(trackers)) = {Root} \union trackers
<1>1. \A some \in SUBSET Tracker : InOrder(some) \in Seq(Tracker) /\ Range(InOrder(some)) = some
  <2> SUFFICES ASSUME NEW some \in SUBSET Tracker
               PROVE  InOrder(some) \in Seq(Tracker) /\ Range(InOrder(some)) = some
    OBVIOUS
  <2>1. "a" \in Tracker /\ "b" \in Tracker /\ Root \in Tracker
    BY TrackerIs
  <2>2. PICK a, b, r : a = Only("a", some) /\ b = Only("b", some) /\ r = Only(Root, some)
    OBVIOUS
  <2>3. /\ a \in Seq(Tracker) /\ b \in Seq(Tracker) /\ r \in Seq(Tracker)
        /\ Range(a) = {"a"} \intersect some /\ Range(b) = {"b"} \intersect some
        /\ Range(r) = {Root} \intersect some
    BY <2>1, <2>2, OnlyIs
  <2>4. a \o b \in Seq(Tracker) /\ Range(a \o b) = Range(a) \union Range(b)
    BY <2>3, ConcatIs
  <2>5. (a \o b) \o r \in Seq(Tracker) /\ Range((a \o b) \o r) = (Range(a) \union Range(b)) \union Range(r)
    BY <2>3, <2>4, ConcatIs
  <2>6. (Range(a) \union Range(b)) \union Range(r) = some
    <3>1. some \subseteq {"a", "b"} \union {Root}
      BY DEF Tracker, Children
    <3> QED
      BY <2>3, <3>1
  <2>7. InOrder(some) = (a \o b) \o r
    BY <2>2 DEF InOrder
  <2> QED
    BY <2>5, <2>6, <2>7
<1>2. Only(Root, {Root}) = <<Root>>
  BY DEF Only
<1>3. Root \in Tracker
  BY TrackerIs
<1>4. <<Root>> \in Seq(Tracker) /\ Range(<<Root>>) = {Root}
  BY <1>2, <1>3, OnlyIs
<1>5. PICK rest : rest = InOrder(trackers \ {Root}) /\ rest \in Seq(Tracker) /\ Range(rest) = trackers \ {Root}
  BY <1>1
<1>6. PICK first : first = <<Root>> /\ first \in Seq(Tracker) /\ Range(first) = {Root}
  BY <1>4
<1>7. first \o rest \in Seq(Tracker) /\ Range(first \o rest) = Range(first) \union Range(rest)
  BY <1>5, <1>6, ConcatIs
<1>8. RootFirst(trackers) = first \o rest
  BY <1>5, <1>6 DEF RootFirst
<1> QED
  BY <1>1, <1>5, <1>6, <1>7, <1>8

LEMMA HeadTailIs ==
    ASSUME NEW s \in Seq(Tracker), s # <<>>
    PROVE  /\ Head(s) \in Tracker /\ Head(s) \in Range(s) /\ Tail(s) \in Seq(Tracker)
           /\ Range(s) = {Head(s)} \union Range(Tail(s))
<1>1. /\ Len(s) \in Nat /\ Len(s) >= 1 /\ Head(s) = s[1] /\ Tail(s) \in Seq(Tracker)
      /\ Len(Tail(s)) = Len(s) - 1 /\ \A i \in 1 .. Len(s) - 1 : Tail(s)[i] = s[i + 1]
      /\ DOMAIN s = 1 .. Len(s) /\ DOMAIN Tail(s) = 1 .. Len(s) - 1
  OBVIOUS
<1>2. Head(s) \in Tracker /\ Head(s) \in Range(s)
  BY <1>1 DEF Range
<1>3. Range(Tail(s)) \subseteq Range(s)
  <2> SUFFICES ASSUME NEW i \in 1 .. Len(s) - 1 PROVE Tail(s)[i] \in Range(s)
    BY <1>1 DEF Range
  <2>1. i + 1 \in 1 .. Len(s) /\ Tail(s)[i] = s[i + 1]
    BY <1>1
  <2> QED
    BY <1>1, <2>1 DEF Range
<1>4. ASSUME NEW i \in 1 .. Len(s), i # 1 PROVE s[i] \in Range(Tail(s))
  <2>1. i - 1 \in 1 .. Len(s) - 1 /\ s[i] = Tail(s)[i - 1]
    BY <1>1, <1>4
  <2> QED
    BY <1>1, <2>1 DEF Range
<1>5. Range(s) \subseteq {Head(s)} \union Range(Tail(s))
  BY <1>1, <1>4 DEF Range
<1> QED
  BY <1>1, <1>2, <1>3, <1>5

LEMMA NothingToDo == Range(<<>>) = {}
  BY DEF Range

-----------------------------------------------------------------------------
(* Every step keeps the invariant: work, and commands as they begin.       *)

LEMMA SameGrows ==
    ASSUME Graph(made), made' = made
    PROVE  Grows(made, made') /\ Graph(made')
  BY GrowsAll

LEMMA SameTruth ==
    ASSUME Inv, Home \in Range(Host), Grows(made, made'), acked' = acked,
           linked' = linked, list' = list, kept' = kept
    PROVE  NothingLost'
<1>1. PICK truth : truth = Truth /\ truth = Truth'
  BY DEF Truth, At
<1>2. truth \in {0} \union (1 .. Len(made))
  BY <1>1, TruthIs
<1>3. Graph(made) /\ 1 .. Len(made) \subseteq 1 .. Len(made')
  BY GoesOn DEF Inv
<1>4. truth \in {0} \union (1 .. Len(made'))
  BY <1>2, <1>3
<1> QED
  BY <1>1, <1>4, StaysFound

LEMMA HostIs ==
    ASSUME NEW p \in Process
    PROVE  Home \in Range(Host) /\ Host[p] \in Range(Host) /\ IsFiniteSet(Process)
  BY RemoteAssumption DEF Range

\* What a machine's project has once it fetched the store's branches.
LEMMA FetchedIs ==
    ASSUME TypeOK, MainRefs, NEW m \in Range(Host)
    PROVE  /\ Fetched(m) \in Pins /\ Tree(Fetched(m))
           /\ DOMAIN Fetched(m) = DOMAIN main[m] \union DOMAIN kept[m]
           /\ \A t \in DOMAIN kept[m] : Fetched(m)[t] = kept[m][t]
           /\ \A t \in DOMAIN main[m] : t \notin DOMAIN kept[m] => Fetched(m)[t] = main[m][t]
<1>1. PICK f, k : f = main[m] /\ k = kept[m] /\ f \in Pins /\ k \in Pins /\ Tree(f) /\ Tree(k)
  BY DEF TypeOK, MainRefs
<1>2. PICK D : D = DOMAIN f \union DOMAIN k
  OBVIOUS
<1>3. PICK g : g = Fetched(m)
  OBVIOUS
<1>4. g = [t \in D |-> IF t \in DOMAIN k THEN k[t] ELSE f[t]]
  BY <1>1, <1>2, <1>3 DEF Fetched
<1>5. D \in SUBSET Tracker /\ \A t \in DOMAIN f : f[t] \in Nat
  BY <1>1, <1>2, PinsOf
<1>6. \A t \in DOMAIN k : k[t] \in Nat
  BY <1>1, PinsOf
<1>7. g \in [D -> Nat]
  BY <1>2, <1>4, <1>5, <1>6
<1>8. g \in Pins
  BY <1>5, <1>7, PinsFrom
<1>9. /\ DOMAIN g = D /\ \A t \in DOMAIN k : g[t] = k[t]
      /\ \A t \in DOMAIN f : t \notin DOMAIN k => g[t] = f[t]
  BY <1>2, <1>4
<1>10. Tree(g)
  BY <1>1, <1>2, <1>9 DEF Tree, Names, NamesIn
<1> QED
  BY <1>1, <1>2, <1>3, <1>8, <1>9, <1>10

\* The project here has fetched the store's branches.
LEMMA FetchedMain ==
    ASSUME Graph(made), Grows(made, made'), TypeOK, MainRefs, NEW m \in Range(Host),
           main' = [main EXCEPT ![m] = Fetched(m)], kept' = kept
    PROVE  /\ main' \in [Range(Host) -> Pins] /\ MainRefs'
           /\ Here(main[Home]) => Here(main[Home])'
<1>1. Fetched(m) \in Pins /\ Tree(Fetched(m))
  BY FetchedIs
<1>2. PICK g : g = Fetched(m)
  OBVIOUS
<1>3. main \in [Range(Host) -> Pins] /\ main'[m] = g /\ \A n \in Range(Host) \ {m} : main'[n] = main[n]
  BY <1>2 DEF TypeOK
<1>4. main' \in [Range(Host) -> Pins]
  BY <1>1, <1>3 DEF TypeOK
<1>5. Tree(g)'
  BY <1>1, <1>2, TreeGoesOn
<1>6. ASSUME NEW n \in Range(Host) PROVE Tree(main[n])' /\ Tree(kept[n])'
  <2>1. PICK f, k : f = main[n] /\ k = kept[n] /\ Tree(f) /\ Tree(k)
    BY DEF MainRefs
  <2>2. Tree(f)' /\ Tree(k)'
    BY <2>1, TreeGoesOn
  <2> QED
    BY <1>3, <1>5, <2>1, <2>2
<1>7. Here(main[Home]) => Here(main[Home])'
  <2>1. CASE m = Home
    BY <1>2, <1>3, <2>1, FetchedIs DEF Here
  <2>2. CASE m # Home
    BY <2>2 DEF Here, TypeOK
  <2> QED
    BY <2>1, <2>2
<1> QED
  BY <1>4, <1>6, <1>7 DEF MainRefs

\* Without a remote, one who may begin a command is alone.
LEMMA AllIdle ==
    ASSUME Inv, ~linked, OneAtATime, NEW p \in Process, inst[p].head # 0,
           Cardinality(Busy(Host[p])) < LocalAtOnce
    PROVE  \A q \in Process : Idle(q)
<1> SUFFICES ASSUME NEW q \in Process, ~Idle(q) PROVE FALSE
  OBVIOUS
<1>1. Host[p] = Home /\ Host[q] = Home
  BY DEF Inv, AtHome
<1>2. q \in Busy(Host[p]) /\ Busy(Host[p]) \subseteq Process
  BY <1>1 DEF Busy
<1>3. IsFiniteSet(Busy(Host[p]))
  BY <1>2, HostIs, FS_Subset
<1>4. LocalAtOnce \in Nat /\ LocalAtOnce <= 1
  BY RemoteAssumption DEF OneAtATime
<1>5. Cardinality(Busy(Host[p])) \in Nat /\ Cardinality(Busy(Host[p])) = 0
  BY <1>3, <1>4, FS_CardinalityType
<1> QED
  BY <1>2, <1>3, <1>5, FS_EmptySet

LEMMA SpendIs ==
    ASSUME TypeOK, NEW what \in {"commands", "updates", "kills", "deaths"}, Spend(what)
    PROVE  spent' \in [{"commands", "updates", "kills", "deaths"} -> Nat]
  BY DEF TypeOK, Spend

LEMMA BeginKeeps ==
    ASSUME Inv, OneAtATime, NEW p \in Process, NEW cmd \in {"checkpoint", "merge", "create"},
           cmd = "create" => ~linked, Begin(p, cmd)
    PROVE  Inv'
<1> USE DEF Begin
<1>1. /\ Graph(made) /\ TypeOK /\ Refs /\ OpRefs(p)
      /\ InstRefs /\ MainRefs /\ StoredRefs /\ RepoRefs /\ FollowRefs
      /\ Home \in Range(Host) /\ Host[p] \in Range(Host)
  BY HostIs DEF Inv, Refs
<1>2. Grows(made, made') /\ Graph(made')
  BY <1>1, SameGrows
<1>3. PICK head, tip : head = inst[p].head /\ tip = inst[p].tip /\ Checkpointed(head, tip)
  BY <1>1 DEF InstRefs
<1>4. head \in Roots /\ tip \in Roots /\ head \in Nat /\ tip \in Nat
  BY <1>1, <1>3, IndexIs DEF Checkpointed
<1>5. PICK at \in {"sync", "merge"} : at = IF linked /\ p \in Instance THEN "sync" ELSE "merge"
  OBVIOUS
<1>6. PICK record : record = [NoOp EXCEPT !.cmd = cmd, !.at = at, !.theirs = head, !.tip = tip]
  OBVIOUS
<1>7. /\ record \in Op /\ record.cmd = cmd /\ record.at = at /\ record.theirs = head /\ record.tip = tip
      /\ record.base = <<>> /\ record.heads = <<>> /\ record.moves = {}
  BY <1>4, <1>6, NoOpIs DEF Op
<1>8. Becomes(p, NoOp) \/ Becomes(p, record)
  BY <1>3, <1>5, <1>6
<1>9. PICK next \in {NoOp, record} : Becomes(p, next)
  BY <1>8
<1>10. next \in Op
  BY <1>7, <1>9, NoOpIs
<1>11. op' \in [Process -> Op] /\ op'[p] = next /\ Others(p)
  BY <1>1, <1>9, <1>10, BecomesIs DEF TypeOK
<1>12. head \in Roots' /\ Checkpointed(head, tip)'
  BY <1>1, <1>2, <1>3, <1>4, GoesOn, CheckpointedGoesOn
<1>13. OpRefs(p)' /\ (linked => Runs(p)') /\ (~linked => RunsHere(p)')
  <2>1. CASE next = NoOp
    BY <1>11, <2>1, Stopped
  <2>2. CASE next = record
    <3>1. OpRefs(p)'
      BY <1>7, <1>11, <1>12, <2>2, NoPins DEF OpRefs, Tree, Names, NamesIn, Idle
    <3>2. ASSUME linked PROVE Runs(p)'
      BY <1>5, <1>7, <1>11, <1>12, <2>2, <3>2 DEF Runs
    <3>3. ASSUME ~linked PROVE RunsHere(p)'
      BY <1>5, <1>7, <1>11, <2>2, <3>3 DEF RunsHere
    <3> QED
      BY <3>1, <3>2, <3>3
  <2> QED
    BY <1>9, <2>1, <2>2
<1>14. main' \in [Range(Host) -> Pins] /\ MainRefs' /\ (Here(main[Home]) => Here(main[Home])')
  <2>1. CASE linked
    <3>1. main' = main /\ kept' = kept
      BY <2>1
    <3> QED
      BY <1>1, <1>2, <3>1, StaysTree DEF TypeOK, Here
  <2>2. CASE ~linked
    <3>1. main' = [main EXCEPT ![Host[p]] = Fetched(Host[p])] /\ kept' = kept
      BY <2>2
    <3> QED
      BY <1>1, <1>2, <3>1, FetchedMain
  <2> QED
    BY <2>1, <2>2
<1>15. TypeOK'
  BY <1>1, <1>11, <1>14, SpendIs DEF TypeOK, remote, local
<1>16. Refs'
  <2>1. InstRefs' /\ StoredRefs' /\ RepoRefs' /\ FollowRefs'
    BY <1>1, <1>2, StaysInst, StaysStored, StaysRepo, StaysFollow DEF remote
  <2> QED
    BY <1>1, <1>2, <1>11, <1>13, <1>14, <2>1, RefsStep
<1>17. NothingLost'
  BY <1>1, <1>2, SameTruth DEF remote
<1>18. linked' = linked
  OBVIOUS
<1>19. CASE linked
  <2>1. OnRemote' /\ \A q \in Process : Runs(q)'
    BY <1>2, <1>11, <1>13, <1>19, ThereStep DEF remote
  <2> QED
    BY <1>2, <1>15, <1>16, <1>17, <1>18, <1>19, <2>1 DEF Inv
<1>20. CASE ~linked
  <2>1. \A q \in Process : Idle(q)
    BY <1>20, AllIdle
  <2>2. AtHome' /\ \A q \in Process : RunsHere(q)'
    BY <1>2, <1>11, <1>13, <1>14, <1>20, <2>1, HereStep DEF remote, Here
  <2> QED
    BY <1>2, <1>15, <1>16, <1>17, <1>18, <1>20, <2>2 DEF Inv
<1> QED
  BY <1>19, <1>20

\* A step of a process at rest: its workspace, and commits it makes.
LEMMA WorkKeeps ==
    ASSUME Inv, NEW p \in Process, Grows(made, made'), TypeOK', linked' = linked, list' = list, was' = was,
           pending' = pending, stored' = stored, repo' = repo, follows' = follows, op' = op, acked' = acked,
           kept' = kept, MainRefs', Here(main[Home]) => Here(main[Home])',
           \A q \in Process : inst'[q] = inst[q] \/ Checkpointed(inst[q].head, inst[q].tip)',
           ~linked => \A q \in Process : inst'[q].head # 0 => inst[q].head # 0,
           main' = main \/ \A q \in Process : Idle(q)
    PROVE  Inv'
<1>1. /\ Graph(made) /\ TypeOK /\ Refs /\ OpRefs(p)
      /\ InstRefs /\ MainRefs /\ StoredRefs /\ RepoRefs /\ FollowRefs
      /\ Home \in Range(Host) /\ Host[p] \in Range(Host)
  BY HostIs DEF Inv, Refs
<1>2. Graph(made') /\ Others(p)
  BY <1>1, GoesOn DEF Others
<1>3. Refs'
  <2>1. InstRefs' /\ StoredRefs' /\ RepoRefs' /\ FollowRefs'
    BY <1>1, StaysInst, StaysStored, StaysRepo, StaysFollow
  <2>2. OpRefs(p)'
    BY <1>1, StaysOp
  <2> QED
    BY <1>1, <1>2, <2>1, <2>2, RefsStep
<1>4. NothingLost'
  BY <1>1, SameTruth
<1>5. CASE linked
  <2>1. OnRemote /\ Runs(p)
    BY <1>5 DEF Inv
  <2>2. PICK head \in Roots : head = list[Root]
    BY <2>1 DEF OnRemote, IsIndex
  <2>3. head \in Roots' /\ Ancestor(head, head)'
    BY <1>1, <1>2, <2>2, IndexIs, GoesOn, AncestorThen
  <2>4. Runs(p)'
    BY <1>1, <2>1, <2>2, <2>3, RunsGoesOn
  <2>5. OnRemote' /\ \A q \in Process : Runs(q)'
    BY <1>2, <1>5, <2>4, ThereStep
  <2> QED
    BY <1>2, <1>3, <1>4, <1>5, <2>5 DEF Inv
<1>6. CASE ~linked
  <2>1. RunsHere(p) /\ AtHome
    BY <1>6 DEF Inv
  <2>2. RunsHere(p)'
    <3>1. CASE Idle(p)
      BY <2>1, <3>1, IdleRunsHere
    <3>2. CASE ~Idle(p)
      <4>1. Here(kept[Home]) /\ Tree(kept[Home])
        BY <1>1, <2>1, <3>2 DEF AtHome, MainRefs
      <4> QED
        BY <1>1, <2>1, <3>2, <4>1, RunsHereGoesOn
    <3> QED
      BY <3>1, <3>2
  <2>3. op'[p].at # "idle" => ~Idle(p)
    BY DEF Idle
  <2>4. AtHome' /\ \A q \in Process : RunsHere(q)'
    BY <1>2, <1>6, <2>2, <2>3, HereStep DEF Here
  <2> QED
    BY <1>2, <1>3, <1>4, <1>6, <2>4 DEF Inv
<1> QED
  BY <1>5, <1>6

LEMMA NewRootIs ==
    ASSUME Graph(made), NEW parents \in SUBSET (1 .. Len(made)), NEW told, NewRoot(made, made', parents, told)
    PROVE  /\ Grows(made, made') /\ Graph(made') /\ Len(made') \in Roots' /\ Len(made') \in Nat
           /\ Len(made') \in 1 .. Len(made')
           /\ \A c : \A q \in parents : Ancestor(c, q) => Ancestor(c, Len(made))'
           /\ \A q \in parents : Ancestor(q, Len(made))'
<1>1. /\ Grows(made, made') /\ Graph(made') /\ Len(made) < Len(made') /\ Len(made) \in Nat /\ Len(made') \in Nat
      /\ 1 .. Len(made) \subseteq 1 .. Len(made')
      /\ Root \in DOMAIN made'[Len(made')].pins
      /\ made'[Len(made')].behind = (UNION {made[q].behind : q \in parents}) \union {Len(made')}
  BY GoesOn DEF NewRoot
<1>2. Len(made') \in 1 .. Len(made') /\ Len(made') # 0
  BY <1>1
<1>3. Len(made') \in Roots'
  BY <1>1, <1>2 DEF Roots, RootsOf
<1>4. ASSUME NEW q \in parents, NEW c, Ancestor(c, q) PROVE Ancestor(c, Len(made))'
  <2>1. c \in made[q].behind
    BY <1>4, AncestorIs DEF Ancestor
  <2>2. c \in made'[Len(made')].behind
    BY <1>1, <2>1
  <2> QED
    BY <1>2, <2>2 DEF Ancestor, Behind
<1>5. ASSUME NEW q \in parents PROVE Ancestor(q, Len(made))'
  BY <1>4, AncestorIs
<1> QED
  BY <1>1, <1>2, <1>3, <1>4, <1>5

LEMMA BehindType ==
    ASSUME Graph(made), NEW c \in {0} \union (1 .. Len(made))
    PROVE  Behind(c) \subseteq 1 .. Len(made) /\ Behind(c) \subseteq Nat
<1>1. CASE c = 0
  BY <1>1 DEF Behind
<1>2. CASE c # 0
  <2>1. Len(made) \in Nat /\ Behind(c) \subseteq 1 .. Len(made)
    BY <1>2, AncestorIs DEF Graph
  <2> QED
    BY <2>1
<1> QED
  BY <1>1, <1>2

\* The processes but one keep their workspaces.
OnlyInst(p) == \A q \in Process \ {p} : inst'[q] = inst[q]

LEMMA InstIs ==
    ASSUME TypeOK, NEW p \in Process, NEW head \in Nat, NEW tip \in Nat,
           inst' = [inst EXCEPT ![p] = [head |-> head, tip |-> tip]]
    PROVE  /\ inst' \in [Process -> [head : Nat, tip : Nat]] /\ OnlyInst(p)
           /\ inst'[p].head = head /\ inst'[p].tip = tip
  BY DEF TypeOK, OnlyInst

LEMMA HasIs ==
    ASSUME TypeOK, NEW m \in Range(Host), NEW more \in SUBSET Nat,
           has' = [has EXCEPT ![m] = @ \union more]
    PROVE  has' \in [Range(Host) -> SUBSET Nat]
  BY DEF TypeOK

\* A process at rest makes something of its workspace.
LEMMA OneWorks ==
    ASSUME Inv, NEW p \in Process, Idle(p), Grows(made, made'), TypeOK', OnlyInst(p),
           Checkpointed(inst[p].head, inst[p].tip)', ~linked => inst[p].head # 0,
           UNCHANGED <<main, kept, linked, remote, repo, follows, op, acked>>
    PROVE  Inv'
<1>1. Graph(made) /\ MainRefs
  BY DEF Inv, Refs
<1>2. /\ main' = main /\ kept' = kept /\ linked' = linked /\ list' = list /\ was' = was /\ pending' = pending
      /\ stored' = stored /\ repo' = repo /\ follows' = follows /\ op' = op /\ acked' = acked
  BY DEF remote
<1>3. MainRefs' /\ (Here(main[Home]) => Here(main[Home])')
  BY <1>1, <1>2, StaysTree DEF Here
<1>4. \A q \in Process : inst'[q] = inst[q] \/ Checkpointed(inst[q].head, inst[q].tip)'
  BY DEF OnlyInst
<1>5. ~linked => \A q \in Process : inst'[q].head # 0 => inst[q].head # 0
  BY DEF OnlyInst
<1> QED
  BY <1>2, <1>3, <1>4, <1>5, WorkKeeps

LEMMA EditKeeps ==
    ASSUME Inv, NEW p \in Process, Edit(p)
    PROVE  Inv'
<1>1. /\ Graph(made) /\ TypeOK /\ InstRefs /\ MainRefs /\ Host[p] \in Range(Host)
  BY HostIs DEF Inv, Refs
<1>2. PICK head, tip : head = inst[p].head /\ tip = inst[p].tip /\ head # 0 /\ Checkpointed(head, tip)
  BY <1>1 DEF InstRefs, Edit
<1>3. head \in Roots /\ head \in 1 .. Len(made) /\ head \in Nat
  BY <1>1, <1>2, IndexIs DEF Checkpointed
<1>4. PICK edit \in Edits[p] :
         /\ Make(p, Edited(head, edit))
         /\ inst' = [inst EXCEPT ![p] = [head |-> IF edit.commits THEN Len(Edited(head, edit)) ELSE @.head,
                                         tip |-> Len(Edited(head, edit))]]
  BY <1>2 DEF Edit
<1>5. NewRoot(made, made', {head}, edit.secret # {})
  BY <1>1, <1>3, <1>4, EditedIs DEF Make
<1>6. PICK new : new = Len(made') /\ new = Len(Edited(head, edit))
  BY <1>4 DEF Make
<1>7. PICK parents \in SUBSET (1 .. Len(made)) : parents = {head}
  BY <1>3
<1>8. /\ Grows(made, made') /\ Graph(made') /\ new \in Roots' /\ new \in Nat /\ new \in 1 .. Len(made')
      /\ Ancestor(head, new)'
  BY <1>1, <1>5, <1>6, <1>7, NewRootIs
<1>9. PICK then : then = IF edit.commits THEN new ELSE head
  OBVIOUS
<1>10. inst' = [inst EXCEPT ![p] = [head |-> then, tip |-> new]] /\ then \in Nat
  BY <1>2, <1>3, <1>4, <1>6, <1>8, <1>9
<1>11. Checkpointed(then, new)'
  <2>1. head \in Roots' /\ Ancestor(new, new)'
    BY <1>1, <1>3, <1>8, GoesOn, AncestorThen
  <2> QED
    BY <1>8, <1>9, <2>1 DEF Checkpointed
<1>12. inst' \in [Process -> [head : Nat, tip : Nat]] /\ OnlyInst(p) /\ inst'[p].head = then /\ inst'[p].tip = new
  BY <1>1, <1>8, <1>10, InstIs
<1>13. has' \in [Range(Host) -> SUBSET Nat]
  <2>1. PICK more : more = Len(made) + 1 .. Len(Edited(head, edit))
    OBVIOUS
  <2>2. more \in SUBSET Nat
    BY <1>1, <1>6, <1>8, <2>1, GoesOn
  <2>3. has' = [has EXCEPT ![Host[p]] = @ \union more]
    BY <1>4, <2>1 DEF Make
  <2> QED
    BY <1>1, <2>2, <2>3, HasIs
<1>14. UNCHANGED <<main, kept, linked, remote, repo, fork, follows, op, acked, spent>> /\ Idle(p)
  BY DEF Edit
<1>15. TypeOK'
  BY <1>1, <1>12, <1>13, <1>14 DEF TypeOK, remote
<1>16. Checkpointed(inst[p].head, inst[p].tip)'
  BY <1>11, <1>12
<1> QED
  BY <1>2, <1>8, <1>12, <1>14, <1>15, <1>16, OneWorks

LEMMA BehindIndex ==
    ASSUME Graph(made), NEW r \in Roots
    PROVE  UNION {Behind(c) : c \in Range(Index(r))} \in SUBSET Nat
<1>1. NamesIn(made, Index(r))
  BY IndexIs
<1>2. \A c \in Range(Index(r)) : c \in 1 .. Len(made)
  BY <1>1 DEF NamesIn, Range
<1>3. \A c \in Range(Index(r)) : Behind(c) \subseteq Nat
  BY <1>2, BehindType
<1> QED
  BY <1>3

LEMMA TakeInKeeps ==
    ASSUME Inv, NEW p \in Process, TakeIn(p)
    PROVE  Inv'
<1>1. /\ Graph(made) /\ TypeOK /\ InstRefs /\ MainRefs /\ Host[p] \in Range(Host) /\ Len(made) \in Nat
  BY HostIs DEF Inv, Refs, Graph
<1>2. PICK theirs, head : /\ theirs = IF linked THEN At(list, Root) ELSE At(main[Host[p]], Root)
                          /\ head = inst[p].head /\ head # 0 /\ theirs # 0
  BY DEF TakeIn
<1>3. theirs \in Roots
  <2>1. CASE linked
    <3>1. IsIndex(list)
      BY <2>1 DEF Inv, OnRemote
    <3> QED
      BY <1>2, <2>1, <3>1 DEF IsIndex, At
  <2>2. CASE ~linked
    <3>1. PICK f : f = main[Host[p]] /\ Tree(f)
      BY <1>1 DEF MainRefs
    <3> QED
      BY <1>2, <2>2, <3>1 DEF Tree, At
  <2> QED
    BY <2>1, <2>2
<1>4. head \in Roots
  BY <1>1, <1>2 DEF InstRefs, Checkpointed
<1>5. theirs \in 1 .. Len(made) /\ theirs \in Nat /\ head \in 1 .. Len(made)
  BY <1>1, <1>3, <1>4, IndexIs
<1>6. PICK learnt \in SUBSET Nat : learnt = UNION {Behind(c) : c \in Range(Index(theirs))}
  BY <1>1, <1>3, BehindIndex
<1>7. PICK joined : joined = Joined(head, theirs)
  OBVIOUS
<1>8. \/ /\ inst' = [inst EXCEPT ![p] = [head |-> theirs, tip |-> theirs]]
         /\ has' = [has EXCEPT ![Host[p]] = @ \union learnt]
         /\ made' = made
      \/ /\ made' = joined
         /\ inst' = [inst EXCEPT ![p] = [head |-> Len(joined), tip |-> Len(joined)]]
         /\ has' = [has EXCEPT ![Host[p]] = @ \union (Len(made) + 1 .. Len(joined)) \union learnt]
  BY <1>2, <1>6, <1>7 DEF TakeIn
<1>9. UNCHANGED <<main, kept, linked, remote, repo, fork, follows, op, acked, spent>> /\ Idle(p)
  BY DEF TakeIn
<1>10. PICK new : new = inst'[p].head
  OBVIOUS
<1>11. /\ Grows(made, made') /\ Checkpointed(inst[p].head, inst[p].tip)' /\ OnlyInst(p)
       /\ inst' \in [Process -> [head : Nat, tip : Nat]] /\ has' \in [Range(Host) -> SUBSET Nat]
  <2>1. CASE /\ inst' = [inst EXCEPT ![p] = [head |-> theirs, tip |-> theirs]]
             /\ has' = [has EXCEPT ![Host[p]] = @ \union learnt]
             /\ made' = made
    <3>1. Grows(made, made') /\ Graph(made')
      BY <1>1, <2>1, SameGrows
    <3>2. /\ inst' \in [Process -> [head : Nat, tip : Nat]] /\ OnlyInst(p)
          /\ inst'[p].head = theirs /\ inst'[p].tip = theirs
      BY <1>1, <1>5, <2>1, InstIs
    <3>3. theirs \in Roots' /\ Ancestor(theirs, theirs)'
      BY <1>1, <1>3, <1>5, <3>1, GoesOn, AncestorThen
    <3>4. has' \in [Range(Host) -> SUBSET Nat]
      BY <1>1, <2>1, HasIs
    <3> QED
      BY <3>1, <3>2, <3>3, <3>4 DEF Checkpointed
  <2>2. CASE /\ made' = joined
             /\ inst' = [inst EXCEPT ![p] = [head |-> Len(joined), tip |-> Len(joined)]]
             /\ has' = [has EXCEPT ![Host[p]] = @ \union (Len(made) + 1 .. Len(joined)) \union learnt]
    <3>1. NewRoot(made, made', {head, theirs}, FALSE)
      BY <1>1, <1>3, <1>4, <1>7, <2>2, JoinedIs
    <3>2. PICK parents \in SUBSET (1 .. Len(made)) : parents = {head, theirs}
      BY <1>5
    <3>3. PICK last : last = Len(made')
      OBVIOUS
    <3>4. Grows(made, made') /\ Graph(made') /\ last \in Roots' /\ last \in Nat /\ last \in 1 .. Len(made')
      BY <1>1, <3>1, <3>2, <3>3, NewRootIs
    <3>5. /\ inst' \in [Process -> [head : Nat, tip : Nat]] /\ OnlyInst(p)
          /\ inst'[p].head = last /\ inst'[p].tip = last
      BY <1>1, <2>2, <3>3, <3>4, InstIs
    <3>6. Ancestor(last, last)'
      BY <3>4, AncestorThen
    <3>a. PICK added : added = (Len(made) + 1 .. Len(joined))
      OBVIOUS
    <3>b. added \in SUBSET Nat
      BY <1>1, <2>2, <3>3, <3>4, <3>a
    <3>7. PICK more \in SUBSET Nat : more = added \union learnt
      BY <3>b
    <3>8. has' = [has EXCEPT ![Host[p]] = @ \union more]
      BY <2>2, <3>a, <3>7
    <3>9. has' \in [Range(Host) -> SUBSET Nat]
      BY <1>1, <3>8, HasIs
    <3> QED
      BY <3>4, <3>5, <3>6, <3>9 DEF Checkpointed
  <2> QED
    BY <1>8, <2>1, <2>2
<1>12. TypeOK'
  BY <1>1, <1>9, <1>11 DEF TypeOK, remote
<1> QED
  BY <1>2, <1>9, <1>11, <1>12, OneWorks

LEMMA SpawnFromKeeps ==
    ASSUME Inv, NEW p \in Process, SpawnFrom(p)
    PROVE  Inv'
<1>1. /\ Graph(made) /\ TypeOK /\ StoredRefs /\ RepoRefs /\ Host[p] \in Range(Host) /\ linked
  BY HostIs DEF Inv, Refs, SpawnFrom
<1>2. PICK c \in stored :
         /\ inst' = [inst EXCEPT ![p] = [head |-> c.head, tip |-> c.tip]]
         /\ has' = [has EXCEPT ![Host[p]] = @ \union UNION {FoundFor(c.by, t) : t \in DOMAIN Index(c.tip)}]
  BY DEF SpawnFrom
<1>3. PICK head, tip : head = c.head /\ tip = c.tip /\ Checkpointed(head, tip)
  BY <1>1 DEF StoredRefs
<1>4. head \in Nat /\ tip \in Nat
  BY <1>1, <1>3, IndexIs DEF Checkpointed
<1>5. UNCHANGED <<made, main, kept, linked, remote, repo, fork, follows, op, acked, spent>> /\ Idle(p)
  BY DEF SpawnFrom
<1>6. Grows(made, made') /\ Checkpointed(head, tip)'
  BY <1>1, <1>3, <1>5, SameGrows, CheckpointedGoesOn
<1>7. /\ inst' \in [Process -> [head : Nat, tip : Nat]] /\ OnlyInst(p)
      /\ inst'[p].head = head /\ inst'[p].tip = tip
  BY <1>1, <1>2, <1>3, <1>4, InstIs
<1>8. PICK by \in Process : by = c.by
  BY <1>1 DEF TypeOK
<1>9. ASSUME NEW t PROVE FoundFor(by, t) \subseteq Nat
  <2>1. CASE t \in DOMAIN fork[by]
    <3>1. PICK f : f = fork[by] /\ f \in Maps(SUBSET Nat)
      BY <1>1 DEF TypeOK
    <3>2. f[t] \in SUBSET Nat
      BY <2>1, <3>1 DEF Maps
    <3> QED
      BY <2>1, <3>1, <3>2 DEF FoundFor
  <2>2. CASE t \notin DOMAIN fork[by] /\ t \in DOMAIN repo
    <3>1. repo[t].main \in {0} \union (1 .. Len(made))
      BY <1>1, <2>2 DEF RepoRefs
    <3> QED
      BY <1>1, <2>2, <3>1, BehindType DEF FoundFor
  <2>3. CASE t \notin DOMAIN fork[by] /\ t \notin DOMAIN repo
    BY <2>3 DEF FoundFor
  <2> QED
    BY <2>1, <2>2, <2>3
<1>10. PICK more \in SUBSET Nat : more = UNION {FoundFor(c.by, t) : t \in DOMAIN Index(c.tip)}
  BY <1>8, <1>9
<1>11. has' \in [Range(Host) -> SUBSET Nat]
  <2>1. has' = [has EXCEPT ![Host[p]] = @ \union more]
    BY <1>2, <1>10
  <2> QED
    BY <1>1, <2>1, HasIs
<1>12. TypeOK'
  BY <1>1, <1>5, <1>7, <1>11 DEF TypeOK, remote
<1>13. Checkpointed(inst[p].head, inst[p].tip)'
  BY <1>6, <1>7
<1> QED
  BY <1>1, <1>5, <1>6, <1>7, <1>12, <1>13, OneWorks

LEMMA PullKeeps ==
    ASSUME Inv, OneAtATime, NEW p \in Process, NEW t \in Children, Pull(p, t)
    PROVE  Inv'
<1>1. /\ Graph(made) /\ TypeOK /\ InstRefs /\ MainRefs /\ RepoRefs
      /\ Host[p] \in Range(Host) /\ Len(made) \in Nat
  BY HostIs DEF Inv, Refs, Graph
<1>2. PICK head, new, id :
         /\ head = inst[p].head /\ head # 0 /\ new = Upstream(Host[p], t) /\ new # 0 /\ id = Len(made) + 1
         /\ made' = PulledRoot(made, head, t, new)
         /\ inst' = [inst EXCEPT ![p] = [head |-> id, tip |-> id]]
         /\ has' = [has EXCEPT ![Host[p]] = @ \union Behind(new) \union {id}]
  BY DEF Pull, PulledRoot
<1>3. /\ Idle(p) /\ (~linked => Cardinality(Busy(Host[p])) < LocalAtOnce)
      /\ main' = IF linked THEN main ELSE [main EXCEPT ![Host[p]] = Fetched(Host[p])]
      /\ UNCHANGED <<kept, linked, remote, repo, fork, follows, op, acked, spent>>
  BY DEF Pull
<1>4. head \in Roots /\ head \in 1 .. Len(made)
  BY <1>1, <1>2, IndexIs DEF InstRefs, Checkpointed
<1>5. new \in 1 .. Len(made)
  <2>1. CASE linked /\ t \in DOMAIN repo
    BY <1>1, <1>2, <2>1 DEF Upstream, RepoRefs
  <2>2. CASE ~ (linked /\ t \in DOMAIN repo)
    <3>1. PICK f : f = kept[Host[p]] /\ Tree(f)
      BY <1>1 DEF MainRefs
    <3>2. new = At(f, t)
      BY <1>2, <2>2, <3>1 DEF Upstream
    <3> QED
      BY <1>2, <3>1, <3>2 DEF Tree, Names, NamesIn, At
  <2> QED
    BY <2>1, <2>2
<1>6. PICK pins : pins = Put(Put(Index(head), t, new), Root, id)
  OBVIOUS
<1>7. Adds(made, made', id, {head}, pins, FALSE)
  BY <1>1, <1>2, <1>4, <1>5, <1>6, PulledIs
<1>8. Root \in DOMAIN pins
  BY <1>6 DEF Put
<1>9. /\ Grows(made, made') /\ Len(made') = id /\ id \in 1 .. Len(made') /\ made'[id].pins = pins
  BY <1>7 DEF Adds
<1>10. Graph(made') /\ id \in Nat /\ id \in Roots' /\ Ancestor(id, id)'
  <2>1. Graph(made') /\ id \in Nat
    BY <1>1, <1>2, <1>9, GoesOn
  <2> QED
    BY <1>8, <1>9, <2>1, AncestorThen DEF Roots, RootsOf
<1>11. /\ inst' \in [Process -> [head : Nat, tip : Nat]] /\ OnlyInst(p)
       /\ inst'[p].head = id /\ inst'[p].tip = id
  BY <1>1, <1>2, <1>10, InstIs
<1>12. has' \in [Range(Host) -> SUBSET Nat]
  <2>1. PICK more \in SUBSET Nat : more = Behind(new) \union {id}
    BY <1>1, <1>5, <1>10, BehindType
  <2>2. has' = [has EXCEPT ![Host[p]] = @ \union more]
    BY <1>2, <2>1
  <2> QED
    BY <1>1, <2>2, HasIs
<1>13. main' \in [Range(Host) -> Pins] /\ MainRefs' /\ (Here(main[Home]) => Here(main[Home])')
  <2>1. CASE linked
    BY <1>1, <1>3, <1>9, <2>1, StaysTree DEF TypeOK, Here
  <2>2. CASE ~linked
    BY <1>1, <1>3, <1>9, <2>2, FetchedMain
  <2> QED
    BY <2>1, <2>2
<1>14. TypeOK'
  BY <1>1, <1>3, <1>11, <1>12, <1>13 DEF TypeOK, remote
<1>15. main' = main \/ \A q \in Process : Idle(q)
  BY <1>2, <1>3, AllIdle
<1>16. \A q \in Process : inst'[q] = inst[q] \/ Checkpointed(inst[q].head, inst[q].tip)'
  BY <1>10, <1>11 DEF OnlyInst, Checkpointed
<1>17. \A q \in Process : inst'[q].head # 0 => inst[q].head # 0
  BY <1>2, <1>11 DEF OnlyInst
<1> QED
  BY <1>3, <1>9, <1>13, <1>14, <1>15, <1>16, <1>17, WorkKeeps DEF remote

-----------------------------------------------------------------------------
(* Commands on a remote.                                                   *)

\* A command's step that leaves `main` and what follows it.
LEMMA CommandThere ==
    ASSUME Inv, linked, linked' = linked, NEW p \in Process, Grows(made, made'), TypeOK', Others(p),
           UNCHANGED <<inst, main, kept, list, was, acked>>, follows' \subseteq follows,
           DOMAIN repo \subseteq DOMAIN repo', repo'[Root].main = repo[Root].main,
           StoredRefs', RepoRefs', OpRefs(p)', Runs(p)'
    PROVE  Inv'
<1>1. /\ Graph(made) /\ TypeOK /\ Refs /\ InstRefs /\ MainRefs /\ FollowRefs
      /\ Home \in Range(Host) /\ Graph(made')
  BY HostIs, GoesOn DEF Inv, Refs
<1>2. InstRefs' /\ MainRefs' /\ FollowRefs'
  BY <1>1, StaysInst, StaysTree, StaysFollow
<1>3. Refs'
  BY <1>1, <1>2, RefsStep
<1>4. NothingLost'
  BY <1>1, SameTruth
<1>5. OnRemote' /\ \A q \in Process : Runs(q)'
  BY ThereStep
<1> QED
  BY <1>1, <1>3, <1>4, <1>5 DEF Inv

\* A command's step where there is no remote.
LEMMA CommandHere ==
    ASSUME Inv, ~linked, linked' = linked, NEW p \in Process, ~Idle(p), Grows(made, made'), TypeOK', Others(p),
           UNCHANGED <<list, was, pending, stored, follows>>,
           \A q \in Process : inst'[q] = inst[q] \/ Checkpointed(inst[q].head, inst[q].tip)',
           \A q \in Process : inst'[q].head # 0 => inst[q].head # 0,
           Here(main[Home]) => Here(main[Home])', Here(kept[Home]) => Here(kept[Home])',
           MainRefs', RepoRefs', OpRefs(p)', RunsHere(p)', NothingLost'
    PROVE  Inv'
<1>1. /\ Graph(made) /\ TypeOK /\ Refs /\ InstRefs /\ StoredRefs /\ FollowRefs /\ AtHome /\ Graph(made')
  BY GoesOn DEF Inv, Refs
<1>2. InstRefs' /\ StoredRefs' /\ FollowRefs'
  BY <1>1, StaysInst, StaysStored, StaysFollow
<1>3. Refs'
  BY <1>1, <1>2, RefsStep
<1>4. \A q \in Process \ {p} : Idle(q)
  BY <1>1 DEF AtHome
<1>5. AtHome' /\ \A q \in Process : RunsHere(q)'
  BY <1>4, HereStep
<1> QED
  BY <1>1, <1>3, <1>5 DEF Inv

\* A command has none but its own place on a remote, and here.
LEMMA Busied ==
    ASSUME Inv, NEW p \in Process, ~Idle(p)
    PROVE  /\ op[p] \in Op /\ OpRefs(p) /\ op[p].theirs \in Roots
           /\ linked => Runs(p) /\ OnRemote
           /\ ~linked => RunsHere(p) /\ AtHome /\ Host[p] = Home /\ Here(main[Home]) /\ Here(kept[Home])
<1>1. op[p] \in Op
  BY DEF Inv, TypeOK
<1>2. OpRefs(p) /\ op[p].theirs \in Roots
  BY DEF Inv, Refs, OpRefs
<1> QED
  BY <1>1, <1>2 DEF Inv, AtHome

\* A command ends where it is.
LEMMA StopKeeps ==
    ASSUME Inv, NEW p \in Process, ~Idle(p), Stop(p),
           UNCHANGED <<made, inst, local, linked, remote, repo, fork, follows, acked>>,
           spent' \in [{"commands", "updates", "kills", "deaths"} -> Nat]
    PROVE  Inv'
<1>1. /\ Graph(made) /\ TypeOK /\ Refs /\ MainRefs /\ RepoRefs /\ StoredRefs /\ Home \in Range(Host)
  BY HostIs DEF Inv, Refs
<1>2. Grows(made, made')
  BY <1>1, SameGrows
<1>3. op' \in [Process -> Op] /\ op'[p] = NoOp /\ Others(p)
  BY <1>1, NoOpIs, BecomesIs DEF TypeOK, Stop
<1>4. OpRefs(p)' /\ Runs(p)' /\ RunsHere(p)'
  BY <1>3, Stopped
<1>5. TypeOK'
  BY <1>1, <1>3 DEF TypeOK, remote, local
<1>6. MainRefs' /\ RepoRefs' /\ StoredRefs'
  BY <1>1, <1>2, StaysTree, StaysRepo, StaysStored DEF remote, local
<1>7. NothingLost'
  BY <1>1, <1>2, SameTruth DEF remote, local
<1>8. CASE linked
  BY <1>2, <1>3, <1>4, <1>5, <1>6, <1>8, CommandThere DEF remote, local
<1>9. CASE ~linked
  <2>1. \A q \in Process : inst'[q] = inst[q] \/ Checkpointed(inst[q].head, inst[q].tip)'
    OBVIOUS
  <2>2. (Here(main[Home]) => Here(main[Home])') /\ (Here(kept[Home]) => Here(kept[Home])')
    BY DEF Here, local
  <2> QED
    BY <1>2, <1>3, <1>4, <1>5, <1>6, <1>7, <1>9, <2>1, <2>2, CommandHere DEF remote, local
<1> QED
  BY <1>8, <1>9

LEMMA KillKeeps ==
    ASSUME Inv, NEW p \in Process, Kill(p)
    PROVE  Inv'
<1>1. TypeOK
  BY DEF Inv
<1>2. spent' \in [{"commands", "updates", "kills", "deaths"} -> Nat]
  BY <1>1, SpendIs DEF Kill
<1> QED
  BY <1>2, StopKeeps DEF Kill

LEMMA PublishReadKeeps ==
    ASSUME Inv, linked, NEW p \in Process, PublishRead(p)
    PROVE  Inv'
<1> USE DEF PublishRead
<1>1. /\ Graph(made) /\ TypeOK /\ Refs /\ MainRefs /\ RepoRefs /\ StoredRefs /\ ~Idle(p)
  BY DEF Inv, Refs, Idle
<1>2. PICK o : o = op[p] /\ o \in Op /\ OpRefs(p) /\ o.theirs \in Roots /\ Runs(p) /\ OnRemote
  BY <1>1, Busied
<1>a. PICK shared \in SharedPins(p) :
         Becomes(p, [op[p] EXCEPT !.at = "publish", !.base = list, !.todo =
                        InOrder({t \in DOMAIN Index(op[p].tip) : ~NothingToSend(p, t, shared)})])
  BY Zenon
<1>b. PICK changed : changed = {t \in DOMAIN Index(op[p].tip) : ~NothingToSend(p, t, shared)}
  OBVIOUS
<1>c. changed \subseteq DOMAIN Index(op[p].tip)
  BY <1>b
<1>3. /\ changed \subseteq DOMAIN Index(o.tip)
      /\ Becomes(p, [o EXCEPT !.at = "publish", !.base = list, !.todo = InOrder(changed)])
  BY <1>2, <1>a, <1>b, <1>c
<1>4. Grows(made, made')
  BY <1>1, SameGrows
<1>5. PICK head, tip : head = o.theirs /\ tip = o.tip /\ Checkpointed(head, tip)
  BY <1>2 DEF Runs
<1>6. tip \in Roots /\ DOMAIN Index(tip) \subseteq Tracker
  BY <1>1, <1>5, IndexIs, PinsOf DEF Checkpointed
<1>7. InOrder(changed) \in Seq(Tracker) /\ Range(InOrder(changed)) = changed
  BY <1>3, <1>5, <1>6, InOrderIs
<1>8. PICK next : next = [o EXCEPT !.at = "publish", !.base = list, !.todo = InOrder(changed)]
  OBVIOUS
<1>9. /\ next \in Op /\ next.at = "publish" /\ next.base = list /\ next.todo = InOrder(changed)
      /\ next.theirs = head /\ next.tip = tip /\ next.heads = o.heads /\ next.moves = o.moves /\ next.cmd = o.cmd
  BY <1>1, <1>2, <1>5, <1>7, <1>8 DEF Op, TypeOK
<1>10. op' \in [Process -> Op] /\ op'[p] = next /\ Others(p)
  BY <1>1, <1>3, <1>8, <1>9, BecomesIs DEF TypeOK
<1>11. TypeOK'
  BY <1>1, <1>10 DEF TypeOK, remote, local
<1>12. head \in Roots' /\ Checkpointed(head, tip)' /\ Index(tip)' = Index(tip)
  BY <1>1, <1>2, <1>4, <1>5, <1>6, GoesOn, CheckpointedGoesOn, IndexGoesOn
<1>13. Runs(p)'
  <2>1. DOMAIN list \subseteq DOMAIN repo' /\ o.cmd # "create"
    BY <1>2 DEF OnRemote, Runs
  <2> QED
    BY <1>3, <1>5, <1>7, <1>9, <1>10, <1>12, <2>1 DEF Runs
<1>14. OpRefs(p)'
  <2>1. PICK f : f = list /\ IsIndex(f)
    BY <1>2 DEF OnRemote
  <2>2. Tree(f)'
    BY <1>1, <1>4, <2>1, IndexIs, TreeGoesOn DEF IsIndex
  <2>3. made' = made
    OBVIOUS
  <2> QED
    BY <1>2, <1>9, <1>10, <1>12, <2>1, <2>2, <2>3 DEF OpRefs, Names, NamesIn
<1>15. RepoRefs' /\ StoredRefs'
  BY <1>1, <1>4, StaysRepo, StaysStored DEF remote
<1> QED
  BY <1>4, <1>10, <1>11, <1>13, <1>14, <1>15, CommandThere DEF remote, local

LEMMA PublishNextKeeps ==
    ASSUME Inv, linked, NEW p \in Process, PublishNext(p)
    PROVE  Inv'
<1> USE DEF PublishNext
<1>1. /\ Graph(made) /\ TypeOK /\ Refs /\ MainRefs /\ RepoRefs /\ StoredRefs /\ ~Idle(p)
  BY DEF Inv, Refs, Idle
<1>2. PICK o : o = op[p] /\ o \in Op /\ OpRefs(p) /\ o.theirs \in Roots /\ Runs(p) /\ OnRemote
               /\ o.at = "publish" /\ o.todo # <<>>
  BY <1>1, Busied
<1>3. Grows(made, made') /\ made' = made
  BY <1>1, SameGrows
<1>4. RepoRefs' /\ StoredRefs'
  BY <1>1, <1>3, StaysRepo, StaysStored DEF remote
<1>5. PICK t : t = Head(o.todo)
  OBVIOUS
<1>6. /\ t \in Tracker /\ t \in Range(o.todo) /\ Tail(o.todo) \in Seq(Tracker)
      /\ Range(Tail(o.todo)) \subseteq Range(o.todo) /\ o.todo \in Seq(Tracker)
  <2>1. o.todo \in Seq(Tracker)
    BY <1>2 DEF Op
  <2> QED
    BY <1>2, <1>5, <2>1, HeadTailIs
<1>7. CASE Stop(p) /\ fork' = fork
  <2>1. op' \in [Process -> Op] /\ op'[p] = NoOp /\ Others(p)
    BY <1>1, <1>7, NoOpIs, BecomesIs DEF TypeOK, Stop
  <2>2. OpRefs(p)' /\ Runs(p)'
    BY <2>1, Stopped
  <2>3. TypeOK'
    BY <1>1, <1>7, <2>1 DEF TypeOK, remote, local
  <2> QED
    BY <1>3, <1>4, <2>1, <2>2, <2>3, CommandThere DEF remote, local
<1>8. PICK head, tip : head = o.theirs /\ tip = o.tip /\ Checkpointed(head, tip)
  BY <1>2 DEF Runs
<1>9. PICK sent : sent = Behind(At(Index(head), t)) \union Behind(Index(tip)[t])
  OBVIOUS
<1>10. PICK copied : copied = IF t \in DOMAIN fork[p] THEN fork[p][t] ELSE Behind(repo[t].main)
  OBVIOUS
<1>11. CASE /\ t \in DOMAIN o.base
            /\ fork' = [fork EXCEPT ![p] = Put(@, t, copied \union sent)]
            /\ Becomes(p, [o EXCEPT !.todo = Tail(@)])
  <2>1. PICK f : f = fork[p] /\ f \in Maps(SUBSET Nat)
    BY <1>1 DEF TypeOK
  <2>2. sent \in SUBSET Nat
    <3>1. NamesIn(made, Index(head)) /\ NamesIn(made, Index(tip)) /\ Len(made) \in Nat
          /\ t \in DOMAIN Index(tip)
      BY <1>1, <1>2, <1>6, <1>8, IndexIs DEF Checkpointed, Runs
    <3>2. At(Index(head), t) \in {0} \union (1 .. Len(made)) /\ Index(tip)[t] \in 1 .. Len(made)
      BY <3>1, AtIs DEF NamesIn
    <3>3. Behind(At(Index(head), t)) \subseteq Nat /\ Behind(Index(tip)[t]) \subseteq Nat
      BY <1>1, <3>2, BehindType
    <3> QED
      BY <1>9, <3>3
  <2>3. copied \in SUBSET Nat
    <3>1. CASE t \in DOMAIN f
      BY <1>10, <2>1, <3>1 DEF Maps
    <3>2. CASE t \notin DOMAIN f
      <4>1. t \in DOMAIN repo
        BY <1>2, <1>11 DEF Runs
      <4>2. repo[t].main \in {0} \union (1 .. Len(made))
        BY <1>1, <4>1 DEF RepoRefs
      <4>3. copied = Behind(repo[t].main)
        BY <1>10, <2>1, <3>2
      <4> QED
        BY <1>1, <4>2, <4>3, BehindType
    <3> QED
      BY <3>1, <3>2
  <2>4. Put(f, t, copied \union sent) \in Maps(SUBSET Nat)
    <3>1. PICK D \in SUBSET Tracker : f \in [D -> SUBSET Nat]
      BY <2>1 DEF Maps
    <3>2. D \union {t} \in SUBSET Tracker /\ copied \union sent \in SUBSET Nat
      BY <1>6, <2>2, <2>3
    <3>3. Put(f, t, copied \union sent) \in [D \union {t} -> SUBSET Nat]
      BY <3>1, <3>2 DEF Put
    <3> QED
      BY <3>2, <3>3 DEF Maps
  <2>5. fork' \in [Process -> Maps(SUBSET Nat)]
    BY <1>1, <1>11, <2>1, <2>4 DEF TypeOK
  <2>6. PICK next : next = [o EXCEPT !.todo = Tail(@)]
    OBVIOUS
  <2>7. /\ next \in Op /\ next.todo = Tail(o.todo) /\ next.at = o.at /\ next.base = o.base
        /\ next.theirs = head /\ next.tip = tip /\ next.heads = o.heads /\ next.moves = o.moves /\ next.cmd = o.cmd
    BY <1>2, <1>6, <1>8, <2>6 DEF Op
  <2>8. op' \in [Process -> Op] /\ op'[p] = next /\ Others(p)
    BY <1>1, <1>11, <2>6, <2>7, BecomesIs DEF TypeOK
  <2>9. TypeOK'
    BY <1>1, <2>5, <2>8 DEF TypeOK, remote, local
  <2>10. repo' = repo /\ made' = made
    OBVIOUS
  <2>11. OpRefs(p)'
    BY <1>2, <1>8, <2>7, <2>8, <2>10 DEF OpRefs, Tree, Names, NamesIn, Roots, Idle
  <2>12. Runs(p)'
    <3>1. Range(next.todo) \subseteq DOMAIN Index(next.tip)'
      <4>1. Range(o.todo) \subseteq DOMAIN Index(tip)
        BY <1>2, <1>8 DEF Runs
      <4>2. Range(next.todo) \subseteq Range(o.todo) /\ next.tip = tip
        BY <1>6, <2>7
      <4>3. Index(tip)' = Index(tip)
        BY <2>10 DEF Index
      <4> QED
        BY <4>1, <4>2, <4>3
    <3>2. Checkpointed(head, tip)'
      BY <1>1, <1>3, <1>8, CheckpointedGoesOn
    <3> QED
      BY <1>2, <1>8, <2>7, <2>8, <2>10, <3>1, <3>2 DEF Runs
  <2> QED
    BY <1>3, <1>4, <2>8, <2>9, <2>11, <2>12, CommandThere DEF remote, local
<1> QED
  BY <1>2, <1>5, <1>7, <1>8, <1>9, <1>10, <1>11

\* A command whose references stay.
LEMMA SameOpRefs ==
    ASSUME made' = made, NEW p, OpRefs(p), op[p].theirs \in Roots,
           op'[p].base = op[p].base, op'[p].heads = op[p].heads, op'[p].moves = op[p].moves,
           op'[p].theirs = op[p].theirs
    PROVE  OpRefs(p)'
  BY DEF OpRefs, Tree, Names, NamesIn, Roots, Idle

LEMMA GoOnIs ==
    ASSUME TypeOK, NEW p \in Process, NEW at, GoOn(p, at),
           at \in {"idle", "sync", "publish", "merge", "fetch", "make", "seed", "land", "wait",
                   "root", "keep", "children", "create", "seeds"}
    PROVE  /\ op' \in [Process -> Op] /\ Others(p)
           /\ op'[p].at = at /\ op'[p].cmd = op[p].cmd /\ op'[p].theirs = op[p].theirs
           /\ op'[p].tip = op[p].tip /\ op'[p].base = op[p].base /\ op'[p].heads = op[p].heads
           /\ op'[p].merged = op[p].merged /\ op'[p].moves = op[p].moves
           /\ op'[p].writes = op[p].writes /\ op'[p].todo = op[p].todo
<1>1. PICK o \in Op : o = op[p]
  BY DEF TypeOK
<1>2. PICK next : next = [o EXCEPT !.at = at]
  OBVIOUS
<1>3. /\ next \in Op /\ next.at = at /\ next.cmd = o.cmd /\ next.theirs = o.theirs
      /\ next.tip = o.tip /\ next.base = o.base /\ next.heads = o.heads
      /\ next.merged = o.merged /\ next.moves = o.moves
      /\ next.writes = o.writes /\ next.todo = o.todo
  BY <1>1, <1>2 DEF Op
<1>4. Becomes(p, next)
  BY <1>1, <1>2 DEF GoOn
<1>5. op' \in [Process -> Op] /\ op'[p] = next /\ Others(p)
  BY <1>3, <1>4, BecomesIs DEF TypeOK
<1> QED
  BY <1>1, <1>3, <1>5

LEMMA StopIs ==
    ASSUME TypeOK, NEW p \in Process, Stop(p)
    PROVE  op' \in [Process -> Op] /\ op'[p] = NoOp /\ Others(p) /\ OpRefs(p)' /\ Runs(p)' /\ RunsHere(p)'
<1>1. op' \in [Process -> Op] /\ op'[p] = NoOp /\ Others(p)
  BY NoOpIs, BecomesIs DEF TypeOK, Stop
<1> QED
  BY <1>1, Stopped

LEMMA PublishEndKeeps ==
    ASSUME Inv, linked, NEW p \in Process, PublishEnd(p)
    PROVE  Inv'
<1> USE DEF PublishEnd
<1>1. /\ Graph(made) /\ TypeOK /\ RepoRefs /\ StoredRefs /\ ~Idle(p)
  BY DEF Inv, Refs, Idle
<1>2. PICK o : o = op[p] /\ o \in Op /\ OpRefs(p) /\ o.theirs \in Roots /\ Runs(p) /\ o.at = "publish"
  BY <1>1, Busied
<1>3. Grows(made, made') /\ made' = made
  BY <1>1, SameGrows
<1>4. RepoRefs' /\ repo' = repo /\ list' = list
  BY <1>1, <1>3, StaysRepo DEF remote
<1>5. PICK head, tip : head = o.theirs /\ tip = o.tip /\ Checkpointed(head, tip)
  BY <1>2 DEF Runs
<1>6. PICK c : c = [by |-> p, head |-> head, tip |-> tip]
  OBVIOUS
<1>7. stored' = stored \union {c} /\ c.head = head /\ c.tip = tip /\ c.by = p
  BY <1>2, <1>5, <1>6
<1>8. head \in Nat /\ tip \in Nat /\ c \in [by : Process, head : Nat, tip : Nat]
  <2>1. head \in Nat /\ tip \in Nat
    BY <1>1, <1>5, IndexIs DEF Checkpointed
  <2> QED
    BY <1>6, <2>1
<1>9. StoredRefs'
  <2>1. Checkpointed(head, tip)'
    BY <1>1, <1>3, <1>5, CheckpointedGoesOn
  <2>2. ASSUME NEW d \in stored PROVE Checkpointed(d.head, d.tip)'
    <3>1. PICK h, t : h = d.head /\ t = d.tip /\ Checkpointed(h, t)
      BY <1>1 DEF StoredRefs
    <3>2. Checkpointed(h, t)'
      BY <1>1, <1>3, <3>1, CheckpointedGoesOn
    <3> QED
      BY <3>1, <3>2
  <2> QED
    BY <1>7, <2>1, <2>2 DEF StoredRefs
<1>10. op' \in [Process -> Op] /\ Others(p) /\ OpRefs(p)' /\ Runs(p)'
  <2>1. CASE GoOn(p, "merge")
    <3>1. /\ op' \in [Process -> Op] /\ Others(p) /\ op'[p].at = "merge" /\ op'[p].cmd = o.cmd
          /\ OpRefs(p)'
      BY <1>1, <1>2, <1>3, <2>1, GoOnIs, SameOpRefs
    <3> QED
      BY <1>2, <3>1 DEF Runs
  <2>2. CASE Stop(p)
    BY <1>1, <2>2, StopIs
  <2> QED
    BY <2>1, <2>2
<1>11. TypeOK'
  BY <1>1, <1>7, <1>8, <1>10 DEF TypeOK, local
<1> QED
  BY <1>3, <1>4, <1>9, <1>10, <1>11, CommandThere DEF local

LEMMA MergeReadKeeps ==
    ASSUME Inv, NEW p \in Process, MergeRead(p)
    PROVE  Inv'
<1> USE DEF MergeRead
<1>1. /\ Graph(made) /\ TypeOK /\ MainRefs /\ RepoRefs /\ StoredRefs /\ ~Idle(p) /\ Home \in Range(Host)
  BY HostIs DEF Inv, Refs, Idle
<1>2. PICK o : o = op[p] /\ o \in Op /\ OpRefs(p) /\ o.theirs \in Roots /\ o.at = "merge"
  BY <1>1, Busied
<1>3. Grows(made, made') /\ made' = made
  BY <1>1, SameGrows
<1>4. RepoRefs' /\ repo' = repo /\ list' = list /\ StoredRefs' /\ linked' = linked
  BY <1>1, <1>3, StaysRepo, StaysStored DEF remote
<1>5. CASE linked
  <2>1. Runs(p) /\ OnRemote
    BY <1>1, <1>5, Busied
  <2>2. PICK next : next = [o EXCEPT !.base = list, !.heads = <<>>, !.at = "fetch"]
    OBVIOUS
  <2>3. /\ next \in Op /\ next.at = "fetch" /\ next.base = list /\ next.heads = <<>>
        /\ next.theirs = o.theirs /\ next.moves = o.moves /\ next.cmd = o.cmd
    BY <1>1, <1>2, <2>2, NoPins DEF Op, TypeOK
  <2>4. Becomes(p, next)
    BY <1>2, <1>5, <2>2
  <2>5. op' \in [Process -> Op] /\ op'[p] = next /\ Others(p)
    BY <1>1, <2>3, <2>4, BecomesIs DEF TypeOK
  <2>6. PICK f, head : /\ f = list /\ head = list[Root] /\ IsIndex(f) /\ head \in Roots
                       /\ f = Index(head) /\ f[Root] = head
    BY <2>1 DEF OnRemote, IsIndex
  <2>7. IsIndex(f)' /\ Tree(f)' /\ Ancestor(head, head)'
    BY <1>1, <1>3, <2>6, IndexIs, IsIndexGoesOn, TreeGoesOn, AncestorIs, AncestorGoesOn
  <2>8. OpRefs(p)'
    <3>1. Names(<<>>)'
      BY NoPins DEF Names, NamesIn
    <3> QED
      BY <1>2, <1>3, <2>3, <2>5, <2>6, <2>7, <3>1 DEF OpRefs, Roots
  <2>9. Runs(p)'
    BY <1>2, <1>4, <2>1, <2>3, <2>5, <2>6, <2>7 DEF Runs, OnRemote
  <2>10. TypeOK'
    BY <1>1, <1>5, <2>5 DEF TypeOK, remote
  <2> QED
    BY <1>3, <1>4, <1>5, <2>5, <2>8, <2>9, <2>10, CommandThere DEF remote
<1>6. CASE ~linked
  <2>1. RunsHere(p) /\ AtHome /\ Host[p] = Home /\ Here(main[Home]) /\ Here(kept[Home])
    BY <1>1, <1>6, Busied
  <2>2. /\ main' = [main EXCEPT ![Home] = Fetched(Home)] /\ kept' = kept
    BY <1>6, <2>1
  <2>3. main' \in [Range(Host) -> Pins] /\ MainRefs' /\ Here(main[Home])'
    BY <1>1, <1>3, <2>1, <2>2, FetchedMain
  <2>4. PICK g, k : g = Fetched(Home) /\ k = kept[Home]
    OBVIOUS
  <2>5. /\ g \in Pins /\ Tree(g) /\ Root \in DOMAIN k /\ \A t \in DOMAIN k : t \in DOMAIN g /\ g[t] = k[t]
    BY <1>1, <2>1, <2>4, FetchedIs DEF Here
  <2>6. main'[Home] = g
    BY <1>1, <2>2, <2>4 DEF TypeOK
  <2>7. PICK r \in Roots : r = k[Root] /\ r = At(g, Root)
    BY <2>5 DEF Tree, At
  <2>8. PICK base : base = Index(r) /\ base \in Pins /\ Tree(base)
    BY <1>1, <2>7, IndexIs
  <2>9. PICK next : next = [o EXCEPT !.base = base, !.heads = g, !.at = "make"]
    OBVIOUS
  <2>10. /\ next \in Op /\ next.at = "make" /\ next.base = base /\ next.heads = g
         /\ next.theirs = o.theirs /\ next.moves = o.moves /\ next.cmd = o.cmd
    BY <1>2, <2>5, <2>8, <2>9 DEF Op
  <2>11. Becomes(p, next)
    BY <1>2, <1>6, <2>1, <2>6, <2>7, <2>8, <2>9
  <2>12. op' \in [Process -> Op] /\ op'[p] = next /\ Others(p)
    BY <1>1, <2>10, <2>11, BecomesIs DEF TypeOK
  <2>13. OpRefs(p)'
    BY <1>2, <1>3, <2>5, <2>8, <2>10, <2>12 DEF OpRefs, Tree, Names, NamesIn, Roots
  <2>14. RunsHere(p)'
    <3>1. Index(r)' = base
      BY <1>3, <2>8 DEF Index
    <3>2. op'[p].cmd \in {"none", "merge", "create"} /\ op'[p].at = "make"
      BY <1>2, <2>1, <2>10, <2>12 DEF RunsHere
    <3>3. /\ op'[p].base = Index(kept[Home][Root])' /\ op'[p].heads = main'[Home]
          /\ \A t \in DOMAIN kept'[Home] : t \in DOMAIN main'[Home] /\ main'[Home][t] = kept'[Home][t]
      BY <2>2, <2>4, <2>5, <2>6, <2>7, <2>10, <2>12, <3>1
    <3> QED
      BY <3>2, <3>3 DEF RunsHere
  <2>15. TypeOK'
    BY <1>1, <2>3, <2>12 DEF TypeOK, remote
  <2>16. NothingLost'
    BY <1>1, <1>3, SameTruth DEF remote
  <2>17. Here(kept[Home]) => Here(kept[Home])'
    BY <2>2 DEF Here
  <2>18. \A q \in Process : inst'[q] = inst[q]
    OBVIOUS
  <2> QED
    BY <1>1, <1>3, <1>4, <1>6, <2>3, <2>12, <2>13, <2>14, <2>15, <2>16, <2>17, <2>18, CommandHere DEF remote
<1> QED
  BY <1>5, <1>6

LEMMA MergeFetchKeeps ==
    ASSUME Inv, linked, NEW p \in Process, MergeFetch(p)
    PROVE  Inv'
<1> USE DEF MergeFetch
<1>1. /\ Graph(made) /\ TypeOK /\ RepoRefs /\ StoredRefs /\ ~Idle(p) /\ Host[p] \in Range(Host)
  BY HostIs DEF Inv, Refs, Idle
<1>2. PICK o : o = op[p] /\ o \in Op /\ OpRefs(p) /\ o.theirs \in Roots /\ Runs(p) /\ o.at = "fetch"
  BY <1>1, Busied
<1>3. Grows(made, made') /\ made' = made
  BY <1>1, SameGrows
<1>4. RepoRefs' /\ repo' = repo /\ list' = list /\ StoredRefs' /\ linked' = linked
  BY <1>1, <1>3, StaysRepo, StaysStored DEF remote
<1>5. PICK D \in SUBSET Tracker : D = DOMAIN o.base /\ D \subseteq DOMAIN repo
  <2>1. DOMAIN o.base \subseteq Tracker
    BY <1>2, PinsOf DEF Op
  <2> QED
    BY <1>2, <2>1 DEF Runs
<1>6. PICK heads : heads = [t \in D |-> repo[t].main]
  OBVIOUS
<1>7. \A t \in D : repo[t].main \in 1 .. Len(made) /\ repo[t].main \in Nat
  BY <1>1, <1>5 DEF RepoRefs
<1>8. heads \in Pins /\ NamesIn(made', heads)
  <2>1. heads \in [D -> Nat]
    BY <1>6, <1>7
  <2>2. heads \in Pins
    BY <2>1, PinsFrom
  <2> QED
    BY <1>3, <1>6, <1>7, <2>2 DEF NamesIn
<1>9. PICK next : next = [o EXCEPT !.heads = heads, !.at = "make"]
  OBVIOUS
<1>10. /\ next \in Op /\ next.at = "make" /\ next.base = o.base /\ next.heads = heads
       /\ next.theirs = o.theirs /\ next.moves = o.moves /\ next.cmd = o.cmd
  BY <1>2, <1>8, <1>9 DEF Op
<1>11. Becomes(p, next)
  BY <1>2, <1>5, <1>6, <1>9
<1>12. op' \in [Process -> Op] /\ op'[p] = next /\ Others(p)
  BY <1>1, <1>10, <1>11, BecomesIs DEF TypeOK
<1>13. has' \in [Range(Host) -> SUBSET Nat]
  <2>1. \A t \in D : Behind(repo[t].main) \subseteq Nat
    BY <1>1, <1>7, BehindType
  <2>2. PICK more \in SUBSET Nat : more = UNION {Behind(repo[t].main) : t \in DOMAIN op[p].base}
    BY <1>2, <1>5, <2>1
  <2>3. has' = [has EXCEPT ![Host[p]] = @ \union more]
    BY <2>2
  <2> QED
    BY <1>1, <2>2, <2>3, HasIs
<1>14. TypeOK'
  BY <1>1, <1>12, <1>13 DEF TypeOK, remote
<1>15. OpRefs(p)'
  BY <1>2, <1>3, <1>8, <1>10, <1>12 DEF OpRefs, Tree, Names, NamesIn, Roots
<1>16. Runs(p)'
  <2>1. PICK f, r, head : /\ f = o.base /\ r = o.base[Root] /\ head = list[Root]
                          /\ IsIndex(f) /\ Ancestor(r, head)
    BY <1>2 DEF Runs
  <2>2. IsIndex(f)' /\ Ancestor(r, head)'
    BY <1>3, <2>1 DEF IsIndex, Roots, Index, Ancestor, Behind
  <2> QED
    BY <1>2, <1>4, <1>10, <1>12, <2>1, <2>2 DEF Runs
<1> QED
  BY <1>3, <1>4, <1>12, <1>14, <1>15, <1>16, CommandThere DEF remote

\* What a merge makes is over both it merges.
LEMMA MergedIs ==
    ASSUME Graph(made), NEW ours \in Roots, NEW theirs \in Roots, NEW joins, NEW commits, NEW merged,
           joins = (~Ancestor(ours, theirs) /\ ~Ancestor(theirs, ours)),
           commits = IF joins THEN Joined(ours, theirs) ELSE made,
           merged = IF joins THEN Len(commits) ELSE IF Ancestor(ours, theirs) THEN theirs ELSE ours
    PROVE  /\ Grows(made, commits) /\ Graph(commits) /\ merged \in RootsOf(commits)
           /\ ours \in commits[merged].behind /\ theirs \in commits[merged].behind
<1>1. ours \in 1 .. Len(made) /\ theirs \in 1 .. Len(made) /\ Len(made) \in Nat
  BY IndexIs
<1>2. /\ Behind(ours) = made[ours].behind /\ Behind(theirs) = made[theirs].behind
      /\ ours \in made[ours].behind /\ theirs \in made[theirs].behind
  BY <1>1, AncestorIs, CommitAt
<1>3. CASE ~joins
  <2>1. commits = made /\ Grows(made, commits) /\ Graph(commits) /\ RootsOf(commits) = Roots
    BY <1>3, GrowsAll DEF Roots
  <2>2. CASE Ancestor(ours, theirs)
    <3>1. merged = theirs
      BY <1>3, <2>2
    <3> QED
      BY <1>2, <2>1, <2>2, <3>1 DEF Ancestor
  <2>3. CASE ~Ancestor(ours, theirs)
    <3>1. merged = ours /\ Ancestor(theirs, ours)
      BY <1>3, <2>3
    <3> QED
      BY <1>2, <2>1, <3>1 DEF Ancestor
  <2> QED
    BY <2>2, <2>3
<1>4. CASE joins
  <2>1. commits = Joined(ours, theirs) /\ merged = Len(commits)
    BY <1>4
  <2>2. NewRoot(made, commits, {ours, theirs}, FALSE)
    BY <2>1, JoinedIs
  <2>3. /\ Grows(made, commits) /\ Len(made) < Len(commits) /\ Root \in DOMAIN commits[Len(commits)].pins
        /\ commits[Len(commits)].behind = (UNION {made[q].behind : q \in {ours, theirs}}) \union {Len(commits)}
    BY <2>2 DEF NewRoot
  <2>4. Graph(commits) /\ Len(commits) \in Nat
    BY <2>3, GrowsIs
  <2>5. Len(commits) \in RootsOf(commits)
    BY <1>1, <2>3, <2>4 DEF RootsOf
  <2>6. ours \in commits[Len(commits)].behind /\ theirs \in commits[Len(commits)].behind
    BY <1>2, <2>3
  <2> QED
    BY <2>1, <2>3, <2>4, <2>5, <2>6
<1> QED
  BY <1>3, <1>4

LEMMA RootPins ==
    ASSUME NEW commits, Graph(commits), NEW r \in RootsOf(commits)
    PROVE  /\ [commits[r].pins EXCEPT ![Root] = r] = commits[r].pins
           /\ r \in 1 .. Len(commits) /\ r # 0
           /\ Root \in DOMAIN commits[r].pins /\ commits[r].pins[Root] = r
           /\ commits[r].pins \in Pins /\ NamesIn(commits, commits[r].pins)
<1>1. r \in 1 .. Len(commits) /\ Root \in DOMAIN commits[r].pins
  BY DEF RootsOf
<1>2. PICK pins : pins = commits[r].pins
  OBVIOUS
<1>3. pins \in Pins /\ NamesIn(commits, pins) /\ pins[Root] = r /\ r \in Nat
  BY <1>1, <1>2, CommitAt
<1>4. [pins EXCEPT ![Root] = r] = pins
  BY <1>3, PinsOf
<1> QED
  BY <1>1, <1>2, <1>3, <1>4

\* And each tracker it moves catches up.
LEMMA MovedIs ==
    ASSUME NEW commits, Graph(commits), NEW merged \in RootsOf(commits), NEW base,
           NEW index, index = [commits[merged].pins EXCEPT ![Root] = merged],
           NEW moved, moved = Moved(base, index), NEW heads, NamesIn(commits, heads)
    PROVE  /\ index = commits[merged].pins /\ index \in Pins /\ moved \in SUBSET Tracker
           /\ moved \subseteq DOMAIN index
           /\ CaughtSo(CatchUp(commits, moved \ {Root}, index, heads), commits, moved \ {Root}, index, heads)
<1>1. /\ index = commits[merged].pins /\ index \in Pins /\ NamesIn(commits, index)
      /\ Root \in DOMAIN index
  BY RootPins
<1>2. moved \subseteq DOMAIN index /\ DOMAIN index \subseteq Tracker
  BY <1>1, PinsOf DEF Moved
<1>a. moved \ {Root} \subseteq Children
  BY <1>2 DEF Tracker
<1>3. PICK trackers \in SUBSET Children : trackers = moved \ {Root}
  BY <1>a
<1>4. \A t \in trackers : t \in DOMAIN index /\ index[t] \in 1 .. Len(commits)
  BY <1>1, <1>2, <1>3 DEF NamesIn
<1>5. CaughtSo(CatchUp(commits, trackers, index, heads), commits, trackers, index, heads)
  BY <1>4, CatchUpIs
<1> QED
  BY <1>1, <1>2, <1>3, <1>5

\* The command after its merge is made, and on a remote has passed the gate.
MadeBy(p, all, merged, index, moves) ==
    LET o == op[p]
        moved == Moved(o.base, index)
        sent == {index[t] : t \in moved} \union {v.new : v \in moves}
    IN  /\ ~(linked /\ \E c \in (UNION {all[d].behind : d \in sent}) \ Adopted : all[c].secret)
        /\ Make(p, all)
        /\ Becomes(p, [o EXCEPT !.merged = merged, !.moves = moves,
                  !.todo = InOrder({t \in moved : t \notin DOMAIN o.base}),
                  !.at = IF ~linked THEN "root" ELSE IF moved = {} THEN "children" ELSE "seed"])

Makes(p, ours, theirs, joins, commits, merged, index, all, moves) ==
    /\ ours = At(op[p].base, Root) /\ theirs = op[p].theirs
    /\ joins = (~Ancestor(ours, theirs) /\ ~Ancestor(theirs, ours))
    /\ commits = IF joins THEN Joined(ours, theirs) ELSE made
    /\ merged = IF joins THEN Len(commits) ELSE IF Ancestor(ours, theirs) THEN theirs ELSE ours
    /\ index = [commits[merged].pins EXCEPT ![Root] = merged]
    /\ CatchUp(commits, Moved(op[p].base, index) \ {Root}, index, op[p].heads)
          = [commits |-> all, moves |-> moves]
    /\ Caught(commits, all, moves, Moved(op[p].base, index) \ {Root}, index, op[p].heads)
    /\ MadeBy(p, all, merged, index, moves)

\* What a merge is of: what `main` was, and the instance's checkpoint.
LEMMA MergesBoth ==
    ASSUME Inv, NEW p \in Process, op[p].at = "make"
    PROVE  op[p].theirs \in Roots /\ At(op[p].base, Root) \in Roots
<1>1. /\ Graph(made) /\ TypeOK /\ MainRefs /\ ~Idle(p) /\ Home \in Range(Host)
  BY HostIs DEF Inv, Refs, Idle
<1>2. PICK o : o = op[p] /\ o \in Op /\ OpRefs(p)
  BY <1>1, Busied
<1>3. o.theirs \in Roots
  BY <1>1, <1>2, Busied
<1>4. CASE linked
  <2>1. IsIndex(o.base)
    BY <1>1, <1>2, <1>4, Busied DEF Runs
  <2> QED
    BY <1>2, <1>3, <2>1 DEF IsIndex, At
<1>5. CASE ~linked
  <2>1. RunsHere(p) /\ Here(kept[Home]) /\ Tree(kept[Home])
    BY <1>1, <1>5, Busied DEF MainRefs
  <2>2. PICK r \in Roots : r = kept[Home][Root]
    BY <2>1 DEF Here, Tree
  <2>3. o.base = Index(r)
    BY <1>2, <2>1, <2>2 DEF RunsHere
  <2>4. Root \in DOMAIN o.base /\ o.base[Root] = r
    BY <1>1, <2>3, IndexIs
  <2> QED
    BY <1>2, <1>3, <2>4 DEF At
<1> QED
  BY <1>4, <1>5

LEMMA MadeByIs ==
    ASSUME Inv, NEW p \in Process, MergeMake(p)
    PROVE  /\ op[p].at = "make" /\ UNCHANGED <<inst, main, kept, linked, remote, repo, fork, follows, acked, spent>>
           /\ \/ Stop(p) /\ UNCHANGED <<made, has>>
              \/ \E joins, commits, merged, index, all, moves :
                    Makes(p, At(op[p].base, Root), op[p].theirs, joins, commits, merged, index, all, moves)
<1> DEFINE o == op[p]
           ours == At(o.base, Root)
           forward == ours = 0 \/ Ancestor(ours, o.theirs)
           joins == ~forward /\ ~Ancestor(o.theirs, ours)
           commits == IF joins THEN Joined(ours, o.theirs) ELSE made
           merged == IF joins THEN Len(commits) ELSE IF forward THEN o.theirs ELSE ours
           index == [commits[merged].pins EXCEPT ![Root] = merged]
           moved == Moved(o.base, index)
           caught == CatchUp(commits, moved \ {Root}, index, o.heads)
           all == caught.commits
<1>1. o.at = "make" /\ UNCHANGED <<inst, main, kept, linked, remote, repo, fork, follows, acked, spent>>
  BY Zenon DEF MergeMake
<1>2. \/ Stop(p) /\ UNCHANGED <<made, has>>
      \/ MadeBy(p, all, merged, index, caught.moves)
  BY Zenon DEF MergeMake, MadeBy
<1>3. Graph(made) /\ ours \in Roots /\ o.theirs \in Roots /\ OpRefs(p) /\ ours # 0
  <2>1. Graph(made) /\ OpRefs(p) /\ ours \in Roots /\ o.theirs \in Roots
    BY <1>1, MergesBoth DEF Inv, Refs
  <2> QED
    BY <2>1, IndexIs
<1>4. forward <=> Ancestor(ours, o.theirs)
  BY <1>3
<1>5. joins = (~Ancestor(ours, o.theirs) /\ ~Ancestor(o.theirs, ours))
  BY <1>4
<1>6. commits = IF joins THEN Joined(ours, o.theirs) ELSE made
  OBVIOUS
<1>7. merged = IF joins THEN Len(commits) ELSE IF Ancestor(ours, o.theirs) THEN o.theirs ELSE ours
  BY <1>4
<1>8. index = [commits[merged].pins EXCEPT ![Root] = merged]
  OBVIOUS
<1>9. moved = Moved(o.base, index) /\ caught = CatchUp(commits, moved \ {Root}, index, o.heads)
      /\ all = caught.commits
  OBVIOUS
<1> HIDE DEF joins, commits, merged, index, moved, caught, all
<1>10. Grows(made, commits) /\ Graph(commits) /\ merged \in RootsOf(commits)
  BY <1>3, <1>5, <1>6, <1>7, MergedIs
<1>11. NamesIn(commits, o.heads)
  BY <1>3, <1>10, NamesGrow DEF OpRefs, Names
<1>12. CaughtSo(CatchUp(commits, moved \ {Root}, index, o.heads), commits, moved \ {Root}, index, o.heads)
  BY <1>8, <1>9, <1>10, <1>11, MovedIs
<1>13. PICK most, moves : /\ caught = [commits |-> most, moves |-> moves]
                          /\ Caught(commits, most, moves, moved \ {Root}, index, o.heads)
  BY <1>9, <1>12 DEF CaughtSo
<1>14. all = most /\ caught.moves = moves
  BY <1>9, <1>13
<1>15. ASSUME MadeBy(p, all, merged, index, caught.moves)
       PROVE  Makes(p, ours, o.theirs, joins, commits, merged, index, most, moves)
  <2>1. MadeBy(p, most, merged, index, moves)
    BY <1>14, <1>15
  <2>2. CatchUp(commits, Moved(o.base, index) \ {Root}, index, o.heads) = [commits |-> most, moves |-> moves]
    BY <1>9, <1>13
  <2>3. Caught(commits, most, moves, Moved(o.base, index) \ {Root}, index, o.heads)
    BY <1>9, <1>13
  <2> QED
    BY <1>5, <1>6, <1>7, <1>8, <2>1, <2>2, <2>3, Zenon DEF Makes
<1> QED
  BY <1>1, <1>2, <1>15

LEMMA MergeMakeKeeps ==
    ASSUME Inv, NEW p \in Process, MergeMake(p)
    PROVE  Inv'
<1>1. /\ Graph(made) /\ TypeOK /\ MainRefs /\ RepoRefs /\ StoredRefs /\ ~Idle(p)
      /\ Home \in Range(Host) /\ Host[p] \in Range(Host) /\ op[p].at = "make"
      /\ UNCHANGED <<inst, main, kept, linked, remote, repo, fork, follows, acked, spent>>
  BY HostIs, MadeByIs DEF Inv, Refs, Idle
<1>2. PICK o : o = op[p] /\ o \in Op /\ OpRefs(p)
  BY <1>1, Busied
<1>3. PICK ours \in Roots : ours = At(o.base, Root)
  BY <1>1, <1>2, MergesBoth
<1>4. PICK theirs \in Roots : theirs = o.theirs
  BY <1>1, <1>2, MergesBoth
<1>5. ASSUME Stop(p) /\ UNCHANGED <<made, has>>
      PROVE  Inv'
  <2>1. UNCHANGED <<made, inst, local, linked, remote, repo, fork, follows, acked>>
    BY <1>1, <1>5 DEF local
  <2>2. spent' \in [{"commands", "updates", "kills", "deaths"} -> Nat]
    BY <1>1 DEF TypeOK
  <2> QED
    BY <1>1, <1>5, <2>1, <2>2, StopKeeps
<1>6. ASSUME NEW joins, NEW commits, NEW merged, NEW index, NEW all, NEW moves,
             Makes(p, ours, theirs, joins, commits, merged, index, all, moves)
      PROVE  Inv'
  <2>1. PICK moved : moved = Moved(o.base, index)
    OBVIOUS
  <2>2. /\ joins = (~Ancestor(ours, theirs) /\ ~Ancestor(theirs, ours))
        /\ commits = IF joins THEN Joined(ours, theirs) ELSE made
        /\ merged = IF joins THEN Len(commits) ELSE IF Ancestor(ours, theirs) THEN theirs ELSE ours
        /\ index = [commits[merged].pins EXCEPT ![Root] = merged]
        /\ Caught(commits, all, moves, moved \ {Root}, index, o.heads)
        /\ MadeBy(p, all, merged, index, moves)
    BY <1>2, <1>6, <2>1, Zenon DEF Makes
  <2>3. /\ Grows(made, commits) /\ Graph(commits) /\ merged \in RootsOf(commits)
        /\ ours \in commits[merged].behind /\ theirs \in commits[merged].behind
    BY <1>1, <2>2, MergedIs
  <2>4. Grows(commits, all) /\ \A v \in moves : v \in Move /\ v.new \in 1 .. Len(all)
    BY <2>2 DEF Caught, Sound
  <2>5. made' = all /\ Grows(made, made') /\ Graph(made')
    BY <1>1, <2>2, <2>3, <2>4, GrowsAll, GrowsIs DEF MadeBy, Make
  <2>a. /\ [commits[merged].pins EXCEPT ![Root] = merged] = commits[merged].pins
        /\ merged \in 1 .. Len(commits) /\ merged # 0
        /\ Root \in DOMAIN commits[merged].pins /\ commits[merged].pins[Root] = merged
        /\ commits[merged].pins \in Pins
    BY <2>3, RootPins
  <2>6. /\ merged \in 1 .. Len(commits) /\ merged \in Nat /\ merged # 0
        /\ index = commits[merged].pins /\ Root \in DOMAIN index /\ index[Root] = merged
        /\ index \in Pins
    BY <2>2, <2>a
  <2>7. merged \in Roots' /\ merged \in 1 .. Len(made') /\ made'[merged] = commits[merged]
    BY <2>3, <2>4, <2>5, <2>6, GrowsIs DEF Roots
  <2>8. Ancestor(ours, merged)' /\ Ancestor(theirs, merged)' /\ Index(merged)' = index
    BY <2>2, <2>3, <2>6, <2>7 DEF Ancestor, Behind, Index
  <2>9. moved \subseteq DOMAIN index /\ moved \in SUBSET Tracker
    BY <2>1, <2>6, PinsOf DEF Moved
  <2>10. PICK fresh \in SUBSET Tracker : fresh = {t \in moved : t \notin DOMAIN o.base}
    BY <2>9
  <2>11. InOrder(fresh) \in Seq(Tracker) /\ Range(InOrder(fresh)) = fresh
    BY InOrderIs
  <2>12. PICK at : at = IF ~linked THEN "root" ELSE IF moved = {} THEN "children" ELSE "seed"
    OBVIOUS
  <2>13. at \in {"root", "children", "seed"} /\ (~linked => at = "root") /\ (linked => at # "root")
         /\ (at = "children" => moved = {})
    BY <2>12
  <2>14. PICK next : next = [o EXCEPT !.merged = merged, !.moves = moves, !.todo = InOrder(fresh), !.at = at]
    OBVIOUS
  <2>15. /\ next \in Op /\ next.at = at /\ next.merged = merged /\ next.moves = moves
         /\ next.todo = InOrder(fresh) /\ next.theirs = theirs /\ next.base = o.base /\ next.heads = o.heads
         /\ next.cmd = o.cmd
    <3>1. moves \in SUBSET Move
      BY <2>4
    <3> QED
      BY <1>2, <1>4, <2>6, <2>11, <2>13, <2>14, <3>1 DEF Op
  <2>16. Becomes(p, next)
    <3>1. Becomes(p, [op[p] EXCEPT !.merged = merged, !.moves = moves,
                        !.todo = InOrder({t \in Moved(op[p].base, index) : t \notin DOMAIN op[p].base}),
                        !.at = IF ~linked THEN "root" ELSE IF Moved(op[p].base, index) = {} THEN "children" ELSE "seed"])
      BY <2>2, Zenon DEF MadeBy
    <3> QED
      BY <1>2, <2>1, <2>10, <2>12, <2>14, <3>1
  <2>17. op' \in [Process -> Op] /\ op'[p] = next /\ Others(p)
    BY <1>1, <2>15, <2>16, BecomesIs DEF TypeOK
  <2>18. has' \in [Range(Host) -> SUBSET Nat]
    <3>1. PICK more : more = Len(made) + 1 .. Len(all)
      OBVIOUS
    <3>2. more \in SUBSET Nat
      BY <1>1, <2>5, <3>1, GoesOn
    <3>3. has' = [has EXCEPT ![Host[p]] = @ \union more]
      BY <2>2, <3>1 DEF MadeBy, Make
    <3> QED
      BY <1>1, <3>2, <3>3, HasIs
  <2>19. TypeOK'
    BY <1>1, <2>17, <2>18 DEF TypeOK, remote
  <2>20. theirs \in Roots' /\ Tree(o.base)' /\ Names(o.heads)'
    <3>1. PICK f, g : f = o.base /\ g = o.heads /\ Tree(f) /\ Names(g)
      BY <1>2 DEF OpRefs
    <3>2. Tree(f)' /\ Names(g)'
      BY <1>1, <2>5, <3>1, TreeGoesOn, NamesGrow DEF Names
    <3> QED
      BY <1>1, <2>5, <3>1, <3>2, GoesOn
  <2>21. OpRefs(p)'
    BY <2>4, <2>5, <2>15, <2>17, <2>20 DEF OpRefs
  <2>22. repo' = repo /\ stored' = stored /\ list' = list /\ RepoRefs' /\ StoredRefs'
    BY <1>1, <2>5, StaysRepo, StaysStored DEF remote
  <2>23. CASE linked
    <3>1. Runs(p) /\ OnRemote
      BY <1>1, <2>23, Busied
    <3>2. PICK head \in Roots : head = list[Root]
      BY <3>1 DEF OnRemote, IsIndex
    <3>3. IsIndex(o.base) /\ o.base[Root] = ours /\ Ancestor(ours, head) /\ DOMAIN o.base \subseteq DOMAIN repo
      BY <1>1, <1>2, <1>3, <3>1, <3>2 DEF Runs, IsIndex, At
    <3>4. IsIndex(o.base)'
      <4>1. PICK g : g = o.base /\ IsIndex(g)
        BY <3>3
      <4> QED
        BY <1>1, <2>5, <4>1, IsIndexGoesOn
    <3>5. Ancestor(ours, head)'
      BY <1>1, <2>5, <3>2, <3>3, IndexIs, AncestorGoesOn
    <3>6. at = "children" => Ancestor(theirs, head)'
      <4> SUFFICES ASSUME at = "children" PROVE Ancestor(theirs, head)'
        OBVIOUS
      <4>1. Root \notin moved
        BY <2>13
      <4>2. At(o.base, Root) = index[Root]
        BY <2>1, <2>6, <4>1 DEF Moved
      <4>3. merged = ours
        BY <1>3, <2>6, <4>2
      <4>4. head \in 1 .. Len(made')
        BY <1>1, <2>5, <3>2, IndexIs, GoesOn
      <4> QED
        BY <2>5, <2>8, <3>5, <4>3, <4>4, AncestorThen
    <3>7. fresh \subseteq DOMAIN index \ DOMAIN o.base
      BY <2>9, <2>10
    <3>8. o.cmd # "create"
      BY <1>2, <3>1 DEF Runs
    <3>9. Runs(p)'
      BY <2>7, <2>8, <2>11, <2>13, <2>15, <2>17, <2>22, <2>23, <3>2, <3>3, <3>4, <3>5, <3>6, <3>7, <3>8 DEF Runs
    <3> QED
      BY <1>1, <2>5, <2>17, <2>19, <2>21, <2>22, <2>23, <3>9, CommandThere DEF remote
  <2>24. CASE ~linked
    <3>1. RunsHere(p) /\ AtHome /\ Host[p] = Home /\ Here(kept[Home]) /\ Tree(kept[Home])
      BY <1>1, <2>24, Busied DEF MainRefs
    <3>2. PICK r \in Roots : r = kept[Home][Root]
      BY <3>1 DEF Here, Tree
    <3>3. o.base = Index(r) /\ main[Home][Root] = r /\ o.cmd \in {"none", "merge", "create"}
      BY <1>1, <1>2, <3>1, <3>2 DEF RunsHere, Here
    <3>4. ours = r
      BY <1>1, <1>3, <3>3, IndexIs DEF At
    <3>5. (At(o.base, Root))' = At(o.base, Root)
      BY DEF At
    <3>6. RunsHere(p)'
      BY <1>1, <1>3, <2>7, <2>8, <2>13, <2>15, <2>17, <2>24, <3>2, <3>3, <3>4, <3>5 DEF RunsHere
    <3>7. NothingLost'
      BY <1>1, <2>5, SameTruth DEF remote
    <3>8. MainRefs'
      BY <1>1, <2>5, StaysTree
    <3>9. (Here(main[Home]) => Here(main[Home])') /\ (Here(kept[Home]) => Here(kept[Home])')
      BY <1>1 DEF Here
    <3>10. (\A q \in Process : inst'[q] = inst[q]) /\ linked' = linked
      BY <1>1
    <3> QED
      BY <1>1, <2>5, <2>17, <2>19, <2>21, <2>22, <2>24, <3>6, <3>7, <3>8, <3>9, <3>10, CommandHere DEF remote
  <2> QED
    BY <2>23, <2>24
<1> QED
  <2>1. \/ Stop(p) /\ UNCHANGED <<made, has>>
        \/ \E joins, commits, merged, index, all, moves :
              Makes(p, ours, theirs, joins, commits, merged, index, all, moves)
    BY <1>2, <1>3, <1>4, MadeByIs
  <2> QED
    BY <1>5, <1>6, <2>1

\* A repo made, or that has more.
LEMMA PutRepo ==
    ASSUME TypeOK, NEW t \in Tracker, NEW r \in Repo, repo' = Put(repo, t, r)
    PROVE  /\ repo' \in Maps(Repo) /\ DOMAIN repo' = DOMAIN repo \union {t} /\ repo'[t] = r
           /\ \A u \in DOMAIN repo : u # t => repo'[u] = repo[u]
<1>1. PICK D \in SUBSET Tracker : repo \in [D -> Repo]
  BY DEF TypeOK, Maps
<1>2. D \union {t} \in SUBSET Tracker /\ DOMAIN repo = D
  BY <1>1
<1>3. /\ DOMAIN repo' = D \union {t} /\ repo'[t] = r /\ \A u \in D : u # t => repo'[u] = repo[u]
      /\ repo' \in [D \union {t} -> Repo]
  BY <1>1, <1>2 DEF Put
<1> QED
  BY <1>2, <1>3 DEF Maps

LEMMA ExceptRepo ==
    ASSUME TypeOK, NEW t \in DOMAIN repo, NEW r \in Repo, repo' = [repo EXCEPT ![t] = r]
    PROVE  /\ repo' \in Maps(Repo) /\ DOMAIN repo' = DOMAIN repo /\ repo'[t] = r
           /\ \A u \in DOMAIN repo : u # t => repo'[u] = repo[u]
<1>1. PICK D \in SUBSET Tracker : repo \in [D -> Repo]
  BY DEF TypeOK, Maps
<1>2. repo' \in [D -> Repo]
  BY <1>1
<1> QED
  BY <1>1, <1>2 DEF Maps

LEMMA RepoType ==
    ASSUME TypeOK, NEW t \in DOMAIN repo
    PROVE  t \in Tracker /\ repo[t] \in Repo
  BY DEF TypeOK, Maps

LEMMA NewRepoIs == NewRepo \in Repo /\ NewRepo.main = 0 /\ NewRepo.holds = {}
  BY DEF NewRepo, Repo

LEMMA MoreRepo ==
    ASSUME Graph(made), Grows(made, made'), RepoRefs, NEW t,
           DOMAIN repo' \subseteq DOMAIN repo \union {t},
           \A u \in DOMAIN repo : u # t => repo'[u] = repo[u],
           t \in DOMAIN repo' => repo'[t].main \in 1 .. Len(made') /\ repo'[t].holds \subseteq 1 .. Len(made')
    PROVE  RepoRefs'
<1>1. 1 .. Len(made) \subseteq 1 .. Len(made')
  BY GoesOn
<1> QED
  BY <1>1 DEF RepoRefs

LEMMA UpdateKeeps ==
    ASSUME Inv, NEW t \in Updates, Update(t)
    PROVE  Inv'
<1> USE DEF Update
<1>1. /\ Graph(made) /\ TypeOK /\ Refs /\ RepoRefs /\ StoredRefs /\ linked /\ OnRemote /\ t \in DOMAIN repo
      /\ Len(made) \in Nat
  BY DEF Inv, Refs, Graph
<1>2. t \in Children /\ t \in Tracker /\ t # Root
  BY RemoteAssumption, TrackerIs
<1>3. PICK p \in Process : Host[p] = Home
  BY RemoteAssumption DEF Range
<1>4. PICK was0 : was0 = repo[t].main /\ was0 \in 1 .. Len(made)
  BY <1>1 DEF RepoRefs
<1>5. PICK parents \in SUBSET (1 .. Len(made)) : parents = {was0}
  BY <1>4
<1>6. PICK none \in Pins : none = <<>> /\ DOMAIN none = {}
  BY NoPins
<1>7. PICK told \in BOOLEAN : told = FALSE
  OBVIOUS
<1>8. made' = With(made, t, parents, none, told)
  BY <1>4, <1>5, <1>6, <1>7
<1>9. PICK new : new = Len(made) + 1
  OBVIOUS
<1>10. Adds(made, made', new, parents, none, told)
  <2>1. Fit(none, new)
    BY <1>6 DEF Fit
  <2> QED
    BY <1>1, <1>2, <1>8, <1>9, <2>1, WithIs
<1>11. Grows(made, made') /\ Len(made') = new /\ new \in 1 .. Len(made')
  BY <1>10 DEF Adds
<1>12. Graph(made') /\ new \in Nat /\ made'[new].behind \subseteq 1 .. Len(made') /\ made'[new].behind \subseteq Nat
       /\ 1 .. Len(made) \subseteq 1 .. Len(made')
  <2>1. Graph(made') /\ Len(made') \in Nat /\ 1 .. Len(made) \subseteq 1 .. Len(made')
    BY <1>1, <1>11, GoesOn
  <2> HIDE DEF Update
  <2>2. made'[new].behind \subseteq 1 .. Len(made')
    <3>1. PICK commits : commits = made' /\ Graph(commits) /\ new \in 1 .. Len(commits)
      BY <1>11, <2>1
    <3>2. commits[new].behind \subseteq 1 .. Len(commits)
      BY <3>1, CommitAt
    <3> QED
      BY <3>1, <3>2
  <2>3. PICK behind, all : /\ behind = made'[new].behind /\ all = 1 .. Len(made')
                          /\ behind \subseteq all /\ new \in all
    BY <1>11, <2>2
  <2>a. \A c \in all : c \in Nat
    BY <2>1, <2>3
  <2>4. behind \subseteq Nat
    BY <2>3, <2>a
  <2> QED
    BY <2>1, <2>3, <2>a, <2>4
<1>13. PICK r : r = [repo[t] EXCEPT !.main = new, !.holds = @ \union made'[new].behind]
  OBVIOUS
<1>14. r \in Repo /\ r.main = new /\ r.holds = repo[t].holds \union made'[new].behind
  BY <1>1, <1>12, <1>13, RepoType DEF Repo
<1>15. repo' = [repo EXCEPT ![t] = r]
  BY <1>1, <1>11, <1>13
<1>16. /\ repo' \in Maps(Repo) /\ DOMAIN repo' = DOMAIN repo /\ repo'[t] = r
       /\ \A u \in DOMAIN repo : u # t => repo'[u] = repo[u]
  BY <1>1, <1>14, <1>15, ExceptRepo
<1>17. RepoRefs'
  <2>1. r.holds \subseteq 1 .. Len(made')
    BY <1>1, <1>12, <1>14 DEF RepoRefs
  <2> QED
    BY <1>1, <1>11, <1>14, <1>16, <2>1, MoreRepo
<1>18. TypeOK'
  BY <1>1, <1>16, SpendIs DEF TypeOK, remote, local
<1>19. StoredRefs' /\ Others(p) /\ OpRefs(p)'
  BY <1>1, <1>11, StaysStored, StaysOp DEF Others, remote, Refs
<1>20. repo'[Root].main = repo[Root].main /\ Root \in DOMAIN repo
  BY <1>1, <1>2, <1>16 DEF OnRemote, IsIndex
<1>21. Runs(p)'
  <2>1. PICK head \in Roots : head = list[Root]
    BY <1>1 DEF OnRemote, IsIndex
  <2>2. head \in Roots' /\ Ancestor(head, head)' /\ list' = list
    BY <1>1, <1>11, <1>12, <2>1, IndexIs, GoesOn, AncestorThen DEF remote
  <2>3. Runs(p) /\ OpRefs(p) /\ op'[p] = op[p]
    BY <1>1 DEF Inv, Refs
  <2>4. DOMAIN repo \subseteq DOMAIN repo'
    BY <1>16
  <2> QED
    BY <1>1, <1>11, <2>1, <2>2, <2>3, <2>4, RunsGoesOn
<1> QED
  BY <1>1, <1>11, <1>16, <1>17, <1>18, <1>19, <1>20, <1>21, CommandThere DEF remote, local

LEMMA MirrorPullKeeps ==
    ASSUME Inv, NEW p \in Process, MirrorPull(p)
    PROVE  Inv'
<1>1. /\ Graph(made) /\ TypeOK /\ RepoRefs /\ StoredRefs /\ FollowRefs /\ linked /\ Host[p] \in Range(Host)
      /\ Spend("commands")
      /\ UNCHANGED <<inst, main, kept, linked, remote, repo, fork, follows, acked>>
  BY HostIs DEF Inv, Refs, MirrorPull
<1>2. PICK edit \in Edits[p], on \in was :
        LET commits == Edited(on, edit)
            theirs == Len(commits)
        IN  /\ Make(p, commits)
            /\ Becomes(p, IF edit.secret # {} THEN NoOp
                          ELSE [NoOp EXCEPT !.cmd = "pull", !.at = "merge", !.theirs = theirs])
  BY Zenon DEF MirrorPull
<1>3. on \in Roots /\ on \in 1 .. Len(made)
  BY <1>1, <1>2, IndexIs DEF FollowRefs
<1>4. PICK parents \in SUBSET (1 .. Len(made)) : parents = {on}
  BY <1>3
<1>5. NewRoot(made, made', {on}, edit.secret # {})
  BY <1>1, <1>2, <1>3, EditedIs DEF Make
<1>6. PICK new : new = Len(made')
  OBVIOUS
<1>7. Grows(made, made') /\ Graph(made') /\ new \in Roots' /\ new \in Nat /\ Len(made) \in Nat
  BY <1>1, <1>4, <1>5, <1>6, NewRootIs, GoesOn
<1>8. PICK record : record = [NoOp EXCEPT !.cmd = "pull", !.at = "merge", !.theirs = new]
  OBVIOUS
<1>9. /\ record \in Op /\ record.at = "merge" /\ record.cmd = "pull" /\ record.theirs = new
      /\ record.base = <<>> /\ record.heads = <<>> /\ record.moves = {}
  BY <1>7, <1>8, NoOpIs DEF Op
<1>10. Becomes(p, NoOp) \/ Becomes(p, record)
  BY <1>2, <1>6, <1>8 DEF Make
<1>11. op' \in [Process -> Op] /\ Others(p) /\ OpRefs(p)' /\ Runs(p)'
  <2>1. CASE Becomes(p, NoOp)
    BY <1>1, <2>1, StopIs DEF Stop
  <2>2. CASE Becomes(p, record)
    <3>1. op' \in [Process -> Op] /\ Others(p) /\ op'[p] = record
      BY <1>1, <1>9, <2>2, BecomesIs DEF TypeOK
    <3>2. OpRefs(p)'
      BY <1>7, <1>9, <3>1, NoPins DEF OpRefs, Tree, Names, NamesIn
    <3>3. Runs(p)'
      BY <1>9, <3>1 DEF Runs
    <3> QED
      BY <3>1, <3>2, <3>3
  <2> QED
    BY <1>10, <2>1, <2>2
<1>12. has' \in [Range(Host) -> SUBSET Nat]
  <2>1. PICK more : more = Len(made) + 1 .. Len(Edited(on, edit))
    OBVIOUS
  <2>2. made' = Edited(on, edit) /\ has' = [has EXCEPT ![Host[p]] = @ \union more]
    BY <1>2, <2>1 DEF Make
  <2>3. more \in SUBSET Nat
    BY <1>6, <1>7, <2>1, <2>2
  <2> QED
    BY <1>1, <2>2, <2>3, HasIs
<1>13. TypeOK'
  BY <1>1, <1>11, <1>12, SpendIs DEF TypeOK, remote
<1>14. RepoRefs' /\ StoredRefs'
  BY <1>1, <1>7, StaysRepo, StaysStored DEF remote
<1> QED
  BY <1>1, <1>7, <1>11, <1>13, <1>14, CommandThere DEF remote

LEMMA MergeSeedKeeps ==
    ASSUME Inv, linked, NEW p \in Process, MergeSeed(p)
    PROVE  Inv'
<1> USE DEF MergeSeed
<1>1. /\ Graph(made) /\ TypeOK /\ RepoRefs /\ StoredRefs /\ ~Idle(p)
      /\ UNCHANGED <<made, inst, local, linked, remote, fork, follows, acked, spent>>
  BY DEF Inv, Refs, Idle
<1>2. PICK o : /\ o = op[p] /\ o \in Op /\ OpRefs(p) /\ o.theirs \in Roots /\ o.at = "seed" /\ o.todo # <<>>
               /\ Runs(p) /\ OnRemote
  BY <1>1, Busied
<1>3. PICK merged \in Roots : merged = o.merged
  BY <1>2 DEF Runs
<1>4. PICK t : t = Head(o.todo)
  OBVIOUS
<1>5. /\ t \in Tracker /\ t \in Range(o.todo) /\ Tail(o.todo) \in Seq(Tracker)
      /\ Range(Tail(o.todo)) \subseteq Range(o.todo)
  <2>1. o.todo \in Seq(Tracker)
    BY <1>2 DEF Op
  <2> QED
    BY <1>2, <1>4, <2>1, HeadTailIs
<1>6. t \in DOMAIN Index(merged) \ DOMAIN o.base /\ t # Root
  <2>1. Range(o.todo) \subseteq DOMAIN Index(merged) \ DOMAIN o.base /\ IsIndex(o.base)
    BY <1>2, <1>3 DEF Runs
  <2> QED
    BY <1>5, <2>1 DEF IsIndex
<1>7. PICK c : c = Index(merged)[t]
  OBVIOUS
<1>8. c \in 1 .. Len(made) /\ c \in Nat /\ Len(made) \in Nat
  BY <1>1, <1>6, <1>7, IndexIs DEF NamesIn
<1>9. PICK r : r = IF t \in DOMAIN repo THEN repo[t] ELSE NewRepo
  OBVIOUS
<1>10. r \in Repo /\ r.holds \subseteq 1 .. Len(made)
  BY <1>1, <1>9, RepoType, NewRepoIs DEF RepoRefs
<1>11. CASE Stop(p) /\ repo' = repo
  BY <1>1, <1>11, StopKeeps DEF TypeOK
<1>12. PICK s : s = [r EXCEPT !.main = c, !.holds = @ \union Behind(c)]
  OBVIOUS
<1>13. s \in Repo /\ s.main = c /\ s.holds \subseteq 1 .. Len(made)
  BY <1>1, <1>8, <1>10, <1>12, BehindType DEF Repo
<1>14. CASE repo' = Put(repo, t, s) /\ Becomes(p, [o EXCEPT !.todo = Tail(@)])
  <2>1. Grows(made, made') /\ made' = made
    BY <1>1, SameGrows
  <2>2. /\ repo' \in Maps(Repo) /\ DOMAIN repo' = DOMAIN repo \union {t} /\ repo'[t] = s
        /\ \A u \in DOMAIN repo : u # t => repo'[u] = repo[u]
    BY <1>1, <1>5, <1>13, <1>14, PutRepo
  <2>3. RepoRefs' /\ StoredRefs'
    BY <1>1, <1>8, <1>13, <2>1, <2>2, MoreRepo, StaysStored DEF remote
  <2>4. PICK next : next = [o EXCEPT !.todo = Tail(@)]
    OBVIOUS
  <2>5. /\ next \in Op /\ next.todo = Tail(o.todo) /\ next.at = o.at /\ next.base = o.base
        /\ next.theirs = o.theirs /\ next.heads = o.heads /\ next.moves = o.moves /\ next.cmd = o.cmd
        /\ next.merged = merged
    BY <1>2, <1>3, <1>5, <2>4 DEF Op
  <2>6. op' \in [Process -> Op] /\ op'[p] = next /\ Others(p)
    BY <1>1, <1>14, <2>4, <2>5, BecomesIs DEF TypeOK
  <2>7. TypeOK'
    BY <1>1, <2>2, <2>6 DEF TypeOK, remote, local
  <2>8. OpRefs(p)'
    BY <1>2, <2>1, <2>5, <2>6, SameOpRefs
  <2>9. repo'[Root].main = repo[Root].main /\ DOMAIN repo \subseteq DOMAIN repo'
    BY <1>2, <1>6, <2>2 DEF OnRemote, IsIndex
  <2>10. Runs(p)'
    <3>1. Index(merged)' = Index(merged) /\ merged \in Roots'
      BY <2>1 DEF Index, Roots
    <3>2. /\ IsIndex(o.base)' /\ Ancestor(o.base[Root], list[Root])' /\ DOMAIN o.base \subseteq DOMAIN repo'
          /\ Ancestor(o.base[Root], merged)' /\ Ancestor(o.theirs, merged)'
      BY <1>1, <1>2, <1>3, <2>1, <2>9 DEF Runs, IsIndex, Index, Roots, Ancestor, Behind, remote
    <3>3. Range(next.todo) \subseteq DOMAIN Index(merged)' \ DOMAIN o.base
      BY <1>2, <1>3, <1>5, <2>5, <3>1 DEF Runs
    <3>4. o.cmd # "create" /\ o.at = "seed"
      BY <1>2 DEF Runs
    <3> QED
      BY <2>5, <2>6, <3>1, <3>2, <3>3, <3>4 DEF Runs
  <2> QED
    BY <1>1, <2>1, <2>3, <2>6, <2>7, <2>8, <2>9, <2>10, CommandThere DEF remote, local
<1> QED
  BY <1>2, <1>3, <1>4, <1>7, <1>9, <1>11, <1>12, <1>14

\* A command that has seeded goes on to land.
ToLand(p, writes, todo) ==
    /\ op[p].at = "seed" /\ writes \in SUBSET Tracker /\ todo \in SUBSET Tracker
    /\ \A t \in todo : t = Root \/ \E v \in op[p].moves : v.tracker = t
    /\ Becomes(p, [op[p] EXCEPT !.at = "land", !.writes = writes, !.todo = RootFirst(todo)])
LEMMA ToLandKeeps ==
    ASSUME Inv, linked, NEW p \in Process, NEW writes, NEW todo, ToLand(p, writes, todo),
           UNCHANGED <<made, inst, local, linked, list, was, stored, repo, fork, follows, acked, spent>>,
           pending' \in SUBSET [by : Process, root : Nat, writes : SUBSET Tracker]
    PROVE  Inv'
<1>1. /\ Graph(made) /\ TypeOK /\ RepoRefs /\ StoredRefs /\ ~Idle(p)
  BY DEF Inv, Refs, Idle, ToLand
<1>2. PICK o : o = op[p] /\ o \in Op /\ OpRefs(p) /\ o.theirs \in Roots /\ o.at = "seed" /\ Runs(p)
  BY <1>1, Busied DEF ToLand
<1>3. PICK merged \in Roots : merged = o.merged
  BY <1>2 DEF Runs
<1>4. Grows(made, made') /\ made' = made
  BY <1>1, SameGrows
<1>5. RepoRefs' /\ StoredRefs'
  BY <1>1, <1>4, StaysRepo, StaysStored
<1>6. RootFirst(todo) \in Seq(Tracker) /\ Range(RootFirst(todo)) = {Root} \union todo
  BY InOrderIs DEF ToLand
<1>7. PICK next : next = [o EXCEPT !.at = "land", !.writes = writes, !.todo = RootFirst(todo)]
  OBVIOUS
<1>8. /\ next \in Op /\ next.at = "land" /\ next.todo = RootFirst(todo) /\ next.base = o.base
      /\ next.theirs = o.theirs /\ next.heads = o.heads /\ next.moves = o.moves /\ next.cmd = o.cmd
      /\ next.merged = merged
  BY <1>2, <1>3, <1>6, <1>7 DEF Op, ToLand
<1>9. op' \in [Process -> Op] /\ op'[p] = next /\ Others(p)
  BY <1>1, <1>2, <1>7, <1>8, BecomesIs DEF TypeOK, ToLand
<1>10. TypeOK'
  BY <1>1, <1>9 DEF TypeOK, local
<1>11. OpRefs(p)'
  BY <1>2, <1>4, <1>8, <1>9, SameOpRefs
<1>12. Runs(p)'
  <2>1. /\ IsIndex(o.base)' /\ Ancestor(o.base[Root], list[Root])' /\ DOMAIN o.base \subseteq DOMAIN repo'
        /\ Ancestor(o.base[Root], merged)' /\ Ancestor(o.theirs, merged)' /\ merged \in Roots'
    BY <1>2, <1>3 DEF Runs, IsIndex, Index, Roots, Ancestor, Behind
  <2>2. \A t \in Range(next.todo) : t = Root \/ \E v \in next.moves : v.tracker = t
    BY <1>2, <1>6, <1>8 DEF ToLand
  <2>3. o.cmd # "create"
    BY <1>2 DEF Runs
  <2> QED
    BY <1>8, <1>9, <2>1, <2>2, <2>3 DEF Runs
<1> QED
  BY <1>4, <1>5, <1>9, <1>10, <1>11, <1>12, CommandThere DEF local

LEMMA MovedType ==
    ASSUME Graph(made), NEW r \in Roots, NEW base
    PROVE  Moved(base, Index(r)) \subseteq Tracker
<1>1. DOMAIN Index(r) \subseteq Tracker
  BY IndexIs, PinsOf
<1> QED
  BY <1>1 DEF Moved

LEMMA MergeBeginKeeps ==
    ASSUME Inv, linked, NEW p \in Process, MergeBegin(p)
    PROVE  Inv'
<1> DEFINE index == Index(op[p].merged)
           writes == {Root} \union {t \in Moved(op[p].base, index) \ {Root} :
                                       t \in DOMAIN op[p].base /\ ~OnMain(t, index[t])}
           todo == {Root} \union {v.tracker : v \in {u \in op[p].moves : u.tracker \in writes}}
<1>1. /\ Graph(made) /\ TypeOK /\ ~Idle(p) /\ op[p].at = "seed"
      /\ UNCHANGED <<made, inst, local, linked, list, was, stored, repo, fork, follows, acked, spent>>
  BY DEF Inv, Refs, Idle, MergeBegin
<1>2. op[p] \in Op /\ op[p].merged \in Roots
  <2>1. op[p] \in Op /\ Runs(p)
    BY <1>1, Busied
  <2> QED
    BY <1>1, <2>1 DEF Runs
<1>3. writes \in SUBSET Tracker
  BY <1>1, <1>2, MovedType, TrackerIs
<1>4. todo \in SUBSET Tracker
  <2>1. op[p].moves \in SUBSET Move
    BY <1>2 DEF Op
  <2>2. \A v \in op[p].moves : v.tracker \in Tracker
    BY <2>1, TrackerIs DEF Move
  <2> QED
    BY <2>2, TrackerIs
<1>5. \A t \in todo : t = Root \/ \E v \in op[p].moves : v.tracker = t
  OBVIOUS
<1>6. \/ Stop(p) /\ pending' = pending
      \/ /\ \E stale \in {{}, pending} :
               pending' = (pending \ stale) \union {[by |-> p, root |-> op[p].merged, writes |-> writes]}
         /\ Becomes(p, [op[p] EXCEPT !.at = "land", !.writes = writes, !.todo = RootFirst(todo)])
  BY Zenon DEF MergeBegin
<1> HIDE DEF writes, todo
<1>7. CASE Stop(p) /\ pending' = pending
  BY <1>1, <1>7, StopKeeps DEF TypeOK, remote
<1>8. CASE /\ \E stale \in {{}, pending} :
                  pending' = (pending \ stale) \union {[by |-> p, root |-> op[p].merged, writes |-> writes]}
           /\ Becomes(p, [op[p] EXCEPT !.at = "land", !.writes = writes, !.todo = RootFirst(todo)])
  <2>1. PICK x : x = [by |-> p, root |-> op[p].merged, writes |-> writes]
    OBVIOUS
  <2>2. op[p].merged \in Nat
    BY <1>2 DEF Op
  <2>3. x \in [by : Process, root : Nat, writes : SUBSET Tracker]
    BY <1>3, <2>1, <2>2
  <2>4. pending' \in SUBSET [by : Process, root : Nat, writes : SUBSET Tracker]
    BY <1>1, <1>8, <2>1, <2>3 DEF TypeOK
  <2>5. ToLand(p, writes, todo)
    BY <1>1, <1>3, <1>4, <1>5, <1>8, Zenon DEF ToLand
  <2> QED
    BY <1>1, <2>4, <2>5, ToLandKeeps
<1> QED
  BY <1>6, <1>7, <1>8

LEMMA MirrorLandKeeps ==
    ASSUME Inv, linked, NEW p \in Process, MirrorLand(p)
    PROVE  Inv'
<1> DEFINE writes == {Root} \union {v.tracker : v \in op[p].moves}
<1>1. /\ Graph(made) /\ TypeOK /\ ~Idle(p) /\ op[p].at = "seed"
      /\ UNCHANGED <<made, inst, local, linked, remote, repo, fork, follows, acked, spent>>
  BY DEF Inv, Refs, Idle, MirrorLand
<1>2. op[p] \in Op
  BY <1>1, Busied
<1>3. writes \in SUBSET Tracker
  <2>1. op[p].moves \in SUBSET Move
    BY <1>2 DEF Op
  <2>2. \A v \in op[p].moves : v.tracker \in Tracker
    BY <2>1, TrackerIs DEF Move
  <2> QED
    BY <2>2, TrackerIs
<1>4. \A t \in writes : t = Root \/ \E v \in op[p].moves : v.tracker = t
  OBVIOUS
<1>5. \/ Stop(p)
      \/ Becomes(p, [op[p] EXCEPT !.at = "land", !.writes = writes, !.todo = RootFirst(writes)])
  BY Zenon DEF MirrorLand
<1> HIDE DEF writes
<1>6. CASE Stop(p)
  BY <1>1, <1>6, StopKeeps DEF TypeOK
<1>7. CASE Becomes(p, [op[p] EXCEPT !.at = "land", !.writes = writes, !.todo = RootFirst(writes)])
  <2>1. pending' \in SUBSET [by : Process, root : Nat, writes : SUBSET Tracker]
    BY <1>1 DEF TypeOK, remote
  <2>2. list' = list /\ was' = was /\ stored' = stored
    BY <1>1 DEF remote
  <2>3. ToLand(p, writes, writes)
    BY <1>1, <1>3, <1>4, <1>7, Zenon DEF ToLand
  <2> QED
    BY <1>1, <2>1, <2>2, <2>3, ToLandKeeps
<1> QED
  BY <1>5, <1>6, <1>7

\* The commit a tracker's landing ref is for.
LEMMA MoveOfIs ==
    ASSUME NEW o, NEW t, NEW v \in o.moves, v.tracker = t
    PROVE  MoveOf(o, t) \in o.moves /\ MoveOf(o, t).tracker = t
  BY DEF MoveOf

LEMMA LandNextKeeps ==
    ASSUME Inv, linked, NEW p \in Process, LandNext(p)
    PROVE  Inv'
<1>1. /\ Graph(made) /\ TypeOK /\ RepoRefs /\ StoredRefs /\ ~Idle(p) /\ op[p].at = "land" /\ op[p].todo # <<>>
      /\ UNCHANGED <<made, inst, local, linked, remote, fork, follows, acked, spent>>
  BY DEF Inv, Refs, Idle, LandNext
<1>2. PICK o : /\ o = op[p] /\ o \in Op /\ OpRefs(p) /\ o.theirs \in Roots /\ o.at = "land" /\ o.todo # <<>>
               /\ Runs(p) /\ OnRemote
  BY <1>1, Busied
<1>3. PICK merged \in Roots : merged = o.merged
  BY <1>2 DEF Runs
<1>4. PICK t : t = Head(o.todo)
  OBVIOUS
<1>5. /\ t \in Tracker /\ t \in Range(o.todo) /\ Tail(o.todo) \in Seq(Tracker)
      /\ Range(Tail(o.todo)) \subseteq Range(o.todo)
  <2>1. o.todo \in Seq(Tracker)
    BY <1>2 DEF Op
  <2> QED
    BY <1>2, <1>4, <2>1, HeadTailIs
<1>6. PICK c : c = IF t = Root THEN o.merged ELSE MoveOf(o, t).new
  OBVIOUS
<1>7. c \in 1 .. Len(made)
  <2>1. CASE t = Root
    BY <1>1, <1>3, <1>6, <2>1, IndexIs
  <2>2. CASE t # Root
    <3>1. PICK v \in o.moves : v.tracker = t
      BY <1>2, <1>5, <2>2 DEF Runs
    <3>2. MoveOf(o, t) \in o.moves
      BY <3>1, MoveOfIs
    <3> QED
      BY <1>2, <1>6, <2>2, <3>2 DEF OpRefs
  <2> QED
    BY <2>1, <2>2
<1>8. /\ repo' = [repo EXCEPT ![t].landing = @ \union {c}, ![t].holds = @ \union Behind(c)]
      /\ Becomes(p, [o EXCEPT !.todo = Tail(@)])
  BY <1>2, <1>4, <1>6 DEF LandNext
<1>9. Grows(made, made') /\ made' = made
  BY <1>1, SameGrows
<1>10. /\ repo' \in Maps(Repo) /\ DOMAIN repo' = DOMAIN repo /\ RepoRefs'
       /\ \A u \in DOMAIN repo : repo'[u].main = repo[u].main
  <2>1. CASE t \in DOMAIN repo
    <3>1. PICK r : r = repo[t] /\ r \in Repo /\ r.main \in 1 .. Len(made) /\ r.holds \subseteq 1 .. Len(made)
      BY <1>1, <2>1, RepoType DEF RepoRefs
    <3>2. PICK s : s = [r EXCEPT !.landing = @ \union {c}, !.holds = @ \union Behind(c)]
      OBVIOUS
    <3>3. Behind(c) \subseteq 1 .. Len(made) /\ Behind(c) \subseteq Nat /\ c \in Nat
      BY <1>1, <1>7, BehindType
    <3>4. s \in Repo /\ s.main = r.main /\ s.holds \subseteq 1 .. Len(made)
      BY <3>1, <3>2, <3>3 DEF Repo
    <3>5. repo' = [repo EXCEPT ![t] = s]
      BY <1>8, <2>1, <3>1, <3>2
    <3>6. /\ repo' \in Maps(Repo) /\ DOMAIN repo' = DOMAIN repo /\ repo'[t] = s
          /\ \A u \in DOMAIN repo : u # t => repo'[u] = repo[u]
      BY <1>1, <2>1, <3>4, <3>5, ExceptRepo
    <3>7. RepoRefs'
      BY <1>1, <1>9, <3>1, <3>4, <3>6, MoreRepo
    <3> QED
      BY <3>1, <3>4, <3>6, <3>7
  <2>2. CASE t \notin DOMAIN repo
    <3>1. PICK D \in SUBSET Tracker : repo \in [D -> Repo] /\ DOMAIN repo = D
      BY <1>1 DEF TypeOK, Maps
    <3>2. repo' = repo
      BY <1>8, <2>2, <3>1
    <3> QED
      BY <1>1, <1>9, <3>2, StaysRepo DEF TypeOK
  <2> QED
    BY <2>1, <2>2
<1>11. PICK next : next = [o EXCEPT !.todo = Tail(@)]
  OBVIOUS
<1>12. /\ next \in Op /\ next.todo = Tail(o.todo) /\ next.at = o.at /\ next.base = o.base
       /\ next.theirs = o.theirs /\ next.heads = o.heads /\ next.moves = o.moves /\ next.cmd = o.cmd
       /\ next.merged = merged
  BY <1>2, <1>3, <1>5, <1>11 DEF Op
<1>13. op' \in [Process -> Op] /\ op'[p] = next /\ Others(p)
  BY <1>1, <1>8, <1>11, <1>12, BecomesIs DEF TypeOK
<1>14. TypeOK'
  BY <1>1, <1>10, <1>13 DEF TypeOK, remote, local
<1>15. OpRefs(p)'
  BY <1>2, <1>9, <1>12, <1>13, SameOpRefs
<1>16. Runs(p)'
  <2>1. /\ IsIndex(o.base)' /\ Ancestor(o.base[Root], list[Root])' /\ DOMAIN o.base \subseteq DOMAIN repo'
        /\ Ancestor(o.base[Root], merged)' /\ Ancestor(o.theirs, merged)' /\ merged \in Roots'
    BY <1>1, <1>2, <1>3, <1>10 DEF Runs, IsIndex, Index, Roots, Ancestor, Behind, remote
  <2>2. \A u \in Range(next.todo) : u = Root \/ \E v \in next.moves : v.tracker = u
    BY <1>2, <1>5, <1>12 DEF Runs
  <2>3. o.cmd # "create"
    BY <1>2 DEF Runs
  <2> QED
    BY <1>2, <1>12, <1>13, <2>1, <2>2, <2>3 DEF Runs
<1>17. StoredRefs' /\ repo'[Root].main = repo[Root].main
  BY <1>1, <1>2, <1>9, <1>10, StaysStored DEF remote, OnRemote, IsIndex
<1> QED
  BY <1>1, <1>9, <1>10, <1>13, <1>14, <1>15, <1>16, <1>17, CommandThere DEF remote, local

LEMMA FinishKeeps ==
    ASSUME Inv, linked, NEW p \in Process, Finish(p)
    PROVE  Inv'
<1>1. /\ Graph(made) /\ TypeOK /\ Refs /\ InstRefs /\ MainRefs /\ FollowRefs /\ RepoRefs /\ StoredRefs
      /\ ~Idle(p) /\ op[p].at = "land" /\ Home \in Range(Host)
      /\ UNCHANGED <<made, inst, local, linked, stored, repo, fork, acked, spent>>
  BY HostIs DEF Inv, Refs, Idle, Finish
<1>2. PICK o : /\ o = op[p] /\ o \in Op /\ OpRefs(p) /\ o.theirs \in Roots /\ o.at = "land"
               /\ Runs(p) /\ OnRemote
  BY <1>1, Busied
<1>3. PICK merged \in Roots : merged = o.merged
  BY <1>2 DEF Runs
<1>4. PICK begun : begun = {x \in pending : x.by = p /\ x.root = o.merged}
  OBVIOUS
<1>5. PICK asked : asked = {v \in o.moves : v.tracker \in o.writes}
  OBVIOUS
<1>6. PICK index : index = Index(merged)
  OBVIOUS
<1>7. PICK landing : landing = [by |-> p, moves |-> asked, at |-> "read", held |-> 0, head |-> 0,
                                drop |-> {}, tries |-> 0]
  OBVIOUS
<1>8. \/ Stop(p) /\ UNCHANGED <<list, was, pending, follows>>
      \/ /\ (IndexHolds(merged) /\ Swappable(o.base, index)) \/ list = index
         /\ list' = index /\ was' = was \union {merged} /\ pending' = pending \ begun
         /\ follows' = follows \union {landing}
         /\ GoOn(p, "wait")
  BY <1>2, <1>3, <1>4, <1>5, <1>6, <1>7 DEF Finish
<1>9. CASE Stop(p) /\ UNCHANGED <<list, was, pending, follows>>
  BY <1>1, <1>9, StopKeeps DEF TypeOK, remote
<1>10. CASE /\ (IndexHolds(merged) /\ Swappable(o.base, index)) \/ list = index
            /\ list' = index /\ was' = was \union {merged} /\ pending' = pending \ begun
            /\ follows' = follows \union {landing}
            /\ GoOn(p, "wait")
  <2>1. Grows(made, made') /\ made' = made /\ Graph(made')
    BY <1>1, SameGrows
  <2>2. /\ merged \in 1 .. Len(made) /\ merged \in Nat /\ index \in Pins /\ Tree(index)
        /\ Root \in DOMAIN index /\ index[Root] = merged /\ IsIndex(index)
    BY <1>1, <1>3, <1>6, IndexIs DEF IsIndex
  <2>3. PICK head \in Roots : head = list[Root] /\ Root \in DOMAIN list /\ list = Index(head)
    BY <1>2 DEF OnRemote, IsIndex
  <2>4. head \in 1 .. Len(made)
    BY <1>1, <2>3, IndexIs
  <2>5. Ancestor(head, merged)
    <3>1. CASE IndexHolds(merged) /\ Swappable(o.base, index)
      <4>1. PICK base : base = o.base /\ IsIndex(base) /\ Ancestor(base[Root], merged)
        BY <1>2, <1>3 DEF Runs
      <4>2. At(list, Root) = At(base, Root)
        BY <3>1, <4>1 DEF Swappable
      <4>3. head = base[Root]
        BY <2>3, <4>1, <4>2 DEF At, IsIndex
      <4> QED
        BY <4>1, <4>3
    <3>2. CASE list = index
      BY <1>1, <2>2, <2>3, <3>2, AncestorIs
    <3> QED
      BY <1>10, <3>1, <3>2
  <2>6. DOMAIN index \subseteq DOMAIN repo
    BY <1>2, <1>6, <1>10 DEF IndexHolds, OnRemote
  <2>7. /\ op' \in [Process -> Op] /\ Others(p) /\ op'[p].at = "wait" /\ op'[p].cmd = o.cmd
        /\ op'[p].merged = merged /\ op'[p].theirs = o.theirs
        /\ OpRefs(p)'
    BY <1>1, <1>2, <1>3, <1>10, <2>1, GoOnIs, SameOpRefs
  <2>8. list'[Root] = merged /\ Ancestor(head, merged)' /\ merged \in Roots' /\ Ancestor(merged, merged)'
    BY <1>1, <1>3, <1>10, <2>1, <2>2, <2>5, AncestorIs DEF Ancestor, Behind, Roots
  <2>9. Runs(p)'
    <3>1. Ancestor(o.theirs, merged)' /\ o.cmd # "create"
      BY <1>2, <1>3, <2>1 DEF Runs, Ancestor, Behind
    <3> QED
      BY <2>7, <2>8, <3>1 DEF Runs
  <2>10. ASSUME NEW q \in Process PROVE Runs(q)'
    <3>1. CASE q = p
      BY <2>9, <3>1
    <3>2. CASE q # p
      <4>1. op'[q] = op[q] /\ OpRefs(q) /\ Runs(q)
        BY <1>1, <2>7, <3>2 DEF Others, Inv, Refs
      <4>2. DOMAIN repo \subseteq DOMAIN repo'
        BY <1>1
      <4> QED
        BY <1>1, <2>1, <2>3, <2>8, <4>1, <4>2, RunsGoesOn
    <3> QED
      BY <3>1, <3>2
  <2>11. landing.at = "read" /\ landing.moves = asked /\ asked \subseteq o.moves
    BY <1>5, <1>7
  <2>12. OnRemote'
    <3>1. IsIndex(list)'
      BY <1>10, <2>1, <2>2 DEF IsIndex, Roots, Index
    <3>2. DOMAIN list' \subseteq DOMAIN repo' /\ list'[Root] \in was' /\ repo'[Root].main \in was'
      BY <1>1, <1>2, <1>10, <2>6, <2>8 DEF OnRemote
    <3>3. ASSUME NEW w \in was' PROVE Ancestor(w, merged)'
      <4>1. CASE w \in was
        <5>1. Ancestor(w, head)
          BY <1>2, <2>3, <4>1 DEF OnRemote
        <5>2. Ancestor(w, merged)
          BY <1>1, <2>2, <2>5, <5>1, AncestorIs
        <5> QED
          BY <1>1, <2>1, <2>2, <5>2, AncestorGoesOn
      <4>2. CASE w = merged
        BY <2>8, <4>2
      <4> QED
        BY <1>10, <4>1, <4>2
    <3>4. ASSUME NEW f \in follows', f.at = "move"
          PROVE  /\ f.head \in was' /\ f.held \in was'
                 /\ Ancestor(f.held, f.head)' /\ Ancestor(f.held, repo[Root].main)'
      <4>1. f \in follows
        BY <1>10, <2>11, <3>4
      <4>2. /\ f.head \in was /\ f.held \in was
            /\ Ancestor(f.held, f.head) /\ Ancestor(f.held, repo[Root].main)
        BY <1>2, <3>4, <4>1 DEF OnRemote
      <4> QED
        BY <1>1, <1>10, <2>1, <4>2 DEF Ancestor, Behind
    <3> QED
      BY <2>8, <3>1, <3>2, <3>3, <3>4 DEF OnRemote
  <2>13. FollowRefs'
    <3>1. was' \subseteq Roots'
      BY <1>1, <1>3, <1>10, <2>1 DEF FollowRefs, Roots
    <3>2. \A v \in asked : v.new \in 1 .. Len(made')
      BY <1>2, <2>1, <2>11 DEF OpRefs
    <3>3. \A f \in follows : \A v \in f.moves : v.new \in 1 .. Len(made')
      BY <1>1, <2>1 DEF FollowRefs
    <3>4. \A f \in follows' : f \in follows \/ f = landing
      BY <1>10
    <3> QED
      BY <2>11, <3>1, <3>2, <3>3, <3>4 DEF FollowRefs
  <2>14. Refs'
    <3>1. InstRefs' /\ MainRefs' /\ StoredRefs' /\ RepoRefs'
      BY <1>1, <2>1, StaysInst, StaysTree, StaysStored, StaysRepo DEF local
    <3> QED
      BY <1>1, <2>1, <2>7, <2>13, <3>1, RefsStep
  <2>15. NothingLost'
    <3>1. head = Truth /\ merged = Truth'
      BY <1>1, <2>3, <2>8 DEF Truth
    <3>2. merged \in {0} \union (1 .. Len(made'))
      BY <2>1, <2>2
    <3> QED
      BY <1>1, <2>1, <2>8, <3>1, <3>2, StaysFound
  <2>16. TypeOK'
    <3>1. asked \in SUBSET Move
      BY <1>2, <2>11 DEF Op
    <3>2. landing \in Landing
      BY <1>7, <3>1 DEF Landing
    <3>3. /\ list' \in Pins /\ was' \in SUBSET Nat /\ follows' \in SUBSET Landing
          /\ pending' \in SUBSET [by : Process, root : Nat, writes : SUBSET Tracker]
      BY <1>1, <1>10, <2>2, <3>2 DEF TypeOK
    <3> QED
      BY <1>1, <2>7, <3>3 DEF TypeOK, local
  <2> QED
    BY <1>1, <2>1, <2>10, <2>12, <2>14, <2>15, <2>16 DEF Inv
<1> QED
  BY <1>8, <1>9, <1>10

-----------------------------------------------------------------------------
(* The remote follows a landing.                                           *)

\* A follow's step moves refs, and at its end its client's command.
LEMMA FollowThere ==
    ASSUME Inv, linked, NEW p \in Process, Others(p),
           UNCHANGED <<made, inst, local, linked, remote, acked>>,
           TypeOK', DOMAIN repo' = DOMAIN repo, RepoRefs', FollowRefs', OpRefs(p)', Runs(p)', OnRemote'
    PROVE  Inv'
<1>1. /\ Graph(made) /\ Refs /\ InstRefs /\ MainRefs /\ StoredRefs /\ Home \in Range(Host) /\ OnRemote
      /\ \A q \in Process : Runs(q) /\ OpRefs(q)
  BY HostIs DEF Inv, Refs
<1>2. Grows(made, made') /\ Graph(made') /\ made' = made
  BY <1>1, SameGrows
<1>3. InstRefs' /\ MainRefs' /\ StoredRefs'
  BY <1>1, <1>2, StaysInst, StaysTree, StaysStored DEF local, remote
<1>4. Refs'
  BY <1>1, <1>2, <1>3, RefsStep
<1>5. NothingLost'
  BY <1>1, <1>2, SameTruth DEF local, remote
<1>6. ASSUME NEW q \in Process PROVE Runs(q)'
  <2>1. CASE q = p
    BY <2>1
  <2>2. CASE q # p
    <3>1. PICK head \in Roots : head = list[Root] /\ head = list'[Root]
      BY <1>1 DEF OnRemote, IsIndex, remote
    <3>2. head \in Roots' /\ Ancestor(head, head)'
      BY <1>1, <1>2, <3>1, IndexIs, GoesOn, AncestorThen
    <3>3. op'[q] = op[q] /\ DOMAIN repo \subseteq DOMAIN repo'
      BY <2>2 DEF Others
    <3> QED
      BY <1>1, <1>2, <3>1, <3>2, <3>3, RunsGoesOn
  <2> QED
    BY <2>1, <2>2
<1> QED
  BY <1>2, <1>4, <1>5, <1>6 DEF Inv

LEMMA SameRuns ==
    ASSUME Inv, linked, NEW p \in Process, op' = op, made' = made, list' = list, DOMAIN repo' = DOMAIN repo
    PROVE  Others(p) /\ OpRefs(p)' /\ Runs(p)'
<1>1. Graph(made) /\ OpRefs(p) /\ Runs(p) /\ OnRemote
  BY DEF Inv, Refs
<1>2. Grows(made, made') /\ Graph(made')
  BY <1>1, SameGrows
<1>3. PICK head \in Roots : head = list[Root] /\ head = list'[Root]
  BY <1>1 DEF OnRemote, IsIndex
<1>4. head \in Roots' /\ Ancestor(head, head)' /\ op'[p] = op[p] /\ DOMAIN repo \subseteq DOMAIN repo'
  BY <1>1, <1>2, <1>3, IndexIs, GoesOn, AncestorThen
<1> QED
  BY <1>1, <1>2, <1>3, <1>4, StaysOp, RunsGoesOn DEF Others

\* A landing that follows is one of a project on its remote.
LEMMA FollowIs ==
    ASSUME Inv, NEW f \in follows
    PROVE  /\ linked /\ OnRemote /\ f \in Landing /\ f.by \in Process
           /\ \A v \in f.moves : v \in Move /\ v.new \in 1 .. Len(made)
<1>1. linked
  BY DEF Inv, AtHome
<1>2. f \in Landing
  BY DEF Inv, TypeOK
<1>3. f.by \in Process /\ f.moves \in SUBSET Move
  BY <1>2 DEF Landing
<1> QED
  BY <1>1, <1>2, <1>3 DEF Inv, Refs, FollowRefs

LEMMA FollowReadKeeps ==
    ASSUME Inv, NEW f \in follows, FollowRead(f)
    PROVE  Inv'
<1>1. /\ Graph(made) /\ TypeOK /\ RepoRefs /\ FollowRefs /\ linked /\ OnRemote /\ f \in Landing
      /\ UNCHANGED <<made, inst, local, linked, remote, repo, fork, op, acked, spent>>
  BY FollowIs DEF Inv, Refs, FollowRead
<1>2. PICK p \in Process : p = f.by
  BY FollowIs
<1>3. Grows(made, made') /\ made' = made
  BY <1>1, SameGrows
<1>4. PICK head, held : /\ head = list[Root] /\ held = repo[Root].main /\ head \in was /\ held \in was
                        /\ held \in 1 .. Len(made) /\ Ancestor(held, head)
  BY <1>1 DEF OnRemote, RepoRefs, IsIndex
<1>5. PICK landed : landed = repo[Root].landing \intersect (was \union {head})
  OBVIOUS
<1>6. landed \in SUBSET Nat /\ head \in Nat /\ held \in Nat
  BY <1>1, <1>4, <1>5 DEF TypeOK
<1>7. PICK g : /\ follows' = (follows \ {f}) \union {g}
               /\ \/ g = [f EXCEPT !.at = "moves"]
                  \/ g = [f EXCEPT !.at = "move", !.head = head, !.held = held, !.drop = landed]
  BY <1>4, <1>5 DEF FollowRead, Following
<1>8. /\ g \in Landing /\ g.moves = f.moves
      /\ g.at = "move" => g.head = head /\ g.held = held
  BY <1>1, <1>6, <1>7 DEF Landing
<1>9. TypeOK'
  BY <1>1, <1>7, <1>8 DEF TypeOK, local, remote
<1>10. FollowRefs'
  <2>1. was' = was /\ \A h \in follows' : h \notin follows => h = g
    BY <1>1, <1>7 DEF remote
  <2>2. \A v \in g.moves : v.new \in 1 .. Len(made')
    BY <1>3, <1>8, FollowIs
  <2> QED
    BY <1>1, <1>3, <2>1, <2>2, StaysFollow
<1>11. OnRemote'
  <2>1. ASSUME NEW h \in follows', h.at = "move"
        PROVE  /\ h.head \in was /\ h.held \in was
               /\ Ancestor(h.held, h.head) /\ Ancestor(h.held, repo[Root].main)
    <3>1. CASE h = g
      <4>1. Ancestor(held, held)
        BY <1>1, <1>4, AncestorIs
      <4> QED
        BY <1>4, <1>8, <2>1, <3>1, <4>1
    <3>2. CASE h # g
      BY <1>1, <1>7, <2>1, <3>2 DEF OnRemote
    <3> QED
      BY <3>1, <3>2
  <2>2. list' = list /\ was' = was /\ repo' = repo
    BY <1>1 DEF remote
  <2> QED
    BY <1>1, <1>3, <2>1, <2>2 DEF OnRemote, IsIndex, Index, Roots, Ancestor, Behind
<1>12. Others(p) /\ OpRefs(p)' /\ Runs(p)'
  <2>1. op' = op /\ list' = list /\ DOMAIN repo' = DOMAIN repo
    BY <1>1 DEF remote
  <2> QED
    BY <1>1, <1>3, <2>1, SameRuns
<1>13. RepoRefs'
  BY <1>1, <1>3, StaysRepo
<1> QED
  BY <1>1, <1>9, <1>10, <1>11, <1>12, <1>13, FollowThere

LEMMA FollowMoveKeeps ==
    ASSUME Inv, NEW f \in follows, FollowMove(f)
    PROVE  Inv'
<1>1. /\ Graph(made) /\ TypeOK /\ RepoRefs /\ FollowRefs /\ linked /\ OnRemote /\ f \in Landing /\ f.at = "move"
      /\ UNCHANGED <<made, inst, local, linked, remote, fork, op, acked, spent>>
  BY FollowIs DEF Inv, Refs, FollowMove
<1>2. PICK p \in Process : p = f.by
  BY FollowIs
<1>3. Grows(made, made') /\ made' = made
  BY <1>1, SameGrows
<1>4. Root \in DOMAIN repo
  BY <1>1 DEF OnRemote, IsIndex
<1>5. PICK head, held : /\ head = f.head /\ held = f.held /\ head \in was /\ held \in was
                        /\ Ancestor(held, head) /\ Ancestor(held, repo[Root].main)
  BY <1>1 DEF OnRemote
<1>6. head \in 1 .. Len(made) /\ held \in 1 .. Len(made) /\ head \in Nat /\ held \in Nat
  BY <1>1, <1>5, IndexIs DEF FollowRefs
<1>7. PICK r : r = repo[Root] /\ r \in Repo /\ r.main \in was /\ r.main \in 1 .. Len(made) /\ r.holds \subseteq 1 .. Len(made)
  BY <1>1, <1>4, RepoType DEF RepoRefs, OnRemote
<1>8. PICK s : s = [r EXCEPT !.main = IF r.main = held THEN head ELSE @, !.landing = @ \ f.drop,
                             !.stray = IF held \in was \union {0, head} THEN @ ELSE @ \union {held}]
  OBVIOUS
<1>9. s \in Repo /\ s.main = (IF r.main = held THEN head ELSE r.main) /\ s.holds = r.holds
  BY <1>6, <1>7, <1>8 DEF Repo
<1>10. repo' = [repo EXCEPT ![Root] = s]
  BY <1>5, <1>7, <1>8 DEF FollowMove, Unmoved
<1>11. /\ repo' \in Maps(Repo) /\ DOMAIN repo' = DOMAIN repo /\ repo'[Root] = s
       /\ \A u \in DOMAIN repo : u # Root => repo'[u] = repo[u]
  BY <1>1, <1>4, <1>9, <1>10, ExceptRepo
<1>12. PICK branch : branch = s.main /\ branch = repo'[Root].main /\ branch \in was /\ branch \in 1 .. Len(made)
  BY <1>5, <1>6, <1>7, <1>9, <1>11
<1>13. RepoRefs'
  BY <1>1, <1>3, <1>7, <1>9, <1>11, <1>12, MoreRepo
<1>14. PICK g : /\ follows' = (follows \ {f}) \union {g}
                /\ g = [f EXCEPT !.at = "read", !.tries = @ + 1] \/ g = [f EXCEPT !.at = "moves"]
  BY DEF FollowMove, Following
<1>15. g \in Landing /\ g.moves = f.moves /\ g.at # "move"
  <2>1. CASE g = [f EXCEPT !.at = "moves"]
    BY <1>1, <2>1 DEF Landing
  <2>2. CASE g = [f EXCEPT !.at = "read", !.tries = @ + 1]
    <3>1. PICK tries \in Nat : tries = f.tries
      BY <1>1 DEF Landing
    <3>2. PICK more \in Nat : more = tries + 1
      OBVIOUS
    <3>3. g = [f EXCEPT !.at = "read", !.tries = more]
      BY <2>2, <3>1, <3>2
    <3> QED
      BY <1>1, <3>2, <3>3 DEF Landing
  <2> QED
    BY <1>14, <2>1, <2>2
<1>16. TypeOK'
  BY <1>1, <1>11, <1>14, <1>15 DEF TypeOK, local, remote
<1>17. FollowRefs'
  <2>1. was' = was /\ \A h \in follows' : h \notin follows => h = g
    BY <1>1, <1>14 DEF remote
  <2>2. \A v \in g.moves : v.new \in 1 .. Len(made')
    BY <1>3, <1>15, FollowIs
  <2> QED
    BY <1>1, <1>3, <2>1, <2>2, StaysFollow
<1>18. OnRemote'
  <2>1. ASSUME NEW a, Ancestor(a, repo[Root].main) PROVE Ancestor(a, branch)
    <3>1. CASE r.main = held
      <4>1. Ancestor(a, held) /\ branch = head
        BY <1>7, <1>9, <1>12, <2>1, <3>1
      <4> QED
        BY <1>1, <1>5, <1>6, <4>1, AncestorIs
    <3>2. CASE r.main # held
      BY <1>7, <1>9, <1>12, <2>1, <3>2
    <3> QED
      BY <3>1, <3>2
  <2>2. ASSUME NEW h \in follows', h.at = "move"
        PROVE  /\ h.head \in was /\ h.held \in was
               /\ Ancestor(h.held, h.head) /\ Ancestor(h.held, branch)
    BY <1>1, <1>14, <1>15, <2>1, <2>2 DEF OnRemote
  <2>3. list' = list /\ was' = was
    BY <1>1 DEF remote
  <2> QED
    BY <1>1, <1>3, <1>11, <1>12, <2>2, <2>3 DEF OnRemote, IsIndex, Index, Roots, Ancestor, Behind
<1>19. Others(p) /\ OpRefs(p)' /\ Runs(p)'
  <2>1. op' = op /\ list' = list
    BY <1>1 DEF remote
  <2> QED
    BY <1>1, <1>3, <1>11, <2>1, SameRuns
<1> QED
  BY <1>1, <1>11, <1>13, <1>16, <1>17, <1>18, <1>19, FollowThere

LEMMA FollowChildKeeps ==
    ASSUME Inv, NEW f \in follows, FollowChild(f)
    PROVE  Inv'
<1>1. /\ Graph(made) /\ TypeOK /\ RepoRefs /\ FollowRefs /\ linked /\ OnRemote /\ f \in Landing /\ f.at = "moves"
      /\ UNCHANGED <<made, inst, local, linked, remote, fork, op, acked, spent>>
  BY FollowIs DEF Inv, Refs, FollowChild
<1>2. PICK p \in Process : p = f.by
  BY FollowIs
<1>3. Grows(made, made') /\ made' = made
  BY <1>1, SameGrows
<1>4. PICK v \in f.moves :
         /\ repo' = [repo EXCEPT ![v.tracker].main = IF @ = v.old THEN v.new ELSE @,
                                 ![v.tracker].landing = @ \ {v.new}]
         /\ Following(f, [f EXCEPT !.moves = @ \ {v}])
  BY DEF FollowChild
<1>5. PICK t, old, new : t = v.tracker /\ old = v.old /\ new = v.new
  OBVIOUS
<1>6. t \in Children /\ t # Root /\ new \in 1 .. Len(made) /\ new \in Nat
  BY <1>5, FollowIs, TrackerIs DEF Move
<1>7. PICK g : follows' = (follows \ {f}) \union {g} /\ g = [f EXCEPT !.moves = @ \ {v}]
  BY <1>4 DEF Following
<1>8. g \in Landing /\ g.at = "moves" /\ g.moves \subseteq f.moves
  BY <1>1, <1>7 DEF Landing
<1>9. /\ repo' \in Maps(Repo) /\ DOMAIN repo' = DOMAIN repo /\ RepoRefs'
      /\ \A u \in DOMAIN repo : u # t => repo'[u] = repo[u]
  <2>1. CASE t \in DOMAIN repo
    <3>1. PICK r : r = repo[t] /\ r \in Repo /\ r.main \in 1 .. Len(made) /\ r.holds \subseteq 1 .. Len(made)
      BY <1>1, <2>1, RepoType DEF RepoRefs
    <3>2. PICK s : s = [r EXCEPT !.main = IF @ = old THEN new ELSE @, !.landing = @ \ {new}]
      OBVIOUS
    <3>3. s \in Repo /\ s.main \in 1 .. Len(made) /\ s.holds \subseteq 1 .. Len(made)
      BY <1>6, <3>1, <3>2 DEF Repo
    <3>4. repo' = [repo EXCEPT ![t] = s]
      BY <1>4, <1>5, <2>1, <3>1, <3>2
    <3>5. /\ repo' \in Maps(Repo) /\ DOMAIN repo' = DOMAIN repo /\ repo'[t] = s
          /\ \A u \in DOMAIN repo : u # t => repo'[u] = repo[u]
      BY <1>1, <2>1, <3>3, <3>4, ExceptRepo
    <3>6. RepoRefs'
      BY <1>1, <1>3, <3>3, <3>5, MoreRepo
    <3> QED
      BY <3>5, <3>6
  <2>2. CASE t \notin DOMAIN repo
    <3>1. PICK D \in SUBSET Tracker : repo \in [D -> Repo] /\ DOMAIN repo = D
      BY <1>1 DEF TypeOK, Maps
    <3>2. repo' = repo
      BY <1>4, <1>5, <2>2, <3>1
    <3> QED
      BY <1>1, <1>3, <3>2, StaysRepo DEF TypeOK
  <2> QED
    BY <2>1, <2>2
<1>10. TypeOK'
  BY <1>1, <1>7, <1>8, <1>9 DEF TypeOK, local, remote
<1>11. FollowRefs'
  <2>1. was' = was /\ \A h \in follows' : h \notin follows => h = g
    BY <1>1, <1>7 DEF remote
  <2>2. \A w \in g.moves : w.new \in 1 .. Len(made')
    BY <1>3, <1>8, FollowIs
  <2> QED
    BY <1>1, <1>3, <2>1, <2>2, StaysFollow
<1>12. OnRemote'
  <2>1. \A h \in follows' : h.at = "move" => h \in follows
    BY <1>7, <1>8
  <2>2. list' = list /\ was' = was /\ repo'[Root] = repo[Root]
    BY <1>1, <1>6, <1>9 DEF remote, OnRemote, IsIndex
  <2> QED
    BY <1>1, <1>3, <1>9, <2>1, <2>2 DEF OnRemote, IsIndex, Index, Roots, Ancestor, Behind
<1>13. Others(p) /\ OpRefs(p)' /\ Runs(p)'
  <2>1. op' = op /\ list' = list
    BY <1>1 DEF remote
  <2> QED
    BY <1>1, <1>3, <1>9, <2>1, SameRuns
<1> QED
  BY <1>1, <1>9, <1>10, <1>11, <1>12, <1>13, FollowThere

\* A landing followed, or not to be: its client may hear.
LEMMA FollowEnds ==
    ASSUME Inv, NEW f \in follows, follows' = follows \ {f},
           UNCHANGED <<made, inst, local, linked, remote, repo, fork, acked>>,
           spent' \in [{"commands", "updates", "kills", "deaths"} -> Nat],
           op' = op \/ (op[f.by].at = "wait" /\ (Stop(f.by) \/ GoOn(f.by, "children")))
    PROVE  Inv'
<1>1. /\ Graph(made) /\ TypeOK /\ RepoRefs /\ FollowRefs /\ linked /\ OnRemote
  BY FollowIs DEF Inv, Refs
<1>2. PICK p \in Process : p = f.by
  BY FollowIs
<1>3. Grows(made, made') /\ made' = made
  BY <1>1, SameGrows
<1>4. list' = list /\ was' = was
  BY DEF remote
<1>5. op' \in [Process -> Op] /\ Others(p) /\ OpRefs(p)' /\ Runs(p)'
  <2>1. CASE op' = op
    BY <1>1, <1>3, <1>4, <2>1, SameRuns DEF TypeOK
  <2>2. CASE Stop(p)
    BY <1>1, <2>2, StopIs
  <2>3. CASE op[p].at = "wait" /\ GoOn(p, "children")
    <3>1. ~Idle(p)
      BY <2>3 DEF Idle
    <3>2. PICK o : /\ o = op[p] /\ o \in Op /\ OpRefs(p) /\ o.theirs \in Roots /\ o.at = "wait" /\ Runs(p)
      BY <1>1, <2>3, <3>1, Busied
    <3>3. /\ op' \in [Process -> Op] /\ Others(p) /\ op'[p].at = "children" /\ op'[p].cmd = o.cmd
          /\ op'[p].merged = o.merged /\ op'[p].theirs = o.theirs
          /\ OpRefs(p)'
      BY <1>1, <1>3, <2>3, <3>2, GoOnIs, SameOpRefs
    <3>4. /\ o.cmd # "create" /\ o.merged \in Roots' /\ Ancestor(o.theirs, list[Root])'
      BY <1>3, <1>4, <3>2 DEF Runs, Roots, Ancestor, Behind
    <3> QED
      BY <3>3, <3>4 DEF Runs
  <2> QED
    BY <1>2, <2>1, <2>2, <2>3
<1>6. TypeOK'
  BY <1>1, <1>5 DEF TypeOK, local, remote
<1>7. FollowRefs' /\ RepoRefs'
  BY <1>1, <1>3, <1>4, StaysFollow, StaysRepo
<1>8. OnRemote'
  BY <1>1, <1>3, <1>4 DEF OnRemote, IsIndex, Index, Roots, Ancestor, Behind
<1> QED
  BY <1>1, <1>5, <1>6, <1>7, <1>8, FollowThere

LEMMA AnswerKeeps ==
    ASSUME Inv, NEW f \in follows, Answer(f)
    PROVE  Inv'
<1>1. op' = op \/ (op[f.by].at = "wait" /\ (Stop(f.by) \/ GoOn(f.by, "children")))
  BY DEF Answer
<1>2. spent' \in [{"commands", "updates", "kills", "deaths"} -> Nat]
  BY DEF Answer, Inv, TypeOK
<1> QED
  BY <1>1, <1>2, FollowEnds DEF Answer

LEMMA WorkerDiesKeeps ==
    ASSUME Inv, NEW f \in follows, WorkerDies(f)
    PROVE  Inv'
<1>1. op' = op \/ (op[f.by].at = "wait" /\ (Stop(f.by) \/ GoOn(f.by, "children")))
  BY DEF WorkerDies
<1>2. spent' \in [{"commands", "updates", "kills", "deaths"} -> Nat]
  BY SpendIs DEF WorkerDies, Inv
<1> QED
  BY <1>1, <1>2, FollowEnds DEF WorkerDies

-----------------------------------------------------------------------------
(* The end of a merge.                                                     *)

LEMMA PutRoot ==
    ASSUME Graph(made), NEW f \in Pins, Tree(f), NEW r \in Roots
    PROVE  LET g == Put(f, Root, r)
           IN  g \in Pins /\ Tree(g) /\ Here(g) /\ g[Root] = r /\ DOMAIN g = DOMAIN f \union {Root}
<1>1. PICK g : g = Put(f, Root, r)
  OBVIOUS
<1>2. r \in Nat /\ r \in 1 .. Len(made) /\ Root \in Tracker
  BY IndexIs, TrackerIs
<1>3. IsPut(g, f, Root, r)
  BY <1>1, <1>2, PutPins
<1>4. g \in Pins /\ g[Root] = r /\ DOMAIN g = DOMAIN f \union {Root} /\ \A t \in DOMAIN f : t # Root => g[t] = f[t]
  BY <1>3 DEF IsPut
<1>5. Names(g)
  BY <1>2, <1>4 DEF Tree, Names, NamesIn
<1> QED
  BY <1>1, <1>4, <1>5 DEF Tree, Here

\* One machine's branches change.
LEMMA OneTree ==
    ASSUME Graph(made), made' = made, NEW trees, NEW trees2, NEW m \in Range(Host), NEW g \in Pins, Tree(g),
           trees \in [Range(Host) -> Pins], trees2 = [trees EXCEPT ![m] = g],
           \A n \in Range(Host) : Tree(trees[n])
    PROVE  /\ trees2 \in [Range(Host) -> Pins] /\ trees2[m] = g
           /\ \A n \in Range(Host) : Tree(trees2[n]) /\ (n # m => trees2[n] = trees[n])
<1>1. trees2 \in [Range(Host) -> Pins] /\ trees2[m] = g /\ \A n \in Range(Host) : n # m => trees2[n] = trees[n]
  OBVIOUS
<1>2. ASSUME NEW n \in Range(Host) PROVE Tree(trees2[n])
  <2>1. CASE n = m
    BY <1>1, <2>1
  <2>2. CASE n # m
    BY <1>1, <2>2
  <2> QED
    BY <2>1, <2>2
<1> QED
  BY <1>1, <1>2

LEMMA TreesAre ==
    ASSUME made' = made, \A n \in Range(Host) : Tree(main'[n]) /\ Tree(kept'[n])
    PROVE  MainRefs'
  BY DEF MainRefs, Tree, Names, NamesIn, Roots

LEMMA LocalRootKeeps ==
    ASSUME Inv, ~linked, NEW p \in Process, LocalRoot(p)
    PROVE  Inv'
<1>1. /\ Graph(made) /\ TypeOK /\ MainRefs /\ RepoRefs /\ ~Idle(p) /\ op[p].at = "root" /\ Home \in Range(Host)
      /\ UNCHANGED <<made, inst, kept, has, linked, remote, repo, fork, follows, acked, spent>>
  BY HostIs DEF Inv, Refs, Idle, LocalRoot
<1>2. PICK o : /\ o = op[p] /\ o \in Op /\ OpRefs(p) /\ o.theirs \in Roots /\ o.at = "root"
               /\ RunsHere(p) /\ AtHome /\ Host[p] = Home /\ Here(main[Home]) /\ Here(kept[Home])
  BY <1>1, Busied
<1>3. PICK merged \in Roots : merged = o.merged
  BY <1>2 DEF RunsHere
<1>4. \/ Stop(p) /\ main' = main
      \/ main' = [main EXCEPT ![Home] = Put(@, Root, merged)] /\ GoOn(p, "keep")
  BY <1>2, <1>3 DEF LocalRoot
<1>5. CASE Stop(p) /\ main' = main
  BY <1>1, <1>5, StopKeeps DEF TypeOK, local
<1>6. CASE main' = [main EXCEPT ![Home] = Put(@, Root, merged)] /\ GoOn(p, "keep")
  <2>1. Grows(made, made') /\ made' = made
    BY <1>1, SameGrows
  <2>2. PICK f : f = main[Home] /\ f \in Pins /\ Tree(f)
    BY <1>1 DEF TypeOK, MainRefs
  <2>3. PICK g : g = Put(f, Root, merged) /\ g \in Pins /\ Tree(g) /\ Here(g) /\ g[Root] = merged
    BY <1>1, <2>2, PutRoot
  <2>4. main' = [main EXCEPT ![Home] = g] /\ kept' = kept /\ main \in [Range(Host) -> Pins]
    BY <1>1, <1>6, <2>2, <2>3 DEF TypeOK
  <2>5. \A n \in Range(Host) : Tree(main[n]) /\ Tree(kept[n])
    BY <1>1 DEF MainRefs
  <2>6. main' \in [Range(Host) -> Pins] /\ main'[Home] = g /\ \A n \in Range(Host) : Tree(main'[n])
    BY <1>1, <2>1, <2>3, <2>4, <2>5, OneTree
  <2>7. MainRefs'
    BY <2>1, <2>4, <2>5, <2>6, TreesAre
  <2>8. /\ op' \in [Process -> Op] /\ Others(p) /\ op'[p].at = "keep" /\ op'[p].cmd = o.cmd
        /\ op'[p].merged = merged /\ op'[p].theirs = o.theirs /\ op'[p].base = o.base
        /\ OpRefs(p)'
    BY <1>1, <1>2, <1>3, <1>6, <2>1, GoOnIs, SameOpRefs
  <2>9. TypeOK'
    BY <1>1, <2>6, <2>8 DEF TypeOK, remote
  <2>10. PICK r : r = kept[Home][Root] /\ r = kept'[Home][Root]
    BY <2>4
  <2>11. /\ merged \in Roots' /\ Ancestor(o.theirs, merged)' /\ Ancestor(r, merged)'
         /\ (At(o.base, Root))' = r /\ o.cmd \in {"none", "merge", "create"}
    BY <1>2, <1>3, <2>1, <2>10 DEF RunsHere, Roots, Ancestor, Behind, At
  <2>12. RunsHere(p)'
    BY <2>3, <2>6, <2>8, <2>10, <2>11 DEF RunsHere
  <2>13. NothingLost'
    BY <1>1, <2>1, <2>4, SameTruth DEF remote
  <2>14. RepoRefs' /\ linked' = linked /\ Here(main[Home])' /\ Here(kept[Home])'
    BY <1>1, <1>2, <2>1, <2>3, <2>4, <2>6, StaysRepo DEF Here
  <2>15. \A q \in Process : inst'[q] = inst[q]
    BY <1>1
  <2> QED
    BY <1>1, <2>1, <2>7, <2>8, <2>9, <2>12, <2>13, <2>14, <2>15, CommandHere DEF remote
<1> QED
  BY <1>4, <1>5, <1>6

LEMMA LocalKeepKeeps ==
    ASSUME Inv, ~linked, NEW p \in Process, LocalKeep(p)
    PROVE  Inv'
<1>1. /\ Graph(made) /\ TypeOK /\ MainRefs /\ RepoRefs /\ ~Idle(p) /\ op[p].at = "keep" /\ Home \in Range(Host)
      /\ UNCHANGED <<made, inst, main, has, linked, remote, repo, fork, follows, acked, spent>>
  BY HostIs DEF Inv, Refs, Idle, LocalKeep
<1>2. PICK o : /\ o = op[p] /\ o \in Op /\ OpRefs(p) /\ o.theirs \in Roots /\ o.at = "keep"
               /\ RunsHere(p) /\ AtHome /\ Host[p] = Home /\ Here(main[Home]) /\ Here(kept[Home])
  BY <1>1, Busied
<1>3. PICK merged \in Roots : merged = o.merged /\ main[Home][Root] = merged
  BY <1>2 DEF RunsHere
<1>4. kept' = [kept EXCEPT ![Home] = Put(@, Root, merged)] /\ GoOn(p, "children")
  BY <1>2, <1>3 DEF LocalKeep
<1>5. Grows(made, made') /\ made' = made
  BY <1>1, SameGrows
<1>6. PICK f : f = kept[Home] /\ f \in Pins /\ Tree(f)
  BY <1>1 DEF TypeOK, MainRefs
<1>7. PICK g : g = Put(f, Root, merged) /\ g \in Pins /\ Tree(g) /\ Here(g) /\ g[Root] = merged
  BY <1>1, <1>6, PutRoot
<1>8. kept' = [kept EXCEPT ![Home] = g] /\ main' = main /\ kept \in [Range(Host) -> Pins]
  BY <1>1, <1>4, <1>6, <1>7 DEF TypeOK
<1>9. \A n \in Range(Host) : Tree(main[n]) /\ Tree(kept[n])
  BY <1>1 DEF MainRefs
<1>10. kept' \in [Range(Host) -> Pins] /\ kept'[Home] = g /\ \A n \in Range(Host) : Tree(kept'[n])
  BY <1>1, <1>5, <1>7, <1>8, <1>9, OneTree
<1>11. MainRefs'
  BY <1>5, <1>8, <1>9, <1>10, TreesAre
<1>12. /\ op' \in [Process -> Op] /\ Others(p) /\ op'[p].at = "children" /\ op'[p].cmd = o.cmd
       /\ op'[p].merged = merged /\ op'[p].theirs = o.theirs
       /\ OpRefs(p)'
  BY <1>1, <1>2, <1>3, <1>4, <1>5, GoOnIs, SameOpRefs
<1>13. TypeOK'
  BY <1>1, <1>10, <1>12 DEF TypeOK, remote
<1>14. PICK r : r = kept[Home][Root]
  OBVIOUS
<1>15. /\ merged \in Roots' /\ Ancestor(o.theirs, merged)' /\ Ancestor(r, merged)'
       /\ o.cmd \in {"none", "merge", "create"}
  BY <1>2, <1>3, <1>5, <1>14 DEF RunsHere, Roots, Ancestor, Behind
<1>16. RunsHere(p)'
  BY <1>7, <1>10, <1>12, <1>15 DEF RunsHere
<1>17. NothingLost'
  <2>1. r = Truth /\ merged = Truth'
    BY <1>1, <1>2, <1>7, <1>10, <1>14 DEF Truth, At, Here
  <2>2. merged \in {0} \union (1 .. Len(made'))
    BY <1>1, <1>3, <1>5, IndexIs
  <2> QED
    BY <1>1, <1>5, <1>15, <2>1, <2>2, StaysFound
<1>18. RepoRefs' /\ linked' = linked /\ Here(main[Home])' /\ Here(kept[Home])'
  BY <1>1, <1>2, <1>5, <1>7, <1>8, <1>10, StaysRepo DEF Here
<1>19. \A q \in Process : inst'[q] = inst[q]
  BY <1>1
<1> QED
  BY <1>1, <1>5, <1>11, <1>12, <1>13, <1>16, <1>17, <1>18, <1>19, CommandHere DEF remote

\* Branches that move as a merge says.
MovedTo(o, f) == [t \in DOMAIN f \union {v.tracker : v \in o.moves} |->
                     IF t \in {v.tracker : v \in o.moves} THEN MoveOf(o, t).new ELSE f[t]]

LEMMA MovedToIs ==
    ASSUME Graph(made), NEW o \in Op, \A v \in o.moves : v.new \in 1 .. Len(made), NEW f \in Pins, Tree(f)
    PROVE  /\ MovedTo(o, f) \in Pins /\ Tree(MovedTo(o, f))
           /\ Here(f) => Here(MovedTo(o, f)) /\ MovedTo(o, f)[Root] = f[Root]
<1>1. PICK moved : moved = {v.tracker : v \in o.moves}
  OBVIOUS
<1>2. moved \subseteq Tracker /\ Root \notin moved
  <2>1. o.moves \in SUBSET Move
    BY DEF Op
  <2>2. \A v \in o.moves : v.tracker \in Tracker /\ v.tracker # Root
    BY <2>1, TrackerIs DEF Move
  <2> QED
    BY <1>1, <2>2
<1>3. PICK D \in SUBSET Tracker : D = DOMAIN f \union moved
  BY <1>2, PinsOf
<1>4. PICK g : g = MovedTo(o, f)
  OBVIOUS
<1>5. g = [t \in D |-> IF t \in moved THEN MoveOf(o, t).new ELSE f[t]]
  BY <1>1, <1>3, <1>4 DEF MovedTo
<1>6. ASSUME NEW t \in moved PROVE MoveOf(o, t).new \in 1 .. Len(made)
  <2>1. PICK v \in o.moves : v.tracker = t
    BY <1>1
  <2>2. MoveOf(o, t) \in o.moves
    BY <2>1, MoveOfIs
  <2> QED
    BY <2>2
<1>7. ASSUME NEW t \in D PROVE g[t] \in 1 .. Len(made)
  <2>1. CASE t \in moved
    BY <1>5, <1>6, <2>1
  <2>2. CASE t \notin moved
    <3>1. t \in DOMAIN f /\ g[t] = f[t]
      BY <1>3, <1>5, <2>2
    <3> QED
      BY <3>1 DEF Tree, Names, NamesIn
  <2> QED
    BY <2>1, <2>2
<1>8. DOMAIN g = D /\ Len(made) \in Nat
  BY <1>5 DEF Graph
<1>9. \A t \in D : g[t] \in Nat
  BY <1>7, <1>8
<1>10. g \in [D -> Nat]
  BY <1>5, <1>8, <1>9
<1>11. g \in Pins /\ Names(g)
  BY <1>7, <1>8, <1>10, PinsFrom DEF Names, NamesIn
<1>12. Root \in D => Root \in DOMAIN f /\ g[Root] = f[Root]
  BY <1>2, <1>3, <1>5
<1>13. Root \in DOMAIN f => Root \in D
  BY <1>3
<1> QED
  BY <1>4, <1>8, <1>11, <1>12, <1>13 DEF Tree, Here

\* What the end of a merge is, here or on a remote.
LEMMA LocalEndIs ==
    ASSUME NEW p, LocalEnd(p)
    PROVE  \E along :
              /\ along \subseteq {q \in Process : Ancestor(inst[q].head, op[p].merged)}
              /\ inst' = [q \in Process |-> IF q \in along THEN [head |-> op[p].merged, tip |-> op[p].merged]
                                            ELSE inst[q]]
              /\ op[p].at = "children"
              /\ main' = IF linked THEN main ELSE [main EXCEPT ![Host[p]] = MovedTo(op[p], @)]
              /\ kept' = IF linked THEN kept ELSE [kept EXCEPT ![Host[p]] = MovedTo(op[p], @)]
              /\ acked' = acked \union {op[p].theirs}
              /\ IF op[p].cmd = "create" THEN GoOn(p, "create") ELSE Stop(p)
              /\ UNCHANGED <<made, has, linked, remote, repo, fork, follows, spent>>
<1> DEFINE along == {q \in ProjectRoot \ {p} : Host[q] = Host[p] /\ Ancestor(inst[q].head, op[p].merged)
                                               /\ inst[q].tip = inst[q].head}
<1>1. /\ op[p].at = "children"
      /\ acked' = acked \union {op[p].theirs}
      /\ IF op[p].cmd = "create" THEN GoOn(p, "create") ELSE Stop(p)
      /\ UNCHANGED <<made, has, linked, remote, repo, fork, follows, spent>>
  BY Zenon DEF LocalEnd
<1>2. inst' = [q \in Process |-> IF q \in along THEN [head |-> op[p].merged, tip |-> op[p].merged]
                                 ELSE inst[q]]
  BY Zenon DEF LocalEnd
<1>3. /\ main' = IF linked THEN main ELSE [main EXCEPT ![Host[p]] = MovedTo(op[p], @)]
      /\ kept' = IF linked THEN kept ELSE [kept EXCEPT ![Host[p]] = MovedTo(op[p], @)]
  BY DEF LocalEnd, MovedTo
<1>4. along \subseteq {q \in Process : Ancestor(inst[q].head, op[p].merged)}
  BY DEF Process
<1> HIDE DEF along
<1> QED
  BY <1>1, <1>2, <1>3, <1>4

LEMMA LocalEndKeeps ==
    ASSUME Inv, NEW p \in Process, LocalEnd(p)
    PROVE  Inv'
<1>1. /\ Graph(made) /\ TypeOK /\ Refs /\ InstRefs /\ MainRefs /\ RepoRefs /\ StoredRefs /\ FollowRefs
      /\ Home \in Range(Host)
  BY HostIs DEF Inv, Refs
<1>2. PICK along :
              /\ along \subseteq {q \in Process : Ancestor(inst[q].head, op[p].merged)}
              /\ inst' = [q \in Process |-> IF q \in along THEN [head |-> op[p].merged, tip |-> op[p].merged]
                                            ELSE inst[q]]
              /\ op[p].at = "children"
              /\ main' = IF linked THEN main ELSE [main EXCEPT ![Host[p]] = MovedTo(op[p], @)]
              /\ kept' = IF linked THEN kept ELSE [kept EXCEPT ![Host[p]] = MovedTo(op[p], @)]
              /\ acked' = acked \union {op[p].theirs}
              /\ IF op[p].cmd = "create" THEN GoOn(p, "create") ELSE Stop(p)
              /\ UNCHANGED <<made, has, linked, remote, repo, fork, follows, spent>>
  BY LocalEndIs
<1>3. ~Idle(p)
  BY <1>2 DEF Idle
<1>4. PICK o : /\ o = op[p] /\ o \in Op /\ OpRefs(p) /\ o.theirs \in Roots /\ o.at = "children"
  BY <1>2, <1>3, Busied
<1>5. PICK merged \in Roots : merged = o.merged
  BY <1>2, <1>3, <1>4, Busied DEF Runs, RunsHere
<1>6. Grows(made, made') /\ made' = made /\ Graph(made')
  BY <1>1, <1>2, SameGrows
<1>7. merged \in 1 .. Len(made) /\ merged \in Nat /\ merged \in Roots' /\ Ancestor(merged, merged)'
  BY <1>1, <1>5, <1>6, IndexIs, GoesOn, AncestorThen
<1>a. PICK to : to = [head |-> merged, tip |-> merged]
  OBVIOUS
<1>8. to = [head |-> merged, tip |-> merged] /\ to.head = merged /\ to.tip = merged
  BY <1>a
<1>9. inst' = [q \in Process |-> IF q \in along THEN to ELSE inst[q]]
  BY <1>2, <1>4, <1>5, <1>8
<1>10. inst' \in [Process -> [head : Nat, tip : Nat]]
  BY <1>1, <1>7, <1>8, <1>9 DEF TypeOK
<1>11. ASSUME NEW q \in Process PROVE inst'[q] = inst[q] \/ Checkpointed(inst[q].head, inst[q].tip)'
  <2>1. Checkpointed(merged, merged)'
    BY <1>7 DEF Checkpointed
  <2>2. inst'[q] = inst[q] \/ (inst'[q].head = merged /\ inst'[q].tip = merged)
    BY <1>8, <1>9
  <2> QED
    BY <2>1, <2>2
<1>12. ASSUME NEW q \in Process, inst'[q].head # 0 PROVE inst[q].head # 0
  <2>1. CASE q \in along
    <3>1. PICK head : head = inst[q].head /\ Ancestor(head, merged)
      BY <1>2, <1>4, <1>5, <2>1
    <3>2. head \in 1 .. Len(made)
      BY <1>1, <1>7, <3>1, AncestorIs
    <3> QED
      BY <3>1, <3>2
  <2>2. CASE q \notin along
    BY <1>9, <1>12, <2>2
  <2> QED
    BY <2>1, <2>2
<1>13. InstRefs' /\ StoredRefs' /\ RepoRefs' /\ FollowRefs'
  BY <1>1, <1>2, <1>6, <1>11, StaysInst, StaysStored, StaysRepo, StaysFollow DEF remote
<1>14. op' \in [Process -> Op] /\ Others(p) /\ OpRefs(p)'
  <2>1. CASE GoOn(p, "create")
    BY <1>1, <1>4, <1>6, <2>1, GoOnIs, SameOpRefs
  <2>2. CASE Stop(p)
    BY <1>1, <2>2, StopIs
  <2> QED
    BY <1>2, <2>1, <2>2
<1>15. acked' \in SUBSET Nat
  BY <1>1, <1>2, <1>4 DEF TypeOK, Op
<1>16. ASSUME NEW truth \in 1 .. Len(made), truth = Truth, truth = Truth', Ancestor(o.theirs, truth)
       PROVE  NothingLost'
  <2>1. \A c \in acked : Ancestor(c, truth)
    BY <1>16 DEF Inv, NothingLost, Truth
  <2>2. \A c \in acked' : Ancestor(c, truth)
    BY <1>2, <1>4, <1>16, <2>1
  <2>3. \A c \in acked' : Ancestor(c, truth)'
    BY <1>6, <2>2 DEF Ancestor, Behind
  <2> QED
    BY <1>16, <2>3 DEF NothingLost, Truth
<1>17. CASE linked
  <2>1. Runs(p) /\ OnRemote
    BY <1>3, <1>17, Busied
  <2>2. main' = main /\ kept' = kept /\ linked' = linked /\ Stop(p)
    BY <1>2, <1>4, <1>17, <2>1 DEF Runs
  <2>3. MainRefs'
    BY <1>1, <1>6, <2>2, StaysTree
  <2>4. TypeOK'
    BY <1>1, <1>2, <1>10, <1>14, <1>15, <2>2 DEF TypeOK, remote
  <2>5. Refs'
    BY <1>1, <1>6, <1>13, <1>14, <2>3, RefsStep
  <2>6. PICK head \in Roots : head = list[Root]
    BY <2>1 DEF OnRemote, IsIndex
  <2>7. NothingLost'
    <3>1. head = Truth /\ head = Truth'
      BY <1>2, <1>17, <2>6 DEF Truth, remote
    <3>2. Ancestor(o.theirs, head) /\ head \in 1 .. Len(made)
      BY <1>1, <1>4, <2>1, <2>6, IndexIs DEF Runs
    <3> QED
      BY <1>16, <3>1, <3>2
  <2>8. Runs(p)'
    BY <1>1, <2>2, StopIs
  <2>9. OnRemote' /\ \A q \in Process : Runs(q)'
    <3>1. list' = list /\ was' = was /\ repo' = repo /\ follows' = follows
      BY <1>2 DEF remote
    <3> QED
      BY <1>6, <1>14, <1>17, <2>8, <3>1, ThereStep
  <2> QED
    BY <1>6, <1>17, <2>2, <2>4, <2>5, <2>7, <2>9 DEF Inv
<1>18. CASE ~linked
  <2>1. RunsHere(p) /\ AtHome /\ Host[p] = Home /\ Here(main[Home]) /\ Here(kept[Home])
    BY <1>3, <1>18, Busied
  <2>2. PICK f, k : /\ f = main[Home] /\ f \in Pins /\ Tree(f) /\ Here(f)
                    /\ k = kept[Home] /\ k \in Pins /\ Tree(k) /\ Here(k)
    BY <1>1, <2>1 DEF TypeOK, MainRefs
  <2>3. \A v \in o.moves : v.new \in 1 .. Len(made)
    BY <1>4 DEF OpRefs
  <2>4. PICK g, h : g = MovedTo(o, f) /\ h = MovedTo(o, k)
    OBVIOUS
  <2>5. g \in Pins /\ Tree(g) /\ Here(g) /\ h \in Pins /\ Tree(h) /\ Here(h) /\ h[Root] = k[Root]
    BY <1>1, <1>4, <2>2, <2>3, <2>4, MovedToIs
  <2>6. /\ main' = [main EXCEPT ![Home] = g] /\ kept' = [kept EXCEPT ![Home] = h] /\ linked' = linked
        /\ main \in [Range(Host) -> Pins] /\ kept \in [Range(Host) -> Pins]
    BY <1>1, <1>2, <1>4, <1>18, <2>1, <2>2, <2>4 DEF TypeOK
  <2>7. \A n \in Range(Host) : Tree(main[n]) /\ Tree(kept[n])
    BY <1>1 DEF MainRefs
  <2>8. main' \in [Range(Host) -> Pins] /\ main'[Home] = g /\ \A n \in Range(Host) : Tree(main'[n])
    BY <1>1, <1>6, <2>5, <2>6, <2>7, OneTree
  <2>9. kept' \in [Range(Host) -> Pins] /\ kept'[Home] = h /\ \A n \in Range(Host) : Tree(kept'[n])
    BY <1>1, <1>6, <2>5, <2>6, <2>7, OneTree
  <2>10. MainRefs'
    BY <1>6, <2>8, <2>9, TreesAre
  <2>11. TypeOK'
    BY <1>1, <1>2, <1>10, <1>14, <1>15, <2>8, <2>9 DEF TypeOK, remote
  <2>12. k[Root] = merged /\ Ancestor(o.theirs, merged) /\ o.cmd \in {"none", "merge", "create"}
    BY <1>4, <1>5, <2>1, <2>2 DEF RunsHere
  <2>13. NothingLost'
    <3>1. merged = Truth /\ merged = Truth'
      BY <1>18, <2>2, <2>5, <2>6, <2>9, <2>12 DEF Truth, At, Here
    <3> QED
      BY <1>7, <1>16, <2>12, <3>1
  <2>14. RunsHere(p)'
    <3>1. CASE GoOn(p, "create")
      <4>1. op'[p].at = "create" /\ op'[p].cmd = o.cmd
        BY <1>1, <1>4, <3>1, GoOnIs
      <4> QED
        BY <2>12, <4>1 DEF RunsHere
    <3>2. CASE Stop(p)
      BY <1>1, <3>2, StopIs
    <3> QED
      BY <1>2, <3>1, <3>2
  <2>15. Here(main[Home])' /\ Here(kept[Home])'
    BY <2>5, <2>8, <2>9 DEF Here
  <2> QED
    BY <1>2, <1>3, <1>6, <1>11, <1>12, <1>13, <1>14, <1>18, <2>6, <2>10, <2>11, <2>13, <2>14, <2>15,
       CommandHere DEF remote
<1> QED
  BY <1>17, <1>18

-----------------------------------------------------------------------------
(* A project is created on its remote.                                     *)

\* Each tracker a project has is seeded with its own `main`, or its pin.
Mains(fetched, index) == [t \in DOMAIN index |-> IF At(fetched, t) # 0 THEN fetched[t] ELSE index[t]]

LEMMA CreateReadIs ==
    ASSUME NEW p, CreateRead(p)
    PROVE  \E fetched, index :
              /\ fetched = Fetched(Host[p]) /\ index = Index(At(fetched, Root))
              /\ op[p].at = "create"
              /\ main' = [main EXCEPT ![Host[p]] = fetched]
              /\ \/ Stop(p)
                 \/ /\ ~RefusedTrackers(Mains(fetched, index), DOMAIN Mains(fetched, index))
                    /\ Becomes(p, [op[p] EXCEPT !.base = index, !.heads = Mains(fetched, index), !.at = "seeds",
                                                !.todo = InOrder(DOMAIN Mains(fetched, index))])
              /\ UNCHANGED <<made, inst, kept, has, linked, remote, repo, fork, follows, acked, spent>>
<1> DEFINE fetched == Fetched(Host[p])
           index == Index(At(fetched, Root))
           mains == Mains(fetched, index)
<1>1. /\ op[p].at = "create"
      /\ main' = [main EXCEPT ![Host[p]] = fetched]
      /\ UNCHANGED <<made, inst, kept, has, linked, remote, repo, fork, follows, acked, spent>>
  BY Zenon DEF CreateRead
<1>2. \/ Stop(p)
      \/ /\ ~RefusedTrackers(mains, DOMAIN mains)
         /\ Becomes(p, [op[p] EXCEPT !.base = index, !.heads = mains, !.at = "seeds", !.todo = InOrder(DOMAIN mains)])
  BY Zenon DEF CreateRead, Mains
<1> HIDE DEF fetched, index
<1>3. fetched = Fetched(Host[p]) /\ index = Index(At(fetched, Root))
  BY DEF fetched, index
<1> QED
  BY <1>1, <1>2, <1>3, Zenon

LEMMA MainsIs ==
    ASSUME Graph(made), NEW fetched \in Pins, Tree(fetched), NEW r \in Roots, r = At(fetched, Root)
    PROVE  LET mains == Mains(fetched, Index(r))
           IN  mains \in Pins /\ Names(mains) /\ DOMAIN mains = DOMAIN Index(r) /\ mains[Root] = r
<1>1. PICK index, mains : index = Index(r) /\ mains = Mains(fetched, index)
  OBVIOUS
<1>2. index \in Pins /\ NamesIn(made, index) /\ Root \in DOMAIN index /\ r # 0 /\ Len(made) \in Nat
  BY <1>1, IndexIs
<1>3. PICK D \in SUBSET Tracker : D = DOMAIN index
  BY <1>2, PinsOf
<1>4. DOMAIN mains = D /\ mains = [t \in D |-> IF At(fetched, t) # 0 THEN fetched[t] ELSE index[t]]
  BY <1>1, <1>3 DEF Mains
<1>5. ASSUME NEW t \in D PROVE mains[t] \in 1 .. Len(made)
  <2>1. CASE At(fetched, t) # 0
    <3>1. t \in DOMAIN fetched /\ mains[t] = fetched[t]
      BY <1>4, <2>1 DEF At
    <3> QED
      BY <3>1 DEF Tree, Names, NamesIn
  <2>2. CASE At(fetched, t) = 0
    <3>1. mains[t] = index[t]
      BY <1>4, <2>2
    <3> QED
      BY <1>2, <1>3, <3>1 DEF NamesIn
  <2> QED
    BY <2>1, <2>2
<1>6. \A t \in D : mains[t] \in Nat
  BY <1>2, <1>5
<1>7. mains \in [D -> Nat]
  BY <1>4, <1>6
<1>8. mains \in Pins /\ Names(mains)
  BY <1>4, <1>5, <1>7, PinsFrom DEF Names, NamesIn
<1>9. mains[Root] = r
  BY <1>2, <1>3, <1>4 DEF At
<1> QED
  BY <1>1, <1>3, <1>4, <1>8, <1>9

LEMMA CreateReadKeeps ==
    ASSUME Inv, ~linked, NEW p \in Process, CreateRead(p)
    PROVE  Inv'
<1>1. /\ Graph(made) /\ TypeOK /\ MainRefs /\ RepoRefs /\ Home \in Range(Host)
  BY HostIs DEF Inv, Refs
<1>2. PICK fetched, index :
              /\ fetched = Fetched(Host[p]) /\ index = Index(At(fetched, Root))
              /\ op[p].at = "create"
              /\ main' = [main EXCEPT ![Host[p]] = fetched]
              /\ \/ Stop(p)
                 \/ /\ ~RefusedTrackers(Mains(fetched, index), DOMAIN Mains(fetched, index))
                    /\ Becomes(p, [op[p] EXCEPT !.base = index, !.heads = Mains(fetched, index), !.at = "seeds",
                                                !.todo = InOrder(DOMAIN Mains(fetched, index))])
              /\ UNCHANGED <<made, inst, kept, has, linked, remote, repo, fork, follows, acked, spent>>
  BY CreateReadIs, Zenon
<1>3. ~Idle(p)
  BY <1>2 DEF Idle
<1>4. PICK o : /\ o = op[p] /\ o \in Op /\ OpRefs(p) /\ o.theirs \in Roots
               /\ RunsHere(p) /\ AtHome /\ Host[p] = Home /\ Here(main[Home]) /\ Here(kept[Home])
  BY <1>3, Busied
<1>5. Grows(made, made') /\ made' = made
  BY <1>1, <1>2, SameGrows
<1>6. main' \in [Range(Host) -> Pins] /\ MainRefs' /\ Here(main[Home])'
  <2>1. main' = [main EXCEPT ![Home] = Fetched(Home)] /\ kept' = kept
    BY <1>2, <1>4
  <2> QED
    BY <1>1, <1>4, <1>5, <2>1, FetchedMain
<1>7. PICK k : k = kept[Home] /\ k = kept'[Home] /\ Root \in DOMAIN k
  BY <1>2, <1>4 DEF Here
<1>8. fetched \in Pins /\ Tree(fetched) /\ Root \in DOMAIN fetched /\ fetched[Root] = k[Root]
  BY <1>1, <1>2, <1>4, <1>7, FetchedIs
<1>9. PICK r \in Roots : r = k[Root] /\ r = At(fetched, Root)
  BY <1>8 DEF Tree, At
<1>10. PICK mains : mains = Mains(fetched, index)
  OBVIOUS
<1>11. mains \in Pins /\ Names(mains) /\ DOMAIN mains = DOMAIN index /\ mains[Root] = r
  BY <1>1, <1>2, <1>8, <1>9, <1>10, MainsIs
<1>12. index = Index(r) /\ index \in Pins /\ Tree(index) /\ Root \in DOMAIN index
  BY <1>1, <1>2, <1>9, IndexIs
<1>13. InOrder(DOMAIN mains) \in Seq(Tracker) /\ Range(InOrder(DOMAIN mains)) = DOMAIN index
  BY <1>11, <1>12, PinsOf, InOrderIs
<1>14. op' \in [Process -> Op] /\ Others(p) /\ OpRefs(p)' /\ RunsHere(p)'
  <2>1. CASE Stop(p)
    BY <1>1, <2>1, StopIs
  <2>2. PICK next : next = [o EXCEPT !.base = index, !.heads = mains, !.at = "seeds", !.todo = InOrder(DOMAIN mains)]
    OBVIOUS
  <2>3. CASE Becomes(p, next)
    <3>1. /\ next \in Op /\ next.at = "seeds" /\ next.base = index /\ next.heads = mains
          /\ next.todo = InOrder(DOMAIN mains) /\ next.theirs = o.theirs /\ next.moves = o.moves
          /\ next.cmd = o.cmd
      BY <1>4, <1>11, <1>12, <1>13, <2>2 DEF Op
    <3>2. op' \in [Process -> Op] /\ op'[p] = next /\ Others(p)
      BY <1>1, <2>3, <3>1, BecomesIs DEF TypeOK
    <3>3. OpRefs(p)'
      BY <1>4, <1>5, <1>11, <1>12, <3>1, <3>2 DEF OpRefs, Tree, Names, NamesIn, Roots
    <3>4. RunsHere(p)'
      <4>1. Index(k[Root])' = index /\ o.cmd \in {"none", "merge", "create"}
        BY <1>4, <1>5, <1>9, <1>12 DEF Index, RunsHere
      <4>2. Range(next.todo) = DOMAIN index
        BY <1>13, <3>1
      <4> QED
        BY <1>7, <1>9, <1>11, <1>12, <3>1, <3>2, <4>1, <4>2 DEF RunsHere
    <3> QED
      BY <3>2, <3>3, <3>4
  <2>4. Stop(p) \/ Becomes(p, next)
    BY <1>2, <1>4, <1>10, <2>2
  <2> QED
    BY <2>1, <2>3, <2>4
<1>15. TypeOK'
  BY <1>1, <1>2, <1>6, <1>14 DEF TypeOK, remote
<1>16. NothingLost'
  BY <1>1, <1>2, <1>5, SameTruth DEF remote
<1>17. RepoRefs' /\ linked' = linked /\ Here(kept[Home])'
  BY <1>1, <1>2, <1>5, <1>7, StaysRepo DEF Here
<1>18. \A q \in Process : inst'[q] = inst[q]
  BY <1>2
<1> QED
  BY <1>2, <1>3, <1>5, <1>6, <1>14, <1>15, <1>16, <1>17, <1>18, CommandHere DEF remote

LEMMA CreateSeedKeeps ==
    ASSUME Inv, ~linked, NEW p \in Process, CreateSeed(p)
    PROVE  Inv'
<1>1. /\ Graph(made) /\ TypeOK /\ MainRefs /\ RepoRefs /\ ~Idle(p) /\ op[p].at = "seeds" /\ op[p].todo # <<>>
      /\ Home \in Range(Host)
      /\ UNCHANGED <<made, inst, local, linked, remote, fork, follows, acked, spent>>
  BY HostIs DEF Inv, Refs, Idle, CreateSeed
<1>2. PICK o : /\ o = op[p] /\ o \in Op /\ OpRefs(p) /\ o.theirs \in Roots /\ o.at = "seeds" /\ o.todo # <<>>
               /\ RunsHere(p) /\ AtHome /\ Host[p] = Home /\ Here(main[Home]) /\ Here(kept[Home])
  BY <1>1, Busied
<1>3. PICK k : k = kept[Home][Root] /\ k = kept'[Home][Root]
  BY <1>1 DEF local
<1>4. /\ o.base = Index(k) /\ DOMAIN o.heads = DOMAIN o.base /\ Range(o.todo) \subseteq DOMAIN o.base
      /\ o.heads[Root] = k /\ \A u \in DOMAIN o.base \ Range(o.todo) : u \in DOMAIN repo
      /\ Root \notin Range(o.todo) => repo[Root].main = k
      /\ o.cmd \in {"none", "merge", "create"}
  BY <1>2, <1>3 DEF RunsHere
<1>5. Grows(made, made') /\ made' = made
  BY <1>1, SameGrows
<1>6. PICK t : t = Head(o.todo)
  OBVIOUS
<1>7. /\ t \in Tracker /\ t \in Range(o.todo) /\ Tail(o.todo) \in Seq(Tracker)
      /\ Range(o.todo) = {t} \union Range(Tail(o.todo))
  <2>1. o.todo \in Seq(Tracker)
    BY <1>2 DEF Op
  <2> QED
    BY <1>2, <1>6, <2>1, HeadTailIs
<1>8. PICK c : c = o.heads[t]
  OBVIOUS
<1>9. c \in 1 .. Len(made) /\ c \in Nat
  <2>1. c \in 1 .. Len(made) /\ Len(made) \in Nat
    BY <1>1, <1>2, <1>4, <1>7, <1>8 DEF OpRefs, Names, NamesIn, Graph
  <2> QED
    BY <2>1
<1>10. PICK r : r = IF t \in DOMAIN repo THEN repo[t] ELSE NewRepo
  OBVIOUS
<1>11. r \in Repo /\ r.holds \subseteq 1 .. Len(made)
  BY <1>1, <1>10, RepoType, NewRepoIs DEF RepoRefs
<1>12. PICK s : s = [r EXCEPT !.main = c, !.holds = @ \union Behind(c)]
  OBVIOUS
<1>13. s \in Repo /\ s.main = c /\ s.holds \subseteq 1 .. Len(made)
  BY <1>1, <1>9, <1>11, <1>12, BehindType DEF Repo
<1>14. repo' = Put(repo, t, s) /\ Becomes(p, [o EXCEPT !.todo = Tail(@)])
  BY <1>2, <1>6, <1>8, <1>10, <1>12 DEF CreateSeed
<1>15. /\ repo' \in Maps(Repo) /\ DOMAIN repo' = DOMAIN repo \union {t} /\ repo'[t] = s
       /\ \A u \in DOMAIN repo : u # t => repo'[u] = repo[u]
  BY <1>1, <1>7, <1>13, <1>14, PutRepo
<1>16. RepoRefs'
  BY <1>1, <1>5, <1>9, <1>13, <1>15, MoreRepo
<1>17. PICK next : next = [o EXCEPT !.todo = Tail(@)]
  OBVIOUS
<1>18. /\ next \in Op /\ next.todo = Tail(o.todo) /\ next.at = "seeds" /\ next.base = o.base
       /\ next.theirs = o.theirs /\ next.heads = o.heads /\ next.moves = o.moves /\ next.cmd = o.cmd
  BY <1>2, <1>7, <1>17 DEF Op
<1>19. op' \in [Process -> Op] /\ op'[p] = next /\ Others(p)
  BY <1>1, <1>14, <1>17, <1>18, BecomesIs DEF TypeOK
<1>20. TypeOK'
  BY <1>1, <1>15, <1>19 DEF TypeOK, remote, local
<1>21. OpRefs(p)'
  BY <1>2, <1>5, <1>18, <1>19, SameOpRefs
<1>22. RunsHere(p)'
  <2>1. PICK rest : rest = Range(Tail(o.todo))
    OBVIOUS
  <2>2. rest \subseteq DOMAIN o.base /\ \A u \in DOMAIN o.base \ rest : u \in DOMAIN repo'
    BY <1>4, <1>7, <1>15, <2>1
  <2>3. Root \notin rest => repo'[Root].main = k
    <3>1. CASE t = Root
      BY <1>4, <1>8, <1>13, <1>15, <3>1
    <3>2. CASE t # Root
      <4>1. Root \notin rest => repo[Root].main = k /\ Root \in DOMAIN repo
        <5>1. PICK hs \in Roots : hs = k
          BY <1>1, <1>2, <1>3 DEF MainRefs, Tree, Here
        <5>2. Root \in DOMAIN o.base
          BY <1>1, <1>4, <5>1, IndexIs
        <5> QED
          BY <1>4, <1>7, <2>1, <3>2, <5>2
      <4> QED
        BY <1>15, <3>2, <4>1
    <3> QED
      BY <3>1, <3>2
  <2>4. Index(k)' = Index(k)
    BY <1>5 DEF Index
  <2>5. Range(next.todo) = rest
    BY <1>18, <2>1
  <2> QED
    BY <1>3, <1>4, <1>18, <1>19, <2>2, <2>3, <2>4, <2>5 DEF RunsHere
<1>23. MainRefs' /\ NothingLost'
  BY <1>1, <1>5, StaysTree, SameTruth DEF remote, local
<1>24. Here(main[Home])' /\ Here(kept[Home])' /\ linked' = linked
  BY <1>1, <1>2 DEF Here, local
<1>25. \A q \in Process : inst'[q] = inst[q]
  BY <1>1
<1> QED
  BY <1>1, <1>5, <1>16, <1>19, <1>20, <1>21, <1>22, <1>23, <1>24, <1>25, CommandHere DEF remote

LEMMA CreateBranchKeeps ==
    ASSUME Inv, ~linked, NEW p \in Process, CreateBranch(p)
    PROVE  Inv'
<1>1. /\ Graph(made) /\ TypeOK /\ Refs /\ InstRefs /\ MainRefs /\ StoredRefs /\ RepoRefs /\ FollowRefs
      /\ ~Idle(p) /\ op[p].at = "seeds" /\ op[p].todo = <<>>
      /\ Home \in Range(Host) /\ linked' = TRUE
      /\ UNCHANGED <<made, inst, local, pending, stored, repo, fork, follows, acked, spent>>
  BY HostIs DEF Inv, Refs, Idle, CreateBranch
<1>2. PICK o : /\ o = op[p] /\ o \in Op /\ OpRefs(p) /\ o.theirs \in Roots /\ o.at = "seeds" /\ o.todo = <<>>
               /\ RunsHere(p) /\ AtHome /\ Here(kept[Home])
  BY <1>1, Busied
<1>3. PICK k \in Roots : k = kept[Home][Root]
  BY <1>1, <1>2 DEF MainRefs, Tree, Here
<1>4. Range(o.todo) = {}
  BY <1>2, NothingToDo
<1>5. o.base = Index(k) /\ DOMAIN o.base \subseteq DOMAIN repo /\ repo[Root].main = k
  BY <1>2, <1>3, <1>4 DEF RunsHere
<1>6. PICK base : /\ base = o.base /\ base = Index(k) /\ base \in Pins /\ Root \in DOMAIN base /\ base[Root] = k
                  /\ k \in 1 .. Len(made) /\ k \in Nat
  BY <1>1, <1>5, IndexIs
<1>7. list' = base /\ was' = {k} /\ Stop(p)
  BY <1>2, <1>6 DEF CreateBranch
<1>8. Grows(made, made') /\ made' = made /\ Graph(made')
  BY <1>1, SameGrows
<1>9. op' \in [Process -> Op] /\ op'[p] = NoOp /\ Others(p) /\ OpRefs(p)' /\ Runs(p)'
  BY <1>1, <1>7, StopIs
<1>10. TypeOK'
  BY <1>1, <1>6, <1>7, <1>9 DEF TypeOK, local
<1>11. follows = {} /\ follows' = {}
  BY <1>1, <1>2 DEF AtHome
<1>12. FollowRefs'
  BY <1>7, <1>8, <1>11 DEF FollowRefs, Roots
<1>13. Refs'
  <2>1. InstRefs' /\ MainRefs' /\ StoredRefs' /\ RepoRefs'
    BY <1>1, <1>8, StaysInst, StaysTree, StaysStored, StaysRepo DEF local
  <2> QED
    BY <1>1, <1>8, <1>9, <1>12, <2>1, RefsStep
<1>14. Ancestor(k, k)'
  BY <1>6, <1>8, AncestorThen
<1>15. OnRemote'
  <2>1. IsIndex(list)'
    BY <1>3, <1>6, <1>7, <1>8 DEF IsIndex, Index, Roots
  <2>2. /\ DOMAIN list' \subseteq DOMAIN repo' /\ list'[Root] = k /\ was' = {k} /\ repo'[Root].main = k
    BY <1>1, <1>5, <1>6, <1>7
  <2> QED
    BY <1>11, <1>14, <2>1, <2>2 DEF OnRemote
<1>16. ASSUME NEW q \in Process PROVE Runs(q)'
  <2>1. CASE q = p
    BY <1>9, <2>1
  <2>2. CASE q # p
    <3>1. Idle(q) /\ op'[q] = op[q] /\ RunsHere(q)
      BY <1>1, <1>2, <1>9, <2>2 DEF AtHome, Others, Inv
    <3>2. op'[q].at = "idle" /\ op'[q].cmd # "create"
      BY <3>1 DEF Idle, RunsHere
    <3> QED
      BY <3>2 DEF Runs
  <2> QED
    BY <2>1, <2>2
<1>17. NothingLost'
  <2>1. k = Truth /\ k = Truth'
    BY <1>1, <1>2, <1>3, <1>6, <1>7 DEF Truth, At, Here
  <2>2. k \in {0} \union (1 .. Len(made')) /\ acked' \subseteq acked
    BY <1>1, <1>6, <1>8
  <2> QED
    BY <1>1, <1>8, <2>1, <2>2, StaysFound
<1> QED
  BY <1>1, <1>8, <1>10, <1>13, <1>15, <1>16, <1>17 DEF Inv

-----------------------------------------------------------------------------
(* Every step.                                                             *)

LEMMA ThereOnly ==
    ASSUME Inv, NEW p \in Process, op[p].at \in {"sync", "publish", "fetch", "seed", "land", "wait"}
    PROVE  linked
<1> SUFFICES ASSUME ~linked PROVE FALSE
  OBVIOUS
<1> QED
  BY DEF Inv, RunsHere

LEMMA HereOnly ==
    ASSUME Inv, NEW p \in Process, op[p].at \in {"root", "keep", "create", "seeds"}
    PROVE  ~linked
<1> SUFFICES ASSUME linked PROVE FALSE
  OBVIOUS
<1> QED
  BY DEF Inv, Runs

LEMMA CommandKeeps ==
    ASSUME Inv, OneAtATime, NEW p \in Process, Command(p)
    PROVE  Inv'
<1>1. CASE Begin(p, "checkpoint") \/ Begin(p, "merge") \/ Push(p) \/ ProjectPush(p)
  BY <1>1, BeginKeeps DEF Push, ProjectPush
<1>2. CASE p \in ProjectRoot /\ ~linked /\ Begin(p, "create")
  BY <1>2, BeginKeeps
<1>3. CASE MirrorPull(p)
  BY <1>3, MirrorPullKeeps
<1> QED
  BY <1>1, <1>2, <1>3 DEF Command

LEMMA StepKeeps ==
    ASSUME Inv, NEW p \in Process, Step(p)
    PROVE  Inv'
<1>1. CASE PublishRead(p) \/ PublishNext(p) \/ PublishEnd(p)
  <2>1. op[p].at \in {"sync", "publish"}
    BY <1>1, Zenon DEF PublishRead, PublishNext, PublishEnd
  <2>2. linked
    BY <2>1, ThereOnly
  <2> QED
    BY <1>1, <2>2, PublishReadKeeps, PublishNextKeeps, PublishEndKeeps
<1>2. CASE MergeRead(p)
  BY <1>2, MergeReadKeeps
<1>3. CASE MergeFetch(p)
  <2>1. linked
    BY <1>3, ThereOnly DEF MergeFetch
  <2> QED
    BY <1>3, <2>1, MergeFetchKeeps
<1>4. CASE MergeMake(p)
  BY <1>4, MergeMakeKeeps
<1>5. CASE MergeSeed(p)
  <2>1. linked
    BY <1>5, ThereOnly DEF MergeSeed
  <2> QED
    BY <1>5, <2>1, MergeSeedKeeps
<1>6. CASE MergeBegin(p)
  <2>1. linked
    BY <1>6, ThereOnly DEF MergeBegin
  <2> QED
    BY <1>6, <2>1, MergeBeginKeeps
<1>7. CASE MirrorLand(p)
  <2>1. linked
    BY <1>7, ThereOnly DEF MirrorLand
  <2> QED
    BY <1>7, <2>1, MirrorLandKeeps
<1>8. CASE LandNext(p)
  <2>1. linked
    BY <1>8, ThereOnly DEF LandNext
  <2> QED
    BY <1>8, <2>1, LandNextKeeps
<1>9. CASE Finish(p)
  <2>1. linked
    BY <1>9, ThereOnly DEF Finish
  <2> QED
    BY <1>9, <2>1, FinishKeeps
<1>10. CASE LocalRoot(p) \/ LocalKeep(p)
  <2>1. ~linked
    BY <1>10, HereOnly DEF LocalRoot, LocalKeep
  <2> QED
    BY <1>10, <2>1, LocalRootKeeps, LocalKeepKeeps
<1>11. CASE LocalEnd(p)
  BY <1>11, LocalEndKeeps
<1>12. CASE CreateRead(p)
  <2>1. ~linked
    BY <1>12, HereOnly DEF CreateRead
  <2> QED
    BY <1>12, <2>1, CreateReadKeeps
<1>13. CASE CreateSeed(p)
  <2>1. ~linked
    BY <1>13, HereOnly DEF CreateSeed
  <2> QED
    BY <1>13, <2>1, CreateSeedKeeps
<1>14. CASE CreateBranch(p)
  <2>1. ~linked
    BY <1>14, HereOnly DEF CreateBranch
  <2> QED
    BY <1>14, <2>1, CreateBranchKeeps
<1> QED
  BY <1>1, <1>2, <1>3, <1>4, <1>5, <1>6, <1>7, <1>8, <1>9, <1>10, <1>11, <1>12, <1>13, <1>14 DEF Step

LEMMA UnchangedKeeps ==
    ASSUME Inv, UNCHANGED vars
    PROVE  Inv'
<1>1. /\ Graph(made) /\ TypeOK /\ Refs /\ InstRefs /\ MainRefs /\ StoredRefs /\ RepoRefs /\ FollowRefs
      /\ Home \in Range(Host)
  BY RemoteAssumption DEF Inv, Refs
<1>2. UNCHANGED <<made, inst, main, kept, has, linked, list, was, pending, stored, repo, fork, follows, op, acked,
                  spent>>
  BY DEF vars, remote, local
<1>3. Grows(made, made') /\ Graph(made')
  BY <1>1, <1>2, SameGrows
<1>4. TypeOK'
  BY <1>1, <1>2 DEF TypeOK
<1>5. Refs'
  <2>1. InstRefs' /\ MainRefs' /\ StoredRefs' /\ RepoRefs' /\ FollowRefs'
    BY <1>1, <1>2, <1>3, StaysInst, StaysTree, StaysStored, StaysRepo, StaysFollow
  <2>2. \A p \in Process : OpRefs(p)'
    BY <1>1, <1>2, <1>3, StaysOp DEF Refs
  <2> QED
    BY <2>1, <2>2 DEF Refs
<1>6. NothingLost'
  BY <1>1, <1>2, <1>3, SameTruth
<1>7. ASSUME linked PROVE OnRemote' /\ \A p \in Process : Runs(p)'
  <2>1. OnRemote
    BY <1>7 DEF Inv
  <2>2. OnRemote'
    BY <1>2, <2>1 DEF OnRemote, IsIndex, Index, Roots, Ancestor, Behind
  <2>3. \A p \in Process : Runs(p)'
    BY <1>2, <1>7, SameRuns
  <2> QED
    BY <2>2, <2>3
<1>8. ASSUME ~linked PROVE AtHome' /\ \A p \in Process : RunsHere(p)'
  <2>1. AtHome
    BY <1>8 DEF Inv
  <2>2. AtHome'
    BY <1>2, <2>1 DEF AtHome, Here, Idle
  <2>3. ASSUME NEW p \in Process PROVE RunsHere(p)'
    <3>1. RunsHere(p)
      BY <1>8 DEF Inv
    <3> QED
      BY <1>2, <3>1 DEF RunsHere, Roots, Ancestor, Behind, Index, At
  <2> QED
    BY <2>2, <2>3
<1> QED
  BY <1>2, <1>3, <1>4, <1>5, <1>6, <1>7, <1>8 DEF Inv

LEMMA FollowKeeps ==
    ASSUME Inv, NEW f \in follows, Follow(f)
    PROVE  Inv'
  BY FollowReadKeeps, FollowMoveKeeps, FollowChildKeeps, AnswerKeeps, WorkerDiesKeeps DEF Follow

LEMMA InvNext ==
    ASSUME Inv, OneAtATime, [Next]_vars
    PROVE  Inv'
<1>1. ASSUME NEW p \in Process, Command(p) \/ Step(p) \/ Work(p) PROVE Inv'
  <2>1. CASE Edit(p) \/ TakeIn(p) \/ SpawnFrom(p) \/ Kill(p)
    BY <2>1, EditKeeps, TakeInKeeps, SpawnFromKeeps, KillKeeps
  <2>2. CASE \E t \in Children : Pull(p, t)
    BY <2>2, PullKeeps
  <2> QED
    BY <1>1, <2>1, <2>2, CommandKeeps, StepKeeps DEF Work
<1>2. ASSUME NEW f \in follows, Follow(f) PROVE Inv'
  BY <1>2, FollowKeeps
<1>3. ASSUME NEW t \in Updates, Update(t) PROVE Inv'
  BY <1>3, UpdateKeeps
<1>4. CASE UNCHANGED vars
  BY <1>4, UnchangedKeeps
<1> QED
  BY <1>1, <1>2, <1>3, <1>4 DEF Next

-----------------------------------------------------------------------------
(* The start: a project that was adopted, on its remote or not yet.        *)

LEMMA InitInv == ASSUME Init PROVE Inv
<1>1. /\ Home \in Range(Host) /\ \A p \in Process : Host[p] \in Range(Host)
      /\ linked \in BOOLEAN
  BY RemoteAssumption, HostIs DEF Init
<1> DEFINE one == [of |-> "a", pins |-> <<>>, secret |-> FALSE, behind |-> {1}]
           two == [of |-> Root, pins |-> [a |-> 1, root |-> 2], secret |-> FALSE, behind |-> {2}]
<1>2. made = <<one, two>>
  BY DEF Init
<1>3. [a |-> 1, root |-> 2] \in Pins /\ [a |-> 1, root |-> 2] = [[a |-> 1, root |-> 2] EXCEPT ![Root] = 2]
  <2>1. [a |-> 1, root |-> 2] \in [{"a", "root"} -> Nat] /\ {"a", "root"} \in SUBSET Tracker
    BY TrackerIs
  <2> QED
    BY <2>1, PinsFrom DEF Root
<1>4. one \in Commit /\ two \in Commit
  BY <1>3, NoPins, TrackerIs DEF Commit
<1>5. made \in Seq(Commit) /\ Len(made) = 2 /\ made[1] = one /\ made[2] = two
  BY <1>2, <1>4
<1>6. Graph(made)
  <2>1. Node(made, 1)
    BY <1>5, NoPins DEF Node
  <2>2. Node(made, 2)
    BY <1>5, NoPins DEF Node, Root
  <2>3. \A c \in 1 .. Len(made) : c = 1 \/ c = 2
    BY <1>5
  <2> QED
    BY <1>5, <2>1, <2>2, <2>3 DEF Graph
<1>7. PICK index : /\ index = Index(2) /\ index \in Pins /\ index = [a |-> 1, root |-> 2] /\ DOMAIN index = {"a", "root"}
                   /\ index["a"] = 1 /\ index[Root] = 2
  BY <1>3, <1>5 DEF Index, Root
<1>8. 2 \in Roots /\ 2 \in Nat /\ 1 \in Nat /\ Ancestor(2, 2)
  BY <1>5 DEF Roots, RootsOf, Root, Ancestor, Behind
<1>9. Tree(index) /\ IsIndex(index) /\ Tree(<<>>)
  BY <1>5, <1>7, <1>8, NoPins DEF Tree, Names, NamesIn, IsIndex, Root
<1>10. /\ inst = [p \in Process |-> IF p \in Fresh \union Mirror \/ (~linked /\ Host[p] # Home)
                                    THEN [head |-> 0, tip |-> 0] ELSE [head |-> 2, tip |-> 2]]
       /\ main = [m \in Range(Host) |-> IF \E p \in Process : Host[p] = m /\ inst[p].head # 0
                                        THEN index ELSE <<>>]
       /\ kept = main /\ has = [m \in Range(Host) |-> Range(main[m])]
       /\ list = IF linked THEN index ELSE <<>>
       /\ was = IF linked THEN {2} ELSE {}
       /\ pending = {} /\ stored = {} /\ follows = {} /\ acked = {}
       /\ fork = [p \in Process |-> <<>>]
       /\ op = [p \in Process |-> NoOp]
       /\ spent = [commands |-> 0, updates |-> 0, kills |-> 0, deaths |-> 0]
  BY <1>7 DEF Init
<1>11. \A p \in Process : op[p] = NoOp /\ NoOp.at = "idle" /\ NoOp.cmd = "none" /\ NoOp \in Op
  <2>1. NoOp \in Op
    BY NoPins DEF NoOp, Op
  <2> QED
    BY <1>10, <2>1 DEF NoOp
<1>12. ASSUME NEW p \in Process
       PROVE  /\ inst[p].head \in {0, 2} /\ inst[p].tip = inst[p].head
              /\ inst[p] \in [head : Nat, tip : Nat]
              /\ ~linked /\ inst[p].head # 0 => Host[p] = Home
  BY <1>10
<1>13. ASSUME NEW m \in Range(Host)
       PROVE  /\ main[m] \in {index, <<>>} /\ main[m] \in Pins /\ Tree(main[m]) /\ Tree(kept[m])
              /\ has[m] \in SUBSET Nat
              /\ (\E p \in Process : Host[p] = m /\ inst[p].head # 0) => main[m] = index
  <2>1. /\ main[m] \in {index, <<>>}
        /\ (\E p \in Process : Host[p] = m /\ inst[p].head # 0) => main[m] = index
    BY <1>10
  <2>2. main[m] \in Pins /\ Tree(main[m]) /\ kept[m] = main[m]
    BY <1>7, <1>9, <1>10, <2>1, NoPins
  <2>3. Range(main[m]) \subseteq Nat
    BY <2>2, PinsOf DEF Range
  <2> QED
    BY <1>10, <2>1, <2>2, <2>3
<1>14. PICK r : r = [t \in {"a", Root} |-> [NewRepo EXCEPT !.main = index[t], !.holds = {index[t]}]]
  OBVIOUS
<1>15. /\ r \in Maps(Repo) /\ DOMAIN r = {"a", "root"}
       /\ \A t \in DOMAIN r : r[t].main = index[t] /\ r[t].holds = {index[t]}
  <2>1. \A t \in {"a", Root} : index[t] \in Nat
    BY <1>7 DEF Root
  <2>2. ASSUME NEW t \in {"a", Root} PROVE r[t] \in Repo /\ r[t].main = index[t] /\ r[t].holds = {index[t]}
    BY <1>14, <2>1, NewRepoIs DEF Repo
  <2>3. {"a", Root} \in SUBSET Tracker /\ DOMAIN r = {"a", Root}
    BY <1>14, TrackerIs DEF Root
  <2>4. r \in [{"a", Root} -> Repo]
    BY <1>14, <2>2
  <2> QED
    BY <2>2, <2>3, <2>4 DEF Maps, Root
<1>16. repo = IF linked THEN r ELSE <<>>
  BY <1>7, <1>14 DEF Init
<1>17. <<>> \in Maps(Repo) /\ <<>> \in Maps(SUBSET Nat)
  <2>1. <<>> \in [{} -> Repo] /\ <<>> \in [{} -> SUBSET Nat]
    BY NoPins
  <2> QED
    BY <2>1 DEF Maps
<1>18. TypeOK
  <2>1. inst \in [Process -> [head : Nat, tip : Nat]] /\ op \in [Process -> Op]
    BY <1>10, <1>11, <1>12
  <2>2. /\ main \in [Range(Host) -> Pins] /\ kept \in [Range(Host) -> Pins] /\ has \in [Range(Host) -> SUBSET Nat]
    BY <1>10, <1>13
  <2>3. list \in Pins /\ was \in SUBSET Nat /\ repo \in Maps(Repo)
    BY <1>7, <1>10, <1>15, <1>16, <1>17, NoPins
  <2>4. fork \in [Process -> Maps(SUBSET Nat)] /\ spent \in [{"commands", "updates", "kills", "deaths"} -> Nat]
    BY <1>10, <1>17
  <2> QED
    BY <1>1, <1>10, <2>1, <2>2, <2>3, <2>4 DEF TypeOK
<1>19. Refs
  <2>1. InstRefs
    BY <1>8, <1>12 DEF InstRefs, Checkpointed
  <2>2. MainRefs
    BY <1>13 DEF MainRefs
  <2>3. StoredRefs /\ FollowRefs
    BY <1>8, <1>10 DEF StoredRefs, FollowRefs
  <2>4. RepoRefs
    BY <1>5, <1>7, <1>15, <1>16, NoPins DEF RepoRefs, Root
  <2>5. \A p \in Process : OpRefs(p)
    BY <1>9, <1>11 DEF OpRefs, NoOp, Idle, Tree
  <2> QED
    BY <2>1, <2>2, <2>3, <2>4, <2>5 DEF Refs
<1>20. ASSUME linked PROVE OnRemote /\ \A p \in Process : Runs(p)
  <2>1. list = index /\ was = {2} /\ repo = r /\ follows = {}
    BY <1>10, <1>16, <1>20
  <2>2. OnRemote
    BY <1>7, <1>8, <1>9, <1>15, <2>1 DEF OnRemote, Root
  <2>3. \A p \in Process : Runs(p)
    BY <1>11 DEF Runs
  <2> QED
    BY <2>2, <2>3
<1>21. ASSUME ~linked PROVE AtHome /\ \A p \in Process : RunsHere(p)
  <2>1. \A p \in Process : inst[p].head # 0 => Host[p] = Home /\ Here(main[Home]) /\ Here(kept[Home])
    <3> SUFFICES ASSUME NEW p \in Process, inst[p].head # 0
                 PROVE  Host[p] = Home /\ Here(main[Home]) /\ Here(kept[Home])
      OBVIOUS
    <3>1. Host[p] = Home
      BY <1>12, <1>21
    <3>2. main[Home] = index
      BY <1>1, <1>13, <3>1
    <3> QED
      BY <1>7, <1>10, <3>1, <3>2 DEF Here, Root
  <2>2. AtHome
    BY <1>10, <1>11, <1>21, <2>1 DEF AtHome, Idle
  <2>3. \A p \in Process : RunsHere(p)
    BY <1>11 DEF RunsHere
  <2> QED
    BY <2>2, <2>3
<1>22. NothingLost
  BY <1>10 DEF NothingLost
<1> QED
  BY <1>6, <1>18, <1>19, <1>20, <1>21, <1>22 DEF Inv

-----------------------------------------------------------------------------
(* What is proved of the specification.  A project that is not on its      *)
(* remote yet runs one command at a time: it holds the project's lock      *)
(* (InstanceLock; the commands of manager.rs that merge take it).          *)

THEOREM RemoteInv == ASSUME OneAtATime PROVE Spec => []Inv
<1>1. Init => Inv
  BY InitInv
<1>2. Inv /\ [Next]_vars => Inv'
  BY InvNext
<1> QED
  BY <1>1, <1>2, PTL DEF Spec

\* Every root commit a merge said it merged stays behind what `main` is: the
\* head the remote lists, or root's branch in the store until the project is
\* on a remote.  Commands of any number of instances and machines, each killed
\* or cut off anywhere, and landings whose workers die, may interleave.
THEOREM MergedStays == ASSUME OneAtATime PROVE Spec => []NothingLost
<1>1. Inv => NothingLost
  BY DEF Inv
<1> QED
  BY <1>1, RemoteInv, PTL

-----------------------------------------------------------------------------
(* Root's branch follows `main`, whoever follows and in whatever order.    *)

\* A landing about to set root's branch to a head `main` has left; one that
\* will set it right if nothing comes between; and one that will all the same.
Stale(f) == f.at = "move" /\ f.held = repo[Root].main /\ f.head # list[Root]
Rights(f) ==
    \/ f.at = "read" /\ f.tries <= 2
    \/ f.at = "move" /\ f.head = list[Root] /\ (f.held = repo[Root].main \/ f.tries <= 1)
RightsYet(f) == f.tries <= 1 /\ (f.at = "read" \/ (f.at = "move" /\ f.head = list[Root]))

\* Of two landings that saw the branch at different heads, the one that saw
\* the earlier will not set it to a later: a stale one never takes two tries
\* from one that still has them.
InTurn == \A f, g \in follows : f.at = "move" /\ g.at = "move" /\ f.held < g.held => f.head <= g.head
Righted == spent.deaths = 0 /\ repo[Root].main # list[Root] =>
               /\ \E f \in follows : Rights(f)
               /\ (\E f \in follows : Stale(f)) => \E f \in follows : RightsYet(f)
FollowsOn == linked => InTurn /\ Righted

LEMMA BranchIs ==
    ASSUME Inv, linked
    PROVE  /\ (\A w \in was : w \in Nat) /\ list[Root] \in was /\ repo[Root].main \in was
           /\ \A w \in was : w <= list[Root]
           /\ \A f \in follows : f.at = "move" =>
                 f.head \in was /\ f.held \in was /\ f.held <= f.head /\ f.held <= repo[Root].main
<1>1. Graph(made) /\ OnRemote /\ FollowRefs /\ Len(made) \in Nat
  BY DEF Inv, Refs, Graph
<1>2. \A w \in was : w \in 1 .. Len(made) /\ w \in Nat
  BY <1>1, IndexIs DEF FollowRefs
<1>3. ASSUME NEW a \in was, NEW b \in was, Ancestor(a, b) PROVE a <= b
  <2>1. Behind(b) = made[b].behind /\ made[b].behind \subseteq 1 .. b
    BY <1>1, <1>2, AncestorIs DEF Graph, Node
  <2> QED
    BY <1>2, <1>3, <2>1 DEF Ancestor
<1> QED
  BY <1>1, <1>2, <1>3 DEF OnRemote

LEMMA SameFollowsOn ==
    ASSUME Inv, FollowsOn, linked, follows' \subseteq follows, \A f \in follows \ follows' : f.at = "moves",
           list'[Root] = list[Root], repo'[Root].main = repo[Root].main, spent'.deaths = spent.deaths
    PROVE  FollowsOn'
<1>1. InTurn /\ Righted
  BY DEF FollowsOn
<1>2. InTurn'
  BY <1>1 DEF InTurn
<1>3. Righted'
  BY <1>1 DEF Righted, Rights, Stale, RightsYet
<1> QED
  BY <1>2, <1>3 DEF FollowsOn

LEMMA FinishFollowsOn ==
    ASSUME Inv, FollowsOn, linked, NEW p \in Process, Finish(p)
    PROVE  FollowsOn'
<1>1. InTurn /\ Righted /\ repo' = repo /\ spent' = spent
  BY DEF FollowsOn, Finish
<1>2. CASE list' = list /\ follows' = follows
  BY <1>1, <1>2, SameFollowsOn
<1>3. ASSUME NEW g, follows' = follows \union {g}, g.at = "read", g.tries = 0
      PROVE  FollowsOn'
  <2>1. g \in follows' /\ Rights(g)' /\ RightsYet(g)'
    BY <1>3 DEF Rights, RightsYet
  <2>2. InTurn'
    BY <1>1, <1>3 DEF InTurn
  <2>3. Righted'
    BY <2>1 DEF Righted
  <2> QED
    BY <2>2, <2>3 DEF FollowsOn
<1> DEFINE asked == {v \in op[p].moves : v.tracker \in op[p].writes}
           new == [by |-> p, moves |-> asked, at |-> "read", held |-> 0, head |-> 0, drop |-> {}, tries |-> 0]
<1>4. (list' = list /\ follows' = follows) \/ follows' = follows \union {new}
  BY Zenon DEF Finish
<1>5. new.at = "read" /\ new.tries = 0
  OBVIOUS
<1> HIDE DEF new
<1> QED
  BY <1>2, <1>3, <1>4, <1>5

LEMMA ReadFollowsOn ==
    ASSUME Inv, FollowsOn, NEW f \in follows, FollowRead(f)
    PROVE  FollowsOn'
<1>1. /\ linked /\ f \in Landing /\ f.at = "read" /\ InTurn /\ Righted
      /\ UNCHANGED <<made, inst, local, linked, remote, repo, fork, op, acked, spent>>
  BY FollowIs DEF FollowsOn, FollowRead
<1>2. list' = list /\ repo' = repo /\ spent' = spent
  BY <1>1 DEF remote
<1>3. PICK head, held, landed : head = list[Root] /\ held = repo[Root].main
                                /\ landed = repo[Root].landing \intersect (was \union {head})
  OBVIOUS
<1>4. /\ (\A w \in was : w \in Nat) /\ head \in was /\ held \in was /\ \A w \in was : w <= head
      /\ \A g \in follows : g.at = "move" =>
                 g.head \in was /\ g.held \in was /\ g.held <= g.head /\ g.held <= held
  BY <1>1, <1>3, BranchIs
<1>5. CASE held = head /\ landed = {}
  <2>1. PICK g : g = [f EXCEPT !.at = "moves"]
    OBVIOUS
  <2>2. follows' = (follows \ {f}) \union {g}
    BY <1>3, <1>5, <2>1 DEF FollowRead, Following
  <2>3. g.at = "moves"
    BY <1>1, <2>1 DEF Landing
  <2>4. InTurn'
    BY <1>1, <2>2, <2>3 DEF InTurn
  <2>5. Righted'
    BY <1>2, <1>3, <1>5 DEF Righted
  <2> QED
    BY <2>4, <2>5 DEF FollowsOn
<1>6. CASE ~(held = head /\ landed = {})
  <2>1. PICK g : g = [f EXCEPT !.at = "move", !.head = head, !.held = held, !.drop = landed]
    OBVIOUS
  <2>2. follows' = (follows \ {f}) \union {g}
    BY <1>3, <1>6, <2>1, Zenon DEF FollowRead, Following
  <2>3. g.at = "move" /\ g.head = head /\ g.held = held /\ g.tries = f.tries
    BY <1>1, <2>1 DEF Landing
  <2>4. InTurn'
    <3> SUFFICES ASSUME NEW a \in follows', NEW b \in follows', a.at = "move", b.at = "move", a.held < b.held
                 PROVE  a.head <= b.head
      BY DEF InTurn
    <3>1. CASE a = g
      BY <1>4, <2>2, <2>3, <3>1
    <3>2. CASE a # g /\ b = g
      BY <1>4, <2>2, <2>3, <3>2
    <3>3. CASE a # g /\ b # g
      BY <1>1, <2>2, <3>3 DEF InTurn
    <3> QED
      BY <3>1, <3>2, <3>3
  <2>5. Righted'
    <3> SUFFICES ASSUME spent.deaths = 0, held # head
                 PROVE  /\ \E h \in follows' : Rights(h)'
                        /\ (\E h \in follows' : Stale(h)') => \E h \in follows' : RightsYet(h)'
      BY <1>2, <1>3 DEF Righted
    <3>1. g \in follows' /\ Rights(g)' /\ ~Stale(g)'
      BY <1>2, <1>3, <2>2, <2>3 DEF Rights, Stale
    <3>2. ASSUME NEW h \in follows', Stale(h)' PROVE \E s \in follows' : RightsYet(s)'
      <4>1. h \in follows /\ Stale(h)
        BY <1>2, <2>2, <3>1, <3>2 DEF Stale
      <4>2. PICK s \in follows : RightsYet(s)
        BY <1>1, <1>3, <4>1 DEF Righted
      <4>3. CASE s = f
        BY <1>2, <1>3, <2>2, <2>3, <4>2, <4>3 DEF RightsYet
      <4>4. CASE s # f
        BY <1>2, <2>2, <4>2, <4>4 DEF RightsYet
      <4> QED
        BY <4>3, <4>4
    <3> QED
      BY <3>1, <3>2
  <2> QED
    BY <2>4, <2>5 DEF FollowsOn
<1> QED
  BY <1>5, <1>6

LEMMA MoveFollowsOn ==
    ASSUME Inv, FollowsOn, NEW f \in follows, FollowMove(f)
    PROVE  FollowsOn'
<1>1. /\ linked /\ f \in Landing /\ f.at = "move" /\ InTurn /\ Righted /\ TypeOK /\ OnRemote
      /\ UNCHANGED <<made, inst, local, linked, remote, fork, op, acked, spent>>
  BY FollowIs DEF Inv, FollowsOn, FollowMove
<1>2. list' = list /\ spent' = spent
  BY <1>1 DEF remote
<1>3. PICK head, held, branch, top : head = f.head /\ held = f.held /\ branch = repo[Root].main /\ top = list[Root]
  OBVIOUS
<1>4. /\ (\A w \in was : w \in Nat) /\ head \in was /\ held \in was /\ branch \in was /\ top \in was
      /\ held <= head /\ held <= branch /\ \A w \in was : w <= top
      /\ \A g \in follows : g.at = "move" => g.head \in was /\ g.held \in was /\ g.held <= g.head /\ g.held <= branch
  BY <1>1, <1>3, BranchIs
<1>5. repo'[Root].main = IF branch = held THEN head ELSE branch
  <2>1. Root \in DOMAIN repo /\ repo[Root] \in Repo
    BY <1>1, RepoType DEF OnRemote, IsIndex
  <2> QED
    BY <1>3, <2>1 DEF FollowMove, Unmoved, Repo
<1>6. PICK tries \in Nat : tries = f.tries
  BY <1>1 DEF Landing
<1>7. PICK g : /\ follows' = (follows \ {f}) \union {g}
               /\ g.at # "move"
               /\ held # head /\ branch # held /\ tries <= 1 => g.at = "read" /\ g.tries <= 2
  <2>1. PICK next : next = IF (held # head /\ branch # held) /\ tries + 1 < FollowAttempts
                           THEN [f EXCEPT !.at = "read", !.tries = tries + 1]
                           ELSE [f EXCEPT !.at = "moves"]
    OBVIOUS
  <2>2. follows' = (follows \ {f}) \union {next}
    BY <1>3, <1>6, <2>1 DEF FollowMove, Following, Unmoved
  <2>3. CASE (held # head /\ branch # held) /\ tries + 1 < FollowAttempts
    <3>1. PICK more \in Nat : more = tries + 1
      OBVIOUS
    <3>2. next = [f EXCEPT !.at = "read", !.tries = more] /\ more <= 2
      BY <2>1, <2>3, <3>1 DEF FollowAttempts
    <3>3. next.at = "read" /\ next.tries = more
      BY <1>1, <3>2 DEF Landing
    <3> QED
      BY <2>2, <3>2, <3>3
  <2>4. CASE ~((held # head /\ branch # held) /\ tries + 1 < FollowAttempts)
    <3>1. next.at = "moves"
      BY <1>1, <2>1, <2>4 DEF Landing
    <3> QED
      BY <2>2, <2>4, <3>1 DEF FollowAttempts
  <2> QED
    BY <2>3, <2>4
<1>8. InTurn'
  BY <1>1, <1>7 DEF InTurn
<1>9. CASE branch = top
  <2>1. repo'[Root].main = top
    BY <1>4, <1>5, <1>9
  <2>2. Righted'
    BY <1>2, <1>3, <2>1 DEF Righted
  <2> QED
    BY <1>8, <2>2 DEF FollowsOn
<1>10. CASE branch # top /\ spent.deaths = 0
  <2>1. PICK w \in follows : Rights(w)
    BY <1>1, <1>3, <1>10 DEF Righted
  <2>2. CASE branch = held
    <3>1. CASE head = top
      <4>1. Righted'
        BY <1>2, <1>3, <1>5, <2>2, <3>1 DEF Righted
      <4> QED
        BY <1>8, <4>1 DEF FollowsOn
    <3>2. CASE head # top
      <4>1. Stale(f) /\ ~RightsYet(f)
        BY <1>1, <1>3, <2>2, <3>2 DEF Stale, RightsYet
      <4>2. PICK s \in follows : RightsYet(s)
        BY <1>1, <1>3, <1>10, <4>1 DEF Righted
      <4>3. s \in follows' /\ s \in Landing
        BY <1>1, <1>7, <4>1, <4>2 DEF TypeOK
      <4>4. RightsYet(s)'
        BY <1>2, <4>2 DEF RightsYet
      <4>5. Rights(s)'
        <5>1. PICK n \in Nat : n = s.tries
          BY <4>3 DEF Landing
        <5>2. n <= 1 /\ (s.at = "read" \/ (s.at = "move" /\ s.head = list[Root]))
          BY <4>2, <5>1 DEF RightsYet
        <5> QED
          BY <1>2, <5>1, <5>2 DEF Rights
      <4>6. Righted'
        BY <4>3, <4>4, <4>5 DEF Righted
      <4> QED
        BY <1>8, <4>6 DEF FollowsOn
    <3> QED
      BY <3>1, <3>2
  <2>3. CASE branch # held
    <3>1. repo'[Root].main = branch /\ held < branch /\ branch < top
      BY <1>4, <1>5, <1>10, <2>3
    <3>2. head = top => held # head
      BY <1>4, <3>1
    <3>3. \E h \in follows' : Rights(h)'
      <4>1. CASE w = f
        <5>1. head = top /\ tries <= 1
          BY <1>1, <1>3, <1>6, <2>1, <2>3, <4>1 DEF Rights
        <5>2. g \in follows' /\ g.at = "read" /\ g.tries <= 2
          BY <1>7, <2>3, <3>2, <5>1
        <5> QED
          BY <5>2 DEF Rights
      <4>2. CASE w # f
        <5>1. w \in follows' /\ Rights(w)'
          BY <1>2, <1>3, <1>7, <2>1, <3>1, <4>2 DEF Rights
        <5> QED
          BY <5>1
      <4> QED
        BY <4>1, <4>2
    <3>4. ASSUME NEW h \in follows', Stale(h)' PROVE \E s \in follows' : RightsYet(s)'
      <4>1. h \in follows /\ Stale(h) /\ h.at = "move" /\ h.held = branch /\ h.head # top
        BY <1>2, <1>3, <1>7, <3>1, <3>4 DEF Stale
      <4>2. PICK s \in follows : RightsYet(s)
        BY <1>1, <1>3, <1>10, <4>1 DEF Righted
      <4>3. s # f
        <5>1. head <= h.head /\ h.head <= top /\ h.head \in Nat /\ top \in Nat
          BY <1>1, <1>3, <1>4, <3>1, <4>1 DEF InTurn
        <5>2. head # top
          BY <4>1, <5>1
        <5> QED
          BY <1>1, <1>3, <4>2, <5>2 DEF RightsYet
      <4> QED
        BY <1>2, <1>7, <4>2, <4>3 DEF RightsYet
    <3>5. Righted'
      BY <3>3, <3>4 DEF Righted
    <3> QED
      BY <1>8, <3>5 DEF FollowsOn
  <2> QED
    BY <2>2, <2>3
<1>11. CASE spent.deaths # 0
  BY <1>2, <1>8, <1>11 DEF FollowsOn, Righted
<1> QED
  BY <1>9, <1>10, <1>11

LEMMA ChildFollowsOn ==
    ASSUME Inv, FollowsOn, NEW f \in follows, FollowChild(f)
    PROVE  FollowsOn'
<1>1. /\ linked /\ f \in Landing /\ f.at = "moves" /\ InTurn /\ Righted /\ TypeOK /\ OnRemote
      /\ UNCHANGED <<made, inst, local, linked, remote, fork, op, acked, spent>>
  BY FollowIs DEF Inv, FollowsOn, FollowChild
<1>2. list' = list /\ spent' = spent
  BY <1>1 DEF remote
<1>3. PICK v \in f.moves :
         /\ repo' = [repo EXCEPT ![v.tracker].main = IF @ = v.old THEN v.new ELSE @,
                                 ![v.tracker].landing = @ \ {v.new}]
         /\ Following(f, [f EXCEPT !.moves = @ \ {v}])
  BY DEF FollowChild
<1>4. v.tracker # Root
  BY FollowIs, TrackerIs DEF Move
<1>5. repo'[Root] = repo[Root]
  BY <1>1, <1>3, <1>4 DEF OnRemote, IsIndex
<1>6. PICK g : follows' = (follows \ {f}) \union {g} /\ g = [f EXCEPT !.moves = @ \ {v}]
  BY <1>3 DEF Following
<1>7. g.at = "moves"
  BY <1>1, <1>6 DEF Landing
<1>8. InTurn'
  BY <1>1, <1>6, <1>7 DEF InTurn
<1>9. Righted'
  BY <1>1, <1>2, <1>5, <1>6, <1>7 DEF Righted, Rights, Stale, RightsYet
<1> QED
  BY <1>8, <1>9 DEF FollowsOn

LEMMA EndFollowsOn ==
    ASSUME Inv, FollowsOn, NEW f \in follows, Answer(f) \/ WorkerDies(f)
    PROVE  FollowsOn'
<1>1. linked /\ TypeOK
  BY FollowIs DEF Inv
<1>2. CASE Answer(f)
  <2>1. /\ f.at = "moves" /\ follows' = follows \ {f}
        /\ UNCHANGED <<made, inst, local, linked, remote, repo, fork, acked, spent>>
    BY <1>2 DEF Answer
  <2> QED
    BY <1>1, <2>1, SameFollowsOn DEF remote
<1>3. CASE WorkerDies(f)
  <2>1. /\ follows' = follows \ {f} /\ spent' = [spent EXCEPT !["deaths"] = @ + 1]
    BY <1>3 DEF WorkerDies, Spend
  <2>2. spent'.deaths # 0
    BY <1>1, <2>1 DEF TypeOK
  <2>3. InTurn'
    BY <1>1, <2>1 DEF InTurn, FollowsOn
  <2> QED
    BY <2>2, <2>3 DEF FollowsOn, Righted
<1> QED
  BY <1>2, <1>3

LEMMA QuietFollowsOn ==
    ASSUME Inv, FollowsOn, linked' = linked, follows' = follows, list' = list, repo' = repo,
           spent'.deaths = spent.deaths
    PROVE  FollowsOn'
<1>1. CASE linked
  BY <1>1, SameFollowsOn
<1>2. CASE ~linked
  BY <1>2 DEF FollowsOn
<1> QED
  BY <1>1, <1>2

LEMMA SpendDeaths ==
    ASSUME TypeOK, NEW what \in {"commands", "updates", "kills"}, Spend(what)
    PROVE  spent'.deaths = spent.deaths
  BY DEF TypeOK, Spend

LEMMA CommandFollowsOn ==
    ASSUME Inv, FollowsOn, NEW p \in Process, Command(p)
    PROVE  FollowsOn'
<1>1. TypeOK
  BY DEF Inv
<1>2. ASSUME NEW cmd, Begin(p, cmd) PROVE FollowsOn'
  <2>1. linked' = linked /\ follows' = follows /\ list' = list /\ repo' = repo /\ Spend("commands")
    BY <1>2 DEF Begin, remote
  <2> QED
    BY <1>1, <2>1, SpendDeaths, QuietFollowsOn
<1>3. CASE MirrorPull(p)
  <2>1. linked' = linked /\ follows' = follows /\ list' = list /\ repo' = repo /\ Spend("commands")
    BY <1>3 DEF MirrorPull, remote
  <2> QED
    BY <1>1, <2>1, SpendDeaths, QuietFollowsOn
<1> QED
  BY <1>2, <1>3, Zenon DEF Command, Push, ProjectPush

LEMMA WorkFollowsOn ==
    ASSUME Inv, FollowsOn, NEW p \in Process, Work(p)
    PROVE  FollowsOn'
<1>1. TypeOK
  BY DEF Inv
<1>2. CASE Edit(p)
  BY <1>2, QuietFollowsOn DEF Edit, remote
<1>3. CASE TakeIn(p)
  BY <1>3, QuietFollowsOn DEF TakeIn, remote
<1>4. CASE SpawnFrom(p)
  BY <1>4, QuietFollowsOn DEF SpawnFrom, remote
<1>5. CASE Kill(p)
  BY <1>1, <1>5, SpendDeaths, QuietFollowsOn DEF Kill, remote
<1>6. ASSUME NEW t, Pull(p, t) PROVE FollowsOn'
  BY <1>6, QuietFollowsOn DEF Pull, remote
<1> QED
  BY <1>2, <1>3, <1>4, <1>5, <1>6, Zenon DEF Work

LEMMA UpdateFollowsOn ==
    ASSUME Inv, FollowsOn, NEW t \in Updates, Update(t)
    PROVE  FollowsOn'
<1>1. TypeOK /\ linked /\ OnRemote
  BY DEF Inv, Update
<1>2. t # Root
  BY RemoteAssumption, TrackerIs
<1>3. repo'[Root] = repo[Root]
  BY <1>1, <1>2 DEF Update, OnRemote, IsIndex
<1>4. follows' = follows /\ list' = list /\ Spend("updates")
  BY DEF Update, remote
<1> QED
  BY <1>1, <1>3, <1>4, SpendDeaths, SameFollowsOn

LEMMA SeedFollowsOn ==
    ASSUME Inv, FollowsOn, linked, NEW p \in Process, MergeSeed(p)
    PROVE  FollowsOn'
<1>1. /\ TypeOK /\ ~Idle(p) /\ op[p].at = "seed" /\ op[p].todo # <<>>
      /\ follows' = follows /\ list' = list /\ spent' = spent /\ linked' = linked
  BY DEF Inv, Idle, MergeSeed, remote
<1>2. op[p] \in Op /\ Runs(p) /\ OnRemote
  BY <1>1, Busied
<1>3. PICK t : t = Head(op[p].todo)
  OBVIOUS
<1>4. t \in Tracker /\ t \in Range(op[p].todo)
  <2>1. op[p].todo \in Seq(Tracker)
    BY <1>2 DEF Op
  <2> QED
    BY <1>1, <1>3, <2>1, HeadTailIs
<1>5. t # Root
  <2>1. Range(op[p].todo) \subseteq DOMAIN Index(op[p].merged) \ DOMAIN op[p].base /\ IsIndex(op[p].base)
    BY <1>1, <1>2 DEF Runs
  <2> QED
    BY <1>4, <2>1 DEF IsIndex
<1>6. repo' = repo \/ \E s : repo' = Put(repo, t, s)
  BY <1>3, Zenon DEF MergeSeed
<1>7. repo'[Root] = repo[Root]
  BY <1>2, <1>5, <1>6 DEF Put, OnRemote, IsIndex
<1> QED
  BY <1>1, <1>7, SameFollowsOn

LEMMA LandFollowsOn ==
    ASSUME Inv, FollowsOn, linked, NEW p \in Process, LandNext(p)
    PROVE  FollowsOn'
<1>1. /\ TypeOK /\ OnRemote
      /\ follows' = follows /\ list' = list /\ spent' = spent /\ linked' = linked
  BY DEF Inv, LandNext, remote
<1>2. PICK t, c : repo' = [repo EXCEPT ![t].landing = @ \union {c}, ![t].holds = @ \union Behind(c)]
  BY Zenon DEF LandNext
<1>3. Root \in DOMAIN repo /\ repo[Root] \in Repo
  BY <1>1, RepoType DEF OnRemote, IsIndex
<1>4. repo'[Root].main = repo[Root].main
  BY <1>2, <1>3 DEF Repo
<1> QED
  BY <1>1, <1>4, SameFollowsOn

LEMMA BranchFollowsOn ==
    ASSUME Inv, Inv', ~linked, NEW p \in Process, CreateBranch(p)
    PROVE  FollowsOn'
<1>1. follows' = {} /\ linked' /\ was' = {op[p].base[Root]}
  BY DEF Inv, AtHome, CreateBranch
<1>2. list'[Root] \in was' /\ repo'[Root].main \in was'
  BY <1>1 DEF Inv, OnRemote
<1> QED
  BY <1>1, <1>2 DEF FollowsOn, InTurn, Righted

LEMMA StepFollowsOn ==
    ASSUME Inv, Inv', FollowsOn, NEW p \in Process, Step(p)
    PROVE  FollowsOn'
<1>1. CASE PublishRead(p) \/ PublishNext(p) \/ PublishEnd(p)
  <2>1. linked' = linked /\ follows' = follows /\ list' = list /\ repo' = repo /\ spent' = spent
    <3>1. CASE PublishRead(p)
      BY <3>1 DEF PublishRead, remote
    <3>2. CASE PublishNext(p)
      BY <3>2 DEF PublishNext, remote
    <3>3. CASE PublishEnd(p)
      BY <3>3 DEF PublishEnd, remote
    <3> QED
      BY <1>1, <3>1, <3>2, <3>3
  <2> QED
    BY <2>1, QuietFollowsOn
<1>2. CASE MergeRead(p) \/ MergeFetch(p) \/ MergeMake(p)
  <2>1. linked' = linked /\ follows' = follows /\ list' = list /\ repo' = repo /\ spent' = spent
    <3>1. CASE MergeRead(p)
      BY <3>1 DEF MergeRead, remote
    <3>2. CASE MergeFetch(p)
      BY <3>2 DEF MergeFetch, remote
    <3>3. CASE MergeMake(p)
      <4>1. UNCHANGED <<inst, main, kept, linked, remote, repo, fork, follows, acked, spent>>
        BY <3>3, Zenon DEF MergeMake
      <4> QED
        BY <4>1 DEF remote
    <3> QED
      BY <1>2, <3>1, <3>2, <3>3
  <2> QED
    BY <2>1, QuietFollowsOn
<1>3. CASE MergeSeed(p)
  <2>1. linked
    BY <1>3, ThereOnly DEF MergeSeed
  <2> QED
    BY <1>3, <2>1, SeedFollowsOn
<1>4. CASE MergeBegin(p) \/ MirrorLand(p)
  <2>1. linked' = linked /\ follows' = follows /\ list' = list /\ repo' = repo /\ spent' = spent
    BY <1>4 DEF MergeBegin, MirrorLand, remote
  <2> QED
    BY <2>1, QuietFollowsOn
<1>5. CASE LandNext(p)
  <2>1. linked
    BY <1>5, ThereOnly DEF LandNext
  <2> QED
    BY <1>5, <2>1, LandFollowsOn
<1>6. CASE Finish(p)
  <2>1. linked
    BY <1>6, ThereOnly DEF Finish
  <2> QED
    BY <1>6, <2>1, FinishFollowsOn
<1>7. CASE LocalRoot(p) \/ LocalKeep(p) \/ LocalEnd(p)
  <2>1. linked' = linked /\ follows' = follows /\ list' = list /\ repo' = repo /\ spent' = spent
    BY <1>7 DEF LocalRoot, LocalKeep, LocalEnd, remote
  <2> QED
    BY <2>1, QuietFollowsOn
<1>8. CASE CreateRead(p)
  <2>1. linked' = linked /\ follows' = follows /\ list' = list /\ repo' = repo /\ spent' = spent
    BY <1>8 DEF CreateRead, remote
  <2> QED
    BY <2>1, QuietFollowsOn
<1>9. CASE CreateSeed(p)
  <2>1. ~linked /\ linked' = linked
    BY <1>9, HereOnly DEF CreateSeed
  <2> QED
    BY <2>1 DEF FollowsOn
<1>10. CASE CreateBranch(p)
  <2>1. ~linked
    BY <1>10, HereOnly DEF CreateBranch
  <2> QED
    BY <1>10, <2>1, BranchFollowsOn
<1> QED
  BY <1>1, <1>2, <1>3, <1>4, <1>5, <1>6, <1>7, <1>8, <1>9, <1>10 DEF Step

LEMMA FollowsOnNext ==
    ASSUME Inv, Inv', FollowsOn, [Next]_vars
    PROVE  FollowsOn'
<1>1. ASSUME NEW p \in Process, Command(p) \/ Step(p) \/ Work(p) PROVE FollowsOn'
  BY <1>1, CommandFollowsOn, StepFollowsOn, WorkFollowsOn
<1>2. ASSUME NEW f \in follows, Follow(f) PROVE FollowsOn'
  BY <1>2, ReadFollowsOn, MoveFollowsOn, ChildFollowsOn, EndFollowsOn DEF Follow
<1>3. ASSUME NEW t \in Updates, Update(t) PROVE FollowsOn'
  BY <1>3, UpdateFollowsOn
<1>4. CASE UNCHANGED vars
  BY <1>4, QuietFollowsOn DEF vars, remote
<1> QED
  BY <1>1, <1>2, <1>3, <1>4 DEF Next

LEMMA InitFollowsOn == ASSUME Init PROVE FollowsOn
<1>1. Inv
  BY InitInv
<1>2. CASE linked
  <2>1. was = {2} /\ follows = {} /\ list[Root] \in was /\ repo[Root].main \in was
    BY <1>1, <1>2 DEF Init, Inv, OnRemote
  <2> QED
    BY <2>1 DEF FollowsOn, InTurn, Righted
<1>3. CASE ~linked
  BY <1>3 DEF FollowsOn
<1> QED
  BY <1>2, <1>3

\* Once every landing has followed, and no worker died at it, root's branch on
\* the remote is where `main` is: in whatever order landings read, compare and
\* swap, and try again, three times at most.
THEOREM BranchFollows == ASSUME OneAtATime PROVE Spec => []RootFollows
<1>1. Init => Inv /\ FollowsOn
  BY InitInv, InitFollowsOn
<1>2. (Inv /\ FollowsOn) /\ [Next]_vars => (Inv /\ FollowsOn)'
  BY InvNext, FollowsOnNext
<1>3. Inv /\ FollowsOn => RootFollows
  BY DEF FollowsOn, Righted, RootFollows
<1> QED
  BY <1>1, <1>2, <1>3, PTL DEF Spec
=============================================================================

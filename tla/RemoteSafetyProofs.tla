------------------------- MODULE RemoteSafetyProofs -------------------------
(***************************************************************************)
(* What goes to the remote, from what RemoteProofs shows of commits and of *)
(* commands: that nothing a tracker outside Git owns does, and that what   *)
(* is named there is there.                                                *)
(***************************************************************************)
EXTENDS RemoteProofs

-----------------------------------------------------------------------------
(* What has a secret, what may be sent, and what is.                       *)

\* The commits with a secret, but for those the project was adopted with.
Hidden == {c \in (1 .. Len(made)) \ Adopted : made[c].secret}
Bare(S) == S \subseteq 1 .. Len(made) /\ S \intersect Hidden = {}
Clean(c) == Bare(Behind(c))

\* A root commit tells of the secrets behind its pins, by one of its own or
\* of a commit behind it; unless the pin was pulled off the remote, and then
\* they are behind the tracker's `main` in the store.
InStore(t) == IF ~linked /\ t \in DOMAIN kept[Home] THEN Behind(kept[Home][t]) ELSE {}
Told(r) == Clean(r) => \A t \in DOMAIN Index(r) \ {Root} :
                           Behind(Index(r)[t]) \intersect Hidden \subseteq InStore(t)
History ==
    /\ Adopted \subseteq 1 .. Len(made)
    /\ \A r \in Roots : Told(r)
    /\ \A r, s \in Roots : Ancestor(r, s) => DOMAIN Index(r) \subseteq DOMAIN Index(s)

\* The store has no tracker but those its root pins, and creating a project on
\* its remote makes a repo for each.
Store ==
    /\ \A m \in Range(Host) : /\ linked => DOMAIN kept[m] \subseteq DOMAIN repo
                              /\ ~linked /\ m # Home => DOMAIN kept[m] = {}
    /\ ~linked /\ Here(kept[Home]) => DOMAIN kept[Home] \subseteq DOMAIN Index(kept[Home][Root])

\* What is on the remote, and what a landing or a command will put there.
SentBare ==
    /\ \A t \in DOMAIN repo : Clean(repo[t].main) /\ Bare(repo[t].holds)
    /\ \A p \in Process : \A t \in DOMAIN fork[p] : Bare(fork[p][t])
    /\ \A w \in was : Clean(w)
    /\ \A f \in follows : \A v \in f.moves : Clean(v.new)
SendsBare(p) ==
    LET o == op[p]
        k == kept[Home]
    IN  /\ o.at \in {"sync", "publish"} => Clean(o.tip)
        /\ o.at \in {"seed", "land"} => Clean(o.merged) /\ \A v \in o.moves : Clean(v.new)
        /\ o.at = "seed" => \A t \in Range(o.todo) : Clean(Index(o.merged)[t])
        /\ ~linked /\ o.at \in {"root", "keep"} => DOMAIN k \subseteq DOMAIN Index(o.merged)
        /\ ~linked /\ o.at \in {"root", "keep", "children"} =>
              \A v \in o.moves : /\ v.tracker \in DOMAIN Index(o.merged)
                                 /\ v.tracker \in DOMAIN k => Behind(k[v.tracker]) \subseteq Behind(v.new)
        /\ o.at = "seeds" => /\ \A t \in DOMAIN o.heads : Clean(o.heads[t])
                             /\ \A t \in DOMAIN k : t \in DOMAIN o.heads /\ o.heads[t] = k[t]
Secrecy == History /\ Store /\ SentBare /\ \A p \in Process : SendsBare(p)

-----------------------------------------------------------------------------
(* A secret stays one, and what has none gets none.                        *)

LEMMA HiddenGoesOn ==
    ASSUME Graph(made), Grows(made, made')
    PROVE  /\ \A c \in 1 .. Len(made) : c \in Hidden' <=> c \in Hidden
           /\ Hidden \subseteq 1 .. Len(made)
<1>1. /\ 1 .. Len(made) \subseteq 1 .. Len(made')
      /\ \A c \in 1 .. Len(made) : made'[c] = made[c]
  BY GoesOn
<1> QED
  BY <1>1 DEF Hidden

LEMMA BareGoesOn ==
    ASSUME Graph(made), Grows(made, made'), NEW S, Bare(S)
    PROVE  Bare(S)'
<1>1. 1 .. Len(made) \subseteq 1 .. Len(made')
  BY GoesOn
<1> QED
  BY <1>1, HiddenGoesOn DEF Bare

LEMMA CleanGoesOn ==
    ASSUME Graph(made), Grows(made, made'), NEW c \in {0} \union (1 .. Len(made))
    PROVE  Clean(c)' <=> Clean(c)
<1>1. Behind(c)' = Behind(c) /\ Behind(c) \subseteq 1 .. Len(made)
  BY BehindGoesOn, BehindType
<1>2. 1 .. Len(made) \subseteq 1 .. Len(made')
  BY GoesOn
<1> QED
  BY <1>1, <1>2, HiddenGoesOn DEF Clean, Bare

LEMMA CleanBehind ==
    ASSUME Graph(made), NEW b \in 1 .. Len(made), Clean(b)
    PROVE  \A a : Ancestor(a, b) => Clean(a)
<1> SUFFICES ASSUME NEW a, Ancestor(a, b) PROVE Clean(a)
  OBVIOUS
<1>1. Behind(a) \subseteq Behind(b)
  BY AncestorIs
<1> QED
  BY <1>1 DEF Clean, Bare

LEMMA NothingBehind == Clean(0) /\ Behind(0) = {} /\ Bare({})
  BY DEF Clean, Bare, Behind

\* The gate is whether a commit is clean.
LEMMA RefusedIs ==
    ASSUME Graph(made), NEW r \in 1 .. Len(made), ~Refused(r)
    PROVE  Clean(r)
<1>1. Behind(r) \subseteq 1 .. Len(made)
  BY BehindType
<1> QED
  BY <1>1 DEF Clean, Bare, Refused, Hidden

\* What a clean root commit pins, on a remote.
LEMMA PinsClean ==
    ASSUME Inv, History, linked, NEW r \in Roots, Clean(r)
    PROVE  \A t \in DOMAIN Index(r) : Clean(Index(r)[t])
<1>1. Graph(made) /\ Told(r)
  BY DEF Inv, History
<1>2. Index(r)[Root] = r /\ NamesIn(made, Index(r))
  BY <1>1, IndexIs
<1>3. ASSUME NEW t \in DOMAIN Index(r), t # Root PROVE Clean(Index(r)[t])
  <2>1. Behind(Index(r)[t]) \intersect Hidden \subseteq InStore(t)
    BY <1>1, <1>3 DEF Told
  <2>2. InStore(t) = {}
    BY DEF InStore
  <2>3. Index(r)[t] \in 1 .. Len(made)
    BY <1>2 DEF NamesIn
  <2>4. Behind(Index(r)[t]) \subseteq 1 .. Len(made)
    BY <1>1, <2>3, BehindType
  <2> QED
    BY <2>1, <2>2, <2>4 DEF Clean, Bare
<1> QED
  BY <1>2, <1>3

\* The root commits that were, and one more at most.
LEMMA HistoryStep ==
    ASSUME Inv, Inv', Grows(made, made'), History,
           \A t \in Children : InStore(t) \intersect Hidden \subseteq InStore(t)',
           NEW more, Roots' \subseteq Roots \union more, \A r, s \in more : r = s,
           \A n \in more : n \in Roots' =>
                 Told(n)' /\ \A q \in Roots : Ancestor(q, n)' => DOMAIN Index(q) \subseteq DOMAIN Index(n)'
    PROVE  History'
<1>1. Graph(made) /\ Graph(made') /\ Adopted \subseteq 1 .. Len(made) /\ 1 .. Len(made) \subseteq 1 .. Len(made')
  BY GoesOn DEF Inv, History
<1>2. ASSUME NEW r \in Roots PROVE Told(r)'
  <2>1. /\ r \in 1 .. Len(made) /\ Index(r)' = Index(r) /\ NamesIn(made, Index(r)) /\ Index(r) \in Pins
        /\ Clean(r)' => Clean(r)
    BY <1>1, IndexIs, IndexGoesOn, CleanGoesOn
  <2>2. ASSUME Clean(r)', NEW t \in DOMAIN Index(r), t # Root, NEW c \in Behind(Index(r)[t])', c \in Hidden'
        PROVE  c \in InStore(t)'
    <3>1. PICK d : d = Index(r)[t] /\ d \in 1 .. Len(made)
      BY <2>1, <2>2 DEF NamesIn
    <3>2. c \in Behind(d) /\ Behind(d) \subseteq 1 .. Len(made)
      <4>1. Behind(d)' = Behind(d)
        BY <1>1, <3>1, BehindGoesOn
      <4>2. Index(r)'[t] = d
        BY <2>1, <3>1
      <4> QED
        BY <1>1, <2>1, <2>2, <3>1, <4>1, <4>2, BehindType
    <3>3. c \in Hidden
      BY <1>1, <2>2, <3>2, HiddenGoesOn
    <3>4. c \in InStore(t)
      BY <2>1, <2>2, <3>1, <3>2, <3>3 DEF History, Told
    <3>5. t \in Children
      BY <2>1, <2>2, PinsOf DEF Tracker
    <3> QED
      BY <3>3, <3>4, <3>5
  <2> QED
    BY <2>1, <2>2 DEF Told
<1>3. ASSUME NEW r \in Roots', NEW s \in Roots', Ancestor(r, s)'
      PROVE  DOMAIN Index(r)' \subseteq DOMAIN Index(s)'
  <2>1. CASE s \in Roots
    <3>1. s \in 1 .. Len(made) /\ Index(s)' = Index(s)
      BY <1>1, <2>1, IndexIs, IndexGoesOn
    <3>2. Ancestor(r, s)
      BY <1>1, <1>3, <3>1, AncestorGoesOn
    <3>3. r \in 1 .. Len(made)
      BY <1>1, <3>1, <3>2, AncestorIs
    <3>4. made'[r] = made[r]
      BY <1>1, <3>3, GoesOn
    <3>5. r \in Roots
      BY <1>3, <3>3, <3>4 DEF Roots, RootsOf
    <3>6. Index(r)' = Index(r)
      BY <1>1, <3>5, IndexGoesOn
    <3> QED
      BY <2>1, <3>1, <3>2, <3>5, <3>6 DEF History
  <2>2. CASE s \notin Roots /\ r \in Roots
    <3>1. Index(r)' = Index(r)
      BY <1>1, <2>2, IndexGoesOn
    <3> QED
      BY <1>3, <2>2, <3>1
  <2>3. CASE s \notin Roots /\ r \notin Roots
    BY <2>3
  <2> QED
    BY <2>1, <2>2, <2>3
<1> QED
  BY <1>1, <1>2, <1>3 DEF History

LEMMA InStoreGoesOn ==
    ASSUME Inv, Grows(made, made'), kept' = kept, linked' = linked, NEW t
    PROVE  InStore(t)' = InStore(t)
<1>1. Graph(made) /\ TypeOK /\ MainRefs
  BY DEF Inv, Refs
<1>2. CASE ~linked /\ t \in DOMAIN kept[Home]
  <2>1. PICK f : f = kept[Home] /\ f = kept'[Home]
    OBVIOUS
  <2>2. f[t] \in 1 .. Len(made)
    <3>1. Home \in Range(Host)
      BY RemoteAssumption
    <3> QED
      BY <1>1, <1>2, <2>1, <3>1 DEF MainRefs, Tree, Names, NamesIn
  <2>3. PICK d : d = f[t] /\ d \in 1 .. Len(made)
    BY <2>2
  <2>4. Behind(d)' = Behind(d)
    BY <1>1, <2>3, BehindGoesOn
  <2> QED
    BY <1>2, <2>1, <2>3, <2>4 DEF InStore
<1>3. CASE ~(~linked /\ t \in DOMAIN kept[Home])
  BY <1>3 DEF InStore
<1> QED
  BY <1>2, <1>3

\* No root commit is new.
LEMMA SameHistory ==
    ASSUME Inv, Inv', Grows(made, made'), History, kept' = kept, linked' = linked, Roots' \subseteq Roots
    PROVE  History'
<1>1. PICK more : more = {}
  OBVIOUS
<1>2. ASSUME NEW t \in Children PROVE InStore(t) \intersect Hidden \subseteq InStore(t)'
  BY InStoreGoesOn
<1> QED
  BY <1>1, <1>2, HistoryStep

\* A new root commit over others pins what has no secrets but theirs and those
\* it tells of.
LEMMA NewRootHistory ==
    ASSUME Inv, Inv', History, kept' = kept, linked' = linked,
           NEW commits, NEW parents \in SUBSET Roots, NEW told \in BOOLEAN,
           NewRoot(made, commits, parents, told), Grows(commits, made'),
           \A c \in 1 .. Len(made') : c \notin 1 .. Len(commits) => Root \notin DOMAIN made'[c].pins
    PROVE  History'
<1>1. PICK n, pins : n = Len(commits) /\ pins = commits[n].pins
  OBVIOUS
<1>2. /\ Grows(made, commits) /\ Len(made) < n /\ Root \in DOMAIN pins
      /\ commits[n].behind = (UNION {made[q].behind : q \in parents}) \union {n}
      /\ commits[n].secret = told
      /\ \A c \in 1 .. n : c \notin 1 .. Len(made) /\ c # n => Root \notin DOMAIN commits[c].pins
      /\ \A t \in Children : Over(commits, pins, t, PinnedBy(made, parents, t), told)
  BY <1>1 DEF NewRoot
<1>3. Graph(made) /\ Graph(made') /\ Adopted \subseteq 1 .. Len(made) /\ Len(made) \in Nat
  BY DEF Inv, History, Graph
<1>4. /\ Graph(commits) /\ n \in Nat /\ 1 .. Len(made) \subseteq 1 .. n
      /\ \A c \in 1 .. Len(made) : commits[c] = made[c]
  BY <1>1, <1>2, <1>3, GrowsIs
<1>5. /\ 1 .. n \subseteq 1 .. Len(made') /\ \A c \in 1 .. n : made'[c] = commits[c]
  BY <1>1, <1>4, GrowsIs
<1>6. Grows(made, made')
  BY <1>2, <1>3, <1>4, GrowsAll
<1>7. n \in 1 .. n /\ n \in 1 .. Len(made') /\ n # 0 /\ n \notin 1 .. Len(made) /\ n \notin Adopted
      /\ made'[n] = commits[n]
  BY <1>2, <1>3, <1>4, <1>5
<1>8. n \in Roots' /\ Index(n)' = pins /\ Behind(n)' = commits[n].behind
  <2>1. n \in Roots'
    BY <1>1, <1>2, <1>7 DEF Roots, RootsOf
  <2>2. n \in RootsOf(made')
    BY <2>1 DEF Roots
  <2>3. [made'[n].pins EXCEPT ![Root] = n] = made'[n].pins
    BY <1>3, <2>2, RootPins
  <2> QED
    BY <1>1, <1>7, <2>1, <2>3 DEF Index, Behind
<1>9. pins \in Pins /\ NamesIn(commits, pins)
  BY <1>1, <1>4, <1>7, CommitAt
<1>10. Roots' \subseteq Roots \union {n}
  <2> SUFFICES ASSUME NEW r \in 1 .. Len(made'), Root \in DOMAIN made'[r].pins, r # n
               PROVE  r \in Roots
    BY DEF Roots, RootsOf
  <2>1. r \in 1 .. n
    BY <1>1
  <2>2. r \in 1 .. Len(made)
    BY <1>2, <1>5, <2>1
  <2>3. made'[r] = made[r]
    BY <1>4, <1>5, <2>2
  <2> QED
    BY <2>2, <2>3 DEF Roots, RootsOf
<1>11. \A s \in parents : /\ s \in 1 .. Len(made) /\ Behind(s) = made[s].behind /\ Behind(s) \subseteq Behind(n)'
                          /\ Index(s) = made[s].pins
  <2> TAKE s \in parents
  <2>1. s \in 1 .. Len(made) /\ Behind(s) = made[s].behind /\ Index(s) = made[s].pins
    BY <1>3, IndexIs, AncestorIs
  <2> QED
    BY <1>2, <1>8, <2>1
<1>12. Told(n)'
  <2> SUFFICES ASSUME Clean(n)', NEW t \in DOMAIN pins, t # Root,
                      NEW c \in Behind(pins[t])', c \in Hidden'
               PROVE  c \in InStore(t)'
    BY <1>8 DEF Told
  <2>1. t \in Children
    BY <1>9, PinsOf DEF Tracker
  <2>2. ~told
    <3> SUFFICES ASSUME told PROVE FALSE
      OBVIOUS
    <3>1. n \in Hidden'
      BY <1>2, <1>7 DEF Hidden
    <3>2. n \in Behind(n)'
      BY <1>2, <1>8
    <3> QED
      BY <3>1, <3>2 DEF Clean, Bare
  <2>3. PICK d : d = pins[t] /\ d \in 1 .. n /\ d # 0 /\ commits[d].behind \subseteq 1 .. n
    <3>1. pins[t] \in 1 .. n
      BY <1>1, <1>9 DEF NamesIn
    <3> QED
      BY <1>1, <1>4, <3>1, CommitAt
  <2>4. c \in commits[d].behind /\ c \in 1 .. n
    BY <1>5, <2>3 DEF Behind
  <2>5. commits[c].secret
    BY <1>5, <2>4 DEF Hidden
  <2>6. PICK q \in PinnedBy(made, parents, t) : c \in commits[q].behind
    BY <1>2, <2>1, <2>2, <2>3, <2>4, <2>5 DEF Over
  <2>7. PICK s \in parents : t \in DOMAIN made[s].pins /\ q = made[s].pins[t]
    BY <2>6 DEF PinnedBy, From
  <2>8. q \in 1 .. Len(made) /\ Index(s) = made[s].pins /\ t \in DOMAIN Index(s) /\ q = Index(s)[t]
    <3>1. NamesIn(made, Index(s)) /\ Index(s) = made[s].pins
      BY <1>3, IndexIs
    <3> QED
      BY <2>7, <3>1 DEF NamesIn
  <2>9. c \in Behind(q) /\ c \in 1 .. Len(made)
    <3>1. c \in made[q].behind /\ Behind(q) = made[q].behind
      BY <1>3, <1>4, <2>6, <2>8, AncestorIs
    <3> QED
      BY <1>3, <2>8, <3>1, BehindType
  <2>10. c \in Hidden
    BY <1>3, <1>6, <2>9, HiddenGoesOn
  <2>11. Clean(s)
    <3>1. Behind(s) \subseteq 1 .. Len(made)
      BY <1>3, <1>11, BehindType
    <3>2. ASSUME NEW x \in Behind(s), x \in Hidden PROVE FALSE
      <4>1. x \in Hidden' /\ x \in Behind(n)'
        BY <1>3, <1>6, <1>11, <3>1, <3>2, HiddenGoesOn
      <4> QED
        BY <4>1 DEF Clean, Bare
    <3> QED
      BY <3>1, <3>2 DEF Clean, Bare
  <2>12. c \in InStore(t)
    BY <2>1, <2>7, <2>8, <2>9, <2>10, <2>11, TrackerIs DEF History, Told
  <2> QED
    BY <1>6, <2>12, InStoreGoesOn
<1>13. ASSUME NEW r \in Roots, Ancestor(r, n)'
       PROVE  DOMAIN Index(r) \subseteq DOMAIN Index(n)'
  <2>1. r \in 1 .. Len(made)
    BY <1>3, IndexIs
  <2>2. PICK s \in parents : r \in Behind(s)
    BY <1>2, <1>7, <1>8, <1>11, <1>13, <2>1 DEF Ancestor
  <2>3. DOMAIN Index(r) \subseteq DOMAIN Index(s)
    BY <2>2 DEF History, Ancestor
  <2>4. Index(s) \in Pins /\ Index(s) = made[s].pins
    BY <1>3, IndexIs
  <2>5. ASSUME NEW t \in DOMAIN Index(s) PROVE t \in DOMAIN pins
    <3>1. t = Root \/ t \in Children
      BY <2>4, PinsOf DEF Tracker
    <3>2. CASE t = Root
      BY <1>2, <3>2
    <3>3. CASE t \in Children
      <4>1. PICK q : q = made[s].pins[t] /\ From(made[s].pins, t) = {q}
        BY <2>4, <2>5 DEF From
      <4>2. q \in PinnedBy(made, parents, t)
        BY <4>1 DEF PinnedBy
      <4>3. PinnedBy(made, parents, t) # {}
        BY <4>2
      <4> QED
        BY <1>2, <3>3, <4>3 DEF Over
    <3> QED
      BY <3>1, <3>2, <3>3
  <2> QED
    BY <1>8, <2>3, <2>5
<1>14. PICK more : more = {n}
  OBVIOUS
<1>15. \A t \in Children : InStore(t) \intersect Hidden \subseteq InStore(t)'
  BY <1>6, InStoreGoesOn
<1> QED
  BY <1>6, <1>10, <1>12, <1>13, <1>14, <1>15, HistoryStep

-----------------------------------------------------------------------------
(* What stays bare when commits are added and the rest stays.              *)

\* What a command will send, by the commits it names.
LEMMA SendsNames ==
    ASSUME Inv, NEW q \in Process
    PROVE  LET o == op[q]
               known == {0} \union (1 .. Len(made))
           IN  /\ o.at \in {"sync", "publish"} => o.tip \in known
               /\ o.at \in {"seed", "land", "root", "keep", "children"} => o.merged \in Roots
               /\ o.at = "seed" => \A t \in Range(o.todo) : Index(o.merged)[t] \in known
               /\ \A v \in o.moves : v.new \in known
               /\ \A t \in DOMAIN o.heads : o.heads[t] \in known
<1> DEFINE o == op[q]
<1>1. /\ Graph(made) /\ TypeOK /\ OpRefs(q)
      /\ linked => Runs(q)
      /\ ~linked => RunsHere(q)
  BY DEF Inv, Refs
<1>2. o.at \in {"sync", "publish"} => o.tip \in 1 .. Len(made)
  BY <1>1, ThereOnly, IndexIs DEF Runs, Checkpointed
<1>3. o.at \in {"seed", "land", "root", "keep", "children"} => o.merged \in Roots
  <2>1. CASE linked
    BY <1>1, <2>1, HereOnly DEF Runs
  <2>2. CASE ~linked
    BY <1>1, <2>2, ThereOnly DEF RunsHere
  <2> QED
    BY <2>1, <2>2
<1>4. ASSUME o.at = "seed", NEW t \in Range(o.todo) PROVE Index(o.merged)[t] \in 1 .. Len(made)
  <2>1. t \in DOMAIN Index(o.merged) /\ o.merged \in Roots
    BY <1>1, <1>3, <1>4, ThereOnly DEF Runs
  <2> QED
    BY <1>1, <2>1, IndexIs DEF NamesIn
<1>5. /\ \A v \in o.moves : v.new \in 1 .. Len(made)
      /\ \A t \in DOMAIN o.heads : o.heads[t] \in 1 .. Len(made)
  BY <1>1 DEF OpRefs, Names, NamesIn
<1> QED
  BY <1>2, <1>3, <1>4, <1>5

LEMMA SendsGoesOn ==
    ASSUME Inv, Grows(made, made'), NEW q \in Process, SendsBare(q), op'[q] = op[q],
           kept' = kept, linked' = linked
    PROVE  SendsBare(q)'
<1>1. Graph(made) /\ TypeOK /\ MainRefs /\ Home \in Range(Host)
  BY HostIs DEF Inv, Refs
<1>2. PICK o, k : o = op[q] /\ o = op'[q] /\ k = kept[Home] /\ k = kept'[Home]
  OBVIOUS
<1>3. /\ o.at \in {"sync", "publish"} => Clean(o.tip)'
      /\ o.at \in {"seed", "land"} => Clean(o.merged)' /\ \A v \in o.moves : Clean(v.new)'
      /\ o.at = "seeds" => \A t \in DOMAIN o.heads : Clean(o.heads[t])'
  <2>1. o.merged \in Roots => o.merged \in {0} \union (1 .. Len(made))
    BY <1>1, IndexIs
  <2> QED
    BY <1>1, <1>2, <2>1, SendsNames, CleanGoesOn DEF SendsBare
<1>4. o.at = "seed" => \A t \in Range(o.todo) : Clean(Index(o.merged)[t])'
  <2> SUFFICES ASSUME o.at = "seed", NEW t \in Range(o.todo) PROVE Clean(Index(o.merged)[t])'
    OBVIOUS
  <2>1. o.merged \in Roots /\ Index(o.merged)[t] \in {0} \union (1 .. Len(made)) /\ Clean(Index(o.merged)[t])
    BY <1>2, SendsNames DEF SendsBare
  <2>2. Index(o.merged)' = Index(o.merged)
    BY <1>1, <2>1, IndexGoesOn
  <2>3. PICK d : d = Index(o.merged)[t]
    OBVIOUS
  <2> QED
    BY <1>1, <2>1, <2>2, <2>3, CleanGoesOn
<1>5. ~linked /\ o.at \in {"root", "keep", "children"} =>
        /\ o.at # "children" => DOMAIN k \subseteq DOMAIN Index(o.merged)'
        /\ \A v \in o.moves : /\ v.tracker \in DOMAIN Index(o.merged)'
                              /\ v.tracker \in DOMAIN k => Behind(k[v.tracker])' \subseteq Behind(v.new)'
  <2> SUFFICES ASSUME ~linked, o.at \in {"root", "keep", "children"}
               PROVE  /\ o.at # "children" => DOMAIN k \subseteq DOMAIN Index(o.merged)'
                      /\ \A v \in o.moves : /\ v.tracker \in DOMAIN Index(o.merged)'
                                            /\ v.tracker \in DOMAIN k => Behind(k[v.tracker])' \subseteq Behind(v.new)'
    OBVIOUS
  <2>1. o.merged \in Roots
    BY <1>2, SendsNames
  <2>2. Index(o.merged)' = Index(o.merged)
    BY <1>1, <2>1, IndexGoesOn
  <2>3. \A t \in DOMAIN k : k[t] \in {0} \union (1 .. Len(made))
    BY <1>1, <1>2 DEF MainRefs, Tree, Names, NamesIn
  <2>4. ASSUME NEW v \in o.moves, v.tracker \in DOMAIN k
        PROVE  Behind(k[v.tracker])' \subseteq Behind(v.new)'
    <3>1. PICK c, d : c = k[v.tracker] /\ d = v.new
      OBVIOUS
    <3>2. Behind(c)' = Behind(c)
      BY <1>1, <2>3, <2>4, <3>1, BehindGoesOn
    <3>3. Behind(d)' = Behind(d)
      BY <1>1, <1>2, <3>1, SendsNames, BehindGoesOn
    <3>4. Behind(c) \subseteq Behind(d)
      BY <1>2, <2>4, <3>1 DEF SendsBare
    <3> QED
      BY <3>1, <3>2, <3>3, <3>4
  <2> QED
    BY <1>2, <2>2, <2>4 DEF SendsBare
<1>6. o.at = "seeds" => \A t \in DOMAIN k : t \in DOMAIN o.heads /\ o.heads[t] = k[t]
  BY <1>2 DEF SendsBare
<1> QED
  BY <1>2, <1>3, <1>4, <1>5, <1>6 DEF SendsBare

\* A command that sends nothing.
LEMMA SendsNothing ==
    ASSUME NEW q \in Process, op[q].at \in {"idle", "merge", "fetch", "make", "wait", "create"}
    PROVE  SendsBare(q)
  BY DEF SendsBare

LEMMA StoreGoesOn ==
    ASSUME Inv, Store, Grows(made, made'), kept' = kept, linked' = linked, DOMAIN repo \subseteq DOMAIN repo'
    PROVE  Store'
<1>1. Graph(made) /\ MainRefs /\ Home \in Range(Host)
  BY RemoteAssumption DEF Inv, Refs
<1>2. PICK k : k = kept[Home] /\ k = kept'[Home] /\ Tree(k)
  BY <1>1 DEF MainRefs
<1>3. ASSUME ~linked, Here(k) PROVE DOMAIN k \subseteq DOMAIN Index(k[Root])'
  <2>1. Index(k[Root])' = Index(k[Root])
    <3>1. PICK r \in Roots : r = k[Root]
      BY <1>2, <1>3 DEF Tree, Here
    <3> QED
      BY <1>1, <3>1, IndexGoesOn
  <2> QED
    BY <1>2, <1>3, <2>1 DEF Store
<1>4. \A m \in Range(Host) : /\ linked' => DOMAIN kept'[m] \subseteq DOMAIN repo'
                             /\ ~linked' /\ m # Home => DOMAIN kept'[m] = {}
  BY DEF Store
<1> QED
  BY <1>2, <1>3, <1>4 DEF Store, Here

LEMMA SentStep ==
    ASSUME Inv, SentBare, Grows(made, made'),
           \A t \in DOMAIN repo' :
              \/ t \in DOMAIN repo /\ repo'[t].main = repo[t].main /\ repo'[t].holds = repo[t].holds
              \/ Clean(repo[t].main)' /\ Bare(repo[t].holds)',
           \A q \in Process : fork'[q] = fork[q] \/ \A t \in DOMAIN fork'[q] : Bare(fork[q][t])',
           \A w \in was' : w \in was \/ Clean(w)',
           \A f \in follows' : f \in follows \/ \A v \in f.moves : Clean(v.new)'
    PROVE  SentBare'
<1>1. Graph(made) /\ RepoRefs /\ FollowRefs
  BY DEF Inv, Refs
<1>2. ASSUME NEW t \in DOMAIN repo' PROVE Clean(repo[t].main)' /\ Bare(repo[t].holds)'
  <2>1. CASE t \in DOMAIN repo /\ repo'[t].main = repo[t].main /\ repo'[t].holds = repo[t].holds
    <3>1. PICK c, h : c = repo[t].main /\ h = repo[t].holds /\ c \in 1 .. Len(made) /\ Clean(c) /\ Bare(h)
      BY <1>1, <2>1 DEF RepoRefs, SentBare
    <3>2. Clean(c)' /\ Bare(h)'
      BY <1>1, <3>1, CleanGoesOn, BareGoesOn
    <3> QED
      BY <2>1, <3>1, <3>2
  <2> QED
    BY <2>1
<1>3. ASSUME NEW q \in Process, NEW t \in DOMAIN fork'[q] PROVE Bare(fork[q][t])'
  <2>1. CASE fork'[q] = fork[q]
    <3>1. PICK h : h = fork[q][t] /\ h = fork'[q][t] /\ Bare(h)
      BY <2>1 DEF SentBare
    <3>2. Bare(h)'
      BY <1>1, <3>1, BareGoesOn
    <3> QED
      BY <3>1, <3>2
  <2> QED
    BY <2>1
<1>4. ASSUME NEW w \in was' PROVE Clean(w)'
  <2>1. CASE w \in was
    <3>1. w \in 1 .. Len(made) /\ Clean(w)
      BY <1>1, <2>1, IndexIs DEF FollowRefs, SentBare
    <3> QED
      BY <1>1, <3>1, CleanGoesOn
  <2> QED
    BY <1>4, <2>1
<1>5. ASSUME NEW f \in follows', NEW v \in f.moves PROVE Clean(v.new)'
  <2>1. CASE f \in follows
    <3>1. v.new \in 1 .. Len(made) /\ Clean(v.new)
      BY <1>1, <2>1 DEF FollowRefs, SentBare
    <3>2. PICK d : d = v.new
      OBVIOUS
    <3> QED
      BY <1>1, <3>1, <3>2, CleanGoesOn
  <2> QED
    BY <1>5, <2>1
<1> QED
  BY <1>2, <1>3, <1>4, <1>5 DEF SentBare

\* A step of a process that leaves what the trackers' stores keep.
LEMMA SecretsStep ==
    ASSUME Inv, Secrecy, Grows(made, made'), History', SentBare', kept' = kept, linked' = linked,
           DOMAIN repo \subseteq DOMAIN repo', NEW p \in Process, Others(p), SendsBare(p)'
    PROVE  Secrecy'
<1>1. Store'
  BY StoreGoesOn DEF Secrecy
<1>2. ASSUME NEW q \in Process PROVE SendsBare(q)'
  <2>1. CASE q = p
    BY <2>1
  <2>2. CASE q # p
    BY <2>2, SendsGoesOn DEF Others, Secrecy
  <2> QED
    BY <2>1, <2>2
<1> QED
  BY <1>1, <1>2 DEF Secrecy

\* One that makes no commit.
LEMMA SecretsStay ==
    ASSUME Inv, Inv', Secrecy, made' = made, SentBare', kept' = kept, linked' = linked,
           DOMAIN repo \subseteq DOMAIN repo', NEW p \in Process, Others(p), SendsBare(p)'
    PROVE  Secrecy'
<1>1. Grows(made, made')
  BY SameGrows DEF Inv
<1>2. History'
  BY <1>1, SameHistory DEF Secrecy, Roots
<1> QED
  BY <1>1, <1>2, SecretsStep

\* And one that sends nothing either.
LEMMA SentStays ==
    ASSUME Inv, Secrecy, Grows(made, made'), repo' = repo, fork' = fork, was' = was, follows' \subseteq follows
    PROVE  SentBare'
  BY SentStep DEF Secrecy

LEMMA CommandSecrets ==
    ASSUME Inv, Inv', Secrecy, made' = made, kept' = kept, linked' = linked, repo' = repo, fork' = fork,
           was' = was, follows' \subseteq follows, NEW p \in Process, Others(p), SendsBare(p)'
    PROVE  Secrecy'
<1>1. Grows(made, made')
  BY SameGrows DEF Inv
<1> QED
  BY <1>1, SentStays, SecretsStay

\* One outside every command.
LEMMA WorkSecrets ==
    ASSUME Inv, Secrecy, Grows(made, made'), History', kept' = kept, linked' = linked, repo' = repo, fork' = fork,
           was' = was, follows' = follows, op' = op
    PROVE  Secrecy'
<1>1. SentBare'
  BY SentStays
<1>2. Store'
  BY StoreGoesOn DEF Secrecy
<1>3. \A q \in Process : SendsBare(q)'
  BY SendsGoesOn DEF Secrecy
<1> QED
  BY <1>1, <1>2, <1>3 DEF Secrecy

-----------------------------------------------------------------------------
(* Work.                                                                   *)

LEMMA EditSecrets ==
    ASSUME Inv, Inv', Secrecy, NEW p \in Process, Edit(p)
    PROVE  Secrecy'
<1>1. PICK head : head = inst[p].head
  OBVIOUS
<1>2. PICK edit \in Edits[p] : made' = Edited(head, edit)
  BY <1>1 DEF Edit, Make
<1>3. /\ Graph(made) /\ head \in Roots
  BY <1>1 DEF Edit, Inv, Refs, InstRefs, Checkpointed
<1>4. PICK told \in BOOLEAN : told = (edit.secret # {})
  OBVIOUS
<1>5. PICK parents \in SUBSET Roots : parents = {head}
  BY <1>3
<1>6. NewRoot(made, made', parents, told)
  BY <1>2, <1>3, <1>4, <1>5, EditedIs
<1>7. UNCHANGED <<kept, linked, was, repo, fork, follows, op>>
  BY DEF Edit, remote
<1>8. Grows(made', made') /\ Grows(made, made')
  BY <1>6, GrowsAll DEF Inv, NewRoot
<1>9. History'
  BY <1>6, <1>7, <1>8, NewRootHistory DEF Secrecy
<1> QED
  BY <1>7, <1>8, <1>9, WorkSecrets

LEMMA TakeInSecrets ==
    ASSUME Inv, Inv', Secrecy, NEW p \in Process, TakeIn(p)
    PROVE  Secrecy'
<1>1. PICK theirs, head : /\ theirs = (IF linked THEN At(list, Root) ELSE At(main[Host[p]], Root))
                          /\ head = inst[p].head
  OBVIOUS
<1>2. /\ head # 0 /\ theirs # 0
      /\ made' = made \/ made' = Joined(head, theirs)
      /\ UNCHANGED <<kept, linked, was, repo, fork, follows, op>>
  BY <1>1 DEF TakeIn, remote
<1>3. Graph(made) /\ head \in Roots /\ theirs \in Roots
  <2>1. Graph(made) /\ head \in Roots /\ Tree(main[Host[p]])
    BY <1>1, <1>2, HostIs DEF Inv, Refs, InstRefs, MainRefs, Checkpointed
  <2>2. linked => IsIndex(list)
    BY DEF Inv, OnRemote
  <2> QED
    BY <1>1, <1>2, <2>1, <2>2 DEF At, Tree, IsIndex
<1>4. CASE made' = made
  <2>1. Grows(made, made')
    BY <1>3, <1>4, SameGrows
  <2>2. History'
    BY <1>2, <1>4, <2>1, SameHistory DEF Secrecy, Roots
  <2> QED
    BY <1>2, <2>1, <2>2, WorkSecrets
<1>5. CASE made' = Joined(head, theirs)
  <2>1. PICK told \in BOOLEAN : told = FALSE
    OBVIOUS
  <2>2. PICK parents \in SUBSET Roots : parents = {head, theirs}
    BY <1>3
  <2>3. NewRoot(made, made', parents, told)
    BY <1>3, <1>5, <2>1, <2>2, JoinedIs
  <2>4. Grows(made', made') /\ Grows(made, made')
    BY <2>3, GrowsAll DEF Inv, NewRoot
  <2>5. History'
    BY <1>2, <2>3, <2>4, NewRootHistory DEF Secrecy
  <2> QED
    BY <1>2, <2>4, <2>5, WorkSecrets
<1> QED
  BY <1>2, <1>4, <1>5

LEMMA SpawnSecrets ==
    ASSUME Inv, Inv', Secrecy, NEW p \in Process, SpawnFrom(p)
    PROVE  Secrecy'
<1>1. UNCHANGED <<made, kept, linked, was, repo, fork, follows, op>>
  BY DEF SpawnFrom, remote
<1>2. Grows(made, made')
  BY <1>1, SameGrows DEF Inv
<1>3. History'
  BY <1>1, <1>2, SameHistory DEF Secrecy, Roots
<1> QED
  BY <1>1, <1>2, <1>3, WorkSecrets

\* What a pull takes in is on the remote, or what the store keeps.
LEMMA PulledClean ==
    ASSUME Inv, Secrecy, NEW p \in Process, NEW t \in Children, Pull(p, t),
           NEW new, new = Upstream(Host[p], t)
    PROVE  new \in 1 .. Len(made) /\ Behind(new) \intersect Hidden \subseteq InStore(t)
<1>1. /\ MainRefs /\ RepoRefs /\ inst[p].head # 0 /\ new # 0 /\ Host[p] \in Range(Host)
      /\ ~linked => AtHome
  BY HostIs DEF Pull, Inv, Refs
<1>2. PICK k : k = kept[Host[p]] /\ Tree(k)
  BY <1>1 DEF MainRefs
<1>3. CASE linked /\ t \in DOMAIN repo
  <2>1. new = repo[t].main
    BY <1>3 DEF Upstream
  <2>2. Clean(new)
    BY <1>3, <2>1 DEF Secrecy, SentBare
  <2> QED
    BY <1>1, <1>3, <2>1, <2>2 DEF RepoRefs, Clean, Bare
<1>4. CASE ~(linked /\ t \in DOMAIN repo)
  <2>1. new = k[t] /\ t \in DOMAIN k
    BY <1>1, <1>2, <1>4 DEF Upstream, At
  <2>2. ~linked
    BY <1>1, <1>2, <1>4, <2>1 DEF Secrecy, Store
  <2>3. k = kept[Home]
    BY <1>1, <1>2, <2>2 DEF AtHome
  <2> QED
    BY <1>2, <2>1, <2>2, <2>3 DEF InStore, Tree, Names, NamesIn
<1> QED
  BY <1>3, <1>4

LEMMA PullSecrets ==
    ASSUME Inv, Inv', Secrecy, NEW p \in Process, NEW t \in Children, Pull(p, t)
    PROVE  Secrecy'
<1>1. PICK new, head, id : new = Upstream(Host[p], t) /\ head = inst[p].head /\ id = Len(made) + 1
  OBVIOUS
<1>2. /\ Graph(made) /\ Graph(made') /\ head \in Roots /\ Len(made) \in Nat
      /\ new \in 1 .. Len(made) /\ Behind(new) \intersect Hidden \subseteq InStore(t)
  <2>1. Graph(made) /\ Graph(made') /\ Len(made) \in Nat
    BY DEF Inv, Graph
  <2>2. head # 0
    BY <1>1 DEF Pull
  <2>3. head \in Roots
    BY <1>1, <2>2 DEF Inv, Refs, InstRefs, Checkpointed
  <2> QED
    BY <1>1, <2>1, <2>3, PulledClean
<1>3. made' = PulledRoot(made, head, t, new)
  BY <1>1 DEF Pull, PulledRoot
<1>4. UNCHANGED <<kept, linked, was, repo, fork, follows, op>>
  BY DEF Pull, remote
<1>5. PICK pins : pins = [u \in DOMAIN Index(head) \union {t, Root} |->
                            IF u = Root THEN id ELSE IF u = t THEN new ELSE Index(head)[u]]
  OBVIOUS
<1>6. Adds(made, made', id, {head}, pins, FALSE)
  <2>1. PICK put : put = Put(Put(Index(head), t, new), Root, id)
    OBVIOUS
  <2>2. Adds(made, PulledRoot(made, head, t, new), id, {head}, put, FALSE)
    BY <1>1, <1>2, <2>1, PulledIs
  <2>3. put = pins
    BY <1>5, <2>1, TrackerIs DEF Put
  <2> QED
    BY <1>3, <2>2, <2>3
<1>7. /\ Grows(made, made') /\ Len(made') = id /\ id \in 1 .. Len(made')
      /\ made'[id].pins = pins /\ made'[id].secret = FALSE
      /\ made'[id].behind = made[head].behind \union {id}
  BY <1>6 DEF Adds
<1>8. /\ head \in 1 .. Len(made) /\ Behind(head) = made[head].behind /\ Index(head) = made[head].pins
      /\ NamesIn(made, Index(head)) /\ Behind(head) \subseteq 1 .. Len(made)
  BY <1>2, IndexIs, AncestorIs
<1>9. /\ id \notin 1 .. Len(made) /\ id # 0
      /\ \A c \in 1 .. Len(made') : c # id => c \in 1 .. Len(made) /\ made'[c] = made[c]
  BY <1>1, <1>2, <1>7, GoesOn
<1>10. id \in Roots' /\ Index(id)' = pins /\ Behind(id)' = Behind(head) \union {id}
  <2>1. id \in RootsOf(made')
    BY <1>5, <1>7 DEF RootsOf
  <2>2. [made'[id].pins EXCEPT ![Root] = id] = made'[id].pins
    BY <1>2, <2>1, RootPins
  <2> QED
    BY <1>7, <1>8, <1>9, <2>1, <2>2 DEF Roots, Index, Behind
<1>11. Roots' \subseteq Roots \union {id}
  BY <1>9 DEF Roots, RootsOf
<1>12. Told(id)'
  <2> SUFFICES ASSUME Clean(id)', NEW u \in DOMAIN pins, u # Root,
                      NEW c \in Behind(pins[u])', c \in Hidden'
               PROVE  c \in InStore(u)'
    BY <1>10 DEF Told
  <2>1. u \in DOMAIN Index(head) \union {t}
    BY <1>5
  <2>2. PICK d : d = pins[u] /\ d = (IF u = t THEN new ELSE Index(head)[u]) /\ d \in 1 .. Len(made)
    BY <1>2, <1>5, <1>8, <2>1 DEF NamesIn
  <2>3. c \in Behind(d) /\ c \in 1 .. Len(made)
    <3>1. Behind(d)' = Behind(d) /\ Behind(d) \subseteq 1 .. Len(made)
      BY <1>2, <1>7, <2>2, BehindGoesOn, BehindType
    <3> QED
      BY <2>2, <3>1
  <2>4. c \in Hidden
    BY <1>2, <1>7, <2>3, HiddenGoesOn
  <2>5. Clean(head)
    <3>1. ASSUME NEW x \in Behind(head), x \in Hidden PROVE FALSE
      <4>1. x \in Hidden' /\ x \in Behind(id)'
        BY <1>2, <1>7, <1>8, <1>10, <3>1, HiddenGoesOn
      <4> QED
        BY <4>1 DEF Clean, Bare
    <3> QED
      BY <1>8, <3>1 DEF Clean, Bare
  <2>6. c \in InStore(u)
    <3>1. CASE u = t
      BY <1>2, <2>2, <2>3, <2>4, <3>1
    <3>2. CASE u # t
      BY <1>2, <2>1, <2>2, <2>3, <2>4, <2>5, <3>2 DEF Secrecy, History, Told
    <3> QED
      BY <3>1, <3>2
  <2> QED
    BY <1>4, <1>7, <2>6, InStoreGoesOn
<1>13. ASSUME NEW r \in Roots, Ancestor(r, id)'
       PROVE  DOMAIN Index(r) \subseteq DOMAIN Index(id)'
  <2>1. r \in Behind(head)
    BY <1>2, <1>9, <1>10, <1>13, IndexIs DEF Ancestor
  <2>2. DOMAIN Index(r) \subseteq DOMAIN Index(head)
    BY <1>2, <2>1 DEF Secrecy, History, Ancestor
  <2> QED
    BY <1>5, <1>10, <2>2
<1>14. History'
  <2>1. PICK more : more = {id}
    OBVIOUS
  <2>2. \A u \in Children : InStore(u) \intersect Hidden \subseteq InStore(u)'
    BY <1>4, <1>7, InStoreGoesOn
  <2>3. History /\ Grows(made, made') /\ Roots' \subseteq Roots \union more
    BY <1>7, <1>11, <2>1 DEF Secrecy
  <2>4. \A r, q \in more : r = q
    BY <2>1
  <2>5. ASSUME NEW n \in more, n \in Roots'
        PROVE  Told(n)' /\ \A q \in Roots : Ancestor(q, n)' => DOMAIN Index(q) \subseteq DOMAIN Index(n)'
    <3>1. n = id
      BY <2>1
    <3> QED
      BY <3>1, <1>12, <1>13
  <2> QED
    BY <2>2, <2>3, <2>4, <2>5, HistoryStep
<1> QED
  BY <1>4, <1>7, <1>14, WorkSecrets

\* The command after a step of it.
LEMMA BecomesThen ==
    ASSUME Inv, NEW p \in Process, NEW record, Becomes(p, record)
    PROVE  op'[p] = record /\ Others(p) /\ op[p] \in Op
  BY DEF Inv, TypeOK, Becomes, Others

LEMMA StopsThen ==
    ASSUME Inv, NEW p \in Process, Stop(p)
    PROVE  op'[p].at = "idle" /\ Others(p) /\ SendsBare(p)'
<1>1. op'[p].at = "idle" /\ Others(p)
  BY BecomesThen, NoOpIs DEF Stop
<1> QED
  BY <1>1 DEF SendsBare

LEMMA GoesOnThen ==
    ASSUME Inv, NEW p \in Process, NEW at, GoOn(p, at)
    PROVE  /\ Others(p) /\ op'[p].at = at /\ op'[p].tip = op[p].tip
           /\ op'[p].merged = op[p].merged /\ op'[p].moves = op[p].moves /\ op'[p].heads = op[p].heads
           /\ op'[p].todo = op[p].todo
           /\ at \in {"idle", "merge", "fetch", "make", "wait", "create"} => SendsBare(p)'
<1>1. PICK o : o = op[p] /\ o \in Op
  BY DEF Inv, TypeOK
<1>2. op'[p] = [o EXCEPT !.at = at] /\ Others(p)
  BY <1>1, BecomesThen DEF GoOn
<1>3. /\ op'[p].at = at /\ op'[p].tip = o.tip /\ op'[p].merged = o.merged /\ op'[p].moves = o.moves
      /\ op'[p].heads = o.heads /\ op'[p].todo = o.todo
  BY <1>1, <1>2 DEF Op
<1>4. at \in {"idle", "merge", "fetch", "make", "wait", "create"} => SendsBare(p)'
  BY <1>3 DEF SendsBare
<1> QED
  BY <1>1, <1>2, <1>3, <1>4

LEMMA KillSecrets ==
    ASSUME Inv, Inv', Secrecy, NEW p \in Process, Kill(p)
    PROVE  Secrecy'
  BY StopsThen, CommandSecrets DEF Kill, local, remote

\* What a command begins to sync has passed the gate.
LEMMA BeginSecrets ==
    ASSUME Inv, Inv', Secrecy, NEW p \in Process, NEW cmd, Begin(p, cmd)
    PROVE  Secrecy'
<1>1. /\ UNCHANGED <<made, kept, linked, repo, fork, was, follows>> /\ Graph(made)
      /\ inst[p].head # 0
  BY DEF Begin, remote, Inv
<1> DEFINE syncs == linked /\ p \in Instance
           stops == linked /\ Refused(IF syncs THEN inst[p].tip ELSE inst[p].head)
           begun == [NoOp EXCEPT !.cmd = cmd, !.at = IF syncs THEN "sync" ELSE "merge",
                                 !.theirs = inst[p].head, !.tip = inst[p].tip]
<1>2. Becomes(p, IF stops THEN NoOp ELSE begun)
  BY Zenon DEF Begin
<1>3. CASE stops
  BY <1>1, <1>2, <1>3, StopsThen, CommandSecrets DEF Stop
<1>4. CASE ~stops
  <2>1. /\ Others(p) /\ op'[p].at = (IF syncs THEN "sync" ELSE "merge") /\ op'[p].tip = inst[p].tip
    <3>1. Becomes(p, begun)
      BY <1>2, <1>4
    <3>2. begun.at = (IF syncs THEN "sync" ELSE "merge") /\ begun.tip = inst[p].tip
      BY DEF NoOp
    <3> HIDE DEF begun
    <3>3. Others(p) /\ op'[p] = begun
      BY <3>1, BecomesThen
    <3> QED
      BY <3>2, <3>3
  <2>2. PICK tip : tip = inst[p].tip /\ tip \in 1 .. Len(made)
    BY <1>1, IndexIs DEF Inv, Refs, InstRefs, Checkpointed
  <2>3. syncs => Clean(tip)
    BY <1>1, <1>2, <1>4, <2>2, RefusedIs
  <2>4. syncs => Clean(tip)'
    BY <1>1, <2>2, <2>3, SameGrows, CleanGoesOn
  <2>5. SendsBare(p)'
    BY <2>1, <2>2, <2>4 DEF SendsBare
  <2> QED
    BY <1>1, <2>1, <2>5, CommandSecrets
<1> QED
  BY <1>3, <1>4

LEMMA MirrorPullSecrets ==
    ASSUME Inv, Inv', Secrecy, NEW p \in Process, MirrorPull(p)
    PROVE  Secrecy'
<1>1. PICK edit \in Edits[p], on \in was :
         /\ made' = Edited(on, edit)
         /\ Becomes(p, IF edit.secret # {} THEN NoOp
                       ELSE [NoOp EXCEPT !.cmd = "pull", !.at = "merge", !.theirs = Len(made')])
  BY DEF MirrorPull, Make
<1>2. Graph(made) /\ on \in Roots
  BY DEF Inv, Refs, FollowRefs
<1>3. PICK told \in BOOLEAN : told = (edit.secret # {})
  OBVIOUS
<1>4. PICK parents \in SUBSET Roots : parents = {on}
  BY <1>2
<1>5. NewRoot(made, made', parents, told)
  BY <1>1, <1>2, <1>3, <1>4, EditedIs
<1>6. UNCHANGED <<kept, linked, was, repo, fork, follows>>
  BY DEF MirrorPull, remote
<1>7. Grows(made', made') /\ Grows(made, made')
  BY <1>5, GrowsAll DEF Inv, NewRoot
<1>8. History'
  BY <1>5, <1>6, <1>7, NewRootHistory DEF Secrecy
<1>9. Others(p) /\ SendsBare(p)'
  <2>1. PICK next : /\ next = IF edit.secret # {} THEN NoOp
                              ELSE [NoOp EXCEPT !.cmd = "pull", !.at = "merge", !.theirs = Len(made')]
                    /\ Becomes(p, next)
    BY <1>1
  <2>2. next.at \in {"idle", "merge"}
    BY <2>1 DEF NoOp
  <2>3. Others(p) /\ op'[p] = next
    BY <2>1, BecomesThen
  <2> QED
    BY <2>2, <2>3 DEF SendsBare
<1> QED
  BY <1>6, <1>7, <1>8, <1>9, SentStays, SecretsStep

-----------------------------------------------------------------------------
(* Putting a checkpoint on the remote.                                     *)

LEMMA SameClean ==
    ASSUME made' = made, NEW c, NEW S
    PROVE  /\ Clean(c)' <=> Clean(c)
           /\ Bare(S)' <=> Bare(S)
           /\ Index(c)' = Index(c)
  BY DEF Clean, Bare, Behind, Hidden, Index

LEMMA BareUnion ==
    ASSUME NEW S, Bare(S), NEW T, Bare(T)
    PROVE  Bare(S \union T)
  BY DEF Bare

LEMMA PublishReadSecrets ==
    ASSUME Inv, Inv', Secrecy, NEW p \in Process, PublishRead(p)
    PROVE  Secrecy'
<1>1. PICK changed : Becomes(p, [op[p] EXCEPT !.at = "publish", !.base = list, !.todo = InOrder(changed)])
  BY Zenon DEF PublishRead
<1>2. op[p].at = "sync" /\ UNCHANGED <<made, inst, local, linked, remote, repo, fork, follows, acked, spent>>
  BY DEF PublishRead
<1>3. PICK o \in Op : o = op[p]
  BY DEF Inv, TypeOK
<1>4. PICK next : next = [o EXCEPT !.at = "publish", !.base = list, !.todo = InOrder(changed)]
  OBVIOUS
<1>5. next.at = "publish" /\ next.tip = o.tip
  BY <1>4 DEF Op
<1>6. op'[p] = next /\ Others(p)
  BY <1>1, <1>3, <1>4, BecomesThen
<1>7. Clean(o.tip)
  BY <1>2, <1>3 DEF Secrecy, SendsBare
<1>8. Clean(o.tip)'
  BY <1>2, <1>7, SameClean
<1>9. SendsBare(p)'
  BY <1>5, <1>6, <1>8 DEF SendsBare
<1> QED
  BY <1>2, <1>6, <1>9, CommandSecrets DEF local, remote

\* What is pushed of a tracker is behind the checkpoint the gate let pass.
LEMMA PublishedBare ==
    ASSUME Inv, Secrecy, NEW p \in Process, op[p].at = "publish", NEW t \in Range(op[p].todo)
    PROVE  /\ Bare(Behind(At(Index(op[p].theirs), t)) \union Behind(Index(op[p].tip)[t]))
           /\ t \in DOMAIN op[p].base => t \in DOMAIN repo
<1>1. PICK o : o = op[p] /\ linked /\ Runs(p)
  BY ThereOnly DEF Inv
<1>2. PICK theirs, tip : theirs = o.theirs /\ tip = o.tip /\ Checkpointed(theirs, tip)
  BY <1>1 DEF Runs
<1>3. Graph(made) /\ theirs \in Roots /\ tip \in Roots /\ Ancestor(theirs, tip) /\ tip \in 1 .. Len(made)
  BY <1>2, IndexIs DEF Inv, Checkpointed
<1>4. Clean(tip) /\ Clean(theirs)
  <2>1. Clean(tip)
    BY <1>1, <1>2 DEF Secrecy, SendsBare
  <2> QED
    BY <1>3, <2>1, CleanBehind
<1>5. Clean(Index(tip)[t]) /\ t \in DOMAIN Index(tip)
  <2>1. t \in DOMAIN Index(tip)
    BY <1>1, <1>2 DEF Runs
  <2> QED
    BY <1>1, <1>3, <1>4, <2>1, PinsClean DEF Secrecy
<1>6. Clean(At(Index(theirs), t))
  <2>1. CASE t \in DOMAIN Index(theirs)
    BY <1>1, <1>3, <1>4, <2>1, PinsClean DEF Secrecy, At
  <2>2. CASE t \notin DOMAIN Index(theirs)
    BY <2>2, NothingBehind DEF At
  <2> QED
    BY <2>1, <2>2
<1>7. Bare(Behind(At(Index(theirs), t)) \union Behind(Index(tip)[t]))
  BY <1>5, <1>6, BareUnion DEF Clean
<1> QED
  BY <1>1, <1>2, <1>7 DEF Runs

LEMMA PublishNextSecrets ==
    ASSUME Inv, Inv', Secrecy, NEW p \in Process, PublishNext(p)
    PROVE  Secrecy'
<1> DEFINE t == Head(op[p].todo)
           sent == Behind(At(Index(op[p].theirs), t)) \union Behind(Index(op[p].tip)[t])
           copied == IF t \in DOMAIN fork[p] THEN fork[p][t] ELSE Behind(repo[t].main)
<1>1. /\ op[p].at = "publish" /\ op[p].todo # <<>>
      /\ UNCHANGED <<made, inst, local, linked, remote, repo, follows, acked, spent>>
      /\ \/ Stop(p) /\ fork' = fork
         \/ /\ t \in DOMAIN op[p].base
            /\ fork' = [fork EXCEPT ![p] = Put(@, t, copied \union sent)]
            /\ Becomes(p, [op[p] EXCEPT !.todo = Tail(@)])
  BY Zenon DEF PublishNext
<1>2. UNCHANGED <<made, kept, linked, was, repo, follows>>
  BY <1>1 DEF local, remote
<1>3. CASE Stop(p) /\ fork' = fork
  BY <1>2, <1>3, StopsThen, CommandSecrets
<1>4. CASE /\ t \in DOMAIN op[p].base
           /\ fork' = [fork EXCEPT ![p] = Put(@, t, copied \union sent)]
           /\ Becomes(p, [op[p] EXCEPT !.todo = Tail(@)])
  <2>1. PICK o \in Op : o = op[p]
    BY DEF Inv, TypeOK
  <2>2. o.todo \in Seq(Tracker) /\ t \in Range(op[p].todo)
    BY <1>1, <2>1, HeadTailIs DEF Op
  <2>3. Bare(sent) /\ t \in DOMAIN repo
    BY <1>1, <1>4, <2>2, PublishedBare
  <2>4. Bare(copied)
    BY <2>3 DEF Secrecy, SentBare, Clean
  <2>5. PICK new : new = copied \union sent
    OBVIOUS
  <2> HIDE DEF t, sent, copied
  <2>6. Bare(new)' /\ Bare(new)
    <3>1. Bare(new)
      BY <2>3, <2>4, <2>5, BareUnion
    <3> QED
      BY <1>2, <3>1, SameClean
  <2>7. PICK f : f = fork[p] /\ \A u \in DOMAIN f : Bare(f[u]) /\ Bare(f[u])'
    BY <1>2, SameClean DEF Secrecy, SentBare
  <2>8. fork'[p] = Put(f, t, new) /\ \A q \in Process \ {p} : fork'[q] = fork[q]
    BY <1>4, <2>5, <2>7 DEF Inv, TypeOK
  <2>9. \A u \in DOMAIN fork'[p] : Bare(fork[p][u])'
    BY <2>6, <2>7, <2>8 DEF Put
  <2>10. SentBare'
    <3>1. Grows(made, made')
      BY <1>2, SameGrows DEF Inv
    <3> QED
      BY <1>2, <2>8, <2>9, <3>1, SentStep DEF Secrecy
  <2>11. PICK next : next = [o EXCEPT !.todo = Tail(@)]
    OBVIOUS
  <2>12. next.at = "publish" /\ next.tip = o.tip
    BY <1>1, <2>1, <2>11 DEF Op
  <2>13. op'[p] = next /\ Others(p)
    BY <1>4, <2>1, <2>11, BecomesThen
  <2>14. Clean(o.tip)'
    <3>1. Clean(o.tip)
      BY <1>1, <2>1 DEF Secrecy, SendsBare
    <3> QED
      BY <1>2, <3>1, SameClean
  <2>15. SendsBare(p)'
    BY <2>12, <2>13, <2>14 DEF SendsBare
  <2> QED
    BY <1>2, <2>10, <2>13, <2>15, SecretsStay
<1> QED
  BY <1>1, <1>3, <1>4

LEMMA PublishEndSecrets ==
    ASSUME Inv, Inv', Secrecy, NEW p \in Process, PublishEnd(p)
    PROVE  Secrecy'
<1>1. /\ UNCHANGED <<made, kept, linked, was, repo, fork, follows>>
      /\ GoOn(p, "merge") \/ Stop(p)
  BY DEF PublishEnd, local
<1>2. Others(p) /\ SendsBare(p)'
  BY <1>1, GoesOnThen, StopsThen
<1> QED
  BY <1>1, <1>2, CommandSecrets

-----------------------------------------------------------------------------
(* A merge.                                                                *)

LEMMA MergeReadSecrets ==
    ASSUME Inv, Inv', Secrecy, NEW p \in Process, MergeRead(p)
    PROVE  Secrecy'
<1>1. /\ UNCHANGED <<made, kept, linked, was, repo, fork, follows>>
      /\ Becomes(p, [op[p] EXCEPT
                !.base = IF linked THEN list ELSE Index(At(main'[Host[p]], Root)),
                !.heads = IF linked THEN <<>> ELSE main'[Host[p]],
                !.at = IF linked THEN "fetch" ELSE "make"])
  BY DEF MergeRead, remote
<1>2. PICK next : /\ next = [op[p] EXCEPT
                             !.base = IF linked THEN list ELSE Index(At(main'[Host[p]], Root)),
                             !.heads = IF linked THEN <<>> ELSE main'[Host[p]],
                             !.at = IF linked THEN "fetch" ELSE "make"]
                  /\ op'[p] = next
  BY <1>1, BecomesThen
<1>3. Others(p)
  BY <1>1, BecomesThen
<1>4. next.at \in {"fetch", "make"}
  <2>1. PICK o \in Op : o = op[p]
    BY DEF Inv, TypeOK
  <2> QED
    BY <1>2, <2>1 DEF Op
<1>5. SendsBare(p)'
  BY <1>2, <1>4 DEF SendsBare
<1> QED
  BY <1>1, <1>3, <1>5, CommandSecrets

LEMMA MergeFetchSecrets ==
    ASSUME Inv, Inv', Secrecy, NEW p \in Process, MergeFetch(p)
    PROVE  Secrecy'
<1> DEFINE heads == [t \in DOMAIN op[p].base |-> repo[t].main]
<1>1. /\ UNCHANGED <<made, kept, linked, was, repo, fork, follows>>
      /\ Becomes(p, [op[p] EXCEPT !.heads = heads, !.at = "make"])
  BY DEF MergeFetch, remote
<1>2. PICK o \in Op : o = op[p]
  BY DEF Inv, TypeOK
<1> HIDE DEF heads
<1>3. PICK next : next = [o EXCEPT !.heads = heads, !.at = "make"]
  OBVIOUS
<1>4. op'[p] = next /\ Others(p)
  BY <1>1, <1>2, <1>3, BecomesThen
<1>5. next.at = "make"
  BY <1>2, <1>3 DEF Op
<1>6. SendsBare(p)'
  BY <1>4, <1>5 DEF SendsBare
<1> QED
  BY <1>1, <1>4, <1>6, CommandSecrets

LEMMA MergeMakeSecrets ==
    ASSUME Inv, Inv', Secrecy, NEW p \in Process, MergeMake(p)
    PROVE  Secrecy'
<1>1. /\ Graph(made) /\ Graph(made') /\ MainRefs /\ ~Idle(p) /\ Home \in Range(Host) /\ op[p].at = "make"
      /\ UNCHANGED <<inst, main, kept, linked, remote, repo, fork, follows, acked, spent>>
  BY HostIs, MadeByIs DEF Inv, Refs, Idle
<1>2. kept' = kept /\ linked' = linked /\ repo' = repo /\ fork' = fork /\ was' = was /\ follows' = follows
  BY <1>1 DEF remote
<1>3. PICK o : o = op[p] /\ o \in Op /\ OpRefs(p)
  BY <1>1, Busied
<1>4. PICK ours \in Roots, theirs \in Roots : ours = At(o.base, Root) /\ theirs = o.theirs
  BY <1>1, <1>3, MergesBoth
<1>5. CASE Stop(p) /\ UNCHANGED <<made, has>>
  BY <1>2, <1>5, StopsThen, CommandSecrets
<1>6. ASSUME NEW joins, NEW commits, NEW merged, NEW index, NEW all, NEW moves,
             Makes(p, ours, theirs, joins, commits, merged, index, all, moves)
      PROVE  Secrecy'
  <2>1. PICK moved : moved = Moved(o.base, index)
    OBVIOUS
  <2>2. /\ joins = (~Ancestor(ours, theirs) /\ ~Ancestor(theirs, ours))
        /\ commits = IF joins THEN Joined(ours, theirs) ELSE made
        /\ merged = IF joins THEN Len(commits) ELSE IF Ancestor(ours, theirs) THEN theirs ELSE ours
        /\ index = [commits[merged].pins EXCEPT ![Root] = merged]
        /\ Caught(commits, all, moves, moved \ {Root}, index, o.heads)
        /\ MadeBy(p, all, merged, index, moves)
    BY <1>3, <1>6, <2>1, Zenon DEF Makes
  <2>3. Grows(made, commits) /\ Graph(commits) /\ merged \in RootsOf(commits)
    BY <1>1, <2>2, MergedIs
  <2>4. /\ Grows(commits, all) /\ \A v \in moves : Sound(all, v, index, o.heads)
        /\ \A c \in 1 .. Len(all) : c \notin 1 .. Len(commits) => Root \notin DOMAIN all[c].pins
    BY <2>2 DEF Caught
  <2>5. made' = all
    BY <2>2 DEF MadeBy, Make
  <2>6. Grows(made, made')
    BY <1>1, <2>3, <2>4, <2>5, GrowsAll
  <2>7. /\ merged \in 1 .. Len(commits) /\ merged # 0 /\ index = commits[merged].pins
        /\ Root \in DOMAIN index /\ index[Root] = merged /\ index \in Pins
    <3>1. /\ [commits[merged].pins EXCEPT ![Root] = merged] = commits[merged].pins
          /\ merged \in 1 .. Len(commits) /\ merged # 0
          /\ Root \in DOMAIN commits[merged].pins /\ commits[merged].pins[Root] = merged
          /\ commits[merged].pins \in Pins
      BY <2>3, RootPins
    <3> QED
      BY <2>2, <3>1
  <2>8. merged \in Roots' /\ merged \in 1 .. Len(made') /\ Index(merged)' = index
    <3>1. merged \in 1 .. Len(all) /\ all[merged] = commits[merged]
      BY <2>3, <2>4, <2>7, GrowsIs
    <3> QED
      BY <2>2, <2>5, <2>7, <3>1 DEF Roots, RootsOf, Index
  <2>9. History'
    <3>1. CASE joins
      <4>1. PICK told \in BOOLEAN : told = FALSE
        OBVIOUS
      <4>2. PICK parents \in SUBSET Roots : parents = {ours, theirs}
        OBVIOUS
      <4>3. NewRoot(made, commits, parents, told)
        BY <1>1, <2>2, <3>1, <4>1, <4>2, JoinedIs
      <4> QED
        BY <1>2, <2>4, <2>5, <4>3, NewRootHistory DEF Secrecy
    <3>2. CASE ~joins
      <4>1. commits = made
        BY <2>2, <3>2
      <4>2. \A c \in 1 .. Len(made) : made'[c] = made[c]
        BY <1>1, <2>6, GrowsIs
      <4>3. Roots' \subseteq Roots
        BY <2>4, <2>5, <4>1, <4>2 DEF Roots, RootsOf
      <4> QED
        BY <1>2, <2>6, <4>3, SameHistory DEF Secrecy
    <3> QED
      BY <3>1, <3>2
  <2>10. moved \subseteq DOMAIN index /\ moved \in SUBSET Tracker
    BY <2>1, <2>7, PinsOf DEF Moved
  <2>11. PICK fresh \in SUBSET Tracker : fresh = {t \in moved : t \notin DOMAIN o.base}
    BY <2>10
  <2>12. Range(InOrder(fresh)) = fresh
    BY InOrderIs
  <2>13. PICK at : at = IF ~linked THEN "root" ELSE IF moved = {} THEN "children" ELSE "seed"
    OBVIOUS
  <2>14. PICK next : next = [o EXCEPT !.merged = merged, !.moves = moves, !.todo = InOrder(fresh), !.at = at]
    OBVIOUS
  <2>15. next.at = at /\ next.merged = merged /\ next.moves = moves /\ next.todo = InOrder(fresh)
    BY <1>3, <2>14 DEF Op
  <2>16. op'[p] = next /\ Others(p)
    <3>1. Becomes(p, [op[p] EXCEPT !.merged = merged, !.moves = moves,
                        !.todo = InOrder({t \in Moved(op[p].base, index) : t \notin DOMAIN op[p].base}),
                        !.at = IF ~linked THEN "root" ELSE IF Moved(op[p].base, index) = {} THEN "children" ELSE "seed"])
      BY <2>2, Zenon DEF MadeBy
    <3>2. Becomes(p, next)
      BY <1>3, <2>1, <2>11, <2>13, <2>14, <3>1
    <3> QED
      BY <3>2, BecomesThen
  <2>17. CASE linked
    <3>1. PICK sent : sent = {index[t] : t \in moved} \union {v.new : v \in moves}
      OBVIOUS
    <3>2. \A c \in (UNION {all[d].behind : d \in sent}) \ Adopted : ~all[c].secret
      BY <1>3, <2>1, <2>2, <2>17, <3>1 DEF MadeBy
    <3>3. ASSUME NEW d \in sent, d \in 1 .. Len(made') PROVE Clean(d)'
      <4>1. Behind(d)' = all[d].behind /\ Behind(d)' \subseteq 1 .. Len(made')
        BY <1>1, <2>5, <3>3, AncestorThen, CommitAt DEF Behind
      <4>2. \A c \in all[d].behind \ Adopted : ~made'[c].secret
        BY <2>5, <3>2
      <4> QED
        BY <4>1, <4>2 DEF Clean, Bare, Hidden
    <3>4. moved # {} => Root \in moved
      <4> SUFFICES ASSUME Root \notin moved PROVE moved = {}
        OBVIOUS
      <4>1. merged = ours
        BY <1>4, <2>1, <2>7 DEF Moved
      <4>2. IsIndex(o.base)
        BY <1>1, <1>3, <2>17, Busied DEF Runs
      <4>3. o.base = Index(ours)
        BY <1>4, <4>2 DEF IsIndex, At
      <4>4. index = Index(ours)
        <5>1. ours \in 1 .. Len(made) /\ Index(ours) = made[ours].pins
          BY <1>1, IndexIs
        <5> QED
          BY <1>1, <2>3, <2>7, <4>1, <5>1, GrowsIs
      <4> QED
        BY <2>1, <4>3, <4>4 DEF Moved, At
    <3>5. \A v \in moves : v.new \in sent /\ v.new \in 1 .. Len(made')
      BY <2>4, <2>5, <3>1 DEF Sound
    <3>6. \A t \in moved : index[t] \in sent /\ index[t] \in 1 .. Len(made')
      <4>1. NamesIn(commits, index) /\ 1 .. Len(commits) \subseteq 1 .. Len(made')
        BY <2>3, <2>4, <2>5, <2>7, CommitAt, GrowsIs
      <4> QED
        BY <2>10, <3>1, <4>1 DEF NamesIn
    <3>7. \A v \in moves : Clean(v.new)'
      BY <3>3, <3>5
    <3>8. \A t \in moved : Clean(index[t])'
      BY <3>3, <3>6
    <3>9. at = "seed" => Clean(merged)' /\ \A t \in fresh : Clean(index[t])'
      BY <2>7, <2>11, <2>13, <3>4, <3>8
    <3>10. SendsBare(p)'
      BY <1>2, <2>8, <2>12, <2>13, <2>15, <2>16, <2>17, <3>7, <3>9 DEF SendsBare
    <3> QED
      BY <1>2, <2>6, <2>9, <2>16, <3>10, SentStays, SecretsStep
  <2>18. CASE ~linked
    <3>1. at = "root" /\ RunsHere(p) /\ RunsHere(p)' /\ Here(kept[Home]) /\ Tree(kept[Home])
      BY <1>1, <1>2, <2>13, <2>18, Busied DEF Inv, MainRefs
    <3>2. PICK k : k = kept[Home] /\ k = kept'[Home] /\ Here(k) /\ Tree(k)
      BY <1>2, <3>1
    <3>3. PICK r \in Roots : r = k[Root]
      BY <3>2 DEF Here, Tree
    <3>4. Ancestor(r, merged)'
      BY <2>15, <2>16, <3>1, <3>2, <3>3 DEF RunsHere
    <3>5. r \in Roots' /\ Index(r)' = Index(r)
      BY <1>1, <2>6, IndexGoesOn
    <3>6. DOMAIN Index(r) \subseteq DOMAIN index
      BY <2>8, <2>9, <3>4, <3>5 DEF History
    <3>7. DOMAIN k \subseteq DOMAIN Index(r)
      BY <2>18, <3>2, <3>3 DEF Secrecy, Store
    <3>8. ASSUME NEW v \in moves
          PROVE  /\ v.tracker \in DOMAIN index
                 /\ v.tracker \in DOMAIN k => Behind(k[v.tracker])' \subseteq Behind(v.new)'
      <4>1. Sound(all, v, index, o.heads)
        BY <2>4
      <4>2. ASSUME v.tracker \in DOMAIN k
            PROVE  Behind(k[v.tracker])' \subseteq Behind(v.new)'
        <5>1. PICK c, d : c = k[v.tracker] /\ d = v.new
          OBVIOUS
        <5>2. v.old = c /\ c \in 1 .. Len(made) /\ c # 0
          <6>1. o.heads = main[Home] /\ v.tracker \in DOMAIN main[Home] /\ main[Home][v.tracker] = c
            BY <1>1, <1>3, <3>1, <3>2, <4>2, <5>1 DEF RunsHere
          <6>2. c \in 1 .. Len(made)
            BY <3>2, <4>2, <5>1 DEF Tree, Names, NamesIn
          <6>3. c # 0
            BY <1>1, <6>2, <2>6, GoesOn
          <6> QED
            BY <4>1, <6>1, <6>2, <6>3 DEF Sound, At
        <5>3. Ancestor(c, d)' /\ d \in 1 .. Len(made')
          <6>1. d \in 1 .. Len(made') /\ d # 0 /\ c \in made'[d].behind
            <7>1. d \in 1 .. Len(all) /\ c \in all[d].behind
              BY <4>1, <5>1, <5>2 DEF Sound
            <7>2. Len(made') \in Nat
              BY <1>1, <2>6, GoesOn
            <7> QED
              BY <2>5, <7>1, <7>2
          <6> QED
            BY <6>1 DEF Ancestor, Behind
        <5>4. \A x \in Behind(c)' : x \in Behind(d)'
          <6>1. \A x : Ancestor(x, c)' => Ancestor(x, d)'
            BY <1>1, <5>3, AncestorThen
          <6> QED
            BY <6>1 DEF Ancestor
        <5> QED
          BY <5>1, <5>4
      <4> QED
        BY <4>1, <4>2 DEF Sound
    <3>9. SendsBare(p)'
      BY <1>2, <2>8, <2>15, <2>16, <2>18, <3>1, <3>2, <3>6, <3>7, <3>8 DEF SendsBare
    <3> QED
      BY <1>2, <2>6, <2>9, <2>16, <3>9, SentStays, SecretsStep
  <2> QED
    BY <2>17, <2>18
<1>7. \/ Stop(p) /\ UNCHANGED <<made, has>>
      \/ \E joins, commits, merged, index, all, moves :
            Makes(p, ours, theirs, joins, commits, merged, index, all, moves)
  BY <1>3, <1>4, MadeByIs, Zenon
<1> QED
  BY <1>5, <1>6, <1>7, Zenon

-----------------------------------------------------------------------------
(* A landing.                                                              *)

LEMMA ExceptThen ==
    ASSUME Inv, NEW t \in DOMAIN repo, NEW s, repo' = [repo EXCEPT ![t] = s]
    PROVE  DOMAIN repo' = DOMAIN repo /\ repo'[t] = s /\ \A u \in DOMAIN repo : u # t => repo'[u] = repo[u]
<1>1. PICK D \in SUBSET Tracker : repo \in [D -> Repo]
  BY DEF Inv, TypeOK, Maps
<1> QED
  BY <1>1

\* One repo has something new.
LEMMA SentRepo ==
    ASSUME Inv, Secrecy, Grows(made, made'), NEW t,
           \A u \in DOMAIN repo' : u # t => u \in DOMAIN repo /\ repo'[u] = repo[u],
           t \in DOMAIN repo' => Clean(repo[t].main)' /\ Bare(repo[t].holds)',
           fork' = fork, was' = was,
           \A f \in follows' : f \in follows \/ \A v \in f.moves : Clean(v.new)'
    PROVE  SentBare'
<1>1. \A u \in DOMAIN repo' :
        \/ u \in DOMAIN repo /\ repo'[u].main = repo[u].main /\ repo'[u].holds = repo[u].holds
        \/ Clean(repo[u].main)' /\ Bare(repo[u].holds)'
  <2> TAKE u \in DOMAIN repo'
  <2> QED
    BY Zenon
<1> QED
  BY <1>1, SentStep DEF Secrecy

LEMMA UpdateSecrets ==
    ASSUME Inv, Inv', Secrecy, NEW t \in Updates, Update(t)
    PROVE  Secrecy'
<1>1. /\ Graph(made) /\ Graph(made') /\ RepoRefs /\ t \in DOMAIN repo /\ t \in Tracker /\ t # Root
      /\ UNCHANGED <<kept, linked, was, fork, follows, op>>
  BY RemoteAssumption, TrackerIs DEF Update, Inv, Refs, local, remote
<1>2. PICK head : head = repo[t].main /\ head \in 1 .. Len(made) /\ Clean(head)
  BY <1>1 DEF RepoRefs, Secrecy, SentBare
<1>3. PICK none \in Pins : none = <<>> /\ DOMAIN none = {}
  BY NoPins
<1>4. PICK new, parents, told : /\ new = Len(made) + 1 /\ told = FALSE /\ told \in BOOLEAN
                                /\ parents = {head} /\ parents \in SUBSET (1 .. Len(made))
  BY <1>2
<1>5. made' = With(made, t, parents, none, told)
  BY <1>2, <1>3, <1>4 DEF Update
<1>6. Adds(made, made', new, parents, none, told)
  <2>1. Fit(none, new)
    BY <1>3 DEF Fit
  <2> QED
    BY <1>1, <1>4, <1>5, <2>1, WithIs
<1>7. /\ Grows(made, made') /\ Len(made') = new /\ new \in 1 .. Len(made') /\ Len(made) \in Nat
      /\ made'[new].secret = FALSE /\ DOMAIN made'[new].pins = {}
      /\ made'[new].behind = made[head].behind \union {new}
  BY <1>1, <1>3, <1>4, <1>6 DEF Adds, Graph
<1>8. \A c \in 1 .. Len(made') : c # new => c \in 1 .. Len(made) /\ made'[c] = made[c]
  BY <1>1, <1>4, <1>7, GoesOn
<1>9. Roots' \subseteq Roots
  BY <1>7, <1>8 DEF Roots, RootsOf
<1>10. History'
  BY <1>1, <1>7, <1>9, SameHistory DEF Secrecy
<1>a. PICK over : over = made'[new].behind
  OBVIOUS
<1>11. Bare(over)'
  <2>1. made[head].behind \subseteq 1 .. Len(made) /\ made[head].behind \intersect Hidden = {}
    BY <1>1, <1>2, AncestorIs DEF Clean, Bare
  <2>2. \A c \in made[head].behind : c \in 1 .. Len(made') /\ c \notin Hidden'
    BY <1>1, <1>7, <2>1, HiddenGoesOn, GoesOn
  <2>3. new \notin Hidden'
    BY <1>7 DEF Hidden
  <2>4. \A c \in over : c \in 1 .. Len(made') /\ c \notin Hidden'
    BY <1>7, <1>a, <2>2, <2>3
  <2> QED
    BY <2>4 DEF Bare
<1>12. /\ DOMAIN repo' = DOMAIN repo /\ repo'[t].main = new /\ repo'[t].holds = repo[t].holds \union made'[new].behind
       /\ \A u \in DOMAIN repo : u # t => repo'[u] = repo[u]
  <2>1. PICK s : s = [repo[t] EXCEPT !.main = new, !.holds = @ \union made'[new].behind]
    OBVIOUS
  <2>2. repo' = [repo EXCEPT ![t] = s]
    BY <1>1, <1>2, <1>3, <1>4, <1>5, <1>7, <2>1 DEF Update
  <2>3. repo[t] \in Repo
    BY <1>1, RepoType DEF Inv
  <2>4. s.main = new /\ s.holds = repo[t].holds \union made'[new].behind
    BY <2>1, <2>3 DEF Repo
  <2> QED
    BY <1>1, <2>2, <2>4, ExceptThen
<1>13. Clean(repo[t].main)' /\ Bare(repo[t].holds)'
  <2>1. PICK h : h = repo[t].holds /\ Bare(h)
    BY <1>1 DEF Secrecy, SentBare
  <2>2. Bare(h)'
    BY <1>1, <1>7, <2>1, BareGoesOn
  <2>3. Clean(new)'
    <3>1. Behind(new)' = over
      BY <1>4, <1>7, <1>a DEF Behind
    <3> QED
      BY <1>11, <3>1 DEF Clean, Bare
  <2>4. Bare(h \union over)'
    BY <1>11, <2>2 DEF Bare
  <2> QED
    BY <1>12, <1>a, <2>1, <2>3, <2>4
<1>14. SentBare'
  BY <1>1, <1>7, <1>12, <1>13, SentRepo
<1>15. Store' /\ \A q \in Process : SendsBare(q)'
  BY <1>1, <1>7, <1>12, StoreGoesOn, SendsGoesOn DEF Secrecy
<1> QED
  BY <1>10, <1>14, <1>15 DEF Secrecy

LEMMA MergeSeedSecrets ==
    ASSUME Inv, Inv', Secrecy, NEW p \in Process, MergeSeed(p)
    PROVE  Secrecy'
<1>1. /\ op[p].at = "seed" /\ op[p].todo # <<>>
      /\ UNCHANGED <<made, kept, linked, was, fork, follows>>
  BY DEF MergeSeed, local, remote
<1>2. CASE Stop(p) /\ repo' = repo
  BY <1>1, <1>2, StopsThen, CommandSecrets
<1>3. PICK o \in Op : o = op[p]
  BY DEF Inv, TypeOK
<1>4. PICK t : t = Head(o.todo)
  OBVIOUS
<1>5. PICK c : c = Index(o.merged)[t]
  OBVIOUS
<1>6. PICK r : r = IF t \in DOMAIN repo THEN repo[t] ELSE NewRepo
  OBVIOUS
<1>7. PICK s : s = [r EXCEPT !.main = c, !.holds = @ \union Behind(c)]
  OBVIOUS
<1>8. PICK next : next = [o EXCEPT !.todo = Tail(@)]
  OBVIOUS
<1>9. CASE repo' = Put(repo, t, s) /\ Becomes(p, next)
  <2>1. /\ t \in Range(o.todo) /\ Range(Tail(o.todo)) \subseteq Range(o.todo)
    <3>1. o.todo \in Seq(Tracker) /\ o.todo # <<>>
      BY <1>1, <1>3 DEF Op
    <3> QED
      BY <1>4, <3>1, HeadTailIs
  <2>2. /\ Clean(o.merged) /\ \A v \in o.moves : Clean(v.new)
        /\ \A u \in Range(o.todo) : Clean(Index(o.merged)[u])
    BY <1>1, <1>3 DEF Secrecy, SendsBare
  <2>3. Clean(c) /\ Bare(Behind(c))
    BY <1>5, <2>1, <2>2 DEF Clean
  <2>4. r \in Repo /\ Bare(r.holds)
    <3>1. CASE t \in DOMAIN repo
      BY <1>6, <3>1, RepoType DEF Inv, Secrecy, SentBare
    <3>2. CASE t \notin DOMAIN repo
      BY <1>6, <3>2, NewRepoIs, NothingBehind
    <3> QED
      BY <3>1, <3>2
  <2>5. s.main = c /\ s.holds = r.holds \union Behind(c)
    BY <1>7, <2>4 DEF Repo
  <2>6. DOMAIN repo' = DOMAIN repo \union {t} /\ repo'[t] = s /\ \A u \in DOMAIN repo : u # t => repo'[u] = repo[u]
    BY <1>9 DEF Put
  <2>7. PICK h : h = s.holds
    OBVIOUS
  <2>8. Bare(h)
    BY <2>3, <2>4, <2>5, <2>7, BareUnion
  <2>9. Clean(c)' /\ Bare(h)'
    BY <1>1, <2>3, <2>8, SameClean
  <2>10. Clean(repo[t].main)' /\ Bare(repo[t].holds)'
    BY <2>5, <2>6, <2>7, <2>9
  <2>11. SentBare'
    <3>1. Grows(made, made')
      BY <1>1, SameGrows DEF Inv
    <3> QED
      BY <1>1, <2>6, <2>10, <3>1, SentRepo
  <2>12. next.at = "seed" /\ next.merged = o.merged /\ next.moves = o.moves /\ next.todo = Tail(o.todo)
    BY <1>1, <1>3, <1>8 DEF Op
  <2>13. op'[p] = next /\ Others(p)
    BY <1>9, BecomesThen
  <2>14. SendsBare(p)'
    <3>1. /\ Clean(o.merged)' /\ \A v \in o.moves : Clean(v.new)'
      BY <1>1, <2>2, SameClean
    <3>2. \A u \in Range(o.todo) : Clean(Index(o.merged)[u])'
      BY <1>1, <2>2 DEF Clean, Bare, Behind, Hidden, Index
    <3> QED
      BY <2>1, <2>12, <2>13, <3>1, <3>2 DEF SendsBare
  <2> QED
    BY <1>1, <2>6, <2>11, <2>13, <2>14, SecretsStay
<1> QED
  BY <1>2, <1>3, <1>4, <1>5, <1>6, <1>7, <1>8, <1>9 DEF MergeSeed

\* A command that has seeded goes on to land what it was to.
LEMMA ToLandSecrets ==
    ASSUME Inv, Inv', Secrecy, NEW p \in Process, NEW writes, NEW todo, op[p].at = "seed",
           Stop(p) \/ Becomes(p, [op[p] EXCEPT !.at = "land", !.writes = writes, !.todo = RootFirst(todo)]),
           UNCHANGED <<made, kept, linked, was, repo, fork, follows>>
    PROVE  Secrecy'
<1>1. CASE Stop(p)
  BY <1>1, StopsThen, CommandSecrets
<1>2. CASE Becomes(p, [op[p] EXCEPT !.at = "land", !.writes = writes, !.todo = RootFirst(todo)])
  <2>1. PICK o \in Op : o = op[p]
    BY DEF Inv, TypeOK
  <2>2. PICK next : next = [o EXCEPT !.at = "land", !.writes = writes, !.todo = RootFirst(todo)]
    OBVIOUS
  <2>3. next.at = "land" /\ next.merged = o.merged /\ next.moves = o.moves
    BY <2>1, <2>2 DEF Op
  <2>4. op'[p] = next /\ Others(p)
    BY <1>2, <2>1, <2>2, BecomesThen
  <2>5. Clean(o.merged)' /\ \A v \in o.moves : Clean(v.new)'
    <3>1. Clean(o.merged) /\ \A v \in o.moves : Clean(v.new)
      BY <2>1 DEF Secrecy, SendsBare
    <3> QED
      BY <3>1, SameClean
  <2>6. SendsBare(p)'
    BY <2>3, <2>4, <2>5 DEF SendsBare
  <2> QED
    BY <2>4, <2>6, CommandSecrets
<1> QED
  BY <1>1, <1>2

LEMMA MergeBeginSecrets ==
    ASSUME Inv, Inv', Secrecy, NEW p \in Process, MergeBegin(p)
    PROVE  Secrecy'
<1>1. op[p].at = "seed" /\ UNCHANGED <<made, kept, linked, was, repo, fork, follows>>
  BY DEF MergeBegin, local
<1>2. PICK writes, todo :
         Stop(p) \/ Becomes(p, [op[p] EXCEPT !.at = "land", !.writes = writes, !.todo = RootFirst(todo)])
  BY Zenon DEF MergeBegin
<1> QED
  BY <1>1, <1>2, ToLandSecrets, Zenon

LEMMA MirrorLandSecrets ==
    ASSUME Inv, Inv', Secrecy, NEW p \in Process, MirrorLand(p)
    PROVE  Secrecy'
<1>1. op[p].at = "seed" /\ UNCHANGED <<made, kept, linked, was, repo, fork, follows>>
  BY DEF MirrorLand, local, remote
<1>2. PICK writes :
         Stop(p) \/ Becomes(p, [op[p] EXCEPT !.at = "land", !.writes = writes, !.todo = RootFirst(writes)])
  BY Zenon DEF MirrorLand
<1> QED
  BY <1>1, <1>2, ToLandSecrets, Zenon

LEMMA LandNextSecrets ==
    ASSUME Inv, Inv', Secrecy, NEW p \in Process, LandNext(p)
    PROVE  Secrecy'
<1>1. /\ op[p].at = "land" /\ op[p].todo # <<>> /\ linked
      /\ UNCHANGED <<made, kept, linked, was, fork, follows>>
  BY ThereOnly DEF LandNext, local, remote
<1>2. PICK o \in Op : o = op[p] /\ Runs(p)
  BY <1>1 DEF Inv, TypeOK
<1>3. PICK t : t = Head(o.todo)
  OBVIOUS
<1>4. t \in Range(o.todo)
  <2>1. o.todo \in Seq(Tracker)
    BY <1>2 DEF Op
  <2> QED
    BY <1>1, <1>2, <1>3, <2>1, HeadTailIs
<1>5. PICK c : c = IF t = Root THEN o.merged ELSE MoveOf(o, t).new
  OBVIOUS
<1>6. Clean(o.merged) /\ \A v \in o.moves : Clean(v.new)
  BY <1>1, <1>2 DEF Secrecy, SendsBare
<1>7. Clean(c) /\ Bare(Behind(c))
  <2>1. CASE t = Root
    BY <1>5, <1>6, <2>1 DEF Clean
  <2>2. CASE t # Root
    <3>1. PICK v \in o.moves : v.tracker = t
      BY <1>1, <1>2, <1>4, <2>2 DEF Runs
    <3>2. MoveOf(o, t) \in o.moves
      BY <3>1, MoveOfIs
    <3> QED
      BY <1>5, <1>6, <2>2, <3>2 DEF Clean
  <2> QED
    BY <2>1, <2>2
<1>8. /\ repo' = [repo EXCEPT ![t].landing = @ \union {c}, ![t].holds = @ \union Behind(c)]
      /\ Becomes(p, [o EXCEPT !.todo = Tail(@)])
  BY <1>2, <1>3, <1>5 DEF LandNext
<1>9. Grows(made, made')
  BY <1>1, SameGrows DEF Inv
<1>10. DOMAIN repo' = DOMAIN repo /\ SentBare'
  <2>1. CASE t \in DOMAIN repo
    <3>1. PICK r : r = repo[t] /\ r \in Repo /\ Clean(r.main) /\ Bare(r.holds)
      BY <2>1, RepoType DEF Inv, Secrecy, SentBare
    <3>2. PICK s : s = [r EXCEPT !.landing = @ \union {c}, !.holds = @ \union Behind(c)]
      OBVIOUS
    <3>3. s.main = r.main /\ s.holds = r.holds \union Behind(c)
      BY <3>1, <3>2 DEF Repo
    <3>4. repo' = [repo EXCEPT ![t] = s]
      BY <1>8, <2>1, <3>1, <3>2
    <3>5. /\ DOMAIN repo' = DOMAIN repo /\ repo'[t] = s
          /\ \A u \in DOMAIN repo : u # t => repo'[u] = repo[u]
      BY <2>1, <3>4, ExceptThen
    <3>6. PICK d, h : d = s.main /\ h = s.holds
      OBVIOUS
    <3>7. Clean(d) /\ Bare(h)
      BY <1>7, <3>1, <3>3, <3>6, BareUnion
    <3>8. Clean(d)' /\ Bare(h)'
      BY <1>1, <3>7, SameClean
    <3>9. Clean(repo[t].main)' /\ Bare(repo[t].holds)'
      BY <3>5, <3>6, <3>8
    <3> QED
      BY <1>1, <1>9, <3>5, <3>9, SentRepo
  <2>2. CASE t \notin DOMAIN repo
    <3>1. PICK D : repo \in [D -> Repo] /\ DOMAIN repo = D
      BY DEF Inv, TypeOK, Maps
    <3>2. repo' = repo
      BY <1>8, <2>2, <3>1
    <3> QED
      BY <1>1, <1>9, <3>2, SentStays
  <2> QED
    BY <2>1, <2>2
<1>11. PICK next : next = [o EXCEPT !.todo = Tail(@)]
  OBVIOUS
<1>12. next.at = "land" /\ next.merged = o.merged /\ next.moves = o.moves
  BY <1>1, <1>2, <1>11 DEF Op
<1>13. op'[p] = next /\ Others(p)
  BY <1>8, <1>11, BecomesThen
<1>14. Clean(o.merged)' /\ \A v \in o.moves : Clean(v.new)'
  BY <1>1, <1>6, SameClean
<1>15. SendsBare(p)'
  BY <1>12, <1>13, <1>14 DEF SendsBare
<1> QED
  BY <1>1, <1>10, <1>13, <1>15, SecretsStay

LEMMA FinishSecrets ==
    ASSUME Inv, Inv', Secrecy, NEW p \in Process, Finish(p)
    PROVE  Secrecy'
<1>1. /\ op[p].at = "land"
      /\ UNCHANGED <<made, kept, linked, repo, fork>>
      /\ \/ Stop(p) /\ was' = was /\ follows' = follows
         \/ /\ was' = was \union {op[p].merged} /\ GoOn(p, "wait")
            /\ follows' = follows \union
                  {[by |-> p, moves |-> {v \in op[p].moves : v.tracker \in op[p].writes}, at |-> "read",
                    held |-> 0, head |-> 0, drop |-> {}, tries |-> 0]}
  BY Zenon DEF Finish, local
<1>2. CASE Stop(p) /\ was' = was /\ follows' = follows
  BY <1>1, <1>2, StopsThen, CommandSecrets
<1>3. CASE /\ was' = was \union {op[p].merged} /\ GoOn(p, "wait")
           /\ follows' = follows \union
                  {[by |-> p, moves |-> {v \in op[p].moves : v.tracker \in op[p].writes}, at |-> "read",
                    held |-> 0, head |-> 0, drop |-> {}, tries |-> 0]}
  <2>1. PICK o : o = op[p] /\ Clean(o.merged) /\ \A v \in o.moves : Clean(v.new)
    BY <1>1 DEF Secrecy, SendsBare
  <2>2. Clean(o.merged)' /\ \A v \in o.moves : Clean(v.new)'
    BY <1>1, <2>1, SameClean
  <2>3. \A f \in follows' : f \in follows \/ f.moves \subseteq o.moves
    BY <1>3, <2>1
  <2>4. SentBare'
    <3>1. Grows(made, made')
      BY <1>1, SameGrows DEF Inv
    <3>2. \A w \in was' : w \in was \/ Clean(w)'
      BY <1>3, <2>1, <2>2
    <3>3. \A f \in follows' : f \in follows \/ \A v \in f.moves : Clean(v.new)'
      BY <2>2, <2>3
    <3> QED
      BY <1>1, <3>1, <3>2, <3>3, SentStep DEF Secrecy
  <2>5. Others(p) /\ SendsBare(p)'
    BY <1>3, GoesOnThen
  <2> QED
    BY <1>1, <2>4, <2>5, SecretsStay
<1> QED
  BY <1>1, <1>2, <1>3

-----------------------------------------------------------------------------
(* What a landing's branches follow was clean when it landed.              *)

LEMMA FollowsSecrets ==
    ASSUME Inv, Inv', Secrecy, NEW f \in follows, made' = made, kept' = kept, linked' = linked,
           SentBare', DOMAIN repo \subseteq DOMAIN repo',
           op' = op \/ Stop(f.by) \/ GoOn(f.by, "children")
    PROVE  Secrecy'
<1>1. PICK p \in Process : p = f.by /\ linked
  BY FollowIs
<1>2. Grows(made, made')
  BY SameGrows DEF Inv
<1>3. CASE op' = op
  <2>1. Others(p) /\ op'[p] = op[p]
    BY <1>3 DEF Others
  <2>2. SendsBare(p)'
    BY <1>2, <2>1, SendsGoesOn DEF Secrecy
  <2> QED
    BY <2>1, <2>2, SecretsStay
<1>4. CASE Stop(p)
  BY <1>4, StopsThen, SecretsStay
<1>5. CASE GoOn(p, "children")
  <2>1. Others(p) /\ op'[p].at = "children"
    BY <1>5, GoesOnThen
  <2>2. SendsBare(p)'
    BY <1>1, <2>1 DEF SendsBare
  <2> QED
    BY <2>1, <2>2, SecretsStay
<1> QED
  BY <1>1, <1>3, <1>4, <1>5

\* A landing's moves were clean, and are but fewer.
LEMMA FewerMoves ==
    ASSUME Inv, Secrecy, made' = made, NEW f \in follows, NEW g, g.moves \subseteq f.moves,
           follows' = (follows \ {f}) \union {g}
    PROVE  \A h \in follows' : h \in follows \/ \A v \in h.moves : Clean(v.new)'
<1>1. \A v \in f.moves : Clean(v.new)
  BY DEF Secrecy, SentBare
<1>2. \A v \in f.moves : Clean(v.new)'
  BY <1>1, SameClean
<1> QED
  BY <1>2

LEMMA FollowReadSecrets ==
    ASSUME Inv, Inv', Secrecy, NEW f \in follows, FollowRead(f)
    PROVE  Secrecy'
<1>1. UNCHANGED <<made, kept, linked, was, repo, fork, op>>
  BY DEF FollowRead, local, remote
<1>2. f \in Landing
  BY FollowIs
<1>a. PICK head, held : head = list[Root] /\ held = repo[Root].main
  OBVIOUS
<1>b. PICK landed : landed = repo[Root].landing \intersect (was \union {head})
  OBVIOUS
<1>3. PICK g :
         /\ follows' = (follows \ {f}) \union {g}
         /\ \/ g = [f EXCEPT !.at = "moves"]
            \/ g = [f EXCEPT !.at = "move", !.head = head, !.held = held, !.drop = landed]
  BY <1>a, <1>b DEF FollowRead, Following
<1>4. g.moves = f.moves
  BY <1>2, <1>3 DEF Landing
<1>5. Grows(made, made')
  BY <1>1, SameGrows DEF Inv
<1>6. \A h \in follows' : h \in follows \/ \A v \in h.moves : Clean(v.new)'
  BY <1>1, <1>3, <1>4, FewerMoves
<1>7. SentBare'
  BY <1>1, <1>5, <1>6, SentStep DEF Secrecy
<1> QED
  BY <1>1, <1>7, FollowsSecrets

\* Root's branch goes to what `main` was.
LEMMA FollowMoveSecrets ==
    ASSUME Inv, Inv', Secrecy, NEW f \in follows, FollowMove(f)
    PROVE  Secrecy'
<1>1. UNCHANGED <<made, kept, linked, was, fork, op>> /\ f.at = "move"
  BY DEF FollowMove, local, remote
<1>2. TypeOK /\ f \in Landing /\ Root \in DOMAIN repo /\ f.head \in was
  BY <1>1, FollowIs DEF Inv, OnRemote, IsIndex
<1>3. PICK head, held : head = f.head /\ held = f.held /\ Clean(head)
  BY <1>2 DEF Secrecy, SentBare
<1>4. PICK r : r = repo[Root] /\ r \in Repo /\ Clean(r.main) /\ Bare(r.holds)
  BY <1>2, RepoType DEF Secrecy, SentBare
<1>5. PICK s : s = [r EXCEPT !.main = IF r.main = held THEN head ELSE @, !.landing = @ \ f.drop,
                             !.stray = IF held \in was \union {0, head} THEN @ ELSE @ \union {held}]
  OBVIOUS
<1>6. s.main = (IF r.main = held THEN head ELSE r.main) /\ s.holds = r.holds
  BY <1>4, <1>5 DEF Repo
<1>7. repo' = [repo EXCEPT ![Root] = s]
  BY <1>3, <1>4, <1>5 DEF FollowMove, Unmoved
<1>8. DOMAIN repo' = DOMAIN repo /\ repo'[Root] = s /\ \A u \in DOMAIN repo : u # Root => repo'[u] = repo[u]
  BY <1>2, <1>7, ExceptThen
<1>9. PICK d, h : d = s.main /\ h = s.holds /\ Clean(d) /\ Bare(h)
  BY <1>3, <1>4, <1>6
<1>10. Clean(d)' /\ Bare(h)'
  BY <1>1, <1>9, SameClean
<1>11. Clean(repo[Root].main)' /\ Bare(repo[Root].holds)'
  BY <1>8, <1>9, <1>10
<1>12. PICK g : /\ follows' = (follows \ {f}) \union {g}
                /\ g = [f EXCEPT !.at = "read", !.tries = @ + 1] \/ g = [f EXCEPT !.at = "moves"]
  BY DEF FollowMove, Following
<1>13. g.moves = f.moves
  BY <1>2, <1>12 DEF Landing
<1>14. Grows(made, made')
  BY <1>1, SameGrows DEF Inv
<1>15. \A k \in follows' : k \in follows \/ \A v \in k.moves : Clean(v.new)'
  BY <1>1, <1>12, <1>13, FewerMoves
<1>16. SentBare'
  BY <1>1, <1>8, <1>11, <1>14, <1>15, SentRepo
<1> QED
  BY <1>1, <1>8, <1>16, FollowsSecrets

LEMMA FollowChildSecrets ==
    ASSUME Inv, Inv', Secrecy, NEW f \in follows, FollowChild(f)
    PROVE  Secrecy'
<1>1. UNCHANGED <<made, kept, linked, was, fork, op>>
  BY DEF FollowChild, local, remote
<1>2. TypeOK /\ f \in Landing
  BY FollowIs DEF Inv
<1>3. PICK v \in f.moves :
         /\ repo' = [repo EXCEPT ![v.tracker].main = IF @ = v.old THEN v.new ELSE @,
                                 ![v.tracker].landing = @ \ {v.new}]
         /\ Following(f, [f EXCEPT !.moves = @ \ {v}])
  BY DEF FollowChild
<1>4. PICK t, old, new : t = v.tracker /\ old = v.old /\ new = v.new /\ Clean(new)
  BY DEF Secrecy, SentBare
<1>5. PICK g : follows' = (follows \ {f}) \union {g} /\ g = [f EXCEPT !.moves = @ \ {v}]
  BY <1>3 DEF Following
<1>6. g.moves \subseteq f.moves
  BY <1>2, <1>5 DEF Landing
<1>7. Grows(made, made')
  BY <1>1, SameGrows DEF Inv
<1>8. \A k \in follows' : k \in follows \/ \A w \in k.moves : Clean(w.new)'
  BY <1>1, <1>5, <1>6, FewerMoves
<1>9. DOMAIN repo' = DOMAIN repo /\ SentBare'
  <2>1. CASE t \in DOMAIN repo
    <3>1. PICK r : r = repo[t] /\ r \in Repo /\ Clean(r.main) /\ Bare(r.holds)
      BY <1>2, <2>1, RepoType DEF Secrecy, SentBare
    <3>2. PICK s : s = [r EXCEPT !.main = IF @ = old THEN new ELSE @, !.landing = @ \ {new}]
      OBVIOUS
    <3>3. s.main \in {r.main, new} /\ s.holds = r.holds
      BY <3>1, <3>2 DEF Repo
    <3>4. repo' = [repo EXCEPT ![t] = s]
      BY <1>3, <1>4, <2>1, <3>1, <3>2
    <3>5. DOMAIN repo' = DOMAIN repo /\ repo'[t] = s /\ \A u \in DOMAIN repo : u # t => repo'[u] = repo[u]
      BY <2>1, <3>4, ExceptThen
    <3>6. PICK d, h : d = s.main /\ h = s.holds /\ Clean(d) /\ Bare(h)
      BY <1>4, <3>1, <3>3
    <3>7. Clean(d)' /\ Bare(h)'
      BY <1>1, <3>6, SameClean
    <3>8. Clean(repo[t].main)' /\ Bare(repo[t].holds)'
      BY <3>5, <3>6, <3>7
    <3> QED
      BY <1>1, <1>7, <1>8, <3>5, <3>8, SentRepo
  <2>2. CASE t \notin DOMAIN repo
    <3>1. PICK D : repo \in [D -> Repo] /\ DOMAIN repo = D
      BY <1>2 DEF TypeOK, Maps
    <3>2. repo' = repo
      BY <1>3, <1>4, <2>2, <3>1
    <3> QED
      BY <1>1, <1>7, <1>8, <3>2, SentStep DEF Secrecy
  <2> QED
    BY <2>1, <2>2
<1> QED
  BY <1>1, <1>9, FollowsSecrets

LEMMA FollowSecrets ==
    ASSUME Inv, Inv', Secrecy, NEW f \in follows, Follow(f)
    PROVE  Secrecy'
<1>1. CASE Answer(f) \/ WorkerDies(f)
  <2>1. /\ UNCHANGED <<made, kept, linked, was, repo, fork>>
        /\ follows' = follows \ {f}
        /\ op' = op \/ Stop(f.by) \/ GoOn(f.by, "children")
    BY <1>1 DEF Answer, WorkerDies, local, remote
  <2>2. SentBare'
    BY <2>1, SameGrows, SentStays DEF Inv
  <2> QED
    BY <2>1, <2>2, FollowsSecrets
<1> QED
  BY <1>1, FollowReadSecrets, FollowMoveSecrets, FollowChildSecrets DEF Follow

-----------------------------------------------------------------------------
(* The end of a merge, where there is no remote.                           *)

\* The one command of a project without a remote changes what its store keeps.
LEMMA KeptSecrets ==
    ASSUME Inv, Inv', Secrecy, ~linked, NEW p \in Process, ~Idle(p), Others(p), SendsBare(p)',
           UNCHANGED <<made, linked, was, repo, fork, follows>>,
           NEW k, k = kept[Home], NEW g, kept' = [kept EXCEPT ![Home] = g],
           \A t \in Children : t \in DOMAIN k => t \in DOMAIN g /\ Behind(k[t]) \subseteq Behind(g[t]),
           Root \in DOMAIN g => DOMAIN g \subseteq DOMAIN Index(g[Root])
    PROVE  Secrecy'
<1>1. Home \in Range(Host) /\ kept \in [Range(Host) -> Pins] /\ AtHome
  BY HostIs DEF Inv, TypeOK
<1>2. kept'[Home] = g /\ \A m \in Range(Host) : m # Home => kept'[m] = kept[m]
  BY <1>1
<1>3. Grows(made, made')
  BY SameGrows DEF Inv
<1>4. History'
  <2>1. ASSUME NEW t \in Children PROVE InStore(t) \intersect Hidden \subseteq InStore(t)'
    <3>1. CASE t \in DOMAIN k
      <4>1. PICK c, d : c = k[t] /\ d = g[t] /\ Behind(c) \subseteq Behind(d) /\ t \in DOMAIN g
        BY <3>1
      <4>2. InStore(t) = Behind(c)
        BY <3>1, <4>1 DEF InStore
      <4>3. InStore(t)' = Behind(d)'
        BY <1>2, <4>1 DEF InStore
      <4>4. Behind(d)' = Behind(d)
        BY DEF Behind
      <4> QED
        BY <4>1, <4>2, <4>3, <4>4
    <3>2. CASE t \notin DOMAIN k
      BY <3>2 DEF InStore
    <3> QED
      BY <3>1, <3>2
  <2>2. PICK more : more = {} /\ Roots' \subseteq Roots \union more
    BY DEF Roots
  <2> QED
    BY <1>3, <2>1, <2>2, HistoryStep DEF Secrecy
<1>5. Store'
  <2>1. \A m \in Range(Host) : m # Home => DOMAIN kept'[m] = {}
    BY <1>2 DEF Secrecy, Store
  <2>2. Index(g[Root])' = Index(g[Root])
    BY DEF Index
  <2> QED
    BY <1>2, <2>1, <2>2 DEF Store, Here
<1>6. SentBare'
  BY <1>3, SentStays
<1>7. ASSUME NEW q \in Process PROVE SendsBare(q)'
  <2>1. CASE q = p
    BY <2>1
  <2>2. CASE q # p
    <3>1. op'[q].at = "idle"
      BY <1>1, <2>2 DEF AtHome, Others, Idle
    <3> QED
      BY <3>1 DEF SendsBare
  <2> QED
    BY <2>1, <2>2
<1> QED
  BY <1>4, <1>5, <1>6, <1>7 DEF Secrecy

LEMMA LocalRootSecrets ==
    ASSUME Inv, Inv', Secrecy, NEW p \in Process, LocalRoot(p)
    PROVE  Secrecy'
<1>1. op[p].at = "root" /\ UNCHANGED <<made, kept, linked, was, repo, fork, follows>>
  BY DEF LocalRoot, remote
<1>2. CASE Stop(p)
  BY <1>1, <1>2, StopsThen, CommandSecrets
<1>3. CASE GoOn(p, "keep")
  <2>1. Others(p) /\ op'[p].at = "keep" /\ op'[p].merged = op[p].merged /\ op'[p].moves = op[p].moves
    BY <1>3, GoesOnThen
  <2>2. PICK o, k : o = op[p] /\ k = kept[Home] /\ k = kept'[Home]
    BY <1>1
  <2>3. PICK index : index = Index(o.merged) /\ index = Index(o.merged)'
    BY <1>1 DEF Index
  <2>4. ~linked => /\ DOMAIN k \subseteq DOMAIN index
                   /\ \A v \in o.moves : /\ v.tracker \in DOMAIN index
                                         /\ v.tracker \in DOMAIN k => Behind(k[v.tracker]) \subseteq Behind(v.new)
    BY <1>1, <2>2, <2>3 DEF Secrecy, SendsBare
  <2>5. \A v \in o.moves : v.tracker \in DOMAIN k =>
           Behind(k[v.tracker])' = Behind(k[v.tracker]) /\ Behind(v.new)' = Behind(v.new)
    BY <1>1 DEF Behind
  <2>6. SendsBare(p)'
    BY <1>1, <2>1, <2>2, <2>3, <2>4, <2>5 DEF SendsBare
  <2> QED
    BY <1>1, <2>1, <2>6, CommandSecrets
<1> QED
  BY <1>2, <1>3 DEF LocalRoot

LEMMA LocalKeepSecrets ==
    ASSUME Inv, Inv', Secrecy, NEW p \in Process, LocalKeep(p)
    PROVE  Secrecy'
<1>1. /\ op[p].at = "keep" /\ ~Idle(p) /\ ~linked
      /\ UNCHANGED <<made, linked, was, repo, fork, follows>>
  BY HereOnly DEF LocalKeep, remote, Idle
<1>2. PICK o : /\ o = op[p] /\ o \in Op /\ o.at = "keep" /\ o.merged \in Roots
               /\ main[Home][Root] = o.merged /\ Host[p] = Home
  BY <1>1, Busied DEF RunsHere
<1>3. PICK merged \in Roots : merged = o.merged
  BY <1>2
<1>4. PICK k : k = kept[Home] /\ Root \in DOMAIN k
  BY <1>1, Busied DEF Here
<1>5. PICK index : index = Index(merged) /\ Root \in DOMAIN index
  BY <1>3, IndexIs DEF Inv
<1>6. /\ DOMAIN k \subseteq DOMAIN index
      /\ \A v \in o.moves : /\ v.tracker \in DOMAIN index
                            /\ v.tracker \in DOMAIN k => Behind(k[v.tracker]) \subseteq Behind(v.new)
  BY <1>1, <1>2, <1>3, <1>4, <1>5 DEF Secrecy, SendsBare
<1>7. PICK g : g = Put(k, Root, merged)
  OBVIOUS
<1>8. g[Root] = merged /\ DOMAIN g = DOMAIN k \union {Root} /\ \A t \in Children : t \in DOMAIN k => g[t] = k[t]
  BY <1>7 DEF Put, Children, Root
<1>9. kept' = [kept EXCEPT ![Home] = g] /\ GoOn(p, "children")
  BY <1>2, <1>3, <1>4, <1>7 DEF LocalKeep
<1>10. /\ Others(p) /\ op'[p].at = "children" /\ op'[p].merged = o.merged /\ op'[p].moves = o.moves
  BY <1>2, <1>9, GoesOnThen
<1>11. kept'[Home] = g
  <2>1. Home \in Range(Host) /\ kept \in [Range(Host) -> Pins]
    BY HostIs DEF Inv, TypeOK
  <2> QED
    BY <1>9, <2>1
<1>12. SendsBare(p)'
  <2>1. Index(o.merged)' = index
    BY <1>1, <1>3, <1>5 DEF Index
  <2>2. ASSUME NEW v \in o.moves, v.tracker \in DOMAIN g PROVE Behind(g[v.tracker])' \subseteq Behind(v.new)'
    <3>1. v.tracker \in Children
      BY <1>2 DEF Op, Move
    <3>2. v.tracker \in DOMAIN k /\ g[v.tracker] = k[v.tracker]
      BY <1>8, <2>2, <3>1, TrackerIs
    <3>3. PICK c, d : c = k[v.tracker] /\ d = v.new /\ Behind(c) \subseteq Behind(d)
      BY <1>6, <3>2
    <3>4. Behind(c)' = Behind(c) /\ Behind(d)' = Behind(d)
      BY <1>1 DEF Behind
    <3> QED
      BY <3>2, <3>3, <3>4
  <2> QED
    BY <1>6, <1>10, <1>11, <2>1, <2>2 DEF SendsBare
<1>13. \A t \in Children : t \in DOMAIN k => t \in DOMAIN g /\ Behind(k[t]) \subseteq Behind(g[t])
  BY <1>8
<1>14. DOMAIN g \subseteq DOMAIN Index(g[Root])
  BY <1>5, <1>6, <1>8
<1> QED
  BY <1>1, <1>4, <1>9, <1>10, <1>12, <1>13, <1>14, KeptSecrets

LEMMA LocalEndSecrets ==
    ASSUME Inv, Inv', Secrecy, NEW p \in Process, LocalEnd(p)
    PROVE  Secrecy'
<1>1. /\ op[p].at = "children" /\ ~Idle(p)
      /\ UNCHANGED <<made, linked, was, repo, fork, follows>>
      /\ kept' = IF linked THEN kept ELSE [kept EXCEPT ![Host[p]] = MovedTo(op[p], @)]
      /\ IF op[p].cmd = "create" THEN GoOn(p, "create") ELSE Stop(p)
  BY LocalEndIs DEF remote, Idle
<1>2. Others(p) /\ SendsBare(p)'
  BY <1>1, StopsThen, GoesOnThen
<1>3. CASE linked
  BY <1>1, <1>2, <1>3, CommandSecrets
<1>4. CASE ~linked
  <2>1. PICK o : /\ o = op[p] /\ o \in Op /\ OpRefs(p) /\ o.at = "children" /\ o.merged \in Roots
                 /\ kept[Home][Root] = o.merged /\ Host[p] = Home
    BY <1>1, <1>4, Busied DEF RunsHere
  <2>2. Home \in Range(Host)
    BY HostIs
  <2>3. PICK k : k = kept[Home] /\ Root \in DOMAIN k /\ k \in Pins /\ Tree(k)
    BY <1>1, <1>4, <2>2, Busied DEF Here, Inv, Refs, TypeOK, MainRefs
  <2>4. PICK index : index = Index(o.merged) /\ DOMAIN k \subseteq DOMAIN index
    BY <1>4, <2>1, <2>3 DEF Secrecy, Store, Here
  <2>5. \A v \in o.moves : /\ v.tracker \in DOMAIN index
                           /\ v.tracker \in DOMAIN k => Behind(k[v.tracker]) \subseteq Behind(v.new)
    BY <1>4, <2>1, <2>3, <2>4 DEF Secrecy, SendsBare
  <2>6. PICK g : g = MovedTo(o, k)
    OBVIOUS
  <2>7. g[Root] = o.merged
    <3>1. \A v \in o.moves : v.new \in 1 .. Len(made)
      BY <2>1 DEF OpRefs
    <3> QED
      BY <2>1, <2>3, <2>6, <3>1, MovedToIs DEF Here, Inv
  <2>8. kept' = [kept EXCEPT ![Home] = g]
    BY <1>1, <1>4, <2>1, <2>3, <2>6
  <2>9. PICK moved : moved = {v.tracker : v \in o.moves}
    OBVIOUS
  <2>10. g = [t \in DOMAIN k \union moved |-> IF t \in moved THEN MoveOf(o, t).new ELSE k[t]]
    BY <2>6, <2>9 DEF MovedTo
  <2>11. ASSUME NEW t \in Children, t \in DOMAIN k PROVE t \in DOMAIN g /\ Behind(k[t]) \subseteq Behind(g[t])
    <3>1. CASE t \in moved
      <4>1. PICK v \in o.moves : v.tracker = t
        BY <2>9, <3>1
      <4>2. PICK u \in o.moves : u = MoveOf(o, t) /\ u.tracker = t
        BY <4>1, MoveOfIs
      <4>3. g[t] = u.new /\ t \in DOMAIN g
        BY <2>10, <3>1, <4>2
      <4> QED
        BY <2>5, <2>11, <4>2, <4>3
    <3>2. CASE t \notin moved
      BY <2>10, <2>11, <3>2
    <3> QED
      BY <3>1, <3>2
  <2>12. DOMAIN g \subseteq DOMAIN Index(g[Root])
    BY <2>4, <2>5, <2>7, <2>9, <2>10
  <2> QED
    BY <1>1, <1>2, <1>4, <2>3, <2>8, <2>11, <2>12, KeptSecrets
<1> QED
  BY <1>3, <1>4

-----------------------------------------------------------------------------
(* A project is created on its remote with what may leave, and all it has. *)

LEMMA CreateReadSecrets ==
    ASSUME Inv, Inv', Secrecy, NEW p \in Process, CreateRead(p)
    PROVE  Secrecy'
<1>1. /\ Graph(made) /\ TypeOK /\ MainRefs /\ Home \in Range(Host)
  BY HostIs DEF Inv, Refs
<1>2. PICK fetched, index :
              /\ fetched = Fetched(Host[p]) /\ index = Index(At(fetched, Root))
              /\ op[p].at = "create"
              /\ main' = [main EXCEPT ![Host[p]] = fetched]
              /\ \/ Stop(p)
                 \/ /\ ~RefusedTrackers(Mains(fetched, index), DOMAIN Mains(fetched, index))
                    /\ Becomes(p, [op[p] EXCEPT !.base = index, !.heads = Mains(fetched, index), !.at = "seeds",
                                                !.todo = InOrder(DOMAIN Mains(fetched, index))])
              /\ UNCHANGED <<made, inst, kept, has, linked, remote, repo, fork, follows, acked, spent>>
  BY CreateReadIs, Zenon
<1>3. UNCHANGED <<made, kept, linked, was, repo, fork, follows>> /\ ~linked /\ ~Idle(p)
  BY <1>2, HereOnly DEF remote, Idle
<1>4. CASE Stop(p)
  BY <1>3, <1>4, StopsThen, CommandSecrets
<1>5. PICK o : o = op[p] /\ o \in Op /\ Host[p] = Home
  BY <1>3, Busied
<1>6. PICK mains, todo : mains = Mains(fetched, index) /\ todo = InOrder(DOMAIN mains)
  OBVIOUS
<1>7. PICK next : next = [o EXCEPT !.base = index, !.heads = mains, !.at = "seeds", !.todo = todo]
  OBVIOUS
<1>8. CASE ~RefusedTrackers(mains, DOMAIN mains) /\ Becomes(p, next)
  <2>1. PICK k : k = kept[Home] /\ k = kept'[Home] /\ Root \in DOMAIN k /\ Tree(k)
    BY <1>1, <1>3, Busied DEF Here, MainRefs
  <2>2. /\ fetched \in Pins /\ Tree(fetched) /\ DOMAIN k \subseteq DOMAIN fetched
        /\ \A t \in DOMAIN k : fetched[t] = k[t]
    <3>1. fetched = Fetched(Home)
      BY <1>2, <1>5
    <3>2. /\ Fetched(Home) \in Pins /\ Tree(Fetched(Home))
          /\ DOMAIN Fetched(Home) = DOMAIN main[Home] \union DOMAIN kept[Home]
          /\ \A t \in DOMAIN kept[Home] : Fetched(Home)[t] = kept[Home][t]
      BY <1>1, FetchedIs
    <3>3. k = kept[Home]
      BY <2>1
    <3> QED
      BY <3>1, <3>2, <3>3
  <2>3. PICK r \in Roots : r = k[Root] /\ r = At(fetched, Root)
    BY <2>1, <2>2 DEF Tree, At
  <2>4. Names(mains) /\ DOMAIN mains = DOMAIN index /\ index = Index(r)
    BY <1>1, <1>2, <1>6, <2>2, <2>3, MainsIs
  <2>5. ASSUME NEW t \in DOMAIN mains PROVE Clean(mains[t])'
    <3>1. PICK c : c = mains[t] /\ c \in 1 .. Len(made)
      BY <2>4 DEF Names, NamesIn
    <3>2. \A b \in Behind(c) \ Adopted : ~made[b].secret
      BY <1>8, <3>1 DEF RefusedTrackers
    <3>3. Clean(c)
      BY <1>1, <3>1, <3>2, BehindType DEF Clean, Bare, Hidden
    <3>4. Clean(c)'
      BY <1>3, <3>3, SameClean
    <3> QED
      BY <3>1, <3>4
  <2>6. ASSUME NEW t \in DOMAIN k PROVE t \in DOMAIN mains /\ mains[t] = k[t]
    <3>1. t \in DOMAIN index
      BY <1>3, <2>1, <2>3, <2>4 DEF Secrecy, Store, Here
    <3>2. At(fetched, t) = k[t] /\ k[t] # 0
      <4>1. k[t] \in 1 .. Len(made) /\ Len(made) \in Nat
        BY <1>1, <2>1 DEF Tree, Names, NamesIn, Graph
      <4>2. k[t] # 0
        BY <4>1
      <4> QED
        BY <2>2, <4>2 DEF At
    <3> QED
      BY <1>6, <2>2, <2>4, <3>1, <3>2 DEF Mains
  <2>7. next.at = "seeds" /\ next.heads = mains
    BY <1>5, <1>7 DEF Op
  <2>8. op'[p] = next /\ Others(p)
    BY <1>8, BecomesThen
  <2>9. SendsBare(p)'
    BY <2>1, <2>5, <2>6, <2>7, <2>8 DEF SendsBare
  <2> QED
    BY <1>3, <2>8, <2>9, CommandSecrets
<1> QED
  BY <1>2, <1>4, <1>5, <1>6, <1>7, <1>8

LEMMA CreateSeedSecrets ==
    ASSUME Inv, Inv', Secrecy, NEW p \in Process, CreateSeed(p)
    PROVE  Secrecy'
<1>1. /\ op[p].at = "seeds" /\ op[p].todo # <<>> /\ ~linked /\ ~Idle(p)
      /\ UNCHANGED <<made, kept, linked, was, fork, follows>>
  BY HereOnly DEF CreateSeed, local, remote, Idle
<1>2. PICK o \in Op : o = op[p] /\ DOMAIN o.heads = DOMAIN o.base /\ Range(o.todo) \subseteq DOMAIN o.base
  BY <1>1, Busied DEF RunsHere
<1>3. PICK t : t = Head(o.todo) /\ t \in DOMAIN o.heads
  <2>1. o.todo \in Seq(Tracker) /\ o.todo # <<>>
    BY <1>1, <1>2 DEF Op
  <2> QED
    BY <1>2, <2>1, HeadTailIs
<1>4. PICK c : c = o.heads[t]
  OBVIOUS
<1>5. PICK r : r = IF t \in DOMAIN repo THEN repo[t] ELSE NewRepo
  OBVIOUS
<1>6. PICK s : s = [r EXCEPT !.main = c, !.holds = @ \union Behind(c)]
  OBVIOUS
<1>7. PICK next : next = [o EXCEPT !.todo = Tail(@)]
  OBVIOUS
<1>8. repo' = Put(repo, t, s) /\ Becomes(p, next)
  BY <1>2, <1>3, <1>4, <1>5, <1>6, <1>7 DEF CreateSeed
<1>9. PICK k : /\ k = kept[Home] /\ k = kept'[Home]
               /\ \A u \in DOMAIN k : u \in DOMAIN o.heads /\ o.heads[u] = k[u]
  BY <1>1, <1>2 DEF Secrecy, SendsBare
<1>10. \A u \in DOMAIN o.heads : Clean(o.heads[u])
  BY <1>1, <1>2 DEF Secrecy, SendsBare
<1>11. Clean(c) /\ Bare(Behind(c))
  BY <1>3, <1>4, <1>10 DEF Clean
<1>12. r \in Repo /\ Bare(r.holds)
  <2>1. CASE t \in DOMAIN repo
    BY <1>5, <2>1, RepoType DEF Inv, Secrecy, SentBare
  <2>2. CASE t \notin DOMAIN repo
    BY <1>5, <2>2, NewRepoIs, NothingBehind
  <2> QED
    BY <2>1, <2>2
<1>13. s.main = c /\ s.holds = r.holds \union Behind(c)
  BY <1>6, <1>12 DEF Repo
<1>14. DOMAIN repo' = DOMAIN repo \union {t} /\ repo'[t] = s /\ \A u \in DOMAIN repo : u # t => repo'[u] = repo[u]
  BY <1>8 DEF Put
<1>15. PICK h : h = s.holds
  OBVIOUS
<1>16. Bare(h)
  BY <1>11, <1>12, <1>13, <1>15, BareUnion
<1>17. Clean(c)' /\ Bare(h)'
  BY <1>1, <1>11, <1>16, SameClean
<1>18. Clean(repo[t].main)' /\ Bare(repo[t].holds)'
  BY <1>13, <1>14, <1>15, <1>17
<1>19. SentBare'
  <2>1. Grows(made, made')
    BY <1>1, SameGrows DEF Inv
  <2> QED
    BY <1>1, <1>14, <1>18, <2>1, SentRepo
<1>20. next.at = "seeds" /\ next.heads = o.heads
  BY <1>1, <1>2, <1>7 DEF Op
<1>21. op'[p] = next /\ Others(p)
  BY <1>8, BecomesThen
<1>22. SendsBare(p)'
  <2>1. \A u \in DOMAIN o.heads : Clean(o.heads[u])'
    BY <1>1, <1>10, SameClean
  <2> QED
    BY <1>9, <1>20, <1>21, <2>1 DEF SendsBare
<1> QED
  BY <1>1, <1>14, <1>19, <1>21, <1>22, SecretsStay

\* From here on a pin tells of what is behind it: all the store keeps was
\* clean, and is on the remote.
LEMMA CreateBranchSecrets ==
    ASSUME Inv, Inv', Secrecy, NEW p \in Process, CreateBranch(p)
    PROVE  Secrecy'
<1>1. /\ op[p].at = "seeds" /\ op[p].todo = <<>> /\ ~linked /\ ~Idle(p) /\ linked' = TRUE
      /\ Stop(p) /\ was' = {op[p].base[Root]}
      /\ UNCHANGED <<made, kept, repo, fork, follows>>
  BY HereOnly DEF CreateBranch, local, Idle
<1>2. PICK o : /\ o = op[p] /\ RunsHere(p) /\ AtHome /\ o.at = "seeds" /\ o.todo = <<>>
  BY <1>1, Busied
<1>3. Range(o.todo) = {}
  BY <1>2, NothingToDo
<1>4. PICK k : k = kept[Home] /\ k = kept'[Home] /\ Root \in DOMAIN k /\ Tree(k)
  BY <1>1, Busied, HostIs DEF Here, Inv, Refs, MainRefs
<1>5. PICK r \in Roots : r = k[Root]
  BY <1>4 DEF Tree
<1>6. /\ o.base = Index(r) /\ DOMAIN o.heads = DOMAIN o.base /\ DOMAIN o.base \subseteq DOMAIN repo
  BY <1>2, <1>3, <1>4, <1>5 DEF RunsHere
<1>7. \A t \in DOMAIN k : t \in DOMAIN o.heads /\ o.heads[t] = k[t] /\ Clean(k[t])
  BY <1>1, <1>2, <1>4 DEF Secrecy, SendsBare
<1>8. was' = {r} /\ Clean(r)
  BY <1>1, <1>2, <1>4, <1>5, <1>6, <1>7, IndexIs DEF Inv
<1>9. Grows(made, made')
  BY <1>1, SameGrows DEF Inv
<1>10. History'
  <2>1. ASSUME NEW t \in Children PROVE InStore(t) \intersect Hidden \subseteq InStore(t)'
    <3>1. InStore(t) \intersect Hidden = {}
      BY <1>1, <1>4, <1>7 DEF InStore, Clean, Bare
    <3> QED
      BY <3>1
  <2>2. PICK more : more = {} /\ Roots' \subseteq Roots \union more
    BY <1>1 DEF Roots
  <2> QED
    BY <1>9, <2>1, <2>2, HistoryStep DEF Secrecy
<1>11. Store'
  <2>1. ASSUME NEW m \in Range(Host) PROVE DOMAIN kept'[m] \subseteq DOMAIN repo'
    <3>1. CASE m = Home
      BY <1>1, <1>4, <1>6, <1>7, <3>1
    <3>2. CASE m # Home
      BY <1>1, <3>2 DEF Secrecy, Store
    <3> QED
      BY <3>1, <3>2
  <2> QED
    BY <1>1, <2>1 DEF Store
<1>12. SentBare'
  <2>1. Clean(r)'
    BY <1>1, <1>8, SameClean
  <2>2. \A w \in was' : w \in was \/ Clean(w)'
    BY <1>8, <2>1
  <2> QED
    BY <1>1, <1>9, <2>2, SentStep DEF Secrecy
<1>13. ASSUME NEW q \in Process PROVE SendsBare(q)'
  <2>1. CASE q = p
    BY <1>1, <2>1, StopsThen
  <2>2. CASE q # p
    <3>1. op'[q].at = "idle"
      BY <1>1, <1>2, <2>2, StopsThen DEF AtHome, Others, Idle
    <3> QED
      BY <3>1 DEF SendsBare
  <2> QED
    BY <2>1, <2>2
<1> QED
  BY <1>10, <1>11, <1>12, <1>13 DEF Secrecy

-----------------------------------------------------------------------------
(* Every step.                                                             *)

LEMMA StepSecrets ==
    ASSUME Inv, Inv', Secrecy, NEW p \in Process, Step(p)
    PROVE  Secrecy'
<1>1. CASE PublishRead(p) \/ PublishNext(p) \/ PublishEnd(p)
  BY <1>1, PublishReadSecrets, PublishNextSecrets, PublishEndSecrets
<1>2. CASE MergeRead(p) \/ MergeFetch(p) \/ MergeMake(p)
  BY <1>2, MergeReadSecrets, MergeFetchSecrets, MergeMakeSecrets
<1>3. CASE MergeSeed(p) \/ MergeBegin(p) \/ MirrorLand(p)
  BY <1>3, MergeSeedSecrets, MergeBeginSecrets, MirrorLandSecrets
<1>4. CASE LandNext(p) \/ Finish(p)
  BY <1>4, LandNextSecrets, FinishSecrets
<1>5. CASE LocalRoot(p) \/ LocalKeep(p) \/ LocalEnd(p)
  BY <1>5, LocalRootSecrets, LocalKeepSecrets, LocalEndSecrets
<1>6. CASE CreateRead(p) \/ CreateSeed(p) \/ CreateBranch(p)
  BY <1>6, CreateReadSecrets, CreateSeedSecrets, CreateBranchSecrets
<1> QED
  BY <1>1, <1>2, <1>3, <1>4, <1>5, <1>6 DEF Step

LEMMA SecrecyNext ==
    ASSUME Inv, Inv', Secrecy, [Next]_vars
    PROVE  Secrecy'
<1>1. ASSUME NEW p \in Process, Command(p) PROVE Secrecy'
  BY <1>1, BeginSecrets, MirrorPullSecrets DEF Command, Push, ProjectPush
<1>2. ASSUME NEW p \in Process, Work(p) PROVE Secrecy'
  <2>1. CASE Edit(p) \/ TakeIn(p) \/ SpawnFrom(p) \/ Kill(p)
    BY <2>1, EditSecrets, TakeInSecrets, SpawnSecrets, KillSecrets
  <2>2. CASE \E t \in Children : Pull(p, t)
    BY <2>2, PullSecrets
  <2> QED
    BY <1>2, <2>1, <2>2 DEF Work
<1>3. CASE UNCHANGED vars
  <2>1. UNCHANGED <<made, kept, linked, was, repo, fork, follows, op>>
    BY <1>3 DEF vars, remote, local
  <2>2. Grows(made, made')
    BY <2>1, SameGrows DEF Inv
  <2>3. History'
    BY <2>1, <2>2, SameHistory DEF Secrecy, Roots
  <2> QED
    BY <2>1, <2>2, <2>3, WorkSecrets
<1>4. CASE \E p \in Process : Step(p)
  BY <1>4, StepSecrets
<1>5. CASE \E f \in follows : Follow(f)
  BY <1>5, FollowSecrets
<1>6. CASE \E t \in Updates : Update(t)
  BY <1>6, UpdateSecrets
<1> QED
  BY <1>1, <1>2, <1>3, <1>4, <1>5, <1>6 DEF Next

LEMMA InitSecrets == ASSUME Init PROVE Secrecy
<1>1. PICK one, two : /\ made = <<one, two>> /\ one.secret = FALSE /\ two.secret = FALSE
                      /\ two.behind = {2} /\ two.pins = [a |-> 1, root |-> 2]
                      /\ one.pins = <<>> /\ one.behind = {1}
  BY DEF Init
<1>2. Len(made) = 2 /\ made[1] = one /\ made[2] = two /\ 1 .. Len(made) = {1, 2}
  BY <1>1
<1>3. Hidden = {}
  BY <1>1, <1>2 DEF Hidden
<1>4. Behind(2) = {2} /\ Behind(1) = {1}
  BY <1>1, <1>2 DEF Behind
<1>5. Clean(2) /\ Clean(1) /\ Bare({1}) /\ Bare({2})
  BY <1>2, <1>3, <1>4 DEF Clean, Bare
<1>6. Roots = {2}
  BY <1>1, <1>2, NoPins DEF Roots, RootsOf, Root
<1>7. PICK index : index = Index(2) /\ DOMAIN index = {"a", "root"} /\ index["a"] = 1 /\ index[Root] = 2
  BY <1>1, <1>2 DEF Index, Root
<1>8. /\ inst = [p \in Process |-> IF p \in Fresh \union Mirror \/ (~linked /\ Host[p] # Home)
                                   THEN [head |-> 0, tip |-> 0] ELSE [head |-> 2, tip |-> 2]]
      /\ main = [m \in Range(Host) |-> IF \E p \in Process : Host[p] = m /\ inst[p].head # 0
                                       THEN index ELSE <<>>]
      /\ kept = main /\ was = IF linked THEN {2} ELSE {}
      /\ follows = {}
      /\ fork = [p \in Process |-> <<>>]
      /\ op = [p \in Process |-> NoOp]
      /\ repo = IF linked THEN [t \in {"a", Root} |-> [NewRepo EXCEPT !.main = index[t], !.holds = {index[t]}]]
                ELSE <<>>
  BY <1>7 DEF Init
<1>9. DOMAIN <<>> = {}
  BY NoPins
<1>10. History
  <2>1. Adopted \subseteq 1 .. Len(made)
    BY <1>2 DEF Adopted
  <2> QED
    BY <1>3, <1>6, <2>1 DEF History, Told
<1>11. Store
  <2>1. ASSUME NEW m \in Range(Host) PROVE kept[m] \in {index, <<>>} /\ (~linked /\ m # Home => kept[m] = <<>>)
    BY <1>8
  <2>2. linked => DOMAIN repo = {"a", "root"}
    BY <1>8 DEF Root
  <2>3. Home \in Range(Host)
    BY RemoteAssumption
  <2>4. Here(kept[Home]) => kept[Home] = index
    BY <1>9, <2>1, <2>3 DEF Here
  <2> QED
    BY <1>7, <1>9, <2>1, <2>2, <2>4 DEF Store
<1>12. SentBare
  <2>1. ASSUME NEW t \in DOMAIN repo PROVE Clean(repo[t].main) /\ Bare(repo[t].holds)
    <3>1. linked /\ t \in {"a", "root"}
      BY <1>8, <1>9, <2>1 DEF Root
    <3>2. PICK c : c = index[t] /\ c \in {1, 2}
      BY <1>7, <3>1 DEF Root
    <3>3. repo[t] = [NewRepo EXCEPT !.main = c, !.holds = {c}]
      BY <1>8, <3>1, <3>2 DEF Root
    <3>4. repo[t].main = c /\ repo[t].holds = {c}
      BY <3>3 DEF NewRepo
    <3> QED
      BY <1>5, <3>2, <3>4
  <2>2. \A p \in Process : DOMAIN fork[p] = {}
    BY <1>8, <1>9
  <2> QED
    BY <1>5, <1>8, <2>1, <2>2 DEF SentBare
<1>13. \A p \in Process : SendsBare(p)
  BY <1>8 DEF SendsBare, NoOp
<1> QED
  BY <1>10, <1>11, <1>12, <1>13 DEF Secrecy

\* No file of a tracker outside Git reaches the remote, but in the history the
\* project was adopted with: not in a tracker's repo, not in a fork of one,
\* whatever was edited, merged and pulled where, before the project was on its
\* remote and since, by commands killed anywhere.
THEOREM NothingLeaves == ASSUME OneAtATime PROVE Spec => []NothingOutsideGitLeaves
<1>1. Init => Secrecy
  BY InitSecrets
<1>2. Inv /\ Inv' /\ Secrecy /\ [Next]_vars => Secrecy'
  BY SecrecyNext
<1>3. Secrecy => NothingOutsideGitLeaves
  <2> SUFFICES ASSUME Secrecy,
                      NEW c \in ((UNION {repo[t].holds : t \in DOMAIN repo}) \union
                                 UNION {UNION {fork[p][t] : t \in DOMAIN fork[p]} : p \in Process}) \ Adopted
               PROVE  ~made[c].secret
    BY DEF NothingOutsideGitLeaves
  <2>1. PICK S : c \in S /\ Bare(S)
    BY DEF Secrecy, SentBare
  <2> QED
    BY <2>1 DEF Bare, Hidden
<1> QED
  BY <1>1, <1>2, <1>3, RemoteInv, PTL DEF Spec

-----------------------------------------------------------------------------
(* Where the commits are that are named on the remote.                     *)

\* A root commit pins what is over the pins of every one behind it.
Covers(q, r) == \A t \in DOMAIN Index(q) : t \in DOMAIN Index(r) /\ Ancestor(Index(q)[t], Index(r)[t])
Forward == \A r \in Roots : \A q \in Behind(r) : q \in Roots /\ Covers(q, r)

\* What is in a repo is there with all that is behind it; what `main` names is
\* in a repo, and what a checkpoint names is there or in its author's fork.
There(p, t) == {0} \union (IF t \in DOMAIN fork[p] THEN fork[p][t] ELSE {})
                   \union (IF t \in DOMAIN repo THEN repo[t].holds ELSE {})
Recorded(c) == \A t \in Tracker : {At(Index(c.head), t), At(Index(c.tip), t)} \subseteq There(c.by, t)
Held ==
    /\ \A t \in DOMAIN repo : \A c \in repo[t].holds : Behind(c) \subseteq repo[t].holds
    /\ \A t \in DOMAIN list : list[t] \in repo[t].holds
    /\ \A c \in stored : Recorded(c)

\* Off the remote, what root pins is behind the trackers' `main` in the store,
\* but for a merge that has moved root's and not theirs.
Pinned(r, k) == \A t \in DOMAIN Index(r) : t \in DOMAIN k /\ Ancestor(Index(r)[t], k[t])
InStep ==
    LET k == kept[Home]
    IN  ~linked => /\ DOMAIN main[Home] \subseteq DOMAIN k
                   /\ Here(k) /\ (\A p \in Process : op[p].at # "children") => Pinned(k[Root], k)

\* Each command: what it need not publish any more is there; what it merged is
\* behind what it will move the trackers to; what it seeded is there.
Reaches(p, t, c) ==
    /\ \A v \in op[p].moves : v.tracker = t => Ancestor(c, v.new)
    /\ \/ \E v \in op[p].moves : v.tracker = t
       \/ t \in DOMAIN kept[Home] /\ Ancestor(c, kept[Home][t])
Placed(p) ==
    LET o == op[p]
    IN  /\ o.at = "publish" => \A t \in DOMAIN Index(o.tip) \ Range(o.todo) :
               {At(Index(o.theirs), t), Index(o.tip)[t]} \subseteq There(p, t)
        /\ ~linked /\ o.at \in {"root", "keep", "children"} =>
               \A t \in DOMAIN Index(o.merged) \ {Root} : Reaches(p, t, Index(o.merged)[t])
        /\ o.at = "seeds" => \A t \in DOMAIN o.base :
               /\ Ancestor(o.base[t], o.heads[t])
               /\ t \notin Range(o.todo) => o.base[t] \in repo[t].holds
Whereabouts == Forward /\ Held /\ InStep /\ \A p \in Process : Placed(p)

-----------------------------------------------------------------------------
(* Pins go forward.                                                        *)

LEMMA CoversGoesOn ==
    ASSUME Graph(made), Grows(made, made'), NEW q \in Roots, NEW r \in Roots, Covers(q, r)
    PROVE  Covers(q, r)'
<1>1. /\ Index(q)' = Index(q) /\ Index(r)' = Index(r) /\ NamesIn(made, Index(r))
  BY IndexIs, IndexGoesOn
<1>2. ASSUME NEW t \in DOMAIN Index(q)
      PROVE  t \in DOMAIN Index(r) /\ Ancestor(Index(q)[t], Index(r)[t])'
  <2>1. PICK a, b : a = Index(q)[t] /\ b = Index(r)[t]
    OBVIOUS
  <2>2. t \in DOMAIN Index(r) /\ Ancestor(a, b) /\ b \in 1 .. Len(made)
    BY <1>1, <2>1 DEF Covers, NamesIn
  <2>3. Ancestor(a, b)'
    BY <2>2, AncestorGoesOn
  <2> QED
    BY <1>1, <2>1, <2>2, <2>3
<1> QED
  BY <1>1, <1>2 DEF Covers

\* The root commits that were, and one more at most.
LEMMA ForwardStep ==
    ASSUME Graph(made), Grows(made, made'), Forward, NEW more, Roots' \subseteq Roots \union more,
           \A n \in more : n \in Roots' =>
                 \A q \in Behind(n)' : q = n \/ (q \in Roots /\ Covers(q, n)')
    PROVE  Forward'
<1> SUFFICES ASSUME NEW r \in Roots', NEW q \in Behind(r)' PROVE q \in Roots' /\ Covers(q, r)'
  BY DEF Forward
<1>1. Graph(made') /\ Roots \subseteq Roots'
  BY GoesOn
<1>2. CASE r \in Roots
  <2>1. r \in 1 .. Len(made) /\ Behind(r)' = Behind(r)
    BY <1>2, IndexIs, BehindGoesOn
  <2>2. q \in Roots /\ Covers(q, r)
    BY <1>2, <2>1 DEF Forward
  <2> QED
    BY <1>1, <1>2, <2>2, CoversGoesOn
<1>3. CASE r \in more /\ q = r
  <2>1. r \in RootsOf(made')
    BY DEF Roots
  <2>2. PICK pins : /\ pins = made'[r].pins /\ [pins EXCEPT ![Root] = r] = pins /\ r # 0
                    /\ NamesIn(made', pins)
    BY <1>1, <2>1, RootPins
  <2>3. Index(r)' = pins
    BY <2>2 DEF Index
  <2>4. \A t \in DOMAIN pins : Ancestor(pins[t], pins[t])'
    BY <1>1, <2>2, AncestorThen DEF NamesIn
  <2> QED
    BY <1>3, <2>3, <2>4 DEF Covers
<1>4. CASE r \in more /\ q # r
  BY <1>1, <1>4
<1> QED
  BY <1>2, <1>3, <1>4

LEMMA SameForward ==
    ASSUME Graph(made), Grows(made, made'), Forward, Roots' \subseteq Roots
    PROVE  Forward'
<1>1. PICK more : more = {}
  OBVIOUS
<1> QED
  BY <1>1, ForwardStep

\* A new root commit that is over others, and its pins over theirs.
LEMMA NewestForward ==
    ASSUME Graph(made), Graph(made'), Grows(made, made'), Forward, NEW parents \in SUBSET Roots,
           NEW n \in Roots', n \notin 1 .. Len(made), Roots' \subseteq Roots \union {n},
           Behind(n)' = (UNION {Behind(s) : s \in parents}) \union {n},
           \A s \in parents : \A t \in DOMAIN Index(s) :
               t # Root => t \in DOMAIN Index(n)' /\ Ancestor(Index(s)[t], Index(n)[t])'
    PROVE  Forward'
<1>1. PICK pins : pins = Index(n)' /\ NamesIn(made', pins) /\ Root \in DOMAIN pins /\ pins[Root] = n
  <2>1. n \in RootsOf(made')
    BY DEF Roots
  <2>a. PICK f : f = made'[n].pins
    OBVIOUS
  <2>2. [f EXCEPT ![Root] = n] = f /\ n # 0 /\ NamesIn(made', f) /\ Root \in DOMAIN f /\ f[Root] = n
    BY <2>1, <2>a, RootPins
  <2>3. Index(n)' = f
    BY <2>2, <2>a DEF Index
  <2> QED
    BY <2>2, <2>3
<1>2. ASSUME NEW q \in Behind(n)', q # n PROVE q \in Roots /\ Covers(q, n)'
  <2>1. PICK s \in parents : q \in Behind(s)
    BY <1>2
  <2>2. q \in Roots /\ Covers(q, s)
    BY <2>1 DEF Forward
  <2>3. Index(q)' = Index(q) /\ Index(q)[Root] = q /\ NamesIn(made, Index(s))
    BY <2>2, IndexIs, IndexGoesOn
  <2>4. ASSUME NEW t \in DOMAIN Index(q) PROVE t \in DOMAIN pins /\ Ancestor(Index(q)[t], pins[t])'
    <3>1. CASE t = Root
      BY <1>1, <1>2, <2>3, <3>1 DEF Ancestor
    <3>2. CASE t # Root
      <4>1. PICK a, b, c : a = Index(q)[t] /\ b = Index(s)[t] /\ c = pins[t]
        OBVIOUS
      <4>2. t \in DOMAIN Index(s) /\ Ancestor(a, b) /\ b \in 1 .. Len(made)
        BY <2>2, <2>3, <4>1 DEF Covers, NamesIn
      <4>3. Ancestor(a, b)'
        BY <4>2, AncestorGoesOn
      <4>4. t \in DOMAIN pins /\ Ancestor(b, c)' /\ c \in 1 .. Len(made')
        <5>1. t \in DOMAIN pins /\ Ancestor(Index(s)[t], Index(n)[t])'
          BY <1>1, <3>2, <4>2
        <5>2. Index(s)' = Index(s)
          BY IndexGoesOn
        <5> QED
          BY <1>1, <4>1, <5>1, <5>2 DEF NamesIn
      <4>5. Ancestor(a, c)'
        BY <4>3, <4>4, AncestorThen
      <4> QED
        BY <2>3, <4>1, <4>4, <4>5
    <3> QED
      BY <3>1, <3>2
  <2> QED
    BY <1>1, <2>2, <2>3, <2>4 DEF Covers
<1>3. PICK more : more = {n}
  OBVIOUS
<1>4. \A x \in more : x \in Roots' => \A q \in Behind(x)' : q = x \/ (q \in Roots /\ Covers(q, x)')
  <2> SUFFICES ASSUME NEW x \in more, NEW q \in Behind(x)', q # x PROVE q \in Roots /\ Covers(q, x)'
    OBVIOUS
  <2>1. x = n
    BY <1>3
  <2>2. Behind(x)' = Behind(n)' /\ (Covers(q, n)' => Covers(q, x)')
    BY <2>1
  <2> QED
    BY <1>2, <2>1, <2>2
<1> QED
  BY <1>3, <1>4, ForwardStep

\* A new root commit over others, with commits of other trackers after it.
LEMMA NewRootForward ==
    ASSUME Graph(made), Graph(made'), Forward,
           NEW commits, NEW parents \in SUBSET Roots, NEW told,
           NewRoot(made, commits, parents, told), Grows(commits, made'),
           \A c \in 1 .. Len(made') : c \notin 1 .. Len(commits) => Root \notin DOMAIN made'[c].pins
    PROVE  Forward'
<1>1. PICK n, pins : n = Len(commits) /\ pins = commits[n].pins
  OBVIOUS
<1>2. /\ Grows(made, commits) /\ Len(made) < n /\ Root \in DOMAIN pins
      /\ commits[n].behind = (UNION {made[q].behind : q \in parents}) \union {n}
      /\ \A c \in 1 .. n : c \notin 1 .. Len(made) /\ c # n => Root \notin DOMAIN commits[c].pins
      /\ \A t \in Children : Over(commits, pins, t, PinnedBy(made, parents, t), told)
  BY <1>1 DEF NewRoot
<1>3. /\ Graph(commits) /\ n \in Nat /\ 1 .. Len(made) \subseteq 1 .. n /\ Len(made) \in Nat
      /\ \A c \in 1 .. Len(made) : commits[c] = made[c]
  BY <1>1, <1>2, GrowsIs
<1>4. /\ 1 .. n \subseteq 1 .. Len(made') /\ \A c \in 1 .. n : made'[c] = commits[c]
  BY <1>1, <1>3, GrowsIs
<1>5. Grows(made, made')
  BY <1>2, GrowsAll
<1>6. n \in 1 .. n /\ n \in 1 .. Len(made') /\ n # 0 /\ n \notin 1 .. Len(made) /\ made'[n] = commits[n]
  BY <1>2, <1>3, <1>4
<1>7. n \in Roots' /\ Index(n)' = pins /\ Behind(n)' = commits[n].behind
  <2>1. n \in RootsOf(made')
    BY <1>1, <1>2, <1>6 DEF RootsOf
  <2>2. [made'[n].pins EXCEPT ![Root] = n] = made'[n].pins
    BY <2>1, RootPins
  <2> QED
    BY <1>1, <1>6, <2>1, <2>2 DEF Roots, Index, Behind
<1>8. pins \in Pins /\ NamesIn(commits, pins)
  BY <1>1, <1>3, <1>6, CommitAt
<1>9. Roots' \subseteq Roots \union {n}
  <2> SUFFICES ASSUME NEW r \in 1 .. Len(made'), Root \in DOMAIN made'[r].pins, r # n
               PROVE  r \in Roots
    BY DEF Roots, RootsOf
  <2>1. r \in 1 .. n
    BY <1>1
  <2>2. r \in 1 .. Len(made)
    BY <1>2, <1>4, <2>1
  <2>3. made'[r] = made[r]
    BY <1>3, <1>4, <2>2
  <2> QED
    BY <2>2, <2>3 DEF Roots, RootsOf
<1>10. \A s \in parents : Behind(s) = made[s].behind /\ Index(s) = made[s].pins
  BY IndexIs, AncestorIs
<1>11. Behind(n)' = (UNION {Behind(s) : s \in parents}) \union {n}
  BY <1>2, <1>7, <1>10
<1>12. ASSUME NEW s \in parents, NEW t \in DOMAIN Index(s), t # Root
       PROVE  t \in DOMAIN Index(n)' /\ Ancestor(Index(s)[t], Index(n)[t])'
  <2>1. Index(s)' = Index(s) /\ Index(s) \in Pins
    BY <1>5, IndexIs, IndexGoesOn
  <2>2. t \in Children
    BY <1>12, <2>1, PinsOf DEF Tracker
  <2>3. PICK c : c = Index(s)[t] /\ c \in PinnedBy(made, parents, t)
    BY <1>10, <1>12 DEF PinnedBy, From
  <2>4. t \in DOMAIN pins /\ c \in commits[pins[t]].behind
    BY <1>2, <2>2, <2>3 DEF Over
  <2>5. PICK d : d = pins[t] /\ d \in 1 .. n /\ d # 0
    BY <1>1, <1>3, <1>8, <2>4 DEF NamesIn
  <2>6. Ancestor(c, d)'
    BY <1>4, <2>4, <2>5 DEF Ancestor, Behind
  <2> QED
    BY <1>7, <2>1, <2>3, <2>4, <2>5, <2>6
<1> QED
  BY <1>5, <1>6, <1>7, <1>9, <1>11, <1>12, NewestForward

-----------------------------------------------------------------------------
(* What is somewhere stays there.                                          *)

Keeps ==
    /\ \A t \in DOMAIN repo : t \in DOMAIN repo' /\ repo[t].holds \subseteq repo'[t].holds
    /\ \A q \in Process : \A t \in DOMAIN fork[q] : t \in DOMAIN fork'[q] /\ fork[q][t] \subseteq fork'[q][t]

LEMMA ThereKept ==
    ASSUME Keeps, NEW q \in Process, NEW t
    PROVE  There(q, t) \subseteq There(q, t)'
  BY DEF Keeps, There

LEMMA RecordedGoesOn ==
    ASSUME Inv, Grows(made, made'), Keeps, NEW c \in stored, Recorded(c)
    PROVE  Recorded(c)'
<1>1. c.head \in Roots /\ c.tip \in Roots /\ Graph(made) /\ c.by \in Process
  BY DEF Inv, Refs, StoredRefs, Checkpointed, TypeOK
<1>2. Index(c.head)' = Index(c.head) /\ Index(c.tip)' = Index(c.tip)
  BY <1>1, IndexGoesOn
<1>3. PICK head, tip : head = Index(c.head) /\ tip = Index(c.tip)
  OBVIOUS
<1>4. ASSUME NEW t \in Tracker PROVE {At(head, t), At(tip, t)} \subseteq There(c.by, t)'
  BY <1>1, <1>3, ThereKept DEF Recorded
<1>5. \A t : At(Index(c.head), t)' = At(head, t) /\ At(Index(c.tip), t)' = At(tip, t)
  BY <1>2, <1>3 DEF At
<1> QED
  BY <1>4, <1>5 DEF Recorded

LEMMA HeldStep ==
    ASSUME Inv, Held, Grows(made, made'), Keeps,
           \A t \in DOMAIN repo' :
              \/ t \in DOMAIN repo /\ repo'[t].holds = repo[t].holds
              \/ \A c \in repo'[t].holds : Behind(c)' \subseteq repo'[t].holds,
           list' = list \/ \A t \in DOMAIN list' : list'[t] \in repo'[t].holds,
           \A c \in stored' : c \in stored \/ Recorded(c)'
    PROVE  Held'
<1>1. /\ Graph(made) /\ RepoRefs
      /\ linked => DOMAIN list \subseteq DOMAIN repo
      /\ ~linked => list = <<>>
  BY DEF Inv, Refs, OnRemote, AtHome
<1>2. ASSUME NEW t \in DOMAIN repo', NEW c \in repo'[t].holds PROVE Behind(c)' \subseteq repo'[t].holds
  <2>1. CASE t \in DOMAIN repo /\ repo'[t].holds = repo[t].holds
    <3>1. c \in 1 .. Len(made) /\ Behind(c) \subseteq repo[t].holds
      BY <1>1, <1>2, <2>1 DEF RepoRefs, Held
    <3>2. Behind(c)' = Behind(c)
      BY <1>1, <3>1, BehindGoesOn
    <3> QED
      BY <2>1, <3>1, <3>2
  <2> QED
    BY <1>2, <2>1
<1>3. \A t \in DOMAIN list' : list'[t] \in repo'[t].holds
  <2>1. CASE list' = list
    <3>1. \A t \in DOMAIN list : list[t] \in repo[t].holds /\ t \in DOMAIN repo
      BY <1>1, NoPins DEF Held
    <3> QED
      BY <2>1, <3>1 DEF Keeps
  <2> QED
    BY <2>1
<1>4. \A c \in stored' : Recorded(c)'
  BY RecordedGoesOn DEF Held
<1> QED
  BY <1>2, <1>3, <1>4 DEF Held

LEMMA SameHeld ==
    ASSUME Inv, Held, Grows(made, made'), repo' = repo, fork' = fork, list' = list, stored' = stored
    PROVE  Held' /\ Keeps
<1>1. Keeps
  BY DEF Keeps
<1> QED
  BY <1>1, HeldStep

LEMMA ReachesGoesOn ==
    ASSUME Inv, Grows(made, made'), kept' = kept, NEW q \in Process, op'[q].moves = op[q].moves,
           NEW t, NEW c, Reaches(q, t, c)
    PROVE  Reaches(q, t, c)'
<1>1. Graph(made) /\ OpRefs(q) /\ MainRefs /\ Home \in Range(Host)
  BY HostIs DEF Inv, Refs
<1>2. PICK moves, k : moves = op[q].moves /\ moves = op'[q].moves /\ k = kept[Home] /\ k = kept'[Home]
  OBVIOUS
<1>3. \A v \in moves : v.new \in 1 .. Len(made)
  BY <1>1, <1>2 DEF OpRefs
<1>4. \A u \in DOMAIN k : k[u] \in 1 .. Len(made)
  BY <1>1, <1>2 DEF MainRefs, Tree, Names, NamesIn
<1>5. ASSUME NEW v \in moves, v.tracker = t PROVE Ancestor(c, v.new)'
  <2>1. PICK d : d = v.new
    OBVIOUS
  <2>2. Ancestor(c, d) /\ d \in 1 .. Len(made)
    BY <1>2, <1>3, <1>5, <2>1 DEF Reaches
  <2>3. Ancestor(c, d)'
    BY <1>1, <2>2, AncestorGoesOn
  <2> QED
    BY <2>1, <2>3
<1>6. CASE \E v \in moves : v.tracker = t
  BY <1>2, <1>5, <1>6 DEF Reaches
<1>7. CASE t \in DOMAIN k /\ Ancestor(c, k[t])
  <2>1. PICK d : d = k[t] /\ d \in 1 .. Len(made)
    BY <1>4, <1>7
  <2>2. Ancestor(c, d)'
    BY <1>1, <1>7, <2>1, AncestorGoesOn
  <2> QED
    BY <1>2, <1>5, <1>7, <2>1, <2>2 DEF Reaches
<1> QED
  BY <1>2, <1>6, <1>7 DEF Reaches

\* A command that makes no step is where it was.
LEMMA PlacedGoesOn ==
    ASSUME Inv, Grows(made, made'), Keeps, NEW q \in Process, Placed(q), op'[q] = op[q],
           kept' = kept, linked' = linked
    PROVE  Placed(q)'
<1>1. PICK o : o = op[q] /\ o = op'[q]
  OBVIOUS
<1>2. Graph(made) /\ OpRefs(q) /\ (linked => Runs(q)) /\ (~linked => RunsHere(q))
  BY DEF Inv, Refs
<1>3. ASSUME o.at = "publish", NEW t \in DOMAIN Index(o.tip)' \ Range(o.todo)
      PROVE  {At(Index(o.theirs), t)', Index(o.tip)'[t]} \subseteq There(q, t)'
  <2>1. o.theirs \in Roots /\ o.tip \in Roots
    BY <1>1, <1>2, <1>3, ThereOnly DEF Runs, Checkpointed
  <2>2. Index(o.theirs)' = Index(o.theirs) /\ Index(o.tip)' = Index(o.tip)
    BY <1>2, <2>1, IndexGoesOn
  <2>3. At(Index(o.theirs), t)' = At(Index(o.theirs), t)
    BY <2>2 DEF At
  <2>4. {At(Index(o.theirs), t), Index(o.tip)[t]} \subseteq There(q, t)
    BY <1>1, <1>3, <2>2 DEF Placed
  <2> QED
    BY <2>2, <2>3, <2>4, ThereKept
<1>4. ASSUME ~linked, o.at \in {"root", "keep", "children"}, NEW t \in DOMAIN Index(o.merged)' \ {Root}
      PROVE  Reaches(q, t, Index(o.merged)[t])'
  <2>1. o.merged \in Roots
    BY <1>1, <1>2, <1>4 DEF RunsHere
  <2>2. PICK index : index = Index(o.merged) /\ index = Index(o.merged)'
    BY <1>2, <2>1, IndexGoesOn
  <2>3. Reaches(q, t, index[t])
    BY <1>1, <1>4, <2>2 DEF Placed
  <2>4. PICK c : c = index[t]
    OBVIOUS
  <2>5. Reaches(q, t, c)'
    BY <1>1, <2>3, <2>4, ReachesGoesOn
  <2> QED
    BY <2>2, <2>4, <2>5
<1>5. ASSUME o.at = "seeds", NEW t \in DOMAIN o.base
      PROVE  /\ Ancestor(o.base[t], o.heads[t])'
             /\ t \notin Range(o.todo) => o.base[t] \in repo'[t].holds
  <2>1. RunsHere(q)
    BY <1>1, <1>2, <1>5, HereOnly
  <2>2. PICK c, d : c = o.base[t] /\ d = o.heads[t]
    OBVIOUS
  <2>3. d \in 1 .. Len(made) /\ Ancestor(c, d)
    BY <1>1, <1>2, <1>5, <2>1, <2>2 DEF RunsHere, OpRefs, Names, NamesIn, Placed
  <2>4. Ancestor(c, d)'
    BY <1>2, <2>3, AncestorGoesOn
  <2>5. t \notin Range(o.todo) => t \in DOMAIN repo /\ c \in repo[t].holds
    BY <1>1, <1>5, <2>1, <2>2 DEF RunsHere, Placed
  <2> QED
    BY <2>2, <2>4, <2>5 DEF Keeps
<1> QED
  BY <1>1, <1>3, <1>4, <1>5 DEF Placed

\* A command that has nothing to place.
LEMMA PlacedNothing ==
    ASSUME NEW q \in Process,
           \/ op[q].at \in {"idle", "sync", "merge", "fetch", "make", "seed", "land", "wait", "create"}
           \/ linked /\ op[q].at # "publish" /\ op[q].at # "seeds"
    PROVE  Placed(q)
  BY DEF Placed

LEMMA PinnedGoesOn ==
    ASSUME Graph(made), Grows(made, made'), NEW k, Tree(k), NEW r \in Roots, Pinned(r, k)
    PROVE  Pinned(r, k)'
<1>1. Index(r)' = Index(r)
  BY IndexGoesOn
<1>2. ASSUME NEW t \in DOMAIN Index(r) PROVE t \in DOMAIN k /\ Ancestor(Index(r)[t], k[t])'
  <2>1. PICK c, d : c = Index(r)[t] /\ d = k[t]
    OBVIOUS
  <2>2. t \in DOMAIN k /\ Ancestor(c, d) /\ d \in 1 .. Len(made)
    BY <2>1 DEF Pinned, Tree, Names, NamesIn
  <2>3. Ancestor(c, d)'
    BY <2>2, AncestorGoesOn
  <2> QED
    BY <1>1, <2>1, <2>2, <2>3
<1> QED
  BY <1>1, <1>2 DEF Pinned

LEMMA InStepGoesOn ==
    ASSUME Inv, Grows(made, made'), InStep, kept' = kept, linked' = linked,
           ~linked => DOMAIN main'[Home] \subseteq DOMAIN main[Home] \union DOMAIN kept[Home],
           ~linked => \A q \in Process : op[q].at = "children" => op'[q].at = "children"
    PROVE  InStep'
<1> SUFFICES ASSUME ~linked PROVE InStep'
  BY DEF InStep
<1>1. PICK k : k = kept[Home] /\ k = kept'[Home] /\ Tree(k) /\ Graph(made)
  BY HostIs, RemoteAssumption DEF Inv, Refs, MainRefs
<1>2. DOMAIN main'[Home] \subseteq DOMAIN k
  BY <1>1 DEF InStep
<1>3. ASSUME Here(k), \A p \in Process : op'[p].at # "children" PROVE Pinned(k[Root], k)'
  <2>1. Pinned(k[Root], k)
    BY <1>1, <1>3 DEF InStep
  <2>2. PICK r \in Roots : r = k[Root]
    BY <1>1, <1>3 DEF Tree, Here
  <2>3. Pinned(r, k)'
    BY <1>1, <2>1, <2>2, PinnedGoesOn
  <2> QED
    BY <2>2, <2>3
<1> QED
  BY <1>1, <1>2, <1>3 DEF InStep, Here

\* A step of a process that leaves what the store keeps.
LEMMA PlacesStep ==
    ASSUME Inv, Whereabouts, Grows(made, made'), Forward', Held', Keeps, kept' = kept, linked' = linked,
           ~linked => DOMAIN main'[Home] \subseteq DOMAIN main[Home] \union DOMAIN kept[Home],
           NEW p \in Process, Others(p), Placed(p)',
           ~linked /\ op[p].at = "children" => op'[p].at = "children"
    PROVE  Whereabouts'
<1>1. ASSUME NEW q \in Process PROVE Placed(q)'
  <2>1. CASE q = p
    BY <2>1
  <2>2. CASE q # p
    BY <2>2, PlacedGoesOn DEF Others, Whereabouts
  <2> QED
    BY <2>1, <2>2
<1>2. ~linked => \A q \in Process : op[q].at = "children" => op'[q].at = "children"
  BY DEF Others
<1>3. InStep'
  BY <1>2, InStepGoesOn DEF Whereabouts
<1> QED
  BY <1>1, <1>3 DEF Whereabouts

\* One that makes no commit, and puts nothing anywhere.
LEMMA CommandPlaces ==
    ASSUME Inv, Whereabouts, made' = made, repo' = repo, fork' = fork, list' = list, stored' = stored,
           kept' = kept, linked' = linked,
           ~linked => DOMAIN main'[Home] \subseteq DOMAIN main[Home] \union DOMAIN kept[Home],
           NEW p \in Process, Others(p), Placed(p)',
           ~linked /\ op[p].at = "children" => op'[p].at = "children"
    PROVE  Whereabouts'
<1>1. Grows(made, made') /\ Graph(made)
  BY SameGrows DEF Inv
<1>2. Forward'
  BY <1>1, SameForward DEF Whereabouts, Roots
<1>3. Held' /\ Keeps
  BY <1>1, SameHeld DEF Whereabouts
<1> QED
  BY <1>1, <1>2, <1>3, PlacesStep

\* One outside every command.
LEMMA WorkPlaces ==
    ASSUME Inv, Whereabouts, Grows(made, made'), Forward', repo' = repo, fork' = fork, list' = list,
           stored' = stored, kept' = kept, linked' = linked, op' = op,
           ~linked => DOMAIN main'[Home] \subseteq DOMAIN main[Home] \union DOMAIN kept[Home]
    PROVE  Whereabouts'
<1>1. Held' /\ Keeps
  BY SameHeld DEF Whereabouts
<1>2. \A q \in Process : Placed(q)'
  BY <1>1, PlacedGoesOn DEF Whereabouts
<1>3. InStep'
  BY InStepGoesOn DEF Whereabouts
<1> QED
  BY <1>1, <1>2, <1>3 DEF Whereabouts

-----------------------------------------------------------------------------
(* Work, and where it leaves what is named.                                *)

LEMMA FetchedNames ==
    ASSUME Inv, NEW m \in Range(Host), main' = main \/ main' = [main EXCEPT ![m] = Fetched(m)]
    PROVE  DOMAIN main'[Home] \subseteq DOMAIN main[Home] \union DOMAIN kept[Home]
<1>1. TypeOK /\ MainRefs
  BY DEF Inv, Refs
<1>2. CASE main' = [main EXCEPT ![m] = Fetched(m)] /\ m = Home
  <2>1. main'[Home] = Fetched(Home)
    BY <1>1, <1>2 DEF TypeOK
  <2> QED
    BY <1>1, <1>2, <2>1, FetchedIs
<1>3. CASE main' = [main EXCEPT ![m] = Fetched(m)] /\ m # Home
  BY <1>3
<1> QED
  BY <1>2, <1>3

LEMMA EditPlaces ==
    ASSUME Inv, Inv', Whereabouts, NEW p \in Process, Edit(p)
    PROVE  Whereabouts'
<1>1. PICK head : head = inst[p].head
  OBVIOUS
<1>2. PICK edit \in Edits[p] : made' = Edited(head, edit)
  BY <1>1 DEF Edit, Make
<1>3. Graph(made) /\ Graph(made') /\ head \in Roots
  BY <1>1 DEF Edit, Inv, Refs, InstRefs, Checkpointed
<1>4. PICK parents \in SUBSET Roots : parents = {head}
  BY <1>3
<1>5. PICK told : told = (edit.secret # {})
  OBVIOUS
<1>6. NewRoot(made, made', parents, told)
  BY <1>2, <1>3, <1>4, <1>5, EditedIs
<1>7. Grows(made', made') /\ Grows(made, made')
  BY <1>3, <1>6, GrowsAll DEF NewRoot
<1>8. Forward'
  BY <1>3, <1>6, <1>7, NewRootForward DEF Whereabouts
<1> QED
  BY <1>7, <1>8, WorkPlaces DEF Edit, remote

LEMMA TakeInPlaces ==
    ASSUME Inv, Inv', Whereabouts, NEW p \in Process, TakeIn(p)
    PROVE  Whereabouts'
<1>1. PICK theirs, head : /\ theirs = (IF linked THEN At(list, Root) ELSE At(main[Host[p]], Root))
                          /\ head = inst[p].head
  OBVIOUS
<1>2. /\ head # 0 /\ theirs # 0
      /\ made' = made \/ made' = Joined(head, theirs)
      /\ UNCHANGED <<main, kept, linked, list, stored, repo, fork, op>>
  BY <1>1 DEF TakeIn, remote
<1>3. Graph(made) /\ Graph(made') /\ head \in Roots /\ theirs \in Roots
  <2>1. Graph(made) /\ head \in Roots /\ Tree(main[Host[p]])
    BY <1>1, <1>2, HostIs DEF Inv, Refs, InstRefs, MainRefs, Checkpointed
  <2>2. linked => IsIndex(list)
    BY DEF Inv, OnRemote
  <2> QED
    BY <1>1, <1>2, <2>1, <2>2 DEF At, Tree, IsIndex, Inv
<1>4. CASE made' = made
  <2>1. Grows(made, made') /\ Forward'
    BY <1>3, <1>4, SameGrows, SameForward DEF Whereabouts, Roots
  <2> QED
    BY <1>2, <2>1, WorkPlaces
<1>5. CASE made' = Joined(head, theirs)
  <2>1. PICK parents \in SUBSET Roots : parents = {head, theirs}
    BY <1>3
  <2>2. NewRoot(made, made', parents, FALSE)
    BY <1>3, <1>5, <2>1, JoinedIs
  <2>3. Grows(made', made') /\ Grows(made, made')
    BY <1>3, <2>2, GrowsAll DEF NewRoot
  <2>4. Forward'
    BY <1>3, <2>2, <2>3, NewRootForward DEF Whereabouts
  <2> QED
    BY <1>2, <2>3, <2>4, WorkPlaces
<1> QED
  BY <1>2, <1>4, <1>5

LEMMA SpawnPlaces ==
    ASSUME Inv, Inv', Whereabouts, NEW p \in Process, SpawnFrom(p)
    PROVE  Whereabouts'
<1>1. UNCHANGED <<made, main, kept, linked, list, stored, repo, fork, op>>
  BY DEF SpawnFrom, remote
<1>2. Grows(made, made') /\ Forward'
  BY <1>1, SameGrows, SameForward DEF Inv, Whereabouts, Roots
<1> QED
  BY <1>1, <1>2, WorkPlaces

\* A pull moves a pin to what has the old one behind it.
LEMMA PullPlaces ==
    ASSUME Inv, Inv', Whereabouts, ~Sideways, NEW p \in Process, NEW t \in Children, Pull(p, t)
    PROVE  Whereabouts'
<1>1. PICK new, head, id : new = Upstream(Host[p], t) /\ head = inst[p].head /\ id = Len(made) + 1
  OBVIOUS
<1>2. /\ Graph(made) /\ Graph(made') /\ Len(made) \in Nat /\ Host[p] \in Range(Host)
      /\ head # 0 /\ new # 0 /\ At(Index(head), t) # 0 /\ Ancestor(At(Index(head), t), new)
      /\ made' = PulledRoot(made, head, t, new)
      /\ UNCHANGED <<kept, linked, list, stored, repo, fork, op>>
      /\ main' = main \/ main' = [main EXCEPT ![Host[p]] = Fetched(Host[p])]
  <2>1. Graph(made) /\ Graph(made') /\ Len(made) \in Nat /\ Host[p] \in Range(Host)
    BY HostIs DEF Inv, Graph
  <2>2. head # 0 /\ new # 0 /\ At(Index(head), t) # 0 /\ Ancestor(At(Index(head), t), new)
    BY <1>1 DEF Pull
  <2>3. made' = PulledRoot(made, head, t, new)
    BY <1>1 DEF Pull, PulledRoot
  <2>4. /\ UNCHANGED <<kept, linked, list, stored, repo, fork, op>>
        /\ main' = main \/ main' = [main EXCEPT ![Host[p]] = Fetched(Host[p])]
    BY DEF Pull, remote
  <2> QED
    BY <2>1, <2>2, <2>3, <2>4
<1>3. head \in Roots
  BY <1>1, <1>2 DEF Inv, Refs, InstRefs, Checkpointed
<1>4. new \in 1 .. Len(made)
  <2>1. CASE linked /\ t \in DOMAIN repo
    BY <1>1, <2>1 DEF Upstream, Inv, Refs, RepoRefs
  <2>2. CASE ~(linked /\ t \in DOMAIN repo)
    <3>1. PICK k : k = kept[Host[p]] /\ Tree(k)
      BY <1>2 DEF Inv, Refs, MainRefs
    <3>2. new = k[t] /\ t \in DOMAIN k
      BY <1>1, <1>2, <2>2, <3>1 DEF Upstream, At
    <3> QED
      BY <3>1, <3>2 DEF Tree, Names, NamesIn
  <2> QED
    BY <2>1, <2>2
<1>5. PICK pins : pins = [u \in DOMAIN Index(head) \union {t, Root} |->
                            IF u = Root THEN id ELSE IF u = t THEN new ELSE Index(head)[u]]
  OBVIOUS
<1>6. Adds(made, made', id, {head}, pins, FALSE)
  <2>1. PICK put : put = Put(Put(Index(head), t, new), Root, id)
    OBVIOUS
  <2>2. Adds(made, PulledRoot(made, head, t, new), id, {head}, put, FALSE)
    BY <1>1, <1>2, <1>3, <1>4, <2>1, PulledIs
  <2>3. put = pins
    BY <1>5, <2>1, TrackerIs DEF Put
  <2> QED
    BY <1>2, <2>2, <2>3
<1>7. /\ Grows(made, made') /\ Len(made') = id /\ id \in 1 .. Len(made')
      /\ made'[id].pins = pins /\ made'[id].behind = made[head].behind \union {id}
  BY <1>6 DEF Adds
<1>8. /\ head \in 1 .. Len(made) /\ Behind(head) = made[head].behind /\ Index(head)' = Index(head)
      /\ NamesIn(made, Index(head))
  BY <1>2, <1>3, <1>7, IndexIs, IndexGoesOn, AncestorIs
<1>9. /\ id \notin 1 .. Len(made) /\ id # 0
      /\ \A c \in 1 .. Len(made') : c # id => c \in 1 .. Len(made) /\ made'[c] = made[c]
  BY <1>1, <1>2, <1>7, GoesOn
<1>10. id \in Roots' /\ Index(id)' = pins /\ Behind(id)' = Behind(head) \union {id}
  <2>1. id \in RootsOf(made')
    BY <1>5, <1>7 DEF RootsOf
  <2>2. [made'[id].pins EXCEPT ![Root] = id] = made'[id].pins
    BY <1>2, <2>1, RootPins
  <2> QED
    BY <1>7, <1>8, <1>9, <2>1, <2>2 DEF Roots, Index, Behind
<1>11. Roots' \subseteq Roots \union {id}
  BY <1>9 DEF Roots, RootsOf
<1>12. ASSUME NEW u \in DOMAIN Index(head), u # Root
       PROVE  u \in DOMAIN pins /\ Ancestor(Index(head)[u], pins[u])'
  <2>1. PICK c, d : /\ c = Index(head)[u] /\ d = pins[u] /\ c \in 1 .. Len(made) /\ u \in DOMAIN pins
                    /\ d = IF u = t THEN new ELSE c
    BY <1>5, <1>8, <1>12 DEF NamesIn
  <2>2. Ancestor(c, d)'
    <3>1. CASE u = t
      <4>1. Ancestor(c, new)
        BY <1>2, <1>12, <2>1, <3>1 DEF At
      <4> QED
        BY <1>2, <1>4, <1>7, <2>1, <3>1, <4>1, AncestorGoesOn
    <3>2. CASE u # t
      BY <1>2, <1>7, <2>1, <3>2, AncestorThen, GoesOn
    <3> QED
      BY <3>1, <3>2
  <2> QED
    BY <1>8, <2>1, <2>2
<1>13. Forward'
  <2>1. PICK parents \in SUBSET Roots : parents = {head}
    BY <1>3
  <2>2. Behind(id)' = (UNION {Behind(s) : s \in parents}) \union {id}
    BY <1>10, <2>1
  <2>3. \A s \in parents : \A u \in DOMAIN Index(s) :
            u # Root => u \in DOMAIN Index(id)' /\ Ancestor(Index(s)[u], Index(id)[u])'
    BY <1>10, <1>12, <2>1
  <2> QED
    BY <1>2, <1>7, <1>9, <1>10, <1>11, <2>2, <2>3, NewestForward DEF Whereabouts
<1>14. DOMAIN main'[Home] \subseteq DOMAIN main[Home] \union DOMAIN kept[Home]
  BY <1>2, FetchedNames
<1> QED
  BY <1>2, <1>7, <1>13, <1>14, WorkPlaces

\* A command that stops, or goes on to where there is nothing to place.
LEMMA StopsPlaced ==
    ASSUME Inv, NEW p \in Process, Stop(p)
    PROVE  op'[p].at = "idle" /\ Others(p) /\ Placed(p)'
<1>1. op'[p].at = "idle" /\ Others(p)
  BY StopsThen
<1> QED
  BY <1>1 DEF Placed

LEMMA GoesOnPlaced ==
    ASSUME Inv, NEW p \in Process, NEW at, GoOn(p, at),
           \/ at \in {"idle", "merge", "fetch", "make", "wait", "create"}
           \/ linked' /\ at = "children"
    PROVE  Others(p) /\ Placed(p)' /\ op'[p].at = at
<1>1. Others(p) /\ op'[p].at = at
  BY GoesOnThen
<1> QED
  BY <1>1 DEF Placed

LEMMA KillPlaces ==
    ASSUME Inv, Inv', Whereabouts, MaxKill[FALSE] = 0, NEW p \in Process, Kill(p)
    PROVE  Whereabouts'
<1>1. linked
  <2> SUFFICES ASSUME ~linked PROVE FALSE
    OBVIOUS
  <2>1. linked \in BOOLEAN /\ spent.kills \in Nat
    BY DEF Inv, TypeOK
  <2>2. linked = FALSE
    BY Zenon, <2>1
  <2>3. MaxKill[linked] = 0
    BY Zenon, <2>2
  <2>4. spent.kills < MaxKill[linked]
    BY DEF Kill
  <2>5. PICK max : max = MaxKill[linked]
    OBVIOUS
  <2>6. max = 0 /\ spent.kills < max
    BY <2>3, <2>4, <2>5
  <2> QED
    BY <2>1, <2>6
<1>2. Stop(p) /\ UNCHANGED <<made, main, kept, linked, list, stored, repo, fork>>
  BY DEF Kill, local, remote
<1> QED
  BY <1>1, <1>2, StopsPlaced, CommandPlaces

LEMMA BeginPlaces ==
    ASSUME Inv, Inv', Whereabouts, NEW p \in Process, NEW cmd, Begin(p, cmd)
    PROVE  Whereabouts'
<1>1. /\ UNCHANGED <<made, kept, linked, repo, fork, list, stored>>
      /\ main' = main \/ main' = [main EXCEPT ![Host[p]] = Fetched(Host[p])]
      /\ op[p].at = "idle"
  BY DEF Begin, remote, Idle
<1> DEFINE syncs == linked /\ p \in Instance
           stops == linked /\ Refused(IF syncs THEN inst[p].tip ELSE inst[p].head)
           begun == [NoOp EXCEPT !.cmd = cmd, !.at = IF syncs THEN "sync" ELSE "merge",
                                 !.theirs = inst[p].head, !.tip = inst[p].tip]
<1>2. Becomes(p, IF stops THEN NoOp ELSE begun)
  BY Zenon DEF Begin
<1>3. NoOp.at = "idle" /\ begun.at \in {"sync", "merge"}
  BY DEF NoOp
<1> HIDE DEF stops, begun
<1>4. Others(p) /\ op'[p].at \in {"idle", "sync", "merge"}
  <2>1. PICK next : next = (IF stops THEN NoOp ELSE begun) /\ next.at \in {"idle", "sync", "merge"}
    BY <1>3
  <2>2. Others(p) /\ op'[p] = next
    BY <1>2, <2>1, BecomesThen
  <2> QED
    BY <2>1, <2>2
<1>5. Placed(p)'
  BY <1>4 DEF Placed
<1>6. DOMAIN main'[Home] \subseteq DOMAIN main[Home] \union DOMAIN kept[Home]
  BY <1>1, FetchedNames, HostIs
<1> QED
  BY <1>1, <1>4, <1>5, <1>6, CommandPlaces

LEMMA MirrorPullPlaces ==
    ASSUME Inv, Inv', Whereabouts, NEW p \in Process, MirrorPull(p)
    PROVE  Whereabouts'
<1>1. PICK edit \in Edits[p], on \in was :
         /\ made' = Edited(on, edit)
         /\ Becomes(p, IF edit.secret # {} THEN NoOp
                       ELSE [NoOp EXCEPT !.cmd = "pull", !.at = "merge", !.theirs = Len(made')])
  BY DEF MirrorPull, Make
<1>2. Graph(made) /\ Graph(made') /\ on \in Roots
  BY DEF Inv, Refs, FollowRefs
<1>3. PICK told \in BOOLEAN : told = (edit.secret # {})
  OBVIOUS
<1>4. PICK parents \in SUBSET Roots : parents = {on}
  BY <1>2
<1>5. NewRoot(made, made', parents, told)
  BY <1>1, <1>2, <1>3, <1>4, EditedIs
<1>6. UNCHANGED <<main, kept, linked, list, stored, repo, fork>> /\ linked
  BY DEF MirrorPull, remote
<1>7. Grows(made', made') /\ Grows(made, made')
  BY <1>2, <1>5, GrowsAll DEF NewRoot
<1>8. Forward'
  BY <1>2, <1>5, <1>7, NewRootForward DEF Whereabouts
<1>9. Others(p) /\ Placed(p)'
  <2>1. PICK next : /\ next = IF edit.secret # {} THEN NoOp
                              ELSE [NoOp EXCEPT !.cmd = "pull", !.at = "merge", !.theirs = Len(made')]
                    /\ Becomes(p, next)
    BY <1>1
  <2>2. next.at \in {"idle", "merge"}
    BY <2>1 DEF NoOp
  <2>3. Others(p) /\ op'[p] = next
    BY <2>1, BecomesThen
  <2> QED
    BY <2>2, <2>3 DEF Placed
<1>10. Held' /\ Keeps
  BY <1>6, <1>7, SameHeld DEF Whereabouts
<1> QED
  BY <1>6, <1>7, <1>8, <1>9, <1>10, PlacesStep

-----------------------------------------------------------------------------
(* A checkpoint, and where it finds or leaves what it names.               *)

\* What is where `main` is, or where the instance last shared it, is there.
LEMMA SharedIsThere ==
    ASSUME Inv, Whereabouts, NEW p \in Process, op[p].at = "sync", NEW shared \in SharedPins(p),
           NEW t \in DOMAIN Index(op[p].tip), NothingToSend(p, t, shared)
    PROVE  {At(Index(op[p].theirs), t), Index(op[p].tip)[t]} \subseteq There(p, t)
<1>1. linked /\ Graph(made) /\ Runs(p) /\ IsIndex(list) /\ DOMAIN list \subseteq DOMAIN repo
  BY ThereOnly DEF Inv, OnRemote
<1>2. PICK c : c = Index(op[p].tip)[t] /\ c # 0
  <2>1. PICK tip \in Roots : tip = op[p].tip
    BY <1>1 DEF Runs, Checkpointed
  <2>2. NamesIn(made, Index(tip))
    BY <1>1, <2>1, IndexIs
  <2>3. 0 \notin 1 .. Len(made)
    OBVIOUS
  <2> QED
    BY <2>1, <2>2, <2>3 DEF NamesIn
<1>3. /\ At(Index(op[p].theirs), t) \in {0, c}
      /\ At(list, t) = c \/ (t \in DOMAIN list /\ At(shared, t) = c)
  BY <1>2 DEF NothingToSend, At
<1>4. t \in DOMAIN list /\ t \in DOMAIN repo
  BY <1>1, <1>2, <1>3 DEF At
<1>5. c \in repo[t].holds
  <2>1. CASE At(list, t) = c
    BY <1>4, <2>1 DEF At, Whereabouts, Held
  <2>2. CASE At(shared, t) = c
    <3>1. PICK r \in Roots : r = list[Root] /\ list = Index(r)
      BY <1>1 DEF IsIndex
    <3>2. t \in DOMAIN shared /\ shared[t] = c
      BY <1>2, <2>2 DEF At
    <3>3. PICK b \in Behind(r) : shared = Index(b)
      BY <3>1, <3>2, NoPins DEF SharedPins
    <3>4. Ancestor(c, Index(r)[t])
      BY <3>2, <3>3 DEF Whereabouts, Forward, Covers
    <3> QED
      BY <1>4, <3>1, <3>4 DEF Whereabouts, Held, Ancestor
  <2> QED
    BY <1>3, <2>1, <2>2
<1> QED
  BY <1>2, <1>3, <1>4, <1>5 DEF There

LEMMA PublishReadPlaces ==
    ASSUME Inv, Inv', Whereabouts, NEW p \in Process, PublishRead(p)
    PROVE  Whereabouts'
<1>a. PICK shared \in SharedPins(p) :
         Becomes(p, [op[p] EXCEPT !.at = "publish", !.base = list, !.todo =
                        InOrder({t \in DOMAIN Index(op[p].tip) : ~NothingToSend(p, t, shared)})])
  BY Zenon DEF PublishRead
<1>b. PICK changed : changed = {t \in DOMAIN Index(op[p].tip) : ~NothingToSend(p, t, shared)}
  OBVIOUS
<1>1. /\ changed = {t \in DOMAIN Index(op[p].tip) : ~NothingToSend(p, t, shared)}
      /\ Becomes(p, [op[p] EXCEPT !.at = "publish", !.base = list, !.todo = InOrder(changed)])
  BY <1>a, <1>b
<1>2. op[p].at = "sync" /\ UNCHANGED <<made, main, kept, linked, list, stored, repo, fork>>
  BY DEF PublishRead, local, remote
<1>3. PICK o \in Op : o = op[p]
  BY DEF Inv, TypeOK
<1>4. PICK next : next = [o EXCEPT !.at = "publish", !.base = list, !.todo = InOrder(changed)]
  OBVIOUS
<1>5. next.at = "publish" /\ next.tip = o.tip /\ next.theirs = o.theirs /\ next.todo = InOrder(changed)
  BY <1>4 DEF Op
<1>6. op'[p] = next /\ Others(p)
  BY <1>1, <1>3, <1>4, BecomesThen
<1>7. linked /\ Graph(made) /\ o.tip \in Roots
  BY <1>2, <1>3, ThereOnly DEF Inv, Runs, Checkpointed
<1>8. PICK S \in SUBSET Tracker : S = changed
  <2>1. Index(o.tip) \in Pins
    BY <1>7, IndexIs
  <2> QED
    BY <1>1, <1>3, <2>1, PinsOf
<1>9. Range(InOrder(changed)) = changed
  BY <1>8, InOrderIs
<1>10. ASSUME NEW t \in DOMAIN Index(next.tip)' \ Range(next.todo)
       PROVE  {At(Index(next.theirs), t)', Index(next.tip)'[t]} \subseteq There(p, t)'
  <2>1. Index(o.tip)' = Index(o.tip) /\ At(Index(o.theirs), t)' = At(Index(o.theirs), t)
    BY <1>2 DEF Index, At
  <2>2. t \in DOMAIN Index(op[p].tip) /\ NothingToSend(p, t, shared)
    BY <1>1, <1>3, <1>5, <1>9, <1>10, <2>1
  <2>3. {At(Index(o.theirs), t), Index(o.tip)[t]} \subseteq There(p, t)
    BY <1>2, <1>3, <2>2, SharedIsThere
  <2>4. There(p, t)' = There(p, t)
    BY <1>2 DEF There
  <2> QED
    BY <1>5, <2>1, <2>3, <2>4
<1>11. Placed(p)'
  BY <1>5, <1>6, <1>10 DEF Placed
<1> QED
  BY <1>2, <1>6, <1>7, <1>11, CommandPlaces

\* A tracker is pushed to its fork, over what the fork had or the repo has.
LEMMA PublishNextPlaces ==
    ASSUME Inv, Inv', Whereabouts, NEW p \in Process, PublishNext(p)
    PROVE  Whereabouts'
<1> DEFINE t == Head(op[p].todo)
           sent == Behind(At(Index(op[p].theirs), t)) \union Behind(Index(op[p].tip)[t])
           copied == IF t \in DOMAIN fork[p] THEN fork[p][t] ELSE Behind(repo[t].main)
<1>1. /\ op[p].at = "publish" /\ op[p].todo # <<>>
      /\ UNCHANGED <<made, inst, local, linked, remote, repo, follows, acked, spent>>
      /\ \/ Stop(p) /\ fork' = fork
         \/ /\ fork' = [fork EXCEPT ![p] = Put(@, t, copied \union sent)]
            /\ Becomes(p, [op[p] EXCEPT !.todo = Tail(@)])
  BY Zenon DEF PublishNext
<1>2. UNCHANGED <<made, main, kept, linked, list, stored, repo>>
  BY <1>1 DEF local, remote
<1>3. CASE Stop(p) /\ fork' = fork
  BY <1>1, <1>2, <1>3, StopsPlaced, CommandPlaces
<1>4. CASE /\ fork' = [fork EXCEPT ![p] = Put(@, t, copied \union sent)]
           /\ Becomes(p, [op[p] EXCEPT !.todo = Tail(@)])
  <2>1. PICK o \in Op : o = op[p]
    BY DEF Inv, TypeOK
  <2>2. o.todo \in Seq(Tracker) /\ Range(o.todo) = {t} \union Range(Tail(o.todo))
    BY <1>1, <2>1, HeadTailIs DEF Op
  <2>3. linked /\ Graph(made) /\ o.tip \in Roots /\ o.theirs \in Roots
    BY <1>1, <2>1, ThereOnly DEF Inv, Runs, Checkpointed
  <2>4. PICK head, tip : head = Index(o.theirs) /\ tip = Index(o.tip) /\ NamesIn(made, head) /\ NamesIn(made, tip)
    BY <2>3, IndexIs
  <2>5. PICK u : u = t
    OBVIOUS
  <2>6. PICK new : new = copied \union sent
    OBVIOUS
  <2>7. sent = Behind(At(head, u)) \union Behind(tip[u])
    BY <2>1, <2>4, <2>5
  <2>8. PICK f : f = fork[p]
    OBVIOUS
  <2>9. u \in DOMAIN f => f[u] \subseteq new
    BY <2>5, <2>6, <2>8
  <2> HIDE DEF t, sent, copied
  <2>10. fork'[p] = Put(f, u, new) /\ \A q \in Process \ {p} : fork'[q] = fork[q]
    BY <1>4, <2>5, <2>6, <2>8 DEF Inv, TypeOK
  <2>11. /\ u \in DOMAIN fork'[p] /\ fork'[p][u] = new
         /\ \A w \in DOMAIN f : w \in DOMAIN fork'[p] /\ f[w] \subseteq fork'[p][w]
    BY <2>9, <2>10 DEF Put
  <2>12. Keeps
    BY <1>2, <2>8, <2>10, <2>11 DEF Keeps
  <2>13. Grows(made, made') /\ Forward'
    BY <1>2, <2>3, SameGrows, SameForward DEF Whereabouts, Roots
  <2>14. Held'
    BY <1>2, <2>12, <2>13, HeldStep DEF Whereabouts
  <2>15. PICK next : next = [o EXCEPT !.todo = Tail(@)]
    OBVIOUS
  <2>16. next.at = "publish" /\ next.tip = o.tip /\ next.theirs = o.theirs /\ next.todo = Tail(o.todo)
    BY <1>1, <2>1, <2>15 DEF Op
  <2>17. op'[p] = next /\ Others(p)
    BY <1>4, <2>1, <2>15, BecomesThen
  <2>18. ASSUME NEW w \in DOMAIN tip \ Range(next.todo) PROVE {At(head, w), tip[w]} \subseteq There(p, w)'
    <3>1. CASE w = u
      <4>1. tip[w] \in sent /\ At(head, w) \in {0} \union sent
        <5>1. tip[w] \in 1 .. Len(made) /\ At(head, w) \in {0} \union 1 .. Len(made)
          BY <2>4, <2>18 DEF NamesIn, At
        <5>2. \A c \in 1 .. Len(made) : c \in Behind(c)
          BY <2>3, AncestorIs DEF Ancestor
        <5> QED
          BY <2>7, <3>1, <5>1, <5>2
      <4>2. sent \subseteq new
        BY <2>6
      <4> QED
        BY <2>11, <3>1, <4>1, <4>2 DEF There
    <3>2. CASE w # u
      <4>1. w \notin Range(o.todo)
        BY <2>2, <2>5, <2>16, <2>18, <3>2
      <4>2. {At(head, w), tip[w]} \subseteq There(p, w)
        BY <1>1, <2>1, <2>4, <2>18, <4>1 DEF Whereabouts, Placed
      <4> QED
        BY <2>12, <4>2, ThereKept
    <3> QED
      BY <3>1, <3>2
  <2>19. Placed(p)'
    <3>1. Index(o.tip)' = tip /\ \A w : At(Index(o.theirs), w)' = At(head, w)
      BY <1>2, <2>4 DEF Index, At
    <3> QED
      BY <2>16, <2>17, <2>18, <3>1 DEF Placed
  <2> QED
    BY <1>2, <2>3, <2>12, <2>13, <2>14, <2>17, <2>19, PlacesStep
<1> QED
  BY <1>1, <1>3, <1>4

\* A record goes last: nothing is left to push.
LEMMA PublishEndPlaces ==
    ASSUME Inv, Inv', Whereabouts, NEW p \in Process, PublishEnd(p)
    PROVE  Whereabouts'
<1>1. /\ UNCHANGED <<made, main, kept, linked, list, repo, fork>>
      /\ GoOn(p, "merge") \/ Stop(p)
      /\ op[p].at = "publish" /\ op[p].todo = <<>>
  BY DEF PublishEnd, local
<1>2. PICK o \in Op : o = op[p]
  BY DEF Inv, TypeOK
<1>3. PICK c : c = [by |-> p, head |-> o.theirs, tip |-> o.tip] /\ stored' = stored \union {c}
  BY <1>2 DEF PublishEnd
<1>4. c.by = p /\ c.head = o.theirs /\ c.tip = o.tip
  BY <1>3
<1>5. linked /\ Graph(made) /\ Checkpointed(o.theirs, o.tip)
  BY <1>1, <1>2, ThereOnly DEF Inv, Runs
<1>6. PICK head, tip : head = Index(o.theirs) /\ tip = Index(o.tip)
  OBVIOUS
<1>7. DOMAIN head \subseteq DOMAIN tip
  BY <1>5, <1>6 DEF Checkpointed, Whereabouts, Forward, Covers, Ancestor
<1>8. ASSUME NEW t \in Tracker PROVE {At(head, t), At(tip, t)} \subseteq There(p, t)
  <2>1. CASE t \in DOMAIN tip
    <3>1. t \notin Range(o.todo)
      BY <1>1, <1>2, NothingToDo
    <3> QED
      BY <1>1, <1>2, <1>6, <2>1, <3>1 DEF Whereabouts, Placed, At
  <2>2. CASE t \notin DOMAIN tip
    BY <1>7, <2>2 DEF At, There
  <2> QED
    BY <2>1, <2>2
<1>9. Recorded(c)
  BY <1>4, <1>6, <1>8 DEF Recorded
<1>10. Recorded(c)'
  <2>1. \A r, t : At(Index(r), t)' = At(Index(r), t)
    BY <1>1 DEF Index, At
  <2>2. \A q, t : There(q, t)' = There(q, t)
    BY <1>1 DEF There
  <2> QED
    BY <1>9, <2>1, <2>2 DEF Recorded
<1>11. Grows(made, made') /\ Forward' /\ Keeps
  BY <1>1, <1>5, SameGrows, SameForward DEF Whereabouts, Roots, Keeps
<1>12. Held'
  BY <1>1, <1>3, <1>10, <1>11, HeldStep DEF Whereabouts
<1>13. Others(p) /\ Placed(p)'
  BY <1>1, GoesOnPlaced, StopsPlaced
<1> QED
  BY <1>1, <1>5, <1>11, <1>12, <1>13, PlacesStep

-----------------------------------------------------------------------------
(* A merge, and where it leaves what is named.                             *)

LEMMA MergeReadPlaces ==
    ASSUME Inv, Inv', Whereabouts, NEW p \in Process, MergeRead(p)
    PROVE  Whereabouts'
<1>1. /\ UNCHANGED <<made, kept, linked, repo, fork, list, stored>> /\ op[p].at = "merge"
      /\ main' = main \/ main' = [main EXCEPT ![Host[p]] = Fetched(Host[p])]
      /\ Becomes(p, [op[p] EXCEPT
                !.base = IF linked THEN list ELSE Index(At(main'[Host[p]], Root)),
                !.heads = IF linked THEN <<>> ELSE main'[Host[p]],
                !.at = IF linked THEN "fetch" ELSE "make"])
  BY DEF MergeRead, remote
<1>2. PICK next : /\ next = [op[p] EXCEPT
                             !.base = IF linked THEN list ELSE Index(At(main'[Host[p]], Root)),
                             !.heads = IF linked THEN <<>> ELSE main'[Host[p]],
                             !.at = IF linked THEN "fetch" ELSE "make"]
                  /\ op'[p] = next
  BY <1>1, BecomesThen
<1>3. Others(p)
  BY <1>1, BecomesThen
<1>4. next.at \in {"fetch", "make"}
  <2>1. PICK o \in Op : o = op[p]
    BY DEF Inv, TypeOK
  <2> QED
    BY <1>2, <2>1 DEF Op
<1>5. Placed(p)'
  BY <1>2, <1>4 DEF Placed
<1>6. DOMAIN main'[Home] \subseteq DOMAIN main[Home] \union DOMAIN kept[Home]
  BY <1>1, FetchedNames, HostIs
<1> QED
  BY <1>1, <1>3, <1>5, <1>6, CommandPlaces

LEMMA MergeFetchPlaces ==
    ASSUME Inv, Inv', Whereabouts, NEW p \in Process, MergeFetch(p)
    PROVE  Whereabouts'
<1> DEFINE heads == [t \in DOMAIN op[p].base |-> repo[t].main]
<1>1. /\ UNCHANGED <<made, main, kept, linked, repo, fork, list, stored>> /\ op[p].at = "fetch"
      /\ Becomes(p, [op[p] EXCEPT !.heads = heads, !.at = "make"])
  BY DEF MergeFetch, remote
<1>2. PICK o \in Op : o = op[p]
  BY DEF Inv, TypeOK
<1> HIDE DEF heads
<1>3. PICK next : next = [o EXCEPT !.heads = heads, !.at = "make"]
  OBVIOUS
<1>4. op'[p] = next /\ Others(p)
  BY <1>1, <1>2, <1>3, BecomesThen
<1>5. next.at = "make"
  BY <1>2, <1>3 DEF Op
<1>6. Placed(p)'
  BY <1>4, <1>5 DEF Placed
<1> QED
  BY <1>1, <1>4, <1>6, CommandPlaces

\* What the merge pins is behind what the trackers catch up with, or have.
LEMMA MergeMakePlaces ==
    ASSUME Inv, Inv', Whereabouts, NEW p \in Process, MergeMake(p)
    PROVE  Whereabouts'
<1>1. /\ Graph(made) /\ Graph(made') /\ MainRefs /\ ~Idle(p) /\ Home \in Range(Host) /\ op[p].at = "make"
      /\ UNCHANGED <<inst, main, kept, linked, remote, repo, fork, follows, acked, spent>>
  BY HostIs, MadeByIs DEF Inv, Refs, Idle
<1>2. UNCHANGED <<main, kept, linked, repo, fork, list, stored>>
  BY <1>1 DEF remote
<1>3. PICK o : o = op[p] /\ o \in Op /\ OpRefs(p)
  BY <1>1, Busied
<1>4. PICK ours \in Roots, theirs \in Roots : ours = At(o.base, Root) /\ theirs = o.theirs
  BY <1>1, <1>3, MergesBoth
<1>5. CASE Stop(p) /\ UNCHANGED <<made, has>>
  BY <1>1, <1>2, <1>5, StopsPlaced, CommandPlaces
<1>6. ASSUME NEW joins, NEW commits, NEW merged, NEW index, NEW all, NEW moves,
             Makes(p, ours, theirs, joins, commits, merged, index, all, moves)
      PROVE  Whereabouts'
  <2>1. PICK moved : moved = Moved(o.base, index)
    OBVIOUS
  <2>2. /\ joins = (~Ancestor(ours, theirs) /\ ~Ancestor(theirs, ours))
        /\ commits = IF joins THEN Joined(ours, theirs) ELSE made
        /\ merged = IF joins THEN Len(commits) ELSE IF Ancestor(ours, theirs) THEN theirs ELSE ours
        /\ index = [commits[merged].pins EXCEPT ![Root] = merged]
        /\ Caught(commits, all, moves, moved \ {Root}, index, o.heads)
        /\ MadeBy(p, all, merged, index, moves)
    BY <1>3, <1>6, <2>1, Zenon DEF Makes
  <2>3. Grows(made, commits) /\ Graph(commits) /\ merged \in RootsOf(commits)
    BY <1>1, <2>2, MergedIs
  <2>4. /\ Grows(commits, all) /\ \A v \in moves : Sound(all, v, index, o.heads)
        /\ \A c \in 1 .. Len(all) : c \notin 1 .. Len(commits) => Root \notin DOMAIN all[c].pins
        /\ \A t \in moved \ {Root} : \/ \E v \in moves : v.tracker = t
                                     \/ At(o.heads, t) # 0 /\ index[t] \in all[At(o.heads, t)].behind
    BY <2>2 DEF Caught
  <2>5. made' = all
    BY <2>2 DEF MadeBy, Make
  <2>6. Grows(made, made')
    BY <1>1, <2>3, <2>4, <2>5, GrowsAll
  <2>7. /\ merged \in 1 .. Len(commits) /\ merged # 0 /\ index = commits[merged].pins
        /\ Root \in DOMAIN index /\ index[Root] = merged /\ index \in Pins
    <3>1. /\ [commits[merged].pins EXCEPT ![Root] = merged] = commits[merged].pins
          /\ merged \in 1 .. Len(commits) /\ merged # 0
          /\ Root \in DOMAIN commits[merged].pins /\ commits[merged].pins[Root] = merged
          /\ commits[merged].pins \in Pins
      BY <2>3, RootPins
    <3> QED
      BY <2>2, <3>1
  <2>8. merged \in Roots' /\ merged \in 1 .. Len(made') /\ Index(merged)' = index
    <3>1. merged \in 1 .. Len(all) /\ all[merged] = commits[merged]
      BY <2>3, <2>4, <2>7, GrowsIs
    <3> QED
      BY <2>2, <2>5, <2>7, <3>1 DEF Roots, RootsOf, Index
  <2>9. Forward'
    <3>1. CASE joins
      <4>1. PICK told \in BOOLEAN : told = FALSE
        OBVIOUS
      <4>2. PICK parents \in SUBSET Roots : parents = {ours, theirs}
        OBVIOUS
      <4>3. NewRoot(made, commits, parents, told)
        BY <1>1, <2>2, <3>1, <4>1, <4>2, JoinedIs
      <4> QED
        BY <1>1, <2>4, <2>5, <4>3, NewRootForward DEF Whereabouts
    <3>2. CASE ~joins
      <4>1. commits = made
        BY <2>2, <3>2
      <4>2. \A c \in 1 .. Len(made) : made'[c] = made[c]
        BY <1>1, <2>6, GrowsIs
      <4>3. Roots' \subseteq Roots
        BY <2>4, <2>5, <4>1, <4>2 DEF Roots, RootsOf
      <4> QED
        BY <1>1, <2>6, <4>3, SameForward DEF Whereabouts
    <3> QED
      BY <3>1, <3>2
  <2>10. moved \subseteq DOMAIN index /\ moved \in SUBSET Tracker
    BY <2>1, <2>7, PinsOf DEF Moved
  <2>11. PICK fresh \in SUBSET Tracker : fresh = {t \in moved : t \notin DOMAIN o.base}
    BY <2>10
  <2>13. PICK at : at = IF ~linked THEN "root" ELSE IF moved = {} THEN "children" ELSE "seed"
    OBVIOUS
  <2>14. PICK next : next = [o EXCEPT !.merged = merged, !.moves = moves, !.todo = InOrder(fresh), !.at = at]
    OBVIOUS
  <2>15. next.at = at /\ next.merged = merged /\ next.moves = moves
    BY <1>3, <2>14 DEF Op
  <2>16. op'[p] = next /\ Others(p)
    <3>1. Becomes(p, [op[p] EXCEPT !.merged = merged, !.moves = moves,
                        !.todo = InOrder({t \in Moved(op[p].base, index) : t \notin DOMAIN op[p].base}),
                        !.at = IF ~linked THEN "root" ELSE IF Moved(op[p].base, index) = {} THEN "children" ELSE "seed"])
      BY <2>2, Zenon DEF MadeBy
    <3>2. Becomes(p, next)
      BY <1>3, <2>1, <2>11, <2>13, <2>14, <3>1
    <3> QED
      BY <3>2, BecomesThen
  <2>17. Held' /\ Keeps
    BY <1>2, <2>6, SameHeld DEF Whereabouts
  <2>18. Placed(p)'
    <3>1. CASE linked
      BY <1>2, <2>13, <2>15, <2>16, <3>1 DEF Placed
    <3>2. CASE ~linked
      <4>1. at = "root" /\ RunsHere(p) /\ Here(kept[Home]) /\ Tree(kept[Home])
        BY <1>1, <1>2, <2>13, <3>2, Busied DEF Inv, MainRefs
      <4>2. PICK k : k = kept[Home] /\ k = kept'[Home] /\ Here(k) /\ Tree(k)
        BY <1>2, <4>1
      <4>3. PICK r \in Roots : r = k[Root]
        BY <4>2 DEF Here, Tree
      <4>4. o.base = Index(r) /\ o.heads = main[Home] /\ \A t \in DOMAIN main[Home] : t \in DOMAIN k /\ main[Home][t] = k[t]
        BY <1>1, <1>3, <3>2, <4>1, <4>2, <4>3 DEF RunsHere, Whereabouts, InStep
      <4>5. Pinned(r, k)
        <5>1. \A q \in Process : op[q].at # "children"
          BY <1>1, <3>2 DEF Inv, AtHome, Idle
        <5> QED
          BY <3>2, <4>2, <4>3, <5>1 DEF Whereabouts, InStep
      <4>6. ASSUME NEW t \in DOMAIN index \ {Root} PROVE Reaches(p, t, index[t])'
        <5>1. PICK c : c = index[t] /\ c # 0
          <6>1. NamesIn(commits, commits[merged].pins) /\ 0 \notin 1 .. Len(commits)
            BY <2>3, <2>7, CommitAt
          <6> QED
            BY <2>7, <6>1 DEF NamesIn
        <5>2. \A v \in moves : v.tracker = t => Ancestor(c, v.new)'
          <6> SUFFICES ASSUME NEW v \in moves, v.tracker = t PROVE Ancestor(c, v.new)'
            OBVIOUS
          <6>1. PICK d : d = v.new /\ d \in 1 .. Len(all) /\ c \in all[d].behind
            BY <2>4, <5>1 DEF Sound
          <6>2. d # 0
            BY <1>1, <2>5, <6>1, CommitAt
          <6> QED
            BY <2>5, <6>1, <6>2 DEF Ancestor, Behind
        <5>3. (\E v \in moves : v.tracker = t) \/ (t \in DOMAIN k /\ Ancestor(c, k[t])')
          <6>1. CASE t \in moved
            <7>1. CASE At(o.heads, t) # 0 /\ c \in all[At(o.heads, t)].behind
              <8>1. PICK d : d = At(o.heads, t)
                OBVIOUS
              <8>2. d # 0 /\ c \in made'[d].behind /\ t \in DOMAIN k /\ k[t] = d
                BY <2>5, <4>4, <7>1, <8>1 DEF At
              <8> QED
                BY <8>2 DEF Ancestor, Behind
            <7> QED
              BY <2>4, <5>1, <6>1, <7>1
          <6>2. CASE t \notin moved
            <7>1. t \in DOMAIN Index(r) /\ Index(r)[t] = c
              BY <2>1, <4>4, <5>1, <6>2 DEF Moved, At
            <7>2. PICK d : d = k[t] /\ d \in 1 .. Len(made) /\ t \in DOMAIN k /\ Ancestor(c, d)
              BY <4>2, <4>5, <7>1 DEF Pinned, Tree, Names, NamesIn
            <7>3. Ancestor(c, d)'
              BY <1>1, <2>6, <7>2, AncestorGoesOn
            <7> QED
              BY <7>2, <7>3
          <6> QED
            BY <6>1, <6>2
        <5> QED
          BY <2>15, <2>16, <4>2, <5>1, <5>2, <5>3 DEF Reaches
      <4> QED
        BY <2>8, <2>15, <2>16, <4>1, <4>6 DEF Placed
    <3> QED
      BY <3>1, <3>2
  <2> QED
    BY <1>1, <1>2, <2>6, <2>9, <2>16, <2>17, <2>18, PlacesStep
<1>7. \/ Stop(p) /\ UNCHANGED <<made, has>>
      \/ \E joins, commits, merged, index, all, moves :
            Makes(p, ours, theirs, joins, commits, merged, index, all, moves)
  BY <1>3, <1>4, MadeByIs, Zenon
<1> QED
  BY <1>5, <1>6, <1>7, Zenon

-----------------------------------------------------------------------------
(* What is sent to a repo is sent with all that is behind it.              *)

LEMMA HeldRepo ==
    ASSUME Inv, Whereabouts, Grows(made, made'), fork' = fork, list' = list, stored' = stored,
           NEW t \in DOMAIN repo', DOMAIN repo \subseteq DOMAIN repo',
           \A u \in DOMAIN repo' : u # t => u \in DOMAIN repo /\ repo'[u].holds = repo[u].holds,
           NEW before, t \in DOMAIN repo => before = repo[t].holds, t \notin DOMAIN repo => before = {},
           NEW c \in 1 .. Len(made'), repo'[t].holds = before \union Behind(c)'
    PROVE  Held' /\ Keeps
<1>1. Graph(made) /\ Graph(made') /\ RepoRefs
  BY GoesOn DEF Inv, Refs
<1>2. Keeps
  BY DEF Keeps
<1>3. \A x \in before : Behind(x)' \subseteq before
  <2> SUFFICES ASSUME t \in DOMAIN repo, NEW x \in repo[t].holds PROVE Behind(x)' \subseteq repo[t].holds
    OBVIOUS
  <2>1. x \in 1 .. Len(made) /\ Behind(x) \subseteq repo[t].holds
    BY <1>1 DEF RepoRefs, Whereabouts, Held
  <2> QED
    BY <1>1, <2>1, BehindGoesOn
<1>4. \A x \in Behind(c)' : Behind(x)' \subseteq Behind(c)'
  <2>1. \A x, y : Ancestor(x, c)' /\ Ancestor(y, x)' => Ancestor(y, c)'
    BY <1>1, AncestorThen
  <2> QED
    BY <2>1 DEF Ancestor
<1>5. \A x \in repo'[t].holds : Behind(x)' \subseteq repo'[t].holds
  BY <1>3, <1>4
<1> QED
  BY <1>2, <1>5, HeldStep DEF Whereabouts

LEMMA UpdatePlaces ==
    ASSUME Inv, Inv', Whereabouts, NEW t \in Updates, Update(t)
    PROVE  Whereabouts'
<1>1. /\ Graph(made) /\ Graph(made') /\ RepoRefs /\ t \in DOMAIN repo /\ t \in Tracker /\ t # Root
      /\ UNCHANGED <<main, kept, linked, list, stored, fork, op>>
  BY RemoteAssumption, TrackerIs DEF Update, Inv, Refs, local, remote
<1>2. PICK head : head = repo[t].main /\ head \in 1 .. Len(made)
  BY <1>1 DEF RepoRefs
<1>3. PICK none \in Pins : none = <<>> /\ DOMAIN none = {}
  BY NoPins
<1>4. PICK new, parents, told : /\ new = Len(made) + 1 /\ told = FALSE /\ told \in BOOLEAN
                                /\ parents = {head} /\ parents \in SUBSET (1 .. Len(made))
  BY <1>2
<1>5. made' = With(made, t, parents, none, told)
  BY <1>2, <1>3, <1>4 DEF Update
<1>6. Adds(made, made', new, parents, none, told)
  <2>1. Fit(none, new)
    BY <1>3 DEF Fit
  <2> QED
    BY <1>1, <1>4, <1>5, <2>1, WithIs
<1>7. /\ Grows(made, made') /\ Len(made') = new /\ new \in 1 .. Len(made') /\ Len(made) \in Nat
      /\ DOMAIN made'[new].pins = {}
  BY <1>1, <1>3, <1>4, <1>6 DEF Adds, Graph
<1>8. \A c \in 1 .. Len(made') : c # new => c \in 1 .. Len(made) /\ made'[c] = made[c]
  BY <1>1, <1>4, <1>7, GoesOn
<1>9. Roots' \subseteq Roots
  BY <1>7, <1>8 DEF Roots, RootsOf
<1>10. Forward'
  BY <1>1, <1>7, <1>9, SameForward DEF Whereabouts
<1>11. PICK s : s = [repo[t] EXCEPT !.main = new, !.holds = @ \union made'[new].behind]
  OBVIOUS
<1>12. repo' = [repo EXCEPT ![t] = s]
  BY <1>1, <1>2, <1>3, <1>4, <1>5, <1>7, <1>11 DEF Update
<1>13. s.holds = repo[t].holds \union Behind(new)'
  <2>1. repo[t] \in Repo
    BY <1>1, RepoType DEF Inv
  <2>2. new # 0
    BY <1>4, <1>7
  <2> QED
    BY <1>11, <2>1, <2>2 DEF Repo, Behind
<1>14. DOMAIN repo' = DOMAIN repo /\ repo'[t] = s /\ \A u \in DOMAIN repo : u # t => repo'[u] = repo[u]
  BY <1>1, <1>12, ExceptThen
<1>15. PICK before : before = IF t \in DOMAIN repo THEN repo[t].holds ELSE {}
  OBVIOUS
<1>16. Held' /\ Keeps
  <2>1. repo'[t].holds = before \union Behind(new)'
    BY <1>1, <1>13, <1>14, <1>15
  <2>2. \A u \in DOMAIN repo' : u # t => u \in DOMAIN repo /\ repo'[u].holds = repo[u].holds
    BY <1>14
  <2> QED
    BY <1>1, <1>7, <1>14, <1>15, <2>1, <2>2, HeldRepo
<1>17. \A q \in Process : Placed(q)'
  BY <1>1, <1>7, <1>16, PlacedGoesOn DEF Whereabouts
<1>18. InStep'
  BY <1>1, <1>7, InStepGoesOn DEF Whereabouts
<1> QED
  BY <1>10, <1>16, <1>17, <1>18 DEF Whereabouts

\* A repo is made, or picked up, for a tracker, with a commit of it.
Seeds(t, c) ==
    LET r == IF t \in DOMAIN repo THEN repo[t] ELSE NewRepo
    IN  repo' = Put(repo, t, [r EXCEPT !.main = c, !.holds = @ \union Behind(c)])
LEMMA SeedHeld ==
    ASSUME Inv, Whereabouts, made' = made, fork' = fork, list' = list, stored' = stored,
           NEW t, NEW c \in 1 .. Len(made), Seeds(t, c)
    PROVE  /\ Held' /\ Keeps
           /\ t \in DOMAIN repo' /\ Behind(c) \subseteq repo'[t].holds
<1>1. Graph(made) /\ Grows(made, made') /\ Behind(c)' = Behind(c)
  BY SameGrows DEF Inv, Behind
<1>2. PICK before : /\ t \in DOMAIN repo => before = repo[t].holds
                    /\ t \notin DOMAIN repo => before = {}
  <2>1. PICK b : b = IF t \in DOMAIN repo THEN repo[t].holds ELSE {}
    OBVIOUS
  <2> QED
    BY <2>1
<1>3. PICK r : r = (IF t \in DOMAIN repo THEN repo[t] ELSE NewRepo) /\ r \in Repo /\ r.holds = before
  <2>1. CASE t \in DOMAIN repo
    BY <1>2, <2>1, RepoType DEF Inv
  <2>2. CASE t \notin DOMAIN repo
    BY <1>2, <2>2, NewRepoIs
  <2> QED
    BY <2>1, <2>2
<1>4. PICK s : s = [r EXCEPT !.main = c, !.holds = @ \union Behind(c)] /\ s.holds = before \union Behind(c)
  <2>1. PICK s : s = [r EXCEPT !.main = c, !.holds = @ \union Behind(c)]
    OBVIOUS
  <2>2. r \in Repo /\ r.holds = before
    BY <1>3
  <2>3. s.holds = before \union Behind(c)
    BY <2>1, <2>2 DEF Repo
  <2> QED
    BY <2>1, <2>3
<1>5. DOMAIN repo' = DOMAIN repo \union {t} /\ repo'[t] = s /\ \A u \in DOMAIN repo : u # t => repo'[u] = repo[u]
  <2>1. repo' = Put(repo, t, s)
    BY <1>3, <1>4 DEF Seeds
  <2> QED
    BY <2>1 DEF Put
<1>6. repo'[t].holds = before \union Behind(c)'
  BY <1>1, <1>4, <1>5
<1>7. \A u \in DOMAIN repo' : u # t => u \in DOMAIN repo /\ repo'[u].holds = repo[u].holds
  BY <1>5
<1>8. t \in DOMAIN repo' /\ DOMAIN repo \subseteq DOMAIN repo' /\ c \in 1 .. Len(made')
  BY <1>5
<1>9. Held' /\ Keeps
  BY <1>1, <1>2, <1>6, <1>7, <1>8, HeldRepo
<1> QED
  BY <1>4, <1>5, <1>8, <1>9

LEMMA MergeSeedPlaces ==
    ASSUME Inv, Inv', Whereabouts, NEW p \in Process, MergeSeed(p)
    PROVE  Whereabouts'
<1>1. /\ op[p].at = "seed" /\ op[p].todo # <<>>
      /\ UNCHANGED <<made, main, kept, linked, list, stored, fork>>
  BY DEF MergeSeed, local, remote
<1>2. CASE Stop(p) /\ repo' = repo
  BY <1>1, <1>2, StopsPlaced, CommandPlaces
<1>3. PICK o \in Op : o = op[p]
  BY DEF Inv, TypeOK
<1>4. PICK t : t = Head(o.todo)
  OBVIOUS
<1>5. PICK c : c = Index(o.merged)[t]
  OBVIOUS
<1>6. PICK r : r = IF t \in DOMAIN repo THEN repo[t] ELSE NewRepo
  OBVIOUS
<1>7. PICK s : s = [r EXCEPT !.main = c, !.holds = @ \union Behind(c)]
  OBVIOUS
<1>8. PICK next : next = [o EXCEPT !.todo = Tail(@)]
  OBVIOUS
<1>9. CASE repo' = Put(repo, t, s) /\ Becomes(p, next)
  <2>1. t \in Range(o.todo)
    <3>1. o.todo \in Seq(Tracker) /\ o.todo # <<>>
      BY <1>1, <1>3 DEF Op
    <3> QED
      BY <1>4, <3>1, HeadTailIs
  <2>2. linked /\ Graph(made) /\ o.merged \in Roots /\ t \in DOMAIN Index(o.merged)
    BY <1>1, <1>3, <2>1, ThereOnly DEF Inv, Runs
  <2>3. c \in 1 .. Len(made)
    BY <1>5, <2>2, IndexIs DEF NamesIn
  <2>4. Held' /\ Keeps
    <3>1. Seeds(t, c)
      BY <1>6, <1>7, <1>9 DEF Seeds
    <3> QED
      BY <1>1, <2>3, <3>1, SeedHeld
  <2>5. next.at = "seed"
    BY <1>1, <1>3, <1>8 DEF Op
  <2>6. op'[p] = next /\ Others(p)
    BY <1>9, BecomesThen
  <2>7. Placed(p)'
    BY <2>5, <2>6 DEF Placed
  <2>8. Grows(made, made') /\ Forward'
    BY <1>1, <2>2, SameGrows, SameForward DEF Whereabouts, Roots
  <2> QED
    BY <1>1, <2>2, <2>4, <2>6, <2>7, <2>8, PlacesStep
<1> QED
  BY <1>2, <1>3, <1>4, <1>5, <1>6, <1>7, <1>8, <1>9 DEF MergeSeed

LEMMA ToLandPlaces ==
    ASSUME Inv, Inv', Whereabouts, NEW p \in Process, NEW writes, NEW todo, op[p].at = "seed",
           Stop(p) \/ Becomes(p, [op[p] EXCEPT !.at = "land", !.writes = writes, !.todo = RootFirst(todo)]),
           UNCHANGED <<made, main, kept, linked, list, stored, repo, fork>>
    PROVE  Whereabouts'
<1>1. CASE Stop(p)
  BY <1>1, StopsPlaced, CommandPlaces
<1>2. CASE Becomes(p, [op[p] EXCEPT !.at = "land", !.writes = writes, !.todo = RootFirst(todo)])
  <2>1. PICK o \in Op : o = op[p]
    BY DEF Inv, TypeOK
  <2>2. PICK next : next = [o EXCEPT !.at = "land", !.writes = writes, !.todo = RootFirst(todo)]
    OBVIOUS
  <2>3. next.at = "land"
    BY <2>1, <2>2 DEF Op
  <2>4. op'[p] = next /\ Others(p)
    BY <1>2, <2>1, <2>2, BecomesThen
  <2>5. Placed(p)'
    BY <2>3, <2>4 DEF Placed
  <2> QED
    BY <2>4, <2>5, CommandPlaces
<1> QED
  BY <1>1, <1>2

LEMMA MergeBeginPlaces ==
    ASSUME Inv, Inv', Whereabouts, NEW p \in Process, MergeBegin(p)
    PROVE  Whereabouts'
<1>1. op[p].at = "seed" /\ UNCHANGED <<made, main, kept, linked, list, stored, repo, fork>>
  BY DEF MergeBegin, local
<1>2. PICK writes, todo :
         Stop(p) \/ Becomes(p, [op[p] EXCEPT !.at = "land", !.writes = writes, !.todo = RootFirst(todo)])
  BY Zenon DEF MergeBegin
<1> QED
  BY <1>1, <1>2, ToLandPlaces, Zenon

LEMMA MirrorLandPlaces ==
    ASSUME Inv, Inv', Whereabouts, NEW p \in Process, MirrorLand(p)
    PROVE  Whereabouts'
<1>1. op[p].at = "seed" /\ UNCHANGED <<made, main, kept, linked, list, stored, repo, fork>>
  BY DEF MirrorLand, local, remote
<1>2. PICK writes :
         Stop(p) \/ Becomes(p, [op[p] EXCEPT !.at = "land", !.writes = writes, !.todo = RootFirst(writes)])
  BY Zenon DEF MirrorLand
<1> QED
  BY <1>1, <1>2, ToLandPlaces, Zenon

LEMMA LandNextPlaces ==
    ASSUME Inv, Inv', Whereabouts, NEW p \in Process, LandNext(p)
    PROVE  Whereabouts'
<1>1. /\ op[p].at = "land" /\ op[p].todo # <<>> /\ linked /\ Graph(made)
      /\ UNCHANGED <<made, main, kept, linked, list, stored, fork>>
  BY ThereOnly DEF LandNext, local, remote, Inv
<1>2. PICK o : o = op[p] /\ o \in Op /\ OpRefs(p) /\ Runs(p)
  BY <1>1 DEF Inv, TypeOK, Refs
<1>3. PICK t : t = Head(o.todo)
  OBVIOUS
<1>4. t \in Range(o.todo)
  <2>1. o.todo \in Seq(Tracker)
    BY <1>2 DEF Op
  <2> QED
    BY <1>1, <1>2, <1>3, <2>1, HeadTailIs
<1>5. PICK c : c = IF t = Root THEN o.merged ELSE MoveOf(o, t).new
  OBVIOUS
<1>6. c \in 1 .. Len(made)
  <2>1. CASE t = Root
    BY <1>1, <1>2, <1>5, <2>1, IndexIs DEF Runs
  <2>2. CASE t # Root
    <3>1. PICK v \in o.moves : v.tracker = t
      BY <1>1, <1>2, <1>4, <2>2 DEF Runs
    <3>2. MoveOf(o, t) \in o.moves
      BY <3>1, MoveOfIs
    <3> QED
      BY <1>2, <1>5, <2>2, <3>2 DEF OpRefs
  <2> QED
    BY <2>1, <2>2
<1>7. /\ repo' = [repo EXCEPT ![t].landing = @ \union {c}, ![t].holds = @ \union Behind(c)]
      /\ Becomes(p, [o EXCEPT !.todo = Tail(@)])
  BY <1>2, <1>3, <1>5 DEF LandNext
<1>8. Grows(made, made') /\ Forward' /\ Behind(c)' = Behind(c)
  BY <1>1, SameGrows, SameForward DEF Whereabouts, Roots, Behind
<1>9. Held' /\ Keeps
  <2>1. CASE t \in DOMAIN repo
    <3>1. PICK r : r = repo[t] /\ r \in Repo
      BY <2>1, RepoType DEF Inv
    <3>2. PICK s : s = [r EXCEPT !.landing = @ \union {c}, !.holds = @ \union Behind(c)]
      OBVIOUS
    <3>3. s.holds = r.holds \union Behind(c)
      BY <3>1, <3>2 DEF Repo
    <3>4. repo' = [repo EXCEPT ![t] = s]
      BY <1>7, <2>1, <3>1, <3>2
    <3>5. /\ DOMAIN repo' = DOMAIN repo /\ repo'[t] = s
          /\ \A u \in DOMAIN repo : u # t => repo'[u] = repo[u]
      BY <2>1, <3>4, ExceptThen
    <3>6. PICK before : before = repo[t].holds
      OBVIOUS
    <3>7. repo'[t].holds = before \union Behind(c)' /\ t \in DOMAIN repo' /\ c \in 1 .. Len(made')
      BY <1>1, <1>6, <1>8, <2>1, <3>1, <3>3, <3>5, <3>6
    <3>8. \A u \in DOMAIN repo' : u # t => u \in DOMAIN repo /\ repo'[u].holds = repo[u].holds
      BY <3>5
    <3> QED
      BY <1>1, <1>8, <2>1, <3>5, <3>6, <3>7, <3>8, HeldRepo
  <2>2. CASE t \notin DOMAIN repo
    <3>1. PICK D : repo \in [D -> Repo] /\ DOMAIN repo = D
      BY DEF Inv, TypeOK, Maps
    <3>2. repo' = repo
      BY <1>7, <2>2, <3>1
    <3> QED
      BY <1>1, <1>8, <3>2, SameHeld DEF Whereabouts
  <2> QED
    BY <2>1, <2>2
<1>10. PICK next : next = [o EXCEPT !.todo = Tail(@)]
  OBVIOUS
<1>11. next.at = "land"
  BY <1>1, <1>2, <1>10 DEF Op
<1>12. op'[p] = next /\ Others(p)
  BY <1>7, <1>10, BecomesThen
<1>13. Placed(p)'
  BY <1>11, <1>12 DEF Placed
<1> QED
  BY <1>1, <1>8, <1>9, <1>12, <1>13, PlacesStep

\* A list is only swapped in when what it names is there (check_index).
LEMMA FinishPlaces ==
    ASSUME Inv, Inv', Whereabouts, NEW p \in Process, Finish(p)
    PROVE  Whereabouts'
<1>1. /\ op[p].at = "land" /\ linked
      /\ UNCHANGED <<made, main, kept, linked, repo, fork, stored>>
      /\ \/ Stop(p) /\ list' = list
         \/ /\ GoOn(p, "wait") /\ list' = Index(op[p].merged)
            /\ IndexHolds(op[p].merged) \/ list = Index(op[p].merged)
  BY Zenon, ThereOnly DEF Finish, local
<1>2. CASE Stop(p) /\ list' = list
  BY <1>1, <1>2, StopsPlaced, CommandPlaces
<1>3. CASE /\ GoOn(p, "wait") /\ list' = Index(op[p].merged)
           /\ IndexHolds(op[p].merged) \/ list = Index(op[p].merged)
  <2>1. list' = list \/ \A t \in DOMAIN list' : list'[t] \in repo'[t].holds
    BY <1>1, <1>3 DEF IndexHolds
  <2>2. Grows(made, made') /\ Forward' /\ Keeps
    BY <1>1, SameGrows, SameForward DEF Inv, Whereabouts, Roots, Keeps
  <2>3. Held'
    BY <1>1, <2>1, <2>2, HeldStep DEF Whereabouts
  <2>4. Others(p) /\ Placed(p)'
    BY <1>3, GoesOnPlaced
  <2> QED
    BY <1>1, <2>2, <2>3, <2>4, PlacesStep
<1> QED
  BY <1>1, <1>2, <1>3

-----------------------------------------------------------------------------
(* Following a landing takes nothing away.                                 *)

LEMMA FollowsPlaces ==
    ASSUME Inv, Inv', Whereabouts, NEW f \in follows,
           UNCHANGED <<made, main, kept, linked, list, stored, fork>>,
           DOMAIN repo' = DOMAIN repo, \A t \in DOMAIN repo : repo'[t].holds = repo[t].holds,
           op' = op \/ Stop(f.by) \/ GoOn(f.by, "children")
    PROVE  Whereabouts'
<1>1. PICK p \in Process : p = f.by /\ linked
  BY FollowIs
<1>2. Grows(made, made') /\ Forward' /\ Keeps
  BY SameGrows, SameForward DEF Inv, Whereabouts, Roots, Keeps
<1>3. Held'
  BY <1>2, HeldStep DEF Whereabouts
<1>4. CASE op' = op
  <2>1. Others(p) /\ op'[p] = op[p]
    BY <1>4 DEF Others
  <2>2. Placed(p)'
    BY <1>2, <2>1, PlacedGoesOn DEF Whereabouts
  <2> QED
    BY <1>1, <1>2, <1>3, <2>1, <2>2, PlacesStep
<1>5. CASE Stop(p) \/ GoOn(p, "children")
  <2>1. Others(p) /\ Placed(p)'
    BY <1>1, <1>5, StopsPlaced, GoesOnPlaced
  <2> QED
    BY <1>1, <1>2, <1>3, <2>1, PlacesStep
<1> QED
  BY <1>1, <1>4, <1>5

LEMMA FollowPlaces ==
    ASSUME Inv, Inv', Whereabouts, NEW f \in follows, Follow(f)
    PROVE  Whereabouts'
<1>1. CASE Answer(f) \/ WorkerDies(f)
  <2>1. /\ UNCHANGED <<made, main, kept, linked, list, stored, repo, fork>>
        /\ op' = op \/ Stop(f.by) \/ GoOn(f.by, "children")
    BY <1>1 DEF Answer, WorkerDies, local, remote
  <2> QED
    BY <2>1, FollowsPlaces
<1>2. CASE FollowRead(f)
  BY <1>2, FollowsPlaces DEF FollowRead, local, remote
<1>3. CASE FollowMove(f)
  <2>1. UNCHANGED <<made, main, kept, linked, list, stored, fork, op>>
    BY <1>3 DEF FollowMove, local, remote
  <2>2. TypeOK /\ Root \in DOMAIN repo
    BY FollowIs DEF Inv, OnRemote, IsIndex
  <2>3. PICK r : r = repo[Root] /\ r \in Repo
    BY <2>2, RepoType
  <2>4. PICK s : s = [r EXCEPT !.main = IF r.main = f.held THEN f.head ELSE @, !.landing = @ \ f.drop,
                               !.stray = IF f.held \in was \union {0, f.head} THEN @ ELSE @ \union {f.held}]
    OBVIOUS
  <2>5. repo' = [repo EXCEPT ![Root] = s]
    BY <1>3, <2>3, <2>4 DEF FollowMove, Unmoved
  <2>6. s.holds = r.holds
    BY <2>3, <2>4 DEF Repo
  <2>7. DOMAIN repo' = DOMAIN repo /\ repo'[Root] = s /\ \A u \in DOMAIN repo : u # Root => repo'[u] = repo[u]
    BY <2>2, <2>5, ExceptThen
  <2>8. \A u \in DOMAIN repo : repo'[u].holds = repo[u].holds
    BY <2>3, <2>6, <2>7
  <2> QED
    BY <2>1, <2>7, <2>8, FollowsPlaces
<1>4. CASE FollowChild(f)
  <2>1. UNCHANGED <<made, main, kept, linked, list, stored, fork, op>>
    BY <1>4 DEF FollowChild, local, remote
  <2>2. PICK t, old, new : repo' = [repo EXCEPT ![t].main = IF @ = old THEN new ELSE @, ![t].landing = @ \ {new}]
    BY <1>4 DEF FollowChild
  <2>3. CASE t \in DOMAIN repo
    <3>1. PICK r : r = repo[t] /\ r \in Repo
      BY <2>3, RepoType DEF Inv
    <3>2. PICK s : s = [r EXCEPT !.main = IF @ = old THEN new ELSE @, !.landing = @ \ {new}]
      OBVIOUS
    <3>3. s.holds = r.holds
      BY <3>1, <3>2 DEF Repo
    <3>4. repo' = [repo EXCEPT ![t] = s]
      BY <2>2, <2>3, <3>1, <3>2
    <3>5. DOMAIN repo' = DOMAIN repo /\ repo'[t] = s /\ \A u \in DOMAIN repo : u # t => repo'[u] = repo[u]
      BY <2>3, <3>4, ExceptThen
    <3>6. \A u \in DOMAIN repo : repo'[u].holds = repo[u].holds
      BY <3>1, <3>3, <3>5
    <3> QED
      BY <2>1, <3>5, <3>6, FollowsPlaces
  <2>4. CASE t \notin DOMAIN repo
    <3>1. PICK D : repo \in [D -> Repo] /\ DOMAIN repo = D
      BY DEF Inv, TypeOK, Maps
    <3>2. repo' = repo
      BY <2>2, <2>4, <3>1
    <3> QED
      BY <2>1, <3>2, FollowsPlaces
  <2> QED
    BY <2>3, <2>4
<1> QED
  BY <1>1, <1>2, <1>3, <1>4 DEF Follow

-----------------------------------------------------------------------------
(* The end of a merge, and what root pins, where there is no remote.       *)

LEMMA LocalRootPlaces ==
    ASSUME Inv, Inv', Whereabouts, NEW p \in Process, LocalRoot(p)
    PROVE  Whereabouts'
<1>1. /\ op[p].at = "root" /\ ~Idle(p) /\ ~linked
      /\ UNCHANGED <<made, kept, linked, list, stored, repo, fork>>
  BY HereOnly DEF LocalRoot, remote, Idle
<1>2. CASE Stop(p) /\ main' = main
  BY <1>1, <1>2, StopsPlaced, CommandPlaces
<1>3. CASE GoOn(p, "keep") /\ main' = [main EXCEPT ![Host[p]] = Put(@, Root, op[p].merged)]
  <2>1. Others(p) /\ op'[p].at = "keep" /\ op'[p].merged = op[p].merged /\ op'[p].moves = op[p].moves
    BY <1>3, GoesOnThen
  <2>2. DOMAIN main'[Home] \subseteq DOMAIN main[Home] \union DOMAIN kept[Home]
    <3>1. Host[p] = Home /\ Root \in DOMAIN kept[Home] /\ Home \in Range(Host)
      BY <1>1, Busied, HostIs DEF Here
    <3>2. main'[Home] = Put(main[Home], Root, op[p].merged)
      BY <1>3, <3>1 DEF Inv, TypeOK
    <3> QED
      BY <3>1, <3>2 DEF Put
  <2>3. PICK o : o = op[p]
    OBVIOUS
  <2>4. PICK index : index = Index(o.merged) /\ index = Index(o.merged)'
    BY <1>1 DEF Index
  <2>5. Grows(made, made')
    BY <1>1, SameGrows DEF Inv
  <2>6. ASSUME NEW t \in DOMAIN index \ {Root} PROVE Reaches(p, t, index[t])'
    <3>1. PICK c : c = index[t]
      OBVIOUS
    <3>2. Reaches(p, t, c)
      BY <1>1, <2>3, <2>4, <3>1 DEF Whereabouts, Placed
    <3>3. Reaches(p, t, c)'
      BY <1>1, <2>1, <2>5, <3>2, ReachesGoesOn
    <3> QED
      BY <3>1, <3>3
  <2>7. Placed(p)'
    BY <2>1, <2>3, <2>4, <2>6 DEF Placed
  <2> QED
    BY <1>1, <2>1, <2>2, <2>7, CommandPlaces
<1> QED
  BY <1>2, <1>3 DEF LocalRoot

\* One that changes what the store keeps.
LEMMA KeptPlaces ==
    ASSUME Inv, Inv', Whereabouts, ~linked, NEW p \in Process, ~Idle(p), Others(p),
           UNCHANGED <<made, linked, list, stored, repo, fork>>, Placed(p)', InStep'
    PROVE  Whereabouts'
<1>1. Grows(made, made') /\ Forward' /\ Held'
  BY SameGrows, SameForward, SameHeld DEF Inv, Whereabouts, Roots
<1>2. ASSUME NEW q \in Process PROVE Placed(q)'
  <2>1. CASE q = p
    BY <2>1
  <2>2. CASE q # p
    <3>1. op'[q].at = "idle"
      BY <2>2 DEF Inv, AtHome, Others, Idle
    <3> QED
      BY <3>1 DEF Placed
  <2> QED
    BY <2>1, <2>2
<1> QED
  BY <1>1, <1>2 DEF Whereabouts

LEMMA LocalKeepPlaces ==
    ASSUME Inv, Inv', Whereabouts, NEW p \in Process, LocalKeep(p)
    PROVE  Whereabouts'
<1>1. /\ op[p].at = "keep" /\ ~Idle(p) /\ ~linked
      /\ UNCHANGED <<made, main, linked, list, stored, repo, fork>>
  BY HereOnly DEF LocalKeep, remote, Idle
<1>2. PICK o : o = op[p] /\ Host[p] = Home
  BY <1>1, Busied
<1>3. PICK k : k = kept[Home]
  OBVIOUS
<1>4. PICK g, c : c = main[Home][Root] /\ g = Put(k, Root, c)
  OBVIOUS
<1>5. kept' = [kept EXCEPT ![Home] = g] /\ GoOn(p, "children")
  BY <1>2, <1>3, <1>4 DEF LocalKeep
<1>6. kept'[Home] = g
  <2>1. Home \in Range(Host) /\ kept \in [Range(Host) -> Pins]
    BY HostIs DEF Inv, TypeOK
  <2> QED
    BY <1>5, <2>1
<1>7. DOMAIN g = DOMAIN k \union {Root} /\ \A t \in DOMAIN k : t # Root => g[t] = k[t]
  BY <1>4 DEF Put
<1>8. Others(p) /\ op'[p].at = "children" /\ op'[p].merged = op[p].merged /\ op'[p].moves = op[p].moves
  BY <1>5, GoesOnThen
<1>9. PICK index : index = Index(o.merged) /\ index = Index(o.merged)'
  BY <1>1 DEF Index
<1>10. ASSUME NEW t \in DOMAIN index \ {Root} PROVE Reaches(p, t, index[t])'
  <2>1. PICK b, moves : b = index[t] /\ moves = op[p].moves /\ moves = op'[p].moves
    BY <1>8
  <2>2. Reaches(p, t, b)
    BY <1>1, <1>2, <1>9, <2>1 DEF Whereabouts, Placed
  <2>3. \A d : Ancestor(b, d)' <=> Ancestor(b, d)
    BY <1>1 DEF Ancestor, Behind
  <2>4. \A v \in moves : v.tracker = t => Ancestor(b, v.new)'
    BY <2>1, <2>2, <2>3 DEF Reaches
  <2>5. (\E v \in moves : v.tracker = t) \/ (t \in DOMAIN g /\ Ancestor(b, g[t])')
    <3>1. CASE t \in DOMAIN k /\ Ancestor(b, k[t])
      <4>1. t \in DOMAIN g /\ g[t] = k[t]
        BY <1>7, <1>10, <3>1
      <4> QED
        BY <2>3, <3>1, <4>1
    <3> QED
      BY <1>3, <2>1, <2>2, <3>1 DEF Reaches
  <2> QED
    BY <1>6, <2>1, <2>4, <2>5 DEF Reaches
<1>11. Placed(p)'
  BY <1>2, <1>8, <1>9, <1>10 DEF Placed
<1>12. InStep'
  BY <1>1, <1>3, <1>6, <1>7, <1>8 DEF Whereabouts, InStep
<1> QED
  BY <1>1, <1>8, <1>11, <1>12, KeptPlaces

LEMMA LocalEndPlaces ==
    ASSUME Inv, Inv', Whereabouts, NEW p \in Process, LocalEnd(p)
    PROVE  Whereabouts'
<1>1. /\ op[p].at = "children" /\ ~Idle(p)
      /\ UNCHANGED <<made, linked, list, stored, repo, fork>>
      /\ main' = IF linked THEN main ELSE [main EXCEPT ![Host[p]] = MovedTo(op[p], @)]
      /\ kept' = IF linked THEN kept ELSE [kept EXCEPT ![Host[p]] = MovedTo(op[p], @)]
      /\ GoOn(p, "create") \/ Stop(p)
  BY LocalEndIs DEF remote, Idle
<1>2. Others(p) /\ Placed(p)' /\ op'[p].at # "children"
  BY <1>1, StopsPlaced, GoesOnPlaced
<1>3. CASE linked
  BY <1>1, <1>2, <1>3, CommandPlaces
<1>4. CASE ~linked
  <2>1. PICK o : /\ o = op[p] /\ o \in Op /\ OpRefs(p) /\ o.at = "children" /\ o.merged \in Roots
                 /\ kept[Home][Root] = o.merged /\ Host[p] = Home
    BY <1>1, <1>4, Busied DEF RunsHere
  <2>2. Home \in Range(Host) /\ Graph(made)
    BY HostIs DEF Inv
  <2>3. PICK k : k = kept[Home] /\ Root \in DOMAIN k /\ k \in Pins /\ Tree(k)
    BY <1>1, <1>4, <2>2, Busied DEF Here, Inv, Refs, TypeOK, MainRefs
  <2>4. PICK moved : moved = {v.tracker : v \in o.moves}
    OBVIOUS
  <2>5. PICK g : g = MovedTo(o, k) /\ kept'[Home] = g
    <3>1. kept' = [kept EXCEPT ![Home] = MovedTo(o, @)] /\ kept \in [Range(Host) -> Pins]
      BY <1>1, <1>4, <2>1 DEF Inv, TypeOK
    <3> QED
      BY <2>2, <2>3, <3>1
  <2>6. g = [t \in DOMAIN k \union moved |-> IF t \in moved THEN MoveOf(o, t).new ELSE k[t]]
    BY <2>4, <2>5 DEF MovedTo
  <2>7. g[Root] = o.merged /\ Root \in DOMAIN g
    <3>1. \A v \in o.moves : v.new \in 1 .. Len(made)
      BY <2>1 DEF OpRefs
    <3> QED
      BY <2>1, <2>2, <2>3, <2>5, <3>1, MovedToIs DEF Here
  <2>8. DOMAIN main'[Home] \subseteq DOMAIN g
    <3>1. main'[Home] = MovedTo(o, main[Home])
      BY <1>1, <1>4, <2>1, <2>2 DEF Inv, TypeOK
    <3>2. DOMAIN main'[Home] = DOMAIN main[Home] \union moved
      BY <2>4, <3>1 DEF MovedTo
    <3> QED
      BY <1>4, <2>3, <2>6, <3>2 DEF Whereabouts, InStep
  <2>9. PICK index : index = Index(o.merged) /\ index = Index(o.merged)' /\ index[Root] = o.merged
    BY <1>1, <2>1, <2>2, IndexIs DEF Index
  <2>10. ASSUME NEW t \in DOMAIN index PROVE t \in DOMAIN g /\ Ancestor(index[t], g[t])'
    <3>1. \A b, d : Ancestor(b, d)' <=> Ancestor(b, d)
      BY <1>1 DEF Ancestor, Behind
    <3>2. PICK b : b = index[t]
      OBVIOUS
    <3>3. CASE t = Root
      <4>1. Ancestor(o.merged, o.merged)
        BY <2>1, <2>2, IndexIs, AncestorIs
      <4> QED
        BY <2>7, <2>9, <3>1, <3>3, <4>1
    <3>4. CASE t # Root
      <4>1. Reaches(p, t, b)
        BY <1>4, <2>1, <2>9, <3>2, <3>4 DEF Whereabouts, Placed
      <4>2. CASE t \in moved
        <5>1. PICK v \in o.moves : v.tracker = t
          BY <2>4, <4>2
        <5>2. PICK u \in o.moves : u = MoveOf(o, t) /\ u.tracker = t
          BY <5>1, MoveOfIs
        <5>3. t \in DOMAIN g /\ g[t] = u.new /\ Ancestor(b, u.new)
          BY <2>1, <2>6, <4>1, <4>2, <5>2 DEF Reaches
        <5> QED
          BY <3>1, <3>2, <5>3
      <4>3. CASE t \notin moved
        <5>1. t \in DOMAIN k /\ Ancestor(b, k[t])
          BY <2>1, <2>3, <2>4, <4>1, <4>3 DEF Reaches
        <5>2. t \in DOMAIN g /\ g[t] = k[t]
          BY <2>6, <4>3, <5>1
        <5> QED
          BY <3>1, <3>2, <5>1, <5>2
      <4> QED
        BY <4>2, <4>3
    <3> QED
      BY <3>3, <3>4
  <2>11. Pinned(g[Root], g)'
    BY <2>7, <2>9, <2>10 DEF Pinned
  <2>12. InStep'
    BY <2>5, <2>8, <2>11 DEF InStep
  <2> QED
    BY <1>1, <1>2, <1>4, <2>12, KeptPlaces
<1> QED
  BY <1>3, <1>4

-----------------------------------------------------------------------------
(* A project is created on its remote.                                     *)

LEMMA CreateReadPlaces ==
    ASSUME Inv, Inv', Whereabouts, NEW p \in Process, CreateRead(p)
    PROVE  Whereabouts'
<1>1. /\ Graph(made) /\ TypeOK /\ MainRefs /\ Home \in Range(Host)
  BY HostIs DEF Inv, Refs
<1>2. PICK fetched, index :
              /\ fetched = Fetched(Host[p]) /\ index = Index(At(fetched, Root))
              /\ op[p].at = "create"
              /\ main' = [main EXCEPT ![Host[p]] = fetched]
              /\ \/ Stop(p)
                 \/ /\ ~RefusedTrackers(Mains(fetched, index), DOMAIN Mains(fetched, index))
                    /\ Becomes(p, [op[p] EXCEPT !.base = index, !.heads = Mains(fetched, index), !.at = "seeds",
                                                !.todo = InOrder(DOMAIN Mains(fetched, index))])
              /\ UNCHANGED <<made, inst, kept, has, linked, remote, repo, fork, follows, acked>>
  BY CreateReadIs, Zenon
<1>3. UNCHANGED <<made, kept, linked, list, stored, repo, fork>> /\ ~linked /\ ~Idle(p)
  BY <1>2, HereOnly DEF remote, Idle
<1>4. PICK o : o = op[p] /\ o \in Op /\ Host[p] = Home
  BY <1>3, Busied
<1>5. DOMAIN main'[Home] \subseteq DOMAIN main[Home] \union DOMAIN kept[Home]
  BY <1>1, <1>2, <1>4, FetchedNames
<1>6. CASE Stop(p)
  BY <1>2, <1>3, <1>5, <1>6, StopsPlaced, CommandPlaces
<1>7. PICK mains, todo : mains = Mains(fetched, index) /\ todo = InOrder(DOMAIN mains)
  OBVIOUS
<1>8. PICK next : next = [o EXCEPT !.base = index, !.heads = mains, !.at = "seeds", !.todo = todo]
  OBVIOUS
<1>9. CASE Becomes(p, next)
  <2>1. PICK k : k = kept[Home] /\ Root \in DOMAIN k /\ Tree(k)
    BY <1>1, <1>3, Busied DEF Here, MainRefs
  <2>2. /\ fetched \in Pins /\ Tree(fetched) /\ DOMAIN k \subseteq DOMAIN fetched
        /\ \A t \in DOMAIN k : fetched[t] = k[t]
    BY <1>1, <1>2, <1>4, <2>1, FetchedIs
  <2>3. PICK r \in Roots : r = k[Root] /\ r = At(fetched, Root)
    BY <2>1, <2>2 DEF Tree, At
  <2>4. mains \in Pins /\ DOMAIN mains = DOMAIN index /\ index = Index(r)
    BY <1>1, <1>2, <1>7, <2>2, <2>3, MainsIs
  <2>5. Range(todo) = DOMAIN index
    BY <1>7, <2>4, InOrderIs, PinsOf
  <2>6. Pinned(r, k)
    <3>1. \A q \in Process : op[q].at # "children"
      BY <1>2, <1>3, Busied DEF AtHome, Idle
    <3> QED
      BY <1>3, <2>1, <2>3, <3>1 DEF Whereabouts, InStep, Here
  <2>7. ASSUME NEW t \in DOMAIN index PROVE Ancestor(index[t], mains[t])'
    <3>1. t \in DOMAIN k /\ Ancestor(index[t], k[t])
      BY <2>4, <2>6 DEF Pinned
    <3>2. k[t] # 0
      <4>1. k[t] \in 1 .. Len(made) /\ Len(made) \in Nat
        BY <1>1, <2>1, <3>1 DEF Tree, Names, NamesIn, Graph
      <4> QED
        BY <4>1
    <3>3. t \in DOMAIN fetched /\ fetched[t] = k[t]
      BY <2>2, <3>1
    <3>4. mains[t] = k[t]
      BY <1>7, <3>2, <3>3 DEF Mains, At
    <3>5. \A b, d : Ancestor(b, d)' <=> Ancestor(b, d)
      BY <1>3 DEF Ancestor, Behind
    <3> QED
      BY <3>1, <3>4, <3>5
  <2>8. next.at = "seeds" /\ next.heads = mains /\ next.base = index /\ next.todo = todo
    BY <1>4, <1>8 DEF Op
  <2>9. op'[p] = next /\ Others(p)
    BY <1>9, BecomesThen
  <2>10. Placed(p)'
    BY <2>5, <2>7, <2>8, <2>9 DEF Placed
  <2> QED
    BY <1>2, <1>3, <1>5, <2>9, <2>10, CommandPlaces
<1> QED
  BY <1>2, <1>4, <1>6, <1>7, <1>8, <1>9

LEMMA CreateSeedPlaces ==
    ASSUME Inv, Inv', Whereabouts, NEW p \in Process, CreateSeed(p)
    PROVE  Whereabouts'
<1>1. /\ op[p].at = "seeds" /\ op[p].todo # <<>> /\ ~linked /\ ~Idle(p)
      /\ UNCHANGED <<made, main, kept, linked, list, stored, fork>>
  BY HereOnly DEF CreateSeed, local, remote, Idle
<1>2. PICK o \in Op : /\ o = op[p] /\ OpRefs(p) /\ RunsHere(p)
                      /\ DOMAIN o.heads = DOMAIN o.base /\ Range(o.todo) \subseteq DOMAIN o.base
  BY <1>1, Busied DEF RunsHere
<1>3. PICK t : t = Head(o.todo) /\ t \in DOMAIN o.heads /\ Range(o.todo) = {t} \union Range(Tail(o.todo))
  <2>1. o.todo \in Seq(Tracker) /\ o.todo # <<>>
    BY <1>1, <1>2 DEF Op
  <2>2. PICK t : t = Head(o.todo)
    OBVIOUS
  <2>3. Range(o.todo) = {t} \union Range(Tail(o.todo))
    BY <2>1, <2>2, HeadTailIs
  <2> QED
    BY <1>2, <2>2, <2>3
<1>4. PICK c : c = o.heads[t]
  OBVIOUS
<1>5. c \in 1 .. Len(made) /\ Graph(made)
  BY <1>1, <1>2, <1>3, <1>4 DEF OpRefs, Names, NamesIn, Inv
<1>6. PICK r : r = IF t \in DOMAIN repo THEN repo[t] ELSE NewRepo
  OBVIOUS
<1>7. PICK s : s = [r EXCEPT !.main = c, !.holds = @ \union Behind(c)]
  OBVIOUS
<1>8. PICK next : next = [o EXCEPT !.todo = Tail(@)]
  OBVIOUS
<1>9. repo' = Put(repo, t, s) /\ Becomes(p, next)
  BY <1>2, <1>3, <1>4, <1>6, <1>7, <1>8 DEF CreateSeed
<1>10. Held' /\ Keeps /\ t \in DOMAIN repo' /\ Behind(c) \subseteq repo'[t].holds
  <2>1. Seeds(t, c)
    BY <1>6, <1>7, <1>9 DEF Seeds
  <2> QED
    BY <1>1, <1>5, <2>1, SeedHeld
<1>11. /\ next.at = "seeds" /\ next.base = o.base /\ next.heads = o.heads /\ next.todo = Tail(o.todo)
  BY <1>1, <1>2, <1>8 DEF Op
<1>12. op'[p] = next /\ Others(p)
  BY <1>9, BecomesThen
<1>13. ASSUME NEW u \in DOMAIN o.base
       PROVE  /\ Ancestor(o.base[u], o.heads[u])'
              /\ u \notin Range(Tail(o.todo)) => o.base[u] \in repo'[u].holds
  <2>1. \A b, d : Ancestor(b, d)' <=> Ancestor(b, d)
    BY <1>1 DEF Ancestor, Behind
  <2>2. Ancestor(o.base[u], o.heads[u]) /\ (u \notin Range(o.todo) => o.base[u] \in repo[u].holds)
    BY <1>1, <1>2 DEF Whereabouts, Placed
  <2>3. CASE u = t
    BY <1>4, <1>10, <2>1, <2>2, <2>3 DEF Ancestor
  <2>4. CASE u # t /\ u \notin Range(Tail(o.todo))
    <3>1. u \notin Range(o.todo)
      BY <1>3, <2>4
    <3>2. u \in DOMAIN repo /\ o.base[u] \in repo[u].holds
      BY <1>1, <1>2, <2>2, <3>1 DEF RunsHere
    <3> QED
      BY <1>10, <2>1, <2>2, <3>2 DEF Keeps
  <2> QED
    BY <2>1, <2>2, <2>3, <2>4
<1>14. Placed(p)'
  BY <1>11, <1>12, <1>13 DEF Placed
<1>15. Grows(made, made') /\ Forward'
  BY <1>1, SameGrows, SameForward DEF Inv, Whereabouts, Roots
<1> QED
  BY <1>1, <1>10, <1>12, <1>14, <1>15, PlacesStep

LEMMA CreateBranchPlaces ==
    ASSUME Inv, Inv', Whereabouts, NEW p \in Process, CreateBranch(p)
    PROVE  Whereabouts'
<1>1. /\ op[p].at = "seeds" /\ op[p].todo = <<>> /\ ~linked /\ ~Idle(p) /\ linked' = TRUE
      /\ Stop(p) /\ list' = op[p].base
      /\ UNCHANGED <<made, stored, repo, fork>>
  BY HereOnly DEF CreateBranch, Idle
<1>2. PICK o : o = op[p] /\ RunsHere(p) /\ AtHome /\ o.at = "seeds" /\ o.todo = <<>>
  BY <1>1, Busied
<1>3. Range(o.todo) = {}
  BY <1>2, NothingToDo
<1>4. \A t \in DOMAIN list' : list'[t] \in repo'[t].holds
  BY <1>1, <1>2, <1>3 DEF Whereabouts, Placed
<1>5. Grows(made, made') /\ Forward'
  BY <1>1, SameGrows, SameForward DEF Inv, Whereabouts, Roots
<1>6. Held'
  <2>1. Keeps
    BY <1>1 DEF Keeps
  <2>2. \A t \in DOMAIN repo' : t \in DOMAIN repo /\ repo'[t].holds = repo[t].holds
    BY <1>1
  <2> QED
    BY <1>1, <1>4, <1>5, <2>1, <2>2, HeldStep DEF Whereabouts
<1>7. InStep'
  BY <1>1 DEF InStep
<1>8. ASSUME NEW q \in Process PROVE Placed(q)'
  <2>1. CASE q = p
    BY <1>1, <2>1, StopsPlaced
  <2>2. CASE q # p
    <3>1. op'[q].at = "idle"
      BY <1>1, <1>2, <2>2, StopsPlaced DEF AtHome, Others, Idle
    <3> QED
      BY <3>1 DEF Placed
  <2> QED
    BY <2>1, <2>2
<1> QED
  BY <1>5, <1>6, <1>7, <1>8 DEF Whereabouts

-----------------------------------------------------------------------------
(* Every step, and what is named.                                          *)

LEMMA StepPlaces ==
    ASSUME Inv, Inv', Whereabouts, NEW p \in Process, Step(p)
    PROVE  Whereabouts'
<1>1. CASE PublishRead(p) \/ PublishNext(p) \/ PublishEnd(p)
  BY <1>1, PublishReadPlaces, PublishNextPlaces, PublishEndPlaces
<1>2. CASE MergeRead(p) \/ MergeFetch(p) \/ MergeMake(p)
  BY <1>2, MergeReadPlaces, MergeFetchPlaces, MergeMakePlaces
<1>3. CASE MergeSeed(p) \/ MergeBegin(p) \/ MirrorLand(p)
  BY <1>3, MergeSeedPlaces, MergeBeginPlaces, MirrorLandPlaces
<1>4. CASE LandNext(p) \/ Finish(p)
  BY <1>4, LandNextPlaces, FinishPlaces
<1>5. CASE LocalRoot(p) \/ LocalKeep(p) \/ LocalEnd(p)
  BY <1>5, LocalRootPlaces, LocalKeepPlaces, LocalEndPlaces
<1>6. CASE CreateRead(p) \/ CreateSeed(p) \/ CreateBranch(p)
  BY <1>6, CreateReadPlaces, CreateSeedPlaces, CreateBranchPlaces
<1> QED
  BY <1>1, <1>2, <1>3, <1>4, <1>5, <1>6 DEF Step

LEMMA WhereaboutsNext ==
    ASSUME Inv, Inv', Whereabouts, ~Sideways, MaxKill[FALSE] = 0, [Next]_vars
    PROVE  Whereabouts'
<1>1. ASSUME NEW p \in Process, Command(p) PROVE Whereabouts'
  BY <1>1, BeginPlaces, MirrorPullPlaces DEF Command, Push, ProjectPush
<1>2. ASSUME NEW p \in Process, Work(p) PROVE Whereabouts'
  <2>1. CASE Edit(p) \/ TakeIn(p) \/ SpawnFrom(p) \/ Kill(p)
    BY <2>1, EditPlaces, TakeInPlaces, SpawnPlaces, KillPlaces
  <2>2. CASE \E t \in Children : Pull(p, t)
    BY <2>2, PullPlaces
  <2> QED
    BY <1>2, <2>1, <2>2 DEF Work
<1>3. CASE UNCHANGED vars
  <2>1. UNCHANGED <<made, main, kept, linked, list, stored, repo, fork, op>>
    BY <1>3 DEF vars, remote, local
  <2>2. Grows(made, made') /\ Forward'
    BY <2>1, SameGrows, SameForward DEF Inv, Whereabouts, Roots
  <2> QED
    BY <2>1, <2>2, WorkPlaces
<1>4. CASE \E p \in Process : Step(p)
  BY <1>4, StepPlaces
<1>5. CASE \E f \in follows : Follow(f)
  BY <1>5, FollowPlaces
<1>6. CASE \E t \in Updates : Update(t)
  BY <1>6, UpdatePlaces
<1> QED
  BY <1>1, <1>2, <1>3, <1>4, <1>5, <1>6 DEF Next

LEMMA InitWhereabouts == ASSUME Init PROVE Whereabouts
<1>1. PICK one, two : /\ made = <<one, two>>
                      /\ two.behind = {2} /\ two.pins = [a |-> 1, root |-> 2]
                      /\ one.pins = <<>> /\ one.behind = {1}
  BY DEF Init
<1>2. Len(made) = 2 /\ made[1] = one /\ made[2] = two /\ 1 .. Len(made) = {1, 2}
  BY <1>1
<1>3. Behind(2) = {2} /\ Behind(1) = {1}
  BY <1>1, <1>2 DEF Behind
<1>4. Roots = {2}
  BY <1>1, <1>2, NoPins DEF Roots, RootsOf, Root
<1>5. PICK index : index = Index(2) /\ DOMAIN index = {"a", "root"} /\ index["a"] = 1 /\ index[Root] = 2
  BY <1>1, <1>2 DEF Index, Root
<1>6. \A t \in DOMAIN index : index[t] \in {1, 2} /\ Ancestor(index[t], index[t]) /\ Behind(index[t]) = {index[t]}
  BY <1>3, <1>5 DEF Ancestor, Root
<1>7. /\ main = [m \in Range(Host) |-> IF \E p \in Process : Host[p] = m /\ inst[p].head # 0
                                       THEN index ELSE <<>>]
      /\ kept = main /\ stored = {}
      /\ list = IF linked THEN index ELSE <<>>
      /\ op = [p \in Process |-> NoOp]
      /\ repo = IF linked THEN [t \in {"a", Root} |-> [NewRepo EXCEPT !.main = index[t], !.holds = {index[t]}]]
                ELSE <<>>
  BY <1>5 DEF Init
<1>8. DOMAIN <<>> = {}
  BY NoPins
<1>9. Forward
  BY <1>3, <1>4, <1>5, <1>6 DEF Forward, Covers
<1>10. ASSUME linked, NEW t \in DOMAIN index PROVE t \in DOMAIN repo /\ repo[t].holds = {index[t]}
  <2>1. DOMAIN repo = {"a", Root} /\ t \in {"a", Root}
    BY <1>5, <1>7, <1>10 DEF Root
  <2>2. PICK c : c = index[t]
    OBVIOUS
  <2>3. repo[t] = [NewRepo EXCEPT !.main = c, !.holds = {c}]
    BY <1>7, <1>10, <2>1, <2>2
  <2>4. repo[t].holds = {c}
    BY <2>3 DEF NewRepo
  <2> QED
    BY <2>1, <2>2, <2>4
<1>11. linked => DOMAIN repo = DOMAIN index
  BY <1>5, <1>7 DEF Root
<1>12. Held
  <2>1. ASSUME NEW t \in DOMAIN repo, NEW c \in repo[t].holds PROVE Behind(c) \subseteq repo[t].holds
    <3>1. linked
      BY <1>7, <1>8, <2>1
    <3>2. repo[t].holds = {index[t]} /\ t \in DOMAIN index
      BY <1>10, <1>11, <3>1
    <3> QED
      BY <1>6, <3>2
  <2>2. \A t \in DOMAIN list : list[t] \in repo[t].holds
    BY <1>7, <1>8, <1>10
  <2> QED
    BY <1>7, <2>1, <2>2 DEF Held
<1>13. InStep
  <2>1. Home \in Range(Host)
    BY RemoteAssumption
  <2>2. PICK k : k = kept[Home] /\ main[Home] = k /\ k \in {index, <<>>}
    BY <1>7, <2>1
  <2>3. Here(k) => k = index
    BY <1>8, <2>2 DEF Here
  <2>4. Pinned(2, index)
    BY <1>5, <1>6 DEF Pinned
  <2> QED
    BY <1>5, <2>2, <2>3, <2>4 DEF InStep
<1>14. \A p \in Process : Placed(p)
  BY <1>7, PlacedNothing DEF NoOp
<1> QED
  BY <1>9, <1>12, <1>13, <1>14 DEF Whereabouts

\* Every commit `main` names is in its tracker's repo, and every one that a
\* checkpoint on the remote names is there or in its author's fork: objects go
\* before what names them, and what need not be sent is there, whatever lands
\* and follows between.  Not so where a pull of a tracker left commits behind,
\* or a merge died between root's branch and its children's before the project
\* was on its remote: then root pins what no repo need hold.
THEOREM NamedAreThere ==
    ASSUME OneAtATime, ~Sideways, MaxKill[FALSE] = 0
    PROVE  Spec => []NamedIsThere
<1>1. Init => Whereabouts
  BY InitWhereabouts
<1>2. Inv /\ Inv' /\ Whereabouts /\ [Next]_vars => Whereabouts'
  BY WhereaboutsNext
<1>3. Whereabouts => NamedIsThere
  BY DEF Whereabouts, Held, Recorded, There, NamedIsThere
<1> QED
  BY <1>1, <1>2, <1>3, RemoteInv, PTL DEF Spec
=============================================================================

------------------------ MODULE StrategyBundleProofs ------------------------
(* What becomes of a bundle, whatever directory, archive, limits, names and  *)
(* versions it was made of.                                                 *)
(*                                                                          *)
(* A bundle that passed the checks extracts the same way anywhere: the      *)
(* checks speak of pairs of files, and that their directories do not meet   *)
(* either is proved of paths (NothingMeets).  For the rest the invariant is *)
(* that of the walk (WalkInv: nothing found is left out, what is counted is *)
(* at most what is found, a file that was not read breaks a limit) and of   *)
(* the wire (WireInv).  A list in order is unique (OneListing), sums do not *)
(* depend on the order they are made in (TotalIs), and both are shown with  *)
(* a least counterexample among the finite sets (SmallestOf).               *)
EXTENDS StrategyBundle, FiniteSetTheorems, SequenceTheorems, WellFoundedInduction, TLAPS

-----------------------------------------------------------------------------
(* The invariant.                                                           *)

Names == DOMAIN Folded

Collectable ==
    /\ IsFiniteSet(DOMAIN tree) /\ DOMAIN tree \subseteq Seq(Names)
    /\ walk = [todo |-> walk.todo, reading |-> walk.reading, found |-> walk.found,
               links |-> walk.links, total |-> walk.total, rewrites |-> walk.rewrites,
               shrank |-> walk.shrank]
    /\ walk.todo \in Seq(DOMAIN tree)
    /\ walk.reading \in DOMAIN tree \cup {NoPath}
    /\ DOMAIN walk.found \subseteq DOMAIN tree

OnTheWire ==
    \A i \in DOMAIN wire.entries : wire.entries[i].path \in Seq(Names)

\* What was told of a bundle is so of what was collected and of what was read.
TruthfullyTold ==
    /\ told = [client |-> told.client, server |-> told.server, admitted |-> told.admitted]
    /\ told.client = {} => Checked(walk.found, limits) = {}
    /\ told.server = {} => Checked(Entries(wire), limits) = {}
    /\ told.server # Untold => wire # NoArchive

BundleInv == Collectable /\ OnTheWire /\ TruthfullyTold

-----------------------------------------------------------------------------
(* Paths.                                                                   *)

\* A directory of a path is a path, shorter than it.
LEMMA DirectoryIs ==
    ASSUME NEW S, NEW q \in Seq(S), NEW d \in Directories(q)
    PROVE  /\ d \in Seq(S) /\ Len(d) < Len(q)
           /\ \A i \in 1..Len(d) : d[i] = q[i]
<1>1. PICK n \in 1..(Len(q) - 1) : d = SubSeq(q, 1, n)
  BY DEF Directories
<1>2. Len(q) \in Nat /\ n \in Nat /\ n < Len(q) /\ n >= 1
  OBVIOUS
<1>3. d \in Seq(S) /\ Len(d) = n
  BY <1>1, <1>2
<1>4. \A i \in 1..n : d[i] = q[i]
  BY <1>1, <1>2
<1> QED BY <1>2, <1>3, <1>4

\* A spelling is as long as what it spells.
LEMMA FoldIs ==
    ASSUME NEW S, NEW p \in Seq(S)
    PROVE  /\ Fold(p) \in Seq({Folded[n] : n \in S}) /\ Len(Fold(p)) = Len(p)
           /\ \A i \in 1..Len(p) : Fold(p)[i] = Folded[p[i]]
<1>1. Len(p) \in Nat /\ DOMAIN p = 1..Len(p) /\ \A i \in 1..Len(p) : p[i] \in S
  OBVIOUS
<1>2. Fold(p) \in [1..Len(p) -> {Folded[n] : n \in S}]
  BY <1>1 DEF Fold
<1>3. Fold(p) \in Seq({Folded[n] : n \in S}) /\ Len(Fold(p)) = Len(p)
  BY <1>1, <1>2
<1> QED BY <1>1, <1>3 DEF Fold

\* What is in the place of a directory collides with the files in it.
LEMMA DirectoryCollides ==
    ASSUME NEW S, NEW p \in Seq(S), NEW q \in Seq(S), NEW d \in Directories(q),
           Fold(p) = Fold(d)
    PROVE  Collide(p, q)
<1>1. d \in Seq(S) /\ Len(d) < Len(q) /\ \A i \in 1..Len(d) : d[i] = q[i]
  BY DirectoryIs
<1>2. /\ Len(Fold(p)) = Len(p) /\ Len(Fold(d)) = Len(d) /\ Len(Fold(q)) = Len(q)
      /\ \A i \in 1..Len(d) : Fold(d)[i] = Folded[d[i]]
      /\ \A i \in 1..Len(q) : Fold(q)[i] = Folded[q[i]]
      /\ Len(d) \in Nat /\ Len(q) \in Nat
  <2>1. Len(Fold(p)) = Len(p)
    BY FoldIs
  <2>2. Len(Fold(d)) = Len(d) /\ \A i \in 1..Len(d) : Fold(d)[i] = Folded[d[i]]
    BY <1>1, FoldIs
  <2>3. Len(Fold(q)) = Len(q) /\ \A i \in 1..Len(q) : Fold(q)[i] = Folded[q[i]]
    BY FoldIs
  <2> QED BY <1>1, <2>1, <2>2, <2>3
<1>3. PICK T : T = {Folded[n] : n \in S}
  OBVIOUS
<1>4. Fold(d) \in Seq(T) /\ Fold(q) \in Seq(T)
  BY <1>1, <1>3, FoldIs
<1>5. SubSeq(Fold(d), 1, Len(d)) = SubSeq(Fold(q), 1, Len(d))
  <2>1. PICK a, b : a = Fold(d) /\ b = Fold(q)
    OBVIOUS
  <2>2. /\ a \in Seq(T) /\ b \in Seq(T) /\ Len(a) = Len(d) /\ Len(b) = Len(q)
        /\ \A i \in 1..Len(d) : a[i] = b[i]
    BY <1>1, <1>2, <1>4, <2>1
  <2>3. SubSeq(a, 1, Len(d)) = SubSeq(b, 1, Len(d))
    BY <1>1, <1>2, <2>2
  <2> QED BY <2>1, <2>3
<1>6. IsStrictPrefix(Fold(p), Fold(q))
  BY <1>1, <1>2, <1>5 DEF IsStrictPrefix, IsPrefix
<1> QED BY <1>6 DEF Collide

\* Files that do not collide make a tree that a filesystem that ignores case
\* does not change.
LEMMA NothingMeets ==
    ASSUME NEW S, NEW files \in SUBSET Seq(S),
           \A p, q \in files : ~Collide(p, q)
    PROVE  LET dirs == UNION {Directories(p) : p \in files}
           IN  files \cap dirs = {} /\ \A p, q \in files \cup dirs : Fold(p) = Fold(q) => p = q
<1> DEFINE dirs == UNION {Directories(p) : p \in files}
<1>1. ASSUME NEW p \in files, NEW d \in dirs
      PROVE  Fold(p) # Fold(d)
  BY <1>1, DirectoryCollides
<1>2. files \cap dirs = {}
  BY <1>1
<1>3. ASSUME NEW p \in files, NEW q \in files, Fold(p) = Fold(q)
      PROVE  p = q
  BY <1>3 DEF Collide, DifferInCaseOnly
<1>4. ASSUME NEW d \in dirs, NEW e \in dirs, Fold(d) = Fold(e)
      PROVE  d = e
  <2>1. PICK p \in files, q \in files : d \in Directories(p) /\ e \in Directories(q)
    OBVIOUS
  <2> QED BY <1>4, <2>1 DEF Collide, DifferInCaseOnly
<1>5. ASSUME NEW p \in files \cup dirs, NEW q \in files \cup dirs, Fold(p) = Fold(q)
      PROVE  p = q
  BY <1>1, <1>3, <1>4, <1>5
<1> QED BY <1>2, <1>5

\* A bundle without problems has no two files that collide.
LEMMA PassedDoNotCollide ==
    ASSUME NEW found, NEW lim, Checked(found, lim) = {},
           NEW p \in ValidPaths(found), NEW q \in ValidPaths(found)
    PROVE  ~Collide(p, q)
<1> SUFFICES ASSUME Collide(p, q) PROVE FALSE
  OBVIOUS
<1>1. <<p, q>> \in {x \in ValidPaths(found) \X ValidPaths(found) : Collide(x[1], x[2])}
  OBVIOUS
<1>2. "path_collision" \in FileProblems(found, lim)
  <2>1. "path_collision" \in
          {"path_collision" :
             pq \in {x \in ValidPaths(found) \X ValidPaths(found) : Collide(x[1], x[2])}}
    BY <1>1
  <2> QED BY <2>1 DEF FileProblems
<1> QED BY <1>2 DEF Checked

-----------------------------------------------------------------------------
(* The steps.                                                               *)

\* Some of the directory's paths, in either order, make a sequence of them.
LEMMA ListedIs ==
    ASSUME Collectable, NEW paths \in SUBSET DOMAIN tree,
           NEW list \in Listings(paths, Before) \cup Listings(paths, MetBefore)
    PROVE  list \in Seq(paths)
<1>1. Cardinality(paths) \in Nat
  BY FS_Subset, FS_CardinalityType DEF Collectable
<1>2. list \in [1..Cardinality(paths) -> paths]
  BY DEF Listings
<1> QED BY <1>1, <1>2

\* An archive of files has their paths, and so has whatever becomes of it on
\* its way.
LEMMA MangledIs ==
    ASSUME NEW files, NEW paths, paths \subseteq Seq(Names), NEW list \in Seq(paths),
           NEW a, a = Written(files, list), NEW b \in {a} \cup Mangled(a)
    PROVE  \A i \in DOMAIN b.entries : b.entries[i].path \in Seq(Names)
<1>1. /\ a = [entries |-> a.entries, zeros |-> a.zeros, ragged |-> a.ragged]
      /\ a.entries = [i \in 1..Len(list) |-> EntryOf(files, list[i])]
      /\ Len(list) \in Nat
      /\ \A i \in 1..Len(list) : list[i] \in Seq(Names)
  <2>1. /\ Len(list) \in Nat /\ DOMAIN list = 1..Len(list)
        /\ \A i \in 1..Len(list) : list[i] \in paths
    OBVIOUS
  <2>2. a = [entries |-> [i \in 1..Len(list) |-> EntryOf(files, list[i])],
             zeros |-> 2, ragged |-> 0]
    BY <2>1 DEF Written
  <2> QED BY <2>1, <2>2
<1>2. PICK n \in Nat : n = Len(list)
  BY <1>1
<1>3. PICK es : es = a.entries
  OBVIOUS
<1>4. /\ DOMAIN es = 1..n
      /\ \A i \in 1..n : /\ es[i].path \in Seq(Names)
                         /\ es[i] = [path |-> es[i].path, size |-> es[i].size,
                                     content |-> es[i].content, header |-> es[i].header,
                                     padding |-> es[i].padding]
  BY <1>1, <1>2, <1>3 DEF EntryOf
<1>5. CASE b = a \/ b.entries = a.entries
  BY <1>3, <1>4, <1>5
<1>6. ASSUME NEW i \in 1..n, b.entries = [es EXCEPT ![i].header = "other"]
             \/ b.entries = [es EXCEPT ![i].padding = "dirty"]
      PROVE  \A j \in DOMAIN b.entries : b.entries[j].path \in Seq(Names)
  <2>1. DOMAIN b.entries = 1..n /\ \A j \in (1..n) \ {i} : b.entries[j] = es[j]
    BY <1>4, <1>6
  <2>2. PICK e : e = es[i] /\ e = [path |-> e.path, size |-> e.size, content |-> e.content,
                                   header |-> e.header, padding |-> e.padding]
    BY <1>4
  <2>3. b.entries[i] = [e EXCEPT !.header = "other"] \/ b.entries[i] = [e EXCEPT !.padding = "dirty"]
    BY <1>4, <1>6, <2>2
  <2>4. b.entries[i].path = es[i].path
    BY <2>2, <2>3
  <2> QED BY <1>4, <2>1, <2>4
<1>7. ASSUME NEW i \in 1..n, b.entries = Append(es, es[i])
      PROVE  \A j \in DOMAIN b.entries : b.entries[j].path \in Seq(Names)
  <2>1. PICK T : T = {es[j] : j \in 1..n}
    OBVIOUS
  <2>2. es \in Seq(T)
    <3>1. es \in [1..n -> T]
      BY <1>1, <1>2, <1>3, <2>1
    <3> QED BY <3>1
  <2>3. Append(es, es[i]) \in Seq(T)
    BY <2>1, <2>2
  <2>4. \A j \in DOMAIN b.entries : b.entries[j] \in T
    BY <1>7, <2>3
  <2> QED BY <1>4, <2>1, <2>4
<1>8. CASE b \in Mangled(a)
  <2>1. \/ \E m \in {1, 3} : b = [a EXCEPT !.zeros = m]
        \/ b = [a EXCEPT !.ragged = 1]
        \/ \E i \in 1..n : \/ b = [a EXCEPT !.entries[i].header = "other"]
                           \/ b = [a EXCEPT !.entries[i].padding = "dirty"]
                           \/ b = [a EXCEPT !.entries = Append(@, a.entries[i])]
    BY <1>3, <1>4, <1>8 DEF Mangled
  <2>2. ASSUME NEW i \in 1..n, b = [a EXCEPT !.entries[i].header = "other"]
                               \/ b = [a EXCEPT !.entries[i].padding = "dirty"]
        PROVE  \A j \in DOMAIN b.entries : b.entries[j].path \in Seq(Names)
    <3>1. \/ b.entries = [es EXCEPT ![i].header = "other"]
          \/ b.entries = [es EXCEPT ![i].padding = "dirty"]
      BY <1>1, <1>3, <2>2
    <3> QED BY <1>6, <3>1
  <2>3. ASSUME NEW i \in 1..n, b = [a EXCEPT !.entries = Append(@, a.entries[i])]
        PROVE  \A j \in DOMAIN b.entries : b.entries[j].path \in Seq(Names)
    <3>1. b.entries = Append(es, es[i])
      BY <1>1, <1>3, <2>3
    <3> QED BY <1>7, <3>1
  <2>4. CASE \/ \E m \in {1, 3} : b = [a EXCEPT !.zeros = m]
             \/ b = [a EXCEPT !.ragged = 1]
    <3>1. b.entries = a.entries
      BY <1>1, <2>4
    <3> QED BY <1>5, <3>1
  <2> QED BY <2>1, <2>2, <2>3, <2>4
<1> QED BY <1>5, <1>8

\* One more file of the directory is found.
LEMMA FoundIs ==
    ASSUME Collectable, NEW p \in DOMAIN tree, NEW size, NEW content
    PROVE  DOMAIN Found(p, size, content) \subseteq DOMAIN tree
<1>1. DOMAIN Found(p, size, content) = DOMAIN walk.found \cup {p}
  BY DEF Found
<1> QED BY <1>1 DEF Collectable

LEMMA RestIs ==
    ASSUME Collectable
    PROVE  DOMAIN RestOfWalk \subseteq DOMAIN tree
<1>1. CASE ManifestPath \in DOMAIN walk.found \/ ManifestPath \notin DOMAIN tree
           \/ ~Regular(ManifestPath)
  BY <1>1 DEF RestOfWalk, Collectable
<1>2. CASE ~(ManifestPath \in DOMAIN walk.found \/ ManifestPath \notin DOMAIN tree
             \/ ~Regular(ManifestPath))
  <2>1. PICK size, content : RestOfWalk = Found(ManifestPath, size, content)
    BY <1>2 DEF RestOfWalk
  <2> QED BY <1>2, <2>1, FoundIs
<1> QED BY <1>1, <1>2

\* While the client walks it has told nothing.
LEMMA WalkTells ==
    ASSUME BundleInv, Walking, UNCHANGED <<limits, wire, told>>
    PROVE  OnTheWire' /\ TruthfullyTold'
<1>1. told.client # {}
  BY DEF Walking, Untold
<1> QED BY <1>1 DEF BundleInv, OnTheWire, TruthfullyTold, Entries

LEMMA LookKeeps ==
    ASSUME BundleInv, Look
    PROVE  BundleInv'
<1>0. Collectable /\ Walking /\ UNCHANGED <<tree, limits, wire, told>>
  BY DEF BundleInv, Look
<1>1. PICK todo : todo = walk.todo /\ todo \in Seq(DOMAIN tree) /\ todo # << >>
  BY <1>0 DEF Collectable, Walking
<1>2. Head(todo) \in DOMAIN tree /\ Tail(todo) \in Seq(DOMAIN tree)
  BY <1>1, HeadTailProperties
<1>3. PICK p \in DOMAIN tree : p = Head(walk.todo)
  BY <1>1, <1>2
<1>4. PICK size : size = tree[p].size
  OBVIOUS
<1>5. \/ walk' = [walk EXCEPT !.todo = Tail(walk.todo), !.links = TRUE]
      \/ walk' = [walk EXCEPT !.todo = <<>>, !.found = RestOfWalk]
      \/ walk' = [walk EXCEPT !.total = @ + size, !.reading = p]
      \/ walk' = [walk EXCEPT !.todo = Tail(walk.todo), !.total = @ + size,
                              !.found = Found(p, size, Unread)]
  BY <1>0, <1>3, <1>4 DEF Look, Collectable
<1>6. /\ walk = [todo |-> walk.todo, reading |-> walk.reading, found |-> walk.found,
                 links |-> walk.links, total |-> walk.total, rewrites |-> walk.rewrites,
                 shrank |-> walk.shrank]
      /\ walk.reading \in DOMAIN tree \cup {NoPath} /\ DOMAIN walk.found \subseteq DOMAIN tree
      /\ IsFiniteSet(DOMAIN tree) /\ DOMAIN tree \subseteq Seq(Names)
  BY <1>0 DEF Collectable
<1>7. ASSUME walk' = [todo |-> walk'.todo, reading |-> walk'.reading, found |-> walk'.found,
                      links |-> walk'.links, total |-> walk'.total, rewrites |-> walk'.rewrites,
                      shrank |-> walk'.shrank],
             walk'.todo \in {walk.todo, Tail(walk.todo), << >>},
             walk'.reading \in {walk.reading, p}, DOMAIN walk'.found \subseteq DOMAIN tree
      PROVE  BundleInv'
  <2>1. walk'.todo \in Seq(DOMAIN tree) /\ walk'.reading \in DOMAIN tree \cup {NoPath}
    BY <1>1, <1>2, <1>6, <1>7, EmptySeq
  <2>2. Collectable'
    BY <1>0, <1>6, <1>7, <2>1 DEF Collectable
  <2> QED BY <1>0, <2>2, WalkTells DEF BundleInv
<1>8. CASE walk' = [walk EXCEPT !.todo = Tail(walk.todo), !.links = TRUE]
  BY <1>6, <1>7, <1>8
<1>9. CASE walk' = [walk EXCEPT !.todo = <<>>, !.found = RestOfWalk]
  <2>1. walk'.found = RestOfWalk
    BY <1>6, <1>9
  <2>2. DOMAIN walk'.found \subseteq DOMAIN tree
    BY <1>0, <2>1, RestIs
  <2> QED BY <1>6, <1>7, <1>9, <2>2
<1>10. CASE walk' = [walk EXCEPT !.total = @ + size, !.reading = p]
  BY <1>6, <1>7, <1>10
<1>11. CASE walk' = [walk EXCEPT !.todo = Tail(walk.todo), !.total = @ + size,
                                 !.found = Found(p, size, Unread)]
  <2>1. walk'.found = Found(p, size, Unread)
    BY <1>6, <1>11
  <2>2. DOMAIN walk'.found \subseteq DOMAIN tree
    BY <1>0, <2>1, FoundIs
  <2> QED BY <1>6, <1>7, <1>11, <2>2
<1> QED BY <1>5, <1>8, <1>9, <1>10, <1>11

LEMMA ReadKeeps ==
    ASSUME BundleInv, Read
    PROVE  BundleInv'
<1>0. Collectable /\ Walking /\ UNCHANGED <<tree, limits, wire, told>>
  BY DEF BundleInv, Read
<1>1. PICK todo : todo = walk.todo /\ todo \in Seq(DOMAIN tree) /\ todo # << >>
  BY <1>0 DEF Collectable, Walking
<1>2. Tail(walk.todo) \in Seq(DOMAIN tree)
  BY <1>1, HeadTailProperties
<1>3. walk.reading \in DOMAIN tree
  BY <1>0 DEF Collectable, Read
<1>4. PICK p \in DOMAIN tree : p = walk.reading
  BY <1>3
<1>5. PICK c : c = ReadAtMost(tree[p], limits)
  OBVIOUS
<1>6. walk' = [walk EXCEPT !.todo = Tail(walk.todo), !.reading = NoPath,
                           !.found = Found(p, c.size, c)]
  BY <1>0, <1>4, <1>5 DEF Read, Collectable
<1>7. /\ walk' = [todo |-> Tail(walk.todo), reading |-> NoPath, found |-> Found(p, c.size, c),
                  links |-> walk.links, total |-> walk.total, rewrites |-> walk.rewrites,
                  shrank |-> walk.shrank]
  BY <1>0, <1>6 DEF Collectable
<1>8. DOMAIN walk'.found \subseteq DOMAIN tree
  BY <1>0, <1>7, FoundIs
<1>9. Collectable'
  BY <1>0, <1>2, <1>7, <1>8 DEF Collectable
<1> QED BY <1>0, <1>9, WalkTells DEF BundleInv

LEMMA RewriteKeeps ==
    ASSUME BundleInv, Rewrite
    PROVE  BundleInv'
<1>0. Collectable /\ Walking /\ UNCHANGED <<limits, wire, told>>
  BY DEF BundleInv, Rewrite
<1>1. PICK p \in DOMAIN tree, size \in Rewrites :
        /\ tree' = [tree EXCEPT ![p].size = size]
        /\ walk' = [walk EXCEPT !.rewrites = @ + 1, !.shrank = @ \/ size < tree[p].size]
  BY DEF Rewrite
<1>2. DOMAIN tree' = DOMAIN tree
  BY <1>1
<1>3. /\ walk' = [todo |-> walk'.todo, reading |-> walk'.reading, found |-> walk'.found,
                  links |-> walk'.links, total |-> walk'.total, rewrites |-> walk'.rewrites,
                  shrank |-> walk'.shrank]
      /\ walk'.todo = walk.todo /\ walk'.reading = walk.reading /\ walk'.found = walk.found
  BY <1>0, <1>1 DEF Collectable
<1>4. Collectable'
  BY <1>0, <1>2, <1>3 DEF Collectable
<1> QED BY <1>0, <1>4, WalkTells DEF BundleInv

LEMMA BuildKeeps ==
    ASSUME BundleInv, Build
    PROVE  BundleInv'
<1>0. /\ Collectable /\ OnTheWire /\ TruthfullyTold /\ UNCHANGED <<tree, limits, walk, wire>>
      /\ told' = [told EXCEPT !.client = ClientProblems]
  BY DEF BundleInv, Build
<1>1. told' = [client |-> ClientProblems, server |-> told.server, admitted |-> told.admitted]
  BY <1>0 DEF TruthfullyTold
<1>2. ClientProblems = {} => Checked(walk.found, limits) = {}
  BY DEF ClientProblems
<1>3. Collectable' /\ OnTheWire'
  BY <1>0 DEF Collectable, OnTheWire
<1>4. Checked(walk.found, limits)' = Checked(walk.found, limits)
      /\ Checked(Entries(wire), limits)' = Checked(Entries(wire), limits)
  BY <1>0
<1>5. TruthfullyTold'
  BY <1>0, <1>1, <1>2, <1>4 DEF TruthfullyTold
<1> QED BY <1>3, <1>5 DEF BundleInv

\* The versions are of no concern to the files.
LEMMA VersionsKeep ==
    ASSUME BundleInv, UNCHANGED <<tree, limits, walk, wire, told>>
    PROVE  BundleInv'
<1>1. Collectable' /\ OnTheWire'
  BY DEF BundleInv, Collectable, OnTheWire
<1>2. Checked(walk.found, limits)' = Checked(walk.found, limits)
      /\ Checked(Entries(wire), limits)' = Checked(Entries(wire), limits)
  OBVIOUS
<1>3. TruthfullyTold'
  BY <1>2 DEF BundleInv, TruthfullyTold
<1> QED BY <1>1, <1>3 DEF BundleInv

\* An archive is sent once, before anything is told of it.
LEMMA SendKeeps ==
    ASSUME BundleInv, UNCHANGED <<tree, limits, walk, told>>, wire = NoArchive,
           \A i \in DOMAIN wire'.entries : wire'.entries[i].path \in Seq(Names)
    PROVE  BundleInv'
<1>1. told.server # {} /\ told.server = Untold
  BY DEF BundleInv, TruthfullyTold, Untold
<1>2. Checked(walk.found, limits)' = Checked(walk.found, limits)
  OBVIOUS
<1>3. TruthfullyTold'
  BY <1>1, <1>2 DEF BundleInv, TruthfullyTold
<1>4. Collectable' /\ OnTheWire'
  BY DEF BundleInv, Collectable, OnTheWire
<1> QED BY <1>3, <1>4 DEF BundleInv

LEMMA UploadKeeps ==
    ASSUME BundleInv, Upload
    PROVE  BundleInv'
<1>0. /\ Collectable /\ wire = NoArchive /\ UNCHANGED <<tree, limits, walk, told>>
  BY DEF BundleInv, Upload
<1>1. PICK files : files = Contents(walk.found, limits)
  OBVIOUS
<1>2. PICK list \in Listings(DOMAIN files, Before) :
        wire' \in {Written(files, list)} \cup Mangled(Written(files, list))
  BY <1>1 DEF Upload, Tars
<1>3. DOMAIN files \in SUBSET DOMAIN tree
  BY <1>0, <1>1 DEF Contents, Passed, ValidPaths, Collectable
<1>4. list \in Seq(DOMAIN files) /\ DOMAIN files \subseteq Seq(Names)
  BY <1>0, <1>3, ListedIs DEF Collectable
<1>5. \A i \in DOMAIN wire'.entries : wire'.entries[i].path \in Seq(Names)
  <2>1. PICK b : b = wire'
    OBVIOUS
  <2>2. \A i \in DOMAIN b.entries : b.entries[i].path \in Seq(Names)
    BY <1>2, <1>4, <2>1, MangledIs
  <2> QED BY <2>1, <2>2
<1> QED BY <1>0, <1>5, SendKeeps

LEMMA UploadUncheckedKeeps ==
    ASSUME BundleInv, UploadUnchecked
    PROVE  BundleInv'
<1>0. /\ Collectable /\ wire = NoArchive /\ UNCHANGED <<tree, limits, walk, told>>
  BY DEF BundleInv, UploadUnchecked
<1>1. PICK paths : paths = {p \in DOMAIN tree : Regular(p)}
  OBVIOUS
<1>2. PICK files : files = [p \in paths |-> tree[p]]
  OBVIOUS
<1>3. PICK list \in Listings(paths, Before) \cup Listings(paths, MetBefore) :
        wire' = Written(files, list)
  BY <1>1, <1>2 DEF UploadUnchecked
<1>4. paths \in SUBSET DOMAIN tree
  BY <1>1
<1>5. list \in Seq(paths) /\ paths \subseteq Seq(Names)
  BY <1>0, <1>4, ListedIs DEF Collectable
<1>6. \A i \in DOMAIN wire'.entries : wire'.entries[i].path \in Seq(Names)
  <2>1. PICK b : b = wire'
    OBVIOUS
  <2>2. b = Written(files, list)
    BY <1>3, <2>1
  <2>3. \A i \in DOMAIN b.entries : b.entries[i].path \in Seq(Names)
    BY <1>5, <2>2, MangledIs
  <2> QED BY <2>1, <2>3
<1> QED BY <1>0, <1>6, SendKeeps

LEMMA ReceiveKeeps ==
    ASSUME BundleInv, Receive
    PROVE  BundleInv'
<1>0. /\ Collectable /\ OnTheWire /\ TruthfullyTold /\ UNCHANGED <<tree, limits, walk, wire>>
      /\ wire # NoArchive
  BY DEF BundleInv, Receive
<1>1. PICK answer :
        /\ told' = [told EXCEPT !.server = answer]
        /\ answer = {} => Checked(Entries(wire), limits) = {}
  BY DEF Receive
<1>2. told' = [client |-> told.client, server |-> answer, admitted |-> told.admitted]
  BY <1>0, <1>1 DEF TruthfullyTold
<1>3. Collectable' /\ OnTheWire'
  BY <1>0 DEF Collectable, OnTheWire
<1>4. Checked(walk.found, limits)' = Checked(walk.found, limits)
      /\ Checked(Entries(wire), limits)' = Checked(Entries(wire), limits)
  BY <1>0
<1>5. TruthfullyTold'
  BY <1>0, <1>1, <1>2, <1>4 DEF TruthfullyTold
<1> QED BY <1>3, <1>5 DEF BundleInv

LEMMA AdmitKeeps ==
    ASSUME BundleInv, Admit
    PROVE  BundleInv'
<1>0. /\ Collectable /\ OnTheWire /\ TruthfullyTold /\ UNCHANGED <<tree, limits, walk, wire>>
  BY DEF BundleInv, Admit
<1>1. PICK answer : told' = [told EXCEPT !.admitted = answer]
  BY DEF Admit
<1>2. told' = [client |-> told.client, server |-> told.server, admitted |-> answer]
  BY <1>0, <1>1 DEF TruthfullyTold
<1>3. Collectable' /\ OnTheWire'
  BY <1>0 DEF Collectable, OnTheWire
<1>4. Checked(walk.found, limits)' = Checked(walk.found, limits)
      /\ Checked(Entries(wire), limits)' = Checked(Entries(wire), limits)
  BY <1>0
<1>5. TruthfullyTold'
  BY <1>0, <1>2, <1>4 DEF TruthfullyTold
<1> QED BY <1>3, <1>5 DEF BundleInv

LEMMA BundleStarts == BundleInit => BundleInv
<1> SUFFICES ASSUME BundleInit PROVE BundleInv
  OBVIOUS
<1>1. IsFiniteSet(DOMAIN tree) /\ DOMAIN tree \subseteq Seq(Names)
  BY BundleAssumption DEF BundleInit, Names
<1>2. PICK paths \in SUBSET DOMAIN tree :
        \E met \in Listings(paths, MetBefore) : walk = Start(met)
  BY DEF BundleInit
<1>2a. PICK met \in Listings(paths, MetBefore) : walk = Start(met)
  BY <1>2
<1>3. walk = [todo |-> met, reading |-> NoPath, found |-> <<>>, links |-> FALSE, total |-> 0,
              rewrites |-> 0, shrank |-> FALSE]
  BY <1>2a DEF Start
<1>4. met \in Seq(DOMAIN tree)
  <2>1. Cardinality(paths) \in Nat
    BY <1>1, FS_Subset, FS_CardinalityType
  <2>2. met \in [1..Cardinality(paths) -> DOMAIN tree]
    BY <1>2a DEF Listings
  <2> QED BY <2>1, <2>2
<1>5. Collectable
  BY <1>1, <1>3, <1>4 DEF Collectable
<1>6. OnTheWire /\ TruthfullyTold
  BY DEF BundleInit, OnTheWire, NoArchive, TruthfullyTold, Untold
<1> QED BY <1>5, <1>6 DEF BundleInv

-----------------------------------------------------------------------------
(* Theorems.                                                                *)

\* What every reachable state has.
THEOREM BundleInductive == BundleSpec => []BundleInv
<1>1. ASSUME BundleInv, [BundleNext]_bundleVars
      PROVE  BundleInv'
  <2>1. CASE Discover \/ Upgrade \/ UNCHANGED bundleVars
    BY <1>1, <2>1, VersionsKeep DEF Discover, Upgrade, bundleVars
  <2> QED BY <1>1, <2>1, LookKeeps, ReadKeeps, RewriteKeeps, BuildKeeps, UploadKeeps,
             UploadUncheckedKeeps, ReceiveKeeps, AdmitKeeps DEF BundleNext
<1> QED BY <1>1, BundleStarts, PTL DEF BundleSpec

\* A bundle that was accepted, by the client or by the server, extracts the same
\* way on every filesystem, whatever directory, archive and limits it came from
\* (bundle/files.rs collisions, bundle/reader.rs).
THEOREM ExtractsAnywhereAlways == BundleSpec => []ExtractsAnywhere
<1>1. BundleInv => ExtractsAnywhere
  <2> SUFFICES ASSUME BundleInv, NEW files \in Accepted
               PROVE  LET dirs == UNION {Directories(p) : p \in files}
                      IN  /\ files \cap dirs = {}
                          /\ \A p, q \in files \cup dirs : Fold(p) = Fold(q) => p = q
    BY DEF ExtractsAnywhere
  <2>1. PICK found : /\ Checked(found, limits) = {} /\ files = DOMAIN Contents(found, limits)
                     /\ DOMAIN found \subseteq Seq(Names)
    <3>1. CASE told.client = {} /\ files = DOMAIN Built
      BY <3>1 DEF BundleInv, TruthfullyTold, Collectable, Built
    <3>2. CASE told.server = {} /\ files = DOMAIN ServerFiles
      <4>1. DOMAIN Entries(wire) \subseteq Seq(Names)
        BY DEF Entries, BundleInv, OnTheWire
      <4> QED BY <3>2, <4>1 DEF BundleInv, TruthfullyTold, ServerFiles
    <3> QED BY <3>1, <3>2 DEF Accepted
  <2>2. files \subseteq ValidPaths(found) /\ files \in SUBSET Seq(Names)
    BY <2>1 DEF Contents, Passed, ValidPaths
  <2>3. \A p, q \in files : ~Collide(p, q)
    BY <2>1, <2>2, PassedDoNotCollide
  <2> QED BY <2>2, <2>3, NothingMeets
<1> QED BY <1>1, BundleInductive, PTL

-----------------------------------------------------------------------------
(* Finite sets.                                                             *)

\* Among some of a finite set's subsets there is one that contains no other.
LEMMA SmallestOf ==
    ASSUME NEW S, IsFiniteSet(S), NEW B \in SUBSET SUBSET S, B # {}
    PROVE  \E T \in B : \A U \in SUBSET T : U # T => U \notin B
<1>1. IsWellFoundedOn(StrictSubsetOrdering(S), FiniteSubsetsOf(S))
  BY FS_StrictSubsetOrderingWellFounded
<1>2. B \subseteq FiniteSubsetsOf(S)
  BY FS_Subset DEF FiniteSubsetsOf
<1>3. PICK least \in B : \A other \in B : ~ (<<other, least>> \in StrictSubsetOrdering(S))
  BY <1>1, <1>2, WFMin
<1>4. ASSUME NEW U \in SUBSET least, U # least, U \in B
      PROVE  FALSE
  <2>1. <<U, least>> \in StrictSubsetOrdering(S)
    BY <1>2, <1>4 DEF StrictSubsetOrdering
  <2> QED BY <1>3, <1>4, <2>1
<1> QED BY <1>4

-----------------------------------------------------------------------------
(* Lists in order.                                                          *)

Orders(R, X) ==
    /\ \A x \in X : <<x, x>> \notin R
    /\ \A x, y, z \in X : <<x, y>> \in R /\ <<y, z>> \in R => <<x, z>> \in R

Chained(list, n, R) == \A i, j \in 1..n : i < j => <<list[i], list[j]>> \in R

Within(list, other, n) == \A i \in 1..n : \E j \in 1..n : list[i] = other[j]

\* If each is before the next, each is before all that come later.
LEMMA Chain ==
    ASSUME NEW X, NEW R, Orders(R, X), NEW n \in Nat, NEW list \in [1..n -> X],
           \A i \in 1..(n - 1) : <<list[i], list[i + 1]>> \in R
    PROVE  Chained(list, n, R)
<1> DEFINE Bad(i, j) == i \in 1..n /\ j \in 1..n /\ i < j /\ <<list[i], list[j]>> \notin R
           B == {T \in SUBSET (1..n) : \E i, j \in 1..n : T = i..j /\ Bad(i, j)}
<1> SUFFICES ASSUME ~Chained(list, n, R) PROVE FALSE
  OBVIOUS
<1>1. B # {}
  <2>1. PICK i \in 1..n, j \in 1..n : Bad(i, j)
    BY DEF Chained
  <2>2. i..j \in SUBSET (1..n)
    OBVIOUS
  <2> QED BY <2>1, <2>2
<1>2. PICK T \in B : \A U \in SUBSET T : U # T => U \notin B
  <2>1. IsFiniteSet(1..n) /\ B \in SUBSET SUBSET (1..n)
    BY FS_Interval
  <2> HIDE DEF B
  <2> QED BY <1>1, <2>1, SmallestOf
<1>3. PICK i \in 1..n, j \in 1..n : T = i..j /\ Bad(i, j)
  BY <1>2
<1>4. CASE j = i + 1
  <2>1. i \in 1..(n - 1)
    BY <1>4
  <2> QED BY <1>3, <1>4, <2>1
<1>5. CASE j # i + 1
  <2>1. PICK k \in 1..(n - 1) : j = k + 1 /\ i < k /\ k \in 1..n
    BY <1>3, <1>5
  <2>2. i..k \in SUBSET T /\ i..k # T /\ i..k \in SUBSET (1..n)
    <3>1. j \in T /\ j \notin i..k
      BY <1>3, <2>1
    <3> QED BY <1>3, <2>1, <3>1
  <2>3. <<list[i], list[k]>> \in R
    BY <1>2, <2>1, <2>2
  <2>4. <<list[k], list[j]>> \in R
    BY <2>1
  <2>5. list[i] \in X /\ list[k] \in X /\ list[j] \in X
    BY <2>1
  <2> QED BY <1>3, <2>3, <2>4, <2>5 DEF Orders
<1> QED BY <1>4, <1>5

\* A list in order has nothing twice.
LEMMA ChainOnce ==
    ASSUME NEW X, NEW R, Orders(R, X), NEW n \in Nat, NEW list \in [1..n -> X], Chained(list, n, R),
           NEW i \in 1..n, NEW j \in 1..n, list[i] = list[j]
    PROVE  i = j
<1>1. list[i] \in X /\ <<list[i], list[i]>> \notin R
  BY DEF Orders
<1>2. ~(i < j) /\ ~(j < i)
  BY <1>1 DEF Chained
<1> QED BY <1>2

\* The same things in order make the same list.
LEMMA OneList ==
    ASSUME NEW X, NEW R, Orders(R, X), NEW n \in Nat,
           NEW list \in [1..n -> X], NEW other \in [1..n -> X],
           Chained(list, n, R), Chained(other, n, R),
           Within(list, other, n), Within(other, list, n)
    PROVE  list = other
<1> DEFINE B == {T \in SUBSET (1..n) : \E i \in 1..n : T = 1..i /\ list[i] # other[i]}
<1> SUFFICES ASSUME list # other PROVE FALSE
  OBVIOUS
<1>1. B # {}
  <2>1. PICK i \in 1..n : list[i] # other[i]
    OBVIOUS
  <2>2. 1..i \in SUBSET (1..n)
    OBVIOUS
  <2> QED BY <2>1, <2>2
<1>2. PICK T \in B : \A U \in SUBSET T : U # T => U \notin B
  <2>1. IsFiniteSet(1..n) /\ B \in SUBSET SUBSET (1..n)
    BY FS_Interval
  <2> HIDE DEF B
  <2> QED BY <1>1, <2>1, SmallestOf
<1>3. PICK i \in 1..n : T = 1..i /\ list[i] # other[i]
  BY <1>2
<1>4. ASSUME NEW k \in 1..n, k < i
      PROVE  list[k] = other[k]
  <2>1. 1..k \in SUBSET T /\ 1..k \in SUBSET (1..n)
    <3>1. k \in Int /\ i \in Int /\ i <= n /\ k <= i
      BY <1>4
    <3>2. 1..k \subseteq 1..i /\ 1..k \subseteq 1..n
      BY <3>1
    <3> QED BY <1>3, <3>2
  <2>2. 1..k # T
    <3>1. i \in T /\ i \notin 1..k
      BY <1>3, <1>4
    <3> QED BY <3>1
  <2> QED BY <1>2, <2>1, <2>2
<1>5. <<other[i], list[i]>> \in R
  <2>1. PICK j \in 1..n : list[i] = other[j]
    BY DEF Within
  <2>2. ASSUME j < i PROVE FALSE
    <3>1. list[j] = list[i]
      BY <1>4, <2>1, <2>2
    <3>2. j = i
      BY <3>1, ChainOnce
    <3> QED BY <2>2, <3>2
  <2>3. i < j
    BY <1>3, <2>1, <2>2
  <2> QED BY <2>1, <2>3 DEF Chained
<1>6. <<list[i], other[i]>> \in R
  <2>1. PICK j \in 1..n : other[i] = list[j]
    BY DEF Within
  <2>2. ASSUME j < i PROVE FALSE
    <3>1. other[j] = other[i]
      BY <1>4, <2>1, <2>2
    <3>2. j = i
      BY <3>1, ChainOnce
    <3> QED BY <2>2, <3>2
  <2>3. i < j
    BY <1>3, <2>1, <2>2
  <2> QED BY <2>1, <2>3 DEF Chained
<1> QED BY <1>5, <1>6 DEF Orders

-----------------------------------------------------------------------------
(* The two orders of paths.                                                 *)

Paths == Seq(Names)

\* The paths' bytes differ first in name i, or the first path ends before it.
Ahead(p, q, i) ==
    /\ i \in 1..Len(q) /\ i <= Len(p) + 1
    /\ \A j \in 1..(i - 1) : p[j] = q[j]
    /\ i <= Len(p) => Rank[p[i]] < Rank[q[i]]

\* Of two paths that part at name i the walk meets a file before a directory.
Sooner(p, q, i) ==
    /\ i \in 1..Len(p) /\ i \in 1..Len(q)
    /\ \A j \in 1..(i - 1) : p[j] = q[j]
    /\ \/ Len(p) = i /\ Len(q) # i
       \/ (Len(p) = i <=> Len(q) = i) /\ Rank[p[i]] < Rank[q[i]]

ByBytes == {x \in Paths \X Paths : \E i \in Nat : Ahead(x[1], x[2], i)}
ByWalk == {x \in Paths \X Paths : \E i \in Nat : Sooner(x[1], x[2], i)}

LEMMA PathIs ==
    ASSUME NEW p \in Paths
    PROVE  /\ Len(p) \in Nat /\ DOMAIN p = 1..Len(p)
           /\ \A i \in 1..Len(p) : p[i] \in Names /\ Rank[p[i]] \in Int
BY BundleAssumption DEF Paths, Names

LEMMA BytesOrder == Orders(ByBytes, Paths)
<1>1. ASSUME NEW p \in Paths, NEW i \in Nat, Ahead(p, p, i)
      PROVE  FALSE
  BY <1>1, PathIs DEF Ahead
<1>2. ASSUME NEW p \in Paths, NEW q \in Paths, NEW r \in Paths, NEW i \in Nat, NEW k \in Nat,
             Ahead(p, q, i), Ahead(q, r, k)
      PROVE  \E m \in Nat : Ahead(p, r, m)
  <2>1. Len(p) \in Nat /\ Len(q) \in Nat /\ Len(r) \in Nat
    BY PathIs
  <2>2. /\ \A j \in 1..Len(p) : Rank[p[j]] \in Int
        /\ \A j \in 1..Len(q) : Rank[q[j]] \in Int
        /\ \A j \in 1..Len(r) : Rank[r[j]] \in Int
    BY PathIs
  <2>3. /\ i \in 1..Len(q) /\ i <= Len(p) + 1 /\ k \in 1..Len(r) /\ k <= Len(q) + 1
        /\ \A j \in 1..(i - 1) : p[j] = q[j]
        /\ \A j \in 1..(k - 1) : q[j] = r[j]
        /\ i <= Len(p) => Rank[p[i]] < Rank[q[i]]
        /\ k <= Len(q) => Rank[q[k]] < Rank[r[k]]
    BY <1>2 DEF Ahead
  <2>4. CASE i < k
    <3>1. /\ i \in 1..Len(r)
          /\ \A j \in 1..(i - 1) : j \in 1..(k - 1)
          /\ i \in 1..(k - 1)
      BY <2>1, <2>3, <2>4
    <3>2. Ahead(p, r, i)
      BY <2>3, <3>1 DEF Ahead
    <3> QED BY <3>2
  <2>5. CASE i = k
    <3>1. i <= Len(q) /\ i \in 1..Len(r)
      BY <2>1, <2>3, <2>5
    <3>2. i <= Len(p) => Rank[p[i]] < Rank[r[i]]
      BY <2>1, <2>2, <2>3, <2>5, <3>1
    <3>3. Ahead(p, r, i)
      BY <2>3, <2>5, <3>1, <3>2 DEF Ahead
    <3> QED BY <3>3
  <2>6. CASE k < i
    <3>1. /\ k \in 1..Len(p) /\ k <= Len(q) /\ k <= Len(p) + 1
          /\ k \in 1..(i - 1)
          /\ \A j \in 1..(k - 1) : j \in 1..(i - 1)
      BY <2>1, <2>3, <2>6
    <3>2. Ahead(p, r, k)
      BY <2>3, <3>1 DEF Ahead
    <3> QED BY <3>2
  <2> QED BY <2>3, <2>4, <2>5, <2>6
<1> QED BY <1>1, <1>2 DEF Orders, ByBytes

LEMMA WalkOrder == Orders(ByWalk, Paths)
<1>1. ASSUME NEW p \in Paths, NEW i \in Nat, Sooner(p, p, i)
      PROVE  FALSE
  BY <1>1, PathIs DEF Sooner
<1>2. ASSUME NEW p \in Paths, NEW q \in Paths, NEW r \in Paths, NEW i \in Nat, NEW k \in Nat,
             Sooner(p, q, i), Sooner(q, r, k)
      PROVE  \E m \in Nat : Sooner(p, r, m)
  <2>1. Len(p) \in Nat /\ Len(q) \in Nat /\ Len(r) \in Nat
    BY PathIs
  <2>2. /\ \A j \in 1..Len(p) : Rank[p[j]] \in Int
        /\ \A j \in 1..Len(q) : Rank[q[j]] \in Int
        /\ \A j \in 1..Len(r) : Rank[r[j]] \in Int
    BY PathIs
  <2>3. /\ i \in 1..Len(p) /\ i \in 1..Len(q) /\ k \in 1..Len(q) /\ k \in 1..Len(r)
        /\ \A j \in 1..(i - 1) : p[j] = q[j]
        /\ \A j \in 1..(k - 1) : q[j] = r[j]
        /\ \/ Len(p) = i /\ Len(q) # i
           \/ (Len(p) = i <=> Len(q) = i) /\ Rank[p[i]] < Rank[q[i]]
        /\ \/ Len(q) = k /\ Len(r) # k
           \/ (Len(q) = k <=> Len(r) = k) /\ Rank[q[k]] < Rank[r[k]]
    BY <1>2 DEF Sooner
  <2>4. CASE i < k
    <3>1. /\ i \in 1..Len(r)
          /\ \A j \in 1..(i - 1) : j \in 1..(k - 1)
          /\ i \in 1..(k - 1)
          /\ Len(q) # i /\ Len(r) # i
      BY <2>1, <2>3, <2>4
    <3>2. Sooner(p, r, i)
      BY <2>3, <3>1 DEF Sooner
    <3> QED BY <3>2
  <2>5. CASE i = k
    <3>1. \/ Len(p) = i /\ Len(r) # i
          \/ (Len(p) = i <=> Len(r) = i) /\ Rank[p[i]] < Rank[r[i]]
      BY <2>2, <2>3, <2>5
    <3>2. Sooner(p, r, i)
      BY <2>3, <2>5, <3>1 DEF Sooner
    <3> QED BY <3>2
  <2>6. CASE k < i
    <3>1. /\ k \in 1..Len(p)
          /\ k \in 1..(i - 1)
          /\ \A j \in 1..(k - 1) : j \in 1..(i - 1)
          /\ Len(p) # k /\ Len(q) # k
      BY <2>1, <2>3, <2>6
    <3>2. Sooner(p, r, k)
      BY <2>3, <3>1 DEF Sooner
    <3> QED BY <3>2
  <2> QED BY <2>3, <2>4, <2>5, <2>6
<1> QED BY <1>1, <1>2 DEF Orders, ByWalk

LEMMA SubSeqsAgree ==
    ASSUME NEW p \in Paths, NEW q \in Paths, NEW n \in Nat, n <= Len(p), n <= Len(q),
           SubSeq(p, 1, n) = SubSeq(q, 1, n), NEW j \in 1..n
    PROVE  p[j] = q[j]
<1>1. SubSeq(p, 1, n)[j] = p[j] /\ SubSeq(q, 1, n)[j] = q[j]
  BY DEF Paths
<1> QED BY <1>1

LEMMA BeforeIs ==
    ASSUME NEW p \in Paths, NEW q \in Paths, Before(p, q)
    PROVE  <<p, q>> \in ByBytes
<1>1. Len(p) \in Nat /\ DOMAIN p = 1..Len(p) /\ Len(q) \in Nat /\ DOMAIN q = 1..Len(q)
  BY PathIs
<1>2. CASE IsStrictPrefix(p, q)
  <2>1. Len(p) <= Len(q) /\ SubSeq(p, 1, Len(p)) = SubSeq(q, 1, Len(p)) /\ p # q
    BY <1>2 DEF IsStrictPrefix, IsPrefix
  <2>2. \A j \in 1..Len(p) : p[j] = q[j]
    BY <1>1, <2>1, SubSeqsAgree
  <2>3. Len(p) # Len(q)
    <3>1. ASSUME Len(p) = Len(q)
          PROVE  p = q
      BY <1>1, <2>2, <3>1, SeqEqual DEF Paths
    <3> QED BY <2>1, <3>1
  <2>4. Len(p) < Len(q)
    <3>1. Len(p) <= Len(q)
      BY <2>1
    <3>2. Len(p) \in Nat /\ Len(q) \in Nat
      BY <1>1
    <3> QED BY <2>3, <3>1, <3>2
  <2>5. PICK m \in Nat : m = Len(p) + 1
    BY <1>1
  <2>6. m \in 1..Len(q) /\ ~(m <= Len(p)) /\ m <= Len(p) + 1 /\ m - 1 = Len(p)
    BY <1>1, <2>4, <2>5
  <2>7. Ahead(p, q, m)
    BY <2>2, <2>6 DEF Ahead
  <2> QED BY <2>7 DEF ByBytes
<1>3. ASSUME NEW i \in DOMAIN p \cap DOMAIN q, SubSeq(p, 1, i - 1) = SubSeq(q, 1, i - 1),
             Rank[p[i]] < Rank[q[i]]
      PROVE  <<p, q>> \in ByBytes
  <2>1. i \in 1..Len(q) /\ i <= Len(p) + 1 /\ i \in Nat
    BY <1>1
  <2>2. PICK n \in Nat : n = i - 1 /\ n <= Len(p) /\ n <= Len(q)
    BY <1>1
  <2>3. \A j \in 1..(i - 1) : p[j] = q[j]
    BY <1>3, <2>2, SubSeqsAgree
  <2>4. Ahead(p, q, i)
    BY <1>3, <2>1, <2>3 DEF Ahead
  <2> QED BY <2>1, <2>4 DEF ByBytes
<1> QED BY <1>2, <1>3 DEF Before

LEMMA MetBeforeIs ==
    ASSUME NEW p \in Paths, NEW q \in Paths, MetBefore(p, q)
    PROVE  <<p, q>> \in ByWalk
<1>1. Len(p) \in Nat /\ DOMAIN p = 1..Len(p) /\ Len(q) \in Nat /\ DOMAIN q = 1..Len(q)
  BY PathIs
<1>2. PICK i \in DOMAIN p \cap DOMAIN q :
        /\ SubSeq(p, 1, i - 1) = SubSeq(q, 1, i - 1)
        /\ IF (Len(p) = i) = (Len(q) = i) THEN Rank[p[i]] < Rank[q[i]] ELSE Len(p) = i
  BY DEF MetBefore
<1>3. PICK n \in Nat : n = i - 1 /\ n <= Len(p) /\ n <= Len(q)
  BY <1>1
<1>4. \A j \in 1..(i - 1) : p[j] = q[j]
  BY <1>2, <1>3, SubSeqsAgree
<1>5. i \in Nat /\ i \in 1..Len(p) /\ i \in 1..Len(q)
  BY <1>1
<1>6. \/ Len(p) = i /\ Len(q) # i
      \/ (Len(p) = i <=> Len(q) = i) /\ Rank[p[i]] < Rank[q[i]]
  BY <1>2
<1>7. Sooner(p, q, i)
  BY <1>4, <1>5, <1>6 DEF Sooner
<1> QED BY <1>5, <1>7 DEF ByWalk

\* A listing has each of the paths, once.
LEMMA ListingIs ==
    ASSUME NEW paths \in SUBSET Paths, IsFiniteSet(paths),
           NEW list \in Listings(paths, Before) \cup Listings(paths, MetBefore)
    PROVE  LET n == Cardinality(paths) IN
           /\ n \in Nat /\ list \in [1..n -> paths] /\ list \in Seq(paths) /\ Len(list) = n
           /\ \A i, j \in 1..n : list[i] = list[j] => i = j
           /\ \A p \in paths : \E i \in 1..n : p = list[i]
<1>1. PICK n \in Nat : n = Cardinality(paths)
  BY FS_CardinalityType
<1>2. /\ list \in [1..n -> paths]
      /\ \/ \A i \in 1..(n - 1) : Before(list[i], list[i + 1])
         \/ \A i \in 1..(n - 1) : MetBefore(list[i], list[i + 1])
  BY <1>1 DEF Listings
<1>3. list \in [1..n -> Paths] /\ \A i \in 1..(n - 1) : list[i] \in Paths /\ list[i + 1] \in Paths
  BY <1>2
<1>4. PICK R \in {ByBytes, ByWalk} : \A i \in 1..(n - 1) : <<list[i], list[i + 1]>> \in R
  BY <1>2, <1>3, BeforeIs, MetBeforeIs
<1>5. Orders(R, Paths)
  BY BytesOrder, WalkOrder
<1>6. Chained(list, n, R)
  BY <1>3, <1>4, <1>5, Chain
<1>7. \A i, j \in 1..n : list[i] = list[j] => i = j
  BY <1>3, <1>5, <1>6, ChainOnce
<1>8. \A p \in paths : \E i \in 1..n : p = list[i]
  <2>1. list \in Injection(1..n, paths)
    BY <1>2, <1>7 DEF Injection, IsInjective
  <2>2. IsFiniteSet(1..n) /\ Cardinality(1..n) = n
    BY FS_Interval
  <2>3. list \in Surjection(1..n, paths)
    BY <1>1, <2>1, <2>2, FS_Injection
  <2> QED BY <2>3 DEF Surjection
<1> QED BY <1>1, <1>2, <1>7, <1>8

\* There is one listing by bytes: what is so listed is the listing.
LEMMA OneListing ==
    ASSUME NEW paths \in SUBSET Paths, IsFiniteSet(paths),
           NEW list \in Listings(paths, Before), NEW other \in Listings(paths, Before)
    PROVE  list = other
<1>1. PICK n \in Nat : n = Cardinality(paths)
  BY FS_CardinalityType
<1>2. /\ list \in [1..n -> paths] /\ other \in [1..n -> paths]
      /\ \A p \in paths : \E i \in 1..n : p = list[i]
      /\ \A p \in paths : \E i \in 1..n : p = other[i]
  BY <1>1, ListingIs
<1>3. /\ list \in [1..n -> Paths] /\ other \in [1..n -> Paths]
      /\ \A i \in 1..(n - 1) : <<list[i], list[i + 1]>> \in ByBytes
      /\ \A i \in 1..(n - 1) : <<other[i], other[i + 1]>> \in ByBytes
  <2>1. \A i \in 1..(n - 1) : i \in 1..n /\ i + 1 \in 1..n
    OBVIOUS
  <2>2. /\ \A i \in 1..(n - 1) : Before(list[i], list[i + 1])
        /\ \A i \in 1..(n - 1) : Before(other[i], other[i + 1])
    BY <1>1 DEF Listings
  <2> QED BY <1>2, <2>1, <2>2, BeforeIs
<1>4. Chained(list, n, ByBytes) /\ Chained(other, n, ByBytes)
  BY <1>3, BytesOrder, Chain
<1>5. Within(list, other, n) /\ Within(other, list, n)
  BY <1>2 DEF Within
<1> QED BY <1>3, <1>4, <1>5, BytesOrder, OneList

-----------------------------------------------------------------------------
(* Sums over finite sets, taken in any order.                               *)

\* h gives the sum of each subset.
IsSum(h, S, f) ==
    /\ h \in [SUBSET S -> Int] /\ h[{}] = 0
    /\ \A U \in SUBSET S : \A x \in U : h[U] = f[x] + h[U \ {x}]

LEMMA SumExists ==
    ASSUME NEW S, IsFiniteSet(S), NEW f \in [S -> Int]
    PROVE  \E h : IsSum(h, S, f)
<1> DEFINE B == {T \in SUBSET S : ~ \E h : IsSum(h, T, f)}
<1> SUFFICES ASSUME B # {} PROVE FALSE
  OBVIOUS
<1>1. PICK T \in B : \A U \in SUBSET T : U # T => U \notin B
  <2>1. B \in SUBSET SUBSET S
    OBVIOUS
  <2> HIDE DEF B
  <2> QED BY <2>1, SmallestOf
<1>2. CASE T = {}
  <2>1. PICK h : h = [U \in SUBSET T |-> 0]
    OBVIOUS
  <2>2. IsSum(h, T, f)
    BY <1>2, <2>1 DEF IsSum
  <2> QED BY <2>2
<1>3. CASE T # {}
  <2>1. PICK y \in T : f[y] \in Int
    BY <1>1, <1>3
  <2>2. PICK V : V = T \ {y}
    OBVIOUS
  <2>3. V \in SUBSET T /\ V # T /\ V \in SUBSET S /\ T \in SUBSET S
    BY <2>2
  <2>4. PICK g : IsSum(g, V, f)
    BY <1>1, <2>3
  <2>5. /\ g \in [SUBSET V -> Int] /\ g[{}] = 0
        /\ \A U \in SUBSET V : \A x \in U : g[U] = f[x] + g[U \ {x}]
    BY <2>4 DEF IsSum
  <2>6. PICK h : h = [U \in SUBSET T |-> IF y \in U THEN f[y] + g[U \ {y}] ELSE g[U]]
    OBVIOUS
  <2>7. \A U \in SUBSET T : U \ {y} \in SUBSET V /\ (y \notin U => U \in SUBSET V)
    BY <2>2
  <2>8. h \in [SUBSET T -> Int] /\ h[{}] = 0
    BY <2>1, <2>5, <2>6, <2>7
  <2>9. ASSUME NEW U \in SUBSET T, NEW x \in U
        PROVE  h[U] = f[x] + h[U \ {x}]
    <3>1. U \ {x} \in SUBSET T /\ f[x] \in Int
      BY <2>3
    <3>2. CASE x = y
      <4>1. y \notin U \ {x}
        BY <3>2
      <4> QED BY <2>6, <3>1, <3>2, <4>1
    <3>3. CASE x # y /\ y \in U
      <4>1. x \in U \ {y} /\ U \ {y} \in SUBSET V
        BY <2>7, <3>3
      <4>2. g[U \ {y}] = f[x] + g[(U \ {y}) \ {x}]
        BY <2>5, <4>1
      <4>3. (U \ {y}) \ {x} = (U \ {x}) \ {y} /\ (U \ {x}) \ {y} \in SUBSET V /\ y \in U \ {x}
        BY <2>7, <3>1, <3>3
      <4>4. h[U] = f[y] + g[U \ {y}] /\ h[U \ {x}] = f[y] + g[(U \ {x}) \ {y}]
        BY <2>6, <3>1, <3>3, <4>3
      <4>5. g[(U \ {x}) \ {y}] \in Int
        BY <2>5, <4>3
      <4>6. PICK u \in Int, fx \in Int, fy \in Int :
              u = g[(U \ {x}) \ {y}] /\ fx = f[x] /\ fy = f[y]
        BY <2>1, <3>1, <4>5
      <4>7. h[U] = fy + (fx + u) /\ h[U \ {x}] = fy + u
        BY <4>2, <4>3, <4>4, <4>6
      <4> QED BY <4>6, <4>7
    <3>4. CASE x # y /\ y \notin U
      <4>1. h[U] = g[U] /\ h[U \ {x}] = g[U \ {x}] /\ U \in SUBSET V
        BY <2>6, <2>7, <3>1, <3>4
      <4> QED BY <2>5, <4>1
    <3> QED BY <3>2, <3>3, <3>4
  <2>10. IsSum(h, T, f)
    BY <2>8, <2>9 DEF IsSum
  <2> QED BY <2>10
<1> QED BY <1>2, <1>3

\* A sum taken in some order.
Takes(it, S, f) ==
    \A U \in SUBSET S :
        it[U] = IF U = {} THEN 0 ELSE f[CHOOSE x \in U : TRUE] + it[U \ {CHOOSE x \in U : TRUE}]

LEMMA SumTakes ==
    ASSUME NEW S, NEW f, NEW h, IsSum(h, S, f)
    PROVE  Takes(h, S, f)
<1> SUFFICES ASSUME NEW U \in SUBSET S
             PROVE  h[U] = IF U = {} THEN 0
                           ELSE f[CHOOSE x \in U : TRUE] + h[U \ {CHOOSE x \in U : TRUE}]
  BY DEF Takes
<1>1. CASE U = {}
  BY <1>1 DEF IsSum
<1>2. CASE U # {}
  <2>1. PICK x : x = CHOOSE y \in U : TRUE
    OBVIOUS
  <2>2. x \in U
    BY <1>2, <2>1
  <2> QED BY <1>2, <2>1, <2>2 DEF IsSum
<1> QED BY <1>1, <1>2

LEMMA OneSum ==
    ASSUME NEW S, IsFiniteSet(S), NEW f, NEW h, IsSum(h, S, f), NEW it, Takes(it, S, f)
    PROVE  it[S] = h[S]
<1> DEFINE B == {U \in SUBSET S : it[U] # h[U]}
<1> SUFFICES ASSUME B # {} PROVE FALSE
  OBVIOUS
<1>1. PICK T \in B : \A U \in SUBSET T : U # T => U \notin B
  <2>1. B \in SUBSET SUBSET S
    OBVIOUS
  <2> HIDE DEF B
  <2> QED BY <2>1, SmallestOf
<1>2. Takes(h, S, f)
  BY SumTakes
<1>3. CASE T = {}
  BY <1>2, <1>3 DEF Takes
<1>4. CASE T # {}
  <2>1. PICK x : x = CHOOSE y \in T : TRUE
    OBVIOUS
  <2>2. x \in T
    BY <1>4, <2>1
  <2>3. T \ {x} \in SUBSET T /\ T \ {x} # T /\ T \ {x} \in SUBSET S
    BY <2>2
  <2>4. it[T \ {x}] = h[T \ {x}]
    BY <1>1, <2>3
  <2>5. it[T] = f[x] + it[T \ {x}] /\ h[T] = f[x] + h[T \ {x}]
    BY <1>2, <1>4, <2>1 DEF Takes
  <2> QED BY <2>4, <2>5
<1> QED BY <1>3, <1>4

\* The sizes of what was found.
Sizes(found) == [p \in DOMAIN found |-> found[p].size]

LEMMA TotalIs ==
    ASSUME NEW found, IsFiniteSet(DOMAIN found), \A p \in DOMAIN found : found[p].size \in Int,
           NEW h, IsSum(h, DOMAIN found, Sizes(found))
    PROVE  Total(found) = h[DOMAIN found]
<1> DEFINE S == DOMAIN found
           Is(it) == it = [U \in SUBSET S |->
                             IF U = {} THEN 0
                             ELSE found[CHOOSE x \in U : TRUE].size + it[U \ {CHOOSE x \in U : TRUE}]]
           it == CHOOSE it : Is(it)
<1>1. Total(found) = it[S]
  BY DEF Total, MapThenSumSet, MapThenFoldSet
<1>2. ASSUME NEW U \in SUBSET S, U # {}
      PROVE  Sizes(found)[CHOOSE x \in U : TRUE] = found[CHOOSE x \in U : TRUE].size
  <2>1. (CHOOSE x \in U : TRUE) \in S
    BY <1>2
  <2> QED BY <2>1 DEF Sizes
<1>3. \E g : Is(g)
  <2>1. Takes(h, S, Sizes(found))
    BY SumTakes
  <2>2. h = [U \in SUBSET S |-> h[U]]
    BY DEF IsSum
  <2>3. \A U \in SUBSET S : h[U] = IF U = {} THEN 0
                           ELSE found[CHOOSE x \in U : TRUE].size + h[U \ {CHOOSE x \in U : TRUE}]
    BY <1>2, <2>1 DEF Takes
  <2>4. Is(h)
    BY <2>2, <2>3
  <2> QED BY <2>4
<1>4. Is(it)
  BY <1>3
<1> HIDE DEF it
<1>5. \A U \in SUBSET S : it[U] = IF U = {} THEN 0
                       ELSE found[CHOOSE x \in U : TRUE].size + it[U \ {CHOOSE x \in U : TRUE}]
  BY <1>4
<1> HIDE DEF Is
<1>6. Takes(it, S, Sizes(found))
  BY <1>2, <1>5 DEF Takes
<1> QED BY <1>1, <1>6, OneSum

\* One more file adds its size.
LEMMA TotalGrows ==
    ASSUME NEW found, NEW more, NEW p, p \notin DOMAIN found,
           IsFiniteSet(DOMAIN found), DOMAIN more = DOMAIN found \cup {p},
           \A q \in DOMAIN more : more[q].size \in Int,
           \A q \in DOMAIN found : more[q].size = found[q].size
    PROVE  /\ Total(found) \in Int
           /\ Total(more) = Total(found) + more[p].size
<1> DEFINE S == DOMAIN found
           T == DOMAIN more
<1>1. IsFiniteSet(T)
  BY FS_AddElement
<1>2. Sizes(more) \in [T -> Int]
  BY DEF Sizes
<1>3. PICK h : IsSum(h, T, Sizes(more))
  BY <1>1, <1>2, SumExists
<1>4. Total(more) = h[T]
  BY <1>1, <1>3, TotalIs
<1>5. PICK g : g = [U \in SUBSET S |-> h[U]]
  OBVIOUS
<1>6. IsSum(g, S, Sizes(found))
  <2>1. ASSUME NEW U \in SUBSET S, NEW x \in U
        PROVE  g[U] = Sizes(found)[x] + g[U \ {x}]
    <3>1. U \in SUBSET T /\ U \ {x} \in SUBSET S /\ x \in S /\ x \in T
      OBVIOUS
    <3>2. h[U] = Sizes(more)[x] + h[U \ {x}]
      BY <1>3, <3>1 DEF IsSum
    <3>3. Sizes(more)[x] = Sizes(found)[x]
      BY <3>1 DEF Sizes
    <3> QED BY <1>5, <3>1, <3>2, <3>3
  <2>2. g \in [SUBSET S -> Int] /\ g[{}] = 0
    BY <1>3, <1>5 DEF IsSum
  <2> QED BY <2>1, <2>2 DEF IsSum
<1>7. Total(found) = g[S] /\ g[S] = h[S] /\ h[S] \in Int
  <2>1. \A q \in S : found[q].size \in Int
    OBVIOUS
  <2>2. Total(found) = g[S]
    BY <1>6, <2>1, TotalIs
  <2> QED BY <1>3, <1>5, <2>2 DEF IsSum
<1>8. h[T] = more[p].size + h[S]
  <2>1. p \in T /\ T \ {p} = S
    OBVIOUS
  <2>2. Sizes(more)[p] = more[p].size
    BY <2>1 DEF Sizes
  <2>3. h[T] = Sizes(more)[p] + h[T \ {p}]
    BY <1>3, <2>1 DEF IsSum
  <2> QED BY <2>1, <2>2, <2>3
<1> QED BY <1>4, <1>7, <1>8

\* Files of the same sizes have the same total.
LEMMA SameTotal ==
    ASSUME NEW found, NEW other, IsFiniteSet(DOMAIN found), DOMAIN other = DOMAIN found,
           \A p \in DOMAIN found : found[p].size \in Int /\ other[p].size = found[p].size
    PROVE  Total(other) = Total(found)
<1>1. Sizes(found) \in [DOMAIN found -> Int] /\ Sizes(other) = Sizes(found)
  BY DEF Sizes
<1>2. PICK h : IsSum(h, DOMAIN found, Sizes(found))
  BY <1>1, SumExists
<1>3. Total(found) = h[DOMAIN found]
  BY <1>2, TotalIs
<1>4. Total(other) = h[DOMAIN other]
  BY <1>1, <1>2, TotalIs
<1> QED BY <1>3, <1>4

LEMMA NoTotal == Total(<< >>) = 0
<1>1. DOMAIN << >> = {} /\ IsFiniteSet({})
  BY FS_EmptySet
<1>2. Sizes(<< >>) \in [{} -> Int]
  BY <1>1 DEF Sizes
<1>3. PICK h : IsSum(h, {}, Sizes(<< >>))
  BY <1>1, <1>2, SumExists
<1> QED BY <1>1, <1>3, TotalIs DEF IsSum

-----------------------------------------------------------------------------
(* The bytes of an archive.                                                 *)

Bytes(a) == [i \in DOMAIN a.entries |-> EntryBytes(a.entries[i])]

LEMMA TarBytesIs ==
    ASSUME NEW a, IsFiniteSet(DOMAIN a.entries),
           NEW h, IsSum(h, DOMAIN a.entries, Bytes(a))
    PROVE  TarBytes(a) = h[DOMAIN a.entries] + a.zeros * Block + a.ragged
<1> DEFINE S == DOMAIN a.entries
           Is(it) == it = [U \in SUBSET S |->
                             IF U = {} THEN 0
                             ELSE EntryBytes(a.entries[CHOOSE x \in U : TRUE])
                                    + it[U \ {CHOOSE x \in U : TRUE}]]
           it == CHOOSE it : Is(it)
<1>1. TarBytes(a) = it[S] + a.zeros * Block + a.ragged
  BY DEF TarBytes, MapThenSumSet, MapThenFoldSet
<1>2. ASSUME NEW U \in SUBSET S, U # {}
      PROVE  Bytes(a)[CHOOSE x \in U : TRUE] = EntryBytes(a.entries[CHOOSE x \in U : TRUE])
  <2>1. (CHOOSE x \in U : TRUE) \in S
    BY <1>2
  <2> QED BY <2>1 DEF Bytes
<1>3. \E g : Is(g)
  <2>1. Takes(h, S, Bytes(a))
    BY SumTakes
  <2>2. h = [U \in SUBSET S |-> h[U]]
    BY DEF IsSum
  <2>3. \A U \in SUBSET S : h[U] = IF U = {} THEN 0
                           ELSE EntryBytes(a.entries[CHOOSE x \in U : TRUE])
                                  + h[U \ {CHOOSE x \in U : TRUE}]
    BY <1>2, <2>1 DEF Takes
  <2>4. Is(h)
    BY <2>2, <2>3
  <2> QED BY <2>4
<1>4. Is(it)
  BY <1>3
<1> HIDE DEF it
<1>5. \A U \in SUBSET S : it[U] = IF U = {} THEN 0
                       ELSE EntryBytes(a.entries[CHOOSE x \in U : TRUE])
                              + it[U \ {CHOOSE x \in U : TRUE}]
  BY <1>4
<1> HIDE DEF Is
<1>6. Takes(it, S, Bytes(a))
  BY <1>2, <1>5 DEF Takes
<1>7. it[S] = h[S]
  BY <1>6, OneSum
<1> QED BY <1>1, <1>7

LEMMA PaddingIs ==
    ASSUME NEW size \in Nat
    PROVE  Padding(size) \in 0..(Block - 1)
<1>1. Block \in Nat \ {0}
  BY BundleAssumption
<1>2. PICK r \in Int : r = size % Block
  BY <1>1
<1>3. PICK k \in Int : k = Block - r
  BY <1>1
<1>4. k % Block \in 0..(Block - 1)
  BY <1>1
<1> QED BY <1>2, <1>3, <1>4 DEF Padding

LEMMA Spread ==
    ASSUME NEW k \in Nat, NEW l \in Nat, NEW m \in Nat
    PROVE  (k + l) * m = k * m + l * m /\ l * m >= 0 /\ k * m \in Int /\ l * m \in Int
OBVIOUS

\* An archive of all the files, each once.
Packed(a, found, n, list) ==
    /\ IsFiniteSet(DOMAIN found) /\ \A p \in DOMAIN found : found[p].size \in Nat
    /\ n \in Nat /\ list \in [1..n -> DOMAIN found]
    /\ \A i, j \in 1..n : list[i] = list[j] => i = j
    /\ \A p \in DOMAIN found : \E i \in 1..n : p = list[i]
    /\ DOMAIN a.entries = 1..n /\ a.zeros = 2 /\ a.ragged = 0
    /\ \A i \in 1..n : a.entries[i].content.size = found[list[i]].size

\* Whatever files fit the limits, their archive does.
LEMMA ArchiveFits ==
    ASSUME NEW found, NEW n, NEW list, NEW a, Packed(a, found, n, list),
           NEW lim, lim.files \in Nat, lim.total \in Nat, n <= lim.files, Total(found) <= lim.total
    PROVE  ~(TarBytes(a) > MaxArchive(lim))
<1>0. /\ IsFiniteSet(DOMAIN found) /\ \A p \in DOMAIN found : found[p].size \in Nat
      /\ n \in Nat /\ list \in [1..n -> DOMAIN found]
      /\ \A i, j \in 1..n : list[i] = list[j] => i = j
      /\ \A p \in DOMAIN found : \E i \in 1..n : p = list[i]
      /\ DOMAIN a.entries = 1..n /\ a.zeros = 2 /\ a.ragged = 0
      /\ \A i \in 1..n : a.entries[i].content.size = found[list[i]].size
  BY DEF Packed
<1> USE <1>0
<1>1. IsFiniteSet(1..n) /\ Cardinality(1..n) = n
  BY FS_Interval
<1>2. ASSUME NEW i \in 1..n
      PROVE  EntryBytes(a.entries[i]) \in Int
             /\ EntryBytes(a.entries[i]) <= 2 * Block - 1 + found[list[i]].size
  <2>1. PICK size \in Nat : size = found[list[i]].size /\ a.entries[i].content.size = size
    OBVIOUS
  <2>2. Padding(size) \in 0..(Block - 1)
    BY <2>1, PaddingIs
  <2>3. Block \in Nat
    BY BundleAssumption
  <2> QED BY <2>1, <2>2, <2>3 DEF EntryBytes
<1>3. Bytes(a) \in [1..n -> Int]
  BY <1>2 DEF Bytes
<1>4. PICK h : IsSum(h, 1..n, Bytes(a))
  BY <1>1, <1>3, SumExists
<1>5. Sizes(found) \in [DOMAIN found -> Int]
  BY DEF Sizes
<1>6. PICK g : IsSum(g, DOMAIN found, Sizes(found))
  BY <1>5, SumExists
<1> DEFINE Of(U) == {list[i] : i \in U}
           B == {U \in SUBSET (1..n) : ~(h[U] <= Cardinality(U) * (2 * Block - 1) + g[Of(U)])}
<1>7. B = {}
  <2> SUFFICES ASSUME B # {} PROVE FALSE
    OBVIOUS
  <2>1. PICK T \in B : \A U \in SUBSET T : U # T => U \notin B
    <3>1. B \in SUBSET SUBSET (1..n)
      OBVIOUS
    <3> HIDE DEF B
    <3> QED BY <1>1, <3>1, SmallestOf
  <2>2. T \in SUBSET (1..n) /\ IsFiniteSet(T) /\ ~(h[T] <= Cardinality(T) * (2 * Block - 1) + g[Of(T)])
    <3>1. T \in SUBSET (1..n)
      OBVIOUS
    <3> QED BY <1>1, <3>1, FS_Subset
  <2>3. PICK b \in Int : b = 2 * Block - 1
    BY BundleAssumption
  <2>4. CASE T = {}
    <3>1. Cardinality({}) = 0 /\ Of({}) = {}
      BY FS_EmptySet
    <3>2. h[{}] = 0 /\ g[{}] = 0
      BY <1>4, <1>6 DEF IsSum
    <3>3. 0 * b = 0
      OBVIOUS
    <3>4. h[T] = 0 /\ g[Of(T)] = 0 /\ Cardinality(T) = 0
      BY <2>4, <3>1, <3>2
    <3> QED BY <2>2, <2>3, <3>3, <3>4
  <2>5. CASE T # {}
    <3>1. PICK x \in 1..n : x \in T
      BY <2>2, <2>5
    <3>2. PICK V : V = T \ {x}
      OBVIOUS
    <3>3. V \in SUBSET T /\ V # T /\ V \in SUBSET (1..n)
      BY <2>2, <3>1, <3>2
    <3>4. PICK m \in Nat : m = Cardinality(V) /\ Cardinality(T) = m + 1
      <4>1. IsFiniteSet(V) /\ Cardinality(V) = Cardinality(T) - 1
        BY <2>2, <3>1, <3>2, FS_RemoveElement
      <4>2. Cardinality(T) \in Nat /\ Cardinality(V) \in Nat
        BY <2>2, <4>1, FS_CardinalityType
      <4> QED BY <4>1, <4>2
    <3>5. h[V] <= m * b + g[Of(V)]
      <4>1. V \notin B
        BY <2>1, <3>3
      <4> QED BY <2>3, <3>3, <3>4, <4>1
    <3>6. Of(V) = Of(T) \ {list[x]} /\ list[x] \in Of(T) /\ Of(T) \in SUBSET DOMAIN found
      <4>1. \A i \in V : list[i] # list[x]
        BY <3>1, <3>2, <3>3
      <4>2. Of(T) \in SUBSET DOMAIN found
        BY <2>2
      <4>3. Of(T) = Of(V) \cup {list[x]}
        BY <3>1, <3>2
      <4>4. list[x] \notin Of(V)
        BY <4>1
      <4> HIDE DEF Of, B
      <4>5. PICK A, C, y : A = Of(T) /\ C = Of(V) /\ y = list[x]
        OBVIOUS
      <4>6. C = A \ {y} /\ y \in A
        BY <4>3, <4>4, <4>5
      <4> QED BY <4>2, <4>5, <4>6
    <3>7. g[Of(T)] = found[list[x]].size + g[Of(V)] /\ g[Of(V)] \in Int
      <4>1. PICK W, y : W = Of(T) /\ y = list[x]
        OBVIOUS
      <4>2. g[W] = Sizes(found)[y] + g[W \ {y}] /\ g[W \ {y}] \in Int
        BY <1>6, <3>6, <4>1 DEF IsSum
      <4>3. Sizes(found)[y] = found[y].size
        BY <4>1 DEF Sizes
      <4> QED BY <3>6, <4>1, <4>2, <4>3
    <3>8. h[T] = EntryBytes(a.entries[x]) + h[V] /\ h[V] \in Int
      <4>1. h[T] = Bytes(a)[x] + h[V] /\ h[V] \in Int
        BY <1>4, <2>2, <3>1, <3>2, <3>3 DEF IsSum
      <4> QED BY <4>1 DEF Bytes
    <3>9. h[T] <= m * b + b + g[Of(T)]
      <4>1. PICK e \in Int, s \in Int, hv \in Int, gv \in Int, mb \in Int :
              /\ e = EntryBytes(a.entries[x]) /\ s = found[list[x]].size /\ hv = h[V]
              /\ gv = g[Of(V)] /\ mb = m * b
        <5>1. EntryBytes(a.entries[x]) \in Int
          BY <1>2
        <5>2. found[list[x]].size \in Int
          OBVIOUS
        <5>3. m * b \in Int
          OBVIOUS
        <5> QED BY <3>7, <3>8, <5>1, <5>2, <5>3
      <4>2. e <= b + s
        BY <1>2, <2>3, <4>1
      <4>3. hv <= mb + gv
        BY <3>5, <4>1
      <4>4. h[T] = e + hv /\ g[Of(T)] = s + gv
        BY <3>7, <3>8, <4>1
      <4>5. e + hv <= mb + b + (s + gv)
        BY <4>2, <4>3
      <4>6. h[T] <= mb + b + g[Of(T)]
        BY <4>4, <4>5
      <4> QED BY <4>1, <4>6
    <3>10. (m + 1) * b = m * b + b
      OBVIOUS
    <3> QED BY <2>2, <2>3, <3>4, <3>9, <3>10
  <2> QED BY <2>4, <2>5
<1>8. Of(1..n) = DOMAIN found
  <2>1. ASSUME NEW p \in Of(1..n)
        PROVE  p \in DOMAIN found
    <3>1. PICK i \in 1..n : p = list[i]
      BY <2>1
    <3> QED BY <3>1
  <2>2. ASSUME NEW p \in DOMAIN found
        PROVE  p \in Of(1..n)
    OBVIOUS
  <2> QED BY <2>1, <2>2
<1>9. PICK hn \in Int, gn \in Int : hn = h[1..n] /\ gn = g[DOMAIN found] /\ gn = Total(found)
  <2>1. \A p \in DOMAIN found : found[p].size \in Int
    OBVIOUS
  <2>2. Total(found) = g[DOMAIN found]
    BY <1>6, <2>1, TotalIs
  <2> QED BY <1>4, <1>6, <2>2 DEF IsSum
<1>10. PICK b \in Nat : b = 2 * Block - 1
  BY BundleAssumption
<1>11. hn <= n * b + gn
  <2>1. 1..n \notin B
    BY <1>7
  <2> QED BY <1>1, <1>8, <1>9, <1>10, <2>1
<1>12. n * b <= lim.files * b
  <2>0. PICK f \in Nat, m \in Nat : f = lim.files /\ m = n /\ m <= f
    OBVIOUS
  <2>1. PICK d \in Nat : f = n + d
    <3> HIDE <1>0
    <3>1. f - m \in Nat /\ f = m + (f - m)
      BY <2>0
    <3> QED BY <2>0, <3>1
  <2>2. (n + d) * b = n * b + d * b /\ d * b >= 0 /\ n * b \in Int /\ d * b \in Int
    BY Spread
  <2> QED BY <2>0, <2>1, <2>2
<1>13. TarBytes(a) = hn + 2 * Block
  <2>1. TarBytes(a) = h[1..n] + 2 * Block + 0
    BY <1>1, <1>4, TarBytesIs
  <2> QED BY <1>9, <2>1, BundleAssumption
<1>14. MaxArchive(lim) = lim.files * b + lim.total + 2 * Block
  BY <1>10 DEF MaxArchive
<1>15. n * b \in Int /\ lim.files * b \in Int /\ 2 * Block \in Int
  BY <1>10, BundleAssumption
<1>16. PICK x \in Int, y \in Int, z \in Int : x = n * b /\ y = lim.files * b /\ z = 2 * Block
  BY <1>15
<1>17. hn + z <= y + lim.total + z
  <2>1. x <= y /\ hn <= x + gn
    BY <1>11, <1>12, <1>16
  <2>2. PICK t \in Nat : t = lim.total /\ gn <= t
    BY <1>9
  <2> QED BY <2>1, <2>2
<1>18. PICK s \in Int, t \in Int : s = hn + z /\ t = y + lim.total + z
  OBVIOUS
<1>19. TarBytes(a) = s /\ MaxArchive(lim) = t /\ s <= t
  BY <1>13, <1>14, <1>16, <1>17, <1>18
<1> QED BY <1>19

-----------------------------------------------------------------------------
(* What the client has found so far, and what is on the wire.               *)

\* Files have sizes and texts, and none is the directory itself.
Measured ==
    /\ NoPath \notin DOMAIN tree
    /\ \A p \in DOMAIN tree :
          /\ tree[p] = [size |-> tree[p].size, text |-> tree[p].text]
          /\ tree[p].size \in Nat /\ tree[p].text # Unread.text
    /\ limits.file \in Nat /\ limits.total \in Nat /\ limits.files \in Nat

\* A file's size is that of what was read of it; one that was not read breaks a
\* limit.
FoundRead ==
    \A p \in DOMAIN walk.found :
        LET f == walk.found[p]
        IN  /\ f = [size |-> f.size, content |-> f.content] /\ f.size \in Nat
            /\ f.content # Unread => f.content.size = f.size
            /\ f.content = Unread =>
                 f.size > FileLimit(limits) \/ (p # ManifestPath /\ walk.total > limits.total)

\* What is left to walk is there once, and was not found yet.
TodoOnce ==
    /\ \A i, j \in 1..Len(walk.todo) : walk.todo[i] = walk.todo[j] => i = j
    /\ \A i \in 1..Len(walk.todo) : walk.todo[i] \notin DOMAIN walk.found

ReadsNext ==
    walk.reading # NoPath =>
        walk.todo # <<>> /\ walk.reading = Head(walk.todo) /\ Regular(walk.reading)

\* The size of the file that is being read, as it is going to be found.
Pending == IF walk.reading = NoPath THEN 0 ELSE ReadAtMost(tree[walk.reading], limits).size

\* The sizes counted are at most those found, unless a file became smaller.
Counts ==
    /\ walk.total \in Nat /\ walk.rewrites \in Nat
    /\ ~walk.shrank => walk.total <= Total(walk.found) + Pending

\* Nothing is left out, unless there are too many files.
Gathers ==
    \/ /\ walk.todo = <<>>
       /\ Cardinality(DOMAIN walk.found) > limits.files /\ Cardinality(Collected) > limits.files
    \/ DOMAIN walk.found \cup {p \in Range(walk.todo) : Regular(p)} = Collected

\* What was found of a directory that nobody changed is what it holds.
FoundAsIs ==
    walk.rewrites = 0 =>
        /\ \A p \in DOMAIN walk.found :
              /\ walk.found[p].size = tree[p].size
              /\ walk.found[p].content # Unread => walk.found[p].content = tree[p]
        /\ walk.reading # NoPath => tree[walk.reading].size <= FileLimit(limits)

ClientTold == told.client # Untold => walk.todo = <<>> /\ told.client = ClientProblems

WalkInv ==
    /\ BundleInv /\ Measured /\ FoundRead /\ TodoOnce /\ ReadsNext /\ Counts /\ Gathers
    /\ FoundAsIs /\ ClientTold

\* An archive has entries of files that were read.
Shaped(a) ==
    /\ a = [entries |-> a.entries, zeros |-> a.zeros, ragged |-> a.ragged]
    /\ a.ragged \in {0, 1} /\ a.entries \in Seq(Range(a.entries))
    /\ \A e \in Range(a.entries) :
          /\ e = [path |-> e.path, size |-> e.size, content |-> e.content, header |-> e.header,
                  padding |-> e.padding]
          /\ e.path \in Seq(Names) /\ e.content.size \in Nat /\ e.content # Unread

\* What the server says of the archive it received.
Answer ==
    IF ~Supports(peer.server, Version) THEN {"unsupported_version"}
    ELSE IF ReadFaults(wire, limits) # {} THEN ReadFaults(wire, limits)
    ELSE Checked(Entries(wire), limits)

Speaks(r) == r = [min |-> r.min, max |-> r.max] /\ r.min \in Nat /\ r.max \in Nat

Sent ==
    /\ peer = [client |-> peer.client, server |-> peer.server, seen |-> peer.seen]
    /\ Speaks(peer.client) /\ Speaks(peer.server) /\ Speaks(peer.seen)
    /\ wire # NoArchive => Version # NoVersion
    /\ told.server # Untold => told.server = Answer

WireInv == WalkInv /\ Shaped(wire) /\ Sent

-----------------------------------------------------------------------------
(* The walk.                                                                *)

LEMMA LesserOf ==
    ASSUME NEW a \in Int, NEW b \in Int
    PROVE  Min({a, b}) = IF a <= b THEN a ELSE b
<1>1. PICK m : m = (IF a <= b THEN a ELSE b) /\ m \in {a, b} /\ m <= a /\ m <= b /\ m \in Int
  OBVIOUS
<1>2. \A x \in {a, b} : (\A y \in {a, b} : x <= y) => x = m
  BY <1>1
<1>3. Min({a, b}) = CHOOSE x \in {a, b} : \A y \in {a, b} : x <= y
  BY DEF Min
<1> QED BY <1>1, <1>2, <1>3

LEMMA FileLimitIs ==
    ASSUME NEW lim, lim.file \in Nat
    PROVE  FileLimit(lim) \in Nat /\ FileLimit(lim) <= TarMax
<1>1. TarMax \in Nat
  BY BundleAssumption
<1>2. FileLimit(lim) = IF lim.file <= TarMax THEN lim.file ELSE TarMax
  BY <1>1, LesserOf DEF FileLimit
<1> QED BY <1>1, <1>2

\* A file is read whole, or to a byte more than the limit.
LEMMA ReadIs ==
    ASSUME NEW c, c = [size |-> c.size, text |-> c.text], c.size \in Nat,
           NEW lim, lim.file \in Nat
    PROVE  LET fl == FileLimit(lim) IN
           ReadAtMost(c, lim) = [size |-> IF c.size <= fl THEN c.size ELSE fl + 1, text |-> c.text]
<1>1. PICK fl \in Nat : fl = FileLimit(lim)
  BY FileLimitIs
<1>2. Min({c.size, fl + 1}) = IF c.size <= fl THEN c.size ELSE fl + 1
  <2>1. Min({c.size, fl + 1}) = IF c.size <= fl + 1 THEN c.size ELSE fl + 1
    BY LesserOf
  <2> QED BY <2>1
<1>3. ReadAtMost(c, lim) = [c EXCEPT !.size = Min({c.size, fl + 1})]
  BY <1>1 DEF ReadAtMost
<1> QED BY <1>1, <1>2, <1>3

LEMMA TailIs ==
    ASSUME NEW X, NEW t \in Seq(X), t # <<>>
    PROVE  /\ Head(t) = t[1] /\ 1 \in 1..Len(t) /\ Len(Tail(t)) = Len(t) - 1
           /\ \A i \in 1..Len(Tail(t)) : Tail(t)[i] = t[i + 1] /\ i + 1 \in 1..Len(t)
           /\ Range(t) = Range(Tail(t)) \cup {Head(t)}
<1>1. /\ Head(t) = t[1] /\ 1 \in 1..Len(t) /\ Len(t) \in Nat /\ DOMAIN t = 1..Len(t)
      /\ Len(Tail(t)) = Len(t) - 1 /\ DOMAIN Tail(t) = 1..(Len(t) - 1)
      /\ \A i \in 1..(Len(t) - 1) : Tail(t)[i] = t[i + 1] /\ i + 1 \in 1..Len(t)
  BY EmptySeq
<1>2. ASSUME NEW x \in Range(t)
      PROVE  x \in Range(Tail(t)) \cup {Head(t)}
  <2>1. PICK i \in 1..Len(t) : x = t[i]
    BY <1>1 DEF Range
  <2>2. CASE i = 1
    BY <1>1, <2>1, <2>2
  <2>3. CASE i # 1
    <3>1. PICK k \in 1..(Len(t) - 1) : i = k + 1
      BY <1>1, <2>3
    <3> QED BY <1>1, <2>1, <3>1 DEF Range
  <2> QED BY <2>2, <2>3
<1>3. Range(Tail(t)) \subseteq Range(t) /\ Head(t) \in Range(t)
  BY <1>1 DEF Range
<1> QED BY <1>1, <1>2, <1>3

LEMMA TodoShrinks ==
    ASSUME Collectable, TodoOnce, walk.todo # <<>>
    PROVE  /\ Head(walk.todo) \in DOMAIN tree /\ Head(walk.todo) \notin DOMAIN walk.found
           /\ \A i, j \in 1..Len(Tail(walk.todo)) : Tail(walk.todo)[i] = Tail(walk.todo)[j] => i = j
           /\ \A i \in 1..Len(Tail(walk.todo)) :
                 Tail(walk.todo)[i] \notin DOMAIN walk.found \cup {Head(walk.todo)}
           /\ Range(walk.todo) = Range(Tail(walk.todo)) \cup {Head(walk.todo)}
<1>1. PICK t \in Seq(DOMAIN tree) : t = walk.todo
  BY DEF Collectable
<1>2. /\ Head(t) = t[1] /\ 1 \in 1..Len(t) /\ Len(Tail(t)) = Len(t) - 1
      /\ \A i \in 1..Len(Tail(t)) : Tail(t)[i] = t[i + 1] /\ i + 1 \in 1..Len(t)
      /\ Range(t) = Range(Tail(t)) \cup {Head(t)}
  BY <1>1, TailIs
<1>3. /\ \A i, j \in 1..Len(t) : t[i] = t[j] => i = j
      /\ \A i \in 1..Len(t) : t[i] \notin DOMAIN walk.found /\ t[i] \in DOMAIN tree
  BY <1>1 DEF TodoOnce
<1>4. ASSUME NEW i \in 1..Len(Tail(t)), NEW j \in 1..Len(Tail(t)), Tail(t)[i] = Tail(t)[j]
      PROVE  i = j
  <2>1. i + 1 = j + 1
    BY <1>2, <1>3, <1>4
  <2> QED BY <2>1
<1>5. ASSUME NEW i \in 1..Len(Tail(t))
      PROVE  Tail(t)[i] \notin DOMAIN walk.found \cup {Head(t)}
  <2>1. i + 1 # 1
    OBVIOUS
  <2> QED BY <1>2, <1>3, <2>1
<1> QED BY <1>1, <1>2, <1>3, <1>4, <1>5

\* One more file is found.
LEMMA FoundSizes ==
    ASSUME FoundRead, NEW p \in DOMAIN walk.found
    PROVE  walk.found[p].size \in Nat
BY DEF FoundRead

OneMore(found, more, p, size, content) ==
    /\ DOMAIN more = DOMAIN found \cup {p}
    /\ more[p] = [size |-> size, content |-> content]
    /\ \A q \in DOMAIN found : more[q] = found[q]
    /\ Total(found) \in Int /\ Total(more) = Total(found) + size

LEMMA OneFound ==
    ASSUME Collectable, FoundRead, NEW p, p \in DOMAIN tree, p \notin DOMAIN walk.found,
           NEW size \in Nat, NEW content, NEW more, more = Found(p, size, content)
    PROVE  OneMore(walk.found, more, p, size, content)
<1>1. /\ DOMAIN more = DOMAIN walk.found \cup {p}
      /\ more[p] = [size |-> size, content |-> content]
      /\ \A q \in DOMAIN walk.found : more[q] = walk.found[q]
  BY DEF Found
<1>2. IsFiniteSet(DOMAIN walk.found)
  BY FS_Subset DEF Collectable
<1>3. \A q \in DOMAIN walk.found : walk.found[q].size \in Int
  BY FoundSizes
<1>4. more[p].size = size
  BY <1>1
<1>5. \A q \in DOMAIN more : more[q].size \in Int
  BY <1>1, <1>3, <1>4
<1>6. Total(walk.found) \in Int /\ Total(more) = Total(walk.found) + more[p].size
  BY <1>1, <1>2, <1>5, TotalGrows
<1> QED BY <1>1, <1>4, <1>6 DEF OneMore

LEMMA TotalInt ==
    ASSUME Collectable, FoundRead
    PROVE  Total(walk.found) \in Int
<1>1. IsFiniteSet(DOMAIN walk.found)
  BY FS_Subset DEF Collectable
<1>2. Sizes(walk.found) \in [DOMAIN walk.found -> Int]
  BY FoundSizes DEF Sizes
<1>3. PICK h : IsSum(h, DOMAIN walk.found, Sizes(walk.found))
  BY <1>1, <1>2, SumExists
<1>4. \A p \in DOMAIN walk.found : walk.found[p].size \in Int
  BY FoundSizes
<1>5. Total(walk.found) = h[DOMAIN walk.found]
  BY <1>1, <1>3, <1>4, TotalIs
<1> QED BY <1>3, <1>5 DEF IsSum

\* What is left of the walk when part of it changes.
Shape(w) ==
    w = [todo |-> w.todo, reading |-> w.reading, found |-> w.found, links |-> w.links,
         total |-> w.total, rewrites |-> w.rewrites, shrank |-> w.shrank]

WalkOf(t, r, f, l, n, k, s) ==
    [todo |-> t, reading |-> r, found |-> f, links |-> l, total |-> n, rewrites |-> k, shrank |-> s]

LEMMA LinkWith ==
    ASSUME NEW w, Shape(w), NEW t, NEW l, NEW v, v = [w EXCEPT !.todo = t, !.links = l]
    PROVE  v = WalkOf(t, w.reading, w.found, l, w.total, w.rewrites, w.shrank)
<1>1. Shape(v)
  BY DEF Shape
<1>2. v.todo = t /\ v.links = l
  BY DEF Shape
<1>3. v.reading = w.reading /\ v.found = w.found /\ v.total = w.total /\ v.rewrites = w.rewrites
      /\ v.shrank = w.shrank
  BY DEF Shape
<1> QED BY <1>1, <1>2, <1>3 DEF Shape, WalkOf

LEMMA StopWith ==
    ASSUME NEW w, Shape(w), NEW t, NEW f, NEW v, v = [w EXCEPT !.todo = t, !.found = f]
    PROVE  v = WalkOf(t, w.reading, f, w.links, w.total, w.rewrites, w.shrank)
<1>1. Shape(v)
  BY DEF Shape
<1>2. v.todo = t /\ v.found = f
  BY DEF Shape
<1>3. v.reading = w.reading /\ v.links = w.links /\ v.total = w.total /\ v.rewrites = w.rewrites
      /\ v.shrank = w.shrank
  BY DEF Shape
<1> QED BY <1>1, <1>2, <1>3 DEF Shape, WalkOf

LEMMA ReadWith ==
    ASSUME NEW w, Shape(w), NEW r, NEW n, NEW v, v = [w EXCEPT !.total = n, !.reading = r]
    PROVE  v = WalkOf(w.todo, r, w.found, w.links, n, w.rewrites, w.shrank)
<1>1. Shape(v)
  BY DEF Shape
<1>2. v.reading = r /\ v.total = n
  BY DEF Shape
<1>3. v.todo = w.todo /\ v.found = w.found /\ v.links = w.links /\ v.rewrites = w.rewrites /\ v.shrank = w.shrank
  BY DEF Shape
<1> QED BY <1>1, <1>2, <1>3 DEF Shape, WalkOf

LEMMA PassWith ==
    ASSUME NEW w, Shape(w), NEW t, NEW f, NEW n, NEW v, v = [w EXCEPT !.todo = t, !.total = n, !.found = f]
    PROVE  v = WalkOf(t, w.reading, f, w.links, n, w.rewrites, w.shrank)
<1>1. Shape(v)
  BY DEF Shape
<1>2. v.todo = t /\ v.found = f /\ v.total = n
  BY DEF Shape
<1>3. v.reading = w.reading /\ v.links = w.links /\ v.rewrites = w.rewrites /\ v.shrank = w.shrank
  BY DEF Shape
<1> QED BY <1>1, <1>2, <1>3 DEF Shape, WalkOf

LEMMA FoundWith ==
    ASSUME NEW w, Shape(w), NEW t, NEW r, NEW f, NEW v, v = [w EXCEPT !.todo = t, !.reading = r, !.found = f]
    PROVE  v = WalkOf(t, r, f, w.links, w.total, w.rewrites, w.shrank)
<1>1. Shape(v)
  BY DEF Shape
<1>2. v.todo = t /\ v.reading = r /\ v.found = f
  BY DEF Shape
<1>3. v.links = w.links /\ v.total = w.total /\ v.rewrites = w.rewrites /\ v.shrank = w.shrank
  BY DEF Shape
<1> QED BY <1>1, <1>2, <1>3 DEF Shape, WalkOf

\* What the walk's steps leave alone.
LEMMA RestOfWalkInv ==
    ASSUME WalkInv, Walking, UNCHANGED <<tree, limits, told>>, BundleInv',
           FoundRead', TodoOnce', ReadsNext', Counts', Gathers', FoundAsIs'
    PROVE  WalkInv'
<1>1. Measured'
  BY DEF WalkInv, Measured, NoPath
<1>2. ClientTold'
  BY DEF Walking, ClientTold
<1> QED BY <1>1, <1>2 DEF WalkInv

LEMMA LookWalks ==
    ASSUME WalkInv, Look
    PROVE  WalkInv'
<1>0. /\ BundleInv' /\ Walking /\ UNCHANGED <<tree, limits, told>>
      /\ Collectable /\ Measured /\ FoundRead /\ TodoOnce /\ ReadsNext /\ Counts /\ Gathers
      /\ FoundAsIs /\ walk.reading = NoPath /\ walk.todo # <<>>
  BY LookKeeps DEF WalkInv, BundleInv, Look, Walking
<1>1. PICK p \in DOMAIN tree : p = Head(walk.todo) /\ p \notin DOMAIN walk.found
  BY <1>0, TodoShrinks
<1>2. PICK size \in Nat : size = tree[p].size
  BY <1>0 DEF Measured
<1>3. PICK rest : rest = Tail(walk.todo)
  OBVIOUS
<1>4. /\ \A i, j \in 1..Len(rest) : rest[i] = rest[j] => i = j
      /\ \A i \in 1..Len(rest) : rest[i] \notin DOMAIN walk.found \cup {p}
      /\ Range(walk.todo) = Range(rest) \cup {p}
  BY <1>0, <1>1, <1>3, TodoShrinks
<1>5. DOMAIN walk.found \cup {q \in Range(walk.todo) : Regular(q)} = Collected /\ Collected' = Collected
  BY <1>0 DEF Gathers, Collected, Regular
<1>6. Pending = 0 /\ walk.total \in Nat /\ walk.rewrites \in Nat /\ Total(walk.found) \in Int
      /\ (~walk.shrank => walk.total <= Total(walk.found))
  <2>1. Pending = 0 /\ Total(walk.found) \in Int
    BY <1>0, TotalInt DEF Pending
  <2> QED BY <1>0, <2>1 DEF Counts
<1>7. PICK fl \in Nat : fl = FileLimit(limits)
  BY <1>0, FileLimitIs DEF Measured
<1>8. Shape(walk) /\ walk.reading = NoPath
  BY <1>0 DEF Collectable, Shape
<1>9. CASE ~Regular(p) /\ walk' = [walk EXCEPT !.todo = Tail(@), !.links = TRUE]
  <2>1. walk' = [todo |-> rest, reading |-> NoPath, found |-> walk.found, links |-> TRUE,
                 total |-> walk.total, rewrites |-> walk.rewrites, shrank |-> walk.shrank]
    <3>1. walk' = [walk EXCEPT !.todo = rest, !.links = TRUE]
      BY <1>3, <1>9
    <3> QED BY <1>8, <3>1, LinkWith DEF WalkOf
  <2>2. FoundRead' /\ FoundAsIs'
    BY <1>0, <2>1 DEF FoundRead, FoundAsIs, NoPath
  <2>3. TodoOnce' /\ ReadsNext'
    BY <1>4, <2>1 DEF TodoOnce, ReadsNext, NoPath
  <2>4. Counts'
    <3>1. Pending' = 0
      BY <2>1 DEF Pending, NoPath
    <3> QED BY <1>6, <2>1, <3>1 DEF Counts
  <2>5. Gathers'
    <3>1. {q \in Range(rest) : Regular(q)} = {q \in Range(walk.todo) : Regular(q)}
      BY <1>4, <1>9
    <3>2. \A q : Regular(q)' <=> Regular(q)
      BY <1>0 DEF Regular
    <3> QED BY <1>5, <2>1, <3>1, <3>2 DEF Gathers
  <2> QED BY <1>0, <2>2, <2>3, <2>4, <2>5, RestOfWalkInv
<1>10. CASE /\ Cardinality(DOMAIN walk.found) > limits.files
            /\ walk' = [walk EXCEPT !.todo = <<>>, !.found = RestOfWalk]
  <2>1. walk' = [todo |-> << >>, reading |-> NoPath, found |-> RestOfWalk, links |-> walk.links,
                 total |-> walk.total, rewrites |-> walk.rewrites, shrank |-> walk.shrank]
    <3>1. PICK more : more = RestOfWalk
      OBVIOUS
    <3>2. walk' = [walk EXCEPT !.todo = << >>, !.found = more]
      BY <1>10, <3>1
    <3> QED BY <1>8, <3>1, <3>2, StopWith DEF WalkOf
  <2>2. TodoOnce' /\ ReadsNext'
    BY <2>1 DEF TodoOnce, ReadsNext, NoPath
  <2>3. /\ IsFiniteSet(Collected) /\ DOMAIN walk.found \subseteq Collected
        /\ IsFiniteSet(DOMAIN walk.found)
    BY <1>0, <1>5, FS_Subset DEF Collectable, Collected
  <2>4. limits.files \in Nat /\ Cardinality(DOMAIN walk.found) \in Nat /\ Cardinality(Collected) \in Nat
    BY <1>0, <2>3, FS_CardinalityType DEF Measured
  <2>5. Cardinality(Collected) > limits.files
    <3>1. Cardinality(DOMAIN walk.found) <= Cardinality(Collected)
      BY <2>3, FS_Subset
    <3> QED BY <1>10, <2>4, <3>1
  <2>6. Pending' = 0
    BY <2>1 DEF Pending, NoPath
  <2>7. CASE RestOfWalk = walk.found
    <3>1. FoundRead' /\ FoundAsIs'
      BY <1>0, <2>1, <2>7 DEF FoundRead, FoundAsIs, NoPath
    <3>2. Counts'
      BY <1>6, <2>1, <2>6, <2>7 DEF Counts
    <3>3. Gathers'
      BY <1>0, <1>5, <1>10, <2>1, <2>5, <2>7 DEF Gathers
    <3> QED BY <1>0, <2>2, <3>1, <3>2, <3>3, RestOfWalkInv
  <2>8. CASE ManifestPath \notin DOMAIN walk.found /\ ManifestPath \in DOMAIN tree
             /\ Regular(ManifestPath)
    <3>1. PICK c : c = tree[ManifestPath]
      OBVIOUS
    <3>2. c = [size |-> c.size, text |-> c.text] /\ c.size \in Nat /\ c.text # Unread.text
          /\ limits.file \in Nat
      BY <1>0, <2>8, <3>1 DEF Measured
    <3>3. PICK content :
            /\ RestOfWalk = Found(ManifestPath, c.size, content)
            /\ content = IF c.size <= fl THEN ReadAtMost(c, limits) ELSE Unread
      BY <1>7, <2>8, <3>1 DEF RestOfWalk
    <3>4. c.size <= fl => ReadAtMost(c, limits) = c
      BY <1>7, <3>2, ReadIs
    <3>5. content # Unread => content = c /\ content.size = c.size
      BY <3>3, <3>4
    <3>6. content = Unread => c.size > fl
      <4>1. c # Unread
        BY <3>2
      <4> QED BY <3>2, <3>3, <3>4, <4>1
    <3>7. PICK more : more = RestOfWalk
      OBVIOUS
    <3>8. /\ DOMAIN more = DOMAIN walk.found \cup {ManifestPath}
          /\ more[ManifestPath] = [size |-> c.size, content |-> content]
          /\ \A q \in DOMAIN walk.found : more[q] = walk.found[q]
          /\ Total(more) = Total(walk.found) + c.size
      <4>1. more = Found(ManifestPath, c.size, content)
        BY <3>3, <3>7
      <4>2. OneMore(walk.found, more, ManifestPath, c.size, content)
        BY <1>0, <2>8, <3>2, <4>1, OneFound
      <4> QED BY <4>2 DEF OneMore
    <3>9. walk'.found = more /\ walk'.total = walk.total /\ walk'.rewrites = walk.rewrites
          /\ walk'.shrank = walk.shrank /\ walk'.todo = << >> /\ walk'.reading = NoPath
      BY <2>1, <3>7
    <3>10. FoundRead'
      <4> SUFFICES ASSUME NEW q \in DOMAIN more
                   PROVE  LET f == more[q]
                          IN  /\ f = [size |-> f.size, content |-> f.content] /\ f.size \in Nat
                              /\ f.content # Unread => f.content.size = f.size
                              /\ f.content = Unread =>
                                   f.size > fl \/ (q # ManifestPath /\ walk.total > limits.total)
        BY <1>0, <1>7, <3>9 DEF FoundRead, Unread
      <4>1. CASE q = ManifestPath
        BY <3>2, <3>5, <3>6, <3>8, <4>1
      <4>2. CASE q # ManifestPath
        BY <1>0, <1>7, <3>8, <4>2 DEF FoundRead
      <4> QED BY <4>1, <4>2
    <3>11. FoundAsIs'
      <4> SUFFICES ASSUME walk.rewrites = 0, NEW q \in DOMAIN more
                   PROVE  /\ more[q].size = tree[q].size
                          /\ more[q].content # Unread => more[q].content = tree[q]
        BY <1>0, <3>9 DEF FoundAsIs, NoPath, Unread
      <4>1. CASE q = ManifestPath
        BY <3>1, <3>5, <3>8, <4>1
      <4>2. CASE q # ManifestPath
        BY <1>0, <3>8, <4>2 DEF FoundAsIs
      <4> QED BY <4>1, <4>2
    <3>12. Counts'
      BY <1>6, <2>6, <3>2, <3>8, <3>9 DEF Counts
    <3>13. Gathers'
      <4>1. Cardinality(DOMAIN walk.found) <= Cardinality(DOMAIN more) /\ Cardinality(DOMAIN more) \in Nat
        <5>1. IsFiniteSet(DOMAIN more) /\ DOMAIN walk.found \in SUBSET DOMAIN more
          BY <2>3, <3>8, FS_AddElement
        <5> QED BY <5>1, FS_Subset, FS_CardinalityType
      <4>2. Cardinality(DOMAIN more) > limits.files
        BY <1>10, <2>4, <4>1
      <4> QED BY <1>0, <1>5, <2>5, <3>9, <4>2 DEF Gathers
    <3> QED BY <1>0, <2>2, <3>10, <3>11, <3>12, <3>13, RestOfWalkInv
  <2> QED BY <2>7, <2>8 DEF RestOfWalk
<1>11. CASE /\ Regular(p) /\ Fits(p, size)
            /\ walk' = [walk EXCEPT !.total = @ + size, !.reading = p]
  <2>1. walk' = [todo |-> walk.todo, reading |-> p, found |-> walk.found, links |-> walk.links,
                 total |-> walk.total + size, rewrites |-> walk.rewrites, shrank |-> walk.shrank]
    BY <1>8, <1>11, ReadWith DEF WalkOf
  <2>2. size <= fl
    BY <1>7, <1>11 DEF Fits
  <2>3. FoundRead'
    <3>1. limits.total \in Nat
      BY <1>0 DEF Measured
    <3>2. walk.total > limits.total => walk.total + size > limits.total
      BY <1>6, <3>1
    <3> QED BY <1>0, <2>1, <3>2 DEF FoundRead, Unread
  <2>4. TodoOnce' /\ ReadsNext'
    BY <1>0, <1>1, <1>11, <2>1 DEF TodoOnce, ReadsNext, NoPath, Regular
  <2>5. Pending' = size
    <3>1. p # NoPath
      BY <1>0 DEF Measured
    <3>2. ReadAtMost(tree[p], limits).size = size
      BY <1>0, <1>2, <1>7, <2>2, ReadIs DEF Measured
    <3> QED BY <1>0, <2>1, <3>1, <3>2 DEF Pending, NoPath
  <2>6. Counts'
    BY <1>6, <2>1, <2>5 DEF Counts
  <2>7. Gathers'
    <3>1. \A q : Regular(q)' <=> Regular(q)
      BY <1>0 DEF Regular
    <3> QED BY <1>5, <2>1, <3>1 DEF Gathers
  <2>8. FoundAsIs'
    BY <1>0, <1>2, <1>7, <2>1, <2>2 DEF FoundAsIs, Unread, NoPath
  <2> QED BY <1>0, <2>3, <2>4, <2>6, <2>7, <2>8, RestOfWalkInv
<1>12. CASE /\ Regular(p) /\ ~Fits(p, size)
            /\ walk' = [walk EXCEPT !.todo = Tail(@), !.total = @ + size,
                                    !.found = Found(p, size, Unread)]
  <2>1. PICK more : more = Found(p, size, Unread)
    OBVIOUS
  <2>2. /\ DOMAIN more = DOMAIN walk.found \cup {p}
        /\ more[p] = [size |-> size, content |-> Unread]
        /\ \A q \in DOMAIN walk.found : more[q] = walk.found[q]
        /\ Total(more) = Total(walk.found) + size
    <3>1. OneMore(walk.found, more, p, size, Unread)
      BY <1>0, <1>1, <1>2, <2>1, OneFound
    <3> QED BY <3>1 DEF OneMore
  <2>3. walk' = [todo |-> rest, reading |-> NoPath, found |-> more, links |-> walk.links,
                 total |-> walk.total + size, rewrites |-> walk.rewrites, shrank |-> walk.shrank]
    <3>1. PICK total : total = walk.total + size
      OBVIOUS
    <3>2. walk' = [walk EXCEPT !.todo = rest, !.total = total, !.found = more]
      BY <1>3, <1>12, <2>1, <3>1
    <3>3. walk' = WalkOf(rest, walk.reading, more, walk.links, total, walk.rewrites, walk.shrank)
      BY <1>8, <3>2, PassWith
    <3> QED BY <1>8, <3>1, <3>3 DEF WalkOf
  <2>4. walk'.found = more /\ walk'.total = walk.total + size /\ walk'.rewrites = walk.rewrites
        /\ walk'.shrank = walk.shrank /\ walk'.todo = rest /\ walk'.reading = NoPath
    BY <2>3
  <2>5. limits.total \in Nat
    BY <1>0 DEF Measured
  <2>6. FoundRead'
    <3> SUFFICES ASSUME NEW q \in DOMAIN more
                 PROVE  LET f == more[q]
                        IN  /\ f = [size |-> f.size, content |-> f.content] /\ f.size \in Nat
                            /\ f.content # Unread => f.content.size = f.size
                            /\ f.content = Unread =>
                                 \/ f.size > fl
                                 \/ q # ManifestPath /\ walk.total + size > limits.total
      BY <1>0, <1>7, <2>4 DEF FoundRead, Unread
    <3>1. CASE q = p
      <4>1. size > fl \/ (p # ManifestPath /\ walk.total + size > limits.total)
        BY <1>6, <1>7, <1>12, <2>5 DEF Fits
      <4> QED BY <2>2, <3>1, <4>1
    <3>2. CASE q # p
      <4>1. walk.total > limits.total => walk.total + size > limits.total
        BY <1>6, <2>5
      <4> QED BY <1>0, <1>7, <2>2, <3>2, <4>1 DEF FoundRead
    <3> QED BY <3>1, <3>2
  <2>7. TodoOnce' /\ ReadsNext'
    BY <1>4, <2>2, <2>4 DEF TodoOnce, ReadsNext, NoPath
  <2>8. Counts'
    <3>1. Pending' = 0
      BY <2>4 DEF Pending, NoPath
    <3> QED BY <1>6, <2>2, <2>4, <3>1 DEF Counts
  <2>9. Gathers'
    <3>1. \A q : Regular(q)' <=> Regular(q)
      BY <1>0 DEF Regular
    <3>2. DOMAIN more \cup {q \in Range(rest) : Regular(q)}
            = DOMAIN walk.found \cup {q \in Range(walk.todo) : Regular(q)}
      BY <1>4, <1>12, <2>2
    <3> QED BY <1>5, <2>4, <3>1, <3>2 DEF Gathers
  <2>10. FoundAsIs'
    <3> SUFFICES ASSUME walk.rewrites = 0, NEW q \in DOMAIN more
                 PROVE  /\ more[q].size = tree[q].size
                        /\ more[q].content # Unread => more[q].content = tree[q]
      BY <1>0, <2>4 DEF FoundAsIs, NoPath, Unread
    <3>1. CASE q = p
      BY <1>2, <2>2, <3>1
    <3>2. CASE q # p
      BY <1>0, <2>2, <3>2 DEF FoundAsIs
    <3> QED BY <3>1, <3>2
  <2> QED BY <1>0, <2>6, <2>7, <2>8, <2>9, <2>10, RestOfWalkInv
<1> QED BY <1>0, <1>1, <1>2, <1>9, <1>10, <1>11, <1>12 DEF Look

LEMMA ReadWalks ==
    ASSUME WalkInv, Read
    PROVE  WalkInv'
<1>0. /\ BundleInv' /\ Walking /\ UNCHANGED <<tree, limits, told>>
      /\ Collectable /\ Measured /\ FoundRead /\ TodoOnce /\ ReadsNext /\ Counts /\ Gathers
      /\ FoundAsIs /\ walk.reading # NoPath /\ walk.todo # <<>>
  BY ReadKeeps DEF WalkInv, BundleInv, Read, Walking
<1>1. PICK p \in DOMAIN tree : p = walk.reading /\ p = Head(walk.todo) /\ p \notin DOMAIN walk.found /\ Regular(p)
  BY <1>0, TodoShrinks DEF ReadsNext
<1>2. PICK c : c = tree[p] /\ c = [size |-> c.size, text |-> c.text] /\ c.size \in Nat /\ c.text # Unread.text
  BY <1>0 DEF Measured
<1>3. PICK rest : rest = Tail(walk.todo)
  OBVIOUS
<1>4. /\ \A i, j \in 1..Len(rest) : rest[i] = rest[j] => i = j
      /\ \A i \in 1..Len(rest) : rest[i] \notin DOMAIN walk.found \cup {p}
      /\ Range(walk.todo) = Range(rest) \cup {p}
  BY <1>0, <1>1, <1>3, TodoShrinks
<1>5. DOMAIN walk.found \cup {q \in Range(walk.todo) : Regular(q)} = Collected /\ Collected' = Collected
  BY <1>0 DEF Gathers, Collected, Regular
<1>6. PICK fl \in Nat : fl = FileLimit(limits)
  BY <1>0, FileLimitIs DEF Measured
<1>7. PICK r : r = ReadAtMost(c, limits) /\ r.size \in Nat /\ r # Unread /\ (c.size <= fl => r = c)
  <2>1. ReadAtMost(c, limits) = [size |-> IF c.size <= fl THEN c.size ELSE fl + 1, text |-> c.text]
    BY <1>0, <1>2, <1>6, ReadIs DEF Measured
  <2>2. PICK n \in Nat : n = IF c.size <= fl THEN c.size ELSE fl + 1
    BY <1>2
  <2> QED BY <1>2, <2>1, <2>2
<1>8. PICK size \in Nat : size = r.size
  BY <1>7
<1>9. PICK more : more = Found(p, size, r)
  OBVIOUS
<1>10. OneMore(walk.found, more, p, size, r)
  BY <1>0, <1>1, <1>9, OneFound
<1>11. /\ DOMAIN more = DOMAIN walk.found \cup {p}
       /\ more[p] = [size |-> size, content |-> r]
       /\ \A q \in DOMAIN walk.found : more[q] = walk.found[q]
       /\ Total(walk.found) \in Int /\ Total(more) = Total(walk.found) + size
  BY <1>10 DEF OneMore
<1>12. walk' = [walk EXCEPT !.todo = rest, !.reading = NoPath, !.found = more]
  BY <1>1, <1>2, <1>3, <1>7, <1>8, <1>9 DEF Read
<1>13. /\ walk'.todo = rest /\ walk'.reading = NoPath /\ walk'.found = more
       /\ walk'.total = walk.total /\ walk'.rewrites = walk.rewrites /\ walk'.shrank = walk.shrank
  <2>1. Shape(walk)
    BY <1>0 DEF Collectable, Shape
  <2>2. walk' = WalkOf(rest, NoPath, more, walk.links, walk.total, walk.rewrites, walk.shrank)
    BY <1>12, <2>1, FoundWith
  <2> QED BY <2>2 DEF WalkOf
<1>14. FoundRead'
  <2> SUFFICES ASSUME NEW q \in DOMAIN more
               PROVE  LET f == more[q]
                      IN  /\ f = [size |-> f.size, content |-> f.content] /\ f.size \in Nat
                          /\ f.content # Unread => f.content.size = f.size
                          /\ f.content = Unread =>
                               f.size > fl \/ (q # ManifestPath /\ walk.total > limits.total)
    BY <1>0, <1>6, <1>13 DEF FoundRead, Unread
  <2>1. CASE q = p
    BY <1>7, <1>8, <1>11, <2>1
  <2>2. CASE q # p
    BY <1>0, <1>6, <1>11, <2>2 DEF FoundRead
  <2> QED BY <2>1, <2>2
<1>15. FoundAsIs'
  <2> SUFFICES ASSUME walk.rewrites = 0, NEW q \in DOMAIN more
               PROVE  /\ more[q].size = tree[q].size
                      /\ more[q].content # Unread => more[q].content = tree[q]
    BY <1>0, <1>13 DEF FoundAsIs, NoPath, Unread
  <2>1. CASE q = p
    <3>1. c.size <= fl
      BY <1>0, <1>1, <1>2, <1>6 DEF FoundAsIs
    <3> QED BY <1>2, <1>7, <1>8, <1>11, <2>1, <3>1
  <2>2. CASE q # p
    BY <1>0, <1>11, <2>2 DEF FoundAsIs
  <2> QED BY <2>1, <2>2
<1>16. Counts'
  <2>1. Pending' = 0
    BY <1>13 DEF Pending, NoPath
  <2>2. Pending = size
    BY <1>0, <1>1, <1>2, <1>7, <1>8 DEF Pending
  <2>3. walk.total \in Nat /\ walk.rewrites \in Nat /\ (~walk.shrank => walk.total <= Total(walk.found) + size)
    BY <1>0, <2>2 DEF Counts
  <2> QED BY <1>11, <1>13, <2>1, <2>3 DEF Counts
<1>17. TodoOnce' /\ ReadsNext'
  BY <1>4, <1>11, <1>13 DEF TodoOnce, ReadsNext, NoPath
<1>18. Gathers'
  <2>1. \A q : Regular(q)' <=> Regular(q)
    BY <1>0 DEF Regular
  <2>2. DOMAIN more \cup {q \in Range(rest) : Regular(q)}
          = DOMAIN walk.found \cup {q \in Range(walk.todo) : Regular(q)}
    BY <1>1, <1>4, <1>11
  <2> QED BY <1>5, <1>13, <2>1, <2>2 DEF Gathers
<1> QED BY <1>0, <1>14, <1>15, <1>16, <1>17, <1>18, RestOfWalkInv

LEMMA RewriteWalks ==
    ASSUME WalkInv, Rewrite
    PROVE  WalkInv'
<1>0. /\ BundleInv' /\ Walking /\ UNCHANGED <<limits, told>>
      /\ Collectable /\ Measured /\ FoundRead /\ TodoOnce /\ ReadsNext /\ Counts /\ Gathers
      /\ walk.todo # <<>>
  BY RewriteKeeps DEF WalkInv, BundleInv, Rewrite, Walking
<1>1. PICK p \in DOMAIN tree, size \in Rewrites :
        /\ tree' = [tree EXCEPT ![p].size = size]
        /\ walk' = [walk EXCEPT !.rewrites = @ + 1, !.shrank = @ \/ size < tree[p].size]
  BY DEF Rewrite
<1>2. /\ walk'.todo = walk.todo /\ walk'.reading = walk.reading /\ walk'.found = walk.found
      /\ walk'.total = walk.total /\ walk'.rewrites = walk.rewrites + 1
      /\ walk'.shrank = (walk.shrank \/ size < tree[p].size)
  BY <1>0, <1>1 DEF Collectable
<1>3. size \in Nat
  BY BundleAssumption
<1>4. PICK old : old = tree[p] /\ old = [size |-> old.size, text |-> old.text] /\ old.size \in Nat
                 /\ old.text # Unread.text
  BY <1>0 DEF Measured
<1>5. /\ DOMAIN tree' = DOMAIN tree /\ tree'[p] = [size |-> size, text |-> old.text]
      /\ \A q \in DOMAIN tree : q # p => tree'[q] = tree[q]
  <2>1. tree'[p] = [old EXCEPT !.size = size]
    BY <1>1, <1>4
  <2>2. [old EXCEPT !.size = size] = [size |-> size, text |-> old.text]
    BY <1>4
  <2>3. DOMAIN tree' = DOMAIN tree /\ \A q \in DOMAIN tree : q # p => tree'[q] = tree[q]
    BY <1>1
  <2> QED BY <2>1, <2>2, <2>3
<1>6. Measured'
  <2>1. ASSUME NEW q \in DOMAIN tree
        PROVE  /\ tree'[q] = [size |-> tree'[q].size, text |-> tree'[q].text]
               /\ tree'[q].size \in Nat /\ tree'[q].text # Unread.text
    <3>1. CASE q = p
      BY <1>3, <1>4, <1>5, <3>1
    <3>2. CASE q # p
      BY <1>0, <1>5, <3>2 DEF Measured
    <3> QED BY <3>1, <3>2
  <2>2. \A q \in DOMAIN tree :
          /\ tree'[q] = [size |-> tree'[q].size, text |-> tree'[q].text]
          /\ tree'[q].size \in Nat /\ tree'[q].text # Unread.text
    BY <2>1
  <2>3. NoPath \notin DOMAIN tree' /\ limits' = limits
    BY <1>0, <1>5 DEF Measured
  <2> QED BY <1>0, <1>5, <2>2, <2>3 DEF Measured, NoPath, Unread
<1>7. \A q \in DOMAIN tree : Regular(q)' <=> Regular(q)
  BY <1>4, <1>5 DEF Regular, Link
<1>8. FoundRead' /\ TodoOnce'
  BY <1>0, <1>2 DEF FoundRead, TodoOnce, Unread
<1>9. ReadsNext'
  <2>1. walk.reading \in DOMAIN tree \cup {NoPath}
    BY <1>0 DEF Collectable
  <2>2. walk.reading # NoPath => Regular(walk.reading)'
    BY <1>0, <1>2, <1>7, <2>1 DEF ReadsNext, Regular
  <2> QED BY <1>0, <1>2, <2>2 DEF ReadsNext, NoPath, Regular
<1>10. Gathers'
  <2>1. Collected' = Collected
    BY <1>5, <1>7 DEF Collected
  <2>2. Range(walk.todo) \subseteq DOMAIN tree
    BY <1>0 DEF Collectable, Range
  <2>3. {q \in Range(walk.todo) : Regular(q)'} = {q \in Range(walk.todo) : Regular(q)}
    BY <1>7, <2>2
  <2>4. DOMAIN walk.found \cup {q \in Range(walk.todo) : Regular(q)} = Collected
    BY <1>0 DEF Gathers
  <2> QED BY <1>2, <2>1, <2>3, <2>4 DEF Gathers
<1>11. Counts'
  <2>1. PICK fl \in Nat : fl = FileLimit(limits)
    BY <1>0, FileLimitIs DEF Measured
  <2>2. ASSUME ~(size < tree[p].size)
        PROVE  Pending \in Nat /\ Pending' \in Nat /\ Pending <= Pending'
    <3>1. CASE walk.reading = NoPath
      BY <1>2, <3>1 DEF Pending, NoPath
    <3>2. CASE walk.reading # NoPath
      <4>1. PICK q \in DOMAIN tree : q = walk.reading
        BY <1>0, <3>2 DEF Collectable
      <4>2. PICK c, d : c = tree[q] /\ d = tree'[q]
        OBVIOUS
      <4>3. /\ c = [size |-> c.size, text |-> c.text] /\ c.size \in Nat
            /\ d = [size |-> d.size, text |-> d.text] /\ d.size \in Nat
        BY <1>0, <1>5, <1>6, <4>2 DEF Measured
      <4>4. c.size <= d.size
        <5>1. CASE q = p
          BY <1>3, <1>4, <1>5, <2>2, <4>2, <5>1
        <5>2. CASE q # p
          BY <1>5, <4>2, <4>3, <5>2
        <5> QED BY <5>1, <5>2
      <4>5. Pending = ReadAtMost(c, limits).size
        BY <3>2, <4>1, <4>2 DEF Pending
      <4>6. Pending' = ReadAtMost(d, limits).size
        BY <1>0, <1>2, <3>2, <4>1, <4>2 DEF Pending, NoPath
      <4>7. limits.file \in Nat
        BY <1>0 DEF Measured
      <4>8. /\ ReadAtMost(c, limits) = [size |-> IF c.size <= fl THEN c.size ELSE fl + 1, text |-> c.text]
            /\ ReadAtMost(d, limits) = [size |-> IF d.size <= fl THEN d.size ELSE fl + 1, text |-> d.text]
        BY <2>1, <4>3, <4>7, ReadIs
      <4>9. PICK m \in Nat, n \in Nat : m = c.size /\ n = d.size
        BY <4>3
      <4>10. Pending = (IF m <= fl THEN m ELSE fl + 1) /\ Pending' = (IF n <= fl THEN n ELSE fl + 1)
        BY <4>5, <4>6, <4>8, <4>9
      <4> QED BY <4>4, <4>9, <4>10
    <3> QED BY <3>1, <3>2
  <2>3. Total(walk.found) \in Int
    BY <1>0, TotalInt
  <2>4. walk.total \in Nat /\ walk.rewrites \in Nat /\ (~walk.shrank => walk.total <= Total(walk.found) + Pending)
    BY <1>0 DEF Counts
  <2>5. ~walk'.shrank => ~walk.shrank /\ ~(size < tree[p].size)
    BY <1>2
  <2>6. ~walk'.shrank => walk.total <= Total(walk.found) + Pending'
    BY <2>2, <2>3, <2>4, <2>5
  <2> QED BY <1>2, <2>4, <2>6 DEF Counts
<1>12. FoundAsIs'
  <2>1. walk'.rewrites # 0
    BY <1>0, <1>2 DEF Counts
  <2> QED BY <2>1 DEF FoundAsIs
<1>13. ClientTold'
  BY <1>0 DEF Walking, ClientTold
<1> QED BY <1>0, <1>6, <1>8, <1>9, <1>10, <1>11, <1>12, <1>13 DEF WalkInv

\* A step that leaves the walk alone.
LEMMA WalkRests ==
    ASSUME WalkInv, BundleInv', UNCHANGED <<tree, limits, walk>>, ClientTold'
    PROVE  WalkInv'
<1>1. Measured' /\ FoundRead' /\ TodoOnce' /\ FoundAsIs'
  BY DEF WalkInv, Measured, FoundRead, TodoOnce, FoundAsIs, NoPath, Unread
<1>2. ReadsNext' /\ Gathers' /\ Pending' = Pending
  BY DEF WalkInv, ReadsNext, Gathers, Collected, Regular, Pending, NoPath
<1>3. Counts'
  BY <1>2 DEF WalkInv, Counts
<1> QED BY <1>1, <1>2, <1>3 DEF WalkInv

LEMMA BuildWalks ==
    ASSUME WalkInv, Build
    PROVE  WalkInv'
<1>1. BundleInv' /\ UNCHANGED <<tree, limits, walk>> /\ walk.todo = <<>>
  BY BuildKeeps DEF WalkInv, Build
<1>2. told'.client = ClientProblems
  BY DEF Build, WalkInv, BundleInv, TruthfullyTold
<1>3. ClientProblems' = ClientProblems
  BY <1>1 DEF ClientProblems
<1>4. ClientTold'
  BY <1>1, <1>2, <1>3 DEF ClientTold
<1> QED BY <1>1, <1>4, WalkRests

LEMMA OthersWalk ==
    ASSUME WalkInv, BundleInv', UNCHANGED <<tree, limits, walk>>, told'.client = told.client
    PROVE  WalkInv'
<1>1. ClientProblems' = ClientProblems
  BY DEF ClientProblems
<1>2. ClientTold'
  BY <1>1 DEF ClientTold, WalkInv, Untold
<1> QED BY <1>2, WalkRests

LEMMA WalkStarts == BundleInit => WalkInv
<1> SUFFICES ASSUME BundleInit PROVE WalkInv
  OBVIOUS
<1>1. BundleInv /\ Collectable
  BY BundleStarts DEF BundleInv
<1>2. PICK paths : paths = {p \in DOMAIN tree : Range(p) \cap Hidden = {}}
  OBVIOUS
<1>3. PICK met \in Listings(paths, MetBefore) : walk = Start(met)
  BY <1>2 DEF BundleInit
<1>4. /\ walk.todo = met /\ walk.reading = NoPath /\ walk.found = <<>> /\ walk.total = 0
      /\ walk.rewrites = 0 /\ walk.shrank = FALSE
  BY <1>3 DEF Start
<1>5. Measured
  BY BundleAssumption DEF BundleInit, Measured, NoPath, Unread
<1>6. DOMAIN walk.found = {}
  BY <1>4
<1>7. paths \in SUBSET Paths /\ IsFiniteSet(paths)
  BY <1>1, <1>2, FS_Subset DEF Collectable, Paths
<1>8. PICK n \in Nat : n = Cardinality(paths)
  BY <1>7, FS_CardinalityType
<1>9. /\ met \in [1..n -> paths] /\ met \in Seq(paths) /\ Len(met) = n
      /\ \A i, j \in 1..n : met[i] = met[j] => i = j
      /\ \A p \in paths : \E i \in 1..n : p = met[i]
  BY <1>7, <1>8, ListingIs
<1>10. TodoOnce /\ FoundRead /\ FoundAsIs /\ ReadsNext
  BY <1>4, <1>6, <1>9 DEF TodoOnce, FoundRead, FoundAsIs, ReadsNext
<1>11. Counts
  BY <1>4, NoTotal DEF Counts, Pending
<1>12. Gathers
  <2>1. Range(met) = paths
    BY <1>9 DEF Range
  <2>2. {p \in paths : Regular(p)} = Collected
    BY <1>2 DEF Collected
  <2> QED BY <1>4, <1>6, <2>1, <2>2 DEF Gathers
<1>13. ClientTold
  BY DEF BundleInit, ClientTold
<1> QED BY <1>1, <1>5, <1>10, <1>11, <1>12, <1>13 DEF WalkInv

-----------------------------------------------------------------------------
(* The archive on its way.                                                  *)

ShapedEntry(e) ==
    /\ e = [path |-> e.path, size |-> e.size, content |-> e.content, header |-> e.header,
            padding |-> e.padding]
    /\ e.path \in Seq(Names) /\ e.content.size \in Nat /\ e.content # Unread

LEMMA ShapedBy ==
    ASSUME NEW es, NEW n \in Nat, es \in Seq(Range(es)), \A i \in DOMAIN es : ShapedEntry(es[i]),
           NEW ragged \in {0, 1}, NEW zeros,
           NEW a, a = [entries |-> es, zeros |-> zeros, ragged |-> ragged]
    PROVE  Shaped(a)
<1>1. a.entries = es /\ a.ragged = ragged /\ a.zeros = zeros
  OBVIOUS
<1>2. \A e \in Range(es) : ShapedEntry(e)
  BY DEF Range
<1> QED BY <1>1, <1>2 DEF Shaped, ShapedEntry

LEMMA ListShaped ==
    ASSUME NEW n \in Nat, NEW es, DOMAIN es = 1..n, es = [i \in 1..n |-> es[i]]
    PROVE  es \in Seq(Range(es))
<1>1. es \in [1..n -> Range(es)]
  BY DEF Range
<1> QED BY <1>1

LEMMA ShapedHas ==
    ASSUME NEW a, Shaped(a)
    PROVE  \E n \in Nat :
             /\ n = Len(a.entries) /\ DOMAIN a.entries = 1..n
             /\ a.entries = [i \in 1..n |-> a.entries[i]]
             /\ \A i \in 1..n : ShapedEntry(a.entries[i])
<1>1. PICK es : es = a.entries /\ es \in Seq(Range(es))
  BY DEF Shaped
<1>2. PICK n \in Nat : n = Len(es) /\ DOMAIN es = 1..n /\ es = [i \in 1..n |-> es[i]]
  BY <1>1
<1>3. \A i \in 1..n : es[i] \in Range(es)
  BY <1>2 DEF Range
<1>4. \A i \in 1..n : ShapedEntry(es[i])
  BY <1>1, <1>3 DEF Shaped, ShapedEntry
<1> QED BY <1>1, <1>2, <1>4

\* The tar of files that were read.
LEMMA WrittenShaped ==
    ASSUME NEW files, NEW paths, paths \subseteq Seq(Names),
           \A p \in paths : files[p].size \in Nat /\ files[p] # Unread,
           NEW n \in Nat, NEW list \in [1..n -> paths]
    PROVE  Shaped(Written(files, list))
<1>1. PICK es : es = [i \in 1..n |-> EntryOf(files, list[i])]
  OBVIOUS
<1>2. Written(files, list) = [entries |-> es, zeros |-> 2, ragged |-> 0]
  BY <1>1 DEF Written
<1>3. ASSUME NEW i \in 1..n
      PROVE  ShapedEntry(es[i])
  <2>1. list[i] \in paths
    OBVIOUS
  <2>2. es[i] = [path |-> list[i], size |-> files[list[i]].size % (TarMax + 1),
                 content |-> files[list[i]], header |-> "canonical", padding |-> "zero"]
    BY <1>1 DEF EntryOf
  <2> QED BY <2>1, <2>2 DEF ShapedEntry
<1>4. DOMAIN es = 1..n /\ es = [i \in 1..n |-> es[i]]
  BY <1>1
<1>5. es \in Seq(Range(es))
  BY <1>4, ListShaped
<1> QED BY <1>2, <1>3, <1>4, <1>5, ShapedBy

\* And what becomes of it.
LEMMA MangledShaped ==
    ASSUME NEW a, Shaped(a), NEW b \in Mangled(a)
    PROVE  Shaped(b)
<1>1. PICK es, zeros, ragged : a = [entries |-> es, zeros |-> zeros, ragged |-> ragged]
                               /\ ragged \in {0, 1} /\ es = a.entries
  BY DEF Shaped
<1>2. PICK n \in Nat : /\ n = Len(es) /\ DOMAIN es = 1..n /\ es = [i \in 1..n |-> es[i]]
                       /\ \A i \in 1..n : ShapedEntry(es[i])
  BY <1>1, ShapedHas
<1>3. es \in Seq(Range(es))
  BY <1>2, ListShaped
<1>4. \/ \E m \in {1, 3} : b = [a EXCEPT !.zeros = m]
      \/ b = [a EXCEPT !.ragged = 1]
      \/ \E i \in 1..n : \/ b = [a EXCEPT !.entries[i].header = "other"]
                         \/ b = [a EXCEPT !.entries[i].padding = "dirty"]
                         \/ b = [a EXCEPT !.entries = Append(@, a.entries[i])]
  BY <1>1, <1>2 DEF Mangled
<1>5. ASSUME NEW m, b = [a EXCEPT !.zeros = m]
      PROVE  Shaped(b)
  <2>1. b = [entries |-> es, zeros |-> m, ragged |-> ragged]
    BY <1>1, <1>5
  <2> QED BY <1>1, <1>2, <1>3, <2>1, ShapedBy
<1>6. CASE b = [a EXCEPT !.ragged = 1]
  <2>1. b = [entries |-> es, zeros |-> zeros, ragged |-> 1]
    BY <1>1, <1>6
  <2> QED BY <1>2, <1>3, <2>1, ShapedBy
<1>7. ASSUME NEW i \in 1..n, NEW fs, DOMAIN fs = 1..n, fs = [j \in 1..n |-> fs[j]],
             \A j \in 1..n : j # i => fs[j] = es[j], ShapedEntry(fs[i]),
             b = [entries |-> fs, zeros |-> zeros, ragged |-> ragged]
      PROVE  Shaped(b)
  <2>1. \A j \in 1..n : ShapedEntry(fs[j])
    BY <1>2, <1>7
  <2>2. fs \in Seq(Range(fs))
    BY <1>7, ListShaped
  <2> QED BY <1>1, <1>7, <2>1, <2>2, ShapedBy
<1>8. ASSUME NEW i \in 1..n, b = [a EXCEPT !.entries[i].header = "other"]
                             \/ b = [a EXCEPT !.entries[i].padding = "dirty"]
      PROVE  Shaped(b)
  <2>1. PICK e : e = es[i] /\ ShapedEntry(e)
    BY <1>2
  <2>2. PICK f : /\ f \in {[e EXCEPT !.header = "other"], [e EXCEPT !.padding = "dirty"]}
                 /\ b = [a EXCEPT !.entries = [es EXCEPT ![i] = f]]
    <3>1. CASE b = [a EXCEPT !.entries[i].header = "other"]
      <4>1. b = [a EXCEPT !.entries = [es EXCEPT ![i] = [e EXCEPT !.header = "other"]]]
        BY <1>1, <2>1, <3>1
      <4> QED BY <4>1
    <3>2. CASE b = [a EXCEPT !.entries[i].padding = "dirty"]
      <4>1. b = [a EXCEPT !.entries = [es EXCEPT ![i] = [e EXCEPT !.padding = "dirty"]]]
        BY <1>1, <2>1, <3>2
      <4> QED BY <4>1
    <3> QED BY <1>8, <3>1, <3>2
  <2>3. ShapedEntry(f)
    BY <2>1, <2>2 DEF ShapedEntry
  <2>4. PICK fs : fs = [es EXCEPT ![i] = f]
    OBVIOUS
  <2>5. DOMAIN fs = 1..n /\ fs = [j \in 1..n |-> fs[j]] /\ fs[i] = f
        /\ \A j \in 1..n : j # i => fs[j] = es[j]
    BY <1>2, <2>4
  <2>6. b = [entries |-> fs, zeros |-> zeros, ragged |-> ragged]
    BY <1>1, <2>2, <2>4
  <2> QED BY <1>7, <2>3, <2>5, <2>6
<1>9. ASSUME NEW i \in 1..n, b = [a EXCEPT !.entries = Append(@, a.entries[i])]
      PROVE  Shaped(b)
  <2>1. PICK fs : fs = Append(es, es[i])
    OBVIOUS
  <2>2. b = [entries |-> fs, zeros |-> zeros, ragged |-> ragged]
    BY <1>1, <1>9, <2>1
  <2>3. es[i] \in Range(es)
    BY <1>2 DEF Range
  <2>4. DOMAIN fs = 1..(n + 1) /\ fs[n + 1] = es[i] /\ (\A j \in 1..n : fs[j] = es[j])
        /\ fs \in Seq(Range(es))
    BY <1>2, <1>3, <2>1, <2>3
  <2>5. ASSUME NEW j \in 1..(n + 1)
        PROVE  ShapedEntry(fs[j])
    <3>1. j \in 1..n \/ j = n + 1
      OBVIOUS
    <3> QED BY <1>2, <2>4, <3>1
  <2>6. PICK m \in Nat : m = n + 1 /\ DOMAIN fs = 1..m /\ fs = [j \in 1..m |-> fs[j]]
    BY <2>4
  <2>7. fs \in Seq(Range(fs))
    BY <2>6, ListShaped
  <2> QED BY <1>1, <2>2, <2>4, <2>5, <2>7, ShapedBy
<1> QED BY <1>4, <1>5, <1>6, <1>8, <1>9

LEMMA NothingShaped == Shaped(NoArchive)
<1>1. NoArchive.entries = << >> /\ NoArchive.ragged = 0
      /\ NoArchive = [entries |-> NoArchive.entries, zeros |-> NoArchive.zeros, ragged |-> NoArchive.ragged]
  BY DEF NoArchive
<1>2. << >> \in Seq(Range(<< >>)) /\ Range(<< >>) = {}
  BY DEF Range
<1> QED BY <1>1, <1>2 DEF Shaped

\* Files that passed the checks were read.
LEMMA PassedWereRead ==
    ASSUME WalkInv, NEW p \in DOMAIN Built
    PROVE  /\ p \in DOMAIN walk.found /\ Built[p] = walk.found[p].content /\ Built[p] # Unread
           /\ Built[p].size = walk.found[p].size /\ Built[p].size \in Nat
<1>1. p \in DOMAIN walk.found /\ Built[p] = walk.found[p].content /\ Built[p] # Unread
  BY DEF Built, Contents, Passed, ValidPaths
<1>2. Built[p].size = walk.found[p].size /\ Built[p].size \in Nat
  BY <1>1 DEF WalkInv, FoundRead
<1> QED BY <1>1, <1>2

\* Nothing is received twice, and versions do not change under an archive.
LEMMA WireRests ==
    ASSUME WireInv, WalkInv', UNCHANGED <<limits, peer, wire>>, told'.server = told.server
    PROVE  WireInv'
<1>1. Version' = Version /\ Answer' = Answer
  BY DEF Version, Answer
<1>2. Sent'
  BY <1>1 DEF WireInv, Sent, Untold, NoArchive, NoVersion, Speaks
<1>3. Shaped(wire)'
  BY DEF WireInv, Shaped, Unread
<1> QED BY <1>2, <1>3 DEF WireInv

LEMMA WireSent ==
    ASSUME WireInv, BundleInv', UNCHANGED <<tree, limits, peer, walk, told>>, wire = NoArchive,
           Version # NoVersion, NEW b, b = wire', Shaped(b)
    PROVE  WireInv'
<1>1. WalkInv'
  BY OthersWalk DEF WireInv
<1>2. told.server = Untold
  BY DEF WireInv, WalkInv, BundleInv, TruthfullyTold
<1>3. Version' = Version
  BY DEF Version
<1>4. Sent'
  BY <1>2, <1>3 DEF WireInv, Sent, Untold, NoVersion, Speaks
<1>5. Shaped(wire)'
  BY DEF Shaped, Unread
<1> QED BY <1>1, <1>4, <1>5 DEF WireInv

LEMMA UploadSends ==
    ASSUME WireInv, Upload
    PROVE  WireInv'
<1>1. /\ BundleInv' /\ UNCHANGED <<tree, limits, peer, walk, told>> /\ wire = NoArchive
      /\ Version # NoVersion /\ WalkInv /\ Collectable
  BY UploadKeeps DEF WireInv, WalkInv, BundleInv, Upload
<1>2. PICK files : files = Built
  OBVIOUS
<1>3. PICK list \in Listings(DOMAIN files, Before) :
        wire' \in {Written(files, list)} \cup Mangled(Written(files, list))
  BY <1>2 DEF Upload, Tars, Built
<1>4. \A p \in DOMAIN files : p \in DOMAIN tree /\ files[p].size \in Nat /\ files[p] # Unread
  BY <1>1, <1>2, PassedWereRead DEF Collectable
<1>5. DOMAIN files \in SUBSET Paths /\ DOMAIN files \subseteq Seq(Names) /\ IsFiniteSet(DOMAIN files)
  BY <1>1, <1>4, FS_Subset DEF Collectable, Paths
<1>6. PICK n \in Nat : n = Cardinality(DOMAIN files) /\ list \in [1..n -> DOMAIN files]
  BY <1>5, ListingIs
<1>7. Shaped(Written(files, list))
  BY <1>4, <1>5, <1>6, WrittenShaped
<1>8. PICK b : b = wire'
  OBVIOUS
<1>9. Shaped(b)
  BY <1>3, <1>7, <1>8, MangledShaped
<1> QED BY <1>1, <1>8, <1>9, WireSent

LEMMA UploadUncheckedSends ==
    ASSUME WireInv, UploadUnchecked
    PROVE  WireInv'
<1>1. /\ BundleInv' /\ UNCHANGED <<tree, limits, peer, walk, told>> /\ wire = NoArchive
      /\ Version # NoVersion /\ WalkInv /\ Collectable /\ Measured
  BY UploadUncheckedKeeps DEF WireInv, WalkInv, BundleInv, UploadUnchecked
<1>2. PICK paths : paths = {p \in DOMAIN tree : Regular(p)}
  OBVIOUS
<1>3. PICK files : files = [p \in paths |-> tree[p]]
  OBVIOUS
<1>4. PICK list \in Listings(paths, Before) \cup Listings(paths, MetBefore) :
        wire' = Written(files, list)
  BY <1>2, <1>3 DEF UploadUnchecked
<1>5. paths \in SUBSET Paths /\ paths \subseteq Seq(Names) /\ IsFiniteSet(paths)
  BY <1>1, <1>2, FS_Subset DEF Collectable, Paths
<1>6. \A p \in paths : files[p].size \in Nat /\ files[p] # Unread
  BY <1>1, <1>2, <1>3 DEF Measured
<1>7. PICK n \in Nat : n = Cardinality(paths) /\ list \in [1..n -> paths]
  BY <1>5, ListingIs
<1>8. Shaped(Written(files, list))
  BY <1>5, <1>6, <1>7, WrittenShaped
<1>9. PICK b : b = wire'
  OBVIOUS
<1> QED BY <1>1, <1>4, <1>8, <1>9, WireSent

LEMMA VersionsSpoken ==
    ASSUME WireInv, Discover \/ Upgrade
    PROVE  WireInv'
<1>1. UNCHANGED <<tree, limits, walk, wire, told>> /\ WalkInv /\ Sent /\ Shaped(wire)
  BY DEF Discover, Upgrade, WireInv
<1>2. WalkInv'
  BY <1>1, VersionsKeep, OthersWalk DEF WalkInv
<1>3. Shaped(wire)'
  BY <1>1 DEF Shaped, Unread
<1>4. CASE Discover
  <2>1. PICK client \in Ranges, server \in Ranges :
          peer' = [client |-> client, server |-> server, seen |-> server]
    BY <1>4 DEF Discover
  <2>2. Speaks(client) /\ Speaks(server)
    BY BundleAssumption DEF Speaks
  <2>3. wire = NoArchive
    <3>1. ~HoldsAVersion(peer.seen)
      BY <1>4 DEF Discover, Unseen, NoVersion, HoldsAVersion
    <3>2. Version = NoVersion
      BY <3>1 DEF Version, Negotiated
    <3> QED BY <1>1, <3>2 DEF Sent
  <2>4. told.server = Untold
    BY <1>1, <2>3 DEF WalkInv, BundleInv, TruthfullyTold
  <2>5. Sent'
    BY <1>1, <2>1, <2>2, <2>3, <2>4 DEF Sent, Speaks, NoArchive, Untold
  <2> QED BY <1>2, <1>3, <2>5 DEF WireInv
<1>5. CASE Upgrade
  <2>1. PICK r \in Ranges : peer' = [peer EXCEPT !.server = r]
    BY <1>5 DEF Upgrade
  <2>2. Speaks(r)
    BY BundleAssumption DEF Speaks
  <2>3. peer' = [client |-> peer.client, server |-> r, seen |-> peer.seen]
    BY <1>1, <2>1 DEF Sent
  <2>4. Version' = Version
    BY <2>3 DEF Version
  <2>5. told.server = Untold
    BY <1>5 DEF Upgrade
  <2>6. Sent'
    BY <1>1, <2>2, <2>3, <2>4, <2>5 DEF Sent, Speaks, NoArchive, NoVersion, Untold
  <2> QED BY <1>2, <1>3, <2>6 DEF WireInv
<1> QED BY <1>4, <1>5

LEMMA ReceiveAnswers ==
    ASSUME WireInv, Receive
    PROVE  WireInv'
<1>1. /\ UNCHANGED <<tree, limits, peer, walk, wire>> /\ WalkInv /\ Sent /\ Shaped(wire)
      /\ told = [client |-> told.client, server |-> told.server, admitted |-> told.admitted]
  BY DEF Receive, WireInv, WalkInv, BundleInv, TruthfullyTold
<1>2. told' = [told EXCEPT !.server = Answer]
  BY DEF Receive, Answer
<1>3. told'.client = told.client /\ told'.server = Answer
  BY <1>1, <1>2
<1>4. WalkInv'
  BY <1>1, <1>3, ReceiveKeeps, OthersWalk DEF WalkInv
<1>5. Version' = Version /\ Answer' = Answer
  BY <1>1 DEF Version, Answer
<1>6. Sent' /\ Shaped(wire)'
  BY <1>1, <1>3, <1>5 DEF Sent, Speaks, NoArchive, NoVersion, Untold, Shaped, Unread
<1> QED BY <1>4, <1>6 DEF WireInv

LEMMA AdmitTells ==
    ASSUME WireInv, Admit
    PROVE  WireInv'
<1>1. /\ UNCHANGED <<tree, limits, peer, walk, wire>> /\ WalkInv
      /\ told = [client |-> told.client, server |-> told.server, admitted |-> told.admitted]
  BY DEF Admit, WireInv, WalkInv, BundleInv, TruthfullyTold
<1>2. PICK answer : told' = [told EXCEPT !.admitted = answer]
  BY DEF Admit
<1>3. told'.client = told.client /\ told'.server = told.server
  BY <1>1, <1>2
<1>4. WalkInv'
  BY <1>1, <1>3, AdmitKeeps, OthersWalk DEF WalkInv
<1> QED BY <1>1, <1>3, <1>4, WireRests

LEMMA WireStarts == BundleInit => WireInv
<1> SUFFICES ASSUME BundleInit PROVE WireInv
  OBVIOUS
<1>1. wire = NoArchive /\ told.server = Untold
      /\ peer = [client |-> Unseen, server |-> Unseen, seen |-> Unseen]
  BY DEF BundleInit
<1>2. Speaks(Unseen)
  BY DEF Speaks, Unseen, NoVersion
<1>3. Sent
  BY <1>1, <1>2 DEF Sent
<1> QED BY <1>1, <1>3, WalkStarts, NothingShaped DEF WireInv

\* What every reachable state has: what the client found is what the directory
\* holds and what the server answered is so of what is on the wire.
THEOREM WireInductive == BundleSpec => []WireInv
<1>1. ASSUME WireInv, [BundleNext]_bundleVars
      PROVE  WireInv'
  <2>0. WalkInv
    BY <1>1 DEF WireInv
  <2>1. CASE Look \/ Read \/ Rewrite
    <3>1. WalkInv'
      BY <2>0, <2>1, LookWalks, ReadWalks, RewriteWalks
    <3>2. UNCHANGED <<limits, peer, wire, told>>
      BY <2>1 DEF Look, Read, Rewrite
    <3> QED BY <1>1, <3>1, <3>2, WireRests
  <2>2. CASE Build
    <3>1. WalkInv'
      BY <2>0, <2>2, BuildWalks
    <3>2. UNCHANGED <<limits, peer, wire>> /\ told'.server = told.server
      BY <2>0, <2>2 DEF Build, WalkInv, BundleInv, TruthfullyTold
    <3> QED BY <1>1, <3>1, <3>2, WireRests
  <2>3. CASE UNCHANGED bundleVars
    <3>1. UNCHANGED <<tree, limits, peer, walk, wire, told>>
      BY <2>3 DEF bundleVars
    <3>2. WalkInv'
      BY <2>0, <3>1, VersionsKeep, OthersWalk DEF WalkInv
    <3> QED BY <1>1, <3>1, <3>2, WireRests
  <2> QED BY <1>1, <2>1, <2>2, <2>3, UploadSends, UploadUncheckedSends, VersionsSpoken,
             ReceiveAnswers, AdmitTells DEF BundleNext
<1> QED BY <1>1, WireStarts, PTL DEF BundleSpec

-----------------------------------------------------------------------------
(* What the checks say.                                                     *)

\* Nothing is wrong with files that passed the checks.
LEMMA NothingWrong ==
    ASSUME NEW found, NEW lim, Checked(found, lim) = {}
    PROVE  /\ ValidPaths(found) = DOMAIN found
           /\ \A p \in DOMAIN found : ~(found[p].size > FileLimit(lim))
           /\ ~(Cardinality(DOMAIN found) > lim.files) /\ ~(Total(found) > lim.total)
<1>1. FileProblems(found, lim) = {}
  BY DEF Checked
<1>2. \A p \in DOMAIN found : PathFaults(p) = {}
  BY <1>1 DEF FileProblems
<1>3. ValidPaths(found) = DOMAIN found
  BY <1>2 DEF ValidPaths
<1>4. ASSUME NEW p \in DOMAIN found, found[p].size > FileLimit(lim)
      PROVE  FALSE
  <2>1. p \in {q \in ValidPaths(found) : found[q].size > FileLimit(lim)}
    BY <1>3, <1>4
  <2>2. "file_too_large" \in FileProblems(found, lim)
    BY <2>1 DEF FileProblems
  <2> QED BY <1>1, <2>2
<1>5. ~(Cardinality(DOMAIN found) > lim.files)
  BY <1>1 DEF FileProblems
<1>6. ~(Total(found) > lim.total)
  BY <1>1 DEF FileProblems
<1> QED BY <1>3, <1>4, <1>5, <1>6

\* The checks look at paths and sizes, and into the manifest if it may be read.
LEMMA CheckedAgrees ==
    ASSUME NEW found, NEW other, NEW lim, IsFiniteSet(DOMAIN found), DOMAIN other = DOMAIN found,
           \A p \in DOMAIN found : found[p].size \in Int /\ other[p].size = found[p].size,
           ManifestPath \in DOMAIN found /\ found[ManifestPath].size <= FileLimit(lim)
             => other[ManifestPath].content = found[ManifestPath].content
    PROVE  Checked(other, lim) = Checked(found, lim)
<1>1. Total(other) = Total(found)
  BY SameTotal
<1>2. ValidPaths(other) = ValidPaths(found) /\ ValidPaths(found) \subseteq DOMAIN found
  BY DEF ValidPaths
<1>3. {q \in ValidPaths(other) : other[q].size > FileLimit(lim)}
        = {q \in ValidPaths(found) : found[q].size > FileLimit(lim)}
  BY <1>2
<1>4. FileProblems(other, lim) = FileProblems(found, lim)
  BY <1>1, <1>2, <1>3 DEF FileProblems
<1>5. ManifestPath \in Passed(other, lim) <=> ManifestPath \in Passed(found, lim)
  BY <1>2 DEF Passed
<1>6. ManifestPath \in Passed(found, lim) =>
        other[ManifestPath].content = found[ManifestPath].content
  BY <1>2 DEF Passed
<1> QED BY <1>2, <1>4, <1>5, <1>6 DEF Checked

\* The walk's own problem is none of the checks'.
LEMMA ChecksOwn ==
    ASSUME NEW found, NEW lim
    PROVE  "not_a_regular_file" \notin Checked(found, lim)
<1>1. \A p : "not_a_regular_file" \notin PathFaults(p)
  BY DEF PathFaults
<1>2. "not_a_regular_file" \notin FileProblems(found, lim)
  BY <1>1 DEF FileProblems
<1>3. \A e, paths : "not_a_regular_file" \notin EntryFaults(e, paths)
  BY DEF EntryFaults
<1>4. \A m, paths : "not_a_regular_file" \notin ManifestProblems(m, paths)
  BY <1>3 DEF ManifestProblems
<1> QED BY <1>2, <1>4 DEF Checked

\* What a client that found nothing wrong has read.
LEMMA AllWasRead ==
    ASSUME WalkInv, told.client = {}, ~walk.shrank
    PROVE  /\ Checked(walk.found, limits) = {} /\ DOMAIN Built = DOMAIN walk.found
           /\ walk.todo = <<>>
           /\ \A p \in DOMAIN walk.found :
                 /\ walk.found[p].content # Unread /\ Built[p] = walk.found[p].content
                 /\ walk.found[p].size \in Nat /\ Built[p].size = walk.found[p].size
                 /\ walk.found[p].size <= FileLimit(limits)
           /\ Total(walk.found) \in Int /\ Total(walk.found) <= limits.total
<1>1. walk.todo = <<>> /\ Checked(walk.found, limits) = {}
  BY DEF WalkInv, ClientTold, ClientProblems, Untold
<1>2. walk.reading = NoPath
  BY <1>1 DEF WalkInv, ReadsNext
<1>3. PICK fl \in Nat : fl = FileLimit(limits)
  BY FileLimitIs DEF WalkInv, Measured
<1>4. /\ ValidPaths(walk.found) = DOMAIN walk.found
      /\ \A p \in DOMAIN walk.found : ~(walk.found[p].size > FileLimit(limits))
      /\ ~(Total(walk.found) > limits.total)
  BY <1>1, NothingWrong
<1>5. \A p \in DOMAIN walk.found : walk.found[p].size \in Nat /\ walk.found[p].size <= fl
  BY <1>3, <1>4, FoundSizes DEF WalkInv
<1>6. Total(walk.found) \in Int /\ limits.total \in Nat
  BY TotalInt DEF WalkInv, BundleInv, Measured
<1>7. Total(walk.found) <= limits.total
  BY <1>4, <1>6
<1>8. walk.total \in Nat /\ walk.total <= limits.total
  <2>1. Pending = 0
    BY <1>2 DEF Pending
  <2>2. walk.total \in Nat /\ walk.total <= Total(walk.found) + Pending
    BY DEF WalkInv, Counts
  <2> QED BY <1>6, <1>7, <2>1, <2>2
<1>9. ASSUME NEW p \in DOMAIN walk.found
      PROVE  walk.found[p].content # Unread
  <2>1. walk.found[p].content = Unread =>
          walk.found[p].size > fl \/ walk.total > limits.total
    BY <1>3 DEF WalkInv, FoundRead
  <2> QED BY <1>3, <1>4, <1>6, <1>8, <2>1
<1>10. Passed(walk.found, limits) = DOMAIN walk.found
  BY <1>3, <1>4, <1>5, <1>9 DEF Passed
<1>11. DOMAIN Built = DOMAIN walk.found /\ \A p \in DOMAIN walk.found : Built[p] = walk.found[p].content
  BY <1>10 DEF Built, Contents
<1>12. \A p \in DOMAIN walk.found : Built[p].size = walk.found[p].size
  BY <1>11, PassedWereRead
<1> QED BY <1>1, <1>3, <1>5, <1>6, <1>7, <1>9, <1>11, <1>12

-----------------------------------------------------------------------------
(* The directory and its files.                                             *)

LEMMA DirectoryGivesFiles ==
    ASSUME WalkInv, told.client # Untold, walk.rewrites = 0
    PROVE  LET inMemory == Checked(InMemory([p \in Collected |-> tree[p]]), limits)
           IN  /\ (told.client = {}) = (inMemory = {} /\ ~walk.links)
               /\ Cardinality(Collected) <= limits.files =>
                     told.client \ {"not_a_regular_file"} = inMemory
<1>1. PICK mem : mem = InMemory([p \in Collected |-> tree[p]])
  OBVIOUS
<1>2. /\ DOMAIN mem = Collected
      /\ \A p \in Collected : mem[p] = [size |-> tree[p].size, content |-> tree[p]]
  BY <1>1 DEF InMemory
<1>3. PICK inMemory : inMemory = Checked(mem, limits)
  OBVIOUS
<1>4. PICK found : found = Checked(walk.found, limits)
  OBVIOUS
<1>5. walk.todo = <<>> /\ told.client = (IF walk.links THEN {"not_a_regular_file"} ELSE {}) \cup found
  BY <1>4 DEF WalkInv, ClientTold, ClientProblems
<1>6. IsFiniteSet(Collected) /\ IsFiniteSet(DOMAIN walk.found) /\ Collected \subseteq DOMAIN tree
      /\ Cardinality(Collected) \in Nat /\ Cardinality(DOMAIN walk.found) \in Nat /\ limits.files \in Nat
  <2>1. Collected \in SUBSET DOMAIN tree /\ DOMAIN walk.found \in SUBSET DOMAIN tree
        /\ IsFiniteSet(DOMAIN tree) /\ limits.files \in Nat
    BY DEF WalkInv, BundleInv, Collectable, Collected, Measured
  <2> QED BY <2>1, FS_Subset, FS_CardinalityType
<1>7. PICK fl \in Nat : fl = FileLimit(limits)
  BY FileLimitIs DEF WalkInv, Measured
<1>8. CASE DOMAIN walk.found = Collected
  <2>1. \A p \in DOMAIN walk.found : /\ walk.found[p].size \in Nat
                                     /\ walk.found[p].size = tree[p].size
                                     /\ walk.found[p].content # Unread => walk.found[p].content = tree[p]
    BY FoundSizes DEF WalkInv, FoundAsIs
  <2>2. \A p \in DOMAIN walk.found : walk.found[p].size \in Int /\ mem[p].size = walk.found[p].size
    BY <1>2, <1>8, <2>1
  <2>3. ASSUME ManifestPath \in DOMAIN walk.found, walk.found[ManifestPath].size <= FileLimit(limits)
        PROVE  mem[ManifestPath].content = walk.found[ManifestPath].content
    <3>1. walk.found[ManifestPath].content # Unread
      <4>1. PICK p \in DOMAIN walk.found : p = ManifestPath
        BY <2>3
      <4>2. PICK size \in Nat : size = walk.found[p].size
        BY <2>1
      <4>3. walk.found[p].content = Unread => size > fl \/ (p # ManifestPath /\ walk.total > limits.total)
        BY <1>7, <4>2 DEF WalkInv, FoundRead
      <4> QED BY <1>7, <2>3, <4>1, <4>2, <4>3
    <3> QED BY <1>2, <1>8, <2>1, <2>3, <3>1
  <2>4. inMemory = found
    BY <1>2, <1>3, <1>4, <1>6, <1>8, <2>2, <2>3, CheckedAgrees
  <2>5. "not_a_regular_file" \notin found
    BY <1>4, ChecksOwn
  <2>6. told.client = {} <=> (inMemory = {} /\ ~walk.links)
    BY <1>5, <2>4
  <2>7. told.client \ {"not_a_regular_file"} = inMemory
    BY <1>5, <2>4, <2>5
  <2> QED BY <1>1, <1>3, <2>6, <2>7
<1>9. CASE Cardinality(DOMAIN walk.found) > limits.files /\ Cardinality(Collected) > limits.files
  <2>1. "too_many_files" \in found
    BY <1>4, <1>9 DEF Checked, FileProblems
  <2>2. "too_many_files" \in inMemory
    BY <1>2, <1>3, <1>9 DEF Checked, FileProblems
  <2>3. told.client # {} /\ inMemory # {}
    BY <1>5, <2>1, <2>2
  <2>4. ~(Cardinality(Collected) <= limits.files)
    BY <1>6, <1>9
  <2> QED BY <1>1, <1>3, <2>3, <2>4
<1>10. DOMAIN walk.found \cup {p \in Range(walk.todo) : Regular(p)} = Collected => DOMAIN walk.found = Collected
  <2>1. Range(walk.todo) = {}
    BY <1>5 DEF Range
  <2> QED BY <2>1
<1> QED BY <1>8, <1>9, <1>10 DEF WalkInv, Gathers

LEMMA NothingLeftOut ==
    ASSUME WalkInv, told.client = {}, ~walk.shrank
    PROVE  DOMAIN Built = Collected
<1>1. /\ Checked(walk.found, limits) = {} /\ DOMAIN Built = DOMAIN walk.found /\ walk.todo = <<>>
  BY AllWasRead
<1>2. ~(Cardinality(DOMAIN walk.found) > limits.files)
  BY <1>1, NothingWrong
<1>3. Range(walk.todo) = {}
  BY <1>1 DEF Range
<1> QED BY <1>1, <1>2, <1>3 DEF WalkInv, Gathers

\* Whatever the directory, the limits and the author's edits, the directory makes
\* the bundle its files make (bundle/dir.rs collect, bundle/files.rs).
THEOREM DirectoryAsFilesAlways == BundleSpec => []DirectoryAsFiles
<1>1. WireInv => DirectoryAsFiles
  BY DirectoryGivesFiles, NothingLeftOut DEF WireInv, DirectoryAsFiles
<1> QED BY <1>1, WireInductive, PTL

-----------------------------------------------------------------------------
(* One archive.                                                             *)

Ascends(list, n) == \A i \in 1..(n - 1) : Before(list[i], list[i + 1])
Once(list, n) == \A i, j \in 1..n : list[i] = list[j] => i = j

\* Paths in order are there once, and are the listing of their set.
LEMMA OrderedPaths ==
    ASSUME NEW n \in Nat, NEW list \in [1..n -> Paths], NEW paths, paths = {list[i] : i \in 1..n},
           Ascends(list, n)
    PROVE  Once(list, n) /\ IsFiniteSet(paths) /\ list \in Listings(paths, Before)
<1>1. \A i \in 1..(n - 1) : list[i] \in Paths /\ list[i + 1] \in Paths
  OBVIOUS
<1>2. PICK R : R = ByBytes /\ Orders(R, Paths)
  BY BytesOrder
<1>3. \A i \in 1..(n - 1) : <<list[i], list[i + 1]>> \in R
  BY <1>1, <1>2, BeforeIs DEF Ascends
<1>4. Chained(list, n, R)
  BY <1>2, <1>3, Chain
<1>5. \A i, j \in 1..n : list[i] = list[j] => i = j
  BY <1>2, <1>4, ChainOnce
<1>6. list \in [1..n -> paths] /\ \A p \in paths : \E i \in 1..n : list[i] = p
  OBVIOUS
<1>7. list \in Bijection(1..n, paths)
  <2>1. list \in Injection(1..n, paths)
    BY <1>5, <1>6 DEF Injection, IsInjective
  <2>2. list \in Surjection(1..n, paths)
    BY <1>6 DEF Surjection
  <2> QED BY <2>1, <2>2 DEF Bijection
<1>8. IsFiniteSet(1..n) /\ Cardinality(1..n) = n
  BY FS_Interval
<1>9. ExistsBijection(1..n, paths)
  BY <1>7 DEF ExistsBijection
<1>10. Cardinality(1..n) = Cardinality(paths) /\ IsFiniteSet(paths)
  BY <1>8, <1>9, FS_Bijection
<1>11. list \in Listings(paths, Before)
  BY <1>6, <1>8, <1>10 DEF Listings, Ascends
<1> QED BY <1>5, <1>10, <1>11 DEF Once

\* Entries in order are read back one by one.
ReadBack(es, n, list, found) ==
    /\ DOMAIN found \in SUBSET Paths /\ IsFiniteSet(DOMAIN found)
    /\ list \in Listings(DOMAIN found, Before)
    /\ \A p \in DOMAIN found : \E i \in 1..n : p = list[i]
    /\ \A i \in 1..n :
          /\ list[i] \in DOMAIN found
          /\ found[list[i]].size = es[i].size /\ found[list[i]].content = es[i].content

LEMMA OrderedEntries ==
    ASSUME NEW a, Shaped(a), InOrder(a), NEW n, n = Len(a.entries),
           NEW list, list = [i \in 1..n |-> a.entries[i].path], NEW found, found = Entries(a)
    PROVE  ReadBack(a.entries, n, list, found)
<1>1. PICK es : /\ es = a.entries /\ DOMAIN es = 1..n /\ n \in Nat
                /\ \A i \in 1..n : ShapedEntry(es[i])
  BY ShapedHas
<1>2. \A i \in 1..n : list[i] = es[i].path /\ list[i] \in Paths
  BY <1>1 DEF ShapedEntry, Paths
<1>3. list \in [1..n -> Paths]
  BY <1>2
<1>4. Ascends(list, n)
  <2>1. \A i \in 1..(n - 1) : i \in 1..n /\ i + 1 \in 1..n
    OBVIOUS
  <2>2. \A i \in 1..(n - 1) : Before(es[i].path, es[i + 1].path)
    BY <1>1 DEF InOrder
  <2> QED BY <1>2, <2>1, <2>2 DEF Ascends
<1>7. PICK paths : paths = {list[i] : i \in 1..n}
  OBVIOUS
<1>8. DOMAIN found = paths
  <2>1. DOMAIN Entries(a) = {es[i].path : i \in 1..n}
    BY <1>1 DEF Entries
  <2>2. {es[i].path : i \in 1..n} = {list[i] : i \in 1..n}
    BY <1>2
  <2>3. DOMAIN found = DOMAIN Entries(a)
    OBVIOUS
  <2> QED BY <1>7, <2>1, <2>2, <2>3
<1>6. Once(list, n) /\ IsFiniteSet(paths) /\ list \in Listings(paths, Before)
  <2>1. n \in Nat
    BY <1>1
  <2> QED BY <1>3, <1>4, <1>7, <2>1, OrderedPaths
<1>12. ASSUME NEW i \in 1..n
       PROVE  found[list[i]].size = es[i].size /\ found[list[i]].content = es[i].content
  <2>1. PICK p : p = list[i] /\ p \in DOMAIN Entries(a) /\ p = es[i].path /\ p = list[i]
    BY <1>2, <1>7, <1>8
  <2>2. PICK j : j = CHOOSE k \in DOMAIN a.entries : a.entries[k].path = p
    OBVIOUS
  <2>3. j \in 1..n /\ es[j].path = p
    BY <1>1, <2>1, <2>2
  <2>4. list[j] = list[i]
    BY <1>2, <2>1, <2>3
  <2>4a. j = i
    BY <1>6, <2>3, <2>4 DEF Once
  <2>5. Entries(a)[p] = [size |-> a.entries[j].size, content |-> a.entries[j].content]
    BY <2>1, <2>2 DEF Entries
  <2>6. found[p].size = a.entries[j].size /\ found[p].content = a.entries[j].content
    BY <2>5
  <2> QED BY <1>1, <2>1, <2>4a, <2>6
<1>13. paths \in SUBSET Paths
  BY <1>2, <1>7
<1>14. \A p \in DOMAIN found : \E i \in 1..n : p = list[i]
  BY <1>7, <1>8
<1>15. \A i \in 1..n : list[i] \in DOMAIN found
  BY <1>7, <1>8
<1> QED BY <1>1, <1>6, <1>8, <1>12, <1>13, <1>14, <1>15 DEF ReadBack

LEMMA NotRagged ==
    ASSUME NEW r \in {0, 1}, r % Block = 0
    PROVE  r = 0
<1>1. Block \in Nat /\ Block > 1
  BY BundleAssumption
<1>2. 1 % Block = 1
  BY <1>1
<1> QED BY <1>2

\* An accepted archive is the tar of the files that are read from it.
LEMMA AcceptedIsTheTar ==
    ASSUME WireInv, told.server = {}
    PROVE  Tars(ServerFiles) = {wire}
<1>1. Shaped(wire) /\ Answer = {} /\ limits.file \in Nat
  BY DEF WireInv, Sent, Untold, WalkInv, Measured
<1>2. ReadFaults(wire, limits) = {} /\ Checked(Entries(wire), limits) = {}
  BY <1>1 DEF Answer
<1>3. Canonical(wire)
  BY <1>2 DEF ReadFaults
<1>4. PICK n \in Nat : n = Len(wire.entries) /\ DOMAIN wire.entries = 1..n
                       /\ wire.entries = [i \in 1..n |-> wire.entries[i]]
                       /\ \A i \in 1..n : ShapedEntry(wire.entries[i])
  BY <1>1, ShapedHas
<1>5. PICK list : list = [i \in 1..n |-> wire.entries[i].path]
  OBVIOUS
<1>6. PICK found : found = Entries(wire)
  OBVIOUS
<1>7. InOrder(wire)
  BY <1>3 DEF Canonical
<1>8. /\ DOMAIN found \in SUBSET Paths /\ IsFiniteSet(DOMAIN found)
      /\ list \in Listings(DOMAIN found, Before)
      /\ \A p \in DOMAIN found : \E i \in 1..n : p = list[i]
      /\ \A i \in 1..n :
            /\ list[i] \in DOMAIN found
            /\ found[list[i]].size = wire.entries[i].size
            /\ found[list[i]].content = wire.entries[i].content
  <2>1. ReadBack(wire.entries, n, list, found)
    BY <1>1, <1>4, <1>5, <1>6, <1>7, OrderedEntries
  <2> QED BY <2>1 DEF ReadBack
<1>9. PICK fl \in Nat : fl = FileLimit(limits) /\ fl <= TarMax
  BY <1>1, FileLimitIs
<1>10. TarMax \in Nat
  BY BundleAssumption
<1>11. ASSUME NEW i \in 1..n
       PROVE  LET e == wire.entries[i] IN
              /\ e.header = "canonical" /\ e.padding = "zero" /\ e.size = e.content.size
              /\ e.size \in Nat /\ e.content # Unread
  BY <1>3, <1>4 DEF Canonical, ShapedEntry
<1>12. /\ ValidPaths(found) = DOMAIN found
       /\ \A p \in DOMAIN found : ~(found[p].size > fl)
  BY <1>2, <1>6, <1>9, NothingWrong
<1>13. ASSUME NEW p \in DOMAIN found
       PROVE  found[p].size \in Nat /\ found[p].size <= fl /\ found[p].content # Unread
  <2>1. PICK i \in 1..n : p = list[i]
    BY <1>8
  <2>2. PICK size \in Nat : size = wire.entries[i].size
    BY <1>11
  <2>3. found[p].size = size /\ found[p].content = wire.entries[i].content
    BY <1>8, <2>1, <2>2
  <2> QED BY <1>11, <1>12, <2>2, <2>3
<1>14. Passed(found, limits) = DOMAIN found
  BY <1>9, <1>12, <1>13 DEF Passed
<1>15. PICK files : files = ServerFiles
  OBVIOUS
<1>16. DOMAIN files = DOMAIN found /\ \A p \in DOMAIN found : files[p] = found[p].content
  BY <1>6, <1>14, <1>15 DEF ServerFiles, Contents
<1>17. ASSUME NEW i \in 1..n
       PROVE  EntryOf(files, list[i]) = wire.entries[i]
  <2>1. PICK e : e = wire.entries[i]
    OBVIOUS
  <2>2. list[i] = e.path /\ files[list[i]] = e.content
    BY <1>5, <1>8, <1>16, <2>1
  <2>3. PICK size \in Nat : size = e.size /\ e.content.size = size
    BY <1>11, <2>1
  <2>4. size <= fl
    BY <1>8, <1>13, <2>1, <2>3
  <2>5. size % (TarMax + 1) = size
    BY <1>9, <1>10, <2>4
  <2>6. EntryOf(files, list[i]) = [path |-> e.path, size |-> size, content |-> e.content,
                                   header |-> "canonical", padding |-> "zero"]
    BY <2>2, <2>3, <2>5 DEF EntryOf
  <2>7. e = [path |-> e.path, size |-> e.size, content |-> e.content, header |-> e.header,
             padding |-> e.padding]
    BY <1>4, <2>1 DEF ShapedEntry
  <2> QED BY <1>11, <2>1, <2>3, <2>6, <2>7
<1>18. Written(files, list) = wire
  <2>1. DOMAIN list = 1..n
    BY <1>5
  <2>2. [i \in 1..n |-> EntryOf(files, list[i])] = wire.entries
    BY <1>4, <1>17
  <2>3. wire.zeros = 2 /\ wire.ragged \in {0, 1} /\ wire.ragged % Block = 0
    BY <1>1, <1>3 DEF Canonical, Shaped
  <2>4. wire.ragged = 0
    BY <2>3, NotRagged
  <2>5. wire = [entries |-> wire.entries, zeros |-> 2, ragged |-> 0]
    BY <1>1, <2>3, <2>4 DEF Shaped
  <2> QED BY <2>1, <2>2, <2>5 DEF Written
<1>19. \A other \in Listings(DOMAIN files, Before) : other = list
  BY <1>8, <1>16, OneListing
<1>20. Tars(files) = {Written(files, list)}
  BY <1>8, <1>16, <1>19 DEF Tars
<1> QED BY <1>15, <1>18, <1>20

\* A server that is still the one whose versions were seen speaks the version.
LEMMA SupportsVersion ==
    ASSUME Sent, Version # NoVersion, peer.seen = peer.server
    PROVE  Supports(peer.server, Version)
<1>1. PICK a \in Nat, b \in Nat, c \in Nat, d \in Nat :
        /\ peer.client.min = a /\ peer.client.max = b /\ peer.server.min = c /\ peer.server.max = d
  BY DEF Sent, Speaks
<1>2. /\ Version = Min({b, d}) /\ HoldsAVersion(peer.server) /\ ~(d < a) /\ ~(c > b)
  BY <1>1 DEF Version, Negotiated
<1>3. Min({b, d}) = IF b <= d THEN b ELSE d
  BY LesserOf
<1>4. c <= d
  BY <1>1, <1>2 DEF HoldsAVersion
<1> QED BY <1>1, <1>2, <1>3, <1>4 DEF Supports

\* What a client built is accepted, and read as it was built.
LEMMA BuiltIsAccepted ==
    ASSUME WireInv, told.client = {}, ~walk.shrank, wire \in Tars(Built), peer.seen = peer.server,
           told.server # Untold
    PROVE  told.server = {} /\ ServerFiles = Built
<1>1. /\ WalkInv /\ Sent /\ wire # NoArchive /\ Version # NoVersion /\ told.server = Answer
      /\ Collectable /\ Measured
  BY DEF WireInv, Sent, WalkInv, BundleInv, TruthfullyTold
<1>2. Supports(peer.server, Version)
  BY <1>1, SupportsVersion
<1>3. PICK found : found = walk.found
  OBVIOUS
<1>4. /\ Checked(found, limits) = {} /\ DOMAIN Built = DOMAIN found
      /\ \A p \in DOMAIN found :
            /\ found[p].content # Unread /\ Built[p] = found[p].content
            /\ found[p].size \in Nat /\ Built[p].size = found[p].size
            /\ found[p].size <= FileLimit(limits)
      /\ Total(found) \in Int /\ Total(found) <= limits.total
  BY <1>1, <1>3, AllWasRead
<1>5. PICK list \in Listings(DOMAIN found, Before) : wire = Written(Built, list)
  BY <1>4 DEF Tars
<1>6. DOMAIN found \in SUBSET Paths /\ IsFiniteSet(DOMAIN found)
  BY <1>1, <1>3, FS_Subset DEF Collectable, Paths
<1>7. PICK n \in Nat : n = Cardinality(DOMAIN found)
  BY <1>6, FS_CardinalityType
<1>8. /\ list \in [1..n -> DOMAIN found] /\ list \in Seq(DOMAIN found) /\ Len(list) = n
      /\ \A i, j \in 1..n : list[i] = list[j] => i = j
      /\ \A p \in DOMAIN found : \E i \in 1..n : p = list[i]
  BY <1>6, <1>7, ListingIs
<1>9. DOMAIN list = 1..n
  BY <1>8
<1>10. /\ wire.entries = [i \in 1..n |-> EntryOf(Built, list[i])] /\ wire.zeros = 2 /\ wire.ragged = 0
  BY <1>5, <1>9 DEF Written
<1>11. PICK fl \in Nat : fl = FileLimit(limits) /\ fl <= TarMax
  BY <1>1, FileLimitIs DEF Measured
<1>12. TarMax \in Nat /\ Block \in Nat /\ Block > 1
  BY BundleAssumption
<1>13. ASSUME NEW i \in 1..n
       PROVE  /\ wire.entries[i].path = list[i] /\ wire.entries[i].size = found[list[i]].size
              /\ wire.entries[i].content = found[list[i]].content
              /\ wire.entries[i].header = "canonical" /\ wire.entries[i].padding = "zero"
  <2>1. list[i] \in DOMAIN found
    BY <1>8
  <2>2. PICK size \in Nat : size = found[list[i]].size /\ Built[list[i]].size = size /\ size <= fl
    BY <1>4, <1>11, <2>1
  <2>3. size % (TarMax + 1) = size
    BY <1>11, <1>12, <2>2
  <2>4. wire.entries[i] = EntryOf(Built, list[i])
    BY <1>10
  <2>5. EntryOf(Built, list[i]) = [path |-> list[i], size |-> size, content |-> found[list[i]].content,
                                   header |-> "canonical", padding |-> "zero"]
    BY <1>4, <2>1, <2>2, <2>3 DEF EntryOf
  <2>6. PICK e : e = wire.entries[i]
    OBVIOUS
  <2>7. e.path = list[i] /\ e.size = size /\ e.content = found[list[i]].content
        /\ e.header = "canonical" /\ e.padding = "zero"
    BY <2>4, <2>5, <2>6
  <2> QED BY <2>2, <2>6, <2>7
<1>14. DOMAIN wire.entries = 1..n
  BY <1>10
<1>15. Len(wire.entries) = n
  <2>1. PICK m \in Nat : m = Len(wire.entries) /\ DOMAIN wire.entries = 1..m
    BY ShapedHas DEF WireInv
  <2> QED BY <1>14, <2>1
<1>16. InOrder(wire)
  <2>1. \A i \in 1..(n - 1) : Before(list[i], list[i + 1])
    BY <1>7 DEF Listings
  <2>2. \A i \in 1..(n - 1) : i \in 1..n /\ i + 1 \in 1..n
    OBVIOUS
  <2>3. \A i \in 1..n : wire.entries[i].path = list[i]
    BY <1>13
  <2> QED BY <1>15, <2>1, <2>2, <2>3 DEF InOrder
<1>17. ASSUME NEW i \in 1..n
       PROVE  /\ wire.entries[i].header = "canonical" /\ wire.entries[i].padding = "zero"
              /\ wire.entries[i].size = wire.entries[i].content.size
              /\ wire.entries[i].content.size = found[list[i]].size
  <2>1. list[i] \in DOMAIN found
    BY <1>8
  <2>2. found[list[i]].content.size = found[list[i]].size
    BY <1>4, <2>1
  <2> QED BY <1>13, <2>2
<1>18. Canonical(wire)
  <2>1. 0 % Block = 0
    BY <1>12
  <2> QED BY <1>10, <1>14, <1>16, <1>17, <2>1 DEF Canonical
<1>19. ~(TarBytes(wire) > MaxArchive(limits))
  <2>1. limits.files \in Nat /\ limits.total \in Nat
    BY <1>1 DEF Measured
  <2>2. n <= limits.files
    <3>1. ~(Cardinality(DOMAIN found) > limits.files)
      BY <1>4, NothingWrong
    <3> QED BY <1>7, <2>1, <3>1
  <2>3. \A p \in DOMAIN found : found[p].size \in Nat
    BY <1>4
  <2>4. \A i \in 1..n : wire.entries[i].content.size = found[list[i]].size
    BY <1>17
  <2>5. PICK a : a = wire
    OBVIOUS
  <2>6. /\ DOMAIN a.entries = 1..n /\ a.zeros = 2 /\ a.ragged = 0
        /\ \A i \in 1..n : a.entries[i].content.size = found[list[i]].size
    BY <1>10, <1>14, <2>4, <2>5
  <2>7. ~(TarBytes(a) > MaxArchive(limits))
    <3>1. Packed(a, found, n, list)
      BY <1>6, <1>8, <2>3, <2>6 DEF Packed
    <3> QED BY <1>4, <2>1, <2>2, <3>1, ArchiveFits
  <2> QED BY <2>5, <2>7
<1>20. ReadFaults(wire, limits) = {}
  BY <1>18, <1>19 DEF ReadFaults
<1>21. PICK sent : sent = Entries(wire)
  OBVIOUS
<1>22. DOMAIN sent = DOMAIN found
       /\ \A p \in DOMAIN found : sent[p].size = found[p].size /\ sent[p].content = found[p].content
  <2>1. PICK other : other = [i \in 1..n |-> wire.entries[i].path]
    OBVIOUS
  <2>2. \A i \in 1..n : other[i] = list[i]
    BY <1>13, <2>1
  <2>3. /\ \A p \in DOMAIN sent : \E i \in 1..n : p = other[i]
        /\ \A i \in 1..n :
              /\ other[i] \in DOMAIN sent
              /\ sent[other[i]].size = wire.entries[i].size
              /\ sent[other[i]].content = wire.entries[i].content
    <3>1. ReadBack(wire.entries, n, other, sent)
      BY <1>15, <1>16, <1>21, <2>1, OrderedEntries DEF WireInv
    <3> QED BY <3>1 DEF ReadBack
  <2>4. DOMAIN sent = DOMAIN found
    <3>1. ASSUME NEW p \in DOMAIN sent
          PROVE  p \in DOMAIN found
      <4>1. PICK i \in 1..n : p = other[i]
        BY <2>3
      <4> QED BY <1>8, <2>2, <4>1
    <3>2. ASSUME NEW p \in DOMAIN found
          PROVE  p \in DOMAIN sent
      <4>1. PICK i \in 1..n : p = list[i]
        BY <1>8
      <4> QED BY <2>2, <2>3, <4>1
    <3> QED BY <3>1, <3>2
  <2>5. ASSUME NEW p \in DOMAIN found
        PROVE  sent[p].size = found[p].size /\ sent[p].content = found[p].content
    <3>1. PICK i \in 1..n : p = list[i]
      BY <1>8
    <3>2. wire.entries[i].size = found[p].size /\ wire.entries[i].content = found[p].content
      BY <1>13, <3>1
    <3> QED BY <2>2, <2>3, <3>1, <3>2
  <2> QED BY <2>4, <2>5
<1>23. Checked(sent, limits) = {}
  <2>1. \A p \in DOMAIN found : found[p].size \in Int /\ sent[p].size = found[p].size
    BY <1>4, <1>22
  <2>2. ManifestPath \in DOMAIN found => sent[ManifestPath].content = found[ManifestPath].content
    BY <1>22
  <2>3. Checked(sent, limits) = Checked(found, limits)
    BY <1>6, <1>22, <2>1, <2>2, CheckedAgrees
  <2> QED BY <1>4, <2>3
<1>24. told.server = {}
  BY <1>1, <1>2, <1>20, <1>21, <1>23 DEF Answer
<1>25. ServerFiles = Built
  <2>1. Passed(sent, limits) = DOMAIN found
    <3>1. ValidPaths(sent) = DOMAIN found
      BY <1>22, <1>23, NothingWrong
    <3>2. \A p \in DOMAIN found : sent[p].size <= FileLimit(limits) /\ sent[p].content # Unread
      BY <1>4, <1>22
    <3> QED BY <3>1, <3>2 DEF Passed
  <2>2. ServerFiles = [p \in DOMAIN found |-> sent[p].content]
    BY <1>21, <2>1 DEF ServerFiles, Contents
  <2>3. Built = [p \in DOMAIN found |-> Built[p]]
    BY <1>4 DEF Built, Contents
  <2>4. \A p \in DOMAIN found : sent[p].content = Built[p]
    BY <1>4, <1>22
  <2> QED BY <2>2, <2>3, <2>4
<1> QED BY <1>24, <1>25

\* A bundle has one archive: what a server accepts is the tar of the files it
\* reads from it, whatever arrived, and what a client within the same limits
\* built is accepted (bundle/reader.rs, bundle/archive.rs).
THEOREM OneArchiveAlways == BundleSpec => []OneArchive
<1>1. WireInv => OneArchive
  BY AcceptedIsTheTar, BuiltIsAccepted DEF OneArchive
<1> QED BY <1>1, WireInductive, PTL
=============================================================================

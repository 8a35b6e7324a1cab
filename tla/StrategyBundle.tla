--------------------------- MODULE StrategyBundle ---------------------------
(***************************************************************************)
(* A strategy's bundle from a directory to a server: the client collects   *)
(* the directory while its files may still change, checks what it found    *)
(* and writes the canonical tar; the server reads whatever archive arrives *)
(* back, checks it and admits it against its runtime.                      *)
(*                                                                         *)
(* A path is a sequence of names; a file's content is its size and a text, *)
(* and the manifests' texts are given by Manifests.                        *)
(***************************************************************************)
EXTENDS Integers, FiniteSets, Sequences, SequencesExt, FiniteSetsExt, TLC

CONSTANTS
    Trees,       \* directories a client starts from: path |-> content
    Rewrites,    \* what a file may be rewritten to while it is collected
    MaxRewrites, \* and how often
    LimitSets,   \* limits a server sets and advertises: [file, total, files]
    Ranges,      \* versions a client or a server may speak: [min, max]
    Runtimes,    \* what servers run: [engine, python, packages]
    Manifests,   \* text |-> what bundle TOML reads in it
    Folded,      \* name |-> its spelling without regard to case
    Rank,        \* name |-> its place in the order of the names' bytes
    Hidden,      \* names that start with a dot, and __pycache__
    Plain,       \* names that keep the rules for a component
    Kept,        \* names with an extension a bundle may hold
    Python,      \* names of importable modules, with .py
    Packages,    \* names of importable directories
    PackageFile, \* __init__.py
    ManifestName,
    Block,       \* the bytes of a tar block
    TarMax       \* the largest size a tar header's digits count to

ASSUME BundleAssumption ==
    /\ MaxRewrites \in Nat
    /\ Block \in Nat /\ Block > 1
    /\ TarMax \in Nat
    /\ Rewrites \subseteq Nat
    /\ \A lim \in LimitSets : lim.file \in Nat /\ lim.total \in Nat /\ lim.files \in Nat
    /\ \A r \in Ranges : r = [min |-> r.min, max |-> r.max] /\ r.min \in Nat /\ r.max \in Nat
    /\ \A n \in DOMAIN Folded : Rank[n] \in Int
    /\ \A t \in Trees :
          /\ IsFiniteSet(DOMAIN t) /\ DOMAIN t \subseteq Seq(DOMAIN Folded) \ {<<>>}
          /\ \A p \in DOMAIN t :
                t[p] = [size |-> t[p].size, text |-> t[p].text] /\ t[p].size \in Nat /\ t[p].text # "unread"

VARIABLES tree, limits, peer, walk, wire, told

bundleVars == <<tree, limits, peer, walk, wire, told>>

ManifestPath == <<ManifestName>>
Link == "link"
NoPath == <<>>
NoArchive == [entries |-> <<>>, zeros |-> 0, ragged |-> 0]
NoVersion == 0
Unseen == [min |-> NoVersion, max |-> NoVersion]
Untold == {"untold"}
Unread == [size |-> 0, text |-> "unread"]

\* What a file that is not a manifest holds is no bundle TOML.
ManifestIn(c) == IF c.text \in DOMAIN Manifests THEN Manifests[c.text] ELSE [faults |-> {"document"}]

-----------------------------------------------------------------------------
(* Paths. *)

\* The order paths are sorted in, name by name.  The code compares the bytes of
\* whole paths, which orders some pairs the other way ('a.b' and 'a/c'); what
\* matters is that it is one total order, and both sides sort by it.
Before(p, q) ==
    \/ IsStrictPrefix(p, q)
    \/ \E i \in DOMAIN p \cap DOMAIN q :
          /\ SubSeq(p, 1, i - 1) = SubSeq(q, 1, i - 1)
          /\ Rank[p[i]] < Rank[q[i]]

\* The order the walk meets files in: a directory's own files first.
MetBefore(p, q) ==
    \E i \in DOMAIN p \cap DOMAIN q :
        /\ SubSeq(p, 1, i - 1) = SubSeq(q, 1, i - 1)
        /\ p[i] # q[i]
        /\ IF (Len(p) = i) = (Len(q) = i) THEN Rank[p[i]] < Rank[q[i]] ELSE Len(p) = i

\* The paths one after another: one list, as no two paths are at the same place.
Listings(paths, IsBefore(_, _)) ==
    {list \in [1..Cardinality(paths) -> paths] :
        \A i \in 1..(Cardinality(paths) - 1) : IsBefore(list[i], list[i + 1])}

PathFaults(p) ==
    IF \E i \in DOMAIN p : p[i] \notin Plain THEN {"path_invalid"}
    ELSE IF Last(p) \notin Kept THEN {"extension_not_allowed"} ELSE {}

Fold(p) == [i \in DOMAIN p |-> Folded[p[i]]]
Directories(p) == {SubSeq(p, 1, n) : n \in 1..(Len(p) - 1)}

DifferInCaseOnly(p, q) == p # q /\ Fold(p) = Fold(q)

CollideAsFiles(p, q) == DifferInCaseOnly(p, q) \/ IsStrictPrefix(Fold(p), Fold(q))

Collide(p, q) ==
    \/ DifferInCaseOnly(p, q)
    \/ IsStrictPrefix(Fold(p), Fold(q))
    \/ \E d \in Directories(p), e \in Directories(q) : DifferInCaseOnly(d, e)

-----------------------------------------------------------------------------
(* The checks of a set of files, however they arrived: path |-> its size   *)
(* and its content, unless a broken limit left it unread.                  *)

FileLimit(lim) == Min({lim.file, TarMax})
Total(found) == MapThenSumSet(LAMBDA p : found[p].size, DOMAIN found)

MaxArchive(lim) == lim.files * (2 * Block - 1) + lim.total + 2 * Block

ValidPaths(found) == {p \in DOMAIN found : PathFaults(p) = {}}

Passed(found, lim) ==
    {p \in ValidPaths(found) : found[p].size <= FileLimit(lim) /\ found[p].content # Unread}

FileProblems(found, lim) ==
    (UNION {PathFaults(p) : p \in DOMAIN found})
      \cup {"file_too_large" : p \in {q \in ValidPaths(found) : found[q].size > FileLimit(lim)}}
      \cup {"path_collision" : pq \in {x \in ValidPaths(found) \X ValidPaths(found) : Collide(x[1], x[2])}}
      \cup (IF Cardinality(DOMAIN found) > lim.files THEN {"too_many_files"} ELSE {})
      \cup (IF Total(found) > lim.total THEN {"bundle_too_large"} ELSE {})

\* The entry's module: the path without a last __init__.py.
EntryFaults(entry, paths) ==
    LET parts == IF Last(entry) = PackageFile THEN Front(entry) ELSE entry
    IN  IF \/ PathFaults(entry) # {}
           \/ parts = <<>>
           \/ Range(Front(entry)) \ Packages # {}
           \/ Last(entry) \notin Python \cup {PackageFile}
        THEN {"entry_invalid"}
        ELSE IF entry \notin paths THEN {"entry_not_found"} ELSE {}

\* The document and its format stop the check; then each key on its own.
ManifestProblems(m, paths) ==
    IF m.faults \cap {"document", "format_missing", "format_mistyped"} # {} THEN {"manifest_invalid"}
    ELSE IF "format_other" \in m.faults THEN {"format_unsupported"}
    ELSE (m.faults \cap {"entry_invalid", "engine_invalid", "python_invalid", "param_not_json", "dependency_invalid"})
           \cup (IF "entry_invalid" \in m.faults THEN {} ELSE EntryFaults(m.entry, paths))
           \cup (IF "key_unknown" \in m.faults THEN {"manifest_invalid"} ELSE {})

\* A manifest too large to pass is reported as such, and not parsed.
Checked(found, lim) ==
    FileProblems(found, lim)
      \cup (IF ManifestPath \notin ValidPaths(found) THEN {"manifest_missing"}
            ELSE IF ManifestPath \notin Passed(found, lim) THEN {}
            ELSE ManifestProblems(ManifestIn(found[ManifestPath].content), ValidPaths(found)))

Contents(found, lim) == [p \in Passed(found, lim) |-> found[p].content]

\* Files given in memory are all read.
InMemory(files) == [p \in DOMAIN files |-> [size |-> files[p].size, content |-> files[p]]]

-----------------------------------------------------------------------------
(* Whether a bundle can run on a server's workers. *)

Admits(comparator, version) ==
    CASE comparator.op = ">=" -> version >= comparator.bound
      [] comparator.op = ">" -> version > comparator.bound
      [] comparator.op = "<=" -> version <= comparator.bound
      [] comparator.op = "<" -> version < comparator.bound
      [] comparator.op = "==" -> version = comparator.bound

Admission(m, run) ==
    {"engine_mismatch" : c \in {x \in m.engine : ~Admits(x, run.engine)}}
      \cup (IF m.python # run.python THEN {"python_mismatch"} ELSE {})
      \cup {"dependency_not_allowed" : d \in DOMAIN m.deps \ DOMAIN run.packages}
      \cup {"dependency_version_unavailable" :
              d \in {x \in DOMAIN m.deps \cap DOMAIN run.packages : m.deps[x] \notin run.packages[x]}}

-----------------------------------------------------------------------------
(* The canonical tar.  A header's digits hold a size up to TarMax. *)

Padding(size) == (Block - (size % Block)) % Block

EntryOf(files, p) ==
    [path |-> p, size |-> files[p].size % (TarMax + 1), content |-> files[p],
     header |-> "canonical", padding |-> "zero"]

\* The files' tar with its entries as listed.
Written(files, list) ==
    [entries |-> [i \in DOMAIN list |-> EntryOf(files, list[i])], zeros |-> 2, ragged |-> 0]

Tars(files) == {Written(files, list) : list \in Listings(DOMAIN files, Before)}

EntryBytes(e) == Block + e.content.size + Padding(e.content.size)

TarBytes(a) ==
    MapThenSumSet(LAMBDA i : EntryBytes(a.entries[i]), DOMAIN a.entries) + a.zeros * Block + a.ragged

InOrderOrTwice(a) ==
    \A i \in 1..(Len(a.entries) - 1) : ~Before(a.entries[i + 1].path, a.entries[i].path)

InOrder(a) == \A i \in 1..(Len(a.entries) - 1) : Before(a.entries[i].path, a.entries[i + 1].path)

\* A size the header cut short puts the reader past or short of the file.
Canonical(a) ==
    /\ a.ragged % Block = 0
    /\ a.zeros = 2
    /\ \A i \in DOMAIN a.entries :
          /\ a.entries[i].header = "canonical"
          /\ a.entries[i].padding = "zero"
          /\ a.entries[i].size = a.entries[i].content.size
    /\ InOrder(a)

ReadFaults(a, lim) ==
    IF TarBytes(a) > MaxArchive(lim) THEN {"bundle_too_large"}
    ELSE IF Canonical(a) THEN {} ELSE {"archive_not_canonical"}

Entries(a) ==
    [p \in {a.entries[i].path : i \in DOMAIN a.entries} |->
        LET i == CHOOSE j \in DOMAIN a.entries : a.entries[j].path = p
        IN  [size |-> a.entries[i].size, content |-> a.entries[i].content]]

\* What happens to an archive on its way, or in a builder of another kind.
Mangled(a) ==
    {[a EXCEPT !.zeros = n] : n \in {1, 3}} \cup {[a EXCEPT !.ragged = 1]}
      \cup UNION {{[a EXCEPT !.entries[i].header = "other"], [a EXCEPT !.entries[i].padding = "dirty"],
                   [a EXCEPT !.entries = Append(@, a.entries[i])]} : i \in DOMAIN a.entries}

-----------------------------------------------------------------------------
(* The versions the two sides speak. *)

HoldsAVersion(r) == 1 <= r.min /\ r.min <= r.max
Supports(r, v) == HoldsAVersion(r) /\ r.min <= v /\ v <= r.max

\* The newest version both sides speak.
Negotiated(mine, theirs) ==
    IF \/ ~HoldsAVersion(mine) \/ ~HoldsAVersion(theirs)
       \/ theirs.max < mine.min \/ theirs.min > mine.max
    THEN NoVersion ELSE Min({mine.max, theirs.max})

-----------------------------------------------------------------------------
(* The client collects a directory. *)

Start(met) ==
    [todo |-> met, reading |-> NoPath, found |-> <<>>, links |-> FALSE, total |-> 0,
     rewrites |-> 0, shrank |-> FALSE]

Regular(p) == tree[p].text # Link

\* A file that grew since its size was looked at is read to one byte past
\* the limit.
ReadAtMost(c, lim) == [c EXCEPT !.size = Min({@, FileLimit(lim) + 1})]

Found(p, size, content) ==
    [q \in DOMAIN walk.found \cup {p} |->
        IF q = p THEN [size |-> size, content |-> content] ELSE walk.found[q]]

\* One file over the limit is enough to know; the root manifest is still
\* collected.
RestOfWalk ==
    IF ManifestPath \in DOMAIN walk.found \/ ManifestPath \notin DOMAIN tree \/ ~Regular(ManifestPath)
    THEN walk.found
    ELSE LET c == tree[ManifestPath]
         IN  Found(ManifestPath, c.size, IF c.size <= FileLimit(limits) THEN ReadAtMost(c, limits) ELSE Unread)

FitsTotal(p, size) == size <= FileLimit(limits) /\ walk.total + size <= limits.total

Fits(p, size) ==
    /\ size <= FileLimit(limits)
    /\ p = ManifestPath \/ walk.total + size <= limits.total

Walking == told.client = Untold /\ walk.todo # <<>>

Look ==
    /\ Walking
    /\ walk.reading = NoPath
    /\ LET p == Head(walk.todo)
           size == tree[p].size
           rest == [walk EXCEPT !.todo = Tail(@)]
       IN  IF ~Regular(p)
           THEN walk' = [rest EXCEPT !.links = TRUE]
           ELSE IF Cardinality(DOMAIN walk.found) > limits.files
           THEN walk' = [walk EXCEPT !.todo = <<>>, !.found = RestOfWalk]
           ELSE IF Fits(p, size)
           THEN walk' = [walk EXCEPT !.total = @ + size, !.reading = p]
           ELSE walk' = [rest EXCEPT !.total = @ + size, !.found = Found(p, size, Unread)]
    /\ UNCHANGED <<tree, limits, peer, wire, told>>

Read ==
    /\ Walking
    /\ walk.reading # NoPath
    /\ LET c == ReadAtMost(tree[walk.reading], limits)
       IN  walk' = [walk EXCEPT !.todo = Tail(@), !.reading = NoPath,
                                !.found = Found(walk.reading, c.size, c)]
    /\ UNCHANGED <<tree, limits, peer, wire, told>>

\* The strategy's author saves a file meanwhile.
Rewrite ==
    /\ Walking
    /\ walk.rewrites < MaxRewrites
    /\ \E p \in DOMAIN tree, size \in Rewrites :
          /\ Regular(p)
          /\ size # tree[p].size
          /\ tree' = [tree EXCEPT ![p].size = size]
          /\ walk' = [walk EXCEPT !.rewrites = @ + 1, !.shrank = @ \/ size < tree[p].size]
    /\ UNCHANGED <<limits, peer, wire, told>>

ClientProblems ==
    (IF walk.links THEN {"not_a_regular_file"} ELSE {}) \cup Checked(walk.found, limits)

Build ==
    /\ told.client = Untold
    /\ walk.todo = <<>>
    /\ told' = [told EXCEPT !.client = ClientProblems]
    /\ UNCHANGED <<tree, limits, peer, walk, wire>>

-----------------------------------------------------------------------------
(* The upload, under the version the sides share. *)

Discover ==
    /\ told.client # Untold
    /\ peer.seen = Unseen
    /\ \E client \in Ranges, server \in Ranges :
          peer' = [client |-> client, server |-> server, seen |-> server]
    /\ UNCHANGED <<tree, limits, walk, wire, told>>

\* The server restarts as another release.
Upgrade ==
    /\ peer.seen # Unseen
    /\ told.server = Untold
    /\ \E r \in Ranges : peer' = [peer EXCEPT !.server = r]
    /\ UNCHANGED <<tree, limits, walk, wire, told>>

Version == Negotiated(peer.client, peer.seen)

Upload ==
    /\ told.client = {}
    /\ Version # NoVersion
    /\ wire = NoArchive
    /\ \E built \in Tars(Contents(walk.found, limits)) :
          wire' \in {built} \cup Mangled(built)
    /\ UNCHANGED <<tree, limits, peer, walk, told>>

\* A builder that checks nothing and keeps an order of its own.
UploadUnchecked ==
    /\ told.client \notin {Untold, {}}
    /\ Version # NoVersion
    /\ wire = NoArchive
    /\ LET files == {p \in DOMAIN tree : Regular(p)}
       IN  \E list \in Listings(files, Before) \cup Listings(files, MetBefore) :
              wire' = Written([p \in files |-> tree[p]], list)
    /\ UNCHANGED <<tree, limits, peer, walk, told>>

Receive ==
    /\ wire # NoArchive
    /\ told.server = Untold
    /\ LET faults == ReadFaults(wire, limits)
           found == Entries(wire)
       IN  told' = [told EXCEPT !.server = IF ~Supports(peer.server, Version) THEN {"unsupported_version"}
                                           ELSE IF faults # {} THEN faults ELSE Checked(found, limits)]
    /\ UNCHANGED <<tree, limits, peer, walk, wire>>

ServerFiles == Contents(Entries(wire), limits)

Admit ==
    /\ told.server = {}
    /\ told.admitted = Untold
    /\ \E run \in Runtimes :
          told' = [told EXCEPT !.admitted = Admission(ManifestIn(ServerFiles[ManifestPath]), run)]
    /\ UNCHANGED <<tree, limits, peer, walk, wire>>

BundleInit ==
    /\ tree \in Trees
    /\ limits \in LimitSets
    /\ peer = [client |-> Unseen, server |-> Unseen, seen |-> Unseen]
    /\ \E met \in Listings({p \in DOMAIN tree : Range(p) \cap Hidden = {}}, MetBefore) :
          walk = Start(met)
    /\ wire = NoArchive
    /\ told = [client |-> Untold, server |-> Untold, admitted |-> Untold]

BundleNext == Look \/ Read \/ Rewrite \/ Build \/ Discover \/ Upgrade \/ Upload \/ UploadUnchecked \/ Receive \/ Admit

BundleSpec == BundleInit /\ [][BundleNext]_bundleVars

-----------------------------------------------------------------------------
(* Properties. *)

Collected == {p \in DOMAIN tree : Range(p) \cap Hidden = {} /\ Regular(p)}
Built == Contents(walk.found, limits)
Accepted == (IF told.client = {} THEN {DOMAIN Built} ELSE {}) \cup (IF told.server = {} THEN {DOMAIN ServerFiles} ELSE {})

(* A bundle has one archive: what a server accepts is the canonical tar of *)
(* the files it reads from it, so its hash names them, and what a client   *)
(* within the same limits built is always accepted (bundle/reader.rs,      *)
(* bundle/archive.rs, BundleLimits::max_archive_bytes).                    *)
OneArchive ==
    /\ told.server = {} => Tars(ServerFiles) = {wire}
    /\ (told.client = {} /\ ~walk.shrank /\ wire \in Tars(Built) /\ peer.seen = peer.server)
          => told.server = Untold \/ (told.server = {} /\ ServerFiles = Built)

(* An accepted bundle extracts the same way anywhere: on a filesystem that *)
(* ignores case no two of its files or directories become one, and no file *)
(* is in the place of a directory (bundle/files.rs collisions).            *)
ExtractsAnywhere ==
    \A files \in Accepted :
        LET dirs == UNION {Directories(p) : p \in files}
        IN  files \cap dirs = {} /\ \A p, q \in files \cup dirs : Fold(p) = Fold(q) => p = q

(* A directory makes the bundle its files make when given in memory: the   *)
(* same problems while it holds no more files than a bundle may, refused   *)
(* all the same when it holds more (bundle/dir.rs collect).  And whatever  *)
(* the author saves while it is collected, a bundle that is accepted       *)
(* leaves no file out, unless a file became smaller after its size was     *)
(* counted (bundle/dir.rs:81-98, bundle/files.rs:123).                     *)
DirectoryAsFiles ==
    /\ told.client # Untold /\ walk.rewrites = 0 =>
        LET inMemory == Checked(InMemory([p \in Collected |-> tree[p]]), limits)
        IN  /\ (told.client = {}) = (inMemory = {} /\ ~walk.links)
            /\ Cardinality(Collected) <= limits.files =>
                  told.client \ {"not_a_regular_file"} = inMemory
    /\ told.client = {} /\ ~walk.shrank => DOMAIN Built = Collected
=============================================================================

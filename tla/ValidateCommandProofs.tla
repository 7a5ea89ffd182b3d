----------------------- MODULE ValidateCommandProofs -----------------------
(***************************************************************************)
(* Proofs about SpecClosure, RegistryLookup and ValidateCommand, for every *)
(* answer of a registry, every set of mirrors, every file system, root and *)
(* list of search directories, and every command line.                     *)
(*                                                                         *)
(* The walk of spec_from_files returns exactly the closure of the root;    *)
(* WalkInv says what has been loaded so far and which imports have been    *)
(* looked at.                                                              *)
(*                                                                         *)
(* That connect_from_registry takes the first entry that can be connected  *)
(* to says nothing of a lookup under way; LookupInv says what has been     *)
(* achieved: which entries are candidates (Found), which of them failed    *)
(* (Tried) and how far the attempt in hand has come (Attempt).  The        *)
(* command's invariant joins it to WalkInv of the spec's walk.             *)
(***************************************************************************)
EXTENDS ValidateCommand, SequenceTheorems, TLAPS

---------------------------------------------------------------------------
(* The walk of the imports *)

\* An import that has been looked at: a builtin, or resolved to one visited file.
Handled(f, p) ==
  \/ disk.imports[f][p] \in Builtins
  \/ \E g \in walk.visited : Candidates(f, disk.imports[f][p]) = {g}

\* What was loaded: the root first, each file once, each of them needed.
LoadedInv ==
  /\ walk.root \in Files /\ Len(walk.pending) > 0 /\ walk.pending[1] = walk.root
  /\ \A i, j \in 1 .. Len(walk.pending) : walk.pending[i] = walk.pending[j] => i = j
  /\ walk.visited = Loaded
  /\ walk.visited \subseteq disk.readable /\ walk.visited \subseteq Needed

\* How far the walk has come: the files before idx whole, the one at idx up to pos.
ProgressInv ==
  /\ walk.idx <= Len(walk.pending) /\ walk.pos >= 1
  /\ \A i \in 1 .. Len(walk.pending) : i < walk.idx =>
       \A p \in 1 .. Len(disk.imports[walk.pending[i]]) : Handled(walk.pending[i], p)
  /\ walk.idx > 0 =>
       \A p \in 1 .. Len(disk.imports[Importer]) : p < walk.pos => Handled(Importer, p)

WalkInv ==
  /\ ClosureTypeOK
  /\ walk.pc = "idle" => walk = NoWalk
  /\ walk.pc \in {"walk", "ok"} => LoadedInv /\ ProgressInv
  /\ walk.pc = "ok" => walk.idx = Len(walk.pending) /\ ~NamesLeft
  /\ walk.pc = "error" => walk.root = NoFile \/ \E f \in Needed : ~Sound(f)

---------------------------------------------------------------------------
\* The types of the parts of a file system that the walk uses.
LEMMA DiskFacts ==
  ASSUME disk \in Disks
  PROVE  /\ \A f \in Files : disk.imports[f] \in Seq(Names) /\ disk.home[f] \in Dirs
         /\ \A d \in Dirs, n \in Names : disk.at[<<d, n>>] \in Files \cup {NoFile}
         /\ disk.readable \subseteq Files
BY ClosureAssumption DEF DiskType

\* The types of the locals of spec_from_files.
LEMMA WalkFacts ==
  ASSUME walk \in WalkType
  PROVE  /\ walk.pc \in {"idle", "walk", "ok", "error"} /\ walk.root \in Files \cup {NoFile}
         /\ walk.search \in Seq(Dirs) /\ walk.pending \in Seq(Files)
         /\ walk.visited \subseteq Files /\ walk.idx \in Nat /\ walk.pos \in Nat
BY DEF WalkType

\* Candidates are files.
LEMMA CandidateFiles ==
  ASSUME ClosureTypeOK, NEW f \in Files, NEW name \in Names
  PROVE  Candidates(f, name) \subseteq Files
<1>1. CandidateDirs(f) \subseteq Dirs
  BY DiskFacts, WalkFacts DEF ClosureTypeOK, CandidateDirs
<1> QED
  BY <1>1, DiskFacts DEF ClosureTypeOK, Candidates

\* The root is needed.
LEMMA RootNeeded ==
  ASSUME walk.root \in Files
  PROVE  walk.root \in Needed
BY DEF Needed

\* What a needed file imports is needed.
LEMMA ImportNeeded ==
  ASSUME NEW f \in Needed, NEW name \in Imported(f), NEW g \in Files, Candidates(f, name) = {g}
  PROVE  g \in Needed
<1> SUFFICES ASSUME NEW S \in SUBSET Files, walk.root \in S, Closed(S)
             PROVE  g \in S
  BY DEF Needed
<1>1. f \in S
  BY DEF Needed
<1> QED
  BY <1>1 DEF Closed

\* The names of a file, one by one.
LEMMA NameImported ==
  ASSUME disk \in Disks, NEW f \in Files, NEW p \in 1 .. Len(disk.imports[f]),
         disk.imports[f][p] \notin Builtins
  PROVE  disk.imports[f][p] \in Imported(f) /\ disk.imports[f][p] \in Names
BY DiskFacts DEF Imported

---------------------------------------------------------------------------
\* A step that keeps the file system, the root and the search directories keeps what
\* the definitions say of them.
Frozen == disk' = disk /\ walk'.root = walk.root /\ walk'.search = walk.search

\* Such a step finds the same files for an import.
LEMMA FrozenCandidates ==
  ASSUME Frozen
  PROVE  \A f, name : Candidates(f, name)' = Candidates(f, name)
BY DEF Frozen, Candidates, CandidateDirs

\* Such a step leaves what the root needs, and which files are sound, as they were.
LEMMA FrozenNeeded ==
  ASSUME Frozen
  PROVE  /\ Needed' = Needed
         /\ \A f : Sound(f)' <=> Sound(f)
<1>1. \A f : Imported(f)' = Imported(f)
  BY DEF Frozen, Imported
<1>2. \A S : Closed(S)' <=> Closed(S)
  BY <1>1, FrozenCandidates DEF Closed
<1>3. Needed' = Needed
  BY <1>2 DEF Needed, Frozen
<1>4. \A f : Sound(f)' <=> Sound(f)
  BY <1>1, FrozenCandidates DEF Sound, Frozen
<1> QED
  BY <1>3, <1>4

---------------------------------------------------------------------------
\* push_file keeps the list of loaded files in order: a needed file is appended when
\* it is new, and one that cannot be read ends the walk with an unsound file.
LEMMA PushKeepsLoaded ==
  ASSUME ClosureTypeOK, LoadedInv, walk.pc = "walk", disk' = disk,
         NEW f \in Needed, walk' = PushFile([walk EXCEPT !.pos = @ + 1], f)
  PROVE  /\ Frozen /\ walk' \in WalkType /\ walk'.pc \in {"walk", "error"}
         /\ walk'.idx = walk.idx /\ walk'.pos = walk.pos + 1
         /\ walk'.pc = "walk" =>
              /\ LoadedInv' /\ f \in walk'.visited /\ walk.visited \subseteq walk'.visited
              /\ Len(walk'.pending) >= Len(walk.pending)
              /\ \A i \in 1 .. Len(walk.pending) : walk'.pending[i] = walk.pending[i]
         /\ walk'.pc = "error" => ~Sound(f)
<1> DEFINE w == [walk EXCEPT !.pos = @ + 1]
<1>0. f \in Files
  BY DEF Needed
<1>1. /\ w \in WalkType /\ w.pc = "walk" /\ w.root = walk.root /\ w.search = walk.search
      /\ w.pending = walk.pending /\ w.visited = walk.visited /\ w.idx = walk.idx /\ w.pos = walk.pos + 1
  BY DEF ClosureTypeOK, WalkType
<1>2. walk' = IF f \in w.visited THEN w
              ELSE IF f \in disk.readable
                   THEN [w EXCEPT !.visited = @ \cup {f}, !.pending = Append(@, f)]
                   ELSE [w EXCEPT !.visited = @ \cup {f}, !.pc = "error"]
  BY DEF PushFile
<1> HIDE DEF w
<1>3. /\ walk' \in WalkType /\ walk'.idx = walk.idx /\ walk'.pos = walk.pos + 1
      /\ walk'.root = walk.root /\ walk'.search = walk.search
      /\ f \in walk.visited => walk' = w
      /\ f \notin walk.visited => walk'.visited = walk.visited \cup {f}
      /\ f \notin walk.visited /\ f \notin disk.readable => walk'.pc = "error"
      /\ f \notin walk.visited /\ f \in disk.readable =>
           walk'.pc = "walk" /\ walk'.pending = Append(walk.pending, f)
  <2>1. w.visited \cup {f} \in SUBSET Files /\ Append(w.pending, f) \in Seq(Files)
    BY <1>0, <1>1 DEF WalkType
  <2>2. CASE f \in w.visited
    BY <2>2, <1>1, <1>2
  <2>3. CASE f \notin w.visited /\ f \notin disk.readable
    <3>1. walk' = [w EXCEPT !.visited = w.visited \cup {f}, !.pc = "error"]
      BY <2>3, <1>2
    <3> QED
      BY <2>1, <2>3, <3>1, <1>1 DEF WalkType
  <2>4. CASE f \notin w.visited /\ f \in disk.readable
    <3>1. walk' = [w EXCEPT !.visited = w.visited \cup {f}, !.pending = Append(w.pending, f)]
      BY <2>4, <1>2
    <3>2. walk' \in WalkType
      BY <2>1, <3>1, <1>1 DEF WalkType
    <3> QED
      BY <2>4, <3>1, <3>2, <1>1 DEF WalkType
  <2> QED
    BY <2>2, <2>3, <2>4
<1>4. Frozen
  BY <1>3 DEF Frozen
<1>5. walk.pending \in Seq(Files) /\ Len(walk.pending) \in Nat
  BY WalkFacts DEF ClosureTypeOK
<1>6. CASE f \in walk.visited
  <2>1. walk'.pc = "walk" /\ walk'.pending = walk.pending /\ walk'.visited = walk.visited
    BY <1>6, <1>1, <1>3
  <2>2. LoadedInv'
    <3>1. Needed' = Needed /\ walk'.root = walk.root /\ disk' = disk
      BY <1>3, <1>4, FrozenNeeded DEF Frozen
    <3>2. Loaded' = Loaded
      BY <2>1 DEF Loaded
    <3> QED
      BY <2>1, <3>1, <3>2 DEF LoadedInv
  <2> QED
    BY <2>1, <2>2, <1>3, <1>4, <1>5, <1>6
<1>7. CASE f \notin walk.visited /\ f \notin disk.readable
  <2>1. ~Sound(f)
    BY <1>7 DEF Sound
  <2> QED
    BY <2>1, <1>3, <1>4, <1>7
<1>8. CASE f \notin walk.visited /\ f \in disk.readable
  <2>1. /\ Len(walk'.pending) = Len(walk.pending) + 1
        /\ \A i \in 1 .. Len(walk.pending) : walk'.pending[i] = walk.pending[i]
        /\ walk'.pending[Len(walk.pending) + 1] = f
    BY <1>0, <1>3, <1>5, <1>8
  <2>2. \A i \in 1 .. Len(walk.pending) : walk.pending[i] # f
    BY <1>8 DEF LoadedInv, Loaded
  <2>3. \A i, j \in 1 .. Len(walk'.pending) : walk'.pending[i] = walk'.pending[j] => i = j
    <3> SUFFICES ASSUME NEW i \in 1 .. Len(walk'.pending), NEW j \in 1 .. Len(walk'.pending),
                        walk'.pending[i] = walk'.pending[j]
                 PROVE  i = j
      OBVIOUS
    <3>1. /\ i \in 1 .. Len(walk.pending) \/ i = Len(walk.pending) + 1
          /\ j \in 1 .. Len(walk.pending) \/ j = Len(walk.pending) + 1
      BY <2>1, <1>5
    <3>2. \A k, l \in 1 .. Len(walk.pending) : walk.pending[k] = walk.pending[l] => k = l
      BY DEF LoadedInv
    <3> QED
      BY <2>1, <2>2, <3>1, <3>2
  <2>4. Loaded' = Loaded \cup {f}
    BY <2>1, <1>5 DEF Loaded
  <2>5. walk'.visited \subseteq disk'.readable /\ walk'.visited \subseteq Needed'
    BY <1>3, <1>4, <1>8, FrozenNeeded DEF LoadedInv, Frozen
  <2>6. walk'.root \in Files /\ Len(walk'.pending) > 0 /\ walk'.pending[1] = walk'.root
    BY <2>1, <1>3, <1>5 DEF LoadedInv
  <2>7. walk'.visited = Loaded'
    BY <2>4, <1>3, <1>8 DEF LoadedInv
  <2>8. LoadedInv'
    BY <2>3, <2>5, <2>6, <2>7 DEF LoadedInv
  <2> QED
    BY <2>1, <2>8, <1>3, <1>4, <1>5, <1>8
<1> QED
  BY <1>6, <1>7, <1>8

\* A step that adds files at the end and keeps idx keeps the progress made before it.
LEMMA ProgressKept ==
  ASSUME ClosureTypeOK, ProgressInv, Frozen, walk'.idx = walk.idx,
         walk.visited \subseteq walk'.visited,
         \A i \in 1 .. Len(walk.pending) : walk'.pending[i] = walk.pending[i]
  PROVE  /\ \A i \in 1 .. Len(walk.pending) : i < walk.idx =>
              \A p \in 1 .. Len(disk'.imports[walk'.pending[i]]) : Handled(walk.pending[i], p)'
         /\ walk.idx > 0 =>
              /\ Importer' = Importer
              /\ \A p \in 1 .. Len(disk.imports[Importer]) : p < walk.pos => Handled(Importer, p)'
<1>1. walk.idx \in Nat /\ Len(walk.pending) \in Nat
  BY WalkFacts DEF ClosureTypeOK
<1>2. ASSUME NEW i \in 1 .. Len(walk.pending), i < walk.idx,
             NEW p \in 1 .. Len(disk'.imports[walk'.pending[i]])
      PROVE  Handled(walk.pending[i], p)'
  <2>1. walk'.pending[i] = walk.pending[i] /\ disk' = disk
    BY DEF Frozen
  <2>2. Handled(walk.pending[i], p)
    BY <2>1, <1>2 DEF ProgressInv
  <2> QED
    BY <2>1, <2>2, FrozenCandidates DEF Handled, Frozen
<1>3. ASSUME walk.idx > 0
      PROVE  /\ Importer' = Importer
             /\ \A p \in 1 .. Len(disk.imports[Importer]) : p < walk.pos => Handled(Importer, p)'
  <2>1. Importer' = Importer
    BY <1>1, <1>3 DEF Importer, ProgressInv
  <2>2. \A p \in 1 .. Len(disk.imports[Importer]) : p < walk.pos => Handled(Importer, p)
    BY <1>3 DEF ProgressInv
  <2>3. \A p \in 1 .. Len(disk.imports[Importer]) : p < walk.pos => Handled(Importer, p)'
    BY <2>1, <2>2, FrozenCandidates DEF Handled, Frozen
  <2> QED
    BY <2>1, <2>3
<1> QED
  BY <1>2, <1>3

\* A step that has handled the name at pos and moved on keeps the progress.
LEMMA PositionKeeps ==
  ASSUME ClosureTypeOK, ProgressInv, Frozen, walk.idx > 0, walk'.idx = walk.idx,
         walk'.pos = walk.pos + 1, walk.visited \subseteq walk'.visited,
         Len(walk'.pending) \in Nat, Len(walk'.pending) >= Len(walk.pending),
         \A i \in 1 .. Len(walk.pending) : walk'.pending[i] = walk.pending[i],
         \A p : p = walk.pos => Handled(Importer, p)'
  PROVE  ProgressInv'
<1>1. walk.idx \in Nat /\ walk.pos \in Nat /\ Len(walk.pending) \in Nat
  BY WalkFacts DEF ClosureTypeOK
<1>2. /\ \A i \in 1 .. Len(walk.pending) : i < walk.idx =>
           \A p \in 1 .. Len(disk'.imports[walk'.pending[i]]) : Handled(walk.pending[i], p)'
      /\ Importer' = Importer
      /\ \A p \in 1 .. Len(disk.imports[Importer]) : p < walk.pos => Handled(Importer, p)'
  BY ProgressKept
<1>3. walk'.idx <= Len(walk'.pending) /\ walk'.pos >= 1
  BY <1>1 DEF ProgressInv
<1>4. \A i \in 1 .. Len(walk'.pending) : i < walk'.idx => i \in 1 .. Len(walk.pending)
  BY <1>1 DEF ProgressInv
<1>5. \A i \in 1 .. Len(walk'.pending) : i < walk'.idx =>
        \A p \in 1 .. Len(disk'.imports[walk'.pending[i]]) : Handled(walk.pending[i], p)'
  BY <1>1, <1>2, <1>4
<1>6. \A p \in 1 .. Len(disk'.imports[Importer']) : p < walk'.pos => Handled(Importer, p)'
  <2> SUFFICES ASSUME NEW p \in 1 .. Len(disk'.imports[Importer']), p < walk'.pos
               PROVE  Handled(Importer, p)'
    OBVIOUS
  <2>1. p \in 1 .. Len(disk.imports[Importer]) /\ p \in Nat
    BY <1>2 DEF Frozen
  <2>2. p < walk.pos \/ p = walk.pos
    BY <2>1, <1>1
  <2> QED
    BY <2>1, <2>2, <1>2
<1> QED
  BY <1>3, <1>5, <1>6 DEF ProgressInv

---------------------------------------------------------------------------
\* The call: the root alone is loaded, or the walk has failed at the root.
LEMMA StartKeeps ==
  ASSUME WalkInv, NEW root \in Files \cup {NoFile}, NEW search \in Seq(Dirs), Start(root, search)
  PROVE  WalkInv'
<1> DEFINE called == [walk EXCEPT !.pc = "walk", !.root = root, !.search = search]
<1>1. walk = NoWalk /\ disk' = disk /\ disk \in Disks
  BY DEF Start, WalkInv, ClosureTypeOK
<1>2. /\ called.pc = "walk" /\ called.root = root /\ called.search = search
      /\ called.pending = <<>> /\ called.visited = {} /\ called.idx = 0 /\ called.pos = 1
      /\ called \in WalkType
  <2>1. walk \in WalkType
    BY DEF WalkInv, ClosureTypeOK
  <2>2. walk.pending = <<>> /\ walk.visited = {} /\ walk.idx = 0 /\ walk.pos = 1
    BY <1>1 DEF NoWalk
  <2> QED
    BY <2>1, <2>2 DEF WalkType
<1>3. walk' = IF root = NoFile THEN [called EXCEPT !.pc = "error"]
              ELSE IF root \in called.visited THEN called
              ELSE IF root \in disk.readable
                   THEN [called EXCEPT !.visited = @ \cup {root}, !.pending = Append(@, root)]
                   ELSE [called EXCEPT !.visited = @ \cup {root}, !.pc = "error"]
  BY DEF Start, PushFile
<1> HIDE DEF called
<1>4. CASE root = NoFile
  <2>1. walk' \in WalkType /\ walk'.pc = "error" /\ walk'.root = NoFile
    BY <1>2, <1>3, <1>4 DEF WalkType
  <2> QED
    BY <2>1, <1>1 DEF WalkInv, ClosureTypeOK
<1>5. CASE root # NoFile /\ root \notin disk.readable
  <2>1. walk' \in WalkType /\ walk'.pc = "error" /\ walk'.root = root
    BY <1>2, <1>3, <1>5 DEF WalkType
  <2>2. root \in Needed'
    BY <2>1, <1>5 DEF Needed
  <2>3. ~Sound(root)'
    BY <1>1, <1>5 DEF Sound
  <2> QED
    BY <2>1, <2>2, <2>3, <1>1 DEF WalkInv, ClosureTypeOK
<1>6. CASE root # NoFile /\ root \in disk.readable
  <2>1. walk' = [called EXCEPT !.visited = @ \cup {root}, !.pending = Append(@, root)]
    BY <1>2, <1>3, <1>6
  <2>2. called.visited \cup {root} = {root} /\ Append(called.pending, root) = <<root>>
    BY <1>2, <1>6
  <2>3. /\ walk' \in WalkType /\ walk'.pc = "walk" /\ walk'.root = root /\ walk'.idx = 0 /\ walk'.pos = 1
        /\ walk'.visited = {root} /\ walk'.pending = <<root>>
    <3>1. {root} \in SUBSET Files /\ <<root>> \in Seq(Files)
      BY <1>6
    <3>2. walk' = [called EXCEPT !.visited = {root}, !.pending = <<root>>]
      BY <2>1, <2>2
    <3> QED
      BY <3>1, <3>2, <1>2 DEF WalkType
  <2>4. root \in Needed'
    BY <2>3, <1>6 DEF Needed
  <2>5. Len(walk'.pending) = 1 /\ walk'.pending[1] = root
    BY <2>3
  <2>6. Loaded' = {root}
    BY <2>5 DEF Loaded
  <2>7. LoadedInv'
    BY <2>3, <2>4, <2>5, <2>6, <1>1, <1>6 DEF LoadedInv
  <2>8. ProgressInv'
    BY <2>3, <2>5 DEF ProgressInv
  <2> QED
    BY <2>3, <2>7, <2>8, <1>1 DEF WalkInv, ClosureTypeOK
<1> QED
  BY <1>4, <1>5, <1>6

\* The next file: everything before it has been handled.
LEMMA NextImporterKeeps ==
  ASSUME WalkInv, NextImporter
  PROVE  WalkInv'
<1>1. /\ ClosureTypeOK /\ LoadedInv /\ ProgressInv /\ walk.pc = "walk" /\ ~NamesLeft
      /\ walk.idx < Len(walk.pending) /\ disk' = disk
      /\ walk' = [walk EXCEPT !.idx = @ + 1, !.pos = 1]
  BY DEF WalkInv, NextImporter
<1>2. /\ walk' \in WalkType /\ walk'.pc = "walk" /\ walk'.idx = walk.idx + 1 /\ walk'.pos = 1
      /\ walk'.pending = walk.pending /\ walk'.visited = walk.visited
      /\ walk'.root = walk.root /\ walk'.search = walk.search
  <2>1. walk \in WalkType /\ walk.pc = "walk" /\ walk.idx + 1 \in Nat
    BY <1>1, WalkFacts DEF ClosureTypeOK
  <2>2. walk' = [walk EXCEPT !.idx = walk.idx + 1, !.pos = 1]
    BY <1>1
  <2> QED
    BY <2>1, <2>2 DEF WalkType
<1>3. Frozen
  BY <1>1, <1>2 DEF Frozen
<1>4. LoadedInv'
  BY <1>1, <1>2, <1>3, FrozenNeeded DEF LoadedInv, Loaded, Frozen
<1>5. walk.idx \in Nat /\ walk.pos \in Nat /\ walk.pending \in Seq(Files) /\ Len(walk.pending) \in Nat
  BY <1>1, WalkFacts DEF ClosureTypeOK
<1>6. \A i \in 1 .. Len(walk.pending) : i < walk.idx + 1 =>
        \A p \in 1 .. Len(disk.imports[walk.pending[i]]) : Handled(walk.pending[i], p)
  <2> SUFFICES ASSUME NEW i \in 1 .. Len(walk.pending), i < walk.idx + 1,
                      NEW p \in 1 .. Len(disk.imports[walk.pending[i]])
               PROVE  Handled(walk.pending[i], p)
    OBVIOUS
  <2>1. CASE i < walk.idx
    BY <2>1, <1>1 DEF ProgressInv
  <2>2. CASE i = walk.idx
    <3>1. walk.idx > 0 /\ walk.pending[i] = Importer
      BY <2>2, <1>5 DEF Importer
    <3>2. walk.pending[i] \in Files
      BY <1>5
    <3>3. Len(disk.imports[Importer]) \in Nat /\ p \in 1 .. Len(disk.imports[Importer])
      BY <3>1, <3>2, <1>1, DiskFacts DEF ClosureTypeOK
    <3>4. p < walk.pos
      BY <3>1, <3>3, <1>1, <1>5 DEF NamesLeft
    <3> QED
      BY <3>1, <3>3, <3>4, <1>1 DEF ProgressInv
  <2> QED
    BY <2>1, <2>2, <1>5
<1>7. \A i \in 1 .. Len(walk.pending) : \A p : Handled(walk.pending[i], p) => Handled(walk.pending[i], p)'
  BY <1>1, <1>2, <1>3, FrozenCandidates DEF Handled
<1>8. \A i \in 1 .. Len(walk'.pending) : i < walk'.idx =>
        \A p \in 1 .. Len(disk'.imports[walk'.pending[i]]) : Handled(walk.pending[i], p)'
  BY <1>1, <1>2, <1>6, <1>7
<1>9. \A p \in 1 .. Len(disk'.imports[Importer']) : ~(p < walk'.pos)
  BY <1>2
<1>10. ProgressInv'
  BY <1>1, <1>2, <1>5, <1>8, <1>9 DEF ProgressInv
<1> QED
  BY <1>1, <1>2, <1>4, <1>10 DEF WalkInv, ClosureTypeOK

\* One name: a needed file is pushed, or an unsound needed file was found.
LEMMA ImportNameKeeps ==
  ASSUME WalkInv, ImportName
  PROVE  WalkInv'
<1> DEFINE name == disk.imports[Importer][walk.pos]
           found == Candidates(Importer, name)
<1>1. /\ ClosureTypeOK /\ LoadedInv /\ ProgressInv /\ walk.pc = "walk" /\ NamesLeft /\ disk' = disk
  BY DEF WalkInv, ImportName
<1>2. /\ walk.idx \in Nat /\ walk.idx > 0 /\ walk.idx <= Len(walk.pending)
      /\ walk.pos \in Nat /\ walk.pos >= 1 /\ walk.pending \in Seq(Files) /\ Len(walk.pending) \in Nat
  BY <1>1, WalkFacts DEF ClosureTypeOK, NamesLeft, ProgressInv
<1>3. Importer \in Files /\ Importer \in Needed
  BY <1>1, <1>2 DEF Importer, LoadedInv, Loaded
<1>4. walk.pos \in 1 .. Len(disk.imports[Importer])
  BY <1>1, <1>2, <1>3, DiskFacts DEF NamesLeft, ClosureTypeOK
<1>5. ASSUME name \in Builtins, walk' = [walk EXCEPT !.pos = @ + 1]
      PROVE  WalkInv'
  <2>1. /\ walk' \in WalkType /\ walk'.pc = "walk" /\ walk'.idx = walk.idx /\ walk'.pos = walk.pos + 1
        /\ walk'.pending = walk.pending /\ walk'.visited = walk.visited
        /\ walk'.root = walk.root /\ walk'.search = walk.search
    BY <1>1, <1>5 DEF ClosureTypeOK, WalkType
  <2>2. Frozen
    BY <2>1, <1>1 DEF Frozen
  <2>3. LoadedInv'
    BY <2>1, <2>2, <1>1, FrozenNeeded DEF LoadedInv, Loaded, Frozen
  <2>4. Importer' = Importer /\ Handled(Importer, walk.pos)
    BY <2>1, <1>5 DEF Handled, Importer
  <2>5. \A p : p = walk.pos => Handled(Importer, p)'
    BY <2>1, <2>2, <2>4, FrozenCandidates DEF Handled, Frozen
  <2>6. ProgressInv'
    BY <2>1, <2>2, <2>5, <1>1, <1>2, PositionKeeps
  <2> QED
    BY <2>1, <2>3, <2>6, <1>1 DEF WalkInv, ClosureTypeOK
<1>6. ASSUME name \notin Builtins, \A f \in found : found # {f},
             walk' = [walk EXCEPT !.pc = "error"]
      PROVE  WalkInv'
  <2>1. walk' \in WalkType /\ walk'.pc = "error" /\ walk'.root = walk.root /\ walk'.search = walk.search
    BY <1>1, <1>6 DEF ClosureTypeOK, WalkType
  <2>2. Frozen
    BY <2>1, <1>1 DEF Frozen
  <2>3. name \in Imported(Importer)
    BY <1>1, <1>3, <1>4, <1>6, NameImported DEF ClosureTypeOK
  <2>4. \A g : Candidates(Importer, name) # {g}
    BY <1>6
  <2>5. ~Sound(Importer)
    BY <2>3, <2>4 DEF Sound
  <2>6. \E f \in Needed' : ~Sound(f)'
    BY <2>2, <2>5, <1>3, FrozenNeeded
  <2> QED
    BY <2>1, <2>6, <1>1 DEF WalkInv, ClosureTypeOK
<1>7. ASSUME name \notin Builtins, NEW f \in found, found = {f},
             walk' = PushFile([walk EXCEPT !.pos = @ + 1], f)
      PROVE  WalkInv'
  <2>1. name \in Imported(Importer) /\ name \in Names
    BY <1>1, <1>3, <1>4, <1>7, NameImported DEF ClosureTypeOK
  <2>2. f \in Files
    BY <2>1, <1>1, <1>3, <1>7, CandidateFiles
  <2>3. f \in Needed
    BY <2>1, <2>2, <1>3, <1>7, ImportNeeded
  <2>4. /\ Frozen /\ walk' \in WalkType /\ walk'.pc \in {"walk", "error"}
        /\ walk'.idx = walk.idx /\ walk'.pos = walk.pos + 1
        /\ walk'.pc = "walk" =>
             /\ LoadedInv' /\ f \in walk'.visited /\ walk.visited \subseteq walk'.visited
             /\ Len(walk'.pending) >= Len(walk.pending)
             /\ \A i \in 1 .. Len(walk.pending) : walk'.pending[i] = walk.pending[i]
        /\ walk'.pc = "error" => ~Sound(f)
    BY <2>3, <1>1, <1>7, PushKeepsLoaded
  <2>5. CASE walk'.pc = "error"
    <3>1. f \in Needed' /\ ~Sound(f)'
      BY <2>3, <2>4, <2>5, FrozenNeeded
    <3> QED
      BY <3>1, <2>4, <2>5, <1>1 DEF WalkInv, ClosureTypeOK
  <2>6. CASE walk'.pc = "walk"
    <3>1. Importer' = Importer
      BY <2>4, <2>6, <1>2 DEF Importer
    <3>2. Candidates(Importer, name) = {f}
      BY <1>7
    <3>3. \A p : p = walk.pos => Handled(Importer, p)'
      BY <3>1, <3>2, <2>4, <2>6, FrozenCandidates DEF Handled, Frozen
    <3>4. walk'.pending \in Seq(Files) /\ Len(walk'.pending) \in Nat
      BY <2>4 DEF WalkType
    <3>5. ProgressInv'
      BY <3>3, <3>4, <2>4, <2>6, <1>1, <1>2, PositionKeeps
    <3> QED
      BY <3>5, <2>4, <2>6, <1>1 DEF WalkInv, ClosureTypeOK
  <2> QED
    BY <2>4, <2>5, <2>6
<1> QED
  BY <1>5, <1>6, <1>7 DEF ImportName

\* The end: nothing is left to look at.
LEMMA FinishKeeps ==
  ASSUME WalkInv, FinishWalk
  PROVE  WalkInv'
<1>1. /\ ClosureTypeOK /\ LoadedInv /\ ProgressInv /\ walk.pc = "walk" /\ ~NamesLeft
      /\ walk.idx = Len(walk.pending) /\ disk' = disk /\ walk' = [walk EXCEPT !.pc = "ok"]
  BY DEF WalkInv, FinishWalk
<1>2. /\ walk' \in WalkType /\ walk'.pc = "ok" /\ walk'.idx = walk.idx /\ walk'.pos = walk.pos
      /\ walk'.pending = walk.pending /\ walk'.visited = walk.visited
      /\ walk'.root = walk.root /\ walk'.search = walk.search
  BY <1>1 DEF ClosureTypeOK, WalkType
<1>3. Frozen
  BY <1>1, <1>2 DEF Frozen
<1>4. LoadedInv'
  BY <1>1, <1>2, <1>3, FrozenNeeded DEF LoadedInv, Loaded, Frozen
<1>5. Importer' = Importer
  BY <1>2 DEF Importer
<1>6. ProgressInv'
  <2>1. \A i \in 1 .. Len(walk.pending) : \A p : Handled(walk.pending[i], p) => Handled(walk.pending[i], p)'
    BY <1>1, <1>2, <1>3, FrozenCandidates DEF Handled
  <2>2. \A p : Handled(Importer, p) => Handled(Importer, p)'
    BY <1>1, <1>2, <1>3, <1>5, FrozenCandidates DEF Handled
  <2>3. \A i \in 1 .. Len(walk'.pending) : i < walk'.idx =>
          \A p \in 1 .. Len(disk'.imports[walk'.pending[i]]) : Handled(walk.pending[i], p)'
    BY <2>1, <1>1, <1>2 DEF ProgressInv
  <2>4. walk'.idx > 0 =>
          \A p \in 1 .. Len(disk'.imports[Importer']) : p < walk'.pos => Handled(Importer, p)'
    BY <2>2, <1>1, <1>2, <1>5 DEF ProgressInv
  <2> QED
    BY <2>3, <2>4, <1>1, <1>2 DEF ProgressInv
<1>7. walk'.idx = Len(walk'.pending) /\ ~NamesLeft'
  BY <1>1, <1>2, <1>5 DEF NamesLeft
<1> QED
  BY <1>1, <1>2, <1>4, <1>6, <1>7 DEF WalkInv, ClosureTypeOK

\* A finished walk has loaded the closure, since what it loaded is closed.
LEMMA InvExact ==
  ASSUME WalkInv
  PROVE  ClosureExact
<1>1. CASE walk.pc = "ok"
  <2>1. ClosureTypeOK /\ LoadedInv /\ ProgressInv /\ walk.idx = Len(walk.pending) /\ ~NamesLeft
    BY <1>1 DEF WalkInv
  <2>2. /\ walk.pending \in Seq(Files) /\ Len(walk.pending) \in Nat /\ walk.pos \in Nat
        /\ Loaded \subseteq Files
    BY <2>1, WalkFacts DEF ClosureTypeOK, LoadedInv
  <2>3. ASSUME NEW f \in Loaded, NEW name \in Imported(f)
        PROVE  \E g \in Loaded : Candidates(f, name) = {g}
    <3>1. PICK i \in 1 .. Len(walk.pending) : f = walk.pending[i]
      BY DEF Loaded
    <3>2. PICK p \in 1 .. Len(disk.imports[f]) : name = disk.imports[f][p] /\ name \notin Builtins
      BY DEF Imported
    <3>3. f \in Files /\ Len(disk.imports[f]) \in Nat
      BY <2>1, <2>2, DiskFacts DEF ClosureTypeOK
    <3>4. Handled(f, p)
      <4>1. CASE i < walk.idx
        BY <4>1, <3>1, <3>2, <2>1 DEF ProgressInv
      <4>2. CASE i = walk.idx
        <5>1. walk.idx > 0 /\ f = Importer
          BY <4>2, <3>1, <2>2 DEF Importer
        <5>2. p < walk.pos
          BY <5>1, <3>2, <3>3, <2>1, <2>2 DEF NamesLeft
        <5> QED
          BY <5>1, <5>2, <3>2, <2>1 DEF ProgressInv
      <4> QED
        BY <4>1, <4>2, <3>1, <2>1, <2>2
    <3> QED
      BY <3>2, <3>4, <2>1 DEF Handled, LoadedInv
  <2>4. Closed(Loaded)
    BY <2>3 DEF Closed
  <2>5. walk.root \in Loaded
    BY <2>1, <2>2 DEF LoadedInv, Loaded
  <2>6. Needed \subseteq Loaded
    BY <2>2, <2>4, <2>5 DEF Needed
  <2>7. Loaded = Needed
    BY <2>1, <2>6 DEF LoadedInv
  <2>8. \A f \in Needed : Sound(f)
    BY <2>1, <2>2, <2>3, <2>7 DEF Sound, LoadedInv
  <2>9. walk.pending # <<>>
    BY <2>1, <2>2 DEF LoadedInv
  <2> QED
    BY <2>1, <2>7, <2>8, <2>9, <1>1 DEF ClosureExact, LoadedInv
<1>2. CASE walk.pc # "ok"
  BY <1>2 DEF WalkInv, ClosureExact
<1> QED
  BY <1>1, <1>2

\* A step of something else leaves the walk alone.
LEMMA StutterKeeps ==
  ASSUME WalkInv, UNCHANGED closureVars
  PROVE  WalkInv'
<1>1. disk' = disk /\ walk' = walk
  BY DEF closureVars
<1>2. Needed' = Needed /\ \A f : Sound(f)' <=> Sound(f)
  BY <1>1, FrozenNeeded DEF Frozen
<1>3. LoadedInv' <=> LoadedInv
  BY <1>1, <1>2 DEF LoadedInv, Loaded
<1>4. ProgressInv' <=> ProgressInv
  BY <1>1 DEF ProgressInv, Handled, Importer, Candidates, CandidateDirs
<1>5. NamesLeft' <=> NamesLeft
  BY <1>1 DEF NamesLeft, Importer
<1> QED
  BY <1>1, <1>2, <1>3, <1>4, <1>5 DEF WalkInv, ClosureTypeOK

---------------------------------------------------------------------------
\* spec_from_files returns the root and then exactly the files the root needs, each
\* once, and fails exactly when one of them cannot be read or has an import that
\* names no file or several: for every file system, import cycles included.
THEOREM WalkExact == ClosureSpec => []ClosureExact
<1>1. ClosureInit => WalkInv
  <2> SUFFICES ASSUME ClosureInit PROVE WalkInv
    OBVIOUS
  <2>1. walk = NoWalk /\ disk \in Disks
    BY DEF ClosureInit
  <2>2. walk \in WalkType /\ walk.pc = "idle"
    BY <2>1 DEF NoWalk, WalkType
  <2> QED
    BY <2>1, <2>2 DEF WalkInv, ClosureTypeOK
<1>2. WalkInv /\ [ClosureNext]_closureVars => WalkInv'
  <2> SUFFICES ASSUME WalkInv, [ClosureNext]_closureVars PROVE WalkInv'
    OBVIOUS
  <2>1. ASSUME NEW root \in Files \cup {NoFile}, NEW search \in Seq(Dirs), Start(root, search)
        PROVE  WalkInv'
    BY <2>1, StartKeeps
  <2>2. CASE NextImporter
    BY <2>2, NextImporterKeeps
  <2>3. CASE ImportName
    BY <2>3, ImportNameKeeps
  <2>4. CASE FinishWalk
    BY <2>4, FinishKeeps
  <2>5. CASE UNCHANGED closureVars
    BY <2>5, StutterKeeps
  <2> QED
    BY <2>1, <2>2, <2>3, <2>4, <2>5 DEF ClosureNext, WalkStep
<1>3. WalkInv => ClosureExact
  BY InvExact
<1> QED
  BY <1>1, <1>2, <1>3, PTL DEF ClosureSpec
---------------------------------------------------------------------------
(* The lookup *)

cand == lookup.candidates
Underway == {"options", "dial", "handshake", "pin", "connected"}
Trying == Underway \cup {"next"}
Asking == {"dial_registry", "status", "headers", "body"}

LookupShape ==
  lookup = [pc |-> lookup.pc, direct |-> lookup.direct, asked |-> lookup.asked,
            sound |-> lookup.sound, override |-> lookup.override, read |-> lookup.read,
            candidates |-> lookup.candidates, at |-> lookup.at, pin |-> lookup.pin,
            open |-> lookup.open, contacted |-> lookup.contacted,
            diagnostics |-> lookup.diagnostics]

\* How much of the answer has arrived.
Arrived ==
  /\ lookup.pc = "dial_registry" => lookup.read = 0
  /\ lookup.pc = "status" => net.registry /\ lookup.read = 0
  /\ lookup.pc = "headers" =>
       net.registry /\ net.status = "200" /\ lookup.read \in 1 .. Len(net.headers) + 1
  /\ lookup.pc = "body" =>
       net.registry /\ net.status = "200" /\ lookup.read = Len(net.headers) + 2
  /\ lookup.pc \in Trying \cup {"entries"} => Understood
  /\ lookup.pc = "entries" => lookup.read \in 0 .. Len(net.body)

\* Before the first attempt.
Untried == lookup.at = 0 /\ lookup.diagnostics = <<>> /\ lookup.contacted = {}

\* The candidates are the entries to be kept among the first n, in their order.
Found(c, n) ==
  /\ c \in Seq(Candidate)
  /\ \A i \in 1 .. Len(c) : c[i].id \in 1 .. n /\ c[i] = Info(c[i].id) /\ EntryKept(net.body[c[i].id])
  /\ \A i, j \in 1 .. Len(c) : i < j => c[i].id < c[j].id
  /\ \A k \in 1 .. n : EntryKept(net.body[k]) => \E i \in 1 .. Len(c) : c[i].id = k

\* The candidates before the one in hand cannot be connected to, and only those up
\* to it were contacted.
Tried ==
  /\ lookup.at \in 0 .. Len(cand)
  /\ lookup.pc \in Underway => lookup.at > 0
  /\ \A i \in 1 .. Len(cand) :
       i < lookup.at \/ (i = lookup.at /\ lookup.pc = "next") => ~Workable(net.body[cand[i].id])
  /\ \A h \in lookup.contacted : \E i \in 1 .. lookup.at : h = cand[i].host
  /\ lookup.diagnostics \in Seq(Hosts)
  /\ Len(lookup.diagnostics) = IF lookup.pc = "next" THEN lookup.at ELSE lookup.at - 1

\* What the attempt in hand has passed.
Attempt ==
  /\ lookup.pc \in Underway => lookup.pin = PinInEffect(Current)
  /\ lookup.pc \in Underway \ {"options"} => lookup.sound /\ lookup.pin \notin {BadPin, EmptyPin}
  /\ lookup.pc \in {"handshake", "pin", "connected"} => Current.host \in net.up
  /\ lookup.pc = "connected" => lookup.pin = NoPin \/ net.cert[Current.host] = lookup.pin

\* What was asked of a registry.
Registered ==
  /\ Arrived
  /\ lookup.pc \in Asking => cand = <<>> /\ Untried
  /\ lookup.pc = "entries" => Found(cand, lookup.read) /\ Untried
  /\ lookup.pc \in Trying => Found(cand, Len(net.body)) /\ Tried /\ Attempt
  /\ lookup.pc = "failed" =>
       /\ lookup.asked /\ Understood => \A k \in 1 .. Len(net.body) : ~Workable(net.body[k])
       /\ Len(lookup.diagnostics) = lookup.at

\* The connection, asked for through a registry or directly.
Connection ==
  /\ lookup.open = IF lookup.pc \in {"handshake", "pin", "connected"} THEN {Current.host} ELSE {}
  /\ lookup.pc \in {"pin", "connected"} => Current.host \in net.trusted

LookupInv ==
  /\ net \in Worlds /\ LookupShape /\ lookup.pc \in LookupPcs
  /\ lookup.pc = "idle" => lookup = NoLookup
  /\ Connection
  /\ ~lookup.direct => Registered

\* What the world is made of.
LEMMA WorldFacts ==
  ASSUME net \in Worlds
  PROVE  /\ net.up \subseteq Hosts /\ net.trusted \subseteq Hosts /\ net.served \in Nat
         /\ \A h \in Hosts : net.cert[h] \in Pins
         /\ net.headers \in Seq(HeaderType) /\ Len(net.headers) \in Nat
         /\ net.body # NoArray => /\ net.body \in Seq(EntryType) /\ Len(net.body) \in Nat
                                  /\ \A k \in 1 .. Len(net.body) : net.body[k] \in EntryType
<1>1. net \in WorldType
  BY LookupAssumption
<1>2. /\ net.up \subseteq Hosts /\ net.trusted \subseteq Hosts /\ net.served \in Nat
      /\ net.cert \in [Hosts -> Pins] /\ net.headers \in Headers /\ net.body \in Documents
  BY <1>1 DEF WorldType
<1>3. net.headers \in Seq(HeaderType)
  BY <1>2, LookupAssumption
<1>4. net.body = NoArray \/ net.body \in Seq(EntryType)
  BY <1>2, LookupAssumption
<1> QED
  BY <1>2, <1>3, <1>4, LenProperties, ElementOfSeq

\* What an entry of an answer is made of.
LEMMA EntryFacts ==
  ASSUME NEW e \in EntryType
  PROVE  /\ e.host \in Hosts \cup {Blank} /\ e.port \in Ports \cup {NoPort}
         /\ e.pin \in Pins \cup {NoPin, EmptyPin, BadPin}
BY DEF EntryType

\* Only an entry that is kept can be connected to.
LEMMA WorkableKept ==
  ASSUME net \in Worlds, NEW e \in EntryType, Workable(e)
  PROVE  EntryKept(e)
<1>1. e.host \in Hosts /\ e.service /\ e.port # NoPort /\ 1 <= e.port /\ e.port <= 65535
  BY WorldFacts DEF Workable
<1>2. e.pin \in Pins \cup {NoPin}
  BY EntryFacts DEF Workable
<1> QED
  BY <1>1, <1>2, LookupAssumption DEF EntryKept

\* What is kept of an entry is a candidate.
LEMMA KeptCandidate ==
  ASSUME net \in Worlds, net.body # NoArray, NEW k \in 1 .. Len(net.body), EntryKept(net.body[k])
  PROVE  Info(k) \in Candidate
<1>1. net.body[k] \in EntryType /\ k \in Nat
  BY WorldFacts
<1>2. /\ net.body[k].host \in Hosts /\ net.body[k].port \in Ports
      /\ net.body[k].pin \in Pins \cup {NoPin, EmptyPin, BadPin}
  BY <1>1, EntryFacts DEF EntryKept
<1> QED
  BY <1>1, <1>2 DEF Info, Candidate

\* What can be connected to depends on the world, the credentials and the override.
LEMMA WorkableSteady ==
  ASSUME net' = net, lookup'.sound = lookup.sound, lookup'.override = lookup.override
  PROVE  \A e : Workable(e)' <=> Workable(e)
BY DEF Workable

\* The same of what arrived and of what was found there.
LEMMA AnswerSteady ==
  ASSUME net' = net
  PROVE  /\ Understood' <=> Understood
         /\ \A k : Info(k)' = Info(k)
         /\ \A c, n : Found(c, n)' <=> Found(c, n)
<1>1. Understood' <=> Understood
  BY DEF Understood, HeaderValue
<1>2. \A k : Info(k)' = Info(k)
  BY DEF Info
<1>3. ASSUME NEW c, NEW n PROVE Found(c, n)' <=> Found(c, n)
  <2>1. net'.body = net.body /\ \A i : Info(c[i].id)' = Info(c[i].id)
    BY <1>2
  <2> QED
    BY <2>1 DEF Found
<1> QED
  BY <1>1, <1>2, <1>3

---------------------------------------------------------------------------
(* The lookup, step by step *)

\* The call.
LEMMA CallKeeps ==
  ASSUME LookupInv, NEW usable, NEW built, NEW sound, NEW override,
         ConnectFromRegistry(usable, built, sound, override)
  PROVE  LookupInv'
<1>1. net' = net /\ lookup = NoLookup
  BY DEF ConnectFromRegistry, LookupInv
<1>2. lookup' = [NoLookup EXCEPT !.sound = sound, !.override = override, !.asked = usable /\ built,
                                 !.pc = IF usable /\ built THEN "dial_registry" ELSE "failed"]
  BY <1>1 DEF ConnectFromRegistry
<1>3. /\ lookup'.pc = (IF usable /\ built THEN "dial_registry" ELSE "failed")
      /\ lookup'.asked = (usable /\ built) /\ lookup'.direct = FALSE /\ lookup'.read = 0
      /\ lookup'.candidates = <<>> /\ lookup'.at = 0 /\ lookup'.open = {} /\ lookup'.contacted = {}
      /\ lookup'.diagnostics = <<>>
  BY <1>2 DEF NoLookup
<1>4. LookupShape'
  BY <1>2 DEF LookupShape, NoLookup
<1>5. Connection'
  BY <1>3 DEF Connection
<1>6. Registered'
  BY <1>3 DEF Registered, Arrived, Untried, Asking, Trying, Underway, cand
<1> QED
  BY <1>1, <1>3, <1>4, <1>5, <1>6 DEF LookupInv, LookupPcs

\* An answer without candidates is the end, and rightly so if it was not understood.
LEMMA NothingFound ==
  ASSUME LookupInv, lookup.pc \in Asking, net' = net, Discovered(<<>>),
         ~lookup.direct => ~Understood
  PROVE  LookupInv'
<1>1. lookup' = [lookup EXCEPT !.candidates = <<>>, !.at = 0, !.read = 0, !.pc = "failed"]
  BY DEF Discovered
<1>2. /\ lookup'.pc = "failed" /\ lookup'.at = 0 /\ lookup'.open = lookup.open
      /\ lookup'.direct = lookup.direct /\ lookup'.diagnostics = lookup.diagnostics /\ LookupShape'
  BY <1>1 DEF LookupInv, LookupShape
<1>3. Connection'
  BY <1>2 DEF LookupInv, Connection, Asking
<1>4. ASSUME ~lookup.direct PROVE Registered'
  <2>1. lookup'.diagnostics = <<>>
    BY <1>2, <1>4 DEF LookupInv, Registered, Untried
  <2>2. ~Understood'
    BY <1>4, AnswerSteady
  <2> QED
    BY <1>2, <2>1, <2>2 DEF Registered, Arrived, Asking, Trying, Underway
<1> QED
  BY <1>2, <1>3, <1>4 DEF LookupInv, LookupPcs

\* The registry is reached.
LEMMA DialRegistryKeeps ==
  ASSUME LookupInv, DialRegistry
  PROVE  LookupInv'
<1>1. lookup.pc = "dial_registry" /\ net' = net
  BY DEF DialRegistry
<1>2. CASE ~net.registry
  BY <1>1, <1>2, NothingFound DEF DialRegistry, Asking, Understood
<1>3. CASE net.registry
  <2>1. lookup' = [lookup EXCEPT !.pc = "status"]
    BY <1>3 DEF DialRegistry
  <2>2. /\ lookup'.pc = "status" /\ lookup'.open = lookup.open /\ lookup'.read = lookup.read
        /\ lookup'.direct = lookup.direct /\ lookup'.diagnostics = lookup.diagnostics
        /\ lookup'.at = lookup.at /\ lookup'.contacted = lookup.contacted
        /\ lookup'.candidates = lookup.candidates /\ LookupShape'
    BY <2>1 DEF LookupInv, LookupShape
  <2>3. Connection'
    BY <1>1, <2>2 DEF LookupInv, Connection
  <2>4. ASSUME ~lookup.direct PROVE Registered'
    BY <1>1, <1>3, <2>2, <2>4
       DEF LookupInv, Registered, Arrived, Untried, Asking, Trying, Underway, cand
  <2> QED
    BY <1>1, <2>2, <2>3, <2>4 DEF LookupInv, LookupPcs
<1> QED
  BY <1>2, <1>3

\* The status line arrives, or not.
LEMMA ReadStatusKeeps ==
  ASSUME LookupInv, ReadStatus
  PROVE  LookupInv'
<1>1. lookup.pc = "status" /\ net' = net
  BY DEF ReadStatus
<1>2. net.served \in Nat /\ Len(net.headers) \in Nat
  BY WorldFacts DEF LookupInv
<1>3. CASE ~(NextLineComes /\ net.status = "200")
  <2>1. ~lookup.direct => ~Understood
    BY <1>1, <1>2, <1>3 DEF LookupInv, Registered, Arrived, Understood, NextLineComes
  <2> QED
    BY <1>1, <1>3, <2>1, NothingFound DEF ReadStatus, Asking
<1>4. CASE NextLineComes /\ net.status = "200"
  <2>1. lookup' = [lookup EXCEPT !.pc = "headers", !.read = 1]
    BY <1>4 DEF ReadStatus
  <2>2. /\ lookup'.pc = "headers" /\ lookup'.open = lookup.open /\ lookup'.read = 1
        /\ lookup'.direct = lookup.direct /\ lookup'.diagnostics = lookup.diagnostics
        /\ lookup'.at = lookup.at /\ lookup'.contacted = lookup.contacted
        /\ lookup'.candidates = lookup.candidates /\ LookupShape'
    BY <2>1 DEF LookupInv, LookupShape
  <2>3. Connection'
    BY <1>1, <2>2 DEF LookupInv, Connection
  <2>4. ASSUME ~lookup.direct PROVE Registered'
    BY <1>1, <1>2, <1>4, <2>2, <2>4
       DEF LookupInv, Registered, Arrived, Untried, Asking, Trying, Underway, cand
  <2> QED
    BY <1>1, <2>2, <2>3, <2>4 DEF LookupInv, LookupPcs
<1> QED
  BY <1>3, <1>4

\* A header line arrives, or not.
LEMMA ReadHeaderKeeps ==
  ASSUME LookupInv, ReadHeader
  PROVE  LookupInv'
<1>1. lookup.pc = "headers" /\ net' = net
  BY DEF ReadHeader
<1>2. net.served \in Nat /\ Len(net.headers) \in Nat
  BY WorldFacts DEF LookupInv
<1>3. CASE ~NextLineComes
  <2>1. ~lookup.direct => ~Understood
    BY <1>1, <1>2, <1>3 DEF LookupInv, Registered, Arrived, Understood, NextLineComes
  <2> QED
    BY <1>1, <1>3, <2>1, NothingFound DEF ReadHeader, Asking
<1>4. CASE NextLineComes
  <2>1. lookup' = [lookup EXCEPT !.read = @ + 1,
                                 !.pc = IF lookup.read > Len(net.headers) THEN "body" ELSE "headers"]
    BY <1>4 DEF ReadHeader
  <2>2. /\ lookup'.pc = IF lookup.read > Len(net.headers) THEN "body" ELSE "headers"
        /\ lookup'.open = lookup.open /\ lookup'.read = lookup.read + 1
        /\ lookup'.direct = lookup.direct /\ lookup'.diagnostics = lookup.diagnostics
        /\ lookup'.at = lookup.at /\ lookup'.contacted = lookup.contacted
        /\ lookup'.candidates = lookup.candidates /\ LookupShape'
    BY <2>1 DEF LookupInv, LookupShape
  <2>3. Connection'
    BY <1>1, <2>2 DEF LookupInv, Connection
  <2>4. ASSUME ~lookup.direct PROVE Registered'
    <3>1. /\ net.registry /\ net.status = "200" /\ lookup.read \in 1 .. Len(net.headers) + 1
          /\ cand = <<>> /\ Untried
      BY <1>1, <2>4 DEF LookupInv, Registered, Arrived, Asking
    <3>2. Arrived'
      BY <1>1, <1>2, <2>2, <3>1 DEF Arrived, Trying, Underway
    <3> QED
      BY <2>2, <3>1, <3>2 DEF Registered, Untried, Asking, Trying, Underway, cand
  <2> QED
    BY <1>1, <2>2, <2>3, <2>4 DEF LookupInv, LookupPcs
<1> QED
  BY <1>3, <1>4

\* The body arrives whole, or it is no answer.
LEMMA ReadBodyKeeps ==
  ASSUME LookupInv, ReadBody
  PROVE  LookupInv'
<1> DEFINE length == HeaderValue("content-length", "exact")
           chunked == HeaderValue("transfer-encoding", "identity") = "chunked"
           useless == chunked \/ length # "exact" \/ ~NextLineComes \/ net.body = NoArray
<1>1. lookup.pc = "body" /\ net' = net
  BY DEF ReadBody
<1>2. net.served \in Nat /\ Len(net.headers) \in Nat
  BY WorldFacts DEF LookupInv
<1>3. CASE ~chunked /\ length = "huge"
  <2>1. lookup' = [lookup EXCEPT !.pc = "threw"]
    BY <1>3 DEF ReadBody
  <2>2. /\ lookup'.pc = "threw" /\ lookup'.open = lookup.open /\ lookup'.direct = lookup.direct
        /\ LookupShape'
    BY <2>1 DEF LookupInv, LookupShape
  <2>3. Connection'
    BY <1>1, <2>2 DEF LookupInv, Connection
  <2>4. Registered'
    BY <2>2 DEF Registered, Arrived, Asking, Trying, Underway
  <2> QED
    BY <1>1, <2>2, <2>3, <2>4 DEF LookupInv, LookupPcs
<1>4. CASE ~(~chunked /\ length = "huge") /\ useless
  <2>1. Discovered(<<>>)
    BY <1>4 DEF ReadBody
  <2>2. ~lookup.direct => ~Understood
    BY <1>1, <1>2, <1>4 DEF LookupInv, Registered, Arrived, Understood, NextLineComes
  <2> QED
    BY <1>1, <2>1, <2>2, NothingFound DEF Asking
<1>5. CASE ~useless
  <2>1. lookup' = [lookup EXCEPT !.pc = "entries", !.read = 0]
    BY <1>5 DEF ReadBody
  <2>2. /\ lookup'.pc = "entries" /\ lookup'.open = lookup.open /\ lookup'.read = 0
        /\ lookup'.direct = lookup.direct /\ lookup'.diagnostics = lookup.diagnostics
        /\ lookup'.at = lookup.at /\ lookup'.contacted = lookup.contacted
        /\ lookup'.candidates = lookup.candidates /\ LookupShape'
    BY <2>1 DEF LookupInv, LookupShape
  <2>3. Connection'
    BY <1>1, <2>2 DEF LookupInv, Connection
  <2>4. ASSUME ~lookup.direct PROVE Registered'
    <3>1. /\ net.registry /\ net.status = "200" /\ lookup.read = Len(net.headers) + 2
          /\ cand = <<>> /\ Untried
      BY <1>1, <2>4 DEF LookupInv, Registered, Arrived, Asking
    <3>2. Understood
      BY <1>2, <1>5, <3>1 DEF Understood, NextLineComes
    <3>3. Len(net.body) \in Nat
      BY <1>5, WorldFacts DEF LookupInv
    <3>4. Arrived'
      BY <1>1, <2>2, <3>2, <3>3, AnswerSteady DEF Arrived, Trying, Underway
    <3>5. Found(<<>>, 0)
      BY DEF Found
    <3>6. Found(cand, lookup.read)'
      BY <1>1, <2>2, <3>1, <3>5, AnswerSteady DEF cand
    <3> QED
      BY <2>2, <3>1, <3>4, <3>6 DEF Registered, Untried, Asking, Trying, Underway
  <2> QED
    BY <1>1, <2>2, <2>3, <2>4 DEF LookupInv, LookupPcs
<1> QED
  BY <1>3, <1>4, <1>5

\* One more entry is looked at.
LEMMA FoundMore ==
  ASSUME net \in Worlds, net.body # NoArray, NEW c, NEW n \in Nat, n < Len(net.body), Found(c, n)
  PROVE  Found(IF EntryKept(net.body[n + 1]) THEN Append(c, Info(n + 1)) ELSE c, n + 1)
<1>1. n + 1 \in 1 .. Len(net.body) /\ c \in Seq(Candidate) /\ Len(c) \in Nat
  BY WorldFacts DEF Found
<1>2. CASE ~EntryKept(net.body[n + 1])
  <2>1. \A k \in 1 .. n + 1 : k \in 1 .. n \/ k = n + 1
    OBVIOUS
  <2> QED
    BY <1>1, <1>2, <2>1 DEF Found
<1>3. CASE EntryKept(net.body[n + 1])
  <2> DEFINE d == Append(c, Info(n + 1))
  <2>1. Info(n + 1) \in Candidate /\ Info(n + 1).id = n + 1
    BY <1>1, <1>3, KeptCandidate DEF Info
  <2>2. /\ d \in Seq(Candidate) /\ Len(d) = Len(c) + 1 /\ d[Len(c) + 1] = Info(n + 1)
        /\ \A i \in 1 .. Len(c) : d[i] = c[i]
    BY <1>1, <2>1, AppendProperties
  <2> HIDE DEF d
  <2>3. \A i \in 1 .. Len(d) : i \in 1 .. Len(c) \/ i = Len(c) + 1
    BY <1>1, <2>2
  <2>4. \A i \in 1 .. Len(d) :
          d[i].id \in 1 .. n + 1 /\ d[i] = Info(d[i].id) /\ EntryKept(net.body[d[i].id])
    BY <1>3, <2>1, <2>2, <2>3 DEF Found
  <2>5. \A i, j \in 1 .. Len(d) : i < j => d[i].id < d[j].id
    <3> SUFFICES ASSUME NEW i \in 1 .. Len(d), NEW j \in 1 .. Len(d), i < j
                 PROVE  d[i].id < d[j].id
      OBVIOUS
    <3>1. i \in 1 .. Len(c) /\ c[i].id \in 1 .. n
      BY <1>1, <2>2 DEF Found
    <3>2. CASE j = Len(c) + 1
      BY <2>1, <2>2, <3>1, <3>2
    <3>3. CASE j \in 1 .. Len(c)
      BY <2>2, <3>1, <3>3 DEF Found
    <3> QED
      BY <2>3, <3>2, <3>3
  <2>6. \A k \in 1 .. n + 1 : EntryKept(net.body[k]) => \E i \in 1 .. Len(d) : d[i].id = k
    <3> SUFFICES ASSUME NEW k \in 1 .. n + 1, EntryKept(net.body[k])
                 PROVE  \E i \in 1 .. Len(d) : d[i].id = k
      OBVIOUS
    <3>1. CASE k = n + 1
      BY <1>1, <2>1, <2>2, <3>1
    <3>2. CASE k \in 1 .. n
      <4>1. PICK i \in 1 .. Len(c) : c[i].id = k
        BY <3>2 DEF Found
      <4> QED
        BY <1>1, <2>2, <4>1
    <3> QED
      BY <3>1, <3>2
  <2>7. Found(d, n + 1)
    BY <2>2, <2>4, <2>5, <2>6 DEF Found
  <2> QED
    BY <1>3, <2>7 DEF d
<1> QED
  BY <1>2, <1>3

\* An entry is parsed.
LEMMA ParseEntryKeeps ==
  ASSUME LookupInv, ParseEntry
  PROVE  LookupInv'
<1> DEFINE k == lookup.read + 1
           more == IF EntryKept(net.body[k]) THEN Append(cand, Info(k)) ELSE cand
<1>1. /\ lookup.pc = "entries" /\ lookup.read < Len(net.body) /\ net' = net
      /\ lookup' = [lookup EXCEPT !.read = k, !.candidates = more]
  BY DEF ParseEntry, cand
<1> HIDE DEF more
<1>2. /\ lookup'.pc = "entries" /\ lookup'.open = lookup.open /\ lookup'.read = k
      /\ lookup'.direct = lookup.direct /\ lookup'.diagnostics = lookup.diagnostics
      /\ lookup'.at = lookup.at /\ lookup'.contacted = lookup.contacted
      /\ lookup'.candidates = more /\ LookupShape'
  BY <1>1 DEF LookupInv, LookupShape
<1>3. Connection'
  BY <1>1, <1>2 DEF LookupInv, Connection
<1>4. ASSUME ~lookup.direct PROVE Registered'
  <2>1. /\ Understood /\ lookup.read \in 0 .. Len(net.body) /\ Found(cand, lookup.read) /\ Untried
    BY <1>1, <1>4 DEF LookupInv, Registered, Arrived
  <2>2. net.body # NoArray /\ Len(net.body) \in Nat
    BY <2>1, WorldFacts DEF LookupInv, Understood
  <2>3. Found(more, k)
    BY <1>1, <2>1, <2>2, FoundMore DEF LookupInv, more
  <2>4. Found(cand, lookup.read)'
    BY <1>1, <1>2, <2>3, AnswerSteady DEF cand
  <2>5. Arrived'
    BY <1>1, <1>2, <2>1, <2>2, AnswerSteady DEF Arrived, Trying, Underway
  <2> QED
    BY <1>2, <2>1, <2>4, <2>5 DEF Registered, Untried, Asking, Trying, Underway
<1> QED
  BY <1>1, <1>2, <1>3, <1>4 DEF LookupInv, LookupPcs

\* Without a candidate nothing can be connected to.
LEMMA OnlyCandidates ==
  ASSUME net \in Worlds, net.body # NoArray, Found(cand, Len(net.body)),
         NEW k \in 1 .. Len(net.body), Workable(net.body[k])
  PROVE  \E i \in 1 .. Len(cand) : cand[i].id = k
<1>1. net.body[k] \in EntryType
  BY WorldFacts
<1>2. EntryKept(net.body[k])
  BY <1>1, WorkableKept
<1> QED
  BY <1>2 DEF Found

\* The whole answer is parsed.
LEMMA EntriesParsedKeeps ==
  ASSUME LookupInv, EntriesParsed
  PROVE  LookupInv'
<1>1. /\ lookup.pc = "entries" /\ lookup.read = Len(net.body) /\ net' = net
      /\ lookup' = [lookup EXCEPT !.candidates = lookup.candidates, !.at = 0, !.read = 0,
                                  !.pc = IF lookup.candidates = <<>> THEN "failed" ELSE "next"]
  BY DEF EntriesParsed, Discovered
<1>2. /\ lookup'.pc = (IF lookup.candidates = <<>> THEN "failed" ELSE "next")
      /\ lookup'.open = lookup.open /\ lookup'.direct = lookup.direct /\ lookup'.at = 0
      /\ lookup'.diagnostics = lookup.diagnostics /\ lookup'.contacted = lookup.contacted
      /\ lookup'.sound = lookup.sound /\ lookup'.override = lookup.override
      /\ lookup'.candidates = lookup.candidates /\ LookupShape'
  BY <1>1 DEF LookupInv, LookupShape
<1>3. Connection'
  BY <1>1, <1>2 DEF LookupInv, Connection
<1>4. ASSUME ~lookup.direct PROVE Registered'
  <2>1. Understood /\ Found(cand, Len(net.body)) /\ Untried /\ net.body # NoArray
    BY <1>1, <1>4 DEF LookupInv, Registered, Arrived, Understood
  <2>2. Found(cand, Len(net.body))'
    BY <1>1, <1>2, <2>1, AnswerSteady DEF cand
  <2>3. Arrived'
    BY <1>1, <1>2, <2>1, AnswerSteady DEF Arrived
  <2>4. CASE lookup.candidates = <<>>
    <3>1. \A k \in 1 .. Len(net.body) : ~Workable(net.body[k])
      BY <2>1, <2>4, OnlyCandidates DEF LookupInv, cand
    <3>2. \A k \in 1 .. Len(net'.body) : ~Workable(net.body[k])'
      BY <1>1, <1>2, <3>1, WorkableSteady
    <3> QED
      BY <1>2, <2>1, <2>3, <2>4, <3>2 DEF Registered, Untried, Asking, Trying, Underway
  <2>5. CASE lookup.candidates # <<>>
    <3>1. cand \in Seq(Candidate) /\ Len(cand) \in Nat
      BY <2>1 DEF Found
    <3>2. /\ lookup'.pc = "next" /\ lookup'.at = 0 /\ lookup'.contacted = {}
          /\ lookup'.diagnostics = <<>> /\ Len(cand') \in Nat
      BY <1>2, <2>1, <2>5, <3>1 DEF Untried, cand
    <3>3. lookup'.diagnostics \in Seq(Hosts) /\ Len(lookup'.diagnostics) = 0
      BY <3>2
    <3>4. Tried'
      BY <3>2, <3>3 DEF Tried, Underway
    <3> QED
      BY <2>2, <2>3, <3>2, <3>4 DEF Registered, Attempt, Asking, Trying, Underway
  <2> QED
    BY <2>4, <2>5
<1> QED
  BY <1>1, <1>2, <1>3, <1>4 DEF LookupInv, LookupPcs

\* The candidate in hand and the entry it comes from.
LEMMA InHand ==
  ASSUME LookupInv, ~lookup.direct, lookup.pc \in Underway
  PROVE  /\ Understood /\ Found(cand, Len(net.body)) /\ Tried /\ Attempt
         /\ lookup.at \in 1 .. Len(cand) /\ Len(cand) \in Nat /\ Current = cand[lookup.at]
         /\ Current.id \in 1 .. Len(net.body) /\ Current = Info(Current.id)
         /\ EntryKept(net.body[Current.id]) /\ net.body[Current.id] \in EntryType
         /\ Current.host \in Hosts /\ Current.host = net.body[Current.id].host /\ Current.port # 0
<1>1. Understood /\ Found(cand, Len(net.body)) /\ Tried /\ Attempt
  BY DEF LookupInv, Registered, Arrived, Trying
<1>2. lookup.at \in 1 .. Len(cand) /\ Len(cand) \in Nat /\ Current = cand[lookup.at]
  BY <1>1 DEF Tried, Found, Current, cand
<1>3. /\ Current.id \in 1 .. Len(net.body) /\ Current = Info(Current.id)
      /\ EntryKept(net.body[Current.id]) /\ Current \in Candidate
  BY <1>1, <1>2, ElementOfSeq DEF Found
<1>4. net.body[Current.id] \in EntryType
  BY <1>1, <1>3, WorldFacts DEF LookupInv, Understood
<1>5. Current.host \in Hosts
  BY <1>3 DEF Candidate
<1> DEFINE k == Current.id
<1>6. Info(k).host = net.body[k].host /\ Info(k).port = net.body[k].port
  BY DEF Info
<1>7. Current.host = net.body[k].host /\ Current.port = net.body[k].port
  BY <1>3, <1>6
<1>8. net.body[k].port # 0
  <2>1. 1 <= net.body[k].port /\ net.body[k].port # NoPort
    BY <1>3 DEF EntryKept
  <2>2. net.body[k].port \in Ports \cup {NoPort}
    BY <1>4, EntryFacts
  <2>3. Ports \subseteq Nat
    BY LookupAssumption
  <2> QED
    BY <2>1, <2>2, <2>3
<1> QED
  BY <1>1, <1>2, <1>3, <1>4, <1>5, <1>7, <1>8

\* The pin of the attempt in hand is right for its entry, whoever gave it.
LEMMA PinRight ==
  ASSUME LookupInv, ~lookup.direct, lookup.pc \in Underway
  PROVE  LET e == net.body[Current.id]
         IN Workable(e) <=>
              /\ lookup.sound /\ lookup.pin \notin {BadPin, EmptyPin}
              /\ Current.host \in net.up /\ Current.host \in net.trusted
              /\ lookup.pin = NoPin \/ net.cert[Current.host] = lookup.pin
<1> DEFINE e == net.body[Current.id]
           own == net.cert[e.host]
<1>1. /\ EntryKept(e) /\ e \in EntryType /\ Current.host = e.host /\ e.host \in Hosts
      /\ Current = Info(Current.id) /\ Attempt
  BY InHand
<1>2. Current.pin = e.pin /\ e.pin \in Pins \cup {NoPin}
  <2>1. Info(Current.id).pin = e.pin
    BY DEF Info
  <2> QED
    BY <1>1, <2>1 DEF EntryKept
<1>3. lookup.pin = LET pin == IF lookup.override # NoPin THEN lookup.override ELSE e.pin
                   IN IF pin = EmptyPin THEN NoPin ELSE pin
  BY <1>1, <1>2 DEF Attempt, PinInEffect
<1>4. own \in Pins
  BY <1>1, WorldFacts DEF LookupInv
<1>5. e.service /\ e.port # NoPort /\ 1 <= e.port /\ e.port <= 65535 /\ e.pin \notin {EmptyPin, BadPin}
  BY <1>1, <1>2, LookupAssumption DEF EntryKept
<1> HIDE DEF e, own
<1>6. CASE lookup.override = NoPin
  <2>1. lookup.pin = e.pin
    BY <1>3, <1>5, <1>6
  <2>2. Workable(e) <=> e.host \in net.up \cap net.trusted /\ lookup.sound /\ e.pin \in {NoPin, own}
    <3>1. NoPin # EmptyPin
      BY LookupAssumption
    <3> QED
      BY <1>5, <1>6, <3>1 DEF Workable, own
  <2> QED
    BY <1>1, <1>5, <2>1, <2>2 DEF e, own
<1>7. CASE lookup.override = EmptyPin
  <2>1. lookup.pin = NoPin /\ NoPin \notin {BadPin, EmptyPin}
    BY <1>3, <1>7, LookupAssumption
  <2>2. Workable(e) <=> e.host \in net.up \cap net.trusted /\ lookup.sound
    BY <1>5, <1>7, LookupAssumption DEF Workable
  <2> QED
    BY <1>1, <2>1, <2>2 DEF e
<1>8. CASE lookup.override \notin {NoPin, EmptyPin}
  <2>1. lookup.pin = lookup.override
    BY <1>3, <1>8
  <2>2. Workable(e) <=> /\ e.host \in net.up \cap net.trusted /\ lookup.sound
                        /\ lookup.override = own
    BY <1>5, <1>8 DEF Workable, own
  <2>3. own \notin {BadPin, EmptyPin}
    BY <1>4, LookupAssumption
  <2> QED
    BY <1>1, <1>8, <2>1, <2>2, <2>3 DEF e, own
<1> QED
  BY <1>6, <1>7, <1>8

\* An attempt that fails is noted, and leaves nothing open.
LEMMA FailKeeps ==
  ASSUME LookupInv, lookup.pc \in Underway, net' = net, LookupShape',
         lookup'.pc = "next", lookup'.open = {}, lookup'.direct = lookup.direct,
         lookup'.diagnostics = Append(lookup.diagnostics, Current.host),
         lookup'.contacted \subseteq lookup.contacted \cup {Current.host},
         lookup'.candidates = lookup.candidates, lookup'.at = lookup.at,
         lookup'.sound = lookup.sound, lookup'.override = lookup.override,
         ~lookup.direct => ~Workable(net.body[Current.id])
  PROVE  LookupInv'
<1>1. Connection'
  BY DEF Connection
<1>2. ASSUME ~lookup.direct PROVE Registered'
  <2>1. /\ Understood /\ Found(cand, Len(net.body)) /\ Tried /\ lookup.at \in 1 .. Len(cand)
        /\ Len(cand) \in Nat /\ Current = cand[lookup.at] /\ Current.host \in Hosts
        /\ ~Workable(net.body[Current.id])
    BY <1>2, InHand
  <2>2. cand' = cand
    BY DEF cand
  <2>3. Found(cand, Len(net.body))' /\ Understood'
    BY <2>1, <2>2, AnswerSteady
  <2>4. Arrived'
    BY <2>3 DEF Arrived
  <2>5. \A i \in 1 .. Len(cand) : i <= lookup.at => ~Workable(net.body[cand[i].id])
    BY <2>1 DEF Tried
  <2>6. \A i \in 1 .. Len(cand') : i <= lookup'.at => ~Workable(net.body[cand[i].id])'
    BY <2>2, <2>5, WorkableSteady
  <2>7. \A h \in lookup'.contacted : \E i \in 1 .. lookup'.at : h = cand'[i].host
    BY <2>1, <2>2 DEF Tried
  <2>8. /\ lookup'.diagnostics \in Seq(Hosts)
        /\ Len(lookup'.diagnostics) = lookup'.at
    <3>1. lookup.diagnostics \in Seq(Hosts) /\ Len(lookup.diagnostics) = lookup.at - 1
      BY <2>1 DEF Tried, Underway
    <3> QED
      BY <2>1, <3>1, AppendProperties
  <2>9. Tried'
    BY <2>1, <2>2, <2>6, <2>7, <2>8 DEF Tried, Underway
  <2> QED
    BY <2>3, <2>4, <2>9 DEF Registered, Attempt, Asking, Trying, Underway
<1> QED
  BY <1>1, <1>2 DEF LookupInv, LookupPcs

\* An attempt that goes on, or succeeds.
LEMMA PassKeeps ==
  ASSUME LookupInv, lookup.pc \in Underway, net' = net, LookupShape', lookup'.pc \in Underway,
         lookup'.direct = lookup.direct, lookup'.diagnostics = lookup.diagnostics,
         lookup'.contacted \subseteq lookup.contacted \cup {Current.host},
         lookup'.candidates = lookup.candidates, lookup'.at = lookup.at,
         lookup'.sound = lookup.sound, lookup'.override = lookup.override,
         Connection', ~lookup.direct => Attempt'
  PROVE  LookupInv'
<1>1. ASSUME ~lookup.direct PROVE Registered'
  <2>1. /\ Understood /\ Found(cand, Len(net.body)) /\ Tried /\ lookup.at \in 1 .. Len(cand)
        /\ Len(cand) \in Nat /\ Current = cand[lookup.at]
    BY <1>1, InHand
  <2>2. cand' = cand
    BY DEF cand
  <2>3. Found(cand, Len(net.body))' /\ Understood'
    BY <2>1, <2>2, AnswerSteady
  <2>4. Arrived'
    BY <2>3 DEF Arrived, Underway
  <2>5. \A i \in 1 .. Len(cand) : i < lookup.at => ~Workable(net.body[cand[i].id])
    BY <2>1 DEF Tried
  <2>6. \A i \in 1 .. Len(cand') : i < lookup'.at => ~Workable(net.body[cand[i].id])'
    BY <2>2, <2>5, WorkableSteady
  <2>7. \A h \in lookup'.contacted : \E i \in 1 .. lookup'.at : h = cand'[i].host
    BY <2>1, <2>2 DEF Tried
  <2>8. lookup'.diagnostics \in Seq(Hosts) /\ Len(lookup'.diagnostics) = lookup'.at - 1
    BY <2>1 DEF Tried, Underway
  <2>9. lookup'.pc # "next"
    BY DEF Underway
  <2>10. Tried'
    BY <2>1, <2>2, <2>6, <2>7, <2>8, <2>9 DEF Tried
  <2> QED
    BY <1>1, <2>3, <2>4, <2>10 DEF Registered, Asking, Trying, Underway
<1> QED
  BY <1>1 DEF LookupInv, LookupPcs, Underway

\* The next candidate is taken.
LEMMA TryNextKeeps ==
  ASSUME LookupInv, TryNext
  PROVE  LookupInv'
<1>1. /\ lookup.pc = "next" /\ lookup.at < Len(lookup.candidates) /\ net' = net
      /\ lookup' = [lookup EXCEPT !.pc = "options", !.at = @ + 1,
                                  !.pin = PinInEffect(lookup.candidates[lookup.at + 1])]
  BY DEF TryNext
<1>2. /\ lookup'.pc = "options" /\ lookup'.open = lookup.open /\ lookup'.direct = lookup.direct
      /\ lookup'.diagnostics = lookup.diagnostics /\ lookup'.contacted = lookup.contacted
      /\ lookup'.candidates = lookup.candidates /\ lookup'.at = lookup.at + 1
      /\ lookup'.sound = lookup.sound /\ lookup'.override = lookup.override
      /\ lookup'.pin = PinInEffect(lookup.candidates[lookup.at + 1]) /\ LookupShape'
  BY <1>1 DEF LookupInv, LookupShape
<1>3. Connection'
  BY <1>1, <1>2 DEF LookupInv, Connection
<1>4. ASSUME ~lookup.direct PROVE Registered'
  <2>1. Understood /\ Found(cand, Len(net.body)) /\ Tried
    BY <1>1, <1>4 DEF LookupInv, Registered, Arrived, Trying
  <2>2. cand' = cand /\ Len(cand) \in Nat /\ lookup.at \in 0 .. Len(cand) /\ lookup.at < Len(cand)
    BY <1>1, <1>2, <2>1 DEF cand, Found, Tried
  <2>3. Found(cand, Len(net.body))' /\ Understood'
    BY <1>1, <2>1, <2>2, AnswerSteady
  <2>4. Arrived'
    BY <1>2, <2>3 DEF Arrived
  <2>5. \A i \in 1 .. Len(cand) : i < lookup.at + 1 => ~Workable(net.body[cand[i].id])
    BY <1>1, <2>1, <2>2 DEF Tried
  <2>6. \A i \in 1 .. Len(cand') : i < lookup'.at => ~Workable(net.body[cand[i].id])'
    BY <1>1, <1>2, <2>2, <2>5, WorkableSteady
  <2>7. \A h \in lookup'.contacted : \E i \in 1 .. lookup'.at : h = cand'[i].host
    BY <1>2, <2>1, <2>2 DEF Tried
  <2>8. lookup'.diagnostics \in Seq(Hosts) /\ Len(lookup'.diagnostics) = lookup'.at - 1
    BY <1>1, <1>2, <2>1, <2>2 DEF Tried
  <2>9. Tried'
    BY <1>2, <2>2, <2>6, <2>7, <2>8 DEF Tried
  <2>10. Attempt'
    <3>1. Current' = lookup.candidates[lookup.at + 1]
      BY <1>2 DEF Current
    <3>2. \A c : PinInEffect(c)' = PinInEffect(c)
      BY <1>2 DEF PinInEffect
    <3> QED
      BY <1>2, <3>1, <3>2 DEF Attempt, Underway
  <2> QED
    BY <1>2, <2>3, <2>4, <2>9, <2>10 DEF Registered, Asking, Trying, Underway
<1> QED
  BY <1>1, <1>2, <1>3, <1>4 DEF LookupInv, LookupPcs

\* No candidate is left.
LEMMA AllFailedKeeps ==
  ASSUME LookupInv, AllFailed
  PROVE  LookupInv'
<1>1. /\ lookup.pc = "next" /\ lookup.at = Len(lookup.candidates) /\ net' = net
      /\ lookup' = [lookup EXCEPT !.pc = "failed"]
  BY DEF AllFailed
<1>2. /\ lookup'.pc = "failed" /\ lookup'.open = lookup.open /\ lookup'.direct = lookup.direct
      /\ lookup'.diagnostics = lookup.diagnostics /\ lookup'.at = lookup.at
      /\ lookup'.sound = lookup.sound /\ lookup'.override = lookup.override /\ LookupShape'
  BY <1>1 DEF LookupInv, LookupShape
<1>3. Connection'
  BY <1>1, <1>2 DEF LookupInv, Connection
<1>4. ASSUME ~lookup.direct PROVE Registered'
  <2>1. Understood /\ Found(cand, Len(net.body)) /\ Tried /\ net.body # NoArray
    BY <1>1, <1>4 DEF LookupInv, Registered, Arrived, Trying, Understood
  <2>2. \A i \in 1 .. Len(cand) : ~Workable(net.body[cand[i].id])
    BY <1>1, <2>1 DEF Tried, Found, cand
  <2>3. \A k \in 1 .. Len(net.body) : ~Workable(net.body[k])
    BY <2>1, <2>2, OnlyCandidates DEF LookupInv
  <2>4. \A k \in 1 .. Len(net'.body) : ~Workable(net.body[k])'
    BY <1>1, <1>2, <2>3, WorkableSteady
  <2>5. Len(lookup'.diagnostics) = lookup'.at
    BY <1>1, <1>2, <2>1 DEF Tried
  <2> QED
    BY <1>2, <2>4, <2>5 DEF Registered, Arrived, Asking, Trying, Underway
<1> QED
  BY <1>1, <1>2, <1>3, <1>4 DEF LookupInv, LookupPcs

\* What stays when an attempt fails, whatever else it did.
LEMMA FailsFields ==
  ASSUME LookupInv, lookup' = Fails
  PROVE  /\ LookupShape' /\ lookup'.pc = "next" /\ lookup'.open = {}
         /\ lookup'.direct = lookup.direct
         /\ lookup'.diagnostics = Append(lookup.diagnostics, Current.host)
         /\ lookup'.contacted = lookup.contacted
         /\ lookup'.candidates = lookup.candidates /\ lookup'.at = lookup.at
         /\ lookup'.sound = lookup.sound /\ lookup'.override = lookup.override
BY DEF LookupInv, LookupShape, Fails

\* What stays when an attempt goes on.
LEMMA GoesFields ==
  ASSUME LookupInv, NEW pc, lookup' = [lookup EXCEPT !.pc = pc]
  PROVE  /\ LookupShape' /\ lookup'.pc = pc /\ lookup'.open = lookup.open
         /\ lookup'.direct = lookup.direct /\ lookup'.diagnostics = lookup.diagnostics
         /\ lookup'.contacted = lookup.contacted
         /\ lookup'.candidates = lookup.candidates /\ lookup'.at = lookup.at
         /\ lookup'.sound = lookup.sound /\ lookup'.override = lookup.override
         /\ lookup'.pin = lookup.pin /\ Current' = Current
BY DEF LookupInv, LookupShape, Current

\* The credentials, and the pin as such.
LEMMA CheckTlsOptionsKeeps ==
  ASSUME LookupInv, CheckTlsOptions
  PROVE  LookupInv'
<1>1. lookup.pc = "options" /\ net' = net /\ lookup.pc \in Underway
  BY DEF CheckTlsOptions, Underway
<1>2. CASE ~(lookup.sound /\ lookup.pin \notin {BadPin, EmptyPin})
  <2>1. lookup' = Fails
    BY <1>2 DEF CheckTlsOptions
  <2>2. ~lookup.direct => ~Workable(net.body[Current.id])
    BY <1>1, <1>2, PinRight
  <2> QED
    BY <1>1, <2>1, <2>2, FailsFields, FailKeeps
<1>3. CASE lookup.sound /\ lookup.pin \notin {BadPin, EmptyPin}
  <2>1. lookup' = [lookup EXCEPT !.pc = "dial"]
    BY <1>3 DEF CheckTlsOptions
  <2>2. Connection'
    BY <1>1, <2>1, GoesFields DEF LookupInv, Connection
  <2>3. ASSUME ~lookup.direct PROVE Attempt'
    <3>1. Attempt
      BY <1>1, <2>3, InHand
    <3>2. \A c : PinInEffect(c)' = PinInEffect(c)
      BY <2>1, GoesFields DEF PinInEffect
    <3> QED
      BY <1>1, <1>3, <2>1, <3>1, <3>2, GoesFields DEF Attempt, Underway
  <2>4. "dial" \in Underway
    BY DEF Underway
  <2> QED
    BY <1>1, <2>1, <2>2, <2>3, <2>4, GoesFields, PassKeeps
<1> QED
  BY <1>2, <1>3

\* The mirror is dialled.
LEMMA DialMirrorKeeps ==
  ASSUME LookupInv, DialMirror
  PROVE  LookupInv'
<1>1. lookup.pc = "dial" /\ net' = net /\ lookup.pc \in Underway
  BY DEF DialMirror, Underway
<1>2. CASE ~(Current.host \in net.up /\ Current.port # 0)
  <2>1. lookup' = [Fails EXCEPT !.contacted = @ \cup {Current.host}]
    BY <1>2 DEF DialMirror
  <2>2. /\ LookupShape' /\ lookup'.pc = "next" /\ lookup'.open = {}
        /\ lookup'.direct = lookup.direct
        /\ lookup'.diagnostics = Append(lookup.diagnostics, Current.host)
        /\ lookup'.contacted = lookup.contacted \cup {Current.host}
        /\ lookup'.candidates = lookup.candidates /\ lookup'.at = lookup.at
        /\ lookup'.sound = lookup.sound /\ lookup'.override = lookup.override
    BY <2>1 DEF LookupInv, LookupShape, Fails
  <2>3. ~lookup.direct => ~Workable(net.body[Current.id])
    BY <1>1, <1>2, PinRight, InHand
  <2> QED
    BY <1>1, <2>2, <2>3, FailKeeps
<1>3. CASE Current.host \in net.up /\ Current.port # 0
  <2>1. lookup' = [lookup EXCEPT !.pc = "handshake", !.open = {Current.host},
                                 !.contacted = @ \cup {Current.host}]
    BY <1>3 DEF DialMirror, LookupInv, LookupShape
  <2>2. /\ LookupShape' /\ lookup'.pc = "handshake" /\ lookup'.open = {Current.host}
        /\ lookup'.direct = lookup.direct /\ lookup'.diagnostics = lookup.diagnostics
        /\ lookup'.contacted = lookup.contacted \cup {Current.host}
        /\ lookup'.candidates = lookup.candidates /\ lookup'.at = lookup.at
        /\ lookup'.sound = lookup.sound /\ lookup'.override = lookup.override
        /\ lookup'.pin = lookup.pin /\ Current' = Current
    BY <2>1 DEF LookupInv, LookupShape, Current
  <2>3. Connection'
    BY <2>2 DEF Connection
  <2>4. ASSUME ~lookup.direct PROVE Attempt'
    <3>1. Attempt
      BY <1>1, <2>4, InHand
    <3>2. \A c : PinInEffect(c)' = PinInEffect(c)
      BY <2>2 DEF PinInEffect
    <3> QED
      BY <1>1, <1>3, <2>2, <3>1, <3>2 DEF Attempt, Underway
  <2>5. lookup'.pc \in Underway
    BY <2>2 DEF Underway
  <2> QED
    BY <1>1, <2>2, <2>3, <2>4, <2>5, PassKeeps
<1> QED
  BY <1>2, <1>3

\* The handshake verifies the certificate.
LEMMA TlsHandshakeKeeps ==
  ASSUME LookupInv, TlsHandshake
  PROVE  LookupInv'
<1>1. lookup.pc = "handshake" /\ net' = net /\ lookup.pc \in Underway
  BY DEF TlsHandshake, Underway
<1>2. CASE Current.host \notin net.trusted
  <2>1. lookup' = Fails
    BY <1>2 DEF TlsHandshake
  <2>2. ~lookup.direct => ~Workable(net.body[Current.id])
    BY <1>1, <1>2, PinRight
  <2> QED
    BY <1>1, <2>1, <2>2, FailsFields, FailKeeps
<1>3. CASE Current.host \in net.trusted
  <2>1. lookup' = [lookup EXCEPT !.pc = "pin"]
    BY <1>3 DEF TlsHandshake
  <2>2. Connection'
    BY <1>1, <1>3, <2>1, GoesFields DEF LookupInv, Connection
  <2>3. ASSUME ~lookup.direct PROVE Attempt'
    <3>1. Attempt
      BY <1>1, <2>3, InHand
    <3>2. \A c : PinInEffect(c)' = PinInEffect(c)
      BY <2>1, GoesFields DEF PinInEffect
    <3> QED
      BY <1>1, <2>1, <3>1, <3>2, GoesFields DEF Attempt, Underway
  <2>4. "pin" \in Underway
    BY DEF Underway
  <2> QED
    BY <1>1, <2>1, <2>2, <2>3, <2>4, GoesFields, PassKeeps
<1> QED
  BY <1>2, <1>3

\* The pin is compared.
LEMMA CheckPinKeeps ==
  ASSUME LookupInv, CheckPin
  PROVE  LookupInv'
<1>1. lookup.pc = "pin" /\ net' = net /\ lookup.pc \in Underway
  BY DEF CheckPin, Underway
<1>2. CASE lookup.pin # NoPin /\ net.cert[Current.host] # lookup.pin
  <2>1. lookup' = Fails
    BY <1>2 DEF CheckPin
  <2>2. ~lookup.direct => ~Workable(net.body[Current.id])
    BY <1>1, <1>2, PinRight
  <2> QED
    BY <1>1, <2>1, <2>2, FailsFields, FailKeeps
<1>3. CASE ~(lookup.pin # NoPin /\ net.cert[Current.host] # lookup.pin)
  <2>1. lookup' = [lookup EXCEPT !.pc = "connected"]
    BY <1>3 DEF CheckPin
  <2>2. Connection'
    BY <1>1, <2>1, GoesFields DEF LookupInv, Connection
  <2>3. ASSUME ~lookup.direct PROVE Attempt'
    <3>1. Attempt
      BY <1>1, <2>3, InHand
    <3>2. \A c : PinInEffect(c)' = PinInEffect(c)
      BY <2>1, GoesFields DEF PinInEffect
    <3> QED
      BY <1>1, <1>3, <2>1, <3>1, <3>2, GoesFields DEF Attempt, Underway
  <2>4. "connected" \in Underway
    BY DEF Underway
  <2> QED
    BY <1>1, <2>1, <2>2, <2>3, <2>4, GoesFields, PassKeeps
<1> QED
  BY <1>2, <1>3

\* A lookup's own steps.
LEMMA LookupKeeps ==
  ASSUME LookupInv, LookupStep
  PROVE  LookupInv'
BY DialRegistryKeeps, ReadStatusKeeps, ReadHeaderKeeps, ReadBodyKeeps, ParseEntryKeeps,
   EntriesParsedKeeps, TryNextKeeps, AllFailedKeeps, CheckTlsOptionsKeeps, DialMirrorKeeps,
   TlsHandshakeKeeps, CheckPinKeeps DEF LookupStep

\* A direct connection has one candidate, and no answer to be measured by.
LEMMA ConnectTlsKeeps ==
  ASSUME LookupInv, NEW host, NEW port, NEW sound, NEW pin, ConnectTls(host, port, sound, pin)
  PROVE  LookupInv'
<1> DEFINE only == <<[id |-> 0, host |-> host, port |-> port, pin |-> pin]>>
<1>1. /\ net' = net /\ lookup = NoLookup
      /\ lookup' = [lookup EXCEPT !.pc = "next", !.direct = TRUE, !.sound = sound,
                                  !.candidates = only]
  BY DEF ConnectTls, LookupInv
<1> HIDE DEF only
<1>2. lookup'.pc = "next" /\ lookup'.direct = TRUE /\ lookup'.open = {} /\ LookupShape'
  BY <1>1 DEF NoLookup, LookupShape
<1>3. Connection'
  BY <1>2 DEF Connection
<1> QED
  BY <1>1, <1>2, <1>3 DEF LookupInv, LookupPcs

\* A step that leaves the lookup alone.
LEMMA LookupStutters ==
  ASSUME LookupInv, UNCHANGED lookupVars
  PROVE  LookupInv'
<1>1. net' = net /\ lookup' = lookup
  BY DEF lookupVars
<1>2. Current' = Current /\ cand' = cand /\ \A c : PinInEffect(c)' = PinInEffect(c)
  BY <1>1 DEF Current, cand, PinInEffect
<1>3. LookupShape' /\ Connection'
  BY <1>1, <1>2 DEF LookupInv, LookupShape, Connection
<1>4. (Arrived' <=> Arrived) /\ (Untried' <=> Untried)
  BY <1>1, AnswerSteady DEF Arrived, Untried
<1>5. Attempt' <=> Attempt
  BY <1>1, <1>2 DEF Attempt
<1>6. Tried' <=> Tried
  BY <1>1, <1>2, WorkableSteady DEF Tried
<1>7. Registered' <=> Registered
  <2>1. \A n : Found(cand, n)' <=> Found(cand, n)
    BY <1>1, <1>2, AnswerSteady
  <2>2. Found(cand, lookup.read)' <=> Found(cand, lookup.read)
    BY <1>1, <1>2, AnswerSteady
  <2>3. Found(cand, Len(net.body))' <=> Found(cand, Len(net.body))
    BY <1>1, <1>2, AnswerSteady
  <2> QED
    BY <1>1, <1>2, <1>4, <1>5, <1>6, <2>2, <2>3, AnswerSteady, WorkableSteady DEF Registered
<1> QED
  BY <1>1, <1>3, <1>7 DEF LookupInv

\* The first entry that can be connected to is the one connected to.
LEMMA LookupExact ==
  ASSUME LookupInv
  PROVE  RegistryExact
<1> SUFFICES ASSUME ~lookup.direct PROVE RegistryExact
  BY DEF RegistryExact
<1>1. CASE lookup.pc = "connected"
  <2>1. /\ lookup.pc \in Underway /\ lookup.open = {Current.host} /\ Current.host \in net.trusted
    BY <1>1 DEF LookupInv, Connection, Underway
  <2>2. /\ Understood /\ Found(cand, Len(net.body)) /\ Tried /\ Attempt
        /\ lookup.at \in 1 .. Len(cand) /\ Len(cand) \in Nat /\ Current = cand[lookup.at]
        /\ Current.id \in 1 .. Len(net.body) /\ Current.host = net.body[Current.id].host
    BY <2>1, InHand
  <2>3. net.body # NoArray /\ Len(net.body) \in Nat
    BY <2>2, WorldFacts DEF LookupInv, Understood
  <2>4. Workable(net.body[Current.id])
    BY <1>1, <2>1, <2>2, PinRight DEF Attempt, Underway
  <2>5. \A j \in 1 .. Current.id - 1 : ~Workable(net.body[j])
    <3> SUFFICES ASSUME NEW j \in 1 .. Current.id - 1, Workable(net.body[j]) PROVE FALSE
      OBVIOUS
    <3>1. j \in 1 .. Len(net.body) /\ j < Current.id
      BY <2>2, <2>3
    <3>2. PICK i \in 1 .. Len(cand) : cand[i].id = j
      BY <2>2, <2>3, <3>1, OnlyCandidates DEF LookupInv
    <3>3. i < lookup.at
      <4>1. i = lookup.at \/ i > lookup.at \/ i < lookup.at
        BY <2>2
      <4>2. i > lookup.at => Current.id < j
        BY <2>2, <3>2 DEF Found
      <4> QED
        BY <2>2, <3>1, <3>2, <4>1, <4>2
    <3> QED
      BY <2>2, <3>2, <3>3 DEF Tried
  <2>6. lookup.contacted \subseteq {net.body[j].host : j \in 1 .. Current.id}
    <3> SUFFICES ASSUME NEW h \in lookup.contacted
                 PROVE  \E j \in 1 .. Current.id : h = net.body[j].host
      OBVIOUS
    <3>1. PICK i \in 1 .. lookup.at : h = cand[i].host
      BY <2>2 DEF Tried
    <3>2. i \in 1 .. Len(cand) /\ cand[i].id \in 1 .. Len(net.body) /\ cand[i] = Info(cand[i].id)
      BY <2>2 DEF Found
    <3>3. h = net.body[cand[i].id].host
      <4>1. Info(cand[i].id).host = net.body[cand[i].id].host
        BY DEF Info
      <4> QED
        BY <3>1, <3>2, <4>1
    <3>4. cand[i].id <= Current.id
      <4>1. i = lookup.at \/ i < lookup.at
        BY <2>2
      <4> QED
        BY <2>2, <3>2, <4>1 DEF Found
    <3>5. cand[i].id \in 1 .. Current.id
      BY <2>2, <2>3, <3>2, <3>4
    <3> QED
      BY <3>3, <3>5
  <2>7. Len(lookup.diagnostics) = lookup.at - 1
    BY <1>1, <2>2 DEF Tried
  <2> QED
    BY <1>1, <2>1, <2>2, <2>4, <2>5, <2>6, <2>7 DEF RegistryExact
<1>2. CASE lookup.pc = "failed"
  <2>1. lookup.open = {} /\ Registered
    BY <1>2 DEF LookupInv, Connection
  <2>2. Len(lookup.diagnostics) = lookup.at - 0 <=> Len(lookup.diagnostics) = lookup.at
    <3>1. Len(lookup.diagnostics) = lookup.at
      BY <1>2, <2>1 DEF Registered
    <3> QED
      BY <3>1
  <2> QED
    BY <1>2, <2>1, <2>2 DEF RegistryExact, Registered
<1> QED
  BY <1>1, <1>2 DEF RegistryExact
\* Nothing looked up yet.
LEMMA NoLookupInv ==
  ASSUME net \in Worlds, lookup = NoLookup
  PROVE  LookupInv
<1>1. LookupShape /\ lookup.pc = "idle" /\ lookup.open = {}
  BY DEF NoLookup, LookupShape
<1>2. Connection
  BY <1>1 DEF Connection
<1>3. Registered
  BY <1>1 DEF Registered, Arrived, Trying, Underway, Asking
<1> QED
  BY <1>1, <1>2, <1>3 DEF LookupInv, LookupPcs

\* connect_from_registry, called by any program with any override, takes the first
\* entry of the registry's answer that can be connected to, contacts none listed
\* after it, and fails exactly when the whole answer has no such entry: for every
\* answer, every set of mirrors and every point at which the registry stops sending.
THEOREM RegistryTruth == LookupSpec => []RegistryExact
<1>1. LookupInit => LookupInv
  <2> SUFFICES ASSUME LookupInit PROVE LookupInv
    OBVIOUS
  <2>1. net \in Worlds /\ lookup = NoLookup
    BY DEF LookupInit
  <2> QED
    BY <2>1, NoLookupInv
<1>2. LookupInv /\ [LookupNext]_lookupVars => LookupInv'
  <2> SUFFICES ASSUME LookupInv, [LookupNext]_lookupVars PROVE LookupInv'
    OBVIOUS
  <2>1. ASSUME NEW usable \in BOOLEAN, NEW built \in BOOLEAN, NEW sound \in BOOLEAN,
               NEW override \in Pins \cup {NoPin, EmptyPin, BadPin},
               ConnectFromRegistry(usable, built, sound, override)
        PROVE  LookupInv'
    BY <2>1, CallKeeps
  <2>2. CASE LookupStep
    BY <2>2, LookupKeeps
  <2>3. CASE UNCHANGED lookupVars
    BY <2>3, LookupStutters
  <2> QED
    BY <2>1, <2>2, <2>3 DEF LookupNext
<1>3. LookupInv => RegistryExact
  BY LookupExact
<1> QED
  BY <1>1, <1>2, <1>3, PTL DEF LookupSpec

---------------------------------------------------------------------------
(* The command *)

Parsing == {"main", "parse", "resolve"}
Unconnected == Parsing \cup {"resolving", "connect", "connecting"}
Contacting == {"connect", "connecting", "send", "await"}
CommandPcs == Unconnected \cup {"send", "await", "done"}

CommandShape ==
  /\ cmd = [pc |-> cmd.pc, argv |-> cmd.argv, i |-> cmd.i, o |-> cmd.o, search |-> cmd.search,
            exit |-> cmd.exit, peer |-> cmd.peer]
  /\ mirror = [asked |-> mirror.asked, said |-> mirror.said]

\* The mirror gave its verdict.
Told == mirror.asked = 1 /\ mirror.said \in {"valid", "invalid"}

\* What the exit code says.
ExitTold ==
  /\ cmd.exit \in {0, 1} <=> Told
  /\ Told => cmd.exit = IF mirror.said = "valid" THEN 0 ELSE 1

CommandInv ==
  /\ WalkInv /\ LookupInv /\ CommandShape
  /\ cmd.pc \in CommandPcs /\ cmd.search \in Seq(Dirs)
  /\ cmd.pc \in Parsing => walk = NoWalk
  /\ cmd.pc \in Contacting => walk.pc = "ok"
  /\ cmd.pc \in Parsing \cup {"resolving", "connect"} => lookup = NoLookup
  /\ cmd.pc \in Unconnected \cup {"done"} => cmd.peer = Blank
  /\ mirror.asked \in {0, 1}
  /\ mirror.asked = 1 => cmd.pc \in {"await", "done"} /\ walk.pc = "ok"
  /\ cmd.pc = "await" => mirror.asked = 1
  /\ cmd.o.tls /\ (cmd.pc \in {"send", "await"} \/ mirror.asked = 1) => lookup.pc = "connected"
  /\ lookup.contacted # {} => walk.pc = "ok"
  /\ cmd.pc \notin {"main", "done"} => ~Help
  /\ cmd.pc = "done" /\ ~Help => ExitTold

\* Leaving main: the transport goes with it.
LEMMA ExitFields ==
  ASSUME CommandShape, NEW code, Exit(code)
  PROVE  /\ cmd'.pc = "done" /\ cmd'.exit = code /\ cmd'.peer = Blank
         /\ cmd'.argv = cmd.argv /\ cmd'.o = cmd.o /\ cmd'.search = cmd.search
         /\ cmd' = [pc |-> cmd'.pc, argv |-> cmd'.argv, i |-> cmd'.i, o |-> cmd'.o,
                    search |-> cmd'.search, exit |-> cmd'.exit, peer |-> cmd'.peer]
         /\ Help' <=> Help
<1>1. /\ cmd'.pc = "done" /\ cmd'.exit = code /\ cmd'.peer = Blank
      /\ cmd'.argv = cmd.argv /\ cmd'.o = cmd.o /\ cmd'.search = cmd.search
      /\ cmd' = [pc |-> cmd'.pc, argv |-> cmd'.argv, i |-> cmd'.i, o |-> cmd'.o,
                 search |-> cmd'.search, exit |-> cmd'.exit, peer |-> cmd'.peer]
  BY DEF CommandShape, Exit
<1> QED
  BY <1>1 DEF Help

\* Going on in main.
LEMMA GotoFields ==
  ASSUME CommandShape, NEW pc, Goto(pc)
  PROVE  /\ cmd'.pc = pc /\ cmd'.exit = cmd.exit /\ cmd'.peer = cmd.peer
         /\ cmd'.argv = cmd.argv /\ cmd'.o = cmd.o /\ cmd'.search = cmd.search
         /\ cmd' = [pc |-> cmd'.pc, argv |-> cmd'.argv, i |-> cmd'.i, o |-> cmd'.o,
                    search |-> cmd'.search, exit |-> cmd'.exit, peer |-> cmd'.peer]
         /\ Help' <=> Help
<1>1. /\ cmd'.pc = pc /\ cmd'.exit = cmd.exit /\ cmd'.peer = cmd.peer
      /\ cmd'.argv = cmd.argv /\ cmd'.o = cmd.o /\ cmd'.search = cmd.search
      /\ cmd' = [pc |-> cmd'.pc, argv |-> cmd'.argv, i |-> cmd'.i, o |-> cmd'.o,
                 search |-> cmd'.search, exit |-> cmd'.exit, peer |-> cmd'.peer]
  BY DEF CommandShape, Goto
<1> QED
  BY <1>1 DEF Help

\* Main's own steps leave the walk and the lookup as they are.
LEMMA CallsKept ==
  ASSUME CommandInv, UNCHANGED <<disk, walk, net, lookup>>
  PROVE  WalkInv' /\ LookupInv'
<1>1. WalkInv /\ LookupInv /\ UNCHANGED closureVars /\ UNCHANGED lookupVars
  BY DEF CommandInv, closureVars, lookupVars
<1> QED
  BY <1>1, StutterKeeps, LookupStutters

\* An exit with a code that is right for what the mirror said.
LEMMA ExitKeeps ==
  ASSUME CommandInv, cmd.pc # "done", NEW code, Exit(code), UNCHANGED <<disk, walk, net, lookup>>,
         mirror' = [asked |-> mirror.asked, said |-> mirror'.said],
         ~Help => ExitTold'
  PROVE  CommandInv'
<1>1. WalkInv' /\ LookupInv'
  BY CallsKept
<1>2. /\ cmd'.pc = "done" /\ cmd'.exit = code /\ cmd'.peer = Blank
      /\ cmd'.argv = cmd.argv /\ cmd'.o = cmd.o /\ cmd'.search = cmd.search
      /\ cmd' = [pc |-> cmd'.pc, argv |-> cmd'.argv, i |-> cmd'.i, o |-> cmd'.o,
                 search |-> cmd'.search, exit |-> cmd'.exit, peer |-> cmd'.peer]
      /\ Help' <=> Help
  BY ExitFields DEF CommandInv
<1>3. CommandShape' /\ mirror'.asked = mirror.asked
  BY <1>2 DEF CommandShape
<1> QED
  BY <1>1, <1>2, <1>3 DEF CommandInv, CommandPcs, Unconnected, Parsing, Contacting

\* An error before the mirror was asked.
LEMMA RefuseKeeps ==
  ASSUME CommandInv, cmd.pc \notin {"await", "done"}, NEW code, Exit(code), code \notin {0, 1},
         UNCHANGED <<mirror, disk, walk, net, lookup>>
  PROVE  CommandInv'
<1>1. cmd'.exit = code /\ mirror'.asked = 0
  BY ExitFields DEF CommandInv
<1>2. ExitTold'
  BY <1>1 DEF ExitTold, Told
<1>3. mirror' = [asked |-> mirror.asked, said |-> mirror'.said]
  BY DEF CommandInv, CommandShape
<1> QED
  BY <1>2, <1>3, ExitKeeps

\* --help, or the arguments.
LEMMA MainKeeps ==
  ASSUME CommandInv, Main
  PROVE  CommandInv'
<1>1. cmd.pc = "main" /\ UNCHANGED <<mirror, disk, walk, net, lookup>>
  BY DEF Main
<1>2. mirror' = [asked |-> mirror.asked, said |-> mirror'.said]
  BY <1>1 DEF CommandInv, CommandShape
<1>3. CASE Help
  <2>1. Exit(0)
    BY <1>3 DEF Main
  <2> QED
    BY <1>1, <1>2, <1>3, <2>1, ExitKeeps
<1>4. CASE ~Help
  <2>1. Goto("parse")
    BY <1>4 DEF Main
  <2>2. /\ cmd'.pc = "parse" /\ cmd'.peer = cmd.peer /\ cmd'.o = cmd.o /\ cmd'.search = cmd.search
        /\ cmd' = [pc |-> cmd'.pc, argv |-> cmd'.argv, i |-> cmd'.i, o |-> cmd'.o,
                   search |-> cmd'.search, exit |-> cmd'.exit, peer |-> cmd'.peer]
        /\ Help' <=> Help
    BY <2>1, GotoFields DEF CommandInv
  <2>3. WalkInv' /\ LookupInv' /\ CommandShape'
    BY <1>1, <2>2, CallsKept DEF CommandInv, CommandShape
  <2> QED
    BY <1>1, <1>4, <2>2, <2>3 DEF CommandInv, CommandPcs, Unconnected, Parsing, Contacting
<1> QED
  BY <1>3, <1>4

\* The loops over the arguments and over the --dep options.
LEMMA ParsingKeeps ==
  ASSUME CommandInv, cmd.pc \in {"parse", "resolve"}, cmd'.pc \in {"parse", "resolve"},
         UNCHANGED <<mirror, disk, walk, net, lookup>>,
         cmd' = [pc |-> cmd'.pc, argv |-> cmd.argv, i |-> cmd'.i, o |-> cmd'.o,
                 search |-> cmd'.search, exit |-> cmd'.exit, peer |-> cmd.peer],
         cmd'.search \in Seq(Dirs)
  PROVE  CommandInv'
<1>1. WalkInv' /\ LookupInv'
  BY CallsKept
<1>2. cmd'.argv = cmd.argv /\ cmd'.peer = cmd.peer
  OBVIOUS
<1>3. CommandShape' /\ (Help' <=> Help)
  BY <1>2 DEF CommandInv, CommandShape, Help
<1> QED
  BY <1>1, <1>2, <1>3 DEF CommandInv, CommandPcs, Unconnected, Parsing, Contacting

\* One argument, accepted or not.
LEMMA ParseArgumentKeeps ==
  ASSUME CommandInv, ParseArgument
  PROVE  CommandInv'
<1>1. cmd.pc = "parse" /\ UNCHANGED <<mirror, disk, walk, net, lookup>>
  BY DEF ParseArgument
<1>2. CASE Exit(2)
  BY <1>1, <1>2, RefuseKeeps
<1>3. ASSUME NEW o, NEW i, cmd' = [cmd EXCEPT !.o = o, !.i = i]
      PROVE  CommandInv'
  <2>1. /\ cmd'.pc = "parse" /\ cmd'.search = cmd.search
        /\ cmd' = [pc |-> cmd'.pc, argv |-> cmd.argv, i |-> cmd'.i, o |-> cmd'.o,
                   search |-> cmd'.search, exit |-> cmd'.exit, peer |-> cmd.peer]
    BY <1>1, <1>3 DEF CommandInv, CommandShape
  <2> QED
    BY <1>1, <2>1, ParsingKeeps DEF CommandInv
<1>4. ASSUME NEW i, cmd' = [cmd EXCEPT !.o.tls = TRUE, !.i = i]
      PROVE  CommandInv'
  <2>1. cmd' = [cmd EXCEPT !.o = [cmd.o EXCEPT !.tls = TRUE], !.i = i]
    BY <1>4
  <2> QED
    BY <1>3, <2>1
<1>5. \/ Exit(2)
      \/ cmd' = [cmd EXCEPT !.o.tls = TRUE, !.i = cmd.i + 1]
      \/ \E o, i : cmd' = [cmd EXCEPT !.o = o, !.i = i]
  BY DEF ParseArgument
<1> QED
  BY <1>2, <1>3, <1>4, <1>5

\* The arguments as a whole.
LEMMA CheckArgumentsKeeps ==
  ASSUME CommandInv, CheckArguments
  PROVE  CommandInv'
<1>1. cmd.pc = "parse" /\ UNCHANGED <<mirror, disk, walk, net, lookup>>
  BY DEF CheckArguments
<1>2. CASE ArgumentsAccepted
  <2>1. cmd' = [cmd EXCEPT !.pc = "resolve", !.i = 1]
    BY <1>2 DEF CheckArguments
  <2>2. /\ cmd'.pc = "resolve" /\ cmd'.search = cmd.search
        /\ cmd' = [pc |-> cmd'.pc, argv |-> cmd.argv, i |-> cmd'.i, o |-> cmd'.o,
                   search |-> cmd'.search, exit |-> cmd'.exit, peer |-> cmd.peer]
    BY <2>1 DEF CommandInv, CommandShape
  <2> QED
    BY <1>1, <2>2, ParsingKeeps DEF CommandInv
<1>3. CASE ~ArgumentsAccepted
  <2>1. Exit(2)
    BY <1>3 DEF CheckArguments
  <2> QED
    BY <1>1, <2>1, RefuseKeeps
<1> QED
  BY <1>2, <1>3

\* The directory of a --dep.
LEMMA AddSearchDirKeeps ==
  ASSUME CommandInv, AddSearchDir
  PROVE  CommandInv'
<1> DEFINE parent == ParentOf(cmd.o.deps[cmd.i])
           search == IF parent = NoDir THEN cmd.search ELSE Append(cmd.search, parent)
<1>1. /\ cmd.pc = "resolve" /\ UNCHANGED <<mirror, disk, walk, net, lookup>>
      /\ cmd' = [cmd EXCEPT !.i = cmd.i + 1, !.search = search]
  BY DEF AddSearchDir
<1>2. parent \in Dirs \cup {NoDir}
  BY CommandAssumption DEF ParentOf
<1>3. search \in Seq(Dirs)
  BY <1>2, AppendProperties DEF CommandInv
<1> HIDE DEF search
<1>4. /\ cmd'.pc = "resolve" /\ cmd'.search = search
      /\ cmd' = [pc |-> cmd'.pc, argv |-> cmd.argv, i |-> cmd'.i, o |-> cmd'.o,
                 search |-> cmd'.search, exit |-> cmd'.exit, peer |-> cmd.peer]
  BY <1>1 DEF CommandInv, CommandShape
<1> QED
  BY <1>1, <1>3, <1>4, ParsingKeeps

\* spec_from_files is called.
LEMMA ResolveSpecKeeps ==
  ASSUME CommandInv, ResolveSpec
  PROVE  CommandInv'
<1>1. /\ cmd.pc = "resolve" /\ Goto("resolving") /\ UNCHANGED <<mirror, net, lookup>>
      /\ Start(FileAt(cmd.o.spec), cmd.search)
  BY DEF ResolveSpec
<1>2. FileAt(cmd.o.spec) \in Files \cup {NoFile}
  BY CommandAssumption, DiskFacts DEF CommandInv, WalkInv, ClosureTypeOK, FileAt
<1>3. WalkInv' /\ LookupInv'
  <2>1. WalkInv /\ cmd.search \in Seq(Dirs) /\ LookupInv /\ UNCHANGED lookupVars
    BY <1>1 DEF CommandInv, lookupVars
  <2> QED
    BY <1>1, <1>2, <2>1, StartKeeps, LookupStutters
<1>4. /\ cmd'.pc = "resolving" /\ cmd'.peer = cmd.peer /\ cmd'.o = cmd.o /\ cmd'.search = cmd.search
      /\ cmd' = [pc |-> cmd'.pc, argv |-> cmd'.argv, i |-> cmd'.i, o |-> cmd'.o,
                 search |-> cmd'.search, exit |-> cmd'.exit, peer |-> cmd'.peer]
      /\ Help' <=> Help
  BY <1>1, GotoFields DEF CommandInv
<1>5. CommandShape' /\ lookup' = NoLookup /\ lookup'.contacted = {}
  BY <1>1, <1>4 DEF CommandInv, CommandShape, Parsing, NoLookup
<1> QED
  BY <1>1, <1>3, <1>4, <1>5 DEF CommandInv, CommandPcs, Unconnected, Parsing, Contacting

\* A step of the walk.
LEMMA WalkOnKeeps ==
  ASSUME CommandInv, WalkOn
  PROVE  CommandInv'
<1>1. cmd.pc = "resolving" /\ UNCHANGED <<cmd, mirror, net, lookup>>
  BY DEF WalkOn
<1>2. WalkInv' /\ LookupInv'
  <2>1. WalkInv /\ LookupInv /\ UNCHANGED lookupVars
    BY <1>1 DEF CommandInv, lookupVars
  <2> QED
    BY <2>1, NextImporterKeeps, ImportNameKeeps, FinishKeeps, LookupStutters DEF WalkOn, WalkStep
<1>3. CommandShape' /\ lookup' = NoLookup /\ lookup'.contacted = {} /\ (Help' <=> Help)
  BY <1>1 DEF CommandInv, CommandShape, Parsing, NoLookup, Help
<1> QED
  BY <1>1, <1>2, <1>3 DEF CommandInv, CommandPcs, Unconnected, Parsing, Contacting

\* The spec is there, or the command ends.
LEMMA SpecResolvedKeeps ==
  ASSUME CommandInv, SpecResolved
  PROVE  CommandInv'
<1>1. cmd.pc = "resolving" /\ UNCHANGED <<mirror, disk, walk, net, lookup>>
  BY DEF SpecResolved
<1>2. CASE walk.pc = "ok"
  <2>1. Goto("connect")
    BY <1>2 DEF SpecResolved
  <2>2. /\ cmd'.pc = "connect" /\ cmd'.peer = cmd.peer /\ cmd'.o = cmd.o /\ cmd'.search = cmd.search
        /\ cmd' = [pc |-> cmd'.pc, argv |-> cmd'.argv, i |-> cmd'.i, o |-> cmd'.o,
                   search |-> cmd'.search, exit |-> cmd'.exit, peer |-> cmd'.peer]
        /\ Help' <=> Help
    BY <2>1, GotoFields DEF CommandInv
  <2>3. WalkInv' /\ LookupInv' /\ CommandShape'
    BY <1>1, <2>2, CallsKept DEF CommandInv, CommandShape
  <2> QED
    BY <1>1, <1>2, <2>2, <2>3 DEF CommandInv, CommandPcs, Unconnected, Parsing, Contacting
<1>3. CASE walk.pc # "ok"
  <2>1. Exit(2)
    BY <1>3 DEF SpecResolved
  <2> QED
    BY <1>1, <2>1, RefuseKeeps
<1> QED
  BY <1>2, <1>3

\* The secure connection is called for.
LEMMA ConnectSecurelyKeeps ==
  ASSUME CommandInv, ConnectSecurely
  PROVE  CommandInv'
<1>1. /\ cmd.pc = "connect" /\ Goto("connecting") /\ UNCHANGED <<mirror, disk, walk>>
      /\ \/ ConnectFromRegistry(cmd.o.registry \in Urls, build, MaterialSound, NoPin)
         \/ ConnectTls(cmd.o.host, cmd.o.port, MaterialSound, cmd.o.pin)
  BY DEF ConnectSecurely
<1>2. WalkInv' /\ LookupInv'
  <2>1. WalkInv /\ LookupInv /\ UNCHANGED closureVars
    BY <1>1 DEF CommandInv, closureVars
  <2> QED
    BY <1>1, <2>1, StutterKeeps, CallKeeps, ConnectTlsKeeps
<1>3. /\ cmd'.pc = "connecting" /\ cmd'.peer = cmd.peer /\ cmd'.o = cmd.o /\ cmd'.search = cmd.search
      /\ cmd' = [pc |-> cmd'.pc, argv |-> cmd'.argv, i |-> cmd'.i, o |-> cmd'.o,
                 search |-> cmd'.search, exit |-> cmd'.exit, peer |-> cmd'.peer]
      /\ Help' <=> Help
  BY <1>1, GotoFields DEF CommandInv
<1>4. CommandShape' /\ walk'.pc = "ok"
  BY <1>1, <1>3 DEF CommandInv, CommandShape, Contacting
<1> QED
  BY <1>1, <1>2, <1>3, <1>4 DEF CommandInv, CommandPcs, Unconnected, Parsing, Contacting

\* A plain connection, for a command without --tls.
LEMMA ConnectTcpKeeps ==
  ASSUME CommandInv, ConnectTcp
  PROVE  CommandInv'
<1>1. cmd.pc = "connect" /\ ~cmd.o.tls /\ UNCHANGED <<mirror, disk, walk, net, lookup>>
  BY DEF ConnectTcp
<1>2. CASE cmd' = [cmd EXCEPT !.pc = "send", !.peer = cmd.o.host]
  <2>1. /\ cmd'.pc = "send" /\ cmd'.o = cmd.o /\ cmd'.search = cmd.search /\ cmd'.argv = cmd.argv
        /\ cmd' = [pc |-> cmd'.pc, argv |-> cmd'.argv, i |-> cmd'.i, o |-> cmd'.o,
                   search |-> cmd'.search, exit |-> cmd'.exit, peer |-> cmd'.peer]
    BY <1>2 DEF CommandInv, CommandShape
  <2>2. WalkInv' /\ LookupInv' /\ CommandShape' /\ (Help' <=> Help)
    BY <1>1, <2>1, CallsKept DEF CommandInv, CommandShape, Help
  <2> QED
    BY <1>1, <2>1, <2>2 DEF CommandInv, CommandPcs, Unconnected, Parsing, Contacting
<1>3. CASE Exit(2)
  BY <1>1, <1>3, RefuseKeeps
<1> QED
  BY <1>2, <1>3 DEF ConnectTcp

\* A step of the lookup, once the spec is resolved.
LEMMA LookUpOnKeeps ==
  ASSUME CommandInv, LookUpOn
  PROVE  CommandInv'
<1>1. cmd.pc = "connecting" /\ UNCHANGED <<cmd, mirror, disk, walk>>
  BY DEF LookUpOn
<1>2. WalkInv' /\ LookupInv'
  <2>1. WalkInv /\ LookupInv /\ UNCHANGED closureVars /\ LookupStep
    BY <1>1 DEF CommandInv, closureVars, LookUpOn
  <2> QED
    BY <2>1, StutterKeeps, LookupKeeps
<1>3. CommandShape' /\ (Help' <=> Help)
  BY <1>1 DEF CommandInv, CommandShape, Help
<1>4. walk'.pc = "ok" /\ mirror'.asked = 0
  BY <1>1 DEF CommandInv, Contacting
<1> QED
  BY <1>1, <1>2, <1>3, <1>4 DEF CommandInv, CommandPcs, Unconnected, Parsing, Contacting

\* The lookup's outcome.
LEMMA ConnectedKeeps ==
  ASSUME CommandInv, Connected
  PROVE  CommandInv'
<1>1. cmd.pc = "connecting" /\ UNCHANGED <<mirror, disk, walk, net, lookup>>
  BY DEF Connected
<1>2. CASE lookup.pc = "connected"
  <2>0. cmd' = [cmd EXCEPT !.pc = "send", !.peer = Current.host]
    BY <1>2 DEF Connected
  <2>1. /\ cmd'.pc = "send" /\ cmd'.o = cmd.o /\ cmd'.search = cmd.search /\ cmd'.argv = cmd.argv
        /\ cmd' = [pc |-> cmd'.pc, argv |-> cmd'.argv, i |-> cmd'.i, o |-> cmd'.o,
                   search |-> cmd'.search, exit |-> cmd'.exit, peer |-> cmd'.peer]
    BY <2>0 DEF CommandInv, CommandShape
  <2>2. WalkInv' /\ LookupInv' /\ CommandShape' /\ (Help' <=> Help)
    BY <1>1, <2>1, CallsKept DEF CommandInv, CommandShape, Help
  <2> QED
    BY <1>1, <1>2, <2>1, <2>2 DEF CommandInv, CommandPcs, Unconnected, Parsing, Contacting
<1>3. CASE lookup.pc = "failed"
  <2>1. Exit(2)
    BY <1>3 DEF Connected
  <2> QED
    BY <1>1, <2>1, RefuseKeeps
<1>4. CASE lookup.pc = "threw"
  <2>1. Exit(Aborted) /\ Aborted \notin {0, 1}
    BY <1>4 DEF Connected, Aborted
  <2> QED
    BY <1>1, <2>1, RefuseKeeps
<1> QED
  BY <1>2, <1>3, <1>4 DEF Connected

\* The one question, or a lost connection, or a registration that cannot be encoded.
LEMMA SendRegistrationKeeps ==
  ASSUME CommandInv, SendRegistration
  PROVE  CommandInv'
<1>1. cmd.pc = "send" /\ UNCHANGED <<disk, walk, net, lookup>> /\ mirror.asked = 0
  BY DEF SendRegistration, CommandInv
<1>2. CASE Goto("await") /\ mirror' = [mirror EXCEPT !.asked = @ + 1]
  <2>1. /\ cmd'.pc = "await" /\ cmd'.o = cmd.o /\ cmd'.search = cmd.search
        /\ cmd' = [pc |-> cmd'.pc, argv |-> cmd'.argv, i |-> cmd'.i, o |-> cmd'.o,
                   search |-> cmd'.search, exit |-> cmd'.exit, peer |-> cmd'.peer]
        /\ Help' <=> Help
    BY <1>2, GotoFields DEF CommandInv
  <2>2. mirror'.asked = 1 /\ mirror' = [asked |-> mirror'.asked, said |-> mirror'.said]
    BY <1>1, <1>2 DEF CommandInv, CommandShape
  <2>3. WalkInv' /\ LookupInv' /\ CommandShape'
    BY <1>1, <2>1, <2>2, CallsKept DEF CommandShape
  <2> QED
    BY <1>1, <2>1, <2>2, <2>3 DEF CommandInv, CommandPcs, Unconnected, Parsing, Contacting
<1>3. CASE (\E code \in {2, Aborted} : Exit(code)) /\ mirror' = [mirror EXCEPT !.said = "lost"]
  <2>1. mirror' = [asked |-> mirror.asked, said |-> mirror'.said]
    BY <1>3 DEF CommandInv, CommandShape
  <2>2. PICK code \in {2, Aborted} : Exit(code)
    BY <1>3
  <2>3. cmd'.exit = code /\ mirror'.asked = 0
    BY <1>1, <2>1, <2>2, ExitFields DEF CommandInv
  <2>4. ExitTold'
    BY <2>3 DEF ExitTold, Told, Aborted
  <2> QED
    BY <1>1, <2>1, <2>2, <2>4, ExitKeeps
<1> QED
  BY <1>2, <1>3 DEF SendRegistration

\* The mirror's answer becomes the exit code.
LEMMA AnswerKeeps ==
  ASSUME CommandInv, Answer
  PROVE  CommandInv'
<1>1. cmd.pc = "await" /\ UNCHANGED <<disk, walk, net, lookup>> /\ mirror.asked = 1
  BY DEF Answer, CommandInv
<1>2. PICK said \in Verdicts : mirror' = [mirror EXCEPT !.said = said] /\ Exit(ExitCode(said))
  BY DEF Answer
<1>3. mirror'.said = said /\ mirror' = [asked |-> mirror.asked, said |-> mirror'.said]
  BY <1>2 DEF CommandInv, CommandShape
<1>4. cmd'.exit = ExitCode(said) /\ mirror'.asked = 1
  BY <1>1, <1>2, <1>3, ExitFields DEF CommandInv
<1>5. /\ said = "valid" => ExitCode(said) = 0
      /\ said = "invalid" => ExitCode(said) = 1
      /\ said \notin {"valid", "invalid"} => ExitCode(said) \in {2, 134}
  BY DEF ExitCode, Aborted
<1>6. ExitTold'
  BY <1>3, <1>4, <1>5 DEF ExitTold, Told
<1> QED
  BY <1>1, <1>2, <1>3, <1>6, ExitKeeps

---------------------------------------------------------------------------
\* The command's invariant holds in every step of main.
LEMMA CommandInvariant == CommandSpec => []CommandInv
<1>1. CommandInit => CommandInv
  <2> SUFFICES ASSUME CommandInit PROVE CommandInv
    OBVIOUS
  <2>1. net \in Worlds /\ lookup = NoLookup /\ disk \in Disks /\ walk = NoWalk /\ mirror = NotAsked
    BY DEF CommandInit, LookupInit, ClosureInit
  <2>2. PICK argv \in CommandLines : cmd = Fresh(argv)
    BY DEF CommandInit
  <2>3. walk \in WalkType /\ walk.pc = "idle"
    BY <2>1 DEF NoWalk, WalkType
  <2>4. WalkInv /\ LookupInv
    BY <2>1, <2>3, NoLookupInv DEF WalkInv, ClosureTypeOK
  <2>5. CommandShape /\ cmd.pc = "main" /\ cmd.search = <<>> /\ cmd.peer = Blank
    BY <2>1, <2>2 DEF Fresh, NotAsked, CommandShape
  <2>6. mirror.asked = 0 /\ lookup.contacted = {}
    BY <2>1 DEF NotAsked, NoLookup
  <2>7. cmd.search \in Seq(Dirs)
    BY <2>5
  <2> QED
    BY <2>1, <2>4, <2>5, <2>6, <2>7 DEF CommandInv, CommandPcs, Unconnected, Parsing, Contacting
<1>2. CommandInv /\ [CommandNext]_commandVars => CommandInv'
  <2> SUFFICES ASSUME CommandInv, [CommandNext]_commandVars PROVE CommandInv'
    OBVIOUS
  <2>1. CASE ConnectRefused
    <3>1. cmd.pc = "connect" /\ Exit(2) /\ UNCHANGED <<mirror, disk, walk, net, lookup>>
      BY <2>1 DEF ConnectRefused
    <3> QED
      BY <3>1, RefuseKeeps
  <2>2. CASE UNCHANGED commandVars
    <3>1. cmd' = cmd /\ mirror' = mirror /\ disk' = disk /\ walk' = walk /\ net' = net /\ lookup' = lookup
      BY <2>2 DEF commandVars
    <3>2. WalkInv' /\ LookupInv' /\ CommandShape' /\ (Help' <=> Help) /\ (ExitTold' <=> ExitTold)
      BY <3>1, CallsKept DEF CommandInv, CommandShape, Help, ExitTold, Told
    <3> QED
      BY <3>1, <3>2 DEF CommandInv
  <2> QED
    BY <2>1, <2>2, MainKeeps, ParseArgumentKeeps, CheckArgumentsKeeps, AddSearchDirKeeps,
       ResolveSpecKeeps, WalkOnKeeps, SpecResolvedKeeps, ConnectSecurelyKeeps, ConnectTcpKeeps,
       LookUpOnKeeps, ConnectedKeeps, SendRegistrationKeeps, AnswerKeeps DEF CommandNext
<1> QED
  BY <1>1, <1>2, PTL DEF CommandSpec

\* The exit code of mirrorcpp-validate says what the mirror said of the whole closure
\* of the spec; nothing is contacted before the spec is resolved, no connection is
\* left, and with --tls only a mirror whose certificate verifies is asked: for every
\* command line, file system, registry and set of mirrors.
THEOREM CommandTruth == CommandSpec => []CommandTruthful
<1>1. CommandInv => CommandTruthful
  <2> SUFFICES ASSUME CommandInv PROVE CommandTruthful
    OBVIOUS
  <2>1. cmd.pc = "done" /\ ~Help =>
          /\ cmd.exit \in {0, 1} <=> Told
          /\ Told => cmd.exit = (IF mirror.said = "valid" THEN 0 ELSE 1) /\ walk.pc = "ok"
    BY DEF CommandInv, ExitTold, Told
  <2>2. ClosureExact
    BY InvExact DEF CommandInv
  <2>3. lookup.contacted # {} \/ cmd.peer # Blank \/ mirror.asked > 0 => walk.pc = "ok"
    BY DEF CommandInv, CommandPcs, Unconnected, Contacting
  <2>4. mirror.asked <= 1 /\ (cmd.pc = "done" => cmd.peer = Blank)
    BY DEF CommandInv
  <2>5. cmd.o.tls /\ mirror.asked > 0 => lookup.open # {} /\ lookup.open \subseteq net.trusted
    <3> SUFFICES ASSUME cmd.o.tls, mirror.asked > 0
                 PROVE  lookup.open # {} /\ lookup.open \subseteq net.trusted
      OBVIOUS
    <3>1. lookup.pc = "connected"
      BY DEF CommandInv
    <3>2. Connection
      BY DEF CommandInv, LookupInv
    <3> QED
      BY <3>1, <3>2 DEF Connection
  <2> QED
    BY <2>1, <2>2, <2>3, <2>4, <2>5 DEF CommandTruthful, Told
<1> QED
  BY <1>1, CommandInvariant, PTL

\* The spec the command sends is the whole closure of its root, and a mirror found
\* through a registry is the first of the answer that can be connected to: the calls
\* that main makes keep their promises in it.
THEOREM CommandCallsExact == CommandSpec => [](ClosureExact /\ RegistryExact)
<1>1. CommandInv => ClosureExact /\ RegistryExact
  BY InvExact, LookupExact DEF CommandInv
<1> QED
  BY <1>1, CommandInvariant, PTL

=============================================================================

---------------------------- MODULE SpecClosure ----------------------------
(***************************************************************************)
(* spec_from_files of src/spec.cpp: the breadth-first walk that collects a *)
(* root module and everything it imports, each file once.  A file is its   *)
(* canonical path; two names may be links to one file.  The file system    *)
(* does not change during the walk.  What import_names finds in a text is  *)
(* the subject of ImportScan; here it is the sequence disk.imports.        *)
(***************************************************************************)
EXTENDS Naturals, Sequences

CONSTANTS
  Dirs,       \* directories
  Names,      \* module names
  Builtins,   \* the names is_builtin knows
  Files,      \* canonical files
  NoFile,     \* what a path is resolved to when there is nothing
  Disks       \* the file systems considered

DiskType ==
  [at : [Dirs \X Names -> Files \cup {NoFile}],   \* canonical_of(dir / name.tla)
   home : [Files -> Dirs],                        \* parent_path of a canonical file
   imports : [Files -> Seq(Names)],               \* import_names of its text
   readable : SUBSET Files]

ASSUME ClosureAssumption == NoFile \notin Files /\ Disks \subseteq DiskType

VARIABLES
  disk,   \* the file system
  walk    \* the locals of spec_from_files

closureVars == <<disk, walk>>

WalkType ==
  [pc : {"idle", "walk", "ok", "error"}, root : Files \cup {NoFile}, search : Seq(Dirs),
   pending : Seq(Files), visited : SUBSET Files, idx : Nat, pos : Nat]
ClosureTypeOK == disk \in Disks /\ walk \in WalkType

NoWalk ==
  [pc |-> "idle", root |-> NoFile, search |-> <<>>, pending |-> <<>>, visited |-> {},
   idx |-> 0, pos |-> 1]
ClosureInit == disk \in Disks /\ walk = NoWalk

---------------------------------------------------------------------------
\* The files named by an import: the importer's directory and every search
\* directory are asked, and equal canonical paths are one candidate.
CandidateDirs(f) == {disk.home[f]} \cup {walk.search[i] : i \in 1 .. Len(walk.search)}
Candidates(f, name) == {disk.at[<<d, name>>] : d \in CandidateDirs(f)} \ {NoFile}

\* push_file, for a path that has a canonical file.
PushFile(w, f) ==
  IF f \in w.visited THEN w
  ELSE IF f \in disk.readable
       THEN [w EXCEPT !.visited = @ \cup {f}, !.pending = Append(@, f)]
       ELSE [w EXCEPT !.visited = @ \cup {f}, !.pc = "error"]

\* The call: the root is resolved and read first.
Start(root, search) ==
  /\ walk.pc = "idle"
  /\ LET called == [walk EXCEPT !.pc = "walk", !.root = root, !.search = search]
     IN walk' = IF root = NoFile THEN [called EXCEPT !.pc = "error"] ELSE PushFile(called, root)
  /\ UNCHANGED disk

Importer == walk.pending[walk.idx]
LastSkipped == walk.idx > 0 /\ walk.pos < Len(disk.imports[Importer])   \* mutant: off by one
NamesLeft == walk.idx > 0 /\ walk.pos <= Len(disk.imports[Importer])

\* while (idx < pending.size()): the next file whose imports are looked at.
NextImporter ==
  /\ walk.pc = "walk" /\ ~NamesLeft /\ walk.idx < Len(walk.pending)
  /\ walk' = [walk EXCEPT !.idx = @ + 1, !.pos = 1]
  /\ UNCHANGED disk

\* One name: builtin modules are skipped; no candidate and several candidates
\* are errors; the only candidate is pushed.
ImportName ==
  /\ walk.pc = "walk" /\ NamesLeft
  /\ LET name == disk.imports[Importer][walk.pos]
         found == Candidates(Importer, name)
         rest == [walk EXCEPT !.pos = @ + 1]
     IN \/ name \in Builtins /\ walk' = rest
        \/ /\ name \notin Builtins /\ \A f \in found : found # {f}
           /\ walk' = [walk EXCEPT !.pc = "error"]
        \/ /\ name \notin Builtins
           /\ \E f \in found : found = {f} /\ walk' = PushFile(rest, f)
  /\ UNCHANGED disk

FinishWalk ==
  /\ walk.pc = "walk" /\ ~NamesLeft /\ walk.idx = Len(walk.pending)
  /\ walk' = [walk EXCEPT !.pc = "ok"]
  /\ UNCHANGED disk

WalkStep == NextImporter \/ ImportName \/ FinishWalk
ClosureNext ==
  \/ \E root \in Files \cup {NoFile}, search \in Seq(Dirs) : Start(root, search)
  \/ WalkStep
ClosureSpec == ClosureInit /\ [][ClosureNext]_closureVars

---------------------------------------------------------------------------
\* The reference: what a module needs, without saying how it is found.
Imported(f) == {disk.imports[f][i] : i \in 1 .. Len(disk.imports[f])} \ Builtins
Closed(S) ==
  \A f \in S : \A name \in Imported(f) : \A g \in Files : Candidates(f, name) = {g} => g \in S
Needed == {g \in Files : \A S \in SUBSET Files : walk.root \in S /\ Closed(S) => g \in S}
Sound(f) ==
  /\ f \in disk.readable
  /\ \A name \in Imported(f) : \E g \in Files : Candidates(f, name) = {g}
Loaded == {walk.pending[i] : i \in 1 .. Len(walk.pending)}

\* spec_from_files hands back the root first and then each needed file exactly
\* once, cycles and diamonds notwithstanding, and nothing else; it does so exactly
\* when every needed file can be read and every import of a needed file names one
\* file (spec_from_files, its comment "sources[0] is always the root").
ClosureExact ==
  /\ walk.pc = "ok" =>
       /\ walk.pending # <<>> /\ walk.pending[1] = walk.root
       /\ \A i, j \in 1 .. Len(walk.pending) : walk.pending[i] = walk.pending[j] => i = j
       /\ Loaded = Needed /\ \A f \in Needed : Sound(f)
  /\ walk.pc = "error" => walk.root = NoFile \/ \E f \in Needed : ~Sound(f)
=============================================================================

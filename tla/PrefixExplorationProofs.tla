---------------------- MODULE PrefixExplorationProofs ----------------------
(***************************************************************************)
(* explore, for every application, every number of actors and every bound: *)
(* as long as the search is not stopped, the stack and the prefix in hand  *)
(* cut the tree of decisions into what was explored and what was not, and  *)
(* a receipt that says complete is about the whole tree.                   *)
(*                                                                         *)
(* That an unexplored node lies below exactly one waiting prefix is not    *)
(* kept by a step on its own.  PrefixInv adds why: no waiting prefix       *)
(* continues another, none is related to the one in hand, and nothing      *)
(* below them was explored (Frontier).                                     *)
(***************************************************************************)
EXTENDS PrefixExploration, FiniteSetTheorems, SequenceTheorems, TLAPS

Path == Seq(ActorIds)

---------------------------------------------------------------------------
(* Prefixes *)

\* A prefix, place by place.
LEMMA PrefixPlaces ==
  ASSUME NEW s \in Path, NEW t \in Path
  PROVE  IsPrefix(s, t) <=> Len(s) <= Len(t) /\ \A i \in 1 .. Len(s) : s[i] = t[i]
<1>1. Len(s) \in Nat /\ Len(t) \in Nat
  BY LenProperties DEF Path
<1>2. SUFFICES ASSUME Len(s) <= Len(t)
               PROVE  SubSeq(s, 1, Len(s)) = SubSeq(t, 1, Len(s)) <=> \A i \in 1 .. Len(s) : s[i] = t[i]
  BY DEF IsPrefix
<1> DEFINE a == SubSeq(s, 1, Len(s))
           b == SubSeq(t, 1, Len(s))
<1>3. /\ a \in Path /\ Len(a) = Len(s) /\ \A i \in 1 .. Len(s) : a[i] = s[i]
      /\ b \in Path /\ Len(b) = Len(s) /\ \A i \in 1 .. Len(s) : b[i] = t[i]
  BY <1>1, <1>2 DEF Path
<1> HIDE DEF a, b
<1>4. a = b <=> \A i \in 1 .. Len(s) : a[i] = b[i]
  BY <1>1, <1>3, SeqEqual DEF Path
<1>5. a = b <=> \A i \in 1 .. Len(s) : s[i] = t[i]
  BY <1>3, <1>4
<1> QED
  BY <1>5 DEF a, b

\* Two sequences that agree at every place are the same.
LEMMA SamePlaces ==
  ASSUME NEW s \in Path, NEW t \in Path, Len(s) = Len(t), \A i \in 1 .. Len(s) : s[i] = t[i]
  PROVE  s = t
BY SeqEqual DEF Path

\* IsPrefix is a partial order, and the prefixes of a sequence are a chain.
LEMMA PrefixOrder ==
  ASSUME NEW s \in Path, NEW t \in Path, NEW u \in Path
  PROVE  /\ IsPrefix(s, s)
         /\ IsPrefix(s, t) /\ IsPrefix(t, u) => IsPrefix(s, u)
         /\ IsPrefix(s, t) /\ IsPrefix(t, s) => s = t
         /\ IsPrefix(s, u) /\ IsPrefix(t, u) => IsPrefix(s, t) \/ IsPrefix(t, s)
<1>1. Len(s) \in Nat /\ Len(t) \in Nat /\ Len(u) \in Nat
  BY LenProperties DEF Path
<1>2. IsPrefix(s, s)
  BY <1>1, PrefixPlaces
<1>3. ASSUME IsPrefix(s, t), IsPrefix(t, u) PROVE IsPrefix(s, u)
  <2>1. Len(s) <= Len(t) /\ \A i \in 1 .. Len(s) : s[i] = t[i]
    BY <1>3, PrefixPlaces
  <2>2. Len(t) <= Len(u) /\ \A i \in 1 .. Len(t) : t[i] = u[i]
    BY <1>3, PrefixPlaces
  <2>3. Len(s) <= Len(u) /\ \A i \in 1 .. Len(s) : s[i] = u[i]
    BY <1>1, <2>1, <2>2
  <2> QED
    BY <2>3, PrefixPlaces
<1>4. ASSUME IsPrefix(s, t), IsPrefix(t, s) PROVE s = t
  <2>1. Len(s) <= Len(t) /\ \A i \in 1 .. Len(s) : s[i] = t[i]
    BY <1>4, PrefixPlaces
  <2>2. Len(t) <= Len(s)
    BY <1>4, PrefixPlaces
  <2> QED
    BY <1>1, <2>1, <2>2, SamePlaces
<1>5. ASSUME IsPrefix(s, u), IsPrefix(t, u) PROVE IsPrefix(s, t) \/ IsPrefix(t, s)
  <2>1. /\ Len(s) <= Len(u) /\ \A i \in 1 .. Len(s) : s[i] = u[i]
        /\ Len(t) <= Len(u) /\ \A i \in 1 .. Len(t) : t[i] = u[i]
    BY <1>5, PrefixPlaces
  <2>2. CASE Len(s) <= Len(t)
    <3>1. \A i \in 1 .. Len(s) : s[i] = t[i]
      BY <1>1, <2>1, <2>2
    <3> QED
      BY <2>2, <3>1, PrefixPlaces
  <2>3. CASE Len(t) <= Len(s)
    <3>1. \A i \in 1 .. Len(t) : t[i] = s[i]
      BY <1>1, <2>1, <2>3
    <3> QED
      BY <2>3, <3>1, PrefixPlaces
  <2> QED
    BY <1>1, <2>2, <2>3
<1> QED
  BY <1>2, <1>3, <1>4, <1>5

\* A sequence and what it is continued with.
LEMMA Continued ==
  ASSUME NEW s \in Path, NEW t \in Path, NEW a \in ActorIds, NEW b \in ActorIds
  PROVE  /\ Append(s, a) \in Path /\ IsPrefix(s, Append(s, a)) /\ ~IsPrefix(Append(s, a), s)
         /\ IsPrefix(Append(s, a), Append(s, b)) => a = b
         /\ IsPrefix(t, Append(s, a)) => IsPrefix(t, s) \/ t = Append(s, a)
<1>1. Len(s) \in Nat /\ Len(t) \in Nat
  BY LenProperties DEF Path
<1>2. \A c \in ActorIds :
        /\ Append(s, c) \in Path /\ Len(Append(s, c)) = Len(s) + 1
        /\ Append(s, c)[Len(s) + 1] = c /\ \A i \in 1 .. Len(s) : Append(s, c)[i] = s[i]
  BY AppendProperties DEF Path
<1> DEFINE x(c) == Append(s, c)
<1>3. \A c \in ActorIds : /\ x(c) \in Path /\ Len(x(c)) = Len(s) + 1
                          /\ x(c)[Len(s) + 1] = c /\ \A i \in 1 .. Len(s) : x(c)[i] = s[i]
  BY <1>2
<1> HIDE DEF x
<1>4. IsPrefix(s, x(a))
  <2>1. Len(s) <= Len(x(a)) /\ \A i \in 1 .. Len(s) : s[i] = x(a)[i]
    BY <1>1, <1>3
  <2> QED
    BY <1>3, <2>1, PrefixPlaces
<1>5. ~IsPrefix(x(a), s)
  <2>1. ~(Len(x(a)) <= Len(s))
    BY <1>1, <1>3
  <2> QED
    BY <1>3, <2>1, PrefixPlaces
<1>6. ASSUME IsPrefix(x(a), x(b)) PROVE a = b
  <2>1. \A i \in 1 .. Len(x(a)) : x(a)[i] = x(b)[i]
    BY <1>3, <1>6, PrefixPlaces
  <2>2. Len(s) + 1 \in 1 .. Len(x(a))
    BY <1>1, <1>3
  <2> QED
    BY <1>3, <2>1, <2>2
<1>7. ASSUME IsPrefix(t, x(a)) PROVE IsPrefix(t, s) \/ t = x(a)
  <2>1. Len(t) <= Len(s) + 1 /\ \A i \in 1 .. Len(t) : t[i] = x(a)[i]
    BY <1>3, <1>7, PrefixPlaces
  <2>2. CASE Len(t) <= Len(s)
    <3>1. \A i \in 1 .. Len(t) : t[i] = s[i]
      BY <1>1, <1>3, <2>1, <2>2
    <3> QED
      BY <2>2, <3>1, PrefixPlaces
  <2>3. CASE Len(t) = Len(s) + 1
    <3>1. Len(t) = Len(x(a))
      BY <1>3, <2>3
    <3> QED
      BY <1>3, <2>1, <3>1, SamePlaces
  <2> QED
    BY <1>1, <2>1, <2>2, <2>3
<1> QED
  BY <1>3, <1>4, <1>5, <1>6, <1>7 DEF x

\* A sequence that continues another does so with some actor.
LEMMA NextActor ==
  ASSUME NEW s \in Path, NEW t \in Path, IsPrefix(s, t), s # t
  PROVE  \E c \in ActorIds : IsPrefix(Append(s, c), t)
<1>1. Len(s) \in Nat /\ Len(t) \in Nat
  BY LenProperties DEF Path
<1> DEFINE x(c) == Append(s, c)
<1>2. \A c \in ActorIds : /\ x(c) \in Path /\ Len(x(c)) = Len(s) + 1
                          /\ x(c)[Len(s) + 1] = c /\ \A i \in 1 .. Len(s) : x(c)[i] = s[i]
  BY AppendProperties DEF Path
<1> HIDE DEF x
<1>3. \E c \in ActorIds : IsPrefix(x(c), t)
  <2>1. Len(s) <= Len(t) /\ \A i \in 1 .. Len(s) : s[i] = t[i]
    BY PrefixPlaces
  <2>2. Len(s) # Len(t)
    BY <2>1, SamePlaces
  <2>3. Len(s) + 1 \in 1 .. Len(t)
    BY <1>1, <2>1, <2>2
  <2> DEFINE c == t[Len(s) + 1]
  <2>4. c \in ActorIds
    BY <2>3, ElementOfSeq DEF Path
  <2> HIDE DEF c
  <2>5. Len(x(c)) <= Len(t)
    BY <1>1, <1>2, <2>3, <2>4
  <2>6. ASSUME NEW i \in 1 .. Len(x(c)) PROVE x(c)[i] = t[i]
    <3>1. i \in 1 .. Len(s) \/ i = Len(s) + 1
      BY <1>1, <1>2, <2>4
    <3> QED
      BY <1>2, <2>1, <2>4, <3>1 DEF c
  <2> QED
    BY <1>2, <2>4, <2>5, <2>6, PrefixPlaces
<1> QED
  BY <1>3 DEF x

---------------------------------------------------------------------------
(* Counting *)

\* A set that is listed without repetition has as many members as the list.
LEMMA ListedOnce ==
  ASSUME NEW n \in Nat, NEW S, NEW f \in [1 .. n -> S],
         \A i, j \in 1 .. n : f[i] = f[j] => i = j, \A x \in S : \E i \in 1 .. n : f[i] = x
  PROVE  IsFiniteSet(S) /\ Cardinality(S) = n
<1>1. f \in Bijection(1 .. n, S)
  BY DEF Bijection, Injection, Surjection, IsInjective
<1>2. IsFiniteSet(1 .. n) /\ Cardinality(1 .. n) = n
  BY FS_Interval
<1>3. ExistsBijection(1 .. n, S)
  BY <1>1 DEF ExistsBijection
<1> QED
  BY <1>2, <1>3, FS_Bijection

\* The place of a number in a finite set, counted from the greatest.
Rank(A, a) == Cardinality({b \in A : b > a})

\* Ranks are below the size of the set, and a greater number has a smaller rank.
LEMMA RankFacts ==
  ASSUME NEW A \in SUBSET Nat, IsFiniteSet(A), NEW a \in A
  PROVE  /\ Rank(A, a) \in Nat /\ Rank(A, a) < Cardinality(A)
         /\ \A b \in A : a < b => Rank(A, b) < Rank(A, a)
<1> DEFINE above(x) == {b \in A : b > x}
<1>1. \A x \in A : IsFiniteSet(above(x)) /\ Cardinality(above(x)) \in Nat
  BY FS_Subset, FS_CardinalityType
<1>2. Cardinality(A) \in Nat
  BY FS_CardinalityType
<1>3. IsFiniteSet(A \ {a}) /\ Cardinality(A \ {a}) = Cardinality(A) - 1
  BY FS_RemoveElement
<1>4. Cardinality(above(a)) <= Cardinality(A \ {a})
  <2>1. above(a) \in SUBSET (A \ {a})
    OBVIOUS
  <2> HIDE DEF above
  <2> QED
    BY <1>3, <2>1, FS_Subset
<1>5. ASSUME NEW b \in A, a < b PROVE Cardinality(above(b)) < Cardinality(above(a))
  <2>0. \A x \in A : x > b => x > a /\ x # b
    BY <1>5
  <2>1. above(b) \in SUBSET (above(a) \ {b}) /\ b \in above(a)
    BY <1>5, <2>0
  <2> HIDE DEF above
  <2>2. IsFiniteSet(above(a) \ {b}) /\ Cardinality(above(a) \ {b}) = Cardinality(above(a)) - 1
    BY <1>1, <2>1, FS_RemoveElement
  <2>3. Cardinality(above(b)) <= Cardinality(above(a) \ {b})
    BY <2>1, <2>2, FS_Subset
  <2> QED
    BY <1>1, <2>2, <2>3
<1>6. Rank(A, a) = Cardinality(above(a)) /\ \A b \in A : Rank(A, b) = Cardinality(above(b))
  BY DEF Rank
<1> HIDE DEF above
<1> QED
  BY <1>1, <1>2, <1>3, <1>4, <1>5, <1>6

\* Descending lists the actors of a set, each once.
LEMMA DescendingLists ==
  ASSUME NEW A \in SUBSET ActorIds
  PROVE  /\ Cardinality(A) \in Nat /\ Descending(A) \in [1 .. Cardinality(A) -> A]
         /\ \A i, j \in 1 .. Cardinality(A) : Descending(A)[i] = Descending(A)[j] => i = j
         /\ \A a \in A : \E i \in 1 .. Cardinality(A) : Descending(A)[i] = a
<1> DEFINE n == Cardinality(A)
           r == [a \in A |-> Rank(A, a) + 1]
<1>1. A \in SUBSET Nat /\ IsFiniteSet(A)
  BY SearchAssumption, FS_Subset
<1>2. n \in Nat
  BY <1>1, FS_CardinalityType
<1>3. \A a \in A : Rank(A, a) \in Nat /\ Rank(A, a) < n
  BY <1>1, RankFacts
<1>4. \A a, b \in A : Rank(A, a) = Rank(A, b) => a = b
  <2> SUFFICES ASSUME NEW a \in A, NEW b \in A, Rank(A, a) = Rank(A, b), a # b PROVE FALSE
    OBVIOUS
  <2>1. a < b => Rank(A, b) < Rank(A, a)
    BY <1>1, RankFacts
  <2>2. b < a => Rank(A, a) < Rank(A, b)
    BY <1>1, RankFacts
  <2>3. a < b \/ b < a
    BY <1>1
  <2> QED
    BY <1>3, <2>1, <2>2, <2>3
<1> HIDE DEF n
<1>5. r \in Injection(A, 1 .. n)
  <2>1. r \in [A -> 1 .. n]
    BY <1>2, <1>3
  <2>2. ASSUME NEW a \in A, NEW b \in A, r[a] = r[b] PROVE a = b
    BY <1>3, <1>4, <2>2
  <2> HIDE DEF r
  <2> QED
    BY <2>1, <2>2 DEF Injection, IsInjective
<1>6. r \in Surjection(A, 1 .. n)
  <2> HIDE DEF r
  <2>1. IsFiniteSet(1 .. n) /\ Cardinality(1 .. n) = n
    BY <1>2, FS_Interval
  <2>2. Cardinality(A) = Cardinality(1 .. n)
    BY <2>1 DEF n
  <2> QED
    BY <1>5, <2>1, <2>2, FS_Injection
<1>7. ASSUME NEW i \in 1 .. n PROVE \E a \in A : Rank(A, a) = i - 1
  <2>1. PICK a \in A : r[a] = i
    BY <1>6 DEF Surjection
  <2>2. Rank(A, a) + 1 = i
    BY <2>1
  <2> QED
    BY <1>3, <2>2
<1> DEFINE d == Descending(A)
<1>8. /\ d = [i \in 1 .. n |-> CHOOSE a \in A : Rank(A, a) = i - 1]
  BY DEF Descending, Rank, n
<1> HIDE DEF d, r
<1>9. \A i \in 1 .. n : d[i] \in A /\ Rank(A, d[i]) = i - 1
  BY <1>7, <1>8
<1>10. d \in [1 .. n -> A]
  BY <1>8, <1>9
<1>11. ASSUME NEW i \in 1 .. n, NEW j \in 1 .. n, d[i] = d[j] PROVE i = j
  <2>1. i - 1 = j - 1
    BY <1>9, <1>11
  <2> QED
    BY <1>2, <2>1
<1>12. ASSUME NEW a \in A PROVE \E i \in 1 .. n : d[i] = a
  <2>1. Rank(A, a) + 1 \in 1 .. n /\ (Rank(A, a) + 1) - 1 = Rank(A, a)
    BY <1>2, <1>3
  <2> DEFINE i == Rank(A, a) + 1
  <2>2. i \in 1 .. n /\ i - 1 = Rank(A, a)
    BY <2>1
  <2> HIDE DEF i
  <2>3. d[i] \in A /\ Rank(A, d[i]) = Rank(A, a)
    BY <1>9, <2>2
  <2> QED
    BY <1>4, <2>2, <2>3
<1> QED
  BY <1>2, <1>10, <1>11, <1>12 DEF n, d

---------------------------------------------------------------------------
(* The invariant *)

Points == {"loop", "factory", "acquired", "replay", "cleanup", "retain", "branch",
           "end", "recheck", "over"}
LocalsType ==
  [pc : Points, complete : BOOLEAN, evidence : BOOLEAN, exceeded : BOOLEAN,
   runs : Nat, terminals : Nat, deadlocks : Nat, reason : StopReasons]
Coherent(s) == s.complete <=> s.reason = ""
RunType ==
  [prefix : Path, cleanup : CleanupResults, stage : {"none", "factory", "execution"},
   overrun : BOOLEAN, outcome : {"none", "completed", "controlled_deadlock", "failed"}]
RowType == [prefix : Path, cleanup : CleanupResults, kept : BOOLEAN, sound : BOOLEAN]

\* The search is over, but for the receipt.
Ending == {"end", "recheck", "over"}
\* What the prefix in hand, the stack and the attempts are to each other.
Apart ==
  /\ \A i \in DOMAIN prefixes : prefixes[i] \in Tree
  /\ Explored \subseteq Tree /\ InHand \subseteq Tree
  /\ \A i, j \in DOMAIN prefixes : IsPrefix(prefixes[i], prefixes[j]) => i = j
  /\ \A node \in Explored, i \in DOMAIN prefixes : ~IsPrefix(prefixes[i], node)
  /\ \A p \in InHand, i \in DOMAIN prefixes : ~IsPrefix(prefixes[i], p) /\ ~IsPrefix(p, prefixes[i])
  /\ \A p \in InHand, node \in Explored : IsPrefix(p, node) => locals.pc = "branch" /\ node = p
  /\ \A i, j \in DOMAIN attempts : attempts[i].prefix = attempts[j].prefix => i = j
Below(node) ==
  \/ node \in Explored
  \/ \E p \in InHand : IsPrefix(p, node)
  \/ \E i \in DOMAIN prefixes : IsPrefix(prefixes[i], node)
Frontier == Apart /\ \A node \in Tree : Below(node)

\* The leaves that were counted, and what every attempt was.
LeavesPassed(dead) == {l \in app.leaves : (l.deadlock <=> dead) /\ l.path \in Explored \ InHand}
Tallied ==
  /\ locals.deadlocks = Cardinality(LeavesPassed(TRUE)) /\ locals.terminals = Cardinality(LeavesPassed(FALSE))
  /\ \A i \in DOMAIN attempts :
       attempts[i].cleanup = "confirmed" /\ attempts[i].kept /\ attempts[i].sound

\* What an attempt has come to, if the search was not stopped.
Underway ==
  /\ locals.pc \in {"acquired", "replay"} => run.stage = "execution"
  /\ locals.pc = "branch" => /\ locals.complete /\ run.prefix \in Explored
  /\ locals.complete /\ locals.pc \in {"cleanup", "retain", "branch"} =>
       /\ run.stage = "execution"
       /\ run.outcome # "failed" => (run.outcome = "controlled_deadlock" <=> Deadlocked(run.prefix))
  /\ locals.complete /\ locals.pc \in {"retain", "branch"} =>
       run.cleanup = "confirmed" /\ ~run.overrun /\ run.outcome # "failed"
  /\ locals.complete /\ locals.pc \in Ending => prefixes = <<>>
  /\ result = "complete" => locals.complete /\ locals.pc \in Ending

\* The attempts and their rows.
Accounted ==
  /\ Len(attempts) + (IF locals.pc \in {"factory", "acquired", "replay", "cleanup", "retain"} THEN 1 ELSE 0)
       = locals.runs
  /\ locals.pc \notin Ending =>
       retained = <<>> /\ \A i \in DOMAIN attempts : attempts[i].cleanup = "confirmed"
  /\ AttemptsAccounted

PrefixInv ==
  /\ PrefixTypeOK /\ Underway /\ Accounted
  /\ locals.complete => Frontier /\ Tallied

---------------------------------------------------------------------------
(* Types *)

\* The types of the parts of the state.
LEMMA TypeFacts ==
  ASSUME PrefixTypeOK
  PROVE  /\ app \in Apps /\ late \in BOOLEAN /\ prefixes \in Seq(Path) /\ locals \in LocalsType
         /\ Coherent(locals) /\ locals.runs <= app.runs /\ run \in RunType
         /\ attempts \in Seq(RowType) /\ retained \in Seq(Path)
         /\ result \in {"none", "complete", "incomplete"}
<1>1. app.runs \in Nat
  BY SearchAssumption DEF PrefixTypeOK
<1>2. locals.runs \in 0 .. app.runs /\ Coherent(locals)
  BY DEF PrefixTypeOK, Coherent
<1>3. locals \in LocalsType
  <2> DEFINE R == 0 .. app.runs
  <2>1. \A n \in R : n \in Nat
    BY <1>1
  <2>2. locals \in [pc : Points, complete : BOOLEAN, evidence : BOOLEAN, exceeded : BOOLEAN,
                    runs : R, terminals : Nat, deadlocks : Nat, reason : StopReasons]
    BY DEF PrefixTypeOK, Points
  <2> HIDE DEF R
  <2> QED
    BY <2>1, <2>2 DEF LocalsType
<1>4. run \in RunType
  BY DEF PrefixTypeOK, RunType, Path
<1>5. locals.runs <= app.runs
  BY <1>1, <1>2
<1>6. attempts \in Seq(RowType)
  BY DEF PrefixTypeOK, RowType, Path
<1> QED
  BY <1>2, <1>3, <1>4, <1>5, <1>6 DEF PrefixTypeOK, Path

\* ... and back.
LEMMA TypeBack ==
  ASSUME app \in Apps, late \in BOOLEAN, prefixes \in Seq(Path), locals \in LocalsType,
         Coherent(locals), locals.runs <= app.runs, run \in RunType,
         attempts \in Seq(RowType), retained \in Seq(Path),
         result \in {"none", "complete", "incomplete"}
  PROVE  PrefixTypeOK
<1>1. app.runs \in Nat
  BY SearchAssumption
<1>2. locals.runs \in 0 .. app.runs
  BY <1>1 DEF LocalsType
<1> QED
  BY <1>2 DEF PrefixTypeOK, LocalsType, Points, Coherent, RunType, RowType, Path

\* ... and back, for the state after a step.
LEMMA TypeAfter ==
  ASSUME app' \in Apps, late' \in BOOLEAN, prefixes' \in Seq(Path), locals' \in LocalsType,
         Coherent(locals'), locals'.runs <= app'.runs, run' \in RunType,
         attempts' \in Seq(RowType), retained' \in Seq(Path),
         result' \in {"none", "complete", "incomplete"}
  PROVE  PrefixTypeOK'
<1>1. app'.runs \in Nat
  BY SearchAssumption
<1>2. locals'.runs \in 0 .. app'.runs
  BY <1>1 DEF LocalsType
<1> QED
  BY <1>2 DEF PrefixTypeOK, LocalsType, Points, Coherent, RunType, RowType, Path

\* The types of the fields of the locals.
LEMMA LocalsFacts ==
  ASSUME NEW s \in LocalsType
  PROVE  /\ s.pc \in Points /\ s.complete \in BOOLEAN /\ s.evidence \in BOOLEAN
         /\ s.exceeded \in BOOLEAN /\ s.runs \in Nat /\ s.terminals \in Nat
         /\ s.deadlocks \in Nat /\ s.reason \in StopReasons
BY DEF LocalsType

\* The types of the fields of an attempt.
LEMMA RunFacts ==
  ASSUME NEW r \in RunType
  PROVE  /\ r.prefix \in Path /\ r.cleanup \in CleanupResults
         /\ r.stage \in {"none", "factory", "execution"} /\ r.overrun \in BOOLEAN
         /\ r.outcome \in {"none", "completed", "controlled_deadlock", "failed"}
BY DEF RunType

\* stop() leaves the rest alone.
LEMMA StoppedFacts ==
  ASSUME NEW s \in LocalsType, Coherent(s), NEW why \in StopReasons \ {""}
  PROVE  /\ Stopped(s, why) \in LocalsType /\ Coherent(Stopped(s, why)) /\ ~Stopped(s, why).complete
         /\ Stopped(s, why).runs = s.runs
<1> DEFINE x == IF s.reason = "" THEN why ELSE s.reason
<1>1. x \in StopReasons \ {""}
  BY DEF LocalsType
<1>2. Stopped(s, why) = [s EXCEPT !.complete = FALSE, !.reason = x]
  BY DEF Stopped
<1> HIDE DEF x
<1> QED
  BY <1>1, <1>2 DEF LocalsType, Coherent

\* expired() stops the search or does nothing.
LEMMA CheckedFacts ==
  ASSUME NEW s \in LocalsType, Coherent(s), late \in BOOLEAN
  PROVE  /\ Checked(s) \in LocalsType /\ Coherent(Checked(s)) /\ Checked(s).runs = s.runs
         /\ Checked(s).complete <=> s.complete /\ ~late
         /\ ~late => Checked(s) = s
<1>1. CASE late
  <2> DEFINE u == [s EXCEPT !.exceeded = TRUE]
  <2>1. u \in LocalsType /\ Coherent(u) /\ u.runs = s.runs
    BY DEF LocalsType, Coherent
  <2>2. "total_timeout" \in StopReasons \ {""}
    BY DEF StopReasons
  <2>3. Checked(s) = Stopped(u, "total_timeout")
    BY <1>1 DEF Checked
  <2> HIDE DEF u
  <2> QED
    BY <1>1, <2>1, <2>2, <2>3, StoppedFacts
<1>2. CASE ~late
  BY <1>2 DEF Checked
<1> QED
  BY <1>1, <1>2

\* A change of the place in the code only.
LEMMA GotoFacts ==
  ASSUME NEW s \in LocalsType, Coherent(s), NEW point \in Points, Goto(s, point)
  PROVE  /\ locals' \in LocalsType /\ Coherent(locals') /\ locals'.pc = point
         /\ locals'.complete = s.complete /\ locals'.runs = s.runs
         /\ locals'.terminals = s.terminals /\ locals'.deadlocks = s.deadlocks
<1>1. locals' = [s EXCEPT !.pc = point]
  BY DEF Goto
<1> QED
  BY <1>1 DEF LocalsType, Coherent

---------------------------------------------------------------------------
(* The tree *)

\* The tree consists of the prefixes of maximal decision sequences.
LEMMA TreeFacts ==
  ASSUME app \in Apps
  PROVE  /\ Paths \subseteq Path /\ Paths \subseteq Tree /\ Tree \subseteq Path /\ <<>> \in Tree
         /\ \A node \in Path : node \in Tree <=> \E p \in Paths : IsPrefix(node, p)
<1>1. Paths \subseteq Path /\ Paths # {}
  BY SearchAssumption DEF Paths, Path
<1>2. ASSUME NEW p \in Paths, NEW n \in 0 .. Len(p)
      PROVE  SubSeq(p, 1, n) \in Path /\ IsPrefix(SubSeq(p, 1, n), p)
  <2>1. p \in Path /\ Len(p) \in Nat
    BY <1>1, LenProperties DEF Path
  <2> DEFINE s == SubSeq(p, 1, n)
  <2>2. s \in Path /\ Len(s) = n /\ \A i \in 1 .. n : s[i] = p[i]
    BY <2>1 DEF Path
  <2> HIDE DEF s
  <2>3. Len(s) <= Len(p) /\ \A i \in 1 .. Len(s) : s[i] = p[i]
    BY <2>1, <2>2
  <2> QED
    BY <2>1, <2>2, <2>3, PrefixPlaces DEF s
<1>3. ASSUME NEW node \in Tree PROVE node \in Path /\ \E p \in Paths : IsPrefix(node, p)
  <2>1. PICK p \in Paths : \E n \in 0 .. Len(p) : node = SubSeq(p, 1, n)
    BY DEF Tree
  <2> QED
    BY <1>2, <2>1
<1>4. ASSUME NEW node \in Path, NEW p \in Paths, IsPrefix(node, p) PROVE node \in Tree
  <2>1. p \in Path /\ Len(p) \in Nat /\ Len(node) \in Nat
    BY <1>1, LenProperties DEF Path
  <2>2. Len(node) <= Len(p) /\ \A i \in 1 .. Len(node) : node[i] = p[i]
    BY <1>4, <2>1, PrefixPlaces
  <2> DEFINE s == SubSeq(p, 1, Len(node))
  <2>3. Len(node) \in 0 .. Len(p)
    BY <2>1, <2>2
  <2>4. s \in Path /\ Len(s) = Len(node) /\ \A i \in 1 .. Len(node) : s[i] = p[i]
    BY <2>1, <2>3 DEF Path
  <2> HIDE DEF s
  <2>5. s = node
    BY <2>2, <2>4, SamePlaces
  <2>6. node = SubSeq(p, 1, Len(node))
    BY <2>5 DEF s
  <2>7. node \in {SubSeq(p, 1, n) : n \in 0 .. Len(p)}
    BY <2>3, <2>6
  <2> QED
    BY <2>7 DEF Tree
<1>5. ASSUME NEW p \in Paths PROVE p \in Tree /\ <<>> \in Tree
  <2>1. p \in Path /\ <<>> \in Path /\ Len(p) \in Nat /\ Len(<<>>) = 0
    BY <1>1, EmptySeq, LenProperties DEF Path
  <2>2. IsPrefix(p, p)
    BY <2>1, PrefixOrder
  <2>3. IsPrefix(<<>>, p)
    <3> DEFINE e == <<>>
    <3>1. e \in Path /\ Len(e) = 0
      BY <2>1
    <3> HIDE DEF e
    <3>2. Len(e) <= Len(p) /\ \A i \in 1 .. Len(e) : e[i] = p[i]
      BY <2>1, <3>1
    <3>3. IsPrefix(e, p)
      BY <2>1, <3>1, <3>2, PrefixPlaces
    <3> QED
      BY <3>3 DEF e
  <2> QED
    BY <1>4, <2>1, <2>2, <2>3
<1> QED
  BY <1>1, <1>3, <1>4, <1>5

\* Everything that is waiting, in hand or explored is a path.
LEMMA NodeFacts ==
  ASSUME PrefixTypeOK
  PROVE  /\ \A i \in DOMAIN prefixes : prefixes[i] \in Path
         /\ DOMAIN prefixes = 1 .. Len(prefixes) /\ Len(prefixes) \in Nat
         /\ \A i \in DOMAIN attempts : attempts[i] \in RowType /\ attempts[i].prefix \in Path
         /\ DOMAIN attempts = 1 .. Len(attempts) /\ Len(attempts) \in Nat
         /\ Explored \subseteq Path /\ InHand \subseteq Path /\ run.prefix \in Path
<1>1. prefixes \in Seq(Path) /\ attempts \in Seq(RowType) /\ run.prefix \in Path
  BY TypeFacts, RunFacts
<1>2. /\ DOMAIN prefixes = 1 .. Len(prefixes) /\ Len(prefixes) \in Nat
      /\ DOMAIN attempts = 1 .. Len(attempts) /\ Len(attempts) \in Nat
  BY <1>1, LenProperties
<1>3. \A i \in DOMAIN prefixes : prefixes[i] \in Path
  BY <1>1, <1>2, ElementOfSeq
<1>4. \A i \in DOMAIN attempts : attempts[i] \in RowType
  BY <1>1, <1>2, ElementOfSeq
<1>5. \A i \in DOMAIN attempts : attempts[i].prefix \in Path
  BY <1>4 DEF RowType
<1> QED
  BY <1>1, <1>2, <1>3, <1>4, <1>5 DEF Explored, InHand

\* The search begins with the root.
LEMMA InitStep == PrefixInit => PrefixInv
<1> SUFFICES ASSUME PrefixInit PROVE PrefixInv
  OBVIOUS
<1>1. /\ app \in Apps /\ late = FALSE /\ prefixes = << <<>> >> /\ run = NoRun /\ attempts = <<>>
      /\ retained = <<>> /\ result = "none"
      /\ locals = [pc |-> "loop", complete |-> TRUE, evidence |-> TRUE, exceeded |-> FALSE,
                   runs |-> 0, terminals |-> 0, deadlocks |-> 0, reason |-> ""]
  BY DEF PrefixInit
<1>2. <<>> \in Path /\ app.runs \in Nat
  BY <1>1, EmptySeq, SearchAssumption DEF Path
<1>3. /\ prefixes \in Seq(Path) /\ Len(prefixes) = 1 /\ prefixes[1] = <<>> /\ DOMAIN prefixes = {1}
  <2> DEFINE e == <<>>
  <2>1. e \in Path /\ prefixes = <<e>>
    BY <1>1, <1>2
  <2> HIDE DEF e
  <2>2. prefixes \in Seq(Path) /\ Len(prefixes) = 1 /\ prefixes[1] = e
    BY <2>1
  <2>3. DOMAIN prefixes = 1 .. 1
    BY <2>2, LenProperties
  <2> QED
    BY <2>2, <2>3 DEF e
<1>4. locals \in LocalsType /\ Coherent(locals) /\ locals.runs <= app.runs
  <2>1. locals.runs = 0 /\ locals.complete = TRUE /\ locals.reason = ""
    BY <1>1
  <2>2. locals \in LocalsType
    BY <1>1 DEF LocalsType, Points, StopReasons
  <2>3. Coherent(locals)
    BY <2>1 DEF Coherent
  <2>4. locals.runs <= app.runs
    <3>1. app.runs \in Nat
      BY <1>2
    <3>2. locals.runs = 0
      BY <2>1
    <3> QED
      BY <3>1, <3>2
  <2> QED
    BY <2>2, <2>3, <2>4
<1>5. run \in RunType
  BY <1>1, <1>2 DEF RunType, NoRun, CleanupResults
<1>6. attempts \in Seq(RowType) /\ retained \in Seq(Path) /\ Len(attempts) = 0 /\ DOMAIN attempts = {}
  <2>1. attempts \in Seq(RowType) /\ retained \in Seq(Path) /\ Len(attempts) = 0
    BY <1>1, EmptySeq
  <2>2. DOMAIN attempts = 1 .. 0
    BY <2>1, LenProperties
  <2> QED
    BY <2>1, <2>2
<1>7. PrefixTypeOK
  BY <1>1, <1>3, <1>4, <1>5, <1>6, TypeBack
<1>8. Explored = {} /\ InHand = {}
  BY <1>1, <1>6 DEF Explored, InHand
<1>9. Underway
  BY <1>1 DEF Underway, Ending
<1>10. Accounted
  <2>1. locals.pc = "loop" /\ locals.runs = 0
    BY <1>1
  <2>2. AttemptsAccounted
    BY <1>1, <1>6, <2>1 DEF AttemptsAccounted
  <2>3. Len(attempts) + (IF locals.pc \in {"factory", "acquired", "replay", "cleanup", "retain"}
                         THEN 1 ELSE 0) = locals.runs
    BY <1>6, <2>1
  <2>4. retained = <<>> /\ \A i \in DOMAIN attempts : attempts[i].cleanup = "confirmed"
    BY <1>1, <1>6
  <2> QED
    BY <2>2, <2>3, <2>4 DEF Accounted
<1>11. Apart
  BY <1>1, <1>3, <1>6, <1>8, TreeFacts DEF Apart
<1>12. ASSUME NEW node \in Tree PROVE Below(node)
  <2>1. node \in Path
    BY <1>1, TreeFacts
  <2> DEFINE e == prefixes[1]
  <2>2. e \in Path /\ Len(e) = 0 /\ 1 \in DOMAIN prefixes
    BY <1>2, <1>3
  <2> HIDE DEF e
  <2>3. Len(node) \in Nat
    BY <2>1, LenProperties DEF Path
  <2>4. Len(e) <= Len(node) /\ \A i \in 1 .. Len(e) : e[i] = node[i]
    BY <2>2, <2>3
  <2>5. IsPrefix(e, node)
    BY <2>1, <2>2, <2>4, PrefixPlaces
  <2> QED
    BY <2>2, <2>5 DEF Below, e
<1>13. Tallied
  <2>1. LeavesPassed(TRUE) = {} /\ LeavesPassed(FALSE) = {}
    BY <1>8 DEF LeavesPassed
  <2> QED
    BY <1>1, <1>6, <2>1, FS_EmptySet DEF Tallied
<1> QED
  BY <1>7, <1>9, <1>10, <1>11, <1>12, <1>13 DEF PrefixInv, Frontier

\* A step that leaves the stack, the attempts and the prefix in hand alone.
LEMMA QuietStep ==
  ASSUME Frontier, Tallied, UNCHANGED <<app, prefixes, attempts>>, InHand' = InHand,
         locals.pc = "branch" => locals'.pc = "branch",
         locals'.terminals = locals.terminals, locals'.deadlocks = locals.deadlocks
  PROVE  Frontier' /\ Tallied'
<1>1. Explored' = Explored /\ Tree' = Tree
  BY DEF Explored, Tree, Paths
<1>2. LeavesPassed(TRUE)' = LeavesPassed(TRUE) /\ LeavesPassed(FALSE)' = LeavesPassed(FALSE)
  BY <1>1 DEF LeavesPassed
<1>3. Tallied'
  BY <1>2 DEF Tallied
<1>4. Apart'
  BY <1>1 DEF Frontier, Apart
<1>5. (\A node \in Tree : Below(node))'
  BY <1>1 DEF Frontier, Below
<1> QED
  BY <1>3, <1>4, <1>5 DEF Frontier

---------------------------------------------------------------------------
(* An attempt, up to its row *)

Attempting == {"factory", "acquired", "replay", "cleanup", "retain"}

\* A step of an attempt that only moves on or stops the search.
LEMMA AttemptStep ==
  ASSUME PrefixInv, locals.pc \in Attempting, NEW s \in LocalsType, Coherent(s),
         s.runs = locals.runs, s.complete => s = locals, NEW point \in Attempting,
         Goto(s, point), run' \in RunType, run'.prefix = run.prefix,
         UNCHANGED <<app, late, prefixes, attempts, retained, result>>, Underway'
  PROVE  PrefixInv'
<1>1. PrefixTypeOK /\ Accounted
  BY DEF PrefixInv
<1>2. point \in Points
  BY DEF Attempting, Points
<1>3. /\ locals' \in LocalsType /\ Coherent(locals') /\ locals'.pc = point
      /\ locals'.complete = s.complete /\ locals'.runs = s.runs
      /\ locals'.terminals = s.terminals /\ locals'.deadlocks = s.deadlocks
  BY <1>2, GotoFacts
<1>4. PrefixTypeOK'
  <2>1. locals'.runs <= app'.runs
    BY <1>1, <1>3, TypeFacts
  <2> QED
    BY <1>1, <1>3, <2>1, TypeFacts, TypeAfter
<1>5. Accounted'
  <2>1. /\ Len(attempts) + 1 = locals.runs /\ retained = <<>>
        /\ \A i \in DOMAIN attempts : attempts[i].cleanup = "confirmed"
    BY <1>1 DEF Accounted, Attempting, Ending
  <2>2. Len(attempts') + 1 = locals'.runs /\ retained' = <<>> /\ locals'.pc \in Attempting
    BY <1>3, <2>1
  <2>3. AttemptsAccounted'
    BY <2>1, <2>2 DEF AttemptsAccounted, Attempting
  <2>4. locals'.pc \in {"factory", "acquired", "replay", "cleanup", "retain"}
    BY <2>2 DEF Attempting
  <2>5. Len(attempts') + (IF locals'.pc \in {"factory", "acquired", "replay", "cleanup", "retain"}
                          THEN 1 ELSE 0) = locals'.runs
    BY <2>2, <2>4
  <2>6. retained' = <<>> /\ \A i \in DOMAIN attempts' : attempts'[i].cleanup = "confirmed"
    BY <2>1, <2>2
  <2> QED
    BY <2>3, <2>5, <2>6 DEF Accounted
<1>6. ASSUME locals'.complete PROVE Frontier' /\ Tallied'
  <2>1. s = locals /\ locals.complete
    BY <1>3, <1>6
  <2>2. Frontier /\ Tallied
    BY <2>1 DEF PrefixInv
  <2>3. InHand' = InHand
    BY <1>3 DEF InHand, Attempting
  <2>4. locals.pc # "branch"
    BY DEF Attempting
  <2> QED
    BY <1>3, <2>1, <2>2, <2>3, <2>4, QuietStep
<1> QED
  BY <1>4, <1>5, <1>6 DEF PrefixInv

\* The factory's execution is taken over, or there is none.
LEMMA FactoryStep == ASSUME PrefixInv, NEW ok \in BOOLEAN, Factory(ok) PROVE PrefixInv'
<1> DEFINE u == IF ok THEN locals ELSE Stopped(locals, "factory_failed")
           s == Checked(u)
<1>1. PrefixTypeOK /\ Underway /\ locals.pc = "factory"
      /\ UNCHANGED <<app, late, prefixes, attempts, retained, result>>
  BY DEF PrefixInv, Factory
<1>2. locals \in LocalsType /\ Coherent(locals) /\ run \in RunType /\ late \in BOOLEAN
  BY <1>1, TypeFacts
<1>3. u \in LocalsType /\ Coherent(u) /\ u.runs = locals.runs /\ (u.complete => ok)
  <2>1. "factory_failed" \in StopReasons \ {""}
    BY DEF StopReasons
  <2> QED
    BY <1>2, <2>1, StoppedFacts
<1>4. /\ IF ok /\ ~late THEN Goto(s, "acquired") /\ run' = [run EXCEPT !.stage = "execution"]
         ELSE Goto(s, "retain") /\ run' = [run EXCEPT !.stage = "factory"]
  BY DEF Factory
<1>5. ok => u = locals
  OBVIOUS
<1> HIDE DEF u
<1>6. /\ s \in LocalsType /\ Coherent(s) /\ s.runs = locals.runs
      /\ (s.complete <=> u.complete /\ ~late) /\ (~late => s = u)
  BY <1>2, <1>3, CheckedFacts
<1> HIDE DEF s
<1>7. CASE ok /\ ~late
  <2>1. Goto(s, "acquired") /\ s = locals /\ "acquired" \in Points
    BY <1>4, <1>5, <1>6, <1>7 DEF Points
  <2>2. run' \in RunType /\ run'.prefix = run.prefix /\ run'.stage = "execution"
    BY <1>2, <1>4, <1>7 DEF RunType
  <2>3. locals'.pc = "acquired"
    BY <1>2, <2>1, GotoFacts
  <2>4. Underway'
    BY <1>1, <2>2, <2>3 DEF Underway, Ending
  <2> QED
    BY <1>1, <1>6, <2>1, <2>2, <2>4, AttemptStep DEF Attempting
<1>8. CASE ~(ok /\ ~late)
  <2>1. Goto(s, "retain") /\ ~s.complete /\ "retain" \in Points
    BY <1>2, <1>3, <1>4, <1>6, <1>8 DEF Points
  <2>2. run' \in RunType /\ run'.prefix = run.prefix
    BY <1>2, <1>4, <1>8 DEF RunType
  <2>3. locals'.pc = "retain" /\ ~locals'.complete
    BY <1>6, <2>1, GotoFacts
  <2>4. Underway'
    BY <1>1, <2>2, <2>3 DEF Underway, Ending
  <2> QED
    BY <1>1, <1>6, <2>1, <2>2, <2>4, AttemptStep DEF Attempting
<1> QED
  BY <1>7, <1>8

\* The clock is looked at before the replay.
LEMMA AcquireStep == ASSUME PrefixInv, Acquire PROVE PrefixInv'
<1>1. /\ PrefixTypeOK /\ Underway /\ locals.pc = "acquired" /\ Goto(Checked(locals), "replay")
      /\ UNCHANGED <<app, late, prefixes, run, attempts, retained, result>>
  BY DEF PrefixInv, Acquire
<1>2. locals \in LocalsType /\ Coherent(locals) /\ run \in RunType /\ late \in BOOLEAN
  BY <1>1, TypeFacts
<1> DEFINE s == Checked(locals)
<1>3. /\ s \in LocalsType /\ Coherent(s) /\ s.runs = locals.runs
      /\ (s.complete <=> locals.complete /\ ~late) /\ (~late => s = locals)
  BY <1>2, CheckedFacts
<1>4. Goto(s, "replay") /\ "replay" \in Points
  BY <1>1 DEF Points
<1> HIDE DEF s
<1>5. locals'.pc = "replay"
  BY <1>3, <1>4, GotoFacts
<1>6. Underway'
  BY <1>1, <1>5 DEF Underway, Ending
<1> QED
  BY <1>1, <1>2, <1>3, <1>4, <1>6, AttemptStep DEF Attempting

\* The replay ends as the application does, or fails.
LEMMA ReplayStep == ASSUME PrefixInv, NEW fails \in BOOLEAN, ReplayPrefix(fails) PROVE PrefixInv'
<1> DEFINE s == Checked(locals)
           o == IF fails THEN "failed"
                ELSE IF s.complete /\ Deadlocked(run.prefix) THEN "controlled_deadlock" ELSE "completed"
<1>1. /\ PrefixTypeOK /\ Underway /\ locals.pc = "replay" /\ Goto(s, "cleanup")
      /\ run' = [run EXCEPT !.outcome = o]
      /\ UNCHANGED <<app, late, prefixes, attempts, retained, result>>
  BY DEF PrefixInv, ReplayPrefix
<1>2. locals \in LocalsType /\ Coherent(locals) /\ run \in RunType /\ late \in BOOLEAN
  BY <1>1, TypeFacts
<1>3. /\ s \in LocalsType /\ Coherent(s) /\ s.runs = locals.runs
      /\ (s.complete <=> locals.complete /\ ~late) /\ (~late => s = locals)
  BY <1>2, CheckedFacts
<1>4. /\ o \in {"none", "completed", "controlled_deadlock", "failed"}
      /\ s.complete /\ o # "failed" => (o = "controlled_deadlock" <=> Deadlocked(run.prefix))
  OBVIOUS
<1> HIDE DEF s, o
<1>5. /\ run' \in RunType /\ run'.prefix = run.prefix /\ run'.stage = "execution" /\ run'.outcome = o
  BY <1>1, <1>2, <1>4 DEF RunType, Underway
<1>6. locals'.pc = "cleanup" /\ locals'.complete = s.complete
  BY <1>1, <1>3, GotoFacts DEF Points
<1>7. Deadlocked(run.prefix)' <=> Deadlocked(run.prefix)
  BY <1>1, <1>5 DEF Deadlocked
<1>8. Underway'
  BY <1>1, <1>4, <1>5, <1>6, <1>7 DEF Underway, Ending
<1> QED
  BY <1>1, <1>3, <1>5, <1>8, AttemptStep DEF Attempting

\* A cleanup that is not confirmed, or late, or of a failed replay, stops the search.
LEMMA CleanupStep ==
  ASSUME PrefixInv, NEW c \in CleanupResults, NEW overrun \in BOOLEAN, Cleanup(c, overrun)
  PROVE  PrefixInv'
<1> DEFINE u == Checked(locals)
           s == AfterCleanup(u, c, overrun)
<1>1. /\ PrefixTypeOK /\ Underway /\ locals.pc = "cleanup" /\ Goto(s, "retain")
      /\ run' = [run EXCEPT !.cleanup = c, !.overrun = overrun]
      /\ UNCHANGED <<app, late, prefixes, attempts, retained, result>>
  BY DEF PrefixInv, Cleanup
<1>2. locals \in LocalsType /\ Coherent(locals) /\ run \in RunType /\ late \in BOOLEAN
  BY <1>1, TypeFacts
<1>3. /\ u \in LocalsType /\ Coherent(u) /\ u.runs = locals.runs
      /\ (u.complete <=> locals.complete /\ ~late) /\ (~late => u = locals)
  BY <1>2, CheckedFacts
<1> HIDE DEF u
<1>4. /\ s \in LocalsType /\ Coherent(s) /\ s.runs = locals.runs
      /\ s.complete => s = u /\ c = "confirmed" /\ ~overrun /\ run.outcome # "failed"
  <2>1. {"cleanup_incomplete", "callback_timeout", "execution_failed"} \subseteq StopReasons \ {""}
    BY DEF StopReasons
  <2>2. CASE c # "confirmed" \/ overrun \/ run.outcome = "failed"
    <3>1. PICK why \in {"cleanup_incomplete", "callback_timeout", "execution_failed"} :
            s = Stopped(u, why)
      BY <2>2 DEF AfterCleanup
    <3> HIDE DEF s
    <3> QED
      BY <1>3, <2>1, <3>1, StoppedFacts
  <2>3. CASE ~(c # "confirmed" \/ overrun \/ run.outcome = "failed")
    BY <1>3, <2>3 DEF AfterCleanup
  <2> QED
    BY <2>2, <2>3
<1> HIDE DEF s
<1>5. /\ run' \in RunType /\ run'.prefix = run.prefix /\ run'.stage = run.stage
      /\ run'.outcome = run.outcome /\ run'.cleanup = c /\ run'.overrun = overrun
  BY <1>1, <1>2 DEF RunType
<1>6. locals'.pc = "retain" /\ locals'.complete = s.complete
  BY <1>1, <1>4, GotoFacts DEF Points
<1>7. Deadlocked(run.prefix)' <=> Deadlocked(run.prefix)
  BY <1>1, <1>5 DEF Deadlocked
<1>8. s.complete => s = locals /\ locals.complete
  BY <1>2, <1>3, <1>4
<1>9. Underway'
  BY <1>1, <1>4, <1>5, <1>6, <1>7, <1>8 DEF Underway, Ending
<1> QED
  BY <1>1, <1>4, <1>5, <1>8, <1>9, AttemptStep DEF Attempting

---------------------------------------------------------------------------
(* The end of the search *)

\* A step towards the receipt.
LEMMA EndingStep ==
  ASSUME PrefixInv, locals.pc \in Ending \cup {"loop", "branch"}, NEW s \in LocalsType, Coherent(s),
         s.runs = locals.runs, s.complete => s = locals /\ locals.pc # "branch",
         NEW point \in Ending, Goto(s, point), result' \in {"none", "complete", "incomplete"},
         UNCHANGED <<app, late, prefixes, run, attempts, retained>>, Underway'
  PROVE  PrefixInv'
<1>1. PrefixTypeOK /\ Accounted
  BY DEF PrefixInv
<1>2. point \in Points
  BY DEF Ending, Points
<1>3. /\ locals' \in LocalsType /\ Coherent(locals') /\ locals'.pc = point
      /\ locals'.complete = s.complete /\ locals'.runs = s.runs
      /\ locals'.terminals = s.terminals /\ locals'.deadlocks = s.deadlocks
  BY <1>2, GotoFacts
<1>4. PrefixTypeOK'
  <2>1. locals'.runs <= app'.runs
    BY <1>1, <1>3, TypeFacts
  <2> QED
    BY <1>1, <1>3, <2>1, TypeFacts, TypeAfter
<1>5. Accounted'
  <2>1. locals.pc \notin {"factory", "acquired", "replay", "cleanup", "retain"}
    BY DEF Ending
  <2>2. Len(attempts) + 0 = locals.runs
    BY <1>1, <2>1 DEF Accounted
  <2>3. Len(attempts') + 0 = locals'.runs /\ locals'.runs = locals.runs
    BY <1>3, <2>2
  <2>4. locals'.pc \notin {"factory", "acquired", "replay", "cleanup", "retain"} /\ locals'.pc \in Ending
    BY <1>3 DEF Ending
  <2>5. Len(attempts') = locals'.runs
    <3>1. Len(attempts') \in Nat
      BY <1>1, NodeFacts
    <3> QED
      BY <2>3, <3>1
  <2>6. AttemptsAccounted'
    BY <1>1, <2>3, <2>5 DEF Accounted, AttemptsAccounted
  <2> QED
    BY <2>3, <2>4, <2>6 DEF Accounted
<1>6. ASSUME locals'.complete PROVE Frontier' /\ Tallied'
  <2>1. s = locals /\ locals.complete /\ locals.pc # "branch"
    BY <1>3, <1>6
  <2>2. Frontier /\ Tallied
    BY <2>1 DEF PrefixInv
  <2>3. InHand' = InHand
    BY <1>3, <2>1 DEF InHand, Ending
  <2> QED
    BY <1>3, <2>1, <2>2, <2>3, QuietStep
<1> QED
  BY <1>4, <1>5, <1>6 DEF PrefixInv

\* The receipt is made.
LEMMA ReportStep == ASSUME PrefixInv, Report PROVE PrefixInv'
<1> DEFINE s == Checked(locals)
<1>1. /\ PrefixTypeOK /\ Underway /\ locals.pc = "end" /\ Goto(s, "recheck")
      /\ result' = Verdict(s) /\ UNCHANGED <<app, late, prefixes, run, attempts, retained>>
  BY DEF PrefixInv, Report
<1>2. locals \in LocalsType /\ Coherent(locals) /\ late \in BOOLEAN
  BY <1>1, TypeFacts
<1>3. /\ s \in LocalsType /\ Coherent(s) /\ s.runs = locals.runs
      /\ (s.complete <=> locals.complete /\ ~late) /\ (~late => s = locals)
  BY <1>2, CheckedFacts
<1> HIDE DEF s
<1>4. locals'.pc = "recheck" /\ locals'.complete = s.complete
  BY <1>1, <1>3, GotoFacts DEF Points
<1>5. result' \in {"complete", "incomplete"} /\ (result' = "complete" => s.complete)
  BY <1>1 DEF Verdict
<1>6. Underway'
  BY <1>1, <1>3, <1>4, <1>5 DEF Underway, Ending
<1> QED
  BY <1>1, <1>2, <1>3, <1>5, <1>6, EndingStep DEF Ending

\* The clock is looked at once more.
LEMMA RecheckStep == ASSUME PrefixInv, Recheck PROVE PrefixInv'
<1> DEFINE s == Checked(locals)
<1>1. /\ PrefixTypeOK /\ Underway /\ locals.pc = "recheck" /\ Goto(s, "over")
      /\ result' = (IF late THEN Verdict(s) ELSE result)
      /\ UNCHANGED <<app, late, prefixes, run, attempts, retained>>
  BY DEF PrefixInv, Recheck
<1>2. locals \in LocalsType /\ Coherent(locals) /\ late \in BOOLEAN
      /\ result \in {"none", "complete", "incomplete"}
  BY <1>1, TypeFacts
<1>3. /\ s \in LocalsType /\ Coherent(s) /\ s.runs = locals.runs
      /\ (s.complete <=> locals.complete /\ ~late) /\ (~late => s = locals)
  BY <1>2, CheckedFacts
<1> HIDE DEF s
<1>4. locals'.pc = "over" /\ locals'.complete = s.complete
  BY <1>1, <1>3, GotoFacts DEF Points
<1>5. result' \in {"none", "complete", "incomplete"} /\ (result' = "complete" => s.complete)
  <2>1. CASE late
    BY <1>1, <2>1 DEF Verdict
  <2>2. CASE ~late
    BY <1>1, <1>2, <1>3, <2>2 DEF Underway
  <2> QED
    BY <2>1, <2>2
<1>6. Underway'
  BY <1>1, <1>3, <1>4, <1>5 DEF Underway, Ending
<1> QED
  BY <1>1, <1>2, <1>3, <1>5, <1>6, EndingStep DEF Ending

\* The deadline changes nothing by itself, and neither does a step of someone else.
LEMMA PassiveStep ==
  ASSUME PrefixInv, late' \in BOOLEAN,
         UNCHANGED <<app, prefixes, locals, run, attempts, retained, result>>
  PROVE  PrefixInv'
<1>1. PrefixTypeOK'
  <2>1. PrefixTypeOK
    BY DEF PrefixInv
  <2> QED
    BY <2>1, TypeFacts, TypeAfter
<1>3. Underway'
  <2>1. Explored' = Explored /\ (Deadlocked(run.prefix)' <=> Deadlocked(run.prefix))
    BY DEF Explored, Deadlocked
  <2> QED
    BY <2>1 DEF PrefixInv, Underway, Ending
<1>4. Accounted'
  BY DEF PrefixInv, Accounted, AttemptsAccounted, Ending
<1>2. ASSUME locals'.complete PROVE Frontier' /\ Tallied'
  <2>1. Frontier /\ Tallied
    BY <1>2 DEF PrefixInv
  <2>2. InHand' = InHand
    BY DEF InHand
  <2> QED
    BY <2>1, <2>2, QuietStep
<1> QED
  BY <1>1, <1>2, <1>3, <1>4 DEF PrefixInv

---------------------------------------------------------------------------
(* The stack *)

\* Taking the last prefix of the stack.
LEMMA Popped ==
  ASSUME NEW s \in Seq(Path), s # <<>>
  PROVE  /\ Len(s) \in Nat /\ Len(s) \in DOMAIN s /\ Last(s) = s[Len(s)] /\ Last(s) \in Path
         /\ Front(s) \in Seq(Path) /\ DOMAIN Front(s) = 1 .. Len(s) - 1
         /\ \A i \in DOMAIN Front(s) : i \in DOMAIN s /\ Front(s)[i] = s[i] /\ i # Len(s)
         /\ \A i \in DOMAIN s : i = Len(s) \/ i \in DOMAIN Front(s)
<1>1. Len(s) \in Nat /\ Len(s) # 0 /\ DOMAIN s = 1 .. Len(s)
  BY LenProperties, EmptySeq
<1> DEFINE n == Len(s) - 1
           f == SubSeq(s, 1, n)
<1>2. n \in Nat /\ n <= Len(s)
  BY <1>1
<1>3. f \in Seq(Path) /\ Len(f) = n /\ \A i \in 1 .. n : f[i] = s[i]
  <2> HIDE DEF n
  <2> QED
    BY <1>1, <1>2
<1> HIDE DEF f
<1>4. DOMAIN f = 1 .. n
  BY <1>3, LenProperties
<1>5. Len(s) \in DOMAIN s /\ s[Len(s)] \in Path
  BY <1>1, ElementOfSeq
<1>6. /\ \A i \in 1 .. n : i \in 1 .. Len(s) /\ i # Len(s)
      /\ \A i \in 1 .. Len(s) : i = Len(s) \/ i \in 1 .. n
  <2> DEFINE N == Len(s)
  <2>1. N \in Nat /\ n = N - 1
    BY <1>1
  <2> HIDE DEF N, n
  <2>2. /\ \A i \in 1 .. n : i \in 1 .. N /\ i # N
        /\ \A i \in 1 .. N : i = N \/ i \in 1 .. n
    BY <2>1
  <2> QED
    BY <2>2 DEF N
<1>8. Front(s) = f /\ Last(s) = s[Len(s)]
  BY DEF Front, Last, f
<1> QED
  BY <1>1, <1>3, <1>4, <1>5, <1>6, <1>8

\* The prefix that is taken off the stack becomes the one in hand.
LEMMA PopFrontier ==
  ASSUME PrefixTypeOK, Frontier, Tallied, locals.pc = "loop", locals'.pc = "factory", prefixes # <<>>,
         prefixes' = Front(prefixes), run'.prefix = Last(prefixes), UNCHANGED <<app, attempts>>,
         locals'.terminals = locals.terminals, locals'.deadlocks = locals.deadlocks
  PROVE  Frontier' /\ Tallied'
<1> DEFINE top == Len(prefixes)
<1>1. prefixes \in Seq(Path) /\ app \in Apps
  BY TypeFacts
<1>2. /\ top \in DOMAIN prefixes /\ Last(prefixes) = prefixes[top]
      /\ \A i \in DOMAIN prefixes' : i \in DOMAIN prefixes /\ prefixes'[i] = prefixes[i] /\ i # top
      /\ \A i \in DOMAIN prefixes : i = top \/ i \in DOMAIN prefixes'
  BY <1>1, Popped
<1> HIDE DEF top
<1>3. Explored' = Explored /\ Tree' = Tree /\ InHand = {} /\ InHand' = {prefixes[top]}
  BY <1>2 DEF Explored, Tree, Paths, InHand
<1>4. Apart
  BY DEF Frontier
<1>5. /\ prefixes[top] \in Tree /\ \A node \in Explored : ~IsPrefix(prefixes[top], node)
      /\ \A i \in DOMAIN prefixes' : /\ ~IsPrefix(prefixes[i], prefixes[top])
                                     /\ ~IsPrefix(prefixes[top], prefixes[i])
  BY <1>2, <1>4 DEF Apart
<1>6. Apart'
  <2>1. (\A i \in DOMAIN prefixes : prefixes[i] \in Tree)'
    BY <1>2, <1>3, <1>4 DEF Apart
  <2>2. Explored' \subseteq Tree' /\ InHand' \subseteq Tree'
    BY <1>3, <1>4, <1>5 DEF Apart
  <2>3. (\A i, j \in DOMAIN prefixes : IsPrefix(prefixes[i], prefixes[j]) => i = j)'
    BY <1>2, <1>4 DEF Apart
  <2>4. (\A node \in Explored, i \in DOMAIN prefixes : ~IsPrefix(prefixes[i], node))'
    BY <1>2, <1>3, <1>4 DEF Apart
  <2>5. (\A p \in InHand, i \in DOMAIN prefixes : ~IsPrefix(prefixes[i], p) /\ ~IsPrefix(p, prefixes[i]))'
    BY <1>2, <1>3, <1>5
  <2>6. (\A p \in InHand, node \in Explored : IsPrefix(p, node) => locals.pc = "branch" /\ node = p)'
    BY <1>3, <1>5
  <2>7. (\A i, j \in DOMAIN attempts : attempts[i].prefix = attempts[j].prefix => i = j)'
    BY <1>4 DEF Apart
  <2> QED
    BY <2>1, <2>2, <2>3, <2>4, <2>5, <2>6, <2>7 DEF Apart
<1>7. (\A node \in Tree : Below(node))'
  <2> SUFFICES ASSUME NEW node \in Tree PROVE Below(node)'
    BY <1>3
  <2>1. node \in Explored \/ \E i \in DOMAIN prefixes : IsPrefix(prefixes[i], node)
    BY <1>3 DEF Frontier, Below
  <2> QED
    BY <1>2, <1>3, <2>1 DEF Below
<1>8. Tallied'
  <2>1. Explored' \ InHand' = Explored \ InHand
    <3>1. prefixes[top] \notin Explored
      <4>1. prefixes[top] \in Path
        BY <1>1, <1>5, TreeFacts
      <4>2. IsPrefix(prefixes[top], prefixes[top])
        BY <4>1, PrefixOrder
      <4> QED
        BY <1>5, <4>2
    <3> QED
      BY <1>3, <3>1
  <2>2. LeavesPassed(TRUE)' = LeavesPassed(TRUE) /\ LeavesPassed(FALSE)' = LeavesPassed(FALSE)
    BY <2>1 DEF LeavesPassed
  <2> QED
    BY <2>2 DEF Tallied
<1> QED
  BY <1>6, <1>7, <1>8 DEF Frontier

\* The loop takes the next prefix, or ends.
LEMMA PopStep == ASSUME PrefixInv, Pop PROVE PrefixInv'
<1> DEFINE s == Checked(locals)
           why == IF late THEN "total_timeout" ELSE IF s.runs >= app.runs THEN "run_bound"
                  ELSE IF Len(prefixes) > app.waiting THEN "prefix_bound" ELSE ""
           t == [s EXCEPT !.runs = s.runs + 1]
<1>1. /\ PrefixTypeOK /\ Underway /\ Accounted /\ locals.pc = "loop"
      /\ UNCHANGED <<app, late, attempts, retained, result>>
  BY DEF PrefixInv, Pop
<1>2. /\ locals \in LocalsType /\ Coherent(locals) /\ late \in BOOLEAN /\ app \in Apps
      /\ result \in {"none", "complete", "incomplete"} /\ prefixes \in Seq(Path)
  BY <1>1, TypeFacts
<1>3. /\ s \in LocalsType /\ Coherent(s) /\ s.runs = locals.runs
      /\ (s.complete <=> locals.complete /\ ~late) /\ (~late => s = locals)
  BY <1>2, CheckedFacts
<1>4. /\ prefixes = <<>> => Goto(locals, "end") /\ UNCHANGED <<prefixes, run>>
      /\ prefixes # <<>> /\ why # "" => Goto(Stopped(s, why), "end") /\ UNCHANGED <<prefixes, run>>
      /\ prefixes # <<>> /\ why = "" => /\ Goto(t, "factory") /\ prefixes' = Front(prefixes)
                                        /\ run' = [NoRun EXCEPT !.prefix = Last(prefixes)]
  BY DEF Pop
<1>5. why \in StopReasons /\ (why = "" => ~late /\ ~(s.runs >= app.runs))
  BY DEF StopReasons
<1> HIDE DEF s, why
<1>6. CASE prefixes = <<>>
  <2>1. Goto(locals, "end") /\ UNCHANGED <<prefixes, run>>
    BY <1>4, <1>6
  <2>2. locals'.pc = "end" /\ locals'.complete = locals.complete
    BY <1>2, <2>1, GotoFacts DEF Points
  <2>3. Underway'
    BY <1>1, <1>6, <2>1, <2>2 DEF Underway, Ending
  <2> QED
    BY <1>1, <1>2, <2>1, <2>3, EndingStep DEF Ending
<1>7. CASE prefixes # <<>> /\ why # ""
  <2> DEFINE u == Stopped(s, why)
  <2>1. Goto(u, "end") /\ UNCHANGED <<prefixes, run>>
    BY <1>4, <1>7
  <2>2. u \in LocalsType /\ Coherent(u) /\ ~u.complete /\ u.runs = locals.runs
    BY <1>3, <1>5, <1>7, StoppedFacts
  <2> HIDE DEF u
  <2>3. locals'.pc = "end" /\ locals'.complete = u.complete
    BY <2>1, <2>2, GotoFacts DEF Points
  <2>4. Underway'
    BY <1>1, <2>1, <2>2, <2>3 DEF Underway, Ending
  <2> QED
    BY <1>1, <1>2, <2>1, <2>2, <2>4, EndingStep DEF Ending
<1>8. CASE prefixes # <<>> /\ why = ""
  <2>1. /\ Goto(t, "factory") /\ prefixes' = Front(prefixes)
        /\ run' = [NoRun EXCEPT !.prefix = Last(prefixes)] /\ s = locals /\ ~(locals.runs >= app.runs)
    BY <1>3, <1>4, <1>5, <1>8
  <2>2. /\ t \in LocalsType /\ Coherent(t) /\ t.runs = locals.runs + 1 /\ t.complete = locals.complete
        /\ t.terminals = locals.terminals /\ t.deadlocks = locals.deadlocks
    <3>1. t = [locals EXCEPT !.runs = locals.runs + 1] /\ locals.runs + 1 \in Nat
      BY <1>2, <2>1, LocalsFacts
    <3> HIDE DEF t
    <3> QED
      BY <1>2, <3>1 DEF LocalsType, Coherent
  <2> HIDE DEF t
  <2>3. /\ locals' \in LocalsType /\ Coherent(locals') /\ locals'.pc = "factory"
        /\ locals'.complete = locals.complete /\ locals'.runs = locals.runs + 1
        /\ locals'.terminals = locals.terminals /\ locals'.deadlocks = locals.deadlocks
    BY <2>1, <2>2, GotoFacts DEF Points
  <2>4. Last(prefixes) \in Path /\ Front(prefixes) \in Seq(Path)
    BY <1>2, <1>8, Popped
  <2>5. run' \in RunType /\ run'.prefix = Last(prefixes)
    <3> DEFINE q == Last(prefixes)
    <3>1. run' = [NoRun EXCEPT !.prefix = q] /\ q \in Path
      BY <2>1, <2>4
    <3> HIDE DEF q
    <3>2. run' \in RunType /\ run'.prefix = q
      BY <3>1 DEF NoRun, RunType, CleanupResults
    <3> QED
      BY <3>2 DEF q
  <2>6. PrefixTypeOK'
    <3>1. locals'.runs <= app'.runs
      <4>1. locals.runs \in Nat /\ app.runs \in Nat
        BY <1>2, LocalsFacts, SearchAssumption
      <4> QED
        BY <1>1, <2>1, <2>3, <4>1
    <3> QED
      BY <1>1, <2>1, <2>3, <2>4, <2>5, <3>1, TypeFacts, TypeAfter
  <2>7. Underway'
    BY <1>1, <2>3 DEF Underway, Ending
  <2>8. Accounted'
    <3>1. /\ Len(attempts) + 0 = locals.runs /\ retained = <<>>
          /\ \A i \in DOMAIN attempts : attempts[i].cleanup = "confirmed"
      BY <1>1 DEF Accounted, Ending
    <3>2. Len(attempts') + 1 = locals'.runs
      <4>1. Len(attempts) \in Nat
        BY <1>1, NodeFacts
      <4> QED
        BY <1>1, <2>3, <3>1, <4>1
    <3>3. AttemptsAccounted'
      BY <1>1, <2>3, <3>1 DEF AttemptsAccounted
    <3> QED
      BY <1>1, <2>3, <3>1, <3>2, <3>3 DEF Accounted
  <2>9. ASSUME locals'.complete PROVE Frontier' /\ Tallied'
    <3>1. Frontier /\ Tallied
      BY <2>3, <2>9 DEF PrefixInv
    <3> QED
      BY <1>1, <1>8, <2>1, <2>3, <2>5, <3>1, PopFrontier
  <2> QED
    BY <2>6, <2>7, <2>8, <2>9 DEF PrefixInv
<1> QED
  BY <1>6, <1>7, <1>8

---------------------------------------------------------------------------
(* The row of an attempt *)

\* A row more is a prefix more.
LEMMA RowAdded ==
  ASSUME PrefixTypeOK, NEW row \in RowType, attempts' = Append(attempts, row)
  PROVE  /\ attempts' \in Seq(RowType) /\ Len(attempts') = Len(attempts) + 1
         /\ DOMAIN attempts' = 1 .. Len(attempts) + 1 /\ attempts'[Len(attempts) + 1] = row
         /\ \A i \in DOMAIN attempts : i \in DOMAIN attempts' /\ attempts'[i] = attempts[i]
         /\ \A i \in DOMAIN attempts' : i \in DOMAIN attempts \/ i = Len(attempts) + 1
         /\ Explored' = Explored \cup {row.prefix}
<1>1. attempts \in Seq(RowType) /\ DOMAIN attempts = 1 .. Len(attempts) /\ Len(attempts) \in Nat
  BY TypeFacts, NodeFacts
<1>2. /\ attempts' \in Seq(RowType) /\ Len(attempts') = Len(attempts) + 1
      /\ attempts'[Len(attempts) + 1] = row
      /\ \A i \in 1 .. Len(attempts) : attempts'[i] = attempts[i]
  BY <1>1, AppendProperties
<1>3. DOMAIN attempts' = 1 .. Len(attempts) + 1
  BY <1>2, LenProperties
<1>4. /\ \A i \in 1 .. Len(attempts) : i \in 1 .. Len(attempts) + 1
      /\ \A i \in 1 .. Len(attempts) + 1 : i \in 1 .. Len(attempts) \/ i = Len(attempts) + 1
      /\ Len(attempts) + 1 \in 1 .. Len(attempts) + 1
  BY <1>1
<1>5. Explored' = Explored \cup {row.prefix}
  <2>1. Explored' = {attempts'[i].prefix : i \in DOMAIN attempts'}
    BY DEF Explored
  <2>2. \A i \in DOMAIN attempts' : attempts'[i].prefix \in Explored \cup {row.prefix}
    BY <1>1, <1>2, <1>3, <1>4 DEF Explored
  <2>3. \A i \in DOMAIN attempts : attempts[i].prefix \in Explored'
    BY <1>1, <1>2, <1>3, <1>4, <2>1
  <2>4. row.prefix \in Explored'
    BY <1>2, <1>3, <1>4, <2>1
  <2> QED
    BY <2>1, <2>2, <2>3, <2>4 DEF Explored
<1> QED
  BY <1>1, <1>2, <1>3, <1>4, <1>5

\* The prefix in hand is explored.
LEMMA RowFrontier ==
  ASSUME PrefixTypeOK, Frontier, Tallied, NEW row \in RowType, attempts' = Append(attempts, row),
         row.prefix = run.prefix, row.cleanup = "confirmed", row.kept, row.sound,
         locals.pc = "retain", locals'.pc = "branch", UNCHANGED <<app, prefixes, run>>,
         locals'.terminals = locals.terminals, locals'.deadlocks = locals.deadlocks
  PROVE  Frontier' /\ Tallied'
<1> DEFINE p == run.prefix
<1>1. /\ DOMAIN attempts' = 1 .. Len(attempts) + 1 /\ attempts'[Len(attempts) + 1] = row
      /\ \A i \in DOMAIN attempts : i \in DOMAIN attempts' /\ attempts'[i] = attempts[i]
      /\ \A i \in DOMAIN attempts' : i \in DOMAIN attempts \/ i = Len(attempts) + 1
      /\ Explored' = Explored \cup {p}
  BY RowAdded
<1>2. Tree' = Tree /\ InHand = {p} /\ InHand' = {p}
  BY DEF Tree, Paths, InHand
<1>3. Apart /\ p \in Path
  BY NodeFacts DEF Frontier
<1>4. IsPrefix(p, p)
  BY <1>3, PrefixOrder
<1> HIDE DEF p
<1>5. p \notin Explored /\ \A node \in Explored : ~IsPrefix(p, node)
  BY <1>2, <1>3, <1>4 DEF Apart
<1>6. Apart'
  <2>1. (\A i \in DOMAIN prefixes : prefixes[i] \in Tree)'
    BY <1>2, <1>3 DEF Apart
  <2>2. Explored' \subseteq Tree' /\ InHand' \subseteq Tree'
    BY <1>1, <1>2, <1>3 DEF Apart
  <2>3. (\A i, j \in DOMAIN prefixes : IsPrefix(prefixes[i], prefixes[j]) => i = j)'
    BY <1>3 DEF Apart
  <2>4. (\A node \in Explored, i \in DOMAIN prefixes : ~IsPrefix(prefixes[i], node))'
    BY <1>1, <1>2, <1>3 DEF Apart
  <2>5. (\A q \in InHand, i \in DOMAIN prefixes : ~IsPrefix(prefixes[i], q) /\ ~IsPrefix(q, prefixes[i]))'
    BY <1>2, <1>3 DEF Apart
  <2>6. (\A q \in InHand, node \in Explored : IsPrefix(q, node) => locals.pc = "branch" /\ node = q)'
    BY <1>1, <1>2, <1>5
  <2>7. (\A i, j \in DOMAIN attempts : attempts[i].prefix = attempts[j].prefix => i = j)'
    <3>1. \A i \in DOMAIN attempts : attempts'[i].prefix \in Explored
      BY <1>1 DEF Explored
    <3>2. attempts'[Len(attempts) + 1].prefix \notin Explored
      BY <1>1, <1>5 DEF p
    <3>3. \A i, j \in DOMAIN attempts : attempts'[i].prefix = attempts'[j].prefix => i = j
      BY <1>1, <1>3 DEF Apart
    <3> QED
      BY <1>1, <3>1, <3>2, <3>3
  <2> QED
    BY <2>1, <2>2, <2>3, <2>4, <2>5, <2>6, <2>7 DEF Apart
<1>7. (\A node \in Tree : Below(node))'
  BY <1>1, <1>2 DEF Frontier, Below
<1>8. Tallied'
  <2>1. Explored' \ InHand' = Explored \ InHand
    BY <1>1, <1>2
  <2>2. LeavesPassed(TRUE)' = LeavesPassed(TRUE) /\ LeavesPassed(FALSE)' = LeavesPassed(FALSE)
    BY <2>1 DEF LeavesPassed
  <2>3. (\A i \in DOMAIN attempts :
           attempts[i].cleanup = "confirmed" /\ attempts[i].kept /\ attempts[i].sound)'
    BY <1>1 DEF Tallied
  <2> QED
    BY <2>2, <2>3 DEF Tallied
<1> QED
  BY <1>6, <1>7, <1>8 DEF Frontier

\* The row is kept or left out; an attempt that is not confirmed is the last.
LEMMA RetainStep == ASSUME PrefixInv, NEW fits \in BOOLEAN, Retain(fits) PROVE PrefixInv'
<1> DEFINE v == [locals EXCEPT !.evidence = FALSE]
           s == IF fits THEN locals ELSE Stopped(v, "evidence_exhausted")
           t == IF run.stage = "execution" THEN Checked(s) ELSE s
           sound == ~late /\ ~run.overrun /\ run.outcome # "failed"
           row == [prefix |-> run.prefix, cleanup |-> run.cleanup, kept |-> fits, sound |-> sound]
           point == IF t.complete THEN "branch" ELSE "end"
<1>1. /\ PrefixTypeOK /\ Underway /\ Accounted /\ locals.pc = "retain"
      /\ attempts' = Append(attempts, row)
      /\ retained' = (IF run.cleanup = "incomplete" THEN Append(retained, run.prefix) ELSE retained)
      /\ Goto(t, point) /\ UNCHANGED <<app, late, prefixes, run, result>>
  BY DEF PrefixInv, Retain
<1>2. /\ locals \in LocalsType /\ Coherent(locals) /\ late \in BOOLEAN /\ run \in RunType
      /\ app \in Apps /\ locals.runs <= app.runs
  BY <1>1, TypeFacts
<1>3. v \in LocalsType /\ Coherent(v) /\ v.runs = locals.runs
  BY <1>2 DEF LocalsType, Coherent
<1>4. /\ s \in LocalsType /\ Coherent(s) /\ s.runs = locals.runs
      /\ s.complete => s = locals /\ fits = TRUE
  <2> HIDE DEF v
  <2>1. "evidence_exhausted" \in StopReasons \ {""}
    BY DEF StopReasons
  <2>2. CASE fits
    BY <1>2, <2>2
  <2>3. CASE ~fits
    BY <1>3, <2>1, <2>3, StoppedFacts
  <2> QED
    BY <2>2, <2>3
<1> HIDE DEF v, s
<1>5. /\ t \in LocalsType /\ Coherent(t) /\ t.runs = locals.runs
      /\ t.complete => t = locals /\ fits = TRUE /\ (run.stage = "execution" => ~late)
  <2>1. CASE run.stage = "execution"
    BY <1>2, <1>4, <2>1, CheckedFacts
  <2>2. CASE run.stage # "execution"
    BY <1>4, <2>2
  <2> QED
    BY <2>1, <2>2
<1> HIDE DEF t
<1>6. t.complete => /\ locals.complete /\ run.stage = "execution" /\ run.cleanup = "confirmed"
                    /\ ~run.overrun /\ run.outcome # "failed" /\ ~late
  BY <1>1, <1>5 DEF Underway
<1>7. sound \in BOOLEAN /\ (t.complete => sound = TRUE)
  BY <1>6
<1> HIDE DEF sound
<1>8. /\ row \in RowType /\ row.prefix = run.prefix /\ row.cleanup = run.cleanup
      /\ row.kept = fits /\ row.sound = sound
  BY <1>2, <1>7 DEF RunType, RowType
<1> HIDE DEF row
<1>9. /\ point \in Points /\ point \in {"branch", "end"} /\ (point = "branch" <=> t.complete)
  BY DEF Points
<1> HIDE DEF point
<1>10. /\ locals' \in LocalsType /\ Coherent(locals') /\ locals'.pc = point
       /\ locals'.complete = t.complete /\ locals'.runs = locals.runs
       /\ locals'.terminals = t.terminals /\ locals'.deadlocks = t.deadlocks
  BY <1>1, <1>5, <1>9, GotoFacts
<1>11. /\ attempts' \in Seq(RowType) /\ Len(attempts') = Len(attempts) + 1
       /\ attempts'[Len(attempts) + 1] = row
       /\ \A i \in DOMAIN attempts : i \in DOMAIN attempts' /\ attempts'[i] = attempts[i]
       /\ \A i \in DOMAIN attempts' : i \in DOMAIN attempts \/ i = Len(attempts) + 1
       /\ Explored' = Explored \cup {run.prefix}
  BY <1>1, <1>8, RowAdded
<1>12. /\ retained = <<>> /\ Len(attempts) + 1 = locals.runs
       /\ \A i \in DOMAIN attempts : attempts[i].cleanup = "confirmed"
  BY <1>1 DEF Accounted, Ending
<1>13. /\ retained' \in Seq(Path)
       /\ run.cleanup # "incomplete" => retained' = <<>>
       /\ run.cleanup = "incomplete" => Len(retained') = 1 /\ retained'[1] = run.prefix
  <2>1. retained = <<>> /\ <<>> \in Seq(Path) /\ run.prefix \in Path
    BY <1>2, <1>12, EmptySeq, RunFacts
  <2>2. CASE run.cleanup = "incomplete"
    <3> DEFINE q == run.prefix
    <3>1. retained' = Append(<<>>, q) /\ q \in Path
      BY <1>1, <2>1, <2>2
    <3> HIDE DEF q
    <3>2. retained' \in Seq(Path) /\ Len(retained') = 1 /\ retained'[1] = q
      BY <3>1
    <3> QED
      BY <2>2, <3>2 DEF q
  <2>3. CASE run.cleanup # "incomplete"
    BY <1>1, <2>1, <2>3
  <2> QED
    BY <2>2, <2>3
<1>14. PrefixTypeOK'
  BY <1>1, <1>2, <1>10, <1>11, <1>13, TypeFacts, TypeAfter
<1>15. Underway'
  <2>1. run.prefix \in Explored'
    BY <1>11
  <2>2. Deadlocked(run.prefix)' <=> Deadlocked(run.prefix)
    BY <1>1 DEF Deadlocked
  <2>3. result # "complete"
    BY <1>1 DEF Underway, Ending
  <2>4. /\ locals'.pc \in {"branch", "end"} /\ (locals'.pc = "branch" <=> locals'.complete)
    BY <1>9, <1>10
  <2>5. locals'.complete => locals.complete
    BY <1>6, <1>10
  <2> QED
    BY <1>1, <1>6, <1>10, <2>1, <2>2, <2>3, <2>4, <2>5 DEF Underway, Ending
<1>16. Accounted'
  <2>1. Len(attempts') = locals'.runs /\ Len(attempts') \in Nat
    BY <1>10, <1>11, <1>12, LenProperties
  <2>2. attempts'[locals'.runs] = row
    BY <1>10, <1>11, <1>12
  <2>3. \A i \in DOMAIN attempts' : attempts'[i].cleanup # "confirmed" => i = locals'.runs
    BY <1>10, <1>11, <1>12
  <2>4. retained' # <<>> => /\ Len(retained') = 1 /\ retained'[1] = attempts'[locals'.runs].prefix
                            /\ attempts'[locals'.runs].cleanup = "incomplete"
    BY <1>8, <1>13, <2>2
  <2>5. AttemptsAccounted'
    BY <2>1, <2>3, <2>4 DEF AttemptsAccounted
  <2>6. locals'.pc \notin {"factory", "acquired", "replay", "cleanup", "retain"}
    BY <1>9, <1>10
  <2>7. locals'.pc \notin Ending =>
          retained' = <<>> /\ \A i \in DOMAIN attempts' : attempts'[i].cleanup = "confirmed"
    <3> SUFFICES ASSUME locals'.pc \notin Ending
                 PROVE  retained' = <<>> /\ \A i \in DOMAIN attempts' : attempts'[i].cleanup = "confirmed"
      OBVIOUS
    <3>1. t.complete
      BY <1>9, <1>10 DEF Ending
    <3>2. row.cleanup = "confirmed" /\ run.cleanup # "incomplete"
      BY <1>6, <1>8, <3>1
    <3> QED
      BY <1>11, <1>12, <1>13, <3>2
  <2>8. Len(attempts') + 0 = locals'.runs
    BY <2>1
  <2> QED
    BY <2>5, <2>6, <2>7, <2>8 DEF Accounted
<1>17. ASSUME locals'.complete PROVE Frontier' /\ Tallied'
  <2>1. t.complete /\ t = locals
    BY <1>5, <1>10, <1>17
  <2>2. Frontier /\ Tallied
    BY <1>6, <2>1 DEF PrefixInv
  <2>3. row.cleanup = "confirmed" /\ row.kept /\ row.sound /\ locals'.pc = "branch"
    BY <1>5, <1>6, <1>7, <1>8, <1>9, <1>10, <2>1
  <2> QED
    BY <1>1, <1>8, <1>10, <2>1, <2>2, <2>3, RowFrontier
<1> QED
  BY <1>14, <1>15, <1>16, <1>17 DEF PrefixInv

---------------------------------------------------------------------------
(* The branches of a prefix *)

\* What is put on a stack, and where.
LEMMA Pushed ==
  ASSUME NEW s \in Seq(Path), NEW b \in Seq(Path)
  PROVE  /\ s \o b \in Seq(Path) /\ Len(s) \in Nat
         /\ \A k \in DOMAIN s : k \in DOMAIN (s \o b) /\ (s \o b)[k] = s[k]
         /\ \A j \in DOMAIN b : Len(s) + j \in DOMAIN (s \o b) /\ (s \o b)[Len(s) + j] = b[j]
         /\ \A k \in DOMAIN (s \o b) : k \in DOMAIN s \/ \E j \in DOMAIN b : k = Len(s) + j
<1> DEFINE c == s \o b
           n == Len(s)
           m == Len(b)
<1>1. /\ c \in Seq(Path) /\ Len(c) = n + m /\ n \in Nat /\ m \in Nat
      /\ \A i \in 1 .. n + m : c[i] = IF i <= n THEN s[i] ELSE b[i - n]
  BY ConcatProperties, LenProperties
<1>2. DOMAIN s = 1 .. n /\ DOMAIN b = 1 .. m
  BY LenProperties
<1> HIDE DEF c, n, m
<1>3. DOMAIN c = 1 .. n + m
  BY <1>1, LenProperties
<1>4. ASSUME NEW k \in 1 .. n PROVE k \in 1 .. n + m /\ c[k] = s[k]
  <2>1. k \in 1 .. n + m /\ k <= n
    BY <1>1
  <2> QED
    BY <1>1, <2>1
<1>5. ASSUME NEW j \in 1 .. m PROVE n + j \in 1 .. n + m /\ c[n + j] = b[j]
  <2>1. n + j \in 1 .. n + m /\ ~(n + j <= n) /\ (n + j) - n = j
    BY <1>1
  <2> QED
    BY <1>1, <2>1
<1>6. ASSUME NEW k \in 1 .. n + m, k \notin 1 .. n PROVE \E j \in 1 .. m : k = n + j
  <2>1. k - n \in 1 .. m /\ k = n + (k - n)
    BY <1>1, <1>6
  <2> QED
    BY <2>1
<1> QED
  BY <1>1, <1>2, <1>3, <1>4, <1>5, <1>6 DEF c, n, m

\* The branches of a prefix are its continuations in the tree, each once.
LEMMA BranchesFacts ==
  ASSUME app \in Apps, NEW p \in Path
  PROVE  /\ Branches(p) \in Seq(Path)
         /\ \A i \in DOMAIN Branches(p) : \E a \in ActorIds :
              Branches(p)[i] = Append(p, a) /\ \E q \in Paths : IsPrefix(Append(p, a), q)
         /\ \A i, j \in DOMAIN Branches(p) : IsPrefix(Branches(p)[i], Branches(p)[j]) => i = j
         /\ \A a \in ActorIds, q \in Paths :
              IsPrefix(Append(p, a), q) => \E i \in DOMAIN Branches(p) : Branches(p)[i] = Append(p, a)
<1> DEFINE E == EnabledAfter(p)
           n == Cardinality(E)
           d == Descending(E)
           B == Branches(p)
<1>1. /\ E \in SUBSET ActorIds
      /\ \A a \in ActorIds : a \in E <=> \E q \in Paths : IsPrefix(Append(p, a), q)
  BY DEF EnabledAfter
<1>2. B = [i \in DOMAIN d |-> Append(p, d[i])]
  BY DEF Branches
<1> HIDE DEF E, B
<1>3. /\ n \in Nat /\ d \in [1 .. n -> E] /\ \A i, j \in 1 .. n : d[i] = d[j] => i = j
      /\ \A a \in E : \E i \in 1 .. n : d[i] = a
  BY <1>1, DescendingLists
<1> HIDE DEF d, n
<1>4. B = [i \in 1 .. n |-> Append(p, d[i])] /\ DOMAIN B = 1 .. n
  BY <1>2, <1>3
<1>5. \A i \in 1 .. n : d[i] \in ActorIds /\ d[i] \in E /\ B[i] = Append(p, d[i])
  BY <1>1, <1>3, <1>4
<1>6. \A i \in 1 .. n : B[i] \in Path
  BY <1>5, Continued
<1>7. B \in Seq(Path)
  BY <1>3, <1>4, <1>6
<1>8. ASSUME NEW i \in 1 .. n, NEW j \in 1 .. n, IsPrefix(B[i], B[j]) PROVE i = j
  <2>1. IsPrefix(Append(p, d[i]), Append(p, d[j]))
    BY <1>5, <1>8
  <2>2. d[i] = d[j]
    BY <1>5, <2>1, Continued
  <2> QED
    BY <1>3, <2>2
<1>9. ASSUME NEW a \in ActorIds, NEW q \in Paths, IsPrefix(Append(p, a), q)
      PROVE  \E i \in 1 .. n : B[i] = Append(p, a)
  <2>1. a \in E
    BY <1>1, <1>9
  <2>2. PICK i \in 1 .. n : d[i] = a
    BY <1>3, <2>1
  <2> QED
    BY <1>5, <2>2
<1>10. \A i \in 1 .. n : \E a \in ActorIds :
         B[i] = Append(p, a) /\ \E q \in Paths : IsPrefix(Append(p, a), q)
  BY <1>1, <1>5
<1> QED
  BY <1>4, <1>7, <1>8, <1>9, <1>10 DEF B

\* A prefix that does not end the execution is replaced by its branches.
LEMMA PushFrontier ==
  ASSUME PrefixTypeOK, Frontier, Tallied, locals.pc = "branch", locals'.pc = "loop",
         run.prefix \in Explored, ~IsLeaf(run.prefix), prefixes' = prefixes \o Branches(run.prefix),
         UNCHANGED <<app, attempts, run>>,
         locals'.terminals = locals.terminals, locals'.deadlocks = locals.deadlocks
  PROVE  Frontier' /\ Tallied'
<1> DEFINE p == run.prefix
           B == Branches(p)
           n == Len(prefixes)
<1>1. /\ prefixes \in Seq(Path) /\ app \in Apps /\ p \in Path /\ Apart
      /\ \A i \in DOMAIN prefixes : prefixes[i] \in Path
      /\ Explored \subseteq Path
  BY TypeFacts, NodeFacts DEF Frontier
<1>2. /\ B \in Seq(Path)
      /\ \A i \in DOMAIN B : \E a \in ActorIds :
           B[i] = Append(p, a) /\ \E q \in Paths : IsPrefix(Append(p, a), q)
      /\ \A i, j \in DOMAIN B : IsPrefix(B[i], B[j]) => i = j
      /\ \A a \in ActorIds, q \in Paths :
           IsPrefix(Append(p, a), q) => \E i \in DOMAIN B : B[i] = Append(p, a)
  BY <1>1, BranchesFacts
<1>3. prefixes' = prefixes \o B
  OBVIOUS
<1>4. Explored' = Explored /\ Tree' = Tree /\ InHand = {p} /\ InHand' = {} /\ p \in Explored
  BY DEF Explored, Tree, Paths, InHand
<1>5. p \notin Paths
  BY DEF IsLeaf
<1> HIDE DEF p, B
<1>6. /\ \A k \in DOMAIN prefixes : k \in DOMAIN prefixes' /\ prefixes'[k] = prefixes[k]
      /\ \A j \in DOMAIN B : n + j \in DOMAIN prefixes' /\ prefixes'[n + j] = B[j]
      /\ \A k \in DOMAIN prefixes' : k \in DOMAIN prefixes \/ \E j \in DOMAIN B : k = n + j
  BY <1>1, <1>2, <1>3, Pushed
<1> HIDE DEF n
<1>7. /\ \A i \in DOMAIN prefixes : ~IsPrefix(prefixes[i], p) /\ ~IsPrefix(p, prefixes[i])
      /\ \A node \in Explored : IsPrefix(p, node) => node = p
  BY <1>1, <1>4 DEF Apart
<1>8. ASSUME NEW i \in DOMAIN B
      PROVE  /\ B[i] \in Tree /\ B[i] \in Path
             /\ \A node \in Explored : ~IsPrefix(B[i], node)
             /\ \A k \in DOMAIN prefixes : ~IsPrefix(prefixes[k], B[i]) /\ ~IsPrefix(B[i], prefixes[k])
  <2>1. PICK a \in ActorIds : B[i] = Append(p, a) /\ \E q \in Paths : IsPrefix(Append(p, a), q)
    BY <1>2
  <2> DEFINE b == Append(p, a)
  <2>2. /\ b \in Path /\ IsPrefix(p, b) /\ ~IsPrefix(b, p)
        /\ \A t \in Path : IsPrefix(t, b) => IsPrefix(t, p) \/ t = b
    BY <1>1, Continued
  <2>3. \E q \in Paths : IsPrefix(b, q)
    BY <2>1
  <2> HIDE DEF b
  <2>4. b \in Tree
    BY <1>1, <2>2, <2>3, TreeFacts
  <2>5. \A t \in Path : IsPrefix(b, t) => IsPrefix(p, t)
    BY <1>1, <2>2, PrefixOrder
  <2>6. \A node \in Explored : ~IsPrefix(b, node)
    BY <1>1, <1>7, <2>2, <2>5
  <2>7. \A k \in DOMAIN prefixes : ~IsPrefix(prefixes[k], b) /\ ~IsPrefix(b, prefixes[k])
    BY <1>1, <1>7, <2>2, <2>5
  <2> QED
    BY <2>1, <2>2, <2>4, <2>6, <2>7 DEF b
<1>9. Apart'
  <2>1. (\A i \in DOMAIN prefixes : prefixes[i] \in Tree)'
    BY <1>1, <1>4, <1>6, <1>8 DEF Apart
  <2>2. Explored' \subseteq Tree' /\ InHand' \subseteq Tree'
    BY <1>1, <1>4 DEF Apart
  <2>3. ASSUME NEW i \in DOMAIN prefixes', NEW j \in DOMAIN prefixes', IsPrefix(prefixes'[i], prefixes'[j])
        PROVE  i = j
    <3>1. CASE i \in DOMAIN prefixes /\ j \in DOMAIN prefixes
      BY <1>1, <1>6, <2>3, <3>1 DEF Apart
    <3>2. CASE i \in DOMAIN prefixes /\ \E k \in DOMAIN B : j = n + k
      BY <1>6, <1>8, <2>3, <3>2
    <3>3. CASE j \in DOMAIN prefixes /\ \E k \in DOMAIN B : i = n + k
      BY <1>6, <1>8, <2>3, <3>3
    <3>4. CASE (\E k \in DOMAIN B : i = n + k) /\ \E k \in DOMAIN B : j = n + k
      <4>1. PICK k \in DOMAIN B : i = n + k
        BY <3>4
      <4>2. PICK m \in DOMAIN B : j = n + m
        BY <3>4
      <4>3. IsPrefix(B[k], B[m])
        BY <1>6, <2>3, <4>1, <4>2
      <4> QED
        BY <1>2, <4>1, <4>2, <4>3
    <3> QED
      BY <1>6, <3>1, <3>2, <3>3, <3>4
  <2>4. (\A node \in Explored, i \in DOMAIN prefixes : ~IsPrefix(prefixes[i], node))'
    BY <1>1, <1>4, <1>6, <1>8 DEF Apart
  <2>5. (\A q \in InHand, i \in DOMAIN prefixes : ~IsPrefix(prefixes[i], q) /\ ~IsPrefix(q, prefixes[i]))'
    BY <1>4
  <2>6. (\A q \in InHand, node \in Explored : IsPrefix(q, node) => locals.pc = "branch" /\ node = q)'
    BY <1>4
  <2>7. (\A i, j \in DOMAIN attempts : attempts[i].prefix = attempts[j].prefix => i = j)'
    BY <1>1 DEF Apart
  <2> QED
    BY <2>1, <2>2, <2>3, <2>4, <2>5, <2>6, <2>7 DEF Apart
<1>10. ASSUME NEW node \in Tree PROVE Below(node)'
  <2>1. node \in Explored \/ IsPrefix(p, node) \/ \E i \in DOMAIN prefixes : IsPrefix(prefixes[i], node)
    BY <1>4 DEF Frontier, Below
  <2>2. CASE node \in Explored
    BY <1>4, <2>2 DEF Below
  <2>3. CASE \E i \in DOMAIN prefixes : IsPrefix(prefixes[i], node)
    BY <1>6, <2>3 DEF Below
  <2>4. CASE IsPrefix(p, node) /\ node # p
    <3>1. node \in Path /\ \E q \in Paths : IsPrefix(node, q)
      BY <1>1, TreeFacts
    <3>2. PICK q \in Paths : IsPrefix(node, q)
      BY <3>1
    <3>3. PICK a \in ActorIds : IsPrefix(Append(p, a), node)
      BY <1>1, <2>4, <3>1, NextActor
    <3>4. Append(p, a) \in Path /\ q \in Path
      BY <1>1, Continued, TreeFacts
    <3>5. IsPrefix(Append(p, a), q)
      BY <3>1, <3>2, <3>3, <3>4, PrefixOrder
    <3>6. PICK i \in DOMAIN B : B[i] = Append(p, a)
      BY <1>2, <3>5
    <3>7. n + i \in DOMAIN prefixes' /\ IsPrefix(prefixes'[n + i], node)
      BY <1>6, <3>3, <3>6
    <3> QED
      BY <3>7 DEF Below
  <2> QED
    BY <1>4, <2>1, <2>2, <2>3, <2>4
<1>11. Tallied'
  <2>1. \A l \in app.leaves : l.path \in Explored' \ InHand' <=> l.path \in Explored \ InHand
    BY <1>4, <1>5 DEF Paths
  <2>2. LeavesPassed(TRUE)' = LeavesPassed(TRUE) /\ LeavesPassed(FALSE)' = LeavesPassed(FALSE)
    BY <2>1 DEF LeavesPassed
  <2> QED
    BY <2>2 DEF Tallied
<1> QED
  BY <1>4, <1>9, <1>10, <1>11 DEF Frontier

\* A leaf is known by its path, and there are finitely many that were passed.
LEMMA LeafFacts ==
  ASSUME PrefixTypeOK, NEW dead \in BOOLEAN
  PROVE  /\ IsFiniteSet(LeavesPassed(dead))
         /\ \A l, m \in app.leaves : l.path = m.path => l = m
         /\ \A l \in app.leaves : l.deadlock \in BOOLEAN
<1>1. app \in Apps
  BY TypeFacts
<1>2. /\ \A l \in app.leaves : l.path \in Path /\ l.deadlock \in BOOLEAN
      /\ \A l, m \in app.leaves : IsPrefix(l.path, m.path) => l = m
  BY <1>1, SearchAssumption DEF Path
<1>3. \A l, m \in app.leaves : l.path = m.path => l = m
  BY <1>2, PrefixOrder
<1>4. IsFiniteSet(Explored)
  <2>1. attempts \in Seq(RowType)
    BY TypeFacts
  <2>2. DOMAIN attempts = 1 .. Len(attempts) /\ Len(attempts) \in Nat
    BY <2>1, LenProperties
  <2> DEFINE f == [i \in 1 .. Len(attempts) |-> attempts[i].prefix]
  <2>3. f \in [1 .. Len(attempts) -> Explored]
    BY <2>2 DEF Explored
  <2>4. \A x \in Explored : \E i \in 1 .. Len(attempts) : f[i] = x
    BY <2>2 DEF Explored
  <2> HIDE DEF f
  <2>5. f \in Surjection(1 .. Len(attempts), Explored)
    BY <2>3, <2>4 DEF Surjection
  <2>6. IsFiniteSet(1 .. Len(attempts))
    BY <2>2, FS_Interval
  <2> QED
    BY <2>5, <2>6, FS_Surjection
<1>5. IsFiniteSet(LeavesPassed(dead))
  <2> DEFINE L == LeavesPassed(dead)
             f == [l \in L |-> l.path]
  <2>1. L \subseteq app.leaves /\ \A l \in L : l.path \in Explored
    BY DEF LeavesPassed
  <2> HIDE DEF L
  <2>2. f \in [L -> Explored]
    BY <2>1
  <2>3. \A l, m \in L : f[l] = f[m] => l = m
    BY <1>3, <2>1
  <2> HIDE DEF f
  <2>4. f \in Injection(L, Explored)
    BY <2>2, <2>3 DEF Injection, IsInjective
  <2>5. IsFiniteSet(L)
    BY <1>4, <2>4, FS_Injection
  <2> QED
    BY <2>5 DEF L
<1> QED
  BY <1>2, <1>3, <1>5

\* A prefix that ends the execution is counted as the leaf it is.
LEMMA LeafFrontier ==
  ASSUME PrefixTypeOK, Frontier, Tallied, locals.pc = "branch", locals'.pc = "loop",
         run.prefix \in Explored, IsLeaf(run.prefix), UNCHANGED <<app, prefixes, attempts, run>>,
         Deadlocked(run.prefix) => /\ locals'.deadlocks = locals.deadlocks + 1
                                   /\ locals'.terminals = locals.terminals,
         ~Deadlocked(run.prefix) => /\ locals'.deadlocks = locals.deadlocks
                                    /\ locals'.terminals = locals.terminals + 1
  PROVE  Frontier' /\ Tallied'
<1> DEFINE p == run.prefix
<1>1. app \in Apps /\ p \in Path /\ Apart
  BY TypeFacts, NodeFacts DEF Frontier
<1>2. Explored' = Explored /\ Tree' = Tree /\ InHand = {p} /\ InHand' = {} /\ p \in Explored
  BY DEF Explored, Tree, Paths, InHand
<1>3. p \in Paths /\ (Deadlocked(p) <=> \E l \in app.leaves : l.path = p /\ l.deadlock)
  BY DEF IsLeaf, Deadlocked
<1>4. /\ Deadlocked(p) => locals'.deadlocks = locals.deadlocks + 1 /\ locals'.terminals = locals.terminals
      /\ ~Deadlocked(p) => locals'.deadlocks = locals.deadlocks /\ locals'.terminals = locals.terminals + 1
  OBVIOUS
<1> HIDE DEF p
<1>5. PICK l \in app.leaves : l.path = p
  BY <1>3 DEF Paths
<1>6. /\ \A m \in app.leaves : m.path = p => m = l
      /\ l.deadlock \in BOOLEAN /\ (Deadlocked(p) <=> l.deadlock)
  BY <1>3, <1>5, LeafFacts
<1>7. Apart'
  BY <1>1, <1>2 DEF Apart
<1>8. ASSUME NEW node \in Tree PROVE Below(node)'
  <2>1. node \in Explored \/ IsPrefix(p, node) \/ \E i \in DOMAIN prefixes : IsPrefix(prefixes[i], node)
    BY <1>2 DEF Frontier, Below
  <2>2. ASSUME IsPrefix(p, node) PROVE node = p
    <3>1. node \in Path /\ \E q \in Paths : IsPrefix(node, q)
      BY <1>1, TreeFacts
    <3>2. PICK m \in app.leaves : IsPrefix(node, m.path)
      BY <3>1 DEF Paths
    <3>3. m.path \in Path
      BY <1>1, SearchAssumption DEF Path
    <3>4. IsPrefix(p, m.path)
      BY <1>1, <2>2, <3>1, <3>2, <3>3, PrefixOrder
    <3>5. l = m
      BY <1>1, <1>5, <3>4, SearchAssumption
    <3> QED
      BY <1>1, <1>5, <2>2, <3>1, <3>2, <3>5, PrefixOrder
  <2> QED
    BY <1>2, <2>1, <2>2 DEF Below
<1>9. /\ LeavesPassed(l.deadlock)' = LeavesPassed(l.deadlock) \cup {l} /\ l \notin LeavesPassed(l.deadlock)
      /\ \A d \in BOOLEAN : d # l.deadlock => LeavesPassed(d)' = LeavesPassed(d)
  <2>1. \A m \in app.leaves : m.path \in Explored' \ InHand' <=> m.path \in Explored \ InHand \/ m = l
    BY <1>2, <1>5, <1>6
  <2>2. l.path \notin Explored \ InHand
    BY <1>2, <1>5
  <2>3. \A d \in BOOLEAN :
          LeavesPassed(d)' = {m \in app.leaves : (m.deadlock <=> d) /\ m.path \in Explored' \ InHand'}
    BY DEF LeavesPassed
  <2>4. \A d \in BOOLEAN :
          LeavesPassed(d) = {m \in app.leaves : (m.deadlock <=> d) /\ m.path \in Explored \ InHand}
    BY DEF LeavesPassed
  <2>5. LeavesPassed(l.deadlock)' = LeavesPassed(l.deadlock) \cup {l}
    BY <1>6, <2>1, <2>3, <2>4
  <2>6. ASSUME NEW d \in BOOLEAN, d # l.deadlock PROVE LeavesPassed(d)' = LeavesPassed(d)
    BY <1>6, <2>1, <2>3, <2>4, <2>6
  <2> QED
    BY <1>6, <2>2, <2>4, <2>5, <2>6
<1>10. \A d \in BOOLEAN : IsFiniteSet(LeavesPassed(d)) /\ Cardinality(LeavesPassed(d)) \in Nat
  BY LeafFacts, FS_CardinalityType
<1>11. Cardinality(LeavesPassed(l.deadlock) \cup {l}) = Cardinality(LeavesPassed(l.deadlock)) + 1
  BY <1>6, <1>9, <1>10, FS_AddElement
<1>12. Tallied'
  <2>1. /\ locals.deadlocks = Cardinality(LeavesPassed(TRUE))
        /\ locals.terminals = Cardinality(LeavesPassed(FALSE))
    BY DEF Tallied
  <2>2. CASE l.deadlock
    <3>1. /\ Cardinality(LeavesPassed(TRUE)') = Cardinality(LeavesPassed(TRUE)) + 1
          /\ LeavesPassed(FALSE)' = LeavesPassed(FALSE)
      BY <1>6, <1>9, <1>11, <2>2
    <3> QED
      BY <1>4, <1>6, <2>1, <2>2, <3>1 DEF Tallied
  <2>3. CASE ~l.deadlock
    <3>1. /\ Cardinality(LeavesPassed(FALSE)') = Cardinality(LeavesPassed(FALSE)) + 1
          /\ LeavesPassed(TRUE)' = LeavesPassed(TRUE)
      BY <1>6, <1>9, <1>11, <2>3
    <3> QED
      BY <1>4, <1>6, <2>1, <2>3, <3>1 DEF Tallied
  <2> QED
    BY <2>2, <2>3
<1> QED
  BY <1>2, <1>7, <1>8, <1>12 DEF Frontier

\* The prefix in hand is counted, given up, or replaced by its branches.
LEMMA BranchStep == ASSUME PrefixInv, Branch PROVE PrefixInv'
<1> DEFINE p == run.prefix
           dead == run.outcome = "controlled_deadlock"
<1>1. /\ PrefixTypeOK /\ Underway /\ Accounted /\ locals.pc = "branch" /\ locals.complete
      /\ UNCHANGED <<app, late, run, attempts, retained, result>>
  BY DEF PrefixInv, Branch, Underway
<1>2. /\ locals \in LocalsType /\ Coherent(locals) /\ late \in BOOLEAN /\ run \in RunType
      /\ app \in Apps /\ locals.runs <= app.runs /\ prefixes \in Seq(Path) /\ p \in Path
      /\ result \in {"none", "complete", "incomplete"}
  BY <1>1, TypeFacts, NodeFacts
<1>3. Frontier /\ Tallied /\ p \in Explored /\ (dead <=> Deadlocked(p)) /\ result # "complete"
  BY <1>1 DEF PrefixInv, Underway, Ending
<1>4. dead => IsLeaf(p)
  BY <1>3 DEF Deadlocked, IsLeaf, Paths
<1>5. /\ Len(attempts) + 0 = locals.runs /\ retained = <<>>
      /\ \A i \in DOMAIN attempts : attempts[i].cleanup = "confirmed"
  BY <1>1 DEF Accounted, Ending
<1>6. ASSUME NEW s \in LocalsType, Coherent(s), s.runs = locals.runs, Goto(s, "loop"),
             prefixes' \in Seq(Path), Frontier' /\ Tallied'
      PROVE  PrefixInv'
  <2>1. /\ locals' \in LocalsType /\ Coherent(locals') /\ locals'.pc = "loop"
        /\ locals'.runs = locals.runs
    BY <1>6, GotoFacts DEF Points
  <2>2. PrefixTypeOK'
    BY <1>1, <1>2, <1>6, <2>1, TypeFacts, TypeAfter
  <2>3. Underway'
    BY <1>1, <1>3, <2>1 DEF Underway, Ending
  <2>4. Len(attempts') + 0 = locals'.runs
    BY <1>1, <1>5, <2>1
  <2>5. Len(attempts') = locals'.runs
    <3>1. Len(attempts') \in Nat
      BY <1>1, NodeFacts
    <3> QED
      BY <2>4, <3>1
  <2>6. AttemptsAccounted'
    BY <1>1, <1>5, <2>5 DEF AttemptsAccounted
  <2>7. Accounted'
    BY <1>1, <1>5, <2>1, <2>4, <2>6 DEF Accounted
  <2> QED
    BY <1>6, <2>2, <2>3, <2>7 DEF PrefixInv
<1>7. CASE IsLeaf(p)
  <2> DEFINE x == IF dead THEN locals.deadlocks + 1 ELSE locals.deadlocks
             y == IF dead THEN locals.terminals ELSE locals.terminals + 1
             s == [locals EXCEPT !.deadlocks = x, !.terminals = y]
  <2>1. Goto(s, "loop") /\ prefixes' = prefixes
    BY <1>7 DEF Branch
  <2>2. /\ x \in Nat /\ y \in Nat
        /\ dead => x = locals.deadlocks + 1 /\ y = locals.terminals
        /\ ~dead => x = locals.deadlocks /\ y = locals.terminals + 1
    BY <1>2, LocalsFacts
  <2> HIDE DEF x, y
  <2>3. s \in LocalsType /\ Coherent(s) /\ s.runs = locals.runs /\ s.deadlocks = x /\ s.terminals = y
    BY <1>2, <2>2 DEF LocalsType, Coherent
  <2> HIDE DEF s
  <2>4. locals'.pc = "loop" /\ locals'.deadlocks = x /\ locals'.terminals = y
    BY <2>1, <2>3, GotoFacts DEF Points
  <2>5. /\ Deadlocked(p) => locals'.deadlocks = locals.deadlocks + 1 /\ locals'.terminals = locals.terminals
        /\ ~Deadlocked(p) => locals'.deadlocks = locals.deadlocks /\ locals'.terminals = locals.terminals + 1
    BY <1>3, <2>2, <2>4
  <2>6. Frontier' /\ Tallied'
    BY <1>1, <1>3, <1>7, <2>1, <2>4, <2>5, LeafFrontier
  <2> QED
    BY <1>2, <1>6, <2>1, <2>3, <2>6
<1>8. CASE ~IsLeaf(p) /\ Len(p) >= app.decisions
  <2> DEFINE u == Stopped(locals, "decision_bound")
  <2>1. Goto(u, "end") /\ prefixes' = prefixes
    BY <1>4, <1>8 DEF Branch
  <2>2. "decision_bound" \in StopReasons \ {""}
    BY DEF StopReasons
  <2>3. u \in LocalsType /\ Coherent(u) /\ ~u.complete /\ u.runs = locals.runs
    BY <1>2, <2>2, StoppedFacts
  <2> HIDE DEF u
  <2>4. locals'.pc = "end" /\ locals'.complete = u.complete
    BY <2>1, <2>3, GotoFacts DEF Points
  <2>5. Underway'
    BY <1>1, <1>3, <2>3, <2>4 DEF Underway, Ending
  <2> QED
    BY <1>1, <1>2, <2>1, <2>3, <2>5, EndingStep DEF Ending
<1>9. CASE ~IsLeaf(p) /\ ~(Len(p) >= app.decisions)
  <2>1. Goto(locals, "loop") /\ prefixes' = prefixes \o Branches(p)
    BY <1>4, <1>9 DEF Branch
  <2>2. /\ locals'.pc = "loop" /\ locals'.terminals = locals.terminals
        /\ locals'.deadlocks = locals.deadlocks
    BY <1>2, <2>1, GotoFacts DEF Points
  <2>3. Branches(p) \in Seq(Path)
    BY <1>2, BranchesFacts
  <2>4. prefixes' \in Seq(Path)
    BY <1>2, <2>1, <2>3, ConcatProperties
  <2>5. Frontier' /\ Tallied'
    BY <1>1, <1>3, <1>9, <2>1, <2>2, PushFrontier
  <2> QED
    BY <1>2, <1>6, <2>1, <2>4, <2>5
<1> QED
  BY <1>7, <1>8, <1>9

---------------------------------------------------------------------------
(* Theorems *)

\* Every step of explore keeps the invariant.
LEMMA NextStep == ASSUME PrefixInv, [PrefixNext]_prefixVars PROVE PrefixInv'
<1>1. CASE UNCHANGED prefixVars
  <2>1. late' \in BOOLEAN
    BY <1>1, TypeFacts DEF PrefixInv, prefixVars
  <2> QED
    BY <1>1, <2>1, PassiveStep DEF prefixVars
<1>2. CASE DeadlineExpires
  <2>1. late' \in BOOLEAN
    BY <1>2 DEF DeadlineExpires
  <2> QED
    BY <1>2, <2>1, PassiveStep DEF DeadlineExpires
<1>3. ASSUME NEW b \in BOOLEAN, Factory(b) \/ ReplayPrefix(b) \/ Retain(b) PROVE PrefixInv'
  BY <1>3, FactoryStep, ReplayStep, RetainStep
<1>4. ASSUME NEW c \in CleanupResults \ {"not_started"}, NEW b \in BOOLEAN, Cleanup(c, b) PROVE PrefixInv'
  BY <1>4, CleanupStep
<1> QED
  BY <1>1, <1>2, <1>3, <1>4, PopStep, AcquireStep, BranchStep, ReportStep, RecheckStep
     DEF PrefixNext, ExploreReturned

\* The invariant holds throughout.
LEMMA AlwaysInv == PrefixSpec => []PrefixInv
<1>1. PrefixInit => PrefixInv
  BY InitStep
<1>2. PrefixInv /\ [PrefixNext]_prefixVars => PrefixInv'
  BY NextStep
<1> QED
  BY <1>1, <1>2, PTL DEF PrefixSpec

\* The attempts are as many as the prefixes they explored.
LEMMA ExploredCount ==
  ASSUME PrefixTypeOK, Apart
  PROVE  Cardinality(Explored) = Len(attempts)
<1>1. DOMAIN attempts = 1 .. Len(attempts) /\ Len(attempts) \in Nat
  BY NodeFacts
<1> DEFINE f == [i \in 1 .. Len(attempts) |-> attempts[i].prefix]
<1>2. f \in [1 .. Len(attempts) -> Explored]
  BY <1>1 DEF Explored
<1>3. \A x \in Explored : \E i \in 1 .. Len(attempts) : f[i] = x
  BY <1>1 DEF Explored
<1>4. \A i, j \in 1 .. Len(attempts) : f[i] = f[j] => i = j
  BY <1>1 DEF Apart
<1> HIDE DEF f
<1> QED
  BY <1>1, <1>2, <1>3, <1>4, ListedOnce

\* As long as explore is not stopped, its stack, the prefix in hand and the
\* attempts account for every node of the tree of decisions exactly once, and
\* every attempt has its row; nothing is attempted after a cleanup that was not
\* confirmed (explore in src/schedule_sync.cpp).
THEOREM SearchAccounts == PrefixSpec => []SearchInv
<1>1. ASSUME PrefixInv PROVE SearchInv
  <2>1. PrefixTypeOK /\ AttemptsAccounted
    BY <1>1 DEF PrefixInv, Accounted
  <2>2. ASSUME locals.complete PROVE
          /\ \A node \in Tree \ (Explored \cup InHand) :
               \/ Cardinality({i \in DOMAIN prefixes : IsPrefix(prefixes[i], node)}) = 1
               \/ \E p \in InHand : IsPrefix(p, node)
          /\ \A node \in Explored \cup InHand :
               \A i \in DOMAIN prefixes : ~IsPrefix(prefixes[i], node)
          /\ Cardinality(Explored) = Len(attempts)
    <3>1. Apart /\ \A node \in Tree : Below(node)
      BY <1>1, <2>2 DEF PrefixInv, Frontier
    <3>2. ASSUME NEW node \in Tree \ (Explored \cup InHand), ~\E p \in InHand : IsPrefix(p, node)
          PROVE  Cardinality({i \in DOMAIN prefixes : IsPrefix(prefixes[i], node)}) = 1
      <4> DEFINE W == {i \in DOMAIN prefixes : IsPrefix(prefixes[i], node)}
      <4>1. PICK i \in DOMAIN prefixes : IsPrefix(prefixes[i], node)
        BY <3>1, <3>2 DEF Below
      <4>2. ASSUME NEW j \in W PROVE j = i
        <5>1. app \in Apps
          BY <2>1, TypeFacts
        <5>2. prefixes[i] \in Path /\ prefixes[j] \in Path /\ node \in Path
          BY <2>1, <5>1, NodeFacts, TreeFacts
        <5>3. IsPrefix(prefixes[i], prefixes[j]) \/ IsPrefix(prefixes[j], prefixes[i])
          BY <4>1, <5>2, PrefixOrder
        <5> QED
          BY <3>1, <4>1, <5>3 DEF Apart
      <4>3. W = {i}
        BY <4>1, <4>2
      <4> HIDE DEF W
      <4>4. Cardinality(W) = 1
        BY <4>3, FS_Singleton
      <4> QED
        BY <4>4 DEF W
    <3>3. \A node \in Explored \cup InHand : \A i \in DOMAIN prefixes : ~IsPrefix(prefixes[i], node)
      BY <3>1 DEF Apart
    <3>4. Cardinality(Explored) = Len(attempts)
      BY <2>1, <3>1, ExploredCount
    <3> QED
      BY <3>2, <3>3, <3>4
  <2> QED
    BY <2>1, <2>2 DEF SearchInv, FrontierExact
<1> QED
  BY <1>1, AlwaysInv, PTL

\* A receipt of explore that says complete is about the whole tree of decisions:
\* every prefix was replayed once, in time and without failure, with confirmed
\* cleanup and kept evidence, and every leaf was counted as the deadlock or the
\* end that it is (explore in src/schedule_sync.cpp).
THEOREM CompleteIsWholeTree == PrefixSpec => []CompleteMeansTree
<1>1. ASSUME PrefixInv PROVE CompleteMeansTree
  <2> SUFFICES ASSUME result = "complete"
               PROVE  /\ Explored = Tree /\ Len(attempts) = Cardinality(Tree)
                      /\ locals.deadlocks = Cardinality({l \in app.leaves : l.deadlock})
                      /\ locals.terminals = Cardinality({l \in app.leaves : ~l.deadlock})
                      /\ \A i \in DOMAIN attempts :
                           attempts[i].cleanup = "confirmed" /\ attempts[i].kept /\ attempts[i].sound
    BY DEF CompleteMeansTree
  <2>1. PrefixTypeOK /\ locals.complete /\ locals.pc \in Ending /\ prefixes = <<>>
    BY <1>1 DEF PrefixInv, Underway
  <2>2. Apart /\ Tallied /\ \A node \in Tree : Below(node)
    BY <1>1, <2>1 DEF PrefixInv, Frontier
  <2>3. InHand = {} /\ DOMAIN prefixes = {} /\ app \in Apps
    <3>1. Len(prefixes) = 0 /\ DOMAIN prefixes = 1 .. Len(prefixes)
      BY <2>1, NodeFacts, EmptySeq
    <3> QED
      BY <2>1, <3>1, TypeFacts DEF InHand, Ending
  <2>4. Explored = Tree
    BY <2>2, <2>3 DEF Below, Apart
  <2>5. Len(attempts) = Cardinality(Tree)
    BY <2>1, <2>2, <2>4, ExploredCount
  <2>6. \A l \in app.leaves : l.path \in Explored \ InHand /\ l.deadlock \in BOOLEAN
    BY <2>3, <2>4, TreeFacts, SearchAssumption DEF Paths
  <2>7. LeavesPassed(TRUE) = {l \in app.leaves : l.deadlock}
    BY <2>6 DEF LeavesPassed
  <2>8. LeavesPassed(FALSE) = {l \in app.leaves : ~l.deadlock}
    BY <2>6 DEF LeavesPassed
  <2> QED
    BY <2>2, <2>4, <2>5, <2>7, <2>8 DEF Tallied
<1> QED
  BY <1>1, AlwaysInv, PTL

=============================================================================

---------------------- MODULE FiniteExplorationProofs ----------------------
(***************************************************************************)
(* explore_finite, for every number of actors, every length of their       *)
(* chains and every bound: the search finds the merges within the          *)
(* preemption bound, all of them, once and in order, and a campaign that   *)
(* says complete is about all of them.                                     *)
(*                                                                         *)
(* What was found says nothing of what is still to be found; FiniteInv     *)
(* adds it: the indices of the loops split the merges, what they have      *)
(* passed was found and what they have not was not (Swept).                *)
(***************************************************************************)
EXTENDS FiniteExploration, FiniteSetTheorems, SequenceTheorems, WellFoundedInduction, TLAPS

---------------------------------------------------------------------------
(* The declaration *)

\* What a declaration is made of.
LEMMA SpaceFacts ==
  ASSUME space \in Spaces
  PROVE  /\ space.chains \in Seq(Nat \ {0}) /\ Len(space.chains) \in Nat \ {0}
         /\ space.inputs \in Nat \ {0} /\ space.cap \in Nat \ {0}
         /\ space.preemptions \in Nat /\ space.runs \in Nat /\ space.compare \in BOOLEAN
         /\ Actors \subseteq Nat \ {0} /\ 1 \in Actors /\ IsFiniteSet(Actors)
         /\ \A i \in Actors : space.chains[i] \in Nat \ {0}
<1>1. /\ space.chains \in Seq(Nat \ {0}) /\ space.chains # <<>>
      /\ space.inputs \in Nat \ {0} /\ space.cap \in Nat \ {0}
      /\ space.preemptions \in Nat /\ space.runs \in Nat /\ space.compare \in BOOLEAN
  BY SpacesAssumption
<1> DEFINE c == space.chains
<1>2. Len(c) \in Nat /\ Len(c) # 0 /\ DOMAIN c = 1 .. Len(c)
  BY <1>1, EmptySeq, LenProperties
<1>3. \A i \in 1 .. Len(c) : c[i] \in Nat \ {0}
  BY <1>1, ElementOfSeq
<1>4. Actors = 1 .. Len(c)
  BY DEF Actors
<1> HIDE DEF c
<1>5. Actors \subseteq Nat \ {0} /\ 1 \in Actors
  BY <1>2, <1>4
<1>6. IsFiniteSet(1 .. Len(c))
  BY <1>2, FS_Interval
<1> QED
  BY <1>1, <1>2, <1>3, <1>4, <1>5, <1>6 DEF c

\* The checkpoints of all chains are finitely many, and there is one.
LEMMA StepsFacts ==
  ASSUME space \in Spaces
  PROVE  /\ IsFiniteSet(Checkpoints) /\ Steps \in Nat \ {0} /\ Steps = Cardinality(Checkpoints)
         /\ \A i \in Actors : \A c \in 1 .. space.chains[i] : <<i, c>> \in Checkpoints
         /\ \A x \in Checkpoints : \E i \in Actors : \E c \in 1 .. space.chains[i] : x = <<i, c>>
<1> DEFINE chain(i) == {i} \X (1 .. space.chains[i])
           f == [i \in Actors |-> chain(i)]
           T == {chain(i) : i \in Actors}
<1>1. IsFiniteSet(Actors) /\ 1 \in Actors /\ \A i \in Actors : space.chains[i] \in Nat \ {0}
  BY SpaceFacts
<1>2. \A i \in Actors : IsFiniteSet(chain(i))
  <2> TAKE i \in Actors
  <2>1. IsFiniteSet(1 .. space.chains[i])
    BY <1>1, FS_Interval
  <2>2. IsFiniteSet({i})
    BY FS_Singleton
  <2> QED
    BY <2>1, <2>2, FS_Product
<1>3. Checkpoints = UNION T
  BY DEF Checkpoints
<1>4. \A i \in Actors : \A c \in 1 .. space.chains[i] : <<i, c>> \in Checkpoints
  BY <1>3
<1>5. \A x \in Checkpoints : \E i \in Actors : \E c \in 1 .. space.chains[i] : x = <<i, c>>
  BY <1>3
<1> HIDE DEF chain
<1>6. f \in Surjection(Actors, T)
  BY DEF Surjection
<1>7. IsFiniteSet(T)
  BY <1>1, <1>6, FS_Surjection
<1>8. IsFiniteSet(Checkpoints)
  BY <1>2, <1>3, <1>7, FS_UNION
<1>9. Checkpoints # {}
  <2>1. 1 \in 1 .. space.chains[1]
    BY <1>1
  <2> QED
    BY <1>1, <1>4, <2>1
<1>10. Cardinality(Checkpoints) \in Nat /\ Cardinality(Checkpoints) # 0
  BY <1>8, <1>9, FS_CardinalityType, FS_EmptySet
<1> QED
  BY <1>4, <1>5, <1>8, <1>10 DEF Steps

---------------------------------------------------------------------------
(* Positions *)

\* The steps of an actor among the first n.
StepsOf(p, n, i) == {k \in 1 .. n : p[k] = i}

\* They are finitely many, and the position counts them.
LEMMA StepsOfFacts ==
  ASSUME NEW p, NEW n \in Nat, NEW i
  PROVE  /\ StepsOf(p, n, i) \in SUBSET (1 .. n) /\ IsFiniteSet(StepsOf(p, n, i))
         /\ Picked(p, n, i) = Cardinality(StepsOf(p, n, i)) /\ Picked(p, n, i) \in Nat
<1>1. IsFiniteSet(1 .. n) /\ StepsOf(p, n, i) \in SUBSET (1 .. n)
  BY FS_Interval DEF StepsOf
<1>2. IsFiniteSet(StepsOf(p, n, i))
  BY <1>1, FS_Subset
<1>3. Picked(p, n, i) = Cardinality(StepsOf(p, n, i))
  BY DEF Picked, StepsOf
<1> QED
  BY <1>1, <1>2, <1>3, FS_CardinalityType

\* How a position changes with a step.
LEMMA PickedFacts ==
  ASSUME NEW p, NEW n \in Nat, NEW i
  PROVE  /\ Picked(p, n + 1, i) = IF p[n + 1] = i THEN Picked(p, n, i) + 1 ELSE Picked(p, n, i)
         /\ Picked(p, 0, i) = 0
<1>1. StepsOf(p, n + 1, i) = IF p[n + 1] = i THEN StepsOf(p, n, i) \cup {n + 1} ELSE StepsOf(p, n, i)
  <2>1. 1 .. (n + 1) = (1 .. n) \cup {n + 1}
    OBVIOUS
  <2> QED
    BY <2>1 DEF StepsOf
<1>2. n + 1 \notin StepsOf(p, n, i) /\ StepsOf(p, 0, i) = {}
  BY DEF StepsOf
<1>3. IsFiniteSet(StepsOf(p, n, i))
  BY StepsOfFacts
<1>4. Cardinality(StepsOf(p, n + 1, i)) =
        IF p[n + 1] = i THEN Cardinality(StepsOf(p, n, i)) + 1 ELSE Cardinality(StepsOf(p, n, i))
  BY <1>1, <1>2, <1>3, FS_AddElement
<1>5. Cardinality(StepsOf(p, 0, i)) = 0
  BY <1>2, FS_EmptySet
<1> QED
  BY <1>4, <1>5, StepsOfFacts

\* Positions only grow.
LEMMA PickedGrows ==
  ASSUME NEW p, NEW n \in Nat, NEW l \in Nat, n <= l, NEW i
  PROVE  Picked(p, n, i) <= Picked(p, l, i)
<1>1. StepsOf(p, n, i) \in SUBSET StepsOf(p, l, i)
  BY DEF StepsOf
<1>2. Cardinality(StepsOf(p, n, i)) <= Cardinality(StepsOf(p, l, i))
  BY <1>1, StepsOfFacts, FS_Subset
<1> QED
  BY <1>2, StepsOfFacts

\* Paths that agree so far have the same positions.
LEMMA SamePicked ==
  ASSUME NEW p, NEW q, NEW n \in Nat, \A k \in 1 .. n : p[k] = q[k], NEW i
  PROVE  Picked(p, n, i) = Picked(q, n, i)
<1>1. {k \in 1 .. n : p[k] = i} = {k \in 1 .. n : q[k] = i}
  OBVIOUS
<1> QED
  BY <1>1 DEF Picked

\* Paths that agree so far were preempted at the same steps.
LEMMA SamePreempts ==
  ASSUME NEW p, NEW q, NEW n \in Nat, \A k \in 1 .. n : p[k] = q[k]
  PROVE  \A k \in 1 .. n : Preempts(p, k) <=> Preempts(q, k)
<1> TAKE k \in 1 .. n
<1>1. CASE k > 1
  <2>1. k - 1 \in Nat /\ k - 1 \in 1 .. n
    BY <1>1
  <2>2. p[k] = q[k] /\ p[k - 1] = q[k - 1] /\ \A j \in 1 .. (k - 1) : p[j] = q[j]
    BY <2>1
  <2>3. Picked(p, k - 1, q[k - 1]) = Picked(q, k - 1, q[k - 1])
    BY <2>1, <2>2, SamePicked
  <2> QED
    BY <2>2, <2>3 DEF Preempts, Unfinished
<1>2. CASE ~(k > 1)
  BY <1>2 DEF Preempts
<1> QED
  BY <1>1, <1>2

\* The preemptions of the first n steps.
Preempted(p, n) == Cardinality({k \in 1 .. n : Preempts(p, k)})

\* Preemptions are counted like positions.
LEMMA PreemptedFacts ==
  ASSUME NEW p, NEW n \in Nat
  PROVE  /\ Preempted(p, n) \in Nat
         /\ Preempted(p, n + 1) = IF Preempts(p, n + 1) THEN Preempted(p, n) + 1 ELSE Preempted(p, n)
         /\ Preempted(p, 0) = 0
<1> DEFINE K(l) == {k \in 1 .. l : Preempts(p, k)}
<1>1. \A l \in Nat : IsFiniteSet(K(l))
  <2> TAKE l \in Nat
  <2>1. IsFiniteSet(1 .. l) /\ K(l) \in SUBSET (1 .. l)
    BY FS_Interval
  <2> QED
    BY <2>1, FS_Subset
<1>2. K(n + 1) = IF Preempts(p, n + 1) THEN K(n) \cup {n + 1} ELSE K(n)
  <2>1. 1 .. (n + 1) = (1 .. n) \cup {n + 1}
    OBVIOUS
  <2> QED
    BY <2>1
<1>3. n + 1 \notin K(n) /\ K(0) = {}
  OBVIOUS
<1>4. /\ Preempted(p, n) = Cardinality(K(n)) /\ Preempted(p, n + 1) = Cardinality(K(n + 1))
      /\ Preempted(p, 0) = Cardinality(K(0))
  BY DEF Preempted
<1> HIDE DEF K
<1>6. Cardinality(K(n)) \in Nat
  BY <1>1, FS_CardinalityType
<1>7. Cardinality(K(n + 1)) = IF Preempts(p, n + 1) THEN Cardinality(K(n)) + 1 ELSE Cardinality(K(n))
  BY <1>1, <1>2, <1>3, FS_AddElement
<1>8. Cardinality(K(0)) = 0
  BY <1>3, FS_EmptySet
<1> QED
  BY <1>4, <1>6, <1>7, <1>8

\* A longer path has been preempted at least as often.
LEMMA PreemptedGrows ==
  ASSUME NEW p, NEW n \in Nat, NEW l \in Nat, n <= l
  PROVE  Preempted(p, n) <= Preempted(p, l)
<1>1. IsFiniteSet({k \in 1 .. l : Preempts(p, k)})
  <2>1. IsFiniteSet(1 .. l) /\ {k \in 1 .. l : Preempts(p, k)} \in SUBSET (1 .. l)
    BY FS_Interval
  <2> QED
    BY <2>1, FS_Subset
<1>2. {k \in 1 .. n : Preempts(p, k)} \in SUBSET {k \in 1 .. l : Preempts(p, k)}
  OBVIOUS
<1>3. Cardinality({k \in 1 .. n : Preempts(p, k)}) <= Cardinality({k \in 1 .. l : Preempts(p, k)})
  BY <1>1, <1>2, FS_Subset
<1> QED
  BY <1>3 DEF Preempted

\* Paths that agree so far have been preempted as often.
LEMMA SamePreempted ==
  ASSUME NEW p, NEW q, NEW n \in Nat, \A k \in 1 .. n : p[k] = q[k]
  PROVE  Preempted(p, n) = Preempted(q, n)
<1>1. \A k \in 1 .. n : Preempts(p, k) <=> Preempts(q, k)
  BY SamePreempts
<1>2. {k \in 1 .. n : Preempts(p, k)} = {k \in 1 .. n : Preempts(q, k)}
  BY <1>1
<1> QED
  BY <1>2 DEF Preempted

\* A path that overruns no chain is no longer than all of them, and as long only
\* if it ends every one.
LEMMA ChainsFill ==
  ASSUME space \in Spaces, NEW p \in Seq(Actors),
         \A i \in Actors : Picked(p, Len(p), i) <= space.chains[i]
  PROVE  /\ Len(p) <= Steps
         /\ Len(p) = Steps <=> \A i \in Actors : Picked(p, Len(p), i) = space.chains[i]
<1> DEFINE L == Len(p)
           K(i) == StepsOf(p, L, i)
           n(i) == Picked(p, L, i)
           c(i) == space.chains[i]
           B(i) == Bijection(K(i), 1 .. n(i))
           b == [i \in Actors |-> CHOOSE f \in B(i) : TRUE]
           g == [k \in 1 .. L |-> <<p[k], b[p[k]][k]>>]
<1>1. L \in Nat /\ \A k \in 1 .. L : p[k] \in Actors
  BY LenProperties, ElementOfSeq
<1>2. \A i \in Actors : c(i) \in Nat \ {0} /\ n(i) <= c(i)
  BY SpaceFacts
<1>3. /\ IsFiniteSet(Checkpoints) /\ Steps = Cardinality(Checkpoints)
      /\ \A i \in Actors : \A x \in 1 .. c(i) : <<i, x>> \in Checkpoints
      /\ \A x \in Checkpoints : \E i \in Actors : \E y \in 1 .. c(i) : x = <<i, y>>
  BY StepsFacts
<1> HIDE DEF L, c
<1>4. \A i \in Actors : IsFiniteSet(K(i)) /\ n(i) = Cardinality(K(i)) /\ n(i) \in Nat
  BY <1>1, StepsOfFacts
<1>5. \A k \in 1 .. L, i \in Actors : k \in K(i) <=> p[k] = i
  BY DEF StepsOf
<1> HIDE DEF K, n
<1>6. ASSUME NEW i \in Actors PROVE \E f \in B(i) : TRUE
  <2>1. IsFiniteSet(1 .. n(i)) /\ Cardinality(1 .. n(i)) = n(i)
    BY <1>4, FS_Interval
  <2>2. ExistsBijection(K(i), 1 .. n(i))
    BY <1>4, <2>1, FS_SameCardinalityBij
  <2> QED
    BY <2>2 DEF ExistsBijection
<1>7. \A i \in Actors : b[i] \in B(i)
  BY <1>6
<1> HIDE DEF b
<1>8. ASSUME NEW i \in Actors
      PROVE  /\ b[i] \in [K(i) -> 1 .. n(i)] /\ \A x, y \in K(i) : b[i][x] = b[i][y] => x = y
             /\ \A y \in 1 .. n(i) : \E x \in K(i) : b[i][x] = y
  BY <1>7 DEF Bijection, Injection, Surjection, IsInjective
<1> HIDE DEF B
<1>9. ASSUME NEW k \in 1 .. L
      PROVE  /\ p[k] \in Actors /\ k \in K(p[k]) /\ b[p[k]][k] \in 1 .. n(p[k]) /\ g[k] = <<p[k], b[p[k]][k]>>
  BY <1>1, <1>5, <1>8
<1>10. g \in [1 .. L -> Checkpoints]
  <2>1. ASSUME NEW k \in 1 .. L PROVE g[k] \in Checkpoints
    <3> DEFINE i == p[k]
               x == b[i][k]
    <3>0. i \in Actors /\ x \in 1 .. n(i)
      BY <1>9
    <3> HIDE DEF i, x
    <3>1. x \in 1 .. c(i)
      BY <1>2, <1>4, <3>0
    <3> QED
      BY <1>3, <1>9, <3>0, <3>1 DEF i, x
  <2> QED
    BY <2>1
<1> HIDE DEF g
<1>11. \A k, l \in 1 .. L : g[k] = g[l] => k = l
  <2> SUFFICES ASSUME NEW k \in 1 .. L, NEW l \in 1 .. L, g[k] = g[l] PROVE k = l
    OBVIOUS
  <2>1. p[k] = p[l] /\ b[p[k]][k] = b[p[l]][l]
    BY <1>9
  <2> QED
    BY <1>8, <1>9, <2>1
<1>12. g \in Injection(1 .. L, Checkpoints)
  BY <1>10, <1>11 DEF Injection, IsInjective
<1>13. IsFiniteSet(1 .. L) /\ Cardinality(1 .. L) = L
  BY <1>1, FS_Interval
<1>14. L <= Steps /\ (L = Steps <=> g \in Surjection(1 .. L, Checkpoints))
  BY <1>3, <1>12, <1>13, FS_Injection
<1>15. ASSUME g \in Surjection(1 .. L, Checkpoints), NEW i \in Actors PROVE n(i) = c(i)
  <2>1. c(i) \in 1 .. c(i)
    BY <1>2
  <2>2. <<i, c(i)>> \in Checkpoints
    BY <1>3, <2>1
  <2>3. PICK k \in 1 .. L : g[k] = <<i, c(i)>>
    BY <1>15, <2>2 DEF Surjection
  <2>4. p[k] = i /\ b[i][k] = c(i)
    BY <1>9, <2>3
  <2>5. c(i) \in 1 .. n(i)
    BY <1>9, <2>4
  <2> QED
    BY <1>2, <1>4, <2>5
<1>16. ASSUME \A i \in Actors : n(i) = c(i) PROVE g \in Surjection(1 .. L, Checkpoints)
  <2>1. ASSUME NEW x \in Checkpoints PROVE \E k \in 1 .. L : g[k] = x
    <3>1. PICK i \in Actors : \E y \in 1 .. c(i) : x = <<i, y>>
      BY <1>3
    <3>2. PICK y \in 1 .. c(i) : x = <<i, y>>
      BY <3>1
    <3>3. PICK k \in K(i) : b[i][k] = y
      BY <1>8, <1>16
    <3>4. k \in 1 .. L /\ p[k] = i
      BY <1>1, <1>5, <3>3 DEF K, StepsOf
    <3> QED
      BY <1>9, <3>2, <3>3, <3>4
  <2> QED
    BY <1>10, <2>1 DEF Surjection
<1>17. L = Steps <=> \A i \in Actors : n(i) = c(i)
  BY <1>14, <1>15, <1>16
<1> QED
  BY <1>14, <1>17 DEF L, n, c

---------------------------------------------------------------------------
(* Sequences *)

\* A sequence without its last element, and that element.
LEMMA FrontFacts ==
  ASSUME NEW S, NEW s \in Seq(S), s # <<>>
  PROVE  /\ Len(s) \in Nat \ {0} /\ Front(s) \in Seq(S) /\ Len(Front(s)) = Len(s) - 1
         /\ \A k \in 1 .. (Len(s) - 1) : Front(s)[k] = s[k]
         /\ Last(s) = s[Len(s)] /\ Last(s) \in S
<1>1. Len(s) \in Nat /\ Len(s) # 0
  BY EmptySeq, LenProperties
<1>2. /\ Front(s) \in Seq(S) /\ Len(Front(s)) = Len(s) - 1
      /\ \A k \in 1 .. (Len(s) - 1) : Front(s)[k] = s[k]
  <2> DEFINE N == Len(s)
             n == N - 1
             t == SubSeq(s, 1, n)
  <2>1. N \in Nat /\ N # 0 /\ \A k \in 1 .. N : s[k] \in S
    BY <1>1, ElementOfSeq
  <2>2. Front(s) = t
    BY DEF Front
  <2> HIDE DEF N
  <2>3. n \in Int /\ (IF 1 <= n THEN n - 1 + 1 ELSE 0) = n /\ \A k \in 1 .. n : s[k] \in S
    BY <2>1
  <2>4. /\ t \in Seq(S) /\ Len(t) = IF 1 <= n THEN n - 1 + 1 ELSE 0
        /\ \A k \in 1 .. n - 1 + 1 : t[k] = s[1 + k - 1]
    BY <2>3, SubSeqProperties
  <2> HIDE DEF t
  <2>5. \A k \in 1 .. n : t[k] = s[k]
    <3> TAKE k \in 1 .. n
    <3>1. k \in 1 .. n - 1 + 1 /\ 1 + k - 1 = k
      BY <2>1
    <3> QED
      BY <2>4, <3>1
  <2> QED
    BY <2>2, <2>3, <2>4, <2>5 DEF N
<1>3. Last(s) = s[Len(s)] /\ s[Len(s)] \in S
  BY <1>1, ElementOfSeq DEF Last
<1> QED
  BY <1>1, <1>2, <1>3

\* The loops with the innermost one at another index.
LEMMA InnermostFacts ==
  ASSUME NEW s \in Seq(Nat), s # <<>>, NEW i \in Nat
  PROVE  /\ Innermost(s, i) \in Seq(Nat) /\ Len(Innermost(s, i)) = Len(s)
         /\ \A k \in 1 .. (Len(s) - 1) : Innermost(s, i)[k] = s[k]
         /\ Innermost(s, i)[Len(s)] = i
<1>1. Len(s) \in Nat \ {0}
  BY FrontFacts
<1> DEFINE L == Len(s)
           t == Innermost(s, i)
<1>2. t = [s EXCEPT ![L] = i] /\ L \in 1 .. Len(s)
  BY <1>1 DEF Innermost
<1>3. t \in Seq(Nat) /\ Len(t) = Len(s) /\ \A k \in 1 .. Len(s) : t[k] = IF k = L THEN i ELSE s[k]
  BY <1>2, ExceptSeq
<1>4. L \in Nat /\ L # 0 /\ \A k \in 1 .. L : t[k] = IF k = L THEN i ELSE s[k]
  BY <1>1, <1>3
<1> HIDE DEF t, L
<1>5. t[L] = i /\ \A k \in 1 .. (L - 1) : t[k] = s[k]
  BY <1>4
<1> QED
  BY <1>3, <1>5 DEF t, L

---------------------------------------------------------------------------
(* Paths *)

\* A sequence goes on where another ends.
Continues(m, p) == \A j \in 1 .. Len(p) : m[j] = p[j]

\* A path the search may follow: no chain overrun, the bound kept.
Valid(p) ==
  /\ p \in Seq(Actors) /\ \A i \in Actors : Picked(p, Len(p), i) <= space.chains[i]
  /\ Preemptions(p) <= space.preemptions

\* A path and an eligible actor make a path.
LEMMA Extended ==
  ASSUME space \in Spaces, NEW p, Valid(p), NEW i \in Eligible(p)
  PROVE  /\ i \in Actors /\ Valid(Append(p, i))
         /\ Len(Append(p, i)) = Len(p) + 1 /\ Append(p, i)[Len(p) + 1] = i
         /\ \A k \in 1 .. Len(p) : Append(p, i)[k] = p[k]
<1> DEFINE x == Append(p, i)
           L == Len(p)
<1>1. p \in Seq(Actors) /\ \A j \in Actors : Picked(p, L, j) <= space.chains[j]
  BY DEF Valid
<1>2. i \in Actors /\ Picked(p, L, i) < space.chains[i] /\ Preemptions(x) <= space.preemptions
  BY DEF Eligible, Unfinished
<1>3. L \in Nat /\ \A j \in Actors : space.chains[j] \in Nat
  BY <1>1, LenProperties, SpaceFacts
<1>4. x \in Seq(Actors) /\ Len(x) = L + 1 /\ x[L + 1] = i /\ \A k \in 1 .. L : x[k] = p[k]
  BY <1>1, <1>2, AppendProperties
<1> HIDE DEF x, L
<1>5. ASSUME NEW j \in Actors PROVE Picked(x, L + 1, j) <= space.chains[j]
  <2>1. Picked(x, L, j) = Picked(p, L, j) /\ Picked(p, L, j) \in Nat
    <3>1. L \in Nat /\ \A k \in 1 .. L : x[k] = p[k]
      BY <1>3, <1>4
    <3>2. Picked(x, L, j) = Picked(p, L, j)
      BY <3>1, SamePicked
    <3> QED
      BY <1>3, <3>2, StepsOfFacts
  <2>2. Picked(x, L + 1, j) = IF i = j THEN Picked(x, L, j) + 1 ELSE Picked(x, L, j)
    BY <1>3, <1>4, PickedFacts
  <2> QED
    BY <1>1, <1>2, <1>3, <2>1, <2>2
<1>6. Valid(x)
  BY <1>2, <1>4, <1>5 DEF Valid
<1> QED
  BY <1>2, <1>4, <1>6 DEF x, L

\* A path without its last step is a path.
LEMMA Shortened ==
  ASSUME space \in Spaces, NEW p, Valid(p), p # <<>>
  PROVE  Valid(Front(p))
<1> DEFINE x == Front(p)
           L == Len(p) - 1
<1>1. /\ p \in Seq(Actors) /\ \A j \in Actors : Picked(p, Len(p), j) <= space.chains[j]
      /\ Preemptions(p) <= space.preemptions
  BY DEF Valid
<1>2. x \in Seq(Actors) /\ Len(x) = L /\ L \in Nat /\ Len(p) = L + 1 /\ \A k \in 1 .. L : x[k] = p[k]
  BY <1>1, FrontFacts
<1>3. \A j \in Actors : space.chains[j] \in Nat
  BY SpaceFacts
<1>3a. space.preemptions \in Nat
  BY SpaceFacts
<1> HIDE DEF x, L
<1>4. ASSUME NEW j \in Actors PROVE Picked(x, L, j) <= space.chains[j]
  <2>1. L <= L + 1 /\ L + 1 \in Nat
    BY <1>2
  <2>2. Picked(x, L, j) = Picked(p, L, j)
    BY <1>2, SamePicked
  <2>3. Picked(p, L, j) <= Picked(p, L + 1, j)
    BY <1>2, <2>1, PickedGrows
  <2>4. Picked(p, L, j) \in Nat /\ Picked(p, L + 1, j) \in Nat
    BY <1>2, <2>1, StepsOfFacts
  <2> QED
    BY <1>1, <1>2, <1>3, <2>2, <2>3, <2>4
<1>5. Preemptions(x) <= space.preemptions
  <2>1. Preemptions(x) = Preempted(x, L) /\ Preemptions(p) = Preempted(p, L + 1)
    BY <1>2 DEF Preemptions, Preempted
  <2>2. Preempted(x, L) = Preempted(p, L)
    BY <1>2, SamePreempted
  <2>3. L + 1 \in Nat /\ L <= L + 1
    BY <1>2
  <2>4. Preempted(p, L) <= Preempted(p, L + 1) /\ Preempted(p, L) \in Nat /\ Preempted(p, L + 1) \in Nat
    BY <1>2, <2>3, PreemptedGrows, PreemptedFacts
  <2> QED
    BY <1>1, <1>3a, <2>1, <2>2, <2>4
<1> QED
  BY <1>2, <1>4, <1>5 DEF Valid, x

\* A merge is a path as long as all chains.
LEMMA MergeFacts ==
  ASSUME space \in Spaces, NEW m \in Merges
  PROVE  /\ m \in Seq(Actors) /\ Len(m) = Steps /\ \A k \in 1 .. Steps : m[k] \in Actors
         /\ \A k \in 1 .. Steps : m[k] \in Nat \ {0}
         /\ \A i \in Actors : Picked(m, Steps, i) = space.chains[i]
         /\ Preempted(m, Steps) <= space.preemptions
<1>1. /\ m \in [1 .. Steps -> Actors] /\ \A i \in Actors : Picked(m, Steps, i) = space.chains[i]
      /\ Preemptions(m) <= space.preemptions
  BY DEF Merges
<1>2. Steps \in Nat /\ Actors \subseteq Nat \ {0}
  BY StepsFacts, SpaceFacts
<1>3. m \in Seq(Actors) /\ Len(m) = Steps
  BY <1>1, <1>2
<1>4. Preemptions(m) = Preempted(m, Steps)
  BY <1>3 DEF Preemptions, Preempted
<1> QED
  BY <1>1, <1>2, <1>3, <1>4

\* A path is no longer than all chains, and a merge if it is as long.
LEMMA PathEnds ==
  ASSUME space \in Spaces, NEW p, Valid(p)
  PROVE  /\ Len(p) \in Nat /\ Len(p) <= Steps /\ (Len(p) = Steps => p \in Merges)
         /\ \A k \in 1 .. Len(p) : p[k] \in Actors /\ p[k] \in Nat \ {0}
<1>1. /\ p \in Seq(Actors) /\ \A i \in Actors : Picked(p, Len(p), i) <= space.chains[i]
      /\ Preemptions(p) <= space.preemptions
  BY DEF Valid
<1>2. /\ Len(p) <= Steps
      /\ Len(p) = Steps <=> \A i \in Actors : Picked(p, Len(p), i) = space.chains[i]
  BY <1>1, ChainsFill
<1>3. Len(p) \in Nat /\ p \in [1 .. Len(p) -> Actors]
  BY <1>1, LenProperties
<1>4. Actors \subseteq Nat \ {0}
  BY SpaceFacts
<1>5. Len(p) = Steps => p \in Merges
  BY <1>1, <1>2, <1>3 DEF Merges
<1> QED
  BY <1>2, <1>3, <1>4, <1>5

\* A merge that continues a path does so with an eligible actor.
LEMMA MergeContinues ==
  ASSUME space \in Spaces, NEW p \in Seq(Actors), NEW m \in Merges, Len(p) < Steps,
         Continues(m, p)
  PROVE  m[Len(p) + 1] \in Eligible(p)
<1> DEFINE L == Len(p)
           i == m[L + 1]
           x == Append(p, i)
<1>1. L \in Nat /\ Steps \in Nat /\ L < Steps
  BY LenProperties, StepsFacts
<1>2. /\ \A k \in 1 .. Steps : m[k] \in Actors
      /\ \A j \in Actors : Picked(m, Steps, j) = space.chains[j]
      /\ Preempted(m, Steps) <= space.preemptions
  BY MergeFacts
<1>3. i \in Actors /\ space.chains[i] \in Nat /\ space.preemptions \in Nat
  BY <1>1, <1>2, SpaceFacts
<1>4. x \in Seq(Actors) /\ Len(x) = L + 1 /\ x[L + 1] = i /\ \A k \in 1 .. L : x[k] = p[k]
  BY <1>3, AppendProperties
<1>5. \A k \in 1 .. L : m[k] = p[k]
  BY DEF Continues
<1>6. m[L + 1] = i
  OBVIOUS
<1> HIDE DEF x, i, L
<1>7. \A k \in 1 .. (L + 1) : x[k] = m[k]
  BY <1>1, <1>4, <1>5, <1>6
<1>8. L + 1 \in Nat /\ L + 1 <= Steps
  BY <1>1
<1>9. Unfinished(p, L, i)
  <2>1. Picked(m, L + 1, i) = Picked(m, L, i) + 1
    BY <1>1, <1>6, PickedFacts
  <2>2. Picked(m, L + 1, i) <= Picked(m, Steps, i)
    BY <1>1, <1>8, PickedGrows
  <2>3. Picked(p, L, i) = Picked(m, L, i)
    BY <1>1, <1>5, SamePicked
  <2>4. Picked(m, L, i) \in Nat
    BY <1>1, StepsOfFacts
  <2> QED
    BY <1>2, <1>3, <2>1, <2>2, <2>3, <2>4 DEF Unfinished
<1>10. Preemptions(x) <= space.preemptions
  <2>1. Preemptions(x) = Preempted(x, L + 1)
    BY <1>4 DEF Preemptions, Preempted
  <2>2. Preempted(x, L + 1) = Preempted(m, L + 1)
    BY <1>7, <1>8, SamePreempted
  <2>3. Preempted(m, L + 1) <= Preempted(m, Steps)
    BY <1>1, <1>8, PreemptedGrows
  <2>4. Preempted(m, L + 1) \in Nat /\ Preempted(m, Steps) \in Nat
    BY <1>1, <1>8, PreemptedFacts
  <2> QED
    BY <1>2, <1>3, <2>1, <2>2, <2>3, <2>4
<1>11. i \in Eligible(p)
  BY <1>3, <1>9, <1>10 DEF Eligible, x, L
<1> QED
  BY <1>11 DEF i, L

\* A path that is not a merge yet can go on: its last actor, or if that is
\* finished any other, is eligible.
LEMMA PathGoesOn ==
  ASSUME space \in Spaces, NEW p, Valid(p), Len(p) < Steps
  PROVE  \E i \in Eligible(p) : TRUE
<1> DEFINE L == Len(p)
<1>1. /\ p \in Seq(Actors) /\ \A i \in Actors : Picked(p, L, i) <= space.chains[i]
      /\ Preemptions(p) <= space.preemptions
  BY DEF Valid
<1>2. L \in Nat /\ Steps \in Nat /\ L < Steps /\ \A k \in 1 .. L : p[k] \in Actors
  BY <1>1, LenProperties, ElementOfSeq, StepsFacts
<1>3. \A i \in Actors : Picked(p, L, i) \in Nat /\ space.chains[i] \in Nat
  BY <1>2, StepsOfFacts, SpaceFacts
<1>4. PICK j \in Actors : Picked(p, L, j) # space.chains[j]
  BY <1>1, <1>2, ChainsFill
<1> HIDE DEF L
<1>5. Unfinished(p, L, j)
  BY <1>1, <1>3, <1>4 DEF Unfinished
<1>6. PICK i \in Actors : /\ Unfinished(p, L, i)
                          /\ L > 0 => p[L] = i \/ ~Unfinished(p, L, p[L])
  <2>1. CASE L > 0 /\ Unfinished(p, L, p[L])
    <3>1. L \in 1 .. L
      BY <1>2, <2>1
    <3> QED
      BY <1>2, <2>1, <3>1
  <2>2. CASE ~(L > 0 /\ Unfinished(p, L, p[L]))
    BY <1>5, <2>2
  <2> QED
    BY <2>1, <2>2
<1> DEFINE x == Append(p, i)
<1>7. x \in Seq(Actors) /\ Len(x) = L + 1 /\ x[L + 1] = i /\ \A k \in 1 .. L : x[k] = p[k]
  BY <1>1, <1>6, AppendProperties DEF L
<1> HIDE DEF x
<1>8. ~Preempts(x, L + 1)
  <2>1. CASE L = 0
    <3>1. ~(L + 1 > 1)
      BY <2>1
    <3> QED
      BY <3>1 DEF Preempts
  <2>2. CASE L > 0
    <3>1. (L + 1) - 1 = L /\ L \in 1 .. L
      BY <1>2, <2>2
    <3>2. x[L] = p[L] /\ Picked(x, L, p[L]) = Picked(p, L, p[L])
      BY <1>2, <1>7, <3>1, SamePicked
    <3>3. Unfinished(x, L, x[L]) <=> Unfinished(p, L, p[L])
      BY <3>2 DEF Unfinished
    <3> QED
      BY <1>6, <1>7, <2>2, <3>1, <3>2, <3>3 DEF Preempts
  <2> QED
    BY <1>2, <2>1, <2>2
<1>9. Preemptions(x) <= space.preemptions
  <2>1. Preemptions(x) = Preempted(x, L + 1)
    BY <1>7 DEF Preemptions, Preempted
  <2>2. Preempted(x, L + 1) = Preempted(x, L)
    BY <1>2, <1>8, PreemptedFacts
  <2>3. Preempted(x, L) = Preempted(p, L)
    BY <1>2, <1>7, SamePreempted
  <2>4. Preemptions(p) = Preempted(p, L)
    BY DEF Preemptions, Preempted, L
  <2> QED
    BY <1>1, <2>1, <2>2, <2>3, <2>4
<1>10. i \in Eligible(p)
  BY <1>6, <1>9 DEF Eligible, x, L
<1> QED
  BY <1>10

---------------------------------------------------------------------------
(* What the loops have passed *)

\* The loops have passed a merge: it comes before everything they still lead to.
PassedBy(index, m) ==
  \E k \in 1 .. Len(index) : m[k] < index[k] /\ \A j \in 1 .. (k - 1) : m[j] = index[j]

\* A path is a sequence of numbers too.
LEMMA PathNumbers ==
  ASSUME space \in Spaces, NEW p \in Seq(Actors)
  PROVE  p \in Seq(Nat)
<1>1. Actors \subseteq Nat /\ Len(p) \in Nat /\ DOMAIN p = 1 .. Len(p)
  BY SpaceFacts, LenProperties
<1>2. \A k \in 1 .. Len(p) : p[k] \in Nat
  BY <1>1, ElementOfSeq
<1>3. p \in [1 .. Len(p) -> Nat]
  BY <1>1, <1>2, LenProperties
<1> QED
  BY <1>1, <1>3

\* What the innermost loop adds to what the loops around it have passed.
LEMMA PassedLast ==
  ASSUME NEW index \in Seq(Nat), NEW t \in Seq(Nat), NEW n \in Nat, Len(index) = n + 1, Len(t) = n,
         Continues(index, t), NEW m
  PROVE  PassedBy(index, m) <=> PassedBy(t, m) \/ (m[n + 1] < index[n + 1] /\ Continues(m, t))
<1>0. \A k \in 1 .. n : t[k] = index[k]
  BY DEF Continues
<1>1. ASSUME PassedBy(index, m)
      PROVE  PassedBy(t, m) \/ (m[n + 1] < index[n + 1] /\ \A j \in 1 .. n : m[j] = t[j])
  <2>1. PICK k \in 1 .. (n + 1) : m[k] < index[k] /\ \A j \in 1 .. (k - 1) : m[j] = index[j]
    BY <1>1 DEF PassedBy
  <2>2. CASE k = n + 1
    <3>1. (n + 1) - 1 = n
      OBVIOUS
    <3> QED
      BY <1>0, <2>1, <2>2, <3>1
  <2>3. CASE k # n + 1
    <3>1. k \in 1 .. n /\ \A j \in 1 .. (k - 1) : j \in 1 .. n
      BY <2>3
    <3>2. m[k] < t[k] /\ \A j \in 1 .. (k - 1) : m[j] = t[j]
      BY <1>0, <2>1, <3>1
    <3> QED
      BY <3>1, <3>2 DEF PassedBy
  <2> QED
    BY <2>2, <2>3
<1>2. ASSUME PassedBy(t, m) PROVE PassedBy(index, m)
  <2>1. PICK k \in 1 .. n : m[k] < t[k] /\ \A j \in 1 .. (k - 1) : m[j] = t[j]
    BY <1>2 DEF PassedBy
  <2>2. k \in 1 .. (n + 1) /\ \A j \in 1 .. (k - 1) : j \in 1 .. n
    OBVIOUS
  <2>3. m[k] < index[k] /\ \A j \in 1 .. (k - 1) : m[j] = index[j]
    BY <1>0, <2>1, <2>2
  <2> QED
    BY <2>2, <2>3 DEF PassedBy
<1>3. ASSUME m[n + 1] < index[n + 1], \A j \in 1 .. n : m[j] = t[j] PROVE PassedBy(index, m)
  <2>1. n + 1 \in 1 .. (n + 1) /\ (n + 1) - 1 = n
    OBVIOUS
  <2>2. \A j \in 1 .. n : m[j] = index[j]
    BY <1>0, <1>3
  <2> QED
    BY <1>3, <2>1, <2>2 DEF PassedBy
<1> QED
  BY <1>1, <1>2, <1>3 DEF Continues

\* A loop that starts has passed nothing of its own.
LEMMA LoopStarts ==
  ASSUME space \in Spaces, NEW index \in Seq(Nat), Len(index) < Steps, NEW m \in Merges
  PROVE  PassedBy(Append(index, 1), m) <=> PassedBy(index, m)
<1> DEFINE n == Len(index)
           x == Append(index, 1)
<1>1. n \in Nat /\ Steps \in Nat /\ n < Steps
  BY LenProperties, StepsFacts
<1>2. x \in Seq(Nat) /\ Len(x) = n + 1 /\ x[n + 1] = 1 /\ \A k \in 1 .. n : x[k] = index[k]
  BY AppendProperties
<1>3. Len(index) = n
  OBVIOUS
<1> HIDE DEF n, x
<1>4. n + 1 \in 1 .. Steps
  BY <1>1
<1>5. m[n + 1] \in Nat \ {0}
  BY <1>4, MergeFacts
<1>6. ~(m[n + 1] < x[n + 1])
  BY <1>2, <1>5
<1>7. Continues(x, index)
  BY <1>2, <1>3 DEF Continues
<1>8. PassedBy(x, m) <=> PassedBy(index, m) \/ (m[n + 1] < x[n + 1] /\ Continues(m, index))
  BY <1>1, <1>2, <1>3, <1>7, PassedLast
<1> QED
  BY <1>6, <1>8 DEF x

\* The next index of a loop passes what continues the one before.
LEMMA LoopAdvances ==
  ASSUME NEW index \in Seq(Nat), index # <<>>, NEW m, \A k \in 1 .. Len(index) : m[k] \in Nat
  PROVE  PassedBy(Innermost(index, Last(index) + 1), m) <=>
           PassedBy(index, m) \/ Continues(m, index)
<1> DEFINE L == Len(index)
           v == Last(index)
           t == Front(index)
           x == Innermost(index, v + 1)
           n == L - 1
<1>1. /\ L \in Nat \ {0} /\ t \in Seq(Nat) /\ Len(t) = n /\ \A k \in 1 .. n : t[k] = index[k]
      /\ v = index[L] /\ v \in Nat
  BY FrontFacts
<1>2. v + 1 \in Nat
  BY <1>1
<1>3. x \in Seq(Nat) /\ Len(x) = L /\ (\A k \in 1 .. n : x[k] = index[k]) /\ x[L] = v + 1
  BY <1>2, InnermostFacts
<1>4. Len(index) = L /\ \A k \in 1 .. L : m[k] \in Nat
  OBVIOUS
<1> HIDE DEF L, v, t, x
<1>5. n \in Nat /\ L = n + 1 /\ L \in 1 .. L
  BY <1>1
<1> HIDE DEF n
<1>6. Continues(x, t) /\ Continues(index, t)
  BY <1>1, <1>3 DEF Continues
<1>7. PassedBy(index, m) <=> PassedBy(t, m) \/ (m[n + 1] < index[n + 1] /\ Continues(m, t))
  BY <1>1, <1>4, <1>5, <1>6, PassedLast
<1>8. PassedBy(x, m) <=> PassedBy(t, m) \/ (m[n + 1] < x[n + 1] /\ Continues(m, t))
  BY <1>1, <1>3, <1>5, <1>6, PassedLast
<1>9. m[L] < v + 1 <=> m[L] < v \/ m[L] = v
  BY <1>1, <1>4, <1>5
<1>10. Continues(m, index) <=> m[L] = v /\ Continues(m, t)
  <2>1. 1 .. L = (1 .. n) \cup {L}
    BY <1>5
  <2> QED
    BY <1>1, <1>4, <2>1 DEF Continues
<1>11. m[n + 1] = m[L] /\ index[n + 1] = v /\ x[n + 1] = v + 1
  BY <1>1, <1>3, <1>5
<1> QED
  BY <1>7, <1>8, <1>9, <1>10, <1>11 DEF L, v, x

\* The actors a loop has not come to yet.
Left(p, v) == {i \in Eligible(p) : i >= v}

\* Choosing the least eligible actor left passes no merge.
LEMMA LoopChooses ==
  ASSUME space \in Spaces, NEW p, Valid(p), Len(p) < Steps, NEW index \in Seq(Nat), Len(index) = Len(p) + 1,
         Continues(index, p), NEW c \in Left(p, Last(index)),
         \A j \in Left(p, Last(index)) : c <= j
  PROVE  /\ Innermost(index, c) = Append(p, c)
         /\ \A m \in Merges : PassedBy(Innermost(index, c), m) <=> PassedBy(index, m)
<1> DEFINE n == Len(p)
           v == Last(index)
           x == Innermost(index, c)
           y == Append(p, c)
<1>1. /\ n \in Nat /\ p \in Seq(Actors) /\ Steps \in Nat /\ n < Steps /\ Len(p) = n
      /\ \A k \in 1 .. n : index[k] = p[k]
  BY LenProperties, StepsFacts DEF Valid, Continues
<1>2. Len(index) = n + 1
  OBVIOUS
<1>3. p \in Seq(Nat)
  BY <1>1, PathNumbers
<1>4. index # <<>>
  BY <1>1, EmptySeq
<1>5. c \in Eligible(p) /\ c >= v /\ Eligible(p) \subseteq Actors /\ c \in Nat
  <2>1. c \in Eligible(p) /\ c >= v
    BY DEF Left
  <2> QED
    BY <2>1, SpaceFacts DEF Eligible
<1>6. v \in Nat /\ v = index[n + 1]
  BY <1>2, <1>4, FrontFacts
<1>7. /\ x \in Seq(Nat) /\ Len(x) = Len(index) /\ x[Len(index)] = c
      /\ \A k \in 1 .. (Len(index) - 1) : x[k] = index[k]
  BY <1>4, <1>5, InnermostFacts
<1>8. /\ y \in Seq(Nat) /\ Len(y) = n + 1 /\ y[n + 1] = c /\ \A k \in 1 .. n : y[k] = p[k]
  BY <1>3, <1>5, AppendProperties
<1>8a. \A j \in Left(p, v) : c <= j
  OBVIOUS
<1> HIDE DEF n, v, x, y
<1>9. x \in Seq(Nat) /\ Len(x) = n + 1 /\ x[n + 1] = c /\ \A k \in 1 .. n : x[k] = p[k]
  <2>1. (n + 1) - 1 = n
    BY <1>1
  <2> QED
    BY <1>1, <1>2, <1>7, <2>1
<1>10. x = y
  <2>1. ASSUME NEW k \in 1 .. Len(x) PROVE x[k] = y[k]
    <3>1. k \in 1 .. n \/ k = n + 1
      BY <1>1, <1>9
    <3> QED
      BY <1>8, <1>9, <3>1
  <2>2. Len(x) = Len(y)
    BY <1>8, <1>9
  <2> QED
    BY <1>8, <1>9, <2>1, <2>2, SeqEqual
<1>11. ASSUME NEW m \in Merges PROVE PassedBy(x, m) <=> PassedBy(index, m)
  <2>1. PassedBy(x, m) <=> PassedBy(p, m) \/ (m[n + 1] < x[n + 1] /\ Continues(m, p))
    <3>1. Continues(x, p)
      BY <1>1, <1>9 DEF Continues
    <3> QED
      BY <1>1, <1>3, <1>9, <3>1, PassedLast
  <2>2. PassedBy(index, m) <=> PassedBy(p, m) \/ (m[n + 1] < index[n + 1] /\ Continues(m, p))
    BY <1>1, <1>2, <1>3, PassedLast
  <2>3. ASSUME Continues(m, p) PROVE m[n + 1] < c <=> m[n + 1] < v
    <3>1. m[n + 1] \in Eligible(p)
      BY <1>1, <2>3, MergeContinues
    <3>2. m[n + 1] \in Nat
      BY <1>5, <3>1, SpaceFacts
    <3>3. m[n + 1] >= v => c <= m[n + 1]
      BY <1>8a, <3>1 DEF Left
    <3> QED
      BY <1>5, <1>6, <3>2, <3>3
  <2> QED
    BY <1>6, <1>9, <2>1, <2>2, <2>3
<1> QED
  BY <1>10, <1>11 DEF x, y

\* A loop with no eligible actor left has passed what continues its path.
LEMMA LoopExhausted ==
  ASSUME space \in Spaces, NEW p, Valid(p), Len(p) < Steps, NEW index \in Seq(Nat), Len(index) = Len(p) + 1,
         Continues(index, p), Left(p, Last(index)) = {}
  PROVE  /\ Front(index) = p
         /\ \A m \in Merges : PassedBy(index, m) <=> PassedBy(p, m) \/ Continues(m, p)
<1> DEFINE n == Len(p)
           v == Last(index)
           t == Front(index)
<1>1. /\ n \in Nat /\ p \in Seq(Actors) /\ Steps \in Nat /\ n < Steps /\ Len(p) = n
      /\ \A k \in 1 .. n : index[k] = p[k]
  BY LenProperties, StepsFacts DEF Valid, Continues
<1>2. Len(index) = n + 1
  OBVIOUS
<1>3. p \in Seq(Nat)
  BY <1>1, PathNumbers
<1>4. index # <<>>
  BY <1>1, EmptySeq
<1>5. /\ v \in Nat /\ v = index[n + 1] /\ t \in Seq(Nat) /\ Len(t) = (n + 1) - 1
      /\ \A k \in 1 .. ((n + 1) - 1) : t[k] = index[k]
  BY <1>2, <1>4, FrontFacts
<1>6. Left(p, v) = {}
  OBVIOUS
<1> HIDE DEF n, v, t
<1>7. t = p
  <2>1. Len(t) = n /\ \A k \in 1 .. n : t[k] = p[k]
    BY <1>1, <1>5
  <2> QED
    BY <1>1, <1>3, <1>5, <2>1, SeqEqual
<1>8. ASSUME NEW m \in Merges
      PROVE  PassedBy(index, m) <=> PassedBy(p, m) \/ Continues(m, p)
  <2>1. PassedBy(index, m) <=> PassedBy(p, m) \/ (m[n + 1] < index[n + 1] /\ Continues(m, p))
    BY <1>1, <1>2, <1>3, PassedLast
  <2>2. ASSUME Continues(m, p) PROVE m[n + 1] < v
    <3>1. m[n + 1] \in Eligible(p)
      BY <1>1, <2>2, MergeContinues
    <3>2. m[n + 1] \in Nat
      BY <3>1, SpaceFacts DEF Eligible
    <3>3. ~(m[n + 1] >= v)
      BY <1>6, <3>1 DEF Left
    <3> QED
      BY <1>5, <3>2, <3>3
  <2> QED
    BY <1>5, <2>1, <2>2
<1> QED
  BY <1>7, <1>8 DEF t, n

---------------------------------------------------------------------------
(* What was found *)

\* The least member of a set of numbers.
LEMMA Least ==
  ASSUME NEW T \in SUBSET Nat, T # {}
  PROVE  \E x \in T : \A y \in T : x <= y
<1> DEFINE R == OpToRel(<, Nat)
<1>1. IsWellFoundedOn(R, Nat)
  BY NatLessThanWellFounded, Zenon
<1>2. \E x \in T : \A y \in T : ~ (<<y, x>> \in R)
  <2> HIDE DEF R
  <2> QED
    BY <1>1, WFMin
<1>3. \A x, y \in Nat : y < x => <<y, x>> \in R
  BY DEF OpToRel
<1> HIDE DEF R
<1>4. PICK x \in T : \A y \in T : ~ (<<y, x>> \in R)
  BY <1>2
<1>5. ASSUME NEW y \in T PROVE x <= y
  <2>1. x \in Nat /\ y \in Nat
    OBVIOUS
  <2>2. ~(y < x)
    BY <1>3, <1>4, <2>1
  <2> QED
    BY <2>1, <2>2
<1> QED
  BY <1>5

\* What was passed comes before what was not.
LEMMA PassedFirst ==
  ASSUME space \in Spaces, NEW index \in Seq(Nat), Len(index) <= Steps,
         NEW f \in Merges, PassedBy(index, f), NEW m \in Merges, ~PassedBy(index, m)
  PROVE  Before(f, m)
<1> DEFINE L == Len(index)
<1>1. L \in Nat /\ Steps \in Nat /\ L <= Steps /\ \A k \in 1 .. L : index[k] \in Nat
  BY LenProperties, ElementOfSeq, StepsFacts
<1>2. \A k \in 1 .. Steps : f[k] \in Nat /\ m[k] \in Nat
  BY MergeFacts
<1>3. PICK k \in 1 .. L : f[k] < index[k] /\ \A j \in 1 .. (k - 1) : f[j] = index[j]
  BY DEF PassedBy
<1>4. \A l \in 1 .. L : ~(m[l] < index[l] /\ \A j \in 1 .. (l - 1) : m[j] = index[j])
  BY DEF PassedBy
<1> HIDE DEF L
<1>5. CASE \A j \in 1 .. (k - 1) : m[j] = index[j]
  <2>1. ~(m[k] < index[k])
    BY <1>4, <1>5
  <2>2. k \in 1 .. Steps
    BY <1>1
  <2>3. f[k] < m[k]
    BY <1>1, <1>2, <1>3, <2>1, <2>2
  <2> QED
    BY <1>3, <1>5, <2>2, <2>3 DEF Before
<1>6. CASE \E j \in 1 .. (k - 1) : m[j] # index[j]
  <2> DEFINE T == {j \in 1 .. (k - 1) : m[j] # index[j]}
  <2>1. T \in SUBSET Nat /\ T # {}
    BY <1>6
  <2>2. PICK l \in T : \A j \in T : l <= j
    BY <2>1, Least
  <2>3. l \in 1 .. (k - 1) /\ m[l] # index[l]
    OBVIOUS
  <2>4. \A j \in 1 .. (l - 1) : j \in 1 .. (k - 1) /\ ~(l <= j)
    BY <2>3
  <2>5. \A j \in 1 .. (l - 1) : m[j] = index[j]
    BY <2>2, <2>4
  <2>6. l \in 1 .. L /\ l \in 1 .. Steps
    BY <1>1, <2>3
  <2>7. ~(m[l] < index[l])
    BY <1>4, <2>5, <2>6
  <2>8. f[l] = index[l]
    BY <1>3, <2>3
  <2>9. f[l] < m[l]
    BY <1>1, <1>2, <2>3, <2>6, <2>7, <2>8
  <2>10. \A j \in 1 .. (l - 1) : f[j] = m[j]
    BY <1>3, <2>4, <2>5
  <2> QED
    BY <2>6, <2>9, <2>10 DEF Before
<1> QED
  BY <1>5, <1>6

\* The schedules are in order.
Ordered(found) == \A i, j \in 1 .. Len(found) : i < j => Before(found[i], found[j])

\* The schedules are the merges that the loops have passed, in order.
Sweep(index, found) ==
  /\ Ordered(found) /\ ToSet(found) \subseteq Merges
  /\ \A m \in Merges : m \in ToSet(found) <=> PassedBy(index, m)

\* The members of a list.
LEMMA Members ==
  ASSUME NEW S, NEW s \in Seq(S)
  PROVE  /\ Len(s) \in Nat /\ ToSet(s) = {s[k] : k \in 1 .. Len(s)} /\ ToSet(s) \subseteq S
         /\ \A k \in 1 .. Len(s) : s[k] \in ToSet(s) /\ s[k] \in S
         /\ \A x \in ToSet(s) : \E k \in 1 .. Len(s) : s[k] = x
<1>1. Len(s) \in Nat /\ DOMAIN s = 1 .. Len(s)
  BY LenProperties
<1>2. \A k \in 1 .. Len(s) : s[k] \in S
  BY ElementOfSeq
<1>3. ToSet(s) = {s[k] : k \in 1 .. Len(s)}
  BY <1>1 DEF ToSet
<1> QED
  BY <1>1, <1>2, <1>3

\* The members of a list with one more.
LEMMA MoreMembers ==
  ASSUME NEW S, NEW s \in Seq(S), NEW x \in S
  PROVE  /\ Append(s, x) \in Seq(S) /\ Len(Append(s, x)) = Len(s) + 1
         /\ \A k \in 1 .. Len(s) : Append(s, x)[k] = s[k]
         /\ Append(s, x)[Len(s) + 1] = x /\ ToSet(Append(s, x)) = ToSet(s) \cup {x}
<1> DEFINE t == Append(s, x)
           n == Len(s)
<1>1. t \in Seq(S) /\ Len(t) = n + 1 /\ (\A k \in 1 .. n : t[k] = s[k]) /\ t[n + 1] = x
  BY AppendProperties
<1>2. n \in Nat /\ ToSet(s) = {s[k] : k \in 1 .. n}
  BY Members
<1> HIDE DEF t, n
<1>3. ToSet(t) = {t[k] : k \in 1 .. (n + 1)}
  BY <1>1, Members
<1>4. 1 .. (n + 1) = (1 .. n) \cup {n + 1}
  BY <1>2
<1>5. ToSet(t) = ToSet(s) \cup {x}
  BY <1>1, <1>2, <1>3, <1>4
<1> QED
  BY <1>1, <1>5 DEF t, n

\* A sweep does not depend on more than what the loops have passed.
LEMMA SweepSame ==
  ASSUME NEW a, NEW b, NEW found, Sweep(a, found), \A m \in Merges : PassedBy(b, m) <=> PassedBy(a, m)
  PROVE  Sweep(b, found)
BY DEF Sweep

\* A merge that is found at the end of its path comes after the others.
LEMMA SweepMore ==
  ASSUME space \in Spaces, NEW p \in Merges, NEW found \in Seq(Seq(Actors)), Sweep(p, found),
         NEW b, \A m \in Merges : PassedBy(b, m) <=> PassedBy(p, m) \/ m = p
  PROVE  Append(found, p) \in Seq(Seq(Actors)) /\ Sweep(b, Append(found, p))
<1> DEFINE g == Append(found, p)
           n == Len(found)
<1>1. p \in Seq(Actors) /\ p \in Seq(Nat) /\ Len(p) = Steps /\ Steps \in Nat
  BY MergeFacts, PathNumbers, StepsFacts
<1>2. /\ g \in Seq(Seq(Actors)) /\ Len(g) = n + 1 /\ (\A k \in 1 .. n : g[k] = found[k]) /\ g[n + 1] = p
      /\ ToSet(g) = ToSet(found) \cup {p}
  BY <1>1, MoreMembers
<1>3. n \in Nat /\ \A k \in 1 .. n : found[k] \in ToSet(found)
  BY Members
<1>4. /\ \A i, j \in 1 .. n : i < j => Before(found[i], found[j])
      /\ ToSet(found) \subseteq Merges /\ \A m \in Merges : m \in ToSet(found) <=> PassedBy(p, m)
  BY DEF Sweep, Ordered
<1> HIDE DEF g, n
<1>5. ASSUME NEW k \in 1 .. n PROVE Before(found[k], p)
  <2>1. PassedBy(p, found[k])
    BY <1>3, <1>4
  <2>2. PICK l \in 1 .. Steps : found[k][l] < p[l] /\ \A j \in 1 .. (l - 1) : found[k][j] = p[j]
    BY <1>1, <2>1 DEF PassedBy
  <2> QED
    BY <2>2 DEF Before
<1>6. ASSUME NEW i \in 1 .. (n + 1), NEW j \in 1 .. (n + 1), i < j PROVE Before(g[i], g[j])
  <2>1. i \in 1 .. n
    BY <1>3, <1>6
  <2>2. CASE j \in 1 .. n
    BY <1>2, <1>4, <1>6, <2>1, <2>2
  <2>3. CASE j = n + 1
    BY <1>2, <1>5, <2>1, <2>3
  <2> QED
    BY <1>3, <2>2, <2>3
<1>7. Ordered(g)
  BY <1>2, <1>6 DEF Ordered
<1>8. ToSet(g) \subseteq Merges /\ \A m \in Merges : m \in ToSet(g) <=> PassedBy(b, m)
  BY <1>2, <1>4
<1>9. Sweep(b, g)
  BY <1>7, <1>8 DEF Sweep
<1> QED
  BY <1>2, <1>9 DEF g

\* Ordered schedules are different schedules: there are as many as they are.
LEMMA OrderedOnce ==
  ASSUME space \in Spaces, NEW found \in Seq(Seq(Actors)), Ordered(found), ToSet(found) \subseteq Merges
  PROVE  IsFiniteSet(ToSet(found)) /\ Cardinality(ToSet(found)) = Len(found)
<1> DEFINE n == Len(found)
<1>1. /\ n \in Nat /\ ToSet(found) = {found[k] : k \in 1 .. n} /\ \A k \in 1 .. n : found[k] \in ToSet(found)
      /\ \A x \in ToSet(found) : \E k \in 1 .. n : found[k] = x
  BY Members
<1>2. found \in [1 .. n -> ToSet(found)]
  <2>1. found \in [1 .. n -> Seq(Actors)]
    BY LenProperties
  <2> QED
    BY <1>1, <2>1
<1>3. \A i, j \in 1 .. n : i < j => Before(found[i], found[j])
  BY DEF Ordered
<1> HIDE DEF n
<1>4. ASSUME NEW m \in Merges, Before(m, m) PROVE FALSE
  <2>1. PICK k \in 1 .. Steps : m[k] < m[k]
    BY <1>4 DEF Before
  <2>2. m[k] \in Nat
    BY MergeFacts
  <2> QED
    BY <2>1, <2>2
<1>5. ASSUME NEW i \in 1 .. n, NEW j \in 1 .. n, found[i] = found[j] PROVE i = j
  <2>1. found[i] \in Merges
    BY <1>1
  <2>2. ~(i < j) /\ ~(j < i)
    BY <1>3, <1>4, <1>5, <2>1
  <2> QED
    BY <1>1, <2>2
<1>6. found \in Bijection(1 .. n, ToSet(found))
  BY <1>1, <1>2, <1>5 DEF Bijection, Injection, Surjection, IsInjective
<1>7. IsFiniteSet(1 .. n) /\ Cardinality(1 .. n) = n
  BY <1>1, FS_Interval
<1>8. ExistsBijection(1 .. n, ToSet(found))
  BY <1>6 DEF ExistsBijection
<1> QED
  BY <1>7, <1>8, FS_Bijection DEF n

\* There are finitely many merges.
LEMMA MergesFinite ==
  ASSUME space \in Spaces
  PROVE  IsFiniteSet(Merges) /\ Cardinality(Merges) \in Nat
<1> DEFINE D == 1 .. Steps
           G == SUBSET (D \X Actors)
           graph(m) == {<<k, m[k]>> : k \in D}
           f == [m \in Merges |-> graph(m)]
<1>1. Steps \in Nat /\ IsFiniteSet(Actors)
  BY StepsFacts, SpaceFacts
<1>2. IsFiniteSet(D)
  BY <1>1, FS_Interval
<1>3. IsFiniteSet(G)
  BY <1>1, <1>2, FS_Product, FS_SUBSET
<1>4. \A m \in Merges : m \in [D -> Actors]
  BY DEF Merges
<1> HIDE DEF D
<1>5. ASSUME NEW m \in Merges PROVE graph(m) \in G
  <2>1. \A k \in D : m[k] \in Actors
    BY <1>4
  <2> QED
    BY <2>1
<1>6. ASSUME NEW a \in Merges, NEW b \in Merges, graph(a) = graph(b) PROVE a = b
  <2>1. ASSUME NEW k \in D PROVE a[k] = b[k]
    <3>1. <<k, a[k]>> \in graph(b)
      BY <1>6
    <3>2. PICK j \in D : <<k, a[k]>> = <<j, b[j]>>
      BY <3>1
    <3> QED
      BY <3>2
  <2> QED
    BY <1>4, <2>1
<1> HIDE DEF graph, G
<1>7. f \in Injection(Merges, G)
  BY <1>5, <1>6 DEF Injection, IsInjective
<1>8. IsFiniteSet(Merges)
  <2> HIDE DEF f
  <2> QED
    BY <1>3, <1>7, FS_Injection
<1> QED
  BY <1>8, FS_CardinalityType

---------------------------------------------------------------------------
(* The search *)

SearchType ==
  [pc : {"declare", "visit", "loop", "over"}, current : Seq(Actors), index : Seq(Nat),
   schedules : Seq(Seq(Actors)), exhausted : BOOLEAN, reason : Reasons]
SearchTyped == space \in Spaces /\ search \in SearchType /\ Len(search.schedules) <= space.cap

\* Where the search is: the path, and a loop for each of its steps.
Frames ==
  /\ Valid(search.current) /\ search.exhausted /\ search.reason = ""
  /\ search.pc = "visit" => search.index = search.current
  /\ search.pc = "loop" =>
       /\ Len(search.index) = Len(search.current) + 1 /\ Len(search.current) < Steps
       /\ Continues(search.index, search.current)
       /\ Last(search.index) > 1 => search.schedules # <<>>
Swept == Sweep(search.index, search.schedules)
Unstarted ==
  /\ search.current = <<>> /\ search.index = <<>> /\ search.schedules = <<>>
  /\ search.exhausted /\ search.reason = ""

\* How the search ends.
Exact ==
  /\ Ordered(search.schedules) /\ ToSet(search.schedules) \subseteq Merges
  /\ \A m \in Merges : m \notin ToSet(search.schedules) =>
       ~search.exhausted /\ \A i \in 1 .. Len(search.schedules) : Before(search.schedules[i], m)
  /\ search.exhausted => search.schedules # <<>>
Outcome ==
  /\ search.exhausted <=> search.reason = ""
  /\ search.reason \in {"", "cancelled", "time_budget", "enumeration_limit"}
  /\ search.reason = "enumeration_limit" => Cardinality(Merges) > space.cap

Refused == campaign.reason = "invalid_declaration"
SearchGoes ==
  /\ search.pc = "declare" => Unstarted
  /\ search.pc \in {"visit", "loop"} => Frames /\ Swept
  /\ search.pc = "over" /\ ~Refused => Exact /\ Outcome

\* The fields of the search.
LEMMA SearchFacts ==
  ASSUME SearchTyped
  PROVE  /\ space \in Spaces /\ search.pc \in {"declare", "visit", "loop", "over"}
         /\ search.current \in Seq(Actors) /\ search.index \in Seq(Nat)
         /\ search.schedules \in Seq(Seq(Actors)) /\ search.exhausted \in BOOLEAN
         /\ search.reason \in Reasons /\ Len(search.schedules) \in Nat /\ space.cap \in Nat
         /\ Len(search.schedules) <= space.cap
<1>1. /\ space \in Spaces /\ search.pc \in {"declare", "visit", "loop", "over"}
      /\ search.current \in Seq(Actors) /\ search.index \in Seq(Nat)
      /\ search.schedules \in Seq(Seq(Actors)) /\ search.exhausted \in BOOLEAN
      /\ search.reason \in Reasons /\ Len(search.schedules) <= space.cap
  BY DEF SearchTyped, SearchType
<1>2. Len(search.schedules) \in Nat /\ space.cap \in Nat
  BY <1>1, LenProperties, SpaceFacts
<1> QED
  BY <1>1, <1>2

\* What depends on the declaration alone does not change.
LEMMA SameSpace ==
  ASSUME space' = space
  PROVE  Actors' = Actors /\ Steps' = Steps /\ Merges' = Merges
<1>1. Actors' = Actors
  BY DEF Actors
<1>2. Steps' = Steps
  BY <1>1 DEF Steps, Checkpoints
<1>3. Merges' = Merges
  BY <1>1, <1>2 DEF Merges, Preemptions, Preempts, Unfinished, Picked
<1> QED
  BY <1>1, <1>2, <1>3

\* The search after a step, in terms of the declaration before it.
LEMMA SearchAfter ==
  ASSUME space' = space
  PROVE  /\ Valid(search'.current) => Valid(search.current)'
         /\ Sweep(search'.index, search'.schedules) => Swept'
         /\ Ordered(search'.schedules) => Ordered(search.schedules)'
<1>1. Actors' = Actors /\ Steps' = Steps /\ Merges' = Merges
  BY SameSpace
<1>2. ASSUME Valid(search'.current) PROVE Valid(search.current)'
  BY <1>1, <1>2 DEF Valid, Preemptions, Preempts, Unfinished, Picked
<1>3. ASSUME Ordered(search'.schedules) PROVE Ordered(search.schedules)'
  BY <1>1, <1>3 DEF Ordered, Before
<1>4. ASSUME Sweep(search'.index, search'.schedules) PROVE Swept'
  BY <1>1, <1>3, <1>4 DEF Sweep, Swept
<1> QED
  BY <1>2, <1>3, <1>4

\* The type of the search after a step.
LEMMA SearchTypedAfter ==
  ASSUME space \in Spaces, space' = space, search' \in SearchType, Len(search'.schedules) <= space.cap
  PROVE  SearchTyped'
<1>1. SearchType' = SearchType
  BY SameSpace DEF SearchType
<1> QED
  BY <1>1 DEF SearchTyped

\* The steps of the search that do not end it.
EntersLoop == search' = [search EXCEPT !.pc = "loop", !.index = Append(@, 1)]
Chooses(c) == search' = [search EXCEPT !.pc = "visit", !.current = Append(@, c), !.index = Innermost(@, c)]
Returns(found) ==
  search' = [search EXCEPT !.pc = "loop", !.current = Front(search.current),
                           !.index = Innermost(search.current, Last(search.current) + 1),
                           !.schedules = found]

\* A call that has to choose starts its loop.
LEMMA EnterLoop ==
  ASSUME SearchTyped, Frames, Swept, search.pc = "visit", Len(search.current) < Steps, space' = space,
         EntersLoop
  PROVE  SearchTyped' /\ search'.pc = "loop" /\ Frames' /\ Swept'
<1> DEFINE p == search.current
           found == search.schedules
           x == Append(p, 1)
<1>1. /\ space \in Spaces /\ p \in Seq(Actors) /\ search.index = p
      /\ found \in Seq(Seq(Actors)) /\ search.exhausted \in BOOLEAN /\ search.reason \in Reasons
      /\ Len(found) <= space.cap /\ Valid(p) /\ search.exhausted /\ search.reason = ""
  BY SearchFacts DEF Frames
<1>2. p \in Seq(Nat) /\ Len(p) \in Nat
  BY <1>1, PathNumbers, LenProperties
<1>3. x \in Seq(Nat) /\ Len(x) = Len(p) + 1 /\ x[Len(p) + 1] = 1 /\ \A k \in 1 .. Len(p) : x[k] = p[k]
  BY <1>2, AppendProperties
<1>4. search' = [search EXCEPT !.pc = "loop", !.index = x] /\ search \in SearchType
  BY <1>1 DEF SearchTyped, SearchType, EntersLoop
<1>5. Len(p) < Steps
  OBVIOUS
<1>6. Sweep(p, found)
  BY <1>1 DEF Swept
<1> HIDE DEF x
<1>7. /\ SearchTyped' /\ search'.pc = "loop" /\ search'.current = p /\ search'.index = x
      /\ search'.schedules = found /\ search'.exhausted = search.exhausted /\ search'.reason = search.reason
  <2>1. /\ search'.pc = "loop" /\ search'.current = p /\ search'.index = x
        /\ search'.schedules = found /\ search'.exhausted = search.exhausted /\ search'.reason = search.reason
    BY <1>4 DEF SearchType
  <2>2. search' \in SearchType
    BY <1>3, <1>4 DEF SearchType
  <2> QED
    BY <1>1, <2>1, <2>2, SearchTypedAfter
<1> HIDE DEF p, found
<1>8. Swept'
  <2>1. \A m \in Merges : PassedBy(x, m) <=> PassedBy(p, m)
    BY <1>1, <1>2, <1>5, LoopStarts DEF x
  <2>2. Sweep(x, found)
    BY <1>6, <2>1, SweepSame
  <2> QED
    BY <1>7, <2>2, SearchAfter
<1>9. Frames'
  <2>1. Valid(search.current)'
    BY <1>1, <1>7, SearchAfter
  <2>2. Continues(x, p)
    BY <1>3 DEF Continues
  <2>3. Last(x) = 1
    BY <1>3 DEF Last
  <2>4. Steps' = Steps
    BY SameSpace
  <2>5. (search.exhausted /\ search.reason = "")'
    BY <1>1, <1>7
  <2>6. Len(search'.index) = Len(search'.current) + 1 /\ Len(search'.current) < Steps'
    BY <1>3, <1>5, <1>7, <2>4
  <2>7. Continues(search'.index, search'.current) /\ ~(Last(search'.index) > 1)
    BY <1>7, <2>2, <2>3
  <2> QED
    BY <1>7, <2>1, <2>5, <2>6, <2>7 DEF Frames
<1> QED
  BY <1>7, <1>8, <1>9

\* A loop goes on to the least actor that is left.
LEMMA ChooseActor ==
  ASSUME SearchTyped, Frames, Swept, search.pc = "loop", space' = space,
         NEW c \in Left(search.current, Last(search.index)),
         \A j \in Left(search.current, Last(search.index)) : c <= j,
         Chooses(c)
  PROVE  SearchTyped' /\ search'.pc = "visit" /\ Frames' /\ Swept'
<1> DEFINE p == search.current
           index == search.index
           found == search.schedules
           x == Append(p, c)
           y == Innermost(index, c)
<1>1. /\ space \in Spaces /\ p \in Seq(Actors) /\ index \in Seq(Nat)
      /\ found \in Seq(Seq(Actors)) /\ search.exhausted \in BOOLEAN /\ search.reason \in Reasons
      /\ Len(found) <= space.cap
  BY SearchFacts
<1>2. /\ Valid(p) /\ search.exhausted /\ search.reason = "" /\ Len(p) < Steps
      /\ Len(index) = Len(p) + 1 /\ Continues(index, p)
  BY DEF Frames
<1>3. Sweep(index, found)
  BY DEF Swept
<1>4. y = x /\ \A m \in Merges : PassedBy(y, m) <=> PassedBy(index, m)
  BY <1>1, <1>2, LoopChooses
<1>5. c \in Eligible(p)
  BY DEF Left
<1>6. Valid(x)
  BY <1>1, <1>2, <1>5, Extended
<1>7. x \in Seq(Actors) /\ x \in Seq(Nat)
  BY <1>1, <1>6, PathNumbers DEF Valid
<1>8. search' = [search EXCEPT !.pc = "visit", !.current = x, !.index = y] /\ search \in SearchType
  BY DEF SearchTyped, Chooses
<1> HIDE DEF x, y
<1>9. /\ SearchTyped' /\ search'.pc = "visit" /\ search'.current = x /\ search'.index = x
      /\ search'.schedules = found /\ search'.exhausted = search.exhausted /\ search'.reason = search.reason
  <2>1. /\ search'.pc = "visit" /\ search'.current = x /\ search'.index = x
        /\ search'.schedules = found /\ search'.exhausted = search.exhausted /\ search'.reason = search.reason
    BY <1>4, <1>8 DEF SearchType
  <2>2. search' \in SearchType
    BY <1>4, <1>7, <1>8 DEF SearchType
  <2> QED
    BY <1>1, <2>1, <2>2, SearchTypedAfter
<1> HIDE DEF p, found, index
<1>10. Swept'
  <2>1. Sweep(x, found)
    BY <1>3, <1>4, SweepSame
  <2> QED
    BY <1>9, <2>1, SearchAfter
<1>11. Frames'
  <2>1. Valid(search.current)'
    BY <1>6, <1>9, SearchAfter
  <2> QED
    BY <1>2, <1>9, <2>1 DEF Frames
<1> QED
  BY <1>9, <1>10, <1>11

\* The loop that made a call passes what continues the path of the call.
LEMMA NextPasses ==
  ASSUME space \in Spaces, NEW p, Valid(p), p # <<>>
  PROVE  \A m \in Merges :
           PassedBy(Innermost(p, Last(p) + 1), m) <=> PassedBy(p, m) \/ Continues(m, p)
<1>1. p \in Seq(Nat) /\ Steps \in Nat
  BY PathNumbers, StepsFacts DEF Valid
<1>2. Len(p) \in Nat /\ Len(p) <= Steps
  BY PathEnds
<1> TAKE m \in Merges
<1>3. \A k \in 1 .. Steps : m[k] \in Nat
  BY MergeFacts
<1>4. \A k \in 1 .. Len(p) : m[k] \in Nat
  BY <1>1, <1>2, <1>3
<1> QED
  BY <1>1, <1>4, LoopAdvances

\* A call returns to the loop that made it, which goes on.
LEMMA ReturnToLoop ==
  ASSUME SearchTyped, Frames, space' = space, search.current # <<>>,
         NEW found \in Seq(Seq(Actors)), Len(found) <= space.cap, found # <<>>,
         Sweep(Innermost(search.current, Last(search.current) + 1), found), Returns(found)
  PROVE  SearchTyped' /\ search'.pc = "loop" /\ Frames' /\ Swept'
<1> DEFINE p == search.current
           t == Front(p)
           v == Last(p)
           x == Innermost(p, v + 1)
<1>1. /\ space \in Spaces /\ p \in Seq(Actors) /\ search.exhausted \in BOOLEAN /\ search.reason \in Reasons
  BY SearchFacts
<1>2. Valid(p) /\ search.exhausted /\ search.reason = ""
  BY DEF Frames
<1>3. p \in Seq(Nat) /\ p # <<>> /\ Len(p) <= Steps /\ Steps \in Nat
  <2>1. p \in Seq(Nat)
    BY <1>1, PathNumbers
  <2>2. Len(p) <= Steps
    BY <1>1, <1>2, PathEnds
  <2> QED
    BY <1>1, <2>1, <2>2, StepsFacts
<1>4. /\ Len(p) \in Nat \ {0} /\ t \in Seq(Actors) /\ Len(t) = Len(p) - 1
      /\ \A k \in 1 .. (Len(p) - 1) : t[k] = p[k]
  BY <1>1, <1>3, FrontFacts
<1>5. v \in Nat /\ v = p[Len(p)] /\ v # 0
  <2>1. v = p[Len(p)] /\ v \in Actors
    BY <1>1, <1>3, FrontFacts
  <2> QED
    BY <1>1, <2>1, SpaceFacts
<1>6. v + 1 \in Nat /\ v + 1 > 1
  BY <1>5
<1>7. x \in Seq(Nat) /\ Len(x) = Len(p) /\ (\A k \in 1 .. (Len(p) - 1) : x[k] = p[k]) /\ x[Len(p)] = v + 1
  BY <1>3, <1>6, InnermostFacts
<1>8. Valid(t)
  BY <1>1, <1>2, <1>3, Shortened
<1>10. Sweep(x, found)
  OBVIOUS
<1>11. /\ search' = [search EXCEPT !.pc = "loop", !.current = t, !.index = x, !.schedules = found]
       /\ search \in SearchType
  BY DEF SearchTyped, Returns
<1> HIDE DEF t, x
<1>12. /\ SearchTyped' /\ search'.pc = "loop" /\ search'.current = t /\ search'.index = x
       /\ search'.schedules = found /\ search'.exhausted = search.exhausted /\ search'.reason = search.reason
  <2>1. /\ search'.pc = "loop" /\ search'.current = t /\ search'.index = x
        /\ search'.schedules = found /\ search'.exhausted = search.exhausted /\ search'.reason = search.reason
    BY <1>11 DEF SearchType
  <2>2. search' \in SearchType
    BY <1>4, <1>7, <1>11 DEF SearchType
  <2> QED
    BY <1>1, <2>1, <2>2, SearchTypedAfter
<1> HIDE DEF p, v
<1>13. Swept'
  BY <1>10, <1>12, SearchAfter
<1>14. Frames'
  <2>1. Valid(search.current)'
    BY <1>8, <1>12, SearchAfter
  <2>2. Len(x) = Len(t) + 1 /\ Len(t) < Steps
    BY <1>3, <1>4, <1>7
  <2>3. Continues(x, t)
    BY <1>4, <1>7 DEF Continues
  <2>4. Last(x) = v + 1
    BY <1>7 DEF Last
  <2>5. Steps' = Steps
    BY SameSpace
  <2> QED
    BY <1>2, <1>12, <2>1, <2>2, <2>3, <2>4, <2>5 DEF Frames
<1> QED
  BY <1>12, <1>13, <1>14

\* How the search ends: cut short, or with nothing left at its first choice.
CutsOff(reason) == search' = [search EXCEPT !.exhausted = FALSE, !.reason = reason, !.pc = "over"]
RunsOut == search' = [search EXCEPT !.index = Front(@), !.pc = "over"]

\* A search that is cut short has found the first merges, and at the limit there
\* is one more than it may keep.
LEMMA SearchCutOff ==
  ASSUME SearchTyped, Frames, Swept, search.pc = "visit", space' = space,
         NEW reason \in {"cancelled", "time_budget", "enumeration_limit"},
         reason = "enumeration_limit" => Len(search.current) = Steps /\ Len(search.schedules) = space.cap,
         CutsOff(reason)
  PROVE  /\ SearchTyped' /\ search'.pc = "over" /\ search'.reason = reason /\ Exact' /\ Outcome'
<1> DEFINE p == search.current
           found == search.schedules
<1>1. /\ space \in Spaces /\ found \in Seq(Seq(Actors)) /\ Len(found) <= space.cap /\ search \in SearchType
      /\ Len(found) \in Nat /\ space.cap \in Nat
  BY SearchFacts DEF SearchTyped
<1>2. Valid(p) /\ search.index = p /\ Sweep(p, found)
  BY DEF Frames, Swept
<1>3. p \in Seq(Actors) /\ p \in Seq(Nat) /\ Len(p) \in Nat /\ Len(p) <= Steps
  <2>1. p \in Seq(Actors)
    BY <1>2 DEF Valid
  <2> QED
    BY <1>1, <1>2, <2>1, PathEnds, PathNumbers
<1>4. reason \in Reasons
  BY DEF Reasons
<1>5. /\ search'.pc = "over" /\ search'.schedules = found
      /\ search'.exhausted = FALSE /\ search'.reason = reason
      /\ search' \in SearchType
  BY <1>1, <1>4 DEF SearchType, CutsOff
<1>6. SearchTyped'
  BY <1>1, <1>5, SearchTypedAfter
<1>7. Ordered(found) /\ ToSet(found) \subseteq Merges
      /\ \A m \in Merges : m \in ToSet(found) <=> PassedBy(p, m)
  BY <1>2 DEF Sweep
<1>8. Merges' = Merges /\ Steps' = Steps
  BY SameSpace
<1>9. \A k \in 1 .. Len(found) : found[k] \in ToSet(found)
  BY <1>1, Members
<1> HIDE DEF p, found
<1>10. ASSUME NEW m \in Merges, m \notin ToSet(found), NEW k \in 1 .. Len(found) PROVE Before(found[k], m)
  <2>1. ~PassedBy(p, m) /\ found[k] \in Merges /\ PassedBy(p, found[k])
    BY <1>7, <1>9, <1>10
  <2> QED
    BY <1>1, <1>3, <2>1, PassedFirst
<1>11. Exact'
  <2>1. Ordered(search.schedules)'
    BY <1>5, <1>7, SearchAfter
  <2>2. \A m \in Merges : m \notin ToSet(found) => \A i \in 1 .. Len(found) : \E k \in 1 .. Steps :
          found[i][k] < m[k] /\ \A j \in 1 .. (k - 1) : found[i][j] = m[j]
    BY <1>10 DEF Before
  <2>3. (\A m \in Merges : m \notin ToSet(search.schedules) =>
            ~search.exhausted /\ \A i \in 1 .. Len(search.schedules) : Before(search.schedules[i], m))'
    BY <1>5, <1>8, <2>2 DEF Before
  <2>4. (ToSet(search.schedules) \subseteq Merges)' /\ search'.exhausted = FALSE
    BY <1>5, <1>7, <1>8
  <2> QED
    BY <2>1, <2>3, <2>4 DEF Exact
<1>12. reason = "enumeration_limit" => Cardinality(Merges) > space.cap
  <2> SUFFICES ASSUME reason = "enumeration_limit" PROVE Cardinality(Merges) > space.cap
    OBVIOUS
  <2>1. Len(p) = Steps /\ Len(found) = space.cap
    BY DEF p, found
  <2>2. p \in Merges
    BY <1>1, <1>2, <2>1, PathEnds
  <2>3. ~PassedBy(p, p)
    <3>1. \A k \in 1 .. Len(p) : p[k] \in Nat
      BY <1>3, ElementOfSeq
    <3> QED
      BY <3>1 DEF PassedBy
  <2>4. p \notin ToSet(found)
    BY <1>7, <2>2, <2>3
  <2>5. IsFiniteSet(ToSet(found)) /\ Cardinality(ToSet(found)) = space.cap
    BY <1>1, <1>7, <2>1, OrderedOnce
  <2> DEFINE more == ToSet(found) \cup {p}
  <2>6. Cardinality(more) = space.cap + 1
    BY <2>4, <2>5, FS_AddElement
  <2>7. more \in SUBSET Merges
    BY <1>7, <2>2
  <2> HIDE DEF more
  <2>8. IsFiniteSet(Merges) /\ Cardinality(Merges) \in Nat
    BY <1>1, MergesFinite
  <2>9. Cardinality(more) <= Cardinality(Merges)
    BY <2>7, <2>8, FS_Subset
  <2> QED
    BY <1>1, <2>6, <2>8, <2>9
<1>13. Outcome'
  <2>1. search'.reason # "" /\ search'.exhausted = FALSE
    BY <1>5
  <2> QED
    BY <1>5, <1>8, <1>12, <2>1 DEF Outcome
<1> QED
  BY <1>5, <1>6, <1>11, <1>13

\* A loop with no actor left has had one, and so a merge was found.
LEMMA LoopHadOne ==
  ASSUME SearchTyped, Frames, search.pc = "loop", Left(search.current, Last(search.index)) = {}
  PROVE  search.schedules # <<>>
<1> DEFINE p == search.current
           v == Last(search.index)
<1>1. space \in Spaces /\ p \in Seq(Actors) /\ search.index \in Seq(Nat)
  BY SearchFacts
<1>2. /\ Valid(p) /\ Len(p) < Steps /\ Len(search.index) = Len(p) + 1
      /\ v > 1 => search.schedules # <<>>
  BY DEF Frames
<1>3. PICK i \in Eligible(p) : TRUE
  BY <1>1, <1>2, PathGoesOn
<1>4. i \in Nat \ {0}
  BY <1>1, SpaceFacts DEF Eligible
<1>5. ~(i >= v)
  BY <1>3 DEF Left
<1>6. v \in Nat
  <2>1. Len(p) \in Nat
    BY <1>1, LenProperties
  <2>2. search.index # <<>>
    BY <1>2, <2>1, EmptySeq
  <2> QED
    BY <1>1, <2>2, FrontFacts
<1>7. v > 1
  BY <1>4, <1>5, <1>6
<1> QED
  BY <1>2, <1>7

\* A search with nothing left at its first choice has found all merges.
LEMMA SearchRunsOut ==
  ASSUME SearchTyped, Frames, Swept, search.pc = "loop", space' = space, Len(search.current) = 0,
         Left(search.current, Last(search.index)) = {}, RunsOut
  PROVE  /\ SearchTyped' /\ search'.pc = "over" /\ search'.reason = "" /\ Exact' /\ Outcome'
<1> DEFINE p == search.current
           index == search.index
           found == search.schedules
<1>1. /\ space \in Spaces /\ found \in Seq(Seq(Actors)) /\ Len(found) <= space.cap /\ search \in SearchType
      /\ index \in Seq(Nat)
  BY SearchFacts DEF SearchTyped
<1>2. /\ Valid(p) /\ Sweep(index, found) /\ Len(p) < Steps /\ Len(index) = Len(p) + 1 /\ Continues(index, p)
      /\ search.exhausted /\ search.reason = ""
  BY DEF Frames, Swept
<1>3. found # <<>>
  BY LoopHadOne
<1>4. Len(p) = 0 /\ index # <<>>
  <2>1. Len(index) = Len(p) + 1
    BY DEF Frames
  <2> DEFINE n == Len(p)
  <2>2. n = 0
    OBVIOUS
  <2>3. Len(index) = n + 1
    BY <2>1
  <2> HIDE DEF n, index
  <2>4. Len(index) = 1
    BY <2>2, <2>3
  <2>5. index # <<>>
    BY <2>4
  <2> QED
    BY <2>2, <2>5 DEF n
<1>5. Front(index) \in Seq(Nat)
  BY <1>1, <1>4, FrontFacts
<1>6. /\ search'.pc = "over" /\ search'.schedules = found /\ search'.exhausted = search.exhausted
      /\ search'.reason = search.reason /\ search' \in SearchType
  BY <1>1, <1>5 DEF SearchType, RunsOut
<1>7. SearchTyped'
  BY <1>1, <1>6, SearchTypedAfter
<1>8. Ordered(found) /\ ToSet(found) \subseteq Merges
      /\ \A m \in Merges : m \in ToSet(found) <=> PassedBy(index, m)
  BY <1>2 DEF Sweep
<1>9. Merges' = Merges
  BY SameSpace
<1>10. Left(p, Last(index)) = {}
  OBVIOUS
<1> HIDE DEF p, found, index
<1>11. ASSUME NEW m \in Merges PROVE PassedBy(index, m)
  <2>1. Continues(m, p)
    BY <1>4 DEF Continues
  <2> QED
    BY <1>1, <1>2, <1>10, <2>1, LoopExhausted
<1>12. \A m \in Merges : m \in ToSet(found)
  BY <1>8, <1>11
<1>13. Exact'
  <2>1. Ordered(search.schedules)'
    BY <1>6, <1>8, SearchAfter
  <2>2. (\A m \in Merges : m \notin ToSet(search.schedules) =>
            ~search.exhausted /\ \A i \in 1 .. Len(search.schedules) : Before(search.schedules[i], m))'
    BY <1>6, <1>9, <1>12
  <2> QED
    BY <1>3, <1>6, <1>8, <1>9, <2>1, <2>2 DEF Exact
<1>14. Outcome'
  <2>1. search'.reason = ""
    BY <1>2, <1>6
  <2>2. search'.exhausted
    <3>1. search.exhausted \in BOOLEAN
      BY SearchFacts
    <3> QED
      BY <1>2, <1>6, <3>1
  <2>3. (search.exhausted <=> search.reason = "")'
    BY <2>1, <2>2
  <2> QED
    BY <2>1, <2>3 DEF Outcome
<1> QED
  BY <1>2, <1>6, <1>7, <1>13, <1>14

\* The two ways a step of the search leaves it: under way, or ended and handed
\* to the campaign.
Proceeds == search'.pc \in {"visit", "loop"} /\ Frames' /\ Swept' /\ campaign' = campaign
Handed == campaign' = [campaign EXCEPT !.pc = "next", !.reason = search'.reason]
Concludes ==
  /\ search'.pc = "over" /\ Exact' /\ Outcome' /\ Handed
  /\ search'.reason = "cancelled" => world.stop
  /\ search'.reason = "time_budget" => world.late

\* A call of visit.
LEMMA VisitStep ==
  ASSUME SearchTyped, SearchGoes, Visit
  PROVE  SearchTyped' /\ (Proceeds \/ Concludes)
<1> DEFINE p == search.current
           found == search.schedules
<1>1. search.pc = "visit" /\ Frames /\ Swept /\ space' = space
  BY DEF SearchGoes, Visit
<1>2. /\ space \in Spaces /\ p \in Seq(Actors) /\ found \in Seq(Seq(Actors)) /\ search \in SearchType
      /\ Len(found) \in Nat /\ space.cap \in Nat /\ Len(found) <= space.cap
  BY SearchFacts DEF SearchTyped
<1>3. Valid(p) /\ search.index = p
  BY <1>1 DEF Frames
<1>4. Len(p) \in Nat /\ Len(p) <= Steps /\ (Len(p) = Steps => p \in Merges) /\ Steps \in Nat \ {0}
  BY <1>2, <1>3, PathEnds, StepsFacts
<1>5. ASSUME NEW reason \in {"cancelled", "time_budget", "enumeration_limit"}, CutShort(reason),
             reason = "enumeration_limit" => Len(p) = Steps /\ Len(found) = space.cap,
             reason = "cancelled" => world.stop, reason = "time_budget" => world.late
      PROVE  SearchTyped' /\ (Proceeds \/ Concludes)
  <2>1. CutsOff(reason)
    BY <1>2, <1>5 DEF CutShort, Found, CutsOff, SearchType
  <2>2. campaign' = [campaign EXCEPT !.pc = "next", !.reason = reason]
    BY <1>2, <1>5 DEF CutShort, Found, SearchType
  <2>3. SearchTyped' /\ search'.pc = "over" /\ search'.reason = reason /\ Exact' /\ Outcome'
    BY <1>1, <1>5, <2>1, SearchCutOff
  <2> QED
    BY <1>5, <2>2, <2>3 DEF Concludes, Handed
<1>6. CASE world.stop \/ world.late
  <2> DEFINE reason == IF world.stop THEN "cancelled" ELSE "time_budget"
  <2>1. CutShort(reason)
    BY <1>6 DEF Visit
  <2>2. /\ reason \in {"cancelled", "time_budget", "enumeration_limit"} /\ reason # "enumeration_limit"
        /\ reason = "cancelled" => world.stop
        /\ reason = "time_budget" => world.late
    BY <1>6
  <2> HIDE DEF reason
  <2> QED
    BY <1>5, <2>1, <2>2
<1>7. CASE ~(world.stop \/ world.late) /\ Len(p) < Steps
  <2>1. EntersLoop /\ campaign' = campaign
    BY <1>7 DEF Visit, EntersLoop
  <2>2. SearchTyped' /\ search'.pc = "loop" /\ Frames' /\ Swept'
    BY <1>1, <1>7, <2>1, EnterLoop
  <2> QED
    BY <2>1, <2>2 DEF Proceeds
<1>8. CASE ~(world.stop \/ world.late) /\ ~(Len(p) < Steps) /\ AtLimit(search)
  <2>1. CutShort("enumeration_limit")
    BY <1>8 DEF Visit
  <2>2. Len(p) = Steps /\ Len(found) = space.cap
    BY <1>4, <1>8 DEF AtLimit
  <2> QED
    BY <1>5, <2>1, <2>2
<1>9. CASE ~(world.stop \/ world.late) /\ ~(Len(p) < Steps) /\ ~AtLimit(search)
  <2> DEFINE more == Append(found, p)
             x == Innermost(p, Last(p) + 1)
  <2>1. Backtrack([search EXCEPT !.schedules = more])
    BY <1>9 DEF Visit
  <2>2. Len(p) = Steps /\ p \in Merges /\ Len(found) # space.cap
    BY <1>4, <1>9 DEF AtLimit
  <2>3. p # <<>>
    BY <1>4, <2>2
  <2>4. Returns(more) /\ campaign' = campaign
    <3> HIDE DEF more
    <3> QED
      BY <1>2, <1>3, <2>1, <2>3 DEF Backtrack, Returns, SearchType
  <2>5. Sweep(p, found)
    BY <1>1, <1>3 DEF Swept
  <2>6. \A m \in Merges : PassedBy(x, m) <=> PassedBy(p, m) \/ m = p
    <3>1. \A m \in Merges : PassedBy(x, m) <=> PassedBy(p, m) \/ Continues(m, p)
      BY <1>2, <1>3, <2>3, NextPasses
    <3>2. ASSUME NEW m \in Merges PROVE Continues(m, p) <=> m = p
      <4>1. m \in Seq(Actors) /\ Len(m) = Len(p)
        BY <1>2, <2>2, MergeFacts
      <4>2. Continues(m, p) => m = p
        BY <1>2, <4>1, SeqEqual DEF Continues
      <4> QED
        BY <4>2 DEF Continues
    <3> QED
      BY <3>1, <3>2
  <2> HIDE DEF x
  <2>7. more \in Seq(Seq(Actors)) /\ Sweep(x, more)
    BY <1>2, <2>2, <2>5, <2>6, SweepMore
  <2>8. Len(more) = Len(found) + 1
    BY <1>2, AppendProperties
  <2> HIDE DEF more
  <2>9. Len(more) <= space.cap /\ Len(more) # 0
    BY <1>2, <2>2, <2>8
  <2>10. more # <<>>
    BY <2>9
  <2>11. SearchTyped' /\ search'.pc = "loop" /\ Frames' /\ Swept'
    BY <1>1, <2>3, <2>4, <2>7, <2>9, <2>10, ReturnToLoop DEF x
  <2> QED
    BY <2>4, <2>11 DEF Proceeds
<1> QED
  BY <1>6, <1>7, <1>8, <1>9

\* A turn of the loop.
LEMMA LoopStep ==
  ASSUME SearchTyped, SearchGoes, Loop
  PROVE  SearchTyped' /\ (Proceeds \/ Concludes)
<1> DEFINE p == search.current
           index == search.index
           found == search.schedules
           left == Left(p, Last(index))
<1>1. search.pc = "loop" /\ Frames /\ Swept /\ space' = space
  BY DEF SearchGoes, Loop
<1>2. /\ space \in Spaces /\ p \in Seq(Actors) /\ found \in Seq(Seq(Actors)) /\ search \in SearchType
      /\ Len(found) <= space.cap /\ index \in Seq(Nat)
  BY SearchFacts DEF SearchTyped
<1>3. /\ Valid(p) /\ Len(p) < Steps /\ Len(index) = Len(p) + 1 /\ Continues(index, p)
      /\ search.exhausted /\ search.reason = ""
  BY <1>1 DEF Frames
<1>4. CASE left # {}
  <2> DEFINE c == CHOOSE i \in left : \A j \in left : i <= j
  <2>1. left \in SUBSET Nat
    BY <1>2, SpaceFacts DEF Left, Eligible
  <2>2. \E i \in left : \A j \in left : i <= j
    BY <1>4, <2>1, Least
  <2>3. c \in left /\ \A j \in left : c <= j
    BY <2>2
  <2>4. Chooses(c) /\ campaign' = campaign
    BY <1>4 DEF Loop, Left, Chooses
  <2> HIDE DEF c
  <2>5. SearchTyped' /\ search'.pc = "visit" /\ Frames' /\ Swept'
    BY <1>1, <2>3, <2>4, ChooseActor
  <2> QED
    BY <2>4, <2>5 DEF Proceeds
<1>5. CASE left = {}
  <2>1. Backtrack([search EXCEPT !.index = Front(@)])
    BY <1>5 DEF Loop, Left
  <2>2. /\ Front(index) = p
        /\ \A m \in Merges : PassedBy(index, m) <=> PassedBy(p, m) \/ Continues(m, p)
    BY <1>2, <1>3, <1>5, LoopExhausted
  <2>3. Sweep(index, found)
    BY <1>1 DEF Swept
  <2>4. CASE p = <<>>
    <3>1. RunsOut
      BY <1>2, <2>1, <2>4 DEF Backtrack, Found, RunsOut, SearchType
    <3>2. campaign' = [campaign EXCEPT !.pc = "next", !.reason = search.reason]
      BY <1>2, <2>1, <2>4 DEF Backtrack, Found, SearchType
    <3>3. Len(search.current) = 0
      BY <2>4, EmptySeq
    <3>4. SearchTyped' /\ search'.pc = "over" /\ search'.reason = "" /\ Exact' /\ Outcome'
      BY <1>1, <1>5, <3>1, <3>3, SearchRunsOut
    <3> QED
      BY <1>3, <3>2, <3>4 DEF Concludes, Handed
  <2>5. CASE p # <<>>
    <3> DEFINE x == Innermost(p, Last(p) + 1)
    <3>1. Returns(found) /\ campaign' = campaign
      BY <1>2, <2>1, <2>2, <2>5 DEF Backtrack, Returns, SearchType
    <3>2. found # <<>>
      BY <1>1, <1>5, LoopHadOne
    <3>3. \A m \in Merges : PassedBy(x, m) <=> PassedBy(p, m) \/ Continues(m, p)
      BY <1>2, <1>3, <2>5, NextPasses
    <3> HIDE DEF x
    <3>4. \A m \in Merges : PassedBy(x, m) <=> PassedBy(index, m)
      BY <2>2, <3>3
    <3>5. Sweep(x, found)
      BY <2>3, <3>4, SweepSame
    <3>6. SearchTyped' /\ search'.pc = "loop" /\ Frames' /\ Swept'
      BY <1>1, <1>2, <2>5, <3>1, <3>2, <3>5, ReturnToLoop DEF x
    <3> QED
      BY <3>1, <3>6 DEF Proceeds
  <2> QED
    BY <2>4, <2>5
<1> QED
  BY <1>4, <1>5

---------------------------------------------------------------------------
(* The campaign *)

CampaignType ==
  [pc : {"wait", "next", "running", "over"}, attempted : 0 .. space.runs, completed : Nat,
   compared : Nat, edges : Nat, halt : BOOLEAN, reason : Reasons, schedule : Nat, input : Nat,
   failure : Nat, counterexample : Nat, complete : BOOLEAN]
CampaignTyped ==
  /\ world \in [stop : BOOLEAN, late : BOOLEAN] /\ campaign \in CampaignType
  /\ campaign.completed <= campaign.attempted /\ campaign.compared <= campaign.attempted
  /\ rows \in Seq(Row)

\* Nothing was run.
Idle ==
  /\ rows = <<>> /\ campaign.attempted = 0 /\ campaign.completed = 0 /\ campaign.compared = 0
  /\ campaign.edges = 0 /\ campaign.halt = FALSE /\ campaign.schedule = 1 /\ campaign.input = 0
  /\ campaign.failure = None /\ campaign.counterexample = None /\ campaign.complete = FALSE
Waiting ==
  /\ search.pc # "over" => campaign.pc = "wait" /\ campaign.reason = "" /\ Idle
  /\ search.pc = "over" => campaign.pc # "wait"
  /\ Refused => campaign.pc = "over" /\ Idle

\* The counters and the rows.
Counts ==
  /\ campaign.attempted = IF campaign.pc = "running" THEN Len(rows) + 1 ELSE Len(rows)
  /\ campaign.completed <= Len(rows) /\ campaign.compared <= Len(rows)
  /\ campaign.completed = Len(rows) <=> \A k \in 1 .. Len(rows) : rows[k].category = "passed"
  /\ campaign.completed = Len(rows) => campaign.edges = Len(rows) * Steps
RowsTrue ==
  \A k \in 1 .. Len(rows) :
    /\ rows[k].steps \in ToSet(search.schedules) /\ rows[k].input \in 0 .. (space.inputs - 1)
    /\ rows[k].category = "passed" => rows[k].clean /\ rows[k].good

\* Where the two loops are, and that the runs before it were made.
Place ==
  /\ campaign.schedule \in 1 .. (Len(search.schedules) + 1)
  /\ campaign.input \in 0 .. (space.inputs - 1)
  /\ campaign.schedule = Len(search.schedules) + 1 => campaign.input = 0
  /\ campaign.pc = "over" => campaign.schedule = Len(search.schedules) + 1
  /\ campaign.pc = "running" => campaign.schedule <= Len(search.schedules)
  /\ Len(rows) = (campaign.schedule - 1) * space.inputs + campaign.input
Ran(i, x) == i < campaign.schedule \/ (i = campaign.schedule /\ x < campaign.input)
Covered ==
  \A i \in 1 .. Len(search.schedules), x \in 0 .. (space.inputs - 1) :
    Ran(i, x) => \E k \in 1 .. Len(rows) : rows[k].steps = search.schedules[i] /\ rows[k].input = x
Sound == \A k \in 1 .. Len(rows) : rows[k].clean /\ rows[k].kept /\ ~rows[k].late

HaltReasons == {"cancelled", "time_budget", "run_limit", "coverage_limit", "evidence_limit",
                "unconfirmed_cleanup"}
\* The verdict and the reason.
Verdict ==
  /\ campaign.halt => campaign.pc = "over" /\ campaign.reason \in HaltReasons /\ campaign.complete = FALSE
  /\ campaign.pc \in {"next", "running"} => campaign.reason = search.reason /\ campaign.complete = FALSE
  /\ campaign.pc = "over" /\ ~campaign.halt =>
       /\ search.reason # "" => campaign.reason = search.reason /\ campaign.complete = FALSE
       /\ search.reason = "" /\ campaign.completed = Len(rows) =>
            campaign.reason = "complete" /\ campaign.complete = TRUE
       /\ search.reason = "" /\ campaign.completed # Len(rows) =>
            campaign.reason = "non_pass_runs" /\ campaign.complete = FALSE
  /\ campaign.reason = "cancelled" => world.stop
  /\ campaign.reason = "time_budget" => world.late
  /\ campaign.reason = "run_limit" => campaign.attempted = space.runs

CampaignGoes ==
  search.pc = "over" /\ ~Refused =>
    /\ Counts /\ RowsTrue /\ Verdict /\ FirstsAreFirst /\ UnknownCleanupStops
    /\ ~campaign.halt => Place /\ Covered /\ Sound

FiniteInv == SearchTyped /\ SearchGoes /\ CampaignTyped /\ Waiting /\ CampaignGoes

\* The fields of the campaign.
LEMMA CampaignFacts ==
  ASSUME space \in Spaces, NEW c \in CampaignType
  PROVE  /\ c.pc \in {"wait", "next", "running", "over"} /\ c.attempted \in Nat /\ c.attempted <= space.runs
         /\ c.completed \in Nat /\ c.compared \in Nat /\ c.edges \in Nat /\ c.halt \in BOOLEAN
         /\ c.reason \in Reasons /\ c.schedule \in Nat /\ c.input \in Nat /\ c.failure \in Nat
         /\ c.counterexample \in Nat /\ c.complete \in BOOLEAN
<1>1. space.runs \in Nat
  BY SpaceFacts
<1>2. c.attempted \in 0 .. space.runs
  BY DEF CampaignType
<1>3. c.attempted \in Nat /\ c.attempted <= space.runs
  BY <1>1, <1>2
<1> QED
  BY <1>3 DEF CampaignType

\* TypeOK is about the search and the campaign.
LEMMA Typed ==
  TypeOK <=> SearchTyped /\ CampaignTyped
BY DEF TypeOK, SearchTyped, CampaignTyped, SearchType, CampaignType

\* What a runner hands back, and how it is judged.
LEMMA SampleFacts ==
  ASSUME space \in Spaces, NEW s \in Samples \cup {Threw}
  PROVE  /\ s.bound \in BOOLEAN /\ s.clean \in BOOLEAN /\ s.passed \in BOOLEAN
         /\ Judged(s) \in Categories /\ Good(s) \in BOOLEAN /\ (s.bound /\ s.clean) \in BOOLEAN
         /\ Judged(s) = "passed" => /\ s.bound /\ s.clean /\ Good(s)
                                    /\ Entered(s) = {Steps}
<1>1. /\ s.bound \in BOOLEAN /\ s.clean \in BOOLEAN /\ s.passed \in BOOLEAN
      /\ s.comparison \in {"none", "matched", "mismatch", "failed", "foreign"}
      /\ s.evidence \in {"sound", "broken", "too_large"}
  <2>1. Threw \in Samples
    BY DEF Samples, Threw
  <2>2. s \in Samples
    BY <2>1
  <2> QED
    BY <2>2 DEF Samples
<1>2. space.compare \in BOOLEAN
  BY SpaceFacts
<1>3. Category(s) \in Categories
  BY DEF Category, Categories
<1>4. Judged(s) \in Categories
  BY <1>3 DEF Judged, Categories
<1>5. ASSUME Judged(s) = "passed"
      PROVE  s.bound /\ Category(s) = "passed" /\ s.evidence = "sound"
  BY <1>1, <1>5 DEF Judged
<1>6. ASSUME Category(s) = "passed"
      PROVE  /\ s.clean /\ s.passed
             /\ s.comparison = "matched" \/ (s.comparison = "none" /\ ~space.compare)
  BY <1>1, <1>2, <1>6 DEF Category
<1>7. Good(s) \in BOOLEAN /\ (s.bound /\ s.clean) \in BOOLEAN
  BY DEF Good
<1>8. ASSUME Judged(s) = "passed" PROVE s.bound /\ s.clean /\ Good(s) /\ Entered(s) = {Steps}
  BY <1>5, <1>6, <1>8 DEF Good, Entered
<1> QED
  BY <1>1, <1>4, <1>7, <1>8, Zenon

\* The fields that the end of a campaign leaves alone.
Kept(c, d) ==
  /\ d.attempted = c.attempted /\ d.completed = c.completed /\ d.compared = c.compared
  /\ d.edges = c.edges /\ d.schedule = c.schedule /\ d.input = c.input /\ d.failure = c.failure
  /\ d.counterexample = c.counterexample

\* A campaign that is halted.
LEMMA HaltFacts ==
  ASSUME NEW c \in CampaignType, NEW reason \in HaltReasons, Halt(c, reason)
  PROVE  /\ campaign' \in CampaignType /\ Kept(c, campaign') /\ campaign'.pc = "over"
         /\ campaign'.halt = TRUE /\ campaign'.complete = FALSE /\ campaign'.reason = reason
<1> DEFINE d == [c EXCEPT !.halt = TRUE, !.reason = reason]
<1>1. reason \in Reasons /\ reason # ""
  BY DEF Reasons, HaltReasons
<1>2. d \in CampaignType /\ Kept(c, d) /\ d.halt = TRUE /\ d.reason = reason
  BY <1>1 DEF CampaignType, Kept
<1>3. Finish(d)
  BY DEF Halt
<1> HIDE DEF d
<1>4. ~Complete(d)
  BY <1>2 DEF Complete
<1>5. campaign' = [d EXCEPT !.pc = "over", !.complete = FALSE, !.reason = reason]
  <2>1. Complete(d) = FALSE
    BY <1>4 DEF Complete
  <2>2. (IF d.reason # "" THEN d.reason
         ELSE IF d.completed = EligibleRuns THEN "complete" ELSE "non_pass_runs") = reason
    BY <1>1, <1>2
  <2> QED
    BY <1>3, <2>1, <2>2 DEF Finish
<1>6. /\ campaign' \in CampaignType /\ Kept(d, campaign') /\ campaign'.pc = "over"
      /\ campaign'.halt = d.halt /\ campaign'.complete = FALSE /\ campaign'.reason = reason
  BY <1>1, <1>2, <1>5 DEF CampaignType, Kept
<1> QED
  BY <1>2, <1>6 DEF Kept

\* A campaign whose loops end.
LEMMA FinishFacts ==
  ASSUME NEW c \in CampaignType, Finish(c)
  PROVE  /\ campaign' \in CampaignType /\ Kept(c, campaign') /\ campaign'.pc = "over"
         /\ campaign'.halt = c.halt /\ (campaign'.complete = TRUE <=> Complete(c))
         /\ campaign'.reason = IF c.reason # "" THEN c.reason
                               ELSE IF c.completed = EligibleRuns THEN "complete" ELSE "non_pass_runs"
<1> DEFINE r == IF c.reason # "" THEN c.reason
                ELSE IF c.completed = EligibleRuns THEN "complete" ELSE "non_pass_runs"
           b == Complete(c)
<1>1. r \in Reasons
  BY DEF Reasons, CampaignType
<1>2. b \in BOOLEAN
  BY DEF Complete
<1>3. campaign' = [c EXCEPT !.pc = "over", !.complete = b, !.reason = r]
  BY DEF Finish
<1> HIDE DEF r, b
<1>4. /\ campaign' \in CampaignType /\ Kept(c, campaign') /\ campaign'.pc = "over"
      /\ campaign'.halt = c.halt /\ campaign'.complete = b /\ campaign'.reason = r
  BY <1>1, <1>2, <1>3 DEF CampaignType, Kept
<1>5. b = TRUE <=> Complete(c)
  BY <1>2 DEF b
<1> QED
  BY <1>4, <1>5 DEF r

\* The first of a growing list of runs.
LEMMA FirstMore ==
  ASSUME NEW n \in Nat, NEW S \in SUBSET (1 .. n), NEW f, First(f, S)
  PROVE  /\ First(IF f = None THEN n + 1 ELSE f, S \cup {n + 1})
         /\ f \in Nat
<1>1. CASE S = {}
  <2>1. f = None
    BY <1>1 DEF First
  <2> QED
    BY <1>1, <2>1 DEF First, None
<1>2. CASE S # {}
  <2>1. f \in S /\ \A j \in S : f <= j
    BY <1>2 DEF First
  <2>2. f \in Nat /\ f # None /\ f <= n + 1
    BY <2>1 DEF None
  <2>3. \A j \in S \cup {n + 1} : f <= j
    BY <2>1, <2>2
  <2> QED
    BY <1>2, <2>1, <2>2, <2>3 DEF First
<1> QED
  BY <1>1, <1>2

\* The number of the first run with a property, after one more run.
LEMMA FirstAfter ==
  ASSUME NEW s \in Seq(Row), NEW r \in Row, NEW C \in SUBSET Categories, NEW f,
         First(f, {i \in DOMAIN s : s[i].category \in C})
  PROVE  First(IF r.category \in C /\ f = None THEN Len(s) + 1 ELSE f,
               {i \in DOMAIN Append(s, r) : Append(s, r)[i].category \in C})
<1> DEFINE n == Len(s)
           t == Append(s, r)
           S == {i \in DOMAIN s : s[i].category \in C}
           T == {i \in DOMAIN t : t[i].category \in C}
<1>1. n \in Nat /\ DOMAIN s = 1 .. n
  BY LenProperties
<1>2. t \in Seq(Row) /\ Len(t) = n + 1 /\ (\A k \in 1 .. n : t[k] = s[k]) /\ t[n + 1] = r
  BY AppendProperties
<1>3. DOMAIN t = 1 .. (n + 1)
  BY <1>2, LenProperties
<1>4. First(f, S)
  OBVIOUS
<1> HIDE DEF n, t
<1>5. S \in SUBSET (1 .. n)
  BY <1>1
<1>6. CASE r.category \in C
  <2>1. T = S \cup {n + 1}
    <3>1. 1 .. (n + 1) = (1 .. n) \cup {n + 1}
      BY <1>1
    <3> QED
      BY <1>1, <1>2, <1>3, <1>6, <3>1
  <2> HIDE DEF S, T
  <2>2. First(IF f = None THEN n + 1 ELSE f, T)
    BY <1>1, <1>4, <1>5, <2>1, FirstMore
  <2> QED
    BY <1>6, <2>2 DEF T, t, n
<1>7. CASE r.category \notin C
  <2>1. T = S
    <3>1. 1 .. (n + 1) = (1 .. n) \cup {n + 1}
      BY <1>1
    <3> QED
      BY <1>1, <1>2, <1>3, <1>7, <3>1
  <2> HIDE DEF S, T
  <2> QED
    BY <1>4, <1>7, <2>1 DEF T, t, n
<1> QED
  BY <1>6, <1>7

\* A search that is left alone stays what it is.
LEMMA SearchStays ==
  ASSUME SearchTyped, SearchGoes, UNCHANGED <<space, search>>, search.pc = "over" /\ Refused => Refused'
  PROVE  SearchTyped' /\ SearchGoes'
<1>1. space' = space /\ search' = search
  OBVIOUS
<1>2. Actors' = Actors /\ Steps' = Steps /\ Merges' = Merges
  BY <1>1, SameSpace
<1>3. /\ Valid(search.current) => Valid(search.current)'
      /\ Swept => Swept'
      /\ Ordered(search.schedules) => Ordered(search.schedules)'
  BY <1>1, SearchAfter DEF Swept
<1>4. SearchTyped'
  BY <1>1, <1>2 DEF SearchTyped, SearchType
<1>5. Frames => Frames'
  BY <1>1, <1>2, <1>3 DEF Frames
<1>6. Exact => Exact'
  <2> SUFFICES ASSUME Exact PROVE Exact'
    OBVIOUS
  <2>1. (\A m \in Merges : m \notin ToSet(search.schedules) =>
            ~search.exhausted /\ \A i \in 1 .. Len(search.schedules) : Before(search.schedules[i], m))'
    BY <1>1, <1>2 DEF Exact, Before
  <2> QED
    BY <1>1, <1>2, <1>3, <2>1 DEF Exact
<1>7. Outcome => Outcome'
  BY <1>1, <1>2 DEF Outcome
<1>8. Unstarted => Unstarted'
  BY <1>1 DEF Unstarted
<1>9. SearchGoes'
  BY <1>1, <1>3, <1>5, <1>6, <1>7, <1>8 DEF SearchGoes
<1> QED
  BY <1>4, <1>9

\* The type of the campaign after a step.
LEMMA CampaignTypedAfter ==
  ASSUME space' = space, world' \in [stop : BOOLEAN, late : BOOLEAN], campaign' \in CampaignType,
         campaign'.completed <= campaign'.attempted, campaign'.compared <= campaign'.attempted,
         rows' \in Seq(Row)
  PROVE  CampaignTyped'
<1>1. CampaignType' = CampaignType
  BY DEF CampaignType
<1> QED
  BY <1>1 DEF CampaignTyped

\* What the rows say does not change while they do not.
LEMMA RowsStay ==
  ASSUME UNCHANGED <<space, search, rows>>
  PROVE  /\ RowsTrue => RowsTrue'
         /\ Sound => Sound'
         /\ campaign'.schedule = campaign.schedule /\ campaign'.input = campaign.input /\ Covered => Covered'
         /\ /\ campaign'.failure = campaign.failure /\ campaign'.counterexample = campaign.counterexample
            /\ FirstsAreFirst
            => FirstsAreFirst'
<1>1. space' = space /\ search' = search /\ rows' = rows
  OBVIOUS
<1>2. RowsTrue => RowsTrue'
  BY <1>1 DEF RowsTrue
<1>3. Sound => Sound'
  BY <1>1 DEF Sound
<1>4. campaign'.schedule = campaign.schedule /\ campaign'.input = campaign.input /\ Covered => Covered'
  BY <1>1 DEF Covered, Ran
<1>5. /\ campaign'.failure = campaign.failure /\ campaign'.counterexample = campaign.counterexample
      /\ FirstsAreFirst
      => FirstsAreFirst'
  BY <1>1 DEF FirstsAreFirst, First
<1> QED
  BY <1>2, <1>3, <1>4, <1>5

\* A campaign that goes on.
LEMMA Started ==
  ASSUME FiniteInv, campaign.pc \in {"next", "running"}
  PROVE  /\ search.pc = "over" /\ ~Refused /\ campaign.halt = FALSE /\ Exact /\ Outcome
         /\ Counts /\ RowsTrue /\ Verdict /\ FirstsAreFirst /\ UnknownCleanupStops
         /\ Place /\ Covered /\ Sound
         /\ space \in Spaces /\ campaign \in CampaignType /\ rows \in Seq(Row)
         /\ world \in [stop : BOOLEAN, late : BOOLEAN]
<1>1. search.pc = "over" /\ ~Refused
  BY DEF FiniteInv, Waiting
<1>2. space \in Spaces /\ campaign \in CampaignType /\ rows \in Seq(Row)
      /\ world \in [stop : BOOLEAN, late : BOOLEAN]
  BY DEF FiniteInv, SearchTyped, CampaignTyped
<1>3. Counts /\ RowsTrue /\ Verdict /\ FirstsAreFirst /\ UnknownCleanupStops
  BY <1>1 DEF FiniteInv, CampaignGoes
<1>4. campaign.halt \in BOOLEAN
  BY <1>2, CampaignFacts
<1>5. ~campaign.halt
  BY <1>3 DEF Verdict
<1>6. campaign.halt = FALSE
  BY <1>4, <1>5
<1>7. Place /\ Covered /\ Sound
  BY <1>1, <1>5 DEF FiniteInv, CampaignGoes
<1>8. Exact /\ Outcome
  BY <1>1 DEF FiniteInv, SearchGoes
<1> QED
  BY <1>1, <1>2, <1>3, <1>6, <1>7, <1>8

\* The numbers of a campaign.
LEMMA Numbers ==
  ASSUME SearchTyped, CampaignTyped
  PROVE  /\ space \in Spaces /\ space.inputs \in Nat \ {0} /\ space.runs \in Nat /\ Steps \in Nat
         /\ Len(search.schedules) \in Nat /\ Len(rows) \in Nat /\ DOMAIN rows = 1 .. Len(rows)
         /\ campaign.attempted \in Nat /\ campaign.attempted <= space.runs /\ campaign.completed \in Nat
         /\ campaign.compared \in Nat /\ campaign.edges \in Nat /\ campaign.schedule \in Nat
         /\ campaign.input \in Nat
<1>1. space \in Spaces /\ campaign \in CampaignType /\ rows \in Seq(Row)
  BY DEF SearchTyped, CampaignTyped
<1>2. Len(rows) \in Nat /\ DOMAIN rows = 1 .. Len(rows) /\ Len(search.schedules) \in Nat
  BY <1>1, LenProperties, SearchFacts
<1>3. space.inputs \in Nat \ {0} /\ space.runs \in Nat /\ Steps \in Nat
  BY <1>1, SpaceFacts, StepsFacts
<1> QED
  BY <1>1, <1>2, <1>3, CampaignFacts

\* What the counters of a campaign say of its rows.
Tallied(c, r) ==
  /\ c.attempted = Len(r) /\ c.completed <= Len(r) /\ c.compared <= Len(r)
  /\ c.completed = Len(r) <=> \A k \in 1 .. Len(r) : r[k].category = "passed"
  /\ c.completed = Len(r) => c.edges = Len(r) * Steps
  /\ First(c.failure, {i \in DOMAIN r : r[i].category # "passed"})
  /\ First(c.counterexample, {i \in DOMAIN r : r[i].category = "model_mismatch"})
SameTotals(c, d) ==
  /\ d.attempted = c.attempted /\ d.completed = c.completed /\ d.compared = c.compared
  /\ d.edges = c.edges /\ d.failure = c.failure /\ d.counterexample = c.counterexample

\* The counters after a step that leaves no run under way.
LEMMA TalliedAfter ==
  ASSUME space' = space, NEW c, Tallied(c, rows'), SameTotals(c, campaign'), campaign'.pc # "running"
  PROVE  Counts' /\ FirstsAreFirst'
<1>1. Steps' = Steps
  BY SameSpace
<1>2. /\ campaign'.attempted = c.attempted /\ campaign'.completed = c.completed
      /\ campaign'.compared = c.compared /\ campaign'.edges = c.edges
      /\ campaign'.failure = c.failure /\ campaign'.counterexample = c.counterexample
  BY DEF SameTotals
<1>3. Counts'
  BY <1>1, <1>2 DEF Counts, Tallied
<1>4. FirstsAreFirst'
  BY <1>2 DEF FirstsAreFirst, Tallied, First
<1> QED
  BY <1>3, <1>4

\* The campaign between two runs.
LEMMA TalliedNext ==
  ASSUME Counts, FirstsAreFirst, campaign.pc = "next"
  PROVE  Tallied(campaign, rows)
<1>1. campaign.attempted = Len(rows)
  BY DEF Counts
<1> QED
  BY <1>1 DEF Tallied, Counts, FirstsAreFirst

\* A step of the campaign preserves the invariant when it preserves the parts of
\* the campaign.
LEMMA CampaignKeeps ==
  ASSUME FiniteInv, search.pc = "over", UNCHANGED <<space, search>>, campaign'.pc # "wait",
         campaign'.reason # "invalid_declaration", CampaignTyped', Counts', RowsTrue', Verdict',
         FirstsAreFirst', UnknownCleanupStops', campaign'.halt \/ (Place' /\ Covered' /\ Sound'), ~Refused
  PROVE  FiniteInv'
<1>1. ~Refused'
  BY DEF Refused
<1>2. SearchTyped' /\ SearchGoes'
  BY SearchStays DEF FiniteInv
<1>3. search'.pc = "over"
  OBVIOUS
<1>4. Waiting'
  BY <1>1, <1>3 DEF Waiting
<1>5. CampaignGoes'
  BY DEF CampaignGoes
<1> QED
  BY <1>2, <1>4, <1>5 DEF FiniteInv

\* A campaign is halted.
LEMMA HaltStep ==
  ASSUME FiniteInv, campaign.pc \in {"next", "running"}, UNCHANGED <<space, search, world>>,
         NEW c \in CampaignType, NEW reason \in HaltReasons, Halt(c, reason), rows' \in Seq(Row),
         Tallied(c, rows'), RowsTrue',
         reason = "cancelled" => world.stop, reason = "time_budget" => world.late,
         reason = "run_limit" => c.attempted = space.runs,
         \A i \in 1 .. Len(rows') : ~rows'[i].clean => i = c.attempted
  PROVE  FiniteInv'
<1>1. /\ campaign' \in CampaignType /\ Kept(c, campaign') /\ campaign'.pc = "over"
      /\ campaign'.halt = TRUE /\ campaign'.complete = FALSE /\ campaign'.reason = reason
  BY HaltFacts
<1>2. search.pc = "over" /\ ~Refused /\ space \in Spaces /\ world \in [stop : BOOLEAN, late : BOOLEAN]
  BY Started
<1>3. SameTotals(c, campaign')
  BY <1>1 DEF Kept, SameTotals
<1>4. Counts' /\ FirstsAreFirst'
  BY <1>1, <1>3, TalliedAfter
<1>5. /\ campaign'.attempted = c.attempted /\ campaign'.completed = c.completed
      /\ campaign'.compared = c.compared
  BY <1>3 DEF SameTotals
<1>6. CampaignTyped'
  <2>1. campaign'.completed <= campaign'.attempted /\ campaign'.compared <= campaign'.attempted
    BY <1>5 DEF Tallied
  <2>2. world' \in [stop : BOOLEAN, late : BOOLEAN] /\ space' = space
    BY <1>2
  <2> QED
    BY <1>1, <2>1, <2>2, CampaignTypedAfter
<1>7. UnknownCleanupStops'
  <2>1. DOMAIN rows' = 1 .. Len(rows')
    BY LenProperties
  <2> QED
    BY <1>1, <1>5, <2>1 DEF UnknownCleanupStops
<1>8. Verdict'
  BY <1>1, <1>5 DEF Verdict, HaltReasons
<1>9. campaign'.reason # "invalid_declaration" /\ campaign'.pc # "wait" /\ campaign'.halt
  BY <1>1 DEF HaltReasons
<1> QED
  BY <1>2, <1>4, <1>6, <1>7, <1>8, <1>9, CampaignKeeps

\* A campaign with nothing left to run.
LEMMA LoopsEnd ==
  ASSUME FiniteInv, campaign.pc = "next", UNCHANGED <<space, search, world, rows>>,
         campaign.schedule > Len(search.schedules), Finish(campaign)
  PROVE  FiniteInv'
<1> DEFINE n == Len(search.schedules)
<1>1. /\ search.pc = "over" /\ ~Refused /\ campaign.halt = FALSE /\ Outcome
      /\ Counts /\ RowsTrue /\ Verdict /\ FirstsAreFirst /\ Place /\ Covered /\ Sound
      /\ space \in Spaces /\ campaign \in CampaignType /\ rows \in Seq(Row)
      /\ world \in [stop : BOOLEAN, late : BOOLEAN]
  BY Started
<1>2. /\ space.inputs \in Nat \ {0} /\ n \in Nat /\ Len(rows) \in Nat /\ DOMAIN rows = 1 .. Len(rows)
      /\ campaign.attempted \in Nat /\ campaign.completed \in Nat /\ campaign.schedule \in Nat
  BY Numbers DEF FiniteInv
<1>3. /\ campaign' \in CampaignType /\ Kept(campaign, campaign') /\ campaign'.pc = "over"
      /\ campaign'.halt = campaign.halt /\ (campaign'.complete = TRUE <=> Complete(campaign))
      /\ campaign'.reason = IF campaign.reason # "" THEN campaign.reason
                            ELSE IF campaign.completed = EligibleRuns THEN "complete" ELSE "non_pass_runs"
  BY <1>1, FinishFacts
<1>4. campaign.schedule = n + 1 /\ campaign.input = 0
  <2>1. campaign.schedule <= n + 1
    BY <1>1, <1>2 DEF Place
  <2>2. campaign.schedule = n + 1
    BY <1>2, <2>1
  <2> QED
    BY <1>1, <2>2 DEF Place
<1>5. Len(rows) = EligibleRuns
  <2>1. Len(rows) = (campaign.schedule - 1) * space.inputs + campaign.input
    BY <1>1 DEF Place
  <2>2. (n + 1) - 1 = n
    BY <1>2
  <2>3. n * space.inputs \in Nat
    BY <1>2
  <2>4. Len(rows) = n * space.inputs + 0
    BY <1>4, <2>1, <2>2
  <2> QED
    BY <2>3, <2>4 DEF EligibleRuns
<1>6. /\ campaign'.attempted = campaign.attempted /\ campaign'.completed = campaign.completed
      /\ campaign'.compared = campaign.compared /\ campaign'.schedule = campaign.schedule
      /\ campaign'.input = campaign.input /\ SameTotals(campaign, campaign')
  BY <1>3 DEF Kept, SameTotals
<1>7. campaign.attempted = Len(rows) /\ campaign.reason = search.reason
  BY <1>1 DEF Counts, Verdict
<1>8. Counts' /\ FirstsAreFirst'
  BY <1>1, <1>3, <1>6, TalliedNext, TalliedAfter
<1>9. CampaignTyped'
  <2>1. campaign.completed <= campaign.attempted /\ campaign.compared <= campaign.attempted
    BY DEF FiniteInv, CampaignTyped
  <2>2. campaign'.completed <= campaign'.attempted /\ campaign'.compared <= campaign'.attempted
    BY <1>6, <2>1
  <2> QED
    BY <1>1, <1>3, <2>2, CampaignTypedAfter
<1>10. RowsTrue' /\ Sound' /\ Covered'
  BY <1>1, <1>6, RowsStay
<1>11. Place'
  <2>1. (campaign.schedule \in 1 .. (Len(search.schedules) + 1))'
    BY <1>1, <1>6 DEF Place
  <2>2. (Len(rows) = (campaign.schedule - 1) * space.inputs + campaign.input)'
    BY <1>1, <1>6 DEF Place
  <2> QED
    BY <1>1, <1>3, <1>4, <1>6, <2>1, <2>2 DEF Place
<1>12. UnknownCleanupStops'
  BY <1>1, <1>2 DEF UnknownCleanupStops, Sound
<1>13. Verdict'
  <2>1. search.exhausted <=> search.reason = ""
    BY <1>1 DEF Outcome
  <2>2. Complete(campaign) <=> search.reason = "" /\ campaign.completed = Len(rows)
    BY <1>1, <1>5, <1>7, <2>1 DEF Complete
  <2>3. campaign'.complete \in BOOLEAN
    BY <1>1, <1>3, CampaignFacts
  <2>4. campaign'.reason = IF search.reason # "" THEN search.reason
                           ELSE IF campaign.completed = Len(rows) THEN "complete" ELSE "non_pass_runs"
    BY <1>3, <1>5, <1>7
  <2>5. /\ search.reason # "" => campaign'.reason = search.reason /\ campaign'.complete = FALSE
        /\ search.reason = "" /\ campaign'.completed = Len(rows) =>
             campaign'.reason = "complete" /\ campaign'.complete = TRUE
        /\ search.reason = "" /\ campaign'.completed # Len(rows) =>
             campaign'.reason = "non_pass_runs" /\ campaign'.complete = FALSE
    BY <1>3, <1>6, <2>2, <2>3, <2>4
  <2>6. /\ campaign'.reason = "cancelled" => world.stop
        /\ campaign'.reason = "time_budget" => world.late
        /\ campaign'.reason = "run_limit" => campaign'.attempted = space.runs
    BY <1>1, <1>6, <1>7, <2>4 DEF Verdict
  <2>7. campaign'.pc = "over" /\ campaign'.halt = FALSE
    BY <1>1, <1>3
  <2> QED
    BY <2>5, <2>6, <2>7 DEF Verdict
<1>14. campaign'.reason # "invalid_declaration"
  BY <1>1, <1>3, <1>7 DEF Outcome
<1> QED
  BY <1>1, <1>3, <1>8, <1>9, <1>10, <1>11, <1>12, <1>13, <1>14, CampaignKeeps

\* The next run begins.
LEMMA RunBegins ==
  ASSUME FiniteInv, campaign.pc = "next", UNCHANGED <<space, search, world, rows>>,
         ~(campaign.schedule > Len(search.schedules)), ~OutOfRuns,
         campaign' = [campaign EXCEPT !.pc = "running", !.attempted = @ + 1]
  PROVE  FiniteInv'
<1>1. /\ search.pc = "over" /\ ~Refused /\ campaign.halt = FALSE /\ Outcome
      /\ Counts /\ RowsTrue /\ Verdict /\ FirstsAreFirst /\ Place /\ Covered /\ Sound
      /\ space \in Spaces /\ campaign \in CampaignType /\ rows \in Seq(Row)
      /\ world \in [stop : BOOLEAN, late : BOOLEAN]
  BY Started
<1>2. /\ space.runs \in Nat /\ Len(rows) \in Nat /\ DOMAIN rows = 1 .. Len(rows)
      /\ Len(search.schedules) \in Nat
      /\ campaign.attempted \in Nat /\ campaign.completed \in Nat /\ campaign.compared \in Nat
      /\ campaign.schedule \in Nat
  BY Numbers DEF FiniteInv
<1>3. campaign.attempted + 1 \in 0 .. space.runs
  BY <1>2 DEF OutOfRuns
<1>4. /\ campaign'.pc = "running" /\ campaign'.attempted = campaign.attempted + 1
      /\ campaign'.completed = campaign.completed /\ campaign'.compared = campaign.compared
      /\ campaign'.edges = campaign.edges /\ campaign'.halt = campaign.halt
      /\ campaign'.reason = campaign.reason /\ campaign'.schedule = campaign.schedule
      /\ campaign'.input = campaign.input /\ campaign'.failure = campaign.failure
      /\ campaign'.counterexample = campaign.counterexample /\ campaign'.complete = campaign.complete
  BY <1>1 DEF CampaignType
<1>5. campaign' \in CampaignType
  BY <1>1, <1>3 DEF CampaignType
<1>6. CampaignTyped'
  <2>1. campaign.completed <= campaign.attempted /\ campaign.compared <= campaign.attempted
    BY DEF FiniteInv, CampaignTyped
  <2>2. campaign'.completed <= campaign'.attempted /\ campaign'.compared <= campaign'.attempted
    BY <1>2, <1>4, <2>1
  <2> QED
    BY <1>1, <1>5, <2>2, CampaignTypedAfter
<1>7. Counts'
  <2>1. Steps' = Steps
    BY SameSpace
  <2>2. campaign.attempted = Len(rows)
    BY <1>1 DEF Counts
  <2> QED
    BY <1>1, <1>4, <2>1, <2>2 DEF Counts
<1>8. RowsTrue' /\ Sound' /\ Covered' /\ FirstsAreFirst'
  BY <1>1, <1>4, RowsStay
<1>9. Place'
  <2>1. campaign.schedule <= Len(search.schedules)
    BY <1>2
  <2> QED
    BY <1>1, <1>4, <2>1 DEF Place
<1>10. UnknownCleanupStops'
  BY <1>1, <1>2 DEF UnknownCleanupStops, Sound
<1>11. campaign'.reason = search.reason /\ campaign'.complete = FALSE /\ search.reason # "run_limit"
  BY <1>1, <1>4 DEF Verdict, Outcome
<1>12. Verdict'
  BY <1>1, <1>4, <1>11 DEF Verdict
<1>13. campaign'.reason # "invalid_declaration"
  BY <1>1, <1>11 DEF Outcome
<1> QED
  BY <1>1, <1>4, <1>6, <1>7, <1>8, <1>9, <1>10, <1>12, <1>13, CampaignKeeps

\* The head of the two loops.
LEMMA RunNextStep ==
  ASSUME FiniteInv, RunNext
  PROVE  FiniteInv'
<1>1. campaign.pc = "next" /\ UNCHANGED <<space, search, world, rows>>
  BY DEF RunNext
<1>2. CASE campaign.schedule > Len(search.schedules)
  <2>1. Finish(campaign)
    BY <1>2 DEF RunNext
  <2> QED
    BY <1>1, <1>2, <2>1, LoopsEnd
<1>3. CASE ~(campaign.schedule > Len(search.schedules)) /\ (world.stop \/ world.late \/ OutOfRuns)
  <2> DEFINE reason == IF world.stop THEN "cancelled" ELSE IF world.late THEN "time_budget" ELSE "run_limit"
  <2>1. Halt(campaign, reason)
    BY <1>3 DEF RunNext
  <2>2. /\ Counts /\ FirstsAreFirst /\ RowsTrue /\ Sound /\ campaign \in CampaignType /\ rows \in Seq(Row)
    BY <1>1, Started
  <2>3. /\ space.runs \in Nat /\ campaign.attempted \in Nat /\ campaign.attempted <= space.runs
        /\ DOMAIN rows = 1 .. Len(rows)
    BY Numbers DEF FiniteInv
  <2>4. OutOfRuns => campaign.attempted = space.runs
    BY <2>3 DEF OutOfRuns
  <2>5. /\ reason \in HaltReasons
        /\ reason = "cancelled" => world.stop
        /\ reason = "time_budget" => world.late
        /\ reason = "run_limit" => campaign.attempted = space.runs
    BY <1>3, <2>4 DEF HaltReasons
  <2> HIDE DEF reason
  <2>6. Tallied(campaign, rows)
    BY <1>1, <2>2, TalliedNext
  <2>7. Tallied(campaign, rows') /\ rows' \in Seq(Row)
    BY <1>1, <2>2, <2>6
  <2>8. RowsTrue'
    BY <1>1, <2>2, RowsStay
  <2>9. \A i \in 1 .. Len(rows') : ~rows'[i].clean => i = campaign.attempted
    BY <1>1, <2>2 DEF Sound
  <2> QED
    BY <1>1, <2>1, <2>2, <2>5, <2>7, <2>8, <2>9, HaltStep
<1>4. CASE ~(campaign.schedule > Len(search.schedules)) /\ ~(world.stop \/ world.late \/ OutOfRuns)
  <2>1. campaign' = [campaign EXCEPT !.pc = "running", !.attempted = @ + 1]
    BY <1>4 DEF RunNext
  <2> QED
    BY <1>1, <1>4, <2>1, RunBegins
<1> QED
  BY <1>2, <1>3, <1>4

---------------------------------------------------------------------------
(* A run is judged *)

JudgedRow(s, fits) ==
  [steps |-> search.schedules[campaign.schedule], input |-> campaign.input, category |-> Judged(s),
   kept |-> fits, late |-> world.late, clean |-> s.bound /\ s.clean, good |-> Good(s)]
JudgedCampaign(s, entered) ==
  Noted([campaign EXCEPT !.pc = "next", !.edges = @ + entered,
                         !.completed = IF Judged(s) = "passed" THEN @ + 1 ELSE @,
                         !.compared = IF Counted(s) THEN @ + 1 ELSE @], Judged(s))

\* The row of a run.
LEMMA JudgedRowFacts ==
  ASSUME FiniteInv, campaign.pc = "running", NEW s \in Samples \cup {Threw}, NEW fits \in BOOLEAN
  PROVE  LET r == JudgedRow(s, fits)
         IN /\ r \in Row /\ r.steps = search.schedules[campaign.schedule] /\ r.input = campaign.input
            /\ r.category = Judged(s) /\ r.kept = fits /\ r.late = world.late
            /\ r.clean = (s.bound /\ s.clean) /\ r.good = Good(s)
            /\ r.steps \in ToSet(search.schedules) /\ r.input \in 0 .. (space.inputs - 1)
            /\ r.category = "passed" => r.clean /\ r.good
<1> DEFINE x == search.schedules[campaign.schedule]
           good == Good(s)
           clean == s.bound /\ s.clean
           category == Judged(s)
<1>1. /\ Place /\ space \in Spaces /\ world \in [stop : BOOLEAN, late : BOOLEAN]
      /\ campaign \in CampaignType
  BY Started
<1>2. search.schedules \in Seq(Seq(Actors)) /\ Len(search.schedules) \in Nat
  BY SearchFacts DEF FiniteInv
<1>3. campaign.schedule \in 1 .. Len(search.schedules) /\ campaign.input \in 0 .. (space.inputs - 1)
  BY <1>1, <1>2 DEF Place
<1>4. x \in Seq(Actors) /\ x \in ToSet(search.schedules)
  <2>1. DOMAIN search.schedules = 1 .. Len(search.schedules)
    BY <1>2, LenProperties
  <2>2. x \in Seq(Actors)
    BY <1>2, <1>3, ElementOfSeq
  <2> QED
    BY <1>3, <2>1, <2>2 DEF ToSet
<1>5. x \in Seq(Nat) /\ campaign.input \in Nat /\ world.late \in BOOLEAN
  BY <1>1, <1>4, PathNumbers, CampaignFacts
<1>6. /\ category \in Categories /\ good \in BOOLEAN /\ clean \in BOOLEAN
      /\ category = "passed" => clean /\ good
  BY <1>1, SampleFacts
<1>7. JudgedRow(s, fits) = [steps |-> x, input |-> campaign.input, category |-> category, kept |-> fits,
                            late |-> world.late, clean |-> clean, good |-> good]
  BY DEF JudgedRow
<1> HIDE DEF x, good, clean, category
<1>8. JudgedRow(s, fits) \in Row
  BY <1>5, <1>6, <1>7 DEF Row
<1>9. /\ JudgedRow(s, fits).steps = x /\ JudgedRow(s, fits).input = campaign.input
      /\ JudgedRow(s, fits).category = category /\ JudgedRow(s, fits).kept = fits
      /\ JudgedRow(s, fits).late = world.late /\ JudgedRow(s, fits).clean = clean
      /\ JudgedRow(s, fits).good = good
  BY <1>7
<1> HIDE DEF JudgedRow
<1>10. JudgedRow(s, fits).category = "passed" => JudgedRow(s, fits).clean /\ JudgedRow(s, fits).good
  BY <1>6, <1>9
<1> QED
  BY <1>3, <1>4, <1>8, <1>9, <1>10, Zenon DEF x, good, clean, category

\* The counters of the campaign once a run is judged.
LEMMA JudgedCampaignFacts ==
  ASSUME FiniteInv, campaign.pc = "running", NEW s \in Samples \cup {Threw}, NEW entered \in Nat
  PROVE  LET c == JudgedCampaign(s, entered)
         IN /\ c \in CampaignType /\ c.pc = "next" /\ c.attempted = campaign.attempted
            /\ c.edges = campaign.edges + entered
            /\ c.completed = (IF Judged(s) = "passed" THEN campaign.completed + 1 ELSE campaign.completed)
            /\ c.compared \in {campaign.compared, campaign.compared + 1}
            /\ c.halt = FALSE /\ c.reason = campaign.reason /\ c.complete = FALSE
            /\ c.schedule = campaign.schedule /\ c.input = campaign.input
            /\ c.failure = (IF Judged(s) # "passed" /\ campaign.failure = None
                            THEN campaign.attempted ELSE campaign.failure)
            /\ c.counterexample = (IF Judged(s) = "model_mismatch" /\ campaign.counterexample = None
                                   THEN campaign.attempted ELSE campaign.counterexample)
<1> DEFINE e == campaign.edges + entered
           n == IF Judged(s) = "passed" THEN campaign.completed + 1 ELSE campaign.completed
           m == IF Counted(s) THEN campaign.compared + 1 ELSE campaign.compared
           f == IF Judged(s) # "passed" /\ campaign.failure = None
                THEN campaign.attempted ELSE campaign.failure
           x == IF Judged(s) = "model_mismatch" /\ campaign.counterexample = None
                THEN campaign.attempted ELSE campaign.counterexample
           b == [campaign EXCEPT !.pc = "next", !.edges = e, !.completed = n, !.compared = m]
<1>1. campaign \in CampaignType /\ space \in Spaces /\ Verdict /\ campaign.halt = FALSE
  BY Started
<1>2. campaign.complete = FALSE
  BY <1>1 DEF Verdict
<1>3. e \in Nat /\ n \in Nat /\ m \in Nat /\ f \in Nat /\ x \in Nat
  <2>1. /\ campaign.edges \in Nat /\ campaign.completed \in Nat /\ campaign.compared \in Nat
        /\ campaign.failure \in Nat /\ campaign.counterexample \in Nat /\ campaign.attempted \in Nat
    BY <1>1, CampaignFacts
  <2> QED
    BY <2>1
<1>4. m \in {campaign.compared, campaign.compared + 1}
  OBVIOUS
<1>5. JudgedCampaign(s, entered) = Noted(b, Judged(s))
  BY DEF JudgedCampaign
<1> HIDE DEF e, n, m
<1>6. /\ b \in CampaignType /\ b.pc = "next" /\ b.attempted = campaign.attempted /\ b.edges = e
      /\ b.completed = n /\ b.compared = m /\ b.halt = campaign.halt /\ b.reason = campaign.reason
      /\ b.complete = campaign.complete /\ b.schedule = campaign.schedule /\ b.input = campaign.input
      /\ b.failure = campaign.failure /\ b.counterexample = campaign.counterexample
  BY <1>1, <1>3 DEF CampaignType
<1> HIDE DEF b
<1>7. JudgedCampaign(s, entered) = [b EXCEPT !.failure = f, !.counterexample = x]
  BY <1>5, <1>6 DEF Noted
<1> HIDE DEF f, x, JudgedCampaign
<1> DEFINE c == JudgedCampaign(s, entered)
<1>8. /\ c \in CampaignType /\ c.pc = b.pc /\ c.attempted = b.attempted /\ c.edges = b.edges
      /\ c.completed = b.completed /\ c.compared = b.compared /\ c.halt = b.halt /\ c.reason = b.reason
      /\ c.complete = b.complete /\ c.schedule = b.schedule /\ c.input = b.input
      /\ c.failure = f /\ c.counterexample = x
  BY <1>3, <1>6, <1>7 DEF CampaignType
<1> QED
  BY <1>1, <1>2, <1>4, <1>6, <1>8 DEF e, n, f, x

\* The edges of passed runs add up.
LEMMA MoreSteps ==
  ASSUME NEW n \in Nat, NEW k \in Nat
  PROVE  n * k + k = (n + 1) * k
OBVIOUS

\* A run that is judged is counted, and noted if it is the first of its kind.
LEMMA JudgedTallied ==
  ASSUME FiniteInv, campaign.pc = "running", NEW s \in Samples \cup {Threw}, NEW entered \in Entered(s),
         entered \in Nat, NEW fits \in BOOLEAN
  PROVE  Tallied(JudgedCampaign(s, entered), Append(rows, JudgedRow(s, fits)))
<1> DEFINE c == JudgedCampaign(s, entered)
           r == JudgedRow(s, fits)
           t == Append(rows, r)
           n == Len(rows)
<1>1. Counts /\ FirstsAreFirst /\ space \in Spaces /\ rows \in Seq(Row)
  BY Started
<1>2. /\ n \in Nat /\ DOMAIN rows = 1 .. n /\ campaign.completed \in Nat /\ campaign.compared \in Nat
      /\ campaign.edges \in Nat /\ Steps \in Nat
  BY Numbers DEF FiniteInv
<1>3. /\ campaign.attempted = n + 1 /\ campaign.completed <= n /\ campaign.compared <= n
      /\ campaign.completed = n <=> \A k \in 1 .. n : rows[k].category = "passed"
      /\ campaign.completed = n => campaign.edges = n * Steps
  BY <1>1 DEF Counts
<1>4. r \in Row /\ r.category = Judged(s)
  BY JudgedRowFacts
<1>5. /\ c.attempted = campaign.attempted
      /\ c.edges = campaign.edges + entered
      /\ c.completed = (IF Judged(s) = "passed" THEN campaign.completed + 1 ELSE campaign.completed)
      /\ c.compared \in {campaign.compared, campaign.compared + 1}
      /\ c.failure = (IF Judged(s) # "passed" /\ campaign.failure = None
                      THEN campaign.attempted ELSE campaign.failure)
      /\ c.counterexample = (IF Judged(s) = "model_mismatch" /\ campaign.counterexample = None
                             THEN campaign.attempted ELSE campaign.counterexample)
  BY JudgedCampaignFacts
<1>6. t \in Seq(Row) /\ Len(t) = n + 1 /\ (\A k \in 1 .. n : t[k] = rows[k]) /\ t[n + 1] = r
  BY <1>1, <1>4, AppendProperties
<1>7. DOMAIN t = 1 .. (n + 1) /\ \A k \in 1 .. (n + 1) : t[k] \in Row
  BY <1>6, LenProperties, ElementOfSeq
<1>8. \A k \in 1 .. n : rows[k].category \in Categories
  <2>1. \A k \in 1 .. n : rows[k] \in Row
    BY <1>1, <1>2, ElementOfSeq
  <2> QED
    BY <2>1 DEF Row
<1>9. \A k \in 1 .. (n + 1) : t[k].category \in Categories
  BY <1>7 DEF Row
<1>10. Judged(s) \in Categories
  BY <1>1, SampleFacts
<1>11. First(c.failure, {i \in DOMAIN t : t[i].category # "passed"})
  <2> DEFINE C == Categories \ {"passed"}
  <2>1. {i \in DOMAIN rows : rows[i].category # "passed"} = {i \in DOMAIN rows : rows[i].category \in C}
    BY <1>2, <1>8
  <2>2. {i \in DOMAIN t : t[i].category # "passed"} = {i \in DOMAIN t : t[i].category \in C}
    BY <1>7, <1>9
  <2>3. First(campaign.failure, {i \in DOMAIN rows : rows[i].category \in C})
    BY <1>1, <2>1 DEF FirstsAreFirst
  <2>4. First(IF r.category \in C /\ campaign.failure = None THEN Len(rows) + 1 ELSE campaign.failure,
              {i \in DOMAIN t : t[i].category \in C})
    BY <1>1, <1>4, <2>3, FirstAfter
  <2>5. c.failure = IF r.category \in C /\ campaign.failure = None THEN Len(rows) + 1 ELSE campaign.failure
    BY <1>3, <1>4, <1>5, <1>10
  <2> HIDE DEF c, r, t, C
  <2> QED
    BY <2>2, <2>4, <2>5
<1>12. First(c.counterexample, {i \in DOMAIN t : t[i].category = "model_mismatch"})
  <2> DEFINE C == {"model_mismatch"}
  <2>1. C \in SUBSET Categories
    BY DEF Categories
  <2>2. {i \in DOMAIN t : t[i].category = "model_mismatch"} = {i \in DOMAIN t : t[i].category \in C}
    OBVIOUS
  <2>3. First(campaign.counterexample, {i \in DOMAIN rows : rows[i].category \in C})
    <3>1. {i \in DOMAIN rows : rows[i].category = "model_mismatch"}
            = {i \in DOMAIN rows : rows[i].category \in C}
      OBVIOUS
    <3> QED
      BY <1>1, <3>1 DEF FirstsAreFirst
  <2>4. First(IF r.category \in C /\ campaign.counterexample = None THEN Len(rows) + 1
              ELSE campaign.counterexample,
              {i \in DOMAIN t : t[i].category \in C})
    BY <1>1, <1>4, <2>1, <2>3, FirstAfter
  <2>5. c.counterexample = IF r.category \in C /\ campaign.counterexample = None THEN Len(rows) + 1
                           ELSE campaign.counterexample
    BY <1>3, <1>4, <1>5
  <2> HIDE DEF c, r, t, C
  <2> QED
    BY <2>2, <2>4, <2>5
<1>13. CASE Judged(s) = "passed"
  <2>1. entered = Steps
    BY <1>1, <1>13, SampleFacts
  <2>2. c.completed = campaign.completed + 1 /\ r.category = "passed"
    BY <1>4, <1>5, <1>13
  <2> HIDE DEF c, r, t, n
  <2>3. c.completed = n + 1 <=> \A k \in 1 .. (n + 1) : t[k].category = "passed"
    <3>1. c.completed = n + 1 <=> campaign.completed = n
      BY <1>2, <2>2
    <3>2. 1 .. (n + 1) = (1 .. n) \cup {n + 1}
      BY <1>2
    <3>3. (\A k \in 1 .. (n + 1) : t[k].category = "passed") <=> \A k \in 1 .. n : rows[k].category = "passed"
      BY <1>6, <2>2, <3>2
    <3> QED
      BY <1>3, <3>1, <3>3
  <2>4. c.completed = n + 1 => c.edges = (n + 1) * Steps
    <3>1. c.completed = n + 1 => campaign.completed = n
      BY <1>2, <2>2
    <3>2. n * Steps + Steps = (n + 1) * Steps
      BY <1>2, MoreSteps
    <3> QED
      BY <1>3, <1>5, <2>1, <3>1, <3>2
  <2>5. c.completed <= n + 1 /\ c.compared <= n + 1
    BY <1>2, <1>3, <1>5, <2>2
  <2> QED
    BY <1>3, <1>5, <1>6, <1>11, <1>12, <2>3, <2>4, <2>5 DEF Tallied, c, r, t, n
<1>14. CASE Judged(s) # "passed"
  <2>1. c.completed = campaign.completed /\ r.category # "passed"
    BY <1>4, <1>5, <1>14
  <2> HIDE DEF c, r, t, n
  <2>2. c.completed <= n + 1 /\ c.compared <= n + 1 /\ c.completed # n + 1
    BY <1>2, <1>3, <1>5, <2>1
  <2>3. ~\A k \in 1 .. (n + 1) : t[k].category = "passed"
    <3>1. n + 1 \in 1 .. (n + 1)
      BY <1>2
    <3> QED
      BY <1>6, <2>1, <3>1
  <2> QED
    BY <1>3, <1>5, <1>6, <1>11, <1>12, <2>2, <2>3 DEF Tallied, c, r, t, n
<1> QED
  BY <1>13, <1>14

\* The rows after a run.
LEMMA RowAdded ==
  ASSUME FiniteInv, campaign.pc = "running", UNCHANGED <<space, search>>,
         NEW s \in Samples \cup {Threw}, NEW fits \in BOOLEAN, rows' = Append(rows, JudgedRow(s, fits))
  PROVE  /\ rows' \in Seq(Row) /\ Len(rows') = Len(rows) + 1 /\ rows'[Len(rows) + 1] = JudgedRow(s, fits)
         /\ \A k \in 1 .. Len(rows) : rows'[k] = rows[k]
         /\ \A k \in 1 .. Len(rows') : k \in 1 .. Len(rows) \/ k = Len(rows) + 1
         /\ RowsTrue'
<1> DEFINE r == JudgedRow(s, fits)
           n == Len(rows)
<1>1. RowsTrue /\ rows \in Seq(Row)
  BY Started
<1>2. n \in Nat
  BY Numbers DEF FiniteInv
<1>3. /\ r \in Row /\ r.steps \in ToSet(search.schedules) /\ r.input \in 0 .. (space.inputs - 1)
      /\ r.category = "passed" => r.clean /\ r.good
  BY JudgedRowFacts
<1>4. rows' \in Seq(Row) /\ Len(rows') = n + 1 /\ (\A k \in 1 .. n : rows'[k] = rows[k]) /\ rows'[n + 1] = r
  BY <1>1, <1>3, AppendProperties
<1> HIDE DEF r, n
<1>5. \A k \in 1 .. Len(rows') : k \in 1 .. n \/ k = n + 1
  BY <1>2, <1>4
<1>6. \A k \in 1 .. n : /\ rows[k].steps \in ToSet(search.schedules)
                        /\ rows[k].input \in 0 .. (space.inputs - 1)
                        /\ rows[k].category = "passed" => rows[k].clean /\ rows[k].good
  BY <1>1 DEF RowsTrue, n
<1>7. RowsTrue'
  <2>1. ASSUME NEW k \in 1 .. Len(rows')
        PROVE  /\ rows'[k].steps \in ToSet(search.schedules)
               /\ rows'[k].input \in 0 .. (space.inputs - 1)
               /\ rows'[k].category = "passed" => rows'[k].clean /\ rows'[k].good
    <3>1. CASE k \in 1 .. n
      BY <1>4, <1>6, <3>1
    <3>2. CASE k = n + 1
      BY <1>3, <1>4, <3>2
    <3> QED
      BY <1>5, <3>1, <3>2
  <2>2. space' = space /\ search' = search
    OBVIOUS
  <2> QED
    BY <2>1, <2>2 DEF RowsTrue
<1> QED
  BY <1>4, <1>5, <1>7 DEF r, n

\* The number of runs before a place in the two loops.
LEMMA RunsBefore ==
  ASSUME NEW i \in Nat, NEW x \in Nat, NEW k \in Nat, i # 0
  PROVE  /\ ((i - 1) * k + x) + 1 = (i - 1) * k + (x + 1)
         /\ x + 1 = k => ((i - 1) * k + x) + 1 = ((i + 1) - 1) * k + 0
<1> DEFINE j == i - 1
           p == j * k
<1>1. j \in Nat /\ i = j + 1
  OBVIOUS
<1>2. p \in Nat
  BY <1>1
<1>3. p + k = (j + 1) * k
  BY <1>1, MoreSteps
<1>4. (i + 1) - 1 = j + 1
  BY <1>1
<1> HIDE DEF p
<1>5. (p + x) + 1 = p + (x + 1)
  BY <1>2
<1>6. x + 1 = k => (p + x) + 1 = p + k
  BY <1>2
<1>7. (j + 1) * k \in Nat
  BY <1>1
<1>8. x + 1 = k => (p + x) + 1 = (j + 1) * k + 0
  BY <1>3, <1>6, <1>7
<1> QED
  BY <1>4, <1>5, <1>8 DEF p

\* The next place in the two loops.
LEMMA NextJobFacts ==
  ASSUME space \in Spaces, NEW c \in CampaignType, campaign' = NextJob(c)
  PROVE  /\ campaign' \in CampaignType /\ SameTotals(c, campaign') /\ campaign'.pc = c.pc
         /\ campaign'.halt = c.halt /\ campaign'.reason = c.reason /\ campaign'.complete = c.complete
         /\ \/ /\ c.input + 1 < space.inputs
               /\ campaign'.schedule = c.schedule /\ campaign'.input = c.input + 1
            \/ /\ ~(c.input + 1 < space.inputs)
               /\ campaign'.schedule = c.schedule + 1 /\ campaign'.input = 0
<1>1. c.input + 1 \in Nat /\ c.schedule + 1 \in Nat
  <2>1. c.input \in Nat /\ c.schedule \in Nat
    BY CampaignFacts
  <2> QED
    BY <2>1
<1>2. CASE c.input + 1 < space.inputs
  <2>1. campaign' = [c EXCEPT !.input = c.input + 1]
    BY <1>2 DEF NextJob
  <2> QED
    BY <1>1, <1>2, <2>1 DEF CampaignType, SameTotals
<1>3. CASE ~(c.input + 1 < space.inputs)
  <2> DEFINE n == c.schedule + 1
  <2>1. campaign' = [c EXCEPT !.schedule = n, !.input = 0] /\ n \in Nat
    BY <1>1, <1>3 DEF NextJob
  <2> HIDE DEF n
  <2>2. campaign' \in CampaignType
    <3> DEFINE d == [c EXCEPT !.schedule = n]
    <3>1. d \in CampaignType
      BY <2>1 DEF CampaignType
    <3>2. campaign' = [d EXCEPT !.input = 0]
      BY <2>1
    <3> HIDE DEF d
    <3> QED
      BY <3>1, <3>2 DEF CampaignType
  <2>3. /\ SameTotals(c, campaign') /\ campaign'.pc = c.pc
        /\ campaign'.halt = c.halt /\ campaign'.reason = c.reason /\ campaign'.complete = c.complete
        /\ campaign'.schedule = n /\ campaign'.input = 0
    BY <2>1 DEF CampaignType, SameTotals
  <2> QED
    BY <1>3, <2>2, <2>3 DEF n
<1> QED
  BY <1>2, <1>3

\* The runs before the next place in the two loops.
LEMMA CoveredAfter ==
  ASSUME space' = space, search' = search,
         \A j \in 1 .. Len(search.schedules), y \in 0 .. (space.inputs - 1) :
           j < campaign'.schedule \/ (j = campaign'.schedule /\ y < campaign'.input) =>
             \E k \in 1 .. Len(rows') : rows'[k].steps = search.schedules[j] /\ rows'[k].input = y
  PROVE  Covered'
BY DEF Covered, Ran

\* A run after which the campaign goes on.
LEMMA RunAccepted ==
  ASSUME FiniteInv, campaign.pc = "running", UNCHANGED <<space, search, world>>,
         NEW s \in Samples \cup {Threw}, NEW entered \in Entered(s), entered \in Nat, NEW fits \in BOOLEAN,
         rows' = Append(rows, JudgedRow(s, fits)), fits, CleanupKnown(s), ~world.late,
         campaign' = NextJob(JudgedCampaign(s, entered))
  PROVE  FiniteInv'
<1> DEFINE c == JudgedCampaign(s, entered)
           r == JudgedRow(s, fits)
           n == Len(rows)
           l == Len(search.schedules)
           i == campaign.schedule
           x == campaign.input
<1>1. /\ search.pc = "over" /\ ~Refused /\ Outcome /\ Verdict /\ Place /\ Covered /\ Sound
      /\ space \in Spaces /\ world \in [stop : BOOLEAN, late : BOOLEAN]
  BY Started
<1>2. /\ space.inputs \in Nat \ {0} /\ l \in Nat /\ n \in Nat /\ i \in Nat /\ x \in Nat
  BY Numbers DEF FiniteInv
<1>3. /\ c \in CampaignType /\ c.pc = "next" /\ c.halt = FALSE /\ c.reason = campaign.reason
      /\ c.complete = FALSE /\ c.schedule = i /\ c.input = x
  BY JudgedCampaignFacts
<1>4. Tallied(c, rows')
  BY JudgedTallied
<1>5. /\ rows' \in Seq(Row) /\ Len(rows') = n + 1 /\ rows'[n + 1] = r
      /\ \A k \in 1 .. n : rows'[k] = rows[k]
      /\ \A k \in 1 .. Len(rows') : k \in 1 .. n \/ k = n + 1
      /\ RowsTrue'
  BY RowAdded
<1>6. r.steps = search.schedules[i] /\ r.input = x /\ r.kept = fits /\ r.late = world.late
      /\ r.clean = (s.bound /\ s.clean)
  BY JudgedRowFacts
<1>7. r.clean /\ r.kept /\ ~r.late
  BY <1>6 DEF CleanupKnown
<1>8. campaign' = NextJob(c)
  OBVIOUS
<1> HIDE DEF c, r
<1>9. /\ campaign' \in CampaignType /\ SameTotals(c, campaign') /\ campaign'.pc = "next"
      /\ campaign'.halt = FALSE /\ campaign'.reason = campaign.reason /\ campaign'.complete = FALSE
      /\ \/ x + 1 < space.inputs /\ campaign'.schedule = i /\ campaign'.input = x + 1
         \/ ~(x + 1 < space.inputs) /\ campaign'.schedule = i + 1 /\ campaign'.input = 0
  BY <1>1, <1>3, <1>8, NextJobFacts
<1>10. Counts' /\ FirstsAreFirst'
  BY <1>4, <1>9, TalliedAfter
<1>11. CampaignTyped'
  <2>1. campaign'.completed <= campaign'.attempted /\ campaign'.compared <= campaign'.attempted
    BY <1>4, <1>9 DEF Tallied, SameTotals
  <2>2. world' \in [stop : BOOLEAN, late : BOOLEAN] /\ space' = space
    BY <1>1
  <2> QED
    BY <1>5, <1>9, <2>1, <2>2, CampaignTypedAfter
<1>12. Sound'
  <2>1. \A k \in 1 .. n : rows[k].clean /\ rows[k].kept /\ ~rows[k].late
    BY <1>1 DEF Sound
  <2>2. \A k \in 1 .. Len(rows') : rows'[k].clean /\ rows'[k].kept /\ ~rows'[k].late
    BY <1>5, <1>7, <2>1
  <2> QED
    BY <2>2 DEF Sound
<1>13. UnknownCleanupStops'
  <2>1. DOMAIN rows' = 1 .. Len(rows')
    BY <1>5, LenProperties
  <2>2. \A k \in 1 .. Len(rows') : rows'[k].clean
    BY <1>12 DEF Sound
  <2> QED
    BY <2>1, <2>2 DEF UnknownCleanupStops
<1>14. i \in 1 .. l /\ x \in 0 .. (space.inputs - 1) /\ n = (i - 1) * space.inputs + x
  BY <1>1, <1>2 DEF Place
<1>15. Place'
  <2>1. /\ (n + 1) = (i - 1) * space.inputs + (x + 1)
        /\ x + 1 = space.inputs => (n + 1) = ((i + 1) - 1) * space.inputs + 0
    <3> DEFINE k == space.inputs
    <3>1. i \in Nat /\ i # 0 /\ x \in Nat /\ k \in Nat /\ n = (i - 1) * k + x
      BY <1>2, <1>14
    <3>2. i \in Nat /\ i # 0 /\ x \in Nat /\ k \in Nat
      BY <3>1
    <3> HIDE DEF i, x, n, k
    <3>3. /\ ((i - 1) * k + x) + 1 = (i - 1) * k + (x + 1)
          /\ x + 1 = k => ((i - 1) * k + x) + 1 = ((i + 1) - 1) * k + 0
      BY <3>2, RunsBefore
    <3>4. n + 1 = (i - 1) * k + (x + 1) /\ (x + 1 = k => n + 1 = ((i + 1) - 1) * k + 0)
      BY <3>1, <3>3, Zenon
    <3> QED
      BY <3>4 DEF k
  <2> HIDE DEF i, x, n, l
  <2>2. CASE x + 1 < space.inputs /\ campaign'.schedule = i /\ campaign'.input = x + 1
    <3>1. i \in 1 .. (l + 1) /\ x + 1 \in 0 .. (space.inputs - 1) /\ i # l + 1
      BY <1>2, <1>14, <2>2
    <3>2. Len(rows') = (campaign'.schedule - 1) * space.inputs + campaign'.input
      BY <1>5, <2>1, <2>2
    <3> QED
      BY <1>9, <2>2, <3>1, <3>2 DEF Place, l
  <2>3. CASE ~(x + 1 < space.inputs) /\ campaign'.schedule = i + 1 /\ campaign'.input = 0
    <3>1. i + 1 \in 1 .. (l + 1) /\ 0 \in 0 .. (space.inputs - 1) /\ x + 1 = space.inputs
      BY <1>2, <1>14, <2>3
    <3>2. Len(rows') = (campaign'.schedule - 1) * space.inputs + campaign'.input
      BY <1>5, <2>1, <2>3, <3>1
    <3> QED
      BY <1>9, <2>3, <3>1, <3>2 DEF Place, l
  <2> QED
    BY <1>9, <2>2, <2>3
<1>16. Covered'
  <2>1. ASSUME NEW j \in 1 .. l, NEW y \in 0 .. (space.inputs - 1),
               j < campaign'.schedule \/ (j = campaign'.schedule /\ y < campaign'.input)
        PROVE  \E k \in 1 .. Len(rows') : rows'[k].steps = search.schedules[j] /\ rows'[k].input = y
    <3>1. Ran(j, y) \/ (j = i /\ y = x)
      <4>1. j < campaign'.schedule \/ (j = campaign'.schedule /\ y < campaign'.input)
        BY <2>1
      <4>2. j \in Nat /\ y \in Nat /\ y < space.inputs
        BY <1>2
      <4> HIDE DEF l
      <4>3. j < i \/ (j = i /\ y < x) \/ (j = i /\ y = x)
        <5>1. CASE x + 1 < space.inputs /\ campaign'.schedule = i /\ campaign'.input = x + 1
          BY <1>2, <4>1, <4>2, <5>1
        <5>2. CASE ~(x + 1 < space.inputs) /\ campaign'.schedule = i + 1 /\ campaign'.input = 0
          BY <1>2, <4>1, <4>2, <5>2
        <5> QED
          BY <1>9, <5>1, <5>2
      <4> QED
        BY <4>3 DEF Ran
    <3>2. CASE Ran(j, y)
      <4>1. PICK k \in 1 .. n : rows[k].steps = search.schedules[j] /\ rows[k].input = y
        BY <1>1, <3>2 DEF Covered
      <4>2. k \in 1 .. Len(rows') /\ rows'[k] = rows[k]
        BY <1>2, <1>5
      <4> QED
        BY <4>1, <4>2
    <3>3. CASE j = i /\ y = x
      <4>1. n + 1 \in 1 .. Len(rows')
        BY <1>2, <1>5
      <4> QED
        BY <1>5, <1>6, <3>3, <4>1
    <3> QED
      BY <3>1, <3>2, <3>3
  <2>2. space' = space /\ search' = search
    OBVIOUS
  <2> QED
    BY <2>1, <2>2, CoveredAfter
<1>17. campaign'.reason = search.reason /\ search.reason # "run_limit"
  BY <1>1, <1>9 DEF Verdict, Outcome
<1>18. Verdict'
  BY <1>1, <1>9, <1>17 DEF Verdict
<1>19. campaign'.reason # "invalid_declaration"
  BY <1>1, <1>17 DEF Outcome
<1> QED
  BY <1>1, <1>5, <1>9, <1>10, <1>11, <1>12, <1>13, <1>15, <1>16, <1>18, <1>19, CampaignKeeps

\* The runner hands back what it did.
LEMMA JudgeStep ==
  ASSUME FiniteInv, NEW s \in Samples \cup {Threw}, NEW entered \in 0 .. Steps, NEW fits \in BOOLEAN,
         Judge(s, entered, fits)
  PROVE  FiniteInv'
<1> DEFINE c == JudgedCampaign(s, entered)
<1>1. /\ campaign.pc = "running" /\ entered \in Entered(s) /\ UNCHANGED <<space, search, world>>
      /\ rows' = Append(rows, JudgedRow(s, fits))
  BY DEF Judge, JudgedRow
<1>2. IF ~fits THEN Halt(c, "evidence_limit")
      ELSE IF Judged(s) = "coverage_failed" THEN Halt(c, "coverage_limit")
      ELSE IF ~CleanupKnown(s) THEN Halt(c, "unconfirmed_cleanup")
      ELSE IF world.late THEN Halt(c, "time_budget")
      ELSE campaign' = NextJob(c)
  BY DEF Judge, JudgedCampaign
<1>3. Sound /\ Counts /\ rows \in Seq(Row)
  BY <1>1, Started
<1>4. Len(rows) \in Nat /\ Steps \in Nat
  BY Numbers DEF FiniteInv
<1>5. entered \in Nat
  BY <1>4
<1>6. c \in CampaignType /\ c.attempted = campaign.attempted
  BY <1>1, <1>5, JudgedCampaignFacts
<1>7. Tallied(c, rows')
  BY <1>1, <1>5, JudgedTallied
<1>8. /\ rows' \in Seq(Row) /\ RowsTrue'
      /\ \A k \in 1 .. Len(rows) : rows'[k] = rows[k]
      /\ \A k \in 1 .. Len(rows') : k \in 1 .. Len(rows) \/ k = Len(rows) + 1
  BY <1>1, RowAdded
<1>9. \A k \in 1 .. Len(rows') : ~rows'[k].clean => k = c.attempted
  <2>1. c.attempted = Len(rows) + 1
    BY <1>1, <1>3, <1>6 DEF Counts
  <2>2. \A k \in 1 .. Len(rows) : rows[k].clean
    BY <1>3 DEF Sound
  <2> QED
    BY <1>8, <2>1, <2>2
<1>10. campaign.pc \in {"next", "running"}
  BY <1>1
<1> HIDE DEF c
<1>11. ASSUME NEW reason \in {"evidence_limit", "coverage_limit", "unconfirmed_cleanup", "time_budget"},
              Halt(c, reason), reason = "time_budget" => world.late
       PROVE  FiniteInv'
  <2>1. reason \in HaltReasons /\ reason # "cancelled" /\ reason # "run_limit"
    BY DEF HaltReasons
  <2> QED
    BY <1>1, <1>6, <1>7, <1>8, <1>9, <1>10, <1>11, <2>1, HaltStep
<1>12. CASE ~fits
  BY <1>2, <1>11, <1>12
<1>13. CASE fits /\ Judged(s) = "coverage_failed"
  BY <1>2, <1>11, <1>13
<1>14. CASE fits /\ Judged(s) # "coverage_failed" /\ ~CleanupKnown(s)
  BY <1>2, <1>11, <1>14
<1>15. CASE fits /\ Judged(s) # "coverage_failed" /\ CleanupKnown(s) /\ world.late
  BY <1>2, <1>11, <1>15
<1>16. CASE fits /\ Judged(s) # "coverage_failed" /\ CleanupKnown(s) /\ ~world.late
  <2>1. campaign' = NextJob(c)
    BY <1>2, <1>16
  <2>2. campaign' = NextJob(JudgedCampaign(s, entered))
    BY <2>1 DEF c
  <2> QED
    BY <1>1, <1>5, <1>16, <2>2, RunAccepted
<1> QED
  BY <1>12, <1>13, <1>14, <1>15, <1>16

---------------------------------------------------------------------------
(* Admission, the search and the environment *)

\* The declaration is refused.
LEMMA RejectStep ==
  ASSUME FiniteInv, Reject
  PROVE  FiniteInv'
<1>1. /\ search.pc = "declare" /\ search' = [search EXCEPT !.pc = "over"] /\ space' = space
      /\ campaign' = [campaign EXCEPT !.pc = "over", !.reason = "invalid_declaration"]
      /\ world' = world /\ rows' = rows
  BY DEF Reject
<1>2. /\ search \in SearchType /\ space \in Spaces /\ campaign \in CampaignType
      /\ Len(search.schedules) <= space.cap /\ rows \in Seq(Row)
      /\ world \in [stop : BOOLEAN, late : BOOLEAN]
      /\ campaign.completed <= campaign.attempted /\ campaign.compared <= campaign.attempted
  BY DEF FiniteInv, SearchTyped, CampaignTyped
<1>3. Idle
  BY <1>1 DEF FiniteInv, Waiting
<1>4. /\ campaign'.pc = "over" /\ campaign'.reason = "invalid_declaration"
      /\ campaign'.attempted = campaign.attempted /\ campaign'.completed = campaign.completed
      /\ campaign'.compared = campaign.compared /\ campaign'.edges = campaign.edges
      /\ campaign'.halt = campaign.halt /\ campaign'.schedule = campaign.schedule
      /\ campaign'.input = campaign.input /\ campaign'.failure = campaign.failure
      /\ campaign'.counterexample = campaign.counterexample /\ campaign'.complete = campaign.complete
  BY <1>1, <1>2 DEF CampaignType
<1>5. campaign' \in CampaignType
  BY <1>1, <1>2 DEF CampaignType, Reasons
<1>6. search' \in SearchType /\ search'.pc = "over" /\ search'.schedules = search.schedules
  BY <1>1, <1>2 DEF SearchType
<1>7. SearchTyped'
  BY <1>1, <1>2, <1>6, SearchTypedAfter
<1>8. CampaignTyped'
  BY <1>1, <1>2, <1>4, <1>5, CampaignTypedAfter
<1>9. Refused'
  BY <1>4 DEF Refused
<1>10. Idle'
  BY <1>1, <1>3, <1>4 DEF Idle
<1>11. SearchGoes' /\ CampaignGoes'
  BY <1>6, <1>9 DEF SearchGoes, CampaignGoes
<1>12. Waiting'
  BY <1>4, <1>6, <1>10 DEF Waiting
<1> QED
  BY <1>7, <1>8, <1>11, <1>12 DEF FiniteInv

\* Nothing of the campaign changes while the search goes on.
LEMMA CampaignWaits ==
  ASSUME FiniteInv, search.pc # "over", search'.pc # "over", UNCHANGED <<space, world, campaign, rows>>
  PROVE  CampaignTyped' /\ Waiting' /\ CampaignGoes'
<1>1. campaign' = campaign /\ rows' = rows /\ world' = world /\ space' = space
  OBVIOUS
<1>2. Waiting /\ CampaignTyped
  BY DEF FiniteInv
<1>3. CampaignTyped'
  BY <1>1, <1>2 DEF CampaignTyped, CampaignType
<1>4. campaign.pc = "wait" /\ campaign.reason = "" /\ Idle
  BY <1>2 DEF Waiting
<1>5. Idle'
  BY <1>1, <1>4 DEF Idle
<1>6. Waiting'
  BY <1>1, <1>4, <1>5 DEF Waiting, Refused
<1> QED
  BY <1>3, <1>6 DEF CampaignGoes

\* The empty path is where the search starts.
LEMMA EmptyPath ==
  ASSUME space \in Spaces
  PROVE  Valid(<<>>) /\ Sweep(<<>>, <<>>)
<1>1. /\ space.preemptions \in Nat /\ Len(space.chains) \in Nat
      /\ \A i \in Actors : space.chains[i] \in Nat \ {0}
  BY SpaceFacts
<1>2. <<>> \in Seq(Actors) /\ Len(<<>>) = 0 /\ 1 .. 0 = {}
  BY EmptySeq
<1>3. Cardinality({}) = 0
  BY FS_EmptySet
<1>4. Preemptions(<<>>) = 0
  <2>1. {k \in 1 .. Len(<<>>) : Preempts(<<>>, k)} = {}
    BY <1>2
  <2> QED
    BY <1>3, <2>1 DEF Preemptions
<1>5. ASSUME NEW i \in Actors PROVE Picked(<<>>, Len(<<>>), i) = 0
  <2>1. {k \in 1 .. Len(<<>>) : <<>>[k] = i} = {}
    BY <1>2
  <2> QED
    BY <1>3, <2>1 DEF Picked
<1>6. Valid(<<>>)
  BY <1>1, <1>2, <1>4, <1>5 DEF Valid
<1>7. ToSet(<<>>) = {}
  BY DEF ToSet
<1>8. Ordered(<<>>)
  BY <1>2 DEF Ordered
<1>9. ASSUME NEW m PROVE ~PassedBy(<<>>, m)
  BY <1>2 DEF PassedBy
<1>10. Sweep(<<>>, <<>>)
  BY <1>7, <1>8, <1>9 DEF Sweep
<1> QED
  BY <1>6, <1>10

\* The declaration is admitted.
LEMMA AdmitStep ==
  ASSUME FiniteInv, Admit
  PROVE  FiniteInv'
<1>1. /\ search.pc = "declare" /\ search' = [search EXCEPT !.pc = "visit"]
      /\ UNCHANGED <<space, world, campaign, rows>>
  BY DEF Admit
<1>2. search \in SearchType /\ space \in Spaces /\ Len(search.schedules) <= space.cap
  BY DEF FiniteInv, SearchTyped
<1>3. Unstarted
  BY <1>1 DEF FiniteInv, SearchGoes
<1>4. /\ search' \in SearchType /\ search'.pc = "visit" /\ search'.current = <<>> /\ search'.index = <<>>
      /\ search'.schedules = <<>> /\ search'.exhausted = search.exhausted /\ search'.reason = ""
      /\ search'.schedules = search.schedules
  BY <1>1, <1>2, <1>3 DEF SearchType, Unstarted
<1>5. SearchTyped'
  BY <1>1, <1>2, <1>4, SearchTypedAfter
<1>6. Valid(search'.current) /\ Sweep(search'.index, search'.schedules)
  BY <1>2, <1>4, EmptyPath
<1>7. Valid(search.current)' /\ Swept'
  BY <1>1, <1>6, SearchAfter
<1>8. Frames'
  BY <1>3, <1>4, <1>7 DEF Frames, Unstarted
<1>9. SearchGoes'
  BY <1>4, <1>7, <1>8 DEF SearchGoes
<1>10. CampaignTyped' /\ Waiting' /\ CampaignGoes'
  BY <1>1, <1>4, CampaignWaits
<1> QED
  BY <1>5, <1>9, <1>10 DEF FiniteInv

\* The campaign begins, with nothing run.
LEMMA CampaignBegins ==
  ASSUME FiniteInv, search.pc \in {"visit", "loop"}, UNCHANGED <<space, world, rows>>, SearchTyped', Concludes
  PROVE  FiniteInv'
<1>1. /\ search'.pc = "over" /\ Exact' /\ Outcome' /\ Handed
      /\ search'.reason = "cancelled" => world.stop
      /\ search'.reason = "time_budget" => world.late
  BY DEF Concludes
<1>2. /\ search'.reason \in {"", "cancelled", "time_budget", "enumeration_limit"}
      /\ search'.exhausted <=> search'.reason = ""
  BY <1>1 DEF Outcome
<1>3. /\ space \in Spaces /\ campaign \in CampaignType /\ rows \in Seq(Row)
      /\ world \in [stop : BOOLEAN, late : BOOLEAN] /\ Idle
  BY DEF FiniteInv, SearchTyped, CampaignTyped, Waiting
<1>4. search'.reason \in Reasons
  BY <1>2 DEF Reasons
<1>5. campaign' \in CampaignType
  <2>1. campaign' = [campaign EXCEPT !.pc = "next", !.reason = search'.reason]
    BY <1>1 DEF Handed
  <2> QED
    BY <1>3, <1>4, <2>1 DEF CampaignType
<1>6. /\ campaign'.pc = "next" /\ campaign'.reason = search'.reason
      /\ campaign'.attempted = 0 /\ campaign'.completed = 0 /\ campaign'.compared = 0
      /\ campaign'.edges = 0 /\ campaign'.halt = FALSE /\ campaign'.schedule = 1 /\ campaign'.input = 0
      /\ campaign'.failure = None /\ campaign'.counterexample = None /\ campaign'.complete = FALSE
  BY <1>1, <1>3 DEF Handed, CampaignType, Idle
<1>7. rows' = <<>> /\ Len(rows') = 0 /\ 1 .. 0 = {} /\ DOMAIN rows' = {}
  BY <1>3, EmptySeq DEF Idle
<1>8. CampaignTyped'
  BY <1>3, <1>5, <1>6, CampaignTypedAfter
<1>9. ~Refused'
  BY <1>2, <1>6 DEF Refused
<1>10. SearchGoes'
  BY <1>1 DEF SearchGoes
<1>11. Waiting'
  BY <1>1, <1>6, <1>9 DEF Waiting
<1>12. Counts'
  <2>1. Steps \in Nat /\ Steps' = Steps
    BY <1>3, StepsFacts, SameSpace
  <2>2. 0 * Steps = 0
    BY <2>1
  <2> QED
    BY <1>6, <1>7, <2>1, <2>2 DEF Counts
<1>13. RowsTrue' /\ Sound' /\ UnknownCleanupStops'
  BY <1>7 DEF RowsTrue, Sound, UnknownCleanupStops
<1>14. FirstsAreFirst'
  BY <1>6, <1>7 DEF FirstsAreFirst, First
<1>15. Verdict'
  BY <1>1, <1>2, <1>6 DEF Verdict
<1>16. Place'
  <2>1. Len(search'.schedules) \in Nat /\ space.inputs \in Nat \ {0}
    <3>1. search'.schedules \in Seq(Seq(Actors'))
      BY DEF SearchTyped, SearchType
    <3> QED
      BY <1>3, <3>1, LenProperties, SpaceFacts
  <2>2. (1 - 1) * space.inputs + 0 = 0
    BY <2>1
  <2>3. 1 \in 1 .. (Len(search'.schedules) + 1) /\ 0 \in 0 .. (space.inputs - 1)
    BY <2>1
  <2> QED
    BY <1>6, <1>7, <2>2, <2>3 DEF Place
<1>17. Covered'
  <2>1. ASSUME NEW i \in 1 .. Len(search'.schedules), NEW x \in 0 .. (space.inputs - 1)
        PROVE  ~(i < 1 \/ (i = 1 /\ x < 0))
    <3>1. i \in Int /\ i >= 1 /\ x \in Int /\ x >= 0
      OBVIOUS
    <3> QED
      BY <3>1
  <2> QED
    BY <1>6, <2>1 DEF Covered, Ran
<1>18. CampaignGoes'
  BY <1>12, <1>13, <1>14, <1>15, <1>16, <1>17 DEF CampaignGoes
<1> QED
  BY <1>8, <1>10, <1>11, <1>18 DEF FiniteInv

\* A step of the search.
LEMMA SearchStep ==
  ASSUME FiniteInv, Visit \/ Loop
  PROVE  FiniteInv'
<1>1. search.pc \in {"visit", "loop"} /\ UNCHANGED <<space, world, rows>>
  BY DEF Visit, Loop
<1>2. SearchTyped' /\ (Proceeds \/ Concludes)
  BY VisitStep, LoopStep DEF FiniteInv
<1>3. CASE Proceeds
  <2>1. search'.pc \in {"visit", "loop"} /\ Frames' /\ Swept' /\ campaign' = campaign
    BY <1>3 DEF Proceeds
  <2>2. SearchGoes'
    BY <2>1 DEF SearchGoes
  <2>3. CampaignTyped' /\ Waiting' /\ CampaignGoes'
    BY <1>1, <2>1, CampaignWaits
  <2> QED
    BY <1>2, <2>2, <2>3 DEF FiniteInv
<1>4. CASE Concludes
  BY <1>1, <1>2, <1>4, CampaignBegins
<1> QED
  BY <1>2, <1>3, <1>4

\* A stop request and the deadline touch nothing else, and what was true of them
\* stays true; neither do the steps that change nothing.
LEMMA WorldStep ==
  ASSUME FiniteInv, UNCHANGED <<space, search, campaign, rows>>, world' \in [stop : BOOLEAN, late : BOOLEAN],
         world.stop => world'.stop, world.late => world'.late
  PROVE  FiniteInv'
<1>1. space' = space /\ search' = search /\ campaign' = campaign /\ rows' = rows
  OBVIOUS
<1>2. Refused' = Refused
  BY <1>1 DEF Refused
<1>3. SearchTyped' /\ SearchGoes'
  BY <1>2, SearchStays DEF FiniteInv
<1>4. CampaignTyped'
  BY <1>1 DEF FiniteInv, CampaignTyped, CampaignType
<1>5. Idle => Idle'
  BY <1>1 DEF Idle
<1>6. Waiting'
  BY <1>1, <1>2, <1>5 DEF FiniteInv, Waiting
<1>7. CampaignGoes'
  <2> SUFFICES ASSUME search.pc = "over", ~Refused PROVE CampaignGoes'
    BY <1>1, <1>2 DEF CampaignGoes
  <2>1. Counts /\ RowsTrue /\ Verdict /\ FirstsAreFirst /\ UnknownCleanupStops
        /\ (~campaign.halt => Place /\ Covered /\ Sound)
    BY DEF FiniteInv, CampaignGoes
  <2>2. Steps' = Steps
    BY <1>1, SameSpace
  <2>3. Counts'
    BY <1>1, <2>1, <2>2 DEF Counts
  <2>4. RowsTrue' /\ FirstsAreFirst' /\ (Covered => Covered') /\ (Sound => Sound')
    BY <1>1, <2>1, RowsStay
  <2>5. Verdict'
    BY <1>1, <2>1 DEF Verdict
  <2>6. UnknownCleanupStops'
    BY <1>1, <2>1 DEF UnknownCleanupStops
  <2>7. Place => Place'
    BY <1>1 DEF Place
  <2> QED
    BY <1>1, <2>1, <2>3, <2>4, <2>5, <2>6, <2>7 DEF CampaignGoes
<1> QED
  BY <1>3, <1>4, <1>6, <1>7 DEF FiniteInv

\* The initial states.
LEMMA FiniteStart ==
  ASSUME Init
  PROVE  FiniteInv
<1>1. /\ space \in Spaces /\ world = [stop |-> FALSE, late |-> FALSE] /\ rows = <<>>
      /\ search = [pc |-> "declare", current |-> <<>>, index |-> <<>>, schedules |-> <<>>,
                   exhausted |-> TRUE, reason |-> ""]
      /\ campaign = [pc |-> "wait", attempted |-> 0, completed |-> 0, compared |-> 0, edges |-> 0,
                     halt |-> FALSE, reason |-> "", schedule |-> 1, input |-> 0, failure |-> None,
                     counterexample |-> None, complete |-> FALSE]
  BY DEF Init
<1>2. space.cap \in Nat /\ space.runs \in Nat
  BY <1>1, SpaceFacts
<1>3. Len(<<>>) = 0 /\ <<>> \in Seq(Actors) /\ <<>> \in Seq(Nat)
      /\ <<>> \in Seq(Seq(Actors)) /\ <<>> \in Seq(Row)
  BY EmptySeq
<1>4. SearchTyped
  <2> DEFINE e == <<>>
             b == TRUE
  <2>1. e \in Seq(Actors) /\ e \in Seq(Nat) /\ e \in Seq(Seq(Actors)) /\ Len(e) = 0 /\ b \in BOOLEAN
    BY <1>3
  <2>2. search = [pc |-> "declare", current |-> e, index |-> e, schedules |-> e, exhausted |-> b,
                  reason |-> ""]
    BY <1>1
  <2>3. "" \in Reasons
    BY DEF Reasons
  <2> HIDE DEF e, b
  <2>4. search \in SearchType /\ search.schedules = e
    BY <2>1, <2>2, <2>3 DEF SearchType
  <2>5. space \in Spaces
    BY <1>1
  <2> QED
    BY <1>2, <2>1, <2>4, <2>5 DEF SearchTyped
<1>5. /\ campaign.pc = "wait" /\ campaign.reason = "" /\ search.pc = "declare" /\ Idle /\ Unstarted
  BY <1>1 DEF Idle, Unstarted
<1>6. 0 \in 0 .. space.runs
  BY <1>2
<1>7. campaign \in CampaignType
  BY <1>1, <1>6 DEF CampaignType, Reasons, None
<1>8. CampaignTyped
  <2>1. world \in [stop : BOOLEAN, late : BOOLEAN]
    BY <1>1
  <2>2. campaign.completed <= campaign.attempted /\ campaign.compared <= campaign.attempted
    <3>1. campaign.completed = 0 /\ campaign.attempted = 0 /\ campaign.compared = 0
      BY <1>5, Zenon DEF Idle
    <3> QED
      BY <3>1
  <2> QED
    BY <1>1, <1>3, <1>7, <2>1, <2>2 DEF CampaignTyped
<1>9. SearchGoes /\ Waiting /\ CampaignGoes
  BY <1>5 DEF SearchGoes, Waiting, CampaignGoes, Refused
<1> QED
  BY <1>4, <1>8, <1>9 DEF FiniteInv

\* Every step preserves the invariant.
LEMMA FiniteStep ==
  ASSUME FiniteInv, [Next]_vars
  PROVE  FiniteInv'
<1>1. world \in [stop : BOOLEAN, late : BOOLEAN]
  BY DEF FiniteInv, CampaignTyped
<1>2. CASE StopRequested
  <2>1. world' = [world EXCEPT !.stop = TRUE] /\ UNCHANGED <<space, search, campaign, rows>>
    BY <1>2 DEF StopRequested
  <2>2. world' \in [stop : BOOLEAN, late : BOOLEAN] /\ world'.stop /\ (world.late => world'.late)
    BY <1>1, <2>1
  <2> QED
    BY <2>1, <2>2, WorldStep
<1>3. CASE DeadlinePasses
  <2>1. world' = [world EXCEPT !.late = TRUE] /\ UNCHANGED <<space, search, campaign, rows>>
    BY <1>3 DEF DeadlinePasses
  <2>2. world' \in [stop : BOOLEAN, late : BOOLEAN] /\ world'.late /\ (world.stop => world'.stop)
    BY <1>1, <2>1
  <2> QED
    BY <2>1, <2>2, WorldStep
<1>4. CASE UNCHANGED vars
  <2>1. UNCHANGED <<space, search, campaign, rows>> /\ world' = world
    BY <1>4 DEF vars
  <2> QED
    BY <1>1, <2>1, WorldStep
<1>5. CASE Reject
  BY <1>5, RejectStep
<1>6. CASE Admit
  BY <1>6, AdmitStep
<1>7. CASE Visit \/ Loop
  BY <1>7, SearchStep
<1>8. CASE RunNext
  BY <1>8, RunNextStep
<1>9. ASSUME NEW s \in Samples \cup {Threw}, NEW entered \in 0 .. Steps, NEW fits \in BOOLEAN,
             Judge(s, entered, fits)
      PROVE  FiniteInv'
  BY <1>9, JudgeStep
<1> QED
  BY <1>2, <1>3, <1>4, <1>5, <1>6, <1>7, <1>8, <1>9 DEF Next, Returned

---------------------------------------------------------------------------
(* What the invariant says of the report *)

\* The loops ended after a search that was not cut short.
Finished == search.pc = "over" /\ ~Refused /\ campaign.pc = "over" /\ ~campaign.halt /\ search.reason = ""

\* A campaign whose loops ended after a search that was not cut short ran every
\* merge with every input, once each.
LEMMA EverythingRan ==
  ASSUME FiniteInv, Finished
  PROVE  /\ ToSet(search.schedules) = Merges /\ Len(rows) = Cardinality(Merges) * space.inputs
         /\ campaign.attempted = Len(rows)
         /\ {<<r.steps, r.input>> : r \in ToSet(rows)} = Merges \X (0 .. space.inputs - 1)
<1> DEFINE found == search.schedules
           n == Len(found)
<1>1. Exact /\ Outcome /\ Counts /\ RowsTrue /\ Place /\ Covered
  BY DEF FiniteInv, SearchGoes, CampaignGoes, Finished
<1>2. /\ space \in Spaces /\ space.inputs \in Nat \ {0} /\ n \in Nat /\ Len(rows) \in Nat
      /\ DOMAIN rows = 1 .. Len(rows)
  BY Numbers DEF FiniteInv
<1>3. found \in Seq(Seq(Actors)) /\ search.exhausted
  BY <1>1, SearchFacts DEF FiniteInv, Outcome, Finished
<1>4. Ordered(found) /\ ToSet(found) = Merges
  BY <1>1, <1>3 DEF Exact
<1>5. Cardinality(Merges) = n
  BY <1>2, <1>3, <1>4, OrderedOnce
<1>6. campaign.schedule = n + 1 /\ campaign.input = 0
      /\ Len(rows) = (campaign.schedule - 1) * space.inputs + campaign.input
  BY <1>1 DEF Place, Finished
<1>7. Len(rows) = n * space.inputs
  <2> HIDE DEF n
  <2>1. (n + 1) - 1 = n /\ n * space.inputs \in Nat
    BY <1>2
  <2>2. Len(rows) = n * space.inputs + 0
    BY <1>6, <2>1
  <2> QED
    BY <2>1, <2>2
<1>8. campaign.attempted = Len(rows)
  BY <1>1 DEF Counts, Finished
<1>9. ToSet(rows) = {rows[k] : k \in 1 .. Len(rows)}
  BY <1>2 DEF ToSet
<1>10. \A i \in 1 .. n, x \in 0 .. (space.inputs - 1) :
         \E k \in 1 .. Len(rows) : rows[k].steps = found[i] /\ rows[k].input = x
  <2>1. \A i \in 1 .. n : i < campaign.schedule
    <3> HIDE DEF n
    <3> QED
      BY <1>2, <1>6
  <2>2. \A i \in 1 .. n, x \in 0 .. (space.inputs - 1) : Ran(i, x)
    BY <2>1 DEF Ran
  <2> QED
    BY <1>1, <2>2 DEF Covered
<1>11. ASSUME NEW m \in Merges, NEW x \in 0 .. (space.inputs - 1)
       PROVE  \E r \in ToSet(rows) : r.steps = m /\ r.input = x
  <2>1. PICK i \in 1 .. n : found[i] = m
    BY <1>3, <1>4, Members
  <2>2. PICK k \in 1 .. Len(rows) : rows[k].steps = found[i] /\ rows[k].input = x
    BY <1>10
  <2> QED
    BY <1>9, <2>1, <2>2
<1>12. \A r \in ToSet(rows) : r.steps \in Merges /\ r.input \in 0 .. (space.inputs - 1)
  BY <1>1, <1>4, <1>9 DEF RowsTrue
<1>13. {<<r.steps, r.input>> : r \in ToSet(rows)} = Merges \X (0 .. space.inputs - 1)
  <2> DEFINE A == {<<r.steps, r.input>> : r \in ToSet(rows)}
             I == 0 .. (space.inputs - 1)
             R == ToSet(rows)
  <2>1. \A r \in R : r.steps \in Merges /\ r.input \in I
    BY <1>12
  <2>2. \A m \in Merges, x \in I : \E r \in R : r.steps = m /\ r.input = x
    BY <1>11
  <2>3. A = {<<r.steps, r.input>> : r \in R}
    OBVIOUS
  <2> HIDE DEF A, I, R
  <2>4. A \subseteq Merges \X I
    BY <2>1, <2>3
  <2>5. ASSUME NEW a \in Merges \X I PROVE a \in A
    <3>1. PICK m \in Merges, x \in I : a = <<m, x>>
      OBVIOUS
    <3>2. PICK r \in R : r.steps = m /\ r.input = x
      BY <2>2
    <3> QED
      BY <2>3, <3>1, <3>2
  <2>6. A = Merges \X I
    BY <2>4, <2>5
  <2> QED
    BY <2>6 DEF A, I
<1> QED
  BY <1>4, <1>5, <1>7, <1>8, <1>13

\* When the verdict is complete.
LEMMA CompleteWhen ==
  ASSUME FiniteInv, campaign.complete
  PROVE  Finished /\ campaign.completed = Len(rows)
<1>1. campaign \in CampaignType /\ space \in Spaces
  BY DEF FiniteInv, SearchTyped, CampaignTyped
<1>2. campaign.complete = TRUE /\ campaign.pc \in {"wait", "next", "running", "over"}
  BY <1>1, CampaignFacts
<1>3. ~Idle
  BY <1>2 DEF Idle
<1>4. search.pc = "over" /\ ~Refused /\ campaign.pc # "wait"
  BY <1>3 DEF FiniteInv, Waiting
<1>5. Verdict
  BY <1>4 DEF FiniteInv, CampaignGoes
<1> QED
  BY <1>2, <1>4, <1>5 DEF Verdict, Finished

\* The invariant implies that the enumeration is exact.
LEMMA InvExact ==
  ASSUME FiniteInv
  PROVE  EnumerationExact
<1> SUFFICES ASSUME search.pc = "over", ~Refused PROVE EnumerationExact
  BY DEF EnumerationExact, Refused
<1>1. Exact
  BY DEF FiniteInv, SearchGoes
<1> QED
  BY <1>1 DEF EnumerationExact, Exact, Ordered

\* The invariant implies that a complete campaign covered everything.
LEMMA InvComplete ==
  ASSUME FiniteInv
  PROVE  CompleteMeansAll
<1> SUFFICES ASSUME campaign.complete PROVE CompleteMeansAll
  BY DEF CompleteMeansAll
<1>1. Finished /\ campaign.completed = Len(rows)
  BY CompleteWhen
<1>2. /\ Len(rows) = Cardinality(Merges) * space.inputs
      /\ {<<r.steps, r.input>> : r \in ToSet(rows)} = Merges \X (0 .. space.inputs - 1)
  BY <1>1, EverythingRan
<1>3. Counts /\ RowsTrue /\ Sound
  BY <1>1 DEF FiniteInv, CampaignGoes, Finished
<1>4. campaign.edges = Len(rows) * Steps /\ \A k \in 1 .. Len(rows) : rows[k].category = "passed"
  BY <1>1, <1>3 DEF Counts
<1>5. ToSet(rows) = {rows[k] : k \in 1 .. Len(rows)}
  BY Numbers DEF FiniteInv, ToSet
<1>6. \A k \in 1 .. Len(rows) :
        rows[k].category = "passed" /\ rows[k].clean /\ rows[k].good /\ rows[k].kept /\ ~rows[k].late
  BY <1>3, <1>4 DEF RowsTrue, Sound
<1>7. \A r \in ToSet(rows) : r.category = "passed" /\ r.clean /\ r.good /\ r.kept /\ ~r.late
  BY <1>5, <1>6
<1> QED
  BY <1>2, <1>4, <1>7 DEF CompleteMeansAll

\* A report about no run at all.
LEMMA InvIdle ==
  ASSUME Idle
  PROVE  FirstsAreFirst /\ UnknownCleanupStops
<1>1. DOMAIN rows = {} /\ campaign.failure = None /\ campaign.counterexample = None
  BY DEF Idle
<1> QED
  BY <1>1 DEF FirstsAreFirst, First, UnknownCleanupStops

\* The invariant implies that the reason tells the truth.
LEMMA InvReason ==
  ASSUME FiniteInv
  PROVE  ReasonTruthful
<1> SUFFICES ASSUME campaign.pc = "over" PROVE ReasonTruthful
  BY DEF ReasonTruthful
<1>1. campaign \in CampaignType /\ space \in Spaces
  BY DEF FiniteInv, SearchTyped, CampaignTyped
<1>2. campaign.complete \in BOOLEAN /\ campaign.halt \in BOOLEAN
  BY <1>1, CampaignFacts
<1>3. search.pc = "over"
  BY DEF FiniteInv, Waiting
<1>4. CASE Refused
  <2>1. campaign.reason = "invalid_declaration" /\ campaign.complete = FALSE
    BY <1>4 DEF FiniteInv, Waiting, Idle, Refused
  <2> QED
    BY <2>1 DEF ReasonTruthful
<1>5. CASE ~Refused
  <2>1. Verdict /\ Counts /\ Outcome
    BY <1>3, <1>5 DEF FiniteInv, CampaignGoes, SearchGoes
  <2>2. /\ campaign.reason = "cancelled" => world.stop
        /\ campaign.reason = "time_budget" => world.late
        /\ campaign.reason = "run_limit" => campaign.attempted = space.runs
    BY <2>1 DEF Verdict
  <2>3. CASE campaign.halt
    <3>1. campaign.reason \in HaltReasons /\ campaign.complete = FALSE
      BY <2>1, <2>3 DEF Verdict
    <3> QED
      BY <2>2, <3>1 DEF ReasonTruthful, HaltReasons
  <2>4. CASE ~campaign.halt /\ search.reason # ""
    <3>1. campaign.reason = search.reason /\ campaign.complete = FALSE
      BY <2>1, <2>4 DEF Verdict
    <3>2. /\ search.reason \in {"", "cancelled", "time_budget", "enumeration_limit"}
          /\ search.reason = "enumeration_limit" => Cardinality(Merges) > space.cap
      BY <2>1 DEF Outcome
    <3> QED
      BY <2>2, <3>1, <3>2 DEF ReasonTruthful
  <2>5. CASE ~campaign.halt /\ search.reason = "" /\ campaign.completed = Len(rows)
    <3>1. campaign.reason = "complete" /\ campaign.complete = TRUE
      BY <2>1, <2>5 DEF Verdict
    <3> QED
      BY <3>1 DEF ReasonTruthful
  <2>6. CASE ~campaign.halt /\ search.reason = "" /\ campaign.completed # Len(rows)
    <3>1. campaign.reason = "non_pass_runs" /\ campaign.complete = FALSE
      BY <2>1, <2>6 DEF Verdict
    <3>2. campaign.attempted = Cardinality(Merges) * space.inputs
      BY <1>3, <1>5, <2>6, EverythingRan DEF Finished
    <3>3. \E r \in ToSet(rows) : r.category # "passed"
      <4>1. PICK k \in 1 .. Len(rows) : rows[k].category # "passed"
        BY <2>1, <2>6 DEF Counts
      <4>2. rows[k] \in ToSet(rows)
        BY Numbers DEF FiniteInv, ToSet
      <4> QED
        BY <4>1, <4>2
    <3> QED
      BY <3>1, <3>2, <3>3 DEF ReasonTruthful
  <2> QED
    BY <2>3, <2>4, <2>5, <2>6
<1> QED
  BY <1>4, <1>5

\* The invariant implies what holds of the report throughout.
LEMMA InvCampaign ==
  ASSUME FiniteInv
  PROVE  CampaignInv
<1>1. TypeOK
  BY Typed DEF FiniteInv
<1>2. FirstsAreFirst /\ UnknownCleanupStops
  <2>1. CASE search.pc = "over" /\ ~Refused
    BY <2>1 DEF FiniteInv, CampaignGoes
  <2>2. CASE ~(search.pc = "over" /\ ~Refused)
    <3>1. Idle
      BY <2>2 DEF FiniteInv, Waiting
    <3> QED
      BY <3>1, InvIdle
  <2> QED
    BY <2>1, <2>2
<1> QED
  BY <1>1, <1>2, InvReason DEF CampaignInv

---------------------------------------------------------------------------
(* The theorems *)

\* The inductive invariant holds in every state of explore_finite.
LEMMA FiniteInvariant ==
  Spec => []FiniteInv
<1>1. Init => FiniteInv
  BY FiniteStart
<1>2. FiniteInv /\ [Next]_vars => FiniteInv'
  BY FiniteStep
<1> QED
  BY <1>1, <1>2, PTL DEF Spec

\* For every declaration - any number of actors, chains of any lengths, any
\* preemption bound and cap, and wherever a stop request or the deadline falls -
\* enumerate has found, when it is over, the merges within the bound once each in
\* canonical order: all of them if it says exhausted, and a prefix otherwise.
THEOREM EnumerationIsExact == Spec => []EnumerationExact
<1>1. FiniteInv => EnumerationExact
  BY InvExact
<1> QED
  BY <1>1, FiniteInvariant, PTL

\* A report that says complete stands for every merge with every input, each run
\* once, passed, clean, kept and in time, with coverage of every step.
THEOREM CompleteIsAll == Spec => []CompleteMeansAll
<1>1. FiniteInv => CompleteMeansAll
  BY InvComplete
<1> QED
  BY <1>1, FiniteInvariant, PTL

\* The report of explore_finite is typed within its limits, names the first
\* failure and the first counterexample, acquires nothing after a cleanup that is
\* not known to be complete, and gives a true reason for stopping.
THEOREM CampaignHolds == Spec => []CampaignInv
<1>1. FiniteInv => CampaignInv
  BY InvCampaign
<1> QED
  BY <1>1, FiniteInvariant, PTL
=============================================================================

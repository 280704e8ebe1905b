------------------------ MODULE GeneticRosterProofs ------------------------
(***************************************************************************)
(* Proofs about what Genetic answers, for any users, inputs and weights:   *)
(* a fitness is a number unless nobody works, the first of a sorted        *)
(* population is a fittest one and is lost only as a parent, and the       *)
(* result is a roster that the checks of a submitted one accept.           *)
(***************************************************************************)
EXTENDS GeneticProofs, WellFoundedInduction

-----------------------------------------------------------------------------
(* Induction, without an operator as a parameter: over the members of a    *)
(* set.                                                                    *)
(* A set of subsets of a finite set has a minimal member.                  *)
LEMMA Minimal ==
  ASSUME NEW S, IsFiniteSet(S), NEW T \in SUBSET SUBSET S, T /= {}
  PROVE  \E X \in T : \A Y \in T : ~(Y \subseteq X /\ Y /= X)
<1> DEFINE R == StrictSubsetOrdering(S)
<1>1. IsWellFoundedOn(R, SUBSET S)
  BY FS_StrictSubsetOrderingWellFounded, FS_FiniteSubsetsOfFinite
<1>2. \A X, Y \in SUBSET S : X \subseteq Y /\ X /= Y => <<X, Y>> \in R
  BY DEF StrictSubsetOrdering
<1> HIDE DEF R
<1>3. \E X \in T : \A Y \in T : ~(<<Y, X>> \in R)
  BY <1>1, WFMin
<1> QED BY <1>2, <1>3

(* Induction: a set of numbers that has 0 and the successors of what it    *)
(* has is that of all numbers.                                             *)
LEMMA AllNumbers ==
  ASSUME NEW T, 0 \in T, \A n \in Nat : n \in T => n + 1 \in T
  PROVE  Nat \subseteq T
<1> SUFFICES ASSUME NEW n \in Nat, n \notin T PROVE FALSE
  OBVIOUS
<1> DEFINE missing == {0 .. x : x \in (0 .. n) \ T}
<1>1. IsFiniteSet(0 .. n)
  BY FS_Interval
<1>2. missing \in SUBSET SUBSET (0 .. n) /\ missing /= {}
  <2>1. 0 .. n \in missing
    OBVIOUS
  <2> QED BY <2>1
<1>3. PICK X \in missing : \A Y \in missing : ~(Y \subseteq X /\ Y /= X)
  <2> DEFINE S == 0 .. n
  <2>1. IsFiniteSet(S) /\ missing \in SUBSET SUBSET S /\ missing /= {}
    BY <1>1, <1>2
  <2> HIDE DEF missing, S
  <2> QED BY <2>1, Minimal
<1>4. PICK x \in (0 .. n) \ T : X = 0 .. x
  BY <1>3
<1>5. x /= 0 /\ x - 1 \in (0 .. n) \ T
  BY <1>4
<1>6. 0 .. (x - 1) \in missing
  BY <1>5
<1>7. 0 .. (x - 1) \subseteq X /\ 0 .. (x - 1) /= X
  <2>1. x \in 0 .. x /\ x \notin 0 .. (x - 1) /\ 0 .. (x - 1) \subseteq 0 .. x
    BY <1>4, <1>5
  <2> QED BY <1>4, <2>1
<1> QED BY <1>3, <1>6, <1>7

-----------------------------------------------------------------------------
(* Sums and lists of lists, as the community modules define them.          *)

(* How SumFunction goes through the elements of a set.                     *)
AnyOf(s) == CHOOSE x \in s : TRUE
SumStep(f, g, s) == IF s = {} THEN 0 ELSE f[AnyOf(s)] + g[s \ {AnyOf(s)}]
SumsOn(f, S, g) == g = [s \in S |-> SumStep(f, g, s)]

LEMMA SumDefined ==
  ASSUME NEW f
  PROVE  SumFunction(f) = (CHOOSE g : SumsOn(f, SUBSET DOMAIN f, g))[DOMAIN f]
BY DEF SumFunction, SumFunctionOnSet, FoldFunctionOnSet, MapThenFoldSet, SumsOn, SumStep, AnyOf

(* On a finite set there is a way to go through the elements.              *)
LEMMA SumsExist ==
  ASSUME NEW D, IsFiniteSet(D), NEW f
  PROVE  \E g : SumsOn(f, SUBSET D, g)
<1> DEFINE Upto(n) == {s \in SUBSET D : Cardinality(s) <= n}
           T == {n \in Nat : \E g : SumsOn(f, Upto(n), g)}
<1>1. \A s \in SUBSET D : IsFiniteSet(s) /\ Cardinality(s) \in Nat
  BY FS_Subset, FS_CardinalityType
<1>2. 0 \in T
  <2>1. \A s \in Upto(0) : s = {}
    BY <1>1, FS_EmptySet
  <2> DEFINE g == [s \in Upto(0) |-> 0]
  <2>2. SumsOn(f, Upto(0), g)
    BY <2>1 DEF SumsOn, SumStep
  <2> HIDE DEF g
  <2> QED BY <2>2
<1>3. ASSUME NEW n \in Nat, n \in T PROVE n + 1 \in T
  <2>1. PICK g : SumsOn(f, Upto(n), g)
    BY <1>3
  <2> DEFINE h == [s \in Upto(n + 1) |-> SumStep(f, g, s)]
  <2>2. ASSUME NEW s \in Upto(n) PROVE s \in Upto(n + 1) /\ h[s] = g[s]
    <3>1. s \in SUBSET D /\ Cardinality(s) <= n /\ Cardinality(s) \in Nat
      BY <1>1
    <3>2. s \in Upto(n + 1)
      BY <3>1
    <3>3. g[s] = SumStep(f, g, s)
      BY <2>1 DEF SumsOn
    <3> QED BY <3>2, <3>3
  <2>3. ASSUME NEW s \in Upto(n + 1), s /= {} PROVE s \ {AnyOf(s)} \in Upto(n)
    <3>1. AnyOf(s) \in s
      BY <2>3 DEF AnyOf
    <3>2. Cardinality(s \ {AnyOf(s)}) = Cardinality(s) - 1
      BY <1>1, <3>1, FS_RemoveElement
    <3>3. s \ {AnyOf(s)} \in SUBSET D /\ Cardinality(s) <= n + 1 /\ Cardinality(s) \in Nat
      BY <1>1
    <3> QED BY <3>2, <3>3
  <2>4. ASSUME NEW s \in Upto(n + 1) PROVE SumStep(f, h, s) = SumStep(f, g, s)
    <3> HIDE DEF h, Upto
    <3> QED BY <2>2, <2>3 DEF SumStep
  <2>5. SumsOn(f, Upto(n + 1), h)
    <3> HIDE DEF Upto
    <3> QED BY <2>4 DEF SumsOn
  <2> HIDE DEF h
  <2> QED BY <2>5
<1>4. Nat \subseteq T
  <2> HIDE DEF T
  <2> QED BY <1>2, <1>3, AllNumbers
<1>5. Upto(Cardinality(D)) = SUBSET D
  BY <1>1, FS_Subset
<1>6. Cardinality(D) \in Nat
  BY FS_CardinalityType
<1>7. Cardinality(D) \in T
  BY <1>4, <1>6
<1> QED BY <1>5, <1>7

(* The sum of whole numbers over a finite domain is a whole number, and so *)
(* it is for those that are not negative.                                  *)
LEMMA SumIsInt ==
  ASSUME NEW D, IsFiniteSet(D), NEW f \in [D -> Int]
  PROVE  SumFunction(f) \in Int
<1> DEFINE g == CHOOSE h : SumsOn(f, SUBSET D, h)
           T == {n \in Nat : \A s \in SUBSET D : Cardinality(s) = n => g[s] \in Int}
<1>1. SumsOn(f, SUBSET D, g)
  BY SumsExist
<1>2. SumFunction(f) = g[D]
  BY SumDefined
<1> HIDE DEF g
<1>3. \A s \in SUBSET D : IsFiniteSet(s) /\ Cardinality(s) \in Nat
  BY FS_Subset, FS_CardinalityType
<1>4. 0 \in T
  BY <1>1, <1>3, FS_EmptySet DEF SumsOn, SumStep
<1>5. ASSUME NEW n \in Nat, n \in T PROVE n + 1 \in T
  <2> SUFFICES ASSUME NEW s \in SUBSET D, Cardinality(s) = n + 1 PROVE g[s] \in Int
    OBVIOUS
  <2>1. s /= {} /\ AnyOf(s) \in s
    <3>1. s /= {}
      BY FS_EmptySet
    <3> QED BY <3>1 DEF AnyOf
  <2>2. Cardinality(s \ {AnyOf(s)}) = n
    <3>1. Cardinality(s \ {AnyOf(s)}) = Cardinality(s) - 1
      BY <1>3, <2>1, FS_RemoveElement
    <3> QED BY <3>1
  <2>3. s \ {AnyOf(s)} \in SUBSET D /\ AnyOf(s) \in D
    BY <2>1
  <2>4. g[s \ {AnyOf(s)}] \in Int /\ f[AnyOf(s)] \in Int
    BY <1>5, <2>2, <2>3
  <2>5. g[s] = f[AnyOf(s)] + g[s \ {AnyOf(s)}]
    BY <1>1, <2>1 DEF SumsOn, SumStep
  <2> QED BY <2>4, <2>5
<1>6. Nat \subseteq T
  <2> HIDE DEF T
  <2> QED BY <1>4, <1>5, AllNumbers
<1>7. Cardinality(D) \in T
  BY <1>3, <1>6
<1> QED BY <1>2, <1>7

(* How FlattenSeq goes through a list of lists.                            *)
Flattens(seqs, n, g) ==
    g = [i \in 1 .. n |-> IF i = 1 THEN seqs[i] ELSE g[i - 1] \o seqs[i]]

LEMMA FlattenDefined ==
  ASSUME NEW seqs
  PROVE  FlattenSeq(seqs) = IF Len(seqs) = 0 THEN seqs
                            ELSE (CHOOSE g : Flattens(seqs, Len(seqs), g))[Len(seqs)]
BY DEF FlattenSeq, Flattens

LEMMA FlattenStep ==
  ASSUME NEW seqs, NEW n, NEW g, Flattens(seqs, n, g), NEW i \in 1 .. n
  PROVE  g[i] = IF i = 1 THEN seqs[i] ELSE g[i - 1] \o seqs[i]
<1>1. g = [j \in 1 .. n |-> IF j = 1 THEN seqs[j] ELSE g[j - 1] \o seqs[j]]
  BY DEF Flattens
<1> QED BY <1>1

LEMMA FlattensExist ==
  ASSUME NEW seqs, NEW n \in Nat
  PROVE  \E g : Flattens(seqs, n, g)
<1> DEFINE T == {m \in Nat : \E g : Flattens(seqs, m, g)}
<1>1. 0 \in T
  <2> DEFINE g == [i \in 1 .. 0 |-> <<>>]
  <2>1. Flattens(seqs, 0, g)
    BY DEF Flattens
  <2> HIDE DEF g
  <2> QED BY <2>1
<1>2. ASSUME NEW m \in Nat, m \in T PROVE m + 1 \in T
  <2>1. PICK g : Flattens(seqs, m, g)
    BY <1>2
  <2> DEFINE h == [i \in 1 .. m + 1 |-> IF i = 1 THEN seqs[i] ELSE g[i - 1] \o seqs[i]]
  <2>2. \A i \in 1 .. m : h[i] = g[i]
    <3>1. \A i \in 1 .. m : i \in 1 .. m + 1
      OBVIOUS
    <3>2. \A i \in 1 .. m : h[i] = IF i = 1 THEN seqs[i] ELSE g[i - 1] \o seqs[i]
      BY <3>1
    <3> HIDE DEF h
    <3> QED BY <2>1, <3>2, FlattenStep
  <2>3. \A i \in 1 .. m + 1 : i /= 1 => h[i - 1] = g[i - 1]
    <3>1. \A i \in 1 .. m + 1 : i /= 1 => i - 1 \in 1 .. m
      OBVIOUS
    <3> HIDE DEF h
    <3> QED BY <2>2, <3>1
  <2>4. Flattens(seqs, m + 1, h)
    BY <2>3 DEF Flattens
  <2> HIDE DEF h
  <2> QED BY <2>4
<1>3. Nat \subseteq T
  <2> HIDE DEF T
  <2> QED BY <1>1, <1>2, AllNumbers
<1> QED BY <1>3

(* What FlattenSeq returns has the elements of the lists, and when each    *)
(* of them has one element, it is the list of these.                       *)
LEMMA Flattened ==
  ASSUME NEW V, NEW n \in Nat, NEW seqs \in [1 .. n -> Seq(V)]
  PROVE  /\ FlattenSeq(seqs) \in Seq(V)
         /\ Range(FlattenSeq(seqs)) = UNION {Range(seqs[i]) : i \in 1 .. n}
         /\ (\A i \in 1 .. n : Len(seqs[i]) = 1) =>
              /\ Len(FlattenSeq(seqs)) = n
              /\ \A i \in 1 .. n : FlattenSeq(seqs)[i] = seqs[i][1]
<1>1. Len(seqs) = n
  OBVIOUS
<1>2. CASE n = 0
  <2>1. FlattenSeq(seqs) = <<>>
    BY <1>1, <1>2, FlattenDefined
  <2> QED BY <1>2, <2>1 DEF Range
<1>3. CASE n > 0
  <2> DEFINE g == CHOOSE h : Flattens(seqs, n, h)
  <2>1. Flattens(seqs, n, g)
    BY FlattensExist
  <2>2. FlattenSeq(seqs) = g[n]
    BY <1>1, <1>3, FlattenDefined
  <2> HIDE DEF g
  <2> DEFINE Good(m) == /\ g[m] \in Seq(V)
                        /\ Range(g[m]) = UNION {Range(seqs[i]) : i \in 1 .. m}
                        /\ (\A i \in 1 .. m : Len(seqs[i]) = 1) =>
                             Len(g[m]) = m /\ \A i \in 1 .. m : g[m][i] = seqs[i][1]
             T == {m \in Nat : m + 1 <= n => Good(m + 1)}
  <2>3. 0 \in T
    <3>1. g[1] = seqs[1] /\ seqs[1] \in Seq(V)
      BY <1>3, <2>1 DEF Flattens
    <3>2. {Range(seqs[i]) : i \in 1 .. 1} = {Range(seqs[1])}
      OBVIOUS
    <3>3. \A i \in 1 .. 1 : i = 1
      OBVIOUS
    <3>4. Good(1)
      BY <3>1, <3>2, <3>3
    <3> HIDE DEF Good
    <3> QED BY <3>4
  <2>4. ASSUME NEW m \in Nat, m \in T PROVE m + 1 \in T
    <3> SUFFICES ASSUME m + 1 + 1 <= n PROVE Good(m + 1 + 1)
      BY DEF Good
    <3> DEFINE k == m + 1
    <3>1. k \in 1 .. n /\ k + 1 \in 1 .. n /\ k \in Nat
      OBVIOUS
    <3>2. Good(k)
      BY <2>4, <3>1
    <3>3. g[k + 1] = g[k] \o seqs[k + 1] /\ seqs[k + 1] \in Seq(V)
      <4>1. seqs[k + 1] \in Seq(V)
        BY <3>1
      <4>2. k + 1 /= 1 /\ k + 1 - 1 = k
        BY <3>1
      <4>3. g[k + 1] = IF k + 1 = 1 THEN seqs[k + 1] ELSE g[k + 1 - 1] \o seqs[k + 1]
        <5> HIDE DEF k, Good
        <5> QED BY <2>1, <3>1, FlattenStep
      <4> QED BY <4>1, <4>2, <4>3
    <3>4. /\ g[k + 1] \in Seq(V)
          /\ Len(g[k + 1]) = Len(g[k]) + Len(seqs[k + 1])
          /\ \A i \in 1 .. Len(g[k]) : g[k + 1][i] = g[k][i]
          /\ \A i \in 1 .. Len(seqs[k + 1]) : g[k + 1][Len(g[k]) + i] = seqs[k + 1][i]
          /\ Range(g[k + 1]) = Range(g[k]) \cup Range(seqs[k + 1])
      <4> DEFINE a == g[k]
                 b == seqs[k + 1]
      <4>1. a \in Seq(V) /\ b \in Seq(V) /\ g[k + 1] = a \o b
        BY <3>2, <3>3
      <4> HIDE DEF a, b, k
      <4>2. /\ a \o b \in Seq(V)
            /\ Len(a \o b) = Len(a) + Len(b)
            /\ \A i \in 1 .. Len(a) : (a \o b)[i] = a[i]
            /\ \A i \in 1 .. Len(b) : (a \o b)[Len(a) + i] = b[i]
            /\ Len(a) \in Nat /\ Len(b) \in Nat
            /\ DOMAIN a = 1 .. Len(a) /\ DOMAIN b = 1 .. Len(b)
            /\ DOMAIN (a \o b) = 1 .. Len(a) + Len(b)
        BY <4>1
      <4>3. \A i \in 1 .. Len(a) + Len(b) :
              i \in 1 .. Len(a) \/ \E j \in 1 .. Len(b) : i = Len(a) + j
        <5> SUFFICES ASSUME NEW i \in 1 .. Len(a) + Len(b), i \notin 1 .. Len(a)
                     PROVE  \E j \in 1 .. Len(b) : i = Len(a) + j
          OBVIOUS
        <5>1. i - Len(a) \in 1 .. Len(b) /\ i = Len(a) + (i - Len(a))
          BY <4>2
        <5> QED BY <5>1
      <4>4. \A i \in 1 .. Len(b) : Len(a) + i \in 1 .. Len(a) + Len(b)
        BY <4>2
      <4>5. 1 .. Len(a) \subseteq 1 .. Len(a) + Len(b)
        BY <4>2
      <4>6. Range(a \o b) = Range(a) \cup Range(b)
        <5>1. ASSUME NEW i \in 1 .. Len(a) + Len(b)
              PROVE  (a \o b)[i] \in Range(a) \cup Range(b)
          BY <4>2, <4>3 DEF Range
        <5>2. ASSUME NEW i \in 1 .. Len(a) PROVE a[i] \in Range(a \o b)
          BY <4>2, <4>5 DEF Range
        <5>3. ASSUME NEW i \in 1 .. Len(b) PROVE b[i] \in Range(a \o b)
          BY <4>2, <4>4 DEF Range
        <5>4. /\ Range(a \o b) = {(a \o b)[i] : i \in 1 .. Len(a) + Len(b)}
              /\ Range(a) = {a[i] : i \in 1 .. Len(a)} /\ Range(b) = {b[i] : i \in 1 .. Len(b)}
          BY <4>2 DEF Range
        <5> QED BY <5>1, <5>2, <5>3, <5>4
      <4> QED BY <4>1, <4>2, <4>6 DEF a, b
    <3>5. Range(g[k + 1]) = UNION {Range(seqs[i]) : i \in 1 .. k + 1}
      <4>1. Range(g[k]) = UNION {Range(seqs[i]) : i \in 1 .. k}
        BY <3>2
      <4>2. 1 .. k + 1 = (1 .. k) \cup {k + 1}
        BY <3>1
      <4> HIDE DEF k
      <4> QED BY <3>4, <4>1, <4>2
    <3>6. ASSUME \A i \in 1 .. k + 1 : Len(seqs[i]) = 1
          PROVE  Len(g[k + 1]) = k + 1 /\ \A i \in 1 .. k + 1 : g[k + 1][i] = seqs[i][1]
      <4>1. Len(g[k]) = k /\ \A i \in 1 .. k : g[k][i] = seqs[i][1]
        BY <3>1, <3>2, <3>6
      <4>2. Len(seqs[k + 1]) = 1
        BY <3>1, <3>6
      <4>3. \A i \in 1 .. k + 1 : i \in 1 .. k \/ i = k + 1
        BY <3>1
      <4> HIDE DEF k, Good
      <4> QED BY <3>1, <3>4, <4>1, <4>2, <4>3
    <3> HIDE DEF k
    <3>7. Good(k + 1)
      BY <3>4, <3>5, <3>6
    <3> QED BY <3>7 DEF k
  <2>5. Nat \subseteq T
    <3> HIDE DEF T
    <3> QED BY <2>3, <2>4, AllNumbers
  <2>6. n - 1 \in T /\ (n - 1) + 1 = n
    <3>1. n - 1 \in Nat /\ (n - 1) + 1 = n
      BY <1>3
    <3> HIDE DEF T
    <3> QED BY <2>5, <3>1
  <2>7. Good(n)
    <3> HIDE DEF Good
    <3> QED BY <2>6
  <2> QED BY <2>2, <2>7
<1> QED BY <1>2, <1>3

-----------------------------------------------------------------------------
(* The invariant.                                                          *)

\* The slot that a day of a shift is, and those who offered it.
SlotOf(k, d) ==
    [shift |-> read.shifts[k].id, day |-> read.shifts[k].days[d], need |-> read.shifts[k].need,
     hours |-> read.shifts[k].end - read.shifts[k].start]
OfferedBy(i) ==
    {read.submissions[k].user : k \in
       {l \in DOMAIN read.submissions :
          <<slots[i].shift, slots[i].day>> \in Slots(read.submissions[l].form)}}

\* The slots are the days of the shifts that the loops have passed.
Listed ==
    /\ slots /= <<>> \/ pc = "listing" => pool = [k \in DOMAIN read.submissions |-> read.submissions[k].user]
    /\ \A i \in DOMAIN slots :
         /\ available[i] = OfferedBy(i)
         /\ \E k \in DOMAIN read.shifts : \E d \in DOMAIN read.shifts[k].days : slots[i] = SlotOf(k, d)
    /\ \A k \in DOMAIN read.shifts : \A d \in DOMAIN read.shifts[k].days :
         Filled \/ (pc = "listing" /\ (k < at[1] \/ (k = at[1] /\ d < at[2]))) =>
           \E i \in DOMAIN slots : slots[i] = SlotOf(k, d)
    /\ pc = "failed" => slots = <<>> \/ ~SubmittedOnce

\* The assistants of a gene are as many as there are places, or people for them:
\* mutation may change the principal, but then it changes who else there is in
\* number only if somebody is twice in the pool.
Seats(i, p) ==
    Min({slots[i].need - 1, Cardinality({k \in DOMAIN pool : pool[k] \in available[i] \ {p}})})
Full(g, i) ==
    SubmittedOnce \/ g.principal = NoPrincipal => Len(g.assistants) = Seats(i, g.principal)
FullGenes ==
    /\ \A k \in 1 .. Len(pop) : \A i \in DOMAIN slots : Full(gene[k][i], i)
    /\ best.genes /= <<>> => \A i \in DOMAIN slots : Full(gene[0][i], i)

\* Crossover exchanges references: a gene belongs to one chromosome.
OwnGenes ==
    \A c, d \in 1 .. Len(pop) : \A i \in DOMAIN slots : genes[c][i] = genes[d][i] => c = d

\* The first of the population is a fittest one, the first of the next one, and
\* what it was measured as unless it was bred.
FirstKept ==
    pc \in {"breeding", "mutating"} =>
      /\ newPop /= <<>> /\ newPop[1] = pop[1]
      /\ AsFitAsAny(fitness[pop[1]])
      /\ pop[1] \notin bred => fitness[pop[1]] = Fitness(Genome(pop[1]), slots)
      /\ pc = "mutating" => parents[1] \in bred /\ parents[2] \in bred

\* Nobody can be placed on slot i.
Nobody(i) == PrincipalCandidates(i) = {} /\ Seats(i, NoPrincipal) = 0

\* There is no best one ever only before the first generation, or for want of people.
NoBest ==
    best.genes = <<>> =>
      /\ best.fitness = Undefined
      /\ pc \in {"breeding", "mutating", "finishing", "done"} => \A i \in DOMAIN slots : Nobody(i)

RInv == Listed /\ FullGenes /\ OwnGenes /\ FirstKept /\ NoBest

-----------------------------------------------------------------------------
(* The fitness of a genome.                                                *)

(* Whoever offers a slot is in the pool, which is finite.                  *)
LEMMA OfferersInPool ==
  ASSUME TypeOK, Listed
  PROVE  /\ IsFiniteSet(Range(pool)) /\ IsFiniteSet(DOMAIN pool) /\ IsFiniteSet(DOMAIN slots)
         /\ \A i \in DOMAIN slots : available[i] \subseteq Range(pool)
<1>1. pool \in Seq(Users) /\ slots \in Seq(SlotRows)
  BY DEF TypeOK
<1>2. IsFiniteSet(DOMAIN pool) /\ IsFiniteSet(DOMAIN slots)
  <2>1. DOMAIN pool = 1 .. Len(pool) /\ Len(pool) \in Nat
        /\ DOMAIN slots = 1 .. Len(slots) /\ Len(slots) \in Nat
    BY <1>1
  <2> QED BY <2>1, FS_Interval
<1>3. IsFiniteSet(Range(pool))
  <2>1. pool \in [DOMAIN pool -> Range(pool)] /\ pool \in Surjection(DOMAIN pool, Range(pool))
    BY <1>1 DEF Range, Surjection
  <2> QED BY <1>2, <2>1, FS_Surjection
<1>4. ASSUME NEW i \in DOMAIN slots PROVE available[i] \subseteq Range(pool)
  <2>1. pool = [k \in DOMAIN read.submissions |-> read.submissions[k].user]
    BY <1>1 DEF Listed
  <2>2. available[i] = OfferedBy(i)
    BY DEF Listed
  <2> QED BY <2>1, <2>2 DEF OfferedBy, Range
<1> QED BY <1>2, <1>3, <1>4

(* The hours of somebody are a whole number.                               *)
LEMMA WorkIsInt ==
  ASSUME TypeOK, Listed, NEW g \in [DOMAIN slots -> Genes], NEW u
  PROVE  Work(u, g, slots) \in Int
<1> DEFINE Times(i) == (IF g[i].principal = u THEN 1 ELSE 0)
                       + Cardinality({j \in DOMAIN g[i].assistants : g[i].assistants[j] = u})
           f == [i \in DOMAIN g |-> slots[i].hours * Times(i)]
<1>1. ASSUME NEW i \in DOMAIN slots PROVE slots[i].hours * Times(i) \in Int
  <2>1. slots[i] \in SlotRows
    BY DEF TypeOK
  <2>2. slots[i].hours \in Int
    BY <2>1 DEF SlotRows
  <2>3. g[i].assistants \in Seq(Users)
    BY DEF Genes
  <2>4. IsFiniteSet(DOMAIN g[i].assistants)
    <3>1. DOMAIN g[i].assistants = 1 .. Len(g[i].assistants) /\ Len(g[i].assistants) \in Nat
      BY <2>3
    <3> QED BY <3>1, FS_Interval
  <2>5. Cardinality({j \in DOMAIN g[i].assistants : g[i].assistants[j] = u}) \in Nat
    BY <2>4, FS_Subset, FS_CardinalityType
  <2>6. Times(i) \in Int
    BY <2>5
  <2> HIDE DEF Times
  <2> QED BY <2>2, <2>6
<1>2. f \in [DOMAIN slots -> Int]
  <2> HIDE DEF Times
  <2> QED BY <1>1
<1>3. SumFunction(f) \in Int
  <2> HIDE DEF f
  <2> QED BY <1>2, OfferersInPool, SumIsInt
<1> QED BY <1>3 DEF Work

(* A fitness is a whole number if somebody works, and NaN if nobody does.  *)
LEMMA FitnessValue ==
  ASSUME TypeOK, Listed, NEW g \in [DOMAIN slots -> Genes],
         \A i \in DOMAIN slots : WellFormed(g[i], i)
  PROVE  IF \A i \in DOMAIN slots : Staff(g[i]) = {}
         THEN Fitness(g, slots) = Undefined ELSE Fitness(g, slots) \in Int
<1> DEFINE working == UNION {Staff(g[i]) : i \in DOMAIN g}
           n == Cardinality(working)
           work == [u \in working |-> Work(u, g, slots)]
           idle == Cardinality({u \in working : work[u] = 0})
           squares == SumFunction([u \in working |-> work[u] * work[u]])
           total == SumFunction(work)
<1>1. Fitness(g, slots) = IF n = 0 THEN Undefined
                          ELSE -(Unit * idle)
                               - FairnessWeight * (Unit \div (n * n)) * (n * squares - total * total)
  BY DEF Fitness
<1>2. working \subseteq Range(pool)
  <2> SUFFICES ASSUME NEW i \in DOMAIN slots PROVE Staff(g[i]) \subseteq available[i]
    BY OfferersInPool
  <2> QED BY DEF Staff, WellFormed, PrincipalCandidates
<1>3. IsFiniteSet(working) /\ n \in Nat /\ (n = 0 <=> working = {})
  BY <1>2, OfferersInPool, FS_Subset, FS_CardinalityType, FS_EmptySet
<1>4. work \in [working -> Int]
  BY WorkIsInt
<1>5. idle \in Nat
  BY <1>3, FS_Subset, FS_CardinalityType
<1>6. squares \in Int /\ total \in Int
  <2>1. [u \in working |-> work[u] * work[u]] \in [working -> Int]
    <3> HIDE DEF working, work
    <3> QED BY <1>4
  <2> HIDE DEF working, work
  <2> QED BY <1>3, <1>4, <2>1, SumIsInt
<1>7. working = {} <=> \A i \in DOMAIN slots : Staff(g[i]) = {}
  OBVIOUS
<1>8. n /= 0 => -(Unit * idle)
                - FairnessWeight * (Unit \div (n * n)) * (n * squares - total * total) \in Int
  <2> SUFFICES ASSUME n /= 0
               PROVE  -(Unit * idle)
                      - FairnessWeight * (Unit \div (n * n)) * (n * squares - total * total) \in Int
    OBVIOUS
  <2> HIDE DEF n, idle, squares, total
  <2>1. n * n \in Nat /\ n * n > 0
    BY <1>3
  <2>2. Unit \in Nat /\ FairnessWeight \in Nat
    BY FitnessAssumption
  <2>3. \A a, b \in Nat : b > 0 => a \div b \in Int
    OBVIOUS
  <2>4. Unit \div (n * n) \in Int
    BY <2>1, <2>2, <2>3
  <2>5. FairnessWeight * (Unit \div (n * n)) \in Int
    <3> DEFINE a == Unit \div (n * n)
    <3> HIDE DEF a
    <3>1. a \in Int => FairnessWeight * a \in Int
      BY <2>2
    <3> QED BY <2>4, <3>1 DEF a
  <2>6. n * squares - total * total \in Int
    BY <1>3, <1>6
  <2>7. \A a, b, c \in Int : -a - b * c \in Int
    OBVIOUS
  <2>8. Unit * idle \in Int
    BY <1>5, <2>2
  <2> QED BY <2>5, <2>6, <2>7, <2>8
<1> HIDE DEF n, idle, squares, total, work, working
<1> QED BY <1>1, <1>3, <1>7, <1>8

-----------------------------------------------------------------------------
(* How many assistants a gene has.                                         *)

(* The places that are left to assistants are a number.                    *)
LEMMA SeatsType ==
  ASSUME TypeOK, Listed, NEW i \in DOMAIN slots, NEW p
  PROVE  LET candidates == {k \in DOMAIN pool : pool[k] \in available[i] \ {p}}
         IN  /\ Cardinality(candidates) \in Nat /\ IsFiniteSet(candidates)
             /\ slots[i].need \in Nat \ {0}
             /\ Seats(i, p) \in {slots[i].need - 1, Cardinality(candidates)}
             /\ Seats(i, p) \in Nat
<1> DEFINE candidates == {k \in DOMAIN pool : pool[k] \in available[i] \ {p}}
           n == Cardinality(candidates)
           m == slots[i].need - 1
<1>1. slots[i].need \in Nat \ {0} /\ m \in Nat
  <2>1. slots[i] \in SlotRows
    BY DEF TypeOK
  <2> QED BY <2>1 DEF SlotRows
<1>2. IsFiniteSet(candidates) /\ n \in Nat
  BY OfferersInPool, FS_Subset, FS_CardinalityType
<1>3. Seats(i, p) = Min({m, n})
  BY DEF Seats
<1> HIDE DEF m, n
<1>4. Min({m, n}) \in {m, n}
  <2>1. m \in Int /\ n \in Int
    BY <1>1, <1>2
  <2> QED BY <2>1, MinOfTwo
<1> QED BY <1>1, <1>2, <1>3, <1>4 DEF m, n

(* A shuffle puts as many first as there are seats.                        *)
LEMMA DrawsFill ==
  ASSUME TypeOK, Listed, NEW i \in DOMAIN slots, NEW p, NEW a \in Draws(i, p)
  PROVE  Len(a) = Seats(i, p)
<1>1. Seats(i, p) \in Nat
  BY SeatsType
<1>2. \E f : a = [j \in 1 .. Seats(i, p) |-> pool[f[j]]]
  BY DEF Draws, Seats
<1> QED BY <1>1, <1>2

(* If everybody submitted once, the seats are as many with one principal   *)
(* as with another.                                                        *)
LEMMA SeatsOfPrincipals ==
  ASSUME TypeOK, Listed, SubmittedOnce, NEW i \in DOMAIN slots,
         NEW p \in available[i], NEW q \in available[i]
  PROVE  Seats(i, p) = Seats(i, q)
<1> DEFINE offering == {k \in DOMAIN pool : pool[k] \in available[i]}
           Others(u) == {k \in DOMAIN pool : pool[k] \in available[i] \ {u}}
<1>1. IsFiniteSet(offering)
  BY OfferersInPool, FS_Subset
<1>2. ASSUME NEW u \in available[i]
      PROVE  Cardinality(Others(u)) = Cardinality(offering) - 1
  <2>1. PICK k \in DOMAIN pool : pool[k] = u
    BY OfferersInPool DEF Range
  <2>2. k \in offering /\ Others(u) = offering \ {k}
    BY <2>1 DEF SubmittedOnce, IsInjective
  <2> HIDE DEF offering, Others
  <2> QED BY <1>1, <2>2, FS_RemoveElement
<1> QED BY <1>2 DEF Seats

(* A list with no elements is empty.                                       *)
LEMMA EmptyList ==
  ASSUME NEW V, NEW list \in Seq(V)
  PROVE  Range(list) = {} <=> Len(list) = 0
<1>1. DOMAIN list = 1 .. Len(list) /\ Len(list) \in Nat
  OBVIOUS
<1>2. CASE Len(list) = 0
  BY <1>1, <1>2 DEF Range
<1>3. CASE Len(list) /= 0
  <2>1. 1 \in DOMAIN list
    BY <1>1, <1>3
  <2>2. list[1] \in Range(list)
    BY <2>1 DEF Range
  <2> QED BY <1>3, <2>2
<1> QED BY <1>2, <1>3

(* Nobody is on a gene that is full only if nobody can be placed.          *)
LEMMA EmptyGene ==
  ASSUME TypeOK, Listed, NEW i \in DOMAIN slots, NEW g \in Genes,
         WellFormed(g, i), Full(g, i)
  PROVE  Staff(g) = {} <=> Nobody(i)
<1>1. g.assistants \in Seq(Users) /\ g.principal \in Users \cup {NoPrincipal}
  BY DEF Genes
<1>2. NoPrincipal \notin PrincipalCandidates(i)
  BY FitnessAssumption DEF PrincipalCandidates, TypeOK
<1>3. Range(g.assistants) = {} <=> Len(g.assistants) = 0
  BY <1>1, EmptyList
<1>4. ASSUME Staff(g) = {} PROVE Nobody(i)
  <2>1. g.principal = NoPrincipal /\ Range(g.assistants) = {}
    BY <1>4 DEF Staff
  <2>2. PrincipalCandidates(i) = {}
    BY <1>2, <2>1 DEF WellFormed
  <2> QED BY <1>3, <2>1, <2>2 DEF Nobody, Full
<1>5. ASSUME Nobody(i) PROVE Staff(g) = {}
  <2>1. g.principal = NoPrincipal
    BY <1>5 DEF Nobody, WellFormed
  <2>2. Len(g.assistants) = 0
    BY <1>5, <2>1 DEF Nobody, Full
  <2> QED BY <1>3, <2>1, <2>2 DEF Staff
<1> QED BY <1>4, <1>5

(* If nobody can be placed on a slot, its random genes have nobody.        *)
LEMMA NobodyIsDrawn ==
  ASSUME TypeOK, Listed, NEW i \in DOMAIN slots, Nobody(i)
  PROVE  RandomGenes(i) = {[principal |-> NoPrincipal, assistants |-> <<>>]}
<1> DEFINE candidates == {k \in DOMAIN pool : pool[k] \in available[i] \ {NoPrincipal}}
<1>1. Draws(i, NoPrincipal) = {[j \in 1 .. 0 |-> pool[f[j]]] : f \in Injection(1 .. 0, candidates)}
  BY DEF Draws, Nobody, Seats
<1>2. \A f : [j \in 1 .. 0 |-> pool[f[j]]] = <<>>
  OBVIOUS
<1>3. Injection(1 .. 0, candidates) /= {}
  <2> DEFINE e == [j \in 1 .. 0 |-> 0]
  <2>1. e \in [1 .. 0 -> candidates] /\ IsInjective(e)
    BY DEF IsInjective
  <2> QED BY <2>1 DEF Injection
<1>4. Draws(i, NoPrincipal) = {<<>>}
  <2> HIDE DEF candidates
  <2> QED BY <1>1, <1>2, <1>3
<1>5. PrincipalCandidates(i) = {}
  BY DEF Nobody
<1> QED BY <1>4, <1>5 DEF RandomGenes

-----------------------------------------------------------------------------
(* The steps of the call keep the invariant.                               *)

LEMMA InitRInv == Init => RInv
<1> SUFFICES ASSUME Init PROVE RInv
  OBVIOUS
<1>1. Listed
  BY DEF Init, Listed, Filled
<1>2. FullGenes /\ OwnGenes /\ FirstKept /\ NoBest
  BY DEF Init, FullGenes, OwnGenes, FirstKept, NoBest
<1> QED BY <1>1, <1>2 DEF RInv

(* The shifts of the template, with ids of their own.                      *)
LEMMA ShiftsOfInput ==
  ASSUME TypeOK
  PROVE  /\ read.shifts \in Seq(ShiftRows)
         /\ \A k \in DOMAIN read.shifts : read.shifts[k].days \in Seq(1 .. 7)
         /\ \A j, k \in DOMAIN read.shifts : read.shifts[j].id = read.shifts[k].id => j = k
<1>1. /\ read.shifts \in Seq(ShiftRows)
      /\ \A j, k \in DOMAIN read.shifts : read.shifts[j].id = read.shifts[k].id => j = k
  BY InputsAssumption DEF TypeOK
<1>2. \A shift \in ShiftRows : shift.days \in Seq(1 .. 7)
  BY DEF ShiftRows
<1>3. \A k \in DOMAIN read.shifts : read.shifts[k] \in ShiftRows
  <2> DEFINE list == read.shifts
  <2>1. list \in Seq(ShiftRows)
    BY <1>1
  <2> HIDE DEF list
  <2>2. \A k \in DOMAIN list : list[k] \in ShiftRows
    BY <2>1
  <2> QED BY <2>2 DEF list
<1> QED BY <1>1, <1>2, <1>3

(* What has been listed does not change any more.                          *)
LEMMA ListedStays ==
  ASSUME Listed, UNCHANGED <<read, slots, pool, available>>, Filled, Filled',
         pc' /= "failed"
  PROVE  Listed'
<1>1. pc /= "listing" /\ pc' /= "listing"
  BY DEF Filled
<1>2. \A i \in DOMAIN slots : OfferedBy(i)' = OfferedBy(i)
  BY DEF OfferedBy
<1>3. \A k, d : SlotOf(k, d)' = SlotOf(k, d)
  BY DEF SlotOf
<1> QED BY <1>1, <1>2, <1>3 DEF Listed

LEMMA NewRInv == IInv /\ RInv /\ New => RInv'
<1> SUFFICES ASSUME IInv, RInv, New PROVE RInv'
  OBVIOUS
<1>1. /\ slots = <<>> /\ slots' = <<>> /\ pop' = <<>> /\ best.genes = <<>> /\ UNCHANGED best
      /\ pc' = "listing" /\ at' = <<1, 1>> /\ read' = read
      /\ pool' = [k \in DOMAIN read.submissions |-> read.submissions[k].user]
  BY DEF New, IInv, Places
<1>2. Listed'
  <2>1. /\ DOMAIN read.shifts \subseteq Nat \ {0}
        /\ \A k \in DOMAIN read.shifts : DOMAIN read.shifts[k].days \subseteq Nat \ {0}
    <3>1. /\ read.shifts \in Seq(ShiftRows)
          /\ \A k \in DOMAIN read.shifts : read.shifts[k].days \in Seq(1 .. 7)
      BY ShiftsOfInput DEF IInv
    <3> QED BY <3>1
  <2>2. \A k \in DOMAIN read.shifts : \A d \in DOMAIN read.shifts[k].days :
          ~(k < at'[1] \/ (k = at'[1] /\ d < at'[2]))
    BY <1>1, <2>1
  <2> QED BY <1>1, <2>2 DEF Listed, Filled
<1>3. FullGenes' /\ OwnGenes' /\ FirstKept' /\ NoBest'
  BY <1>1 DEF RInv, FullGenes, OwnGenes, FirstKept, NoBest
<1> QED BY <1>2, <1>3 DEF RInv

LEMMA NewFailsRInv == IInv /\ RInv /\ NewFails => RInv'
<1> SUFFICES ASSUME IInv, RInv, NewFails PROVE RInv'
  OBVIOUS
<1>1. /\ slots = <<>> /\ slots' = <<>> /\ pop' = <<>> /\ best.genes = <<>> /\ UNCHANGED best
      /\ pc' = "failed"
  BY DEF NewFails, IInv, Places, made
<1>2. Listed'
  BY <1>1 DEF Listed, Filled
<1>3. FullGenes' /\ OwnGenes' /\ FirstKept' /\ NoBest'
  BY <1>1 DEF RInv, FullGenes, OwnGenes, FirstKept, NoBest
<1> QED BY <1>2, <1>3 DEF RInv

(* A slot is added for the next day of a shift, or the loops go on past    *)
(* the last one.                                                           *)
LEMMA ListSlotsRInv == IInv /\ RInv /\ ListSlots => RInv'
<1> SUFFICES ASSUME IInv, RInv, ListSlots PROVE RInv'
  OBVIOUS
<1>1. /\ pc = "listing" /\ at \in (Nat \ {0}) \X (Nat \ {0}) /\ pop = <<>> /\ best.genes = <<>>
      /\ UNCHANGED <<read, pool, pop, best>>
  BY DEF ListSlots, IInv, Places
<1>2. /\ pc' \in {"listing", "populating"}
      /\ pc' = "listing" \/ Filled'
  BY <1>1 DEF ListSlots, Filled
<1>3. /\ read.shifts \in Seq(ShiftRows)
      /\ \A k \in DOMAIN read.shifts : read.shifts[k].days \in Seq(1 .. 7)
  BY ShiftsOfInput DEF IInv
<1>4. slots \in Seq(SlotRows) /\ available \in [DOMAIN slots -> SUBSET Users]
  BY DEF IInv, TypeOK
<1>5. Listed
  BY DEF RInv
<1>6. pool' = [k \in DOMAIN read'.submissions |-> read'.submissions[k].user]
  BY <1>1, <1>5 DEF Listed
<1> DEFINE Passed(k, d) == k < at[1] \/ (k = at[1] /\ d < at[2])
<1>7. Listed'
  <2>1. CASE at[1] > Len(read.shifts)
    <3>1. pc' = "populating" /\ UNCHANGED <<slots, available>>
      BY <2>1 DEF ListSlots
    <3>2. \A k \in DOMAIN read.shifts : k < at[1]
      BY <1>1, <1>3, <2>1
    <3> QED BY <1>1, <1>5, <1>6, <3>1, <3>2 DEF Listed, OfferedBy, SlotOf
  <2>2. CASE ~(at[1] > Len(read.shifts)) /\ at[2] > Len(read.shifts[at[1]].days)
    <3>1. at' = <<at[1] + 1, 1>> /\ UNCHANGED <<pc, slots, available>>
      BY <2>2 DEF ListSlots
    <3>2. at[1] \in DOMAIN read.shifts
      BY <1>1, <1>3, <2>2
    <3>3. \A k \in DOMAIN read.shifts : \A d \in DOMAIN read.shifts[k].days :
            k < at'[1] \/ (k = at'[1] /\ d < at'[2]) => Passed(k, d)
      <4> SUFFICES ASSUME NEW k \in DOMAIN read.shifts, NEW d \in DOMAIN read.shifts[k].days,
                          k < at[1] + 1 \/ (k = at[1] + 1 /\ d < 1)
                   PROVE  Passed(k, d)
        BY <3>1
      <4>1. k \in Nat /\ d \in Nat /\ d >= 1
        BY <1>3
      <4>2. CASE k = at[1]
        <5>1. d <= Len(read.shifts[at[1]].days)
          BY <1>3, <3>2, <4>2
        <5>2. Len(read.shifts[at[1]].days) \in Nat
          BY <1>3, <3>2
        <5> QED BY <1>1, <2>2, <4>1, <4>2, <5>1, <5>2
      <4> QED BY <1>1, <4>1, <4>2
    <3> QED BY <1>1, <1>5, <1>6, <3>1, <3>3 DEF Listed, OfferedBy, SlotOf, Filled
  <2>3. CASE ~(at[1] > Len(read.shifts)) /\ ~(at[2] > Len(read.shifts[at[1]].days))
    <3> DEFINE shift == read.shifts[at[1]]
               day == shift.days[at[2]]
               row == [shift |-> shift.id, day |-> day, need |-> shift.need,
                       hours |-> shift.end - shift.start]
               those == {read.submissions[k].user : k \in
                           {l \in DOMAIN read.submissions :
                              <<shift.id, day>> \in Slots(read.submissions[l].form)}}
               n == Len(slots)
    <3>1. /\ slots' = Append(slots, row) /\ available' = Append(available, those)
          /\ at' = <<at[1], at[2] + 1>> /\ pc' = pc
      BY <2>3, Zenon DEF ListSlots
    <3>2. at[1] \in DOMAIN read.shifts /\ at[2] \in DOMAIN read.shifts[at[1]].days
      <4>1. at[1] \in DOMAIN read.shifts
        BY <1>1, <1>3, <2>3
      <4> QED BY <1>1, <1>3, <2>3, <4>1
    <3>3. row = SlotOf(at[1], at[2])
      BY DEF SlotOf
    <3> HIDE DEF row, those
    <3>4. /\ n \in Nat /\ DOMAIN slots = 1 .. n /\ DOMAIN slots' = 1 .. n + 1
          /\ slots'[n + 1] = row /\ \A i \in 1 .. n : slots'[i] = slots[i]
      BY <1>4, <3>1
    <3>5. available'[n + 1] = those /\ \A i \in 1 .. n : available'[i] = available[i]
      <4>1. available \in Seq(SUBSET Users) /\ Len(available) = n
        BY <1>4, <3>4
      <4> QED BY <3>1, <3>4, <4>1
    <3>6. \A i \in 1 .. n + 1 : i = n + 1 \/ i \in 1 .. n
      BY <3>4
    <3>7. \A i : i = n + 1 => OfferedBy(i)' = those
      <4>1. slots'[n + 1].shift = shift.id /\ slots'[n + 1].day = day
        BY <3>4 DEF row
      <4> HIDE DEF shift, day, n
      <4> QED BY <1>1, <4>1 DEF OfferedBy, those
    <3>8. \A i \in 1 .. n : OfferedBy(i)' = OfferedBy(i)
      BY <1>1, <3>4 DEF OfferedBy
    <3>9. \A k, d : SlotOf(k, d)' = SlotOf(k, d)
      BY <1>1 DEF SlotOf
    <3>10. \A i \in DOMAIN slots' :
             /\ available'[i] = OfferedBy(i)'
             /\ \E k \in DOMAIN read'.shifts : \E d \in DOMAIN read'.shifts[k].days :
                  slots'[i] = SlotOf(k, d)'
      <4> SUFFICES ASSUME NEW i \in 1 .. n + 1
                   PROVE  /\ available'[i] = OfferedBy(i)'
                          /\ \E k \in DOMAIN read.shifts : \E d \in DOMAIN read.shifts[k].days :
                               slots'[i] = SlotOf(k, d)
        BY <1>1, <3>4, <3>9
      <4>1. CASE i = n + 1
        BY <3>2, <3>3, <3>4, <3>5, <3>7, <4>1
      <4>2. CASE i \in 1 .. n
        BY <1>5, <3>4, <3>5, <3>8, <4>2 DEF Listed
      <4> QED BY <3>6, <4>1, <4>2
    <3>11. ASSUME NEW k \in DOMAIN read.shifts, NEW d \in DOMAIN read.shifts[k].days,
                  k < at'[1] \/ (k = at'[1] /\ d < at'[2])
           PROVE  \E i \in DOMAIN slots' : slots'[i] = SlotOf(k, d)
      <4>1. CASE k = at[1] /\ d = at[2]
        <5>1. n + 1 \in DOMAIN slots'
          BY <3>4
        <5> QED BY <3>3, <3>4, <4>1, <5>1
      <4>2. CASE ~(k = at[1] /\ d = at[2])
        <5>1. k \in Nat /\ d \in Nat
          BY <1>3
        <5>2. Passed(k, d)
          BY <1>1, <3>1, <3>11, <4>2, <5>1
        <5>3. PICK i \in DOMAIN slots : slots[i] = SlotOf(k, d)
          BY <1>1, <1>5, <5>2 DEF Listed
        <5>4. i \in DOMAIN slots' /\ slots'[i] = slots[i]
          BY <3>4, <5>3
        <5> QED BY <5>3, <5>4
      <4> QED BY <4>1, <4>2
    <3> QED BY <1>1, <1>6, <3>1, <3>9, <3>10, <3>11 DEF Listed, Filled
  <2> QED BY <2>1, <2>2, <2>3
<1>8. FullGenes' /\ OwnGenes' /\ FirstKept' /\ NoBest'
  BY <1>1, <1>2 DEF RInv, FullGenes, OwnGenes, FirstKept, NoBest
<1> QED BY <1>7, <1>8 DEF RInv

(* To be full depends on what does not change after New and ListSlots.     *)
LEMMA FullStays ==
  ASSUME UNCHANGED <<slots, pool, available>>,
         \A k \in 1 .. Len(pop') : \A i \in DOMAIN slots : Full(gene'[k][i], i),
         best'.genes /= <<>> => \A i \in DOMAIN slots : Full(gene'[0][i], i)
  PROVE  FullGenes'
<1>1. ASSUME NEW k, NEW i, Full(gene'[k][i], i) PROVE Full(gene[k][i], i)'
  <2> DEFINE g == gene'[k][i]
  <2>1. Full(g, i)
    BY <1>1
  <2>2. SubmittedOnce' = SubmittedOnce
    BY DEF SubmittedOnce
  <2>3. /\ Full(g, i) <=> (SubmittedOnce \/ g.principal = NoPrincipal =>
                            Len(g.assistants) = Seats(i, g.principal))
        /\ Full(gene[k][i], i)' <=> (SubmittedOnce' \/ g.principal = NoPrincipal =>
                            Len(g.assistants) = Seats(i, gene[k][i].principal)')
    BY DEF Full
  <2>4. Seats(i, gene[k][i].principal)' = Seats(i, g.principal)
    BY DEF Seats
  <2> QED BY <2>1, <2>2, <2>3, <2>4
<1>2. \A k \in 1 .. Len(pop') : \A i \in DOMAIN slots : Full(gene[k][i], i)'
  BY <1>1
<1>3. best'.genes /= <<>> => \A i \in DOMAIN slots : Full(gene[0][i], i)'
  BY <1>1
<1> QED BY <1>2, <1>3 DEF FullGenes

(* A random gene has as many assistants as there are seats.                *)
LEMMA RandomGenesFull ==
  ASSUME TypeOK, Listed, NEW i \in DOMAIN slots, NEW g \in RandomGenes(i)
  PROVE  Full(g, i)
<1>1. PICK p : g \in {[principal |-> p, assistants |-> a] : a \in Draws(i, p)}
  BY DEF RandomGenes
<1>2. PICK a \in Draws(i, p) : g = [principal |-> p, assistants |-> a]
  BY <1>1
<1> QED BY <1>2, DrawsFill DEF Full

LEMMA PopulateRInv == IInv /\ RInv /\ Populate => RInv'
<1> SUFFICES ASSUME IInv, RInv, Populate PROVE RInv'
  OBVIOUS
<1> DEFINE n == Len(pop)
<1>1. PICK g \in RandomGenomes :
        /\ gene' = [gene EXCEPT ![n + 1] = g]
        /\ genes' = [genes EXCEPT ![n + 1] = [i \in DOMAIN slots |-> n + 1]]
        /\ pop' = Append(pop, n + 1)
        /\ pc' = IF n + 1 = read.size THEN "examining" ELSE pc
  BY DEF Populate
<1>2. /\ pc = "populating" /\ n < read.size
      /\ UNCHANGED <<read, slots, pool, available, best>>
  BY DEF Populate, made
<1>3. /\ n \in Nat /\ pop \in Seq(1 .. n) /\ read.size \in Nat
      /\ DOMAIN gene = 0 .. read.size /\ DOMAIN genes = 1 .. read.size
  BY InputFacts DEF IInv, TypeOK, MadeGenes, Chromosomes
<1>4. Len(pop') = n + 1
  BY <1>1, <1>3
<1>5. /\ gene'[n + 1] = g /\ gene'[0] = gene[0]
      /\ \A k \in 1 .. n : gene'[k] = gene[k] /\ genes'[k] = genes[k]
      /\ \A i \in DOMAIN slots : genes'[n + 1][i] = n + 1
      /\ \A k \in 1 .. n + 1 : k = n + 1 \/ k \in 1 .. n
  <2>1. n + 1 \in 1 .. read.size /\ n + 1 \in 0 .. read.size
    BY <1>2, <1>3
  <2>2. /\ 0 \in 0 .. read.size /\ 0 /= n + 1
        /\ \A k \in 1 .. n : k \in 0 .. read.size /\ k \in 1 .. read.size /\ k /= n + 1
        /\ \A k \in 1 .. n + 1 : k = n + 1 \/ k \in 1 .. n
    BY <1>2, <1>3
  <2> HIDE DEF n
  <2> QED BY <1>1, <1>3, <2>1, <2>2
<1>6. Listed'
  BY <1>1, <1>2, ListedStays DEF RInv, Filled
<1>7. \A i \in DOMAIN slots : Full(g[i], i)
  BY RandomGenesFull DEF RInv, IInv, RandomGenomes
<1>8. FullGenes'
  <2>1. \A k \in 1 .. n + 1 : \A i \in DOMAIN slots : Full(gene'[k][i], i)
    <3> HIDE DEF n
    <3> QED BY <1>5, <1>7 DEF RInv, FullGenes, n
  <2>2. \A k \in 1 .. Len(pop') : \A i \in DOMAIN slots : Full(gene'[k][i], i)
    BY <1>4, <2>1
  <2>3. best'.genes /= <<>> => \A i \in DOMAIN slots : Full(gene'[0][i], i)
    BY <1>2, <1>5 DEF RInv, FullGenes
  <2> QED BY <1>2, <2>2, <2>3, FullStays
<1>9. OwnGenes'
  <2> SUFFICES ASSUME NEW c \in 1 .. n + 1, NEW d \in 1 .. n + 1, NEW i \in DOMAIN slots,
                      genes'[c][i] = genes'[d][i]
               PROVE  c = d
    BY <1>2, <1>4 DEF OwnGenes
  <2>1. \A k \in 1 .. n : genes[k][i] \in 1 .. n
    BY DEF IInv, MadeGenes
  <2>2. \A k \in 1 .. n : genes[k][i] /= n + 1
    BY <1>3, <2>1
  <2>3. \A k, l \in 1 .. n : genes[k][i] = genes[l][i] => k = l
    BY DEF RInv, OwnGenes
  <2> HIDE DEF n
  <2> QED BY <1>5, <2>2, <2>3
<1>10. FirstKept' /\ NoBest'
  BY <1>1, <1>2 DEF RInv, FirstKept, NoBest
<1> QED BY <1>6, <1>8, <1>9, <1>10 DEF RInv

(* The genes of a population that was made.                                *)
LEMMA GenomesFit ==
  ASSUME IInv, RInv, NEW c \in 1 .. Len(pop)
  PROVE  /\ Genome(c) \in [DOMAIN slots -> Genes]
         /\ \A i \in DOMAIN slots : WellFormed(Genome(c)[i], i) /\ Full(Genome(c)[i], i)
         /\ IF \A i \in DOMAIN slots : Nobody(i)
            THEN Fitness(Genome(c), slots) = Undefined
            ELSE Fitness(Genome(c), slots) \in Int
<1>1. /\ Genome(c) \in [DOMAIN slots -> Genes]
      /\ \A i \in DOMAIN slots : WellFormed(Genome(c)[i], i)
  BY GenomeFits DEF IInv
<1>2. \A i \in DOMAIN slots : Full(Genome(c)[i], i)
  <2> SUFFICES ASSUME NEW i \in DOMAIN slots PROVE Full(Genome(c)[i], i)
    OBVIOUS
  <2>1. genes[c][i] \in 1 .. Len(pop) /\ Genome(c)[i] = gene[genes[c][i]][i]
    BY DEF IInv, MadeGenes, Genome
  <2> QED BY <2>1 DEF RInv, FullGenes
<1>3. \A i \in DOMAIN slots : Staff(Genome(c)[i]) = {} <=> Nobody(i)
  BY <1>1, <1>2, EmptyGene DEF IInv, RInv
<1>4. IF \A i \in DOMAIN slots : Staff(Genome(c)[i]) = {}
      THEN Fitness(Genome(c), slots) = Undefined
      ELSE Fitness(Genome(c), slots) \in Int
  BY <1>1, FitnessValue DEF IInv, RInv
<1> QED BY <1>1, <1>2, <1>3, <1>4

(* The first of a list that is sorted has the greatest fitness.            *)
LEMMA FirstIsFittest ==
  ASSUME NEW list, NEW n \in Nat, Len(list) = n, Sorted(list), Undefined \notin Int,
         \A k \in 1 .. n : fitness[list[k]] \in Int
  PROVE  \A k \in 1 .. n : fitness[list[k]] <= fitness[list[1]]
<1> DEFINE f(k) == fitness[list[k]]
           T == {m \in Nat : m + 1 <= n => f(m + 1) <= f(1)}
<1>1. ASSUME NEW k \in 1 .. n, k + 1 \in 1 .. n PROVE f(k + 1) <= f(k)
  <2>1. ~Fitter(f(k + 1), f(k))
    BY <1>1 DEF Sorted
  <2>2. f(k) \in Int /\ f(k + 1) \in Int
    BY <1>1
  <2> HIDE DEF f
  <2> QED BY <2>1, <2>2 DEF Fitter
<1>2. 0 \in T
  BY DEF T
<1>3. ASSUME NEW m \in Nat, m \in T PROVE m + 1 \in T
  <2> SUFFICES ASSUME m + 1 + 1 <= n PROVE f(m + 1 + 1) <= f(1)
    BY DEF T
  <2>1. m + 1 \in 1 .. n /\ m + 1 + 1 \in 1 .. n /\ 1 \in 1 .. n
    OBVIOUS
  <2>2. f(m + 1) \in Int /\ f(m + 1 + 1) \in Int /\ f(1) \in Int
    BY <2>1
  <2>3. f(m + 1) <= f(1)
    BY <1>3, <2>1
  <2>4. f(m + 1 + 1) <= f(m + 1)
    BY <1>1, <2>1
  <2> HIDE DEF f
  <2> QED BY <2>2, <2>3, <2>4
<1>4. Nat \subseteq T
  <2> HIDE DEF T
  <2> QED BY <1>2, <1>3, AllNumbers
<1>5. ASSUME NEW k \in 1 .. n PROVE f(k) <= f(1)
  <2>1. k - 1 \in Nat /\ k - 1 + 1 = k /\ k <= n
    OBVIOUS
  <2>2. k - 1 \in T
    <3> HIDE DEF T
    <3> QED BY <1>4, <2>1
  <2>3. k - 1 + 1 <= n => f(k - 1 + 1) <= f(1)
    BY <2>2
  <2> HIDE DEF f
  <2> QED BY <2>1, <2>3
<1> QED BY <1>5

(* The head of a generation sorts the population, so that its first is a   *)
(* fittest one, and keeps the best one ever, unless nobody can be placed.  *)
LEMMA ExamineRInv == IInv /\ RInv /\ Examine => RInv'
<1> SUFFICES ASSUME IInv, RInv, Examine PROVE RInv'
  OBVIOUS
<1> DEFINE n == Len(pop)
<1>1. PICK k \in DOMAIN pop : KeepBest(pop[k])
  BY DEF Examine
<1>2. PICK order \in Injection(DOMAIN pop, DOMAIN pop) :
        pop' = [l \in DOMAIN pop |-> pop[order[l]]] /\ Sorted(pop')
  BY DEF Examine
<1>3. /\ pc = "examining" /\ bred' = {} /\ pc' \in {"panicked", "breeding"}
      /\ pc' = "breeding" => newPop' = SubSeq(pop', 1, read.elites) /\ ~(read.elites > read.size)
      /\ UNCHANGED <<read, slots, pool, available, genes, fitness>>
  BY DEF Examine, made
<1>4. /\ n = read.size /\ n \in Nat \ {0} /\ read.elites \in Nat \ {0}
      /\ pop \in Seq(1 .. n) /\ DOMAIN pop = 1 .. n
  BY <1>3, InputFacts DEF IInv, Places, Filled, Ended, MadeGenes
<1>5. /\ Len(pop') = n /\ DOMAIN pop' = 1 .. n /\ pop' \in Seq(1 .. n)
      /\ \A l \in 1 .. n : pop'[l] \in 1 .. n /\ pop'[l] \in Range(pop)
  <2> HIDE DEF n
  <2>1. \A l \in 1 .. n : order[l] \in 1 .. n
    BY <1>2, <1>4 DEF Injection
  <2>0. \A j \in 1 .. n : pop[j] \in 1 .. n /\ pop[j] \in Range(pop)
    BY <1>4 DEF Range
  <2>2. \A l \in 1 .. n : pop[order[l]] \in 1 .. n /\ pop[order[l]] \in Range(pop)
    BY <2>0, <2>1
  <2>3. pop' = [l \in 1 .. n |-> pop[order[l]]]
    BY <1>2, <1>4
  <2>4. pop' \in [1 .. n -> 1 .. n]
    BY <2>2, <2>3
  <2>5. \A m \in Nat : \A f \in [1 .. m -> 1 .. m] : f \in Seq(1 .. m) /\ Len(f) = m
    OBVIOUS
  <2>6. pop' \in Seq(1 .. n) /\ Len(pop') = n
    BY <1>4, <2>4, <2>5
  <2> QED BY <2>2, <2>3, <2>6
<1>6. ASSUME NEW c \in Range(pop)
      PROVE  /\ fitness[c] = Fitness(Genome(c), slots)
             /\ IF \A i \in DOMAIN slots : Nobody(i) THEN fitness[c] = Undefined
                ELSE fitness[c] \in Int
  <2>1. c \in 1 .. n
    BY <1>4 DEF Range
  <2>2. fitness[c] = Fitness(Genome(c), slots)
    BY <1>3 DEF IInv, Measured
  <2> QED BY <2>1, <2>2, GenomesFit
<1>7. \A l \in 1 .. n : ~Fitter(fitness[pop'[l]], fitness[pop'[1]])
  <2>1. CASE \A i \in DOMAIN slots : Nobody(i)
    BY <1>5, <1>6, <2>1 DEF Fitter
  <2>2. CASE ~\A i \in DOMAIN slots : Nobody(i)
    <3> DEFINE list == pop'
    <3>1. \A l \in 1 .. n : fitness[list[l]] \in Int
      BY <1>5, <1>6, <2>2
    <3>2. Len(list) = n /\ Sorted(list) /\ n \in Nat
      BY <1>2, <1>4, <1>5
    <3>3. Undefined \notin Int
      BY FitnessAssumption
    <3> HIDE DEF list, n
    <3>4. \A l \in 1 .. n : fitness[list[l]] <= fitness[list[1]]
      BY <3>1, <3>2, <3>3, FirstIsFittest
    <3>5. 1 \in 1 .. n
      BY <1>4
    <3> QED BY <3>1, <3>4, <3>5 DEF Fitter, list
  <2> QED BY <2>1, <2>2
<1>8. \A l \in 1 .. n : gene'[l] = gene[l]
  <2>1. DOMAIN gene = 0 .. read.size
    BY DEF IInv, TypeOK
  <2> QED BY <1>1, <1>4, <2>1 DEF KeepBest
<1>9. ASSUME NEW c \in 1 .. n PROVE Genome(c)' = Genome(c)
  <2>1. \A i \in DOMAIN slots : genes[c][i] \in 1 .. n
    BY DEF IInv, MadeGenes
  <2> QED BY <1>3, <1>8, <2>1 DEF Genome
<1>10. Listed'
  <2>1. Filled /\ Filled' /\ pc' /= "failed"
    BY <1>3 DEF Filled
  <2> QED BY <1>3, <2>1, ListedStays DEF RInv
<1>11. FullGenes'
  <2>1. \A l \in 1 .. Len(pop') : \A i \in DOMAIN slots : Full(gene'[l][i], i)
    BY <1>5, <1>8 DEF RInv, FullGenes
  <2>2. best'.genes /= <<>> => \A i \in DOMAIN slots : Full(gene'[0][i], i)
    <3>1. CASE UNCHANGED <<best, gene>>
      BY <3>1 DEF RInv, FullGenes
    <3>2. CASE gene' = [gene EXCEPT ![0] = Genome(pop[k])]
      <4>1. 0 \in DOMAIN gene
        BY <1>4 DEF IInv, TypeOK
      <4>2. pop[k] \in 1 .. Len(pop)
        BY <1>4
      <4> QED BY <3>2, <4>1, <4>2, GenomesFit
    <3> QED BY <1>1, <3>1, <3>2 DEF KeepBest
  <2> QED BY <1>3, <2>1, <2>2, FullStays
<1>12. OwnGenes'
  BY <1>3, <1>5 DEF RInv, OwnGenes
<1>13. FirstKept'
  <2> SUFFICES ASSUME pc' = "breeding"
               PROVE  /\ newPop' /= <<>> /\ newPop'[1] = pop'[1]
                      /\ AsFitAsAny(fitness[pop[1]])'
                      /\ fitness'[pop'[1]] = Fitness(Genome(pop[1])', slots')
    BY <1>3 DEF FirstKept
  <2>1. newPop' /= <<>> /\ newPop'[1] = pop'[1]
    <3>1. read.elites \in 1 .. n
      BY <1>3, <1>4
    <3>3. Len(newPop') = read.elites /\ newPop'[1] = pop'[1]
      <4> DEFINE list == pop'
                 m == read.elites
      <4>1. list \in Seq(1 .. n) /\ Len(list) = n /\ m \in 1 .. n /\ m >= 1
        BY <1>4, <1>5, <3>1
      <4>2. newPop' = SubSeq(list, 1, m)
        BY <1>3
      <4> HIDE DEF list, n, m
      <4>3. Len(SubSeq(list, 1, m)) = m /\ SubSeq(list, 1, m)[1] = list[1]
        BY <1>4, <4>1
      <4> QED BY <4>2, <4>3 DEF list, m
    <3> QED BY <1>4, <3>3
  <2>2. AsFitAsAny(fitness[pop[1]])'
    <3> SUFFICES ASSUME NEW d \in Range(pop') PROVE ~Fitter(fitness[d], fitness[pop'[1]])
      BY <1>3 DEF AsFitAsAny, Fitter
    <3>1. PICK l \in 1 .. n : d = pop'[l]
      BY <1>5 DEF Range
    <3> QED BY <1>7, <3>1
  <2>3. fitness'[pop'[1]] = Fitness(Genome(pop[1])', slots')
    <3>1. pop'[1] \in 1 .. n /\ pop'[1] \in Range(pop)
      <4>1. 1 \in 1 .. n
        BY <1>4
      <4> QED BY <1>5, <4>1
    <3>2. Genome(pop[1])' = Genome(pop'[1])
      <4>1. \A i \in DOMAIN slots : genes[pop'[1]][i] \in 1 .. n
        BY <3>1 DEF IInv, MadeGenes
      <4> QED BY <1>3, <1>8, <4>1 DEF Genome
    <3>3. fitness[pop'[1]] = Fitness(Genome(pop'[1]), slots)
      BY <1>6, <3>1
    <3> QED BY <1>3, <3>2, <3>3
  <2> QED BY <2>1, <2>2, <2>3
<1>14. NoBest'
  <2> SUFFICES ASSUME best'.genes = <<>>
               PROVE  best'.fitness = Undefined /\ \A i \in DOMAIN slots : Nobody(i)
    BY <1>3 DEF NoBest, Nobody, PrincipalCandidates, Seats
  <2>1. pop[k] \in Range(pop)
    BY DEF Range
  <2>2. CASE IsBestEver(fitness[pop[k]])
    <3>1. [i \in DOMAIN slots |-> 0] = <<>>
      BY <1>1, <2>2 DEF KeepBest
    <3>2. DOMAIN slots = {}
      BY <3>1
    <3>3. \A i \in DOMAIN slots : Nobody(i)
      BY <3>2
    <3> QED BY <1>6, <2>1, <2>2, <3>3 DEF IsBestEver
  <2>3. CASE ~IsBestEver(fitness[pop[k]])
    <3>1. UNCHANGED best /\ best.fitness = Undefined
      BY <1>1, <2>3 DEF KeepBest, RInv, NoBest
    <3>2. fitness[pop[k]] = Undefined
      BY <2>3, <3>1 DEF IsBestEver
    <3> QED BY <1>6, <2>1, <3>1, <3>2, FitnessAssumption
  <2> QED BY <2>2, <2>3
<1> QED BY <1>10, <1>11, <1>12, <1>13, <1>14 DEF RInv

(* A step that leaves the objects and the best one ever alone.             *)
LEMMA BreedPanicsRInv == IInv /\ RInv /\ BreedPanics => RInv'
<1> SUFFICES ASSUME IInv, RInv, BreedPanics PROVE RInv'
  OBVIOUS
<1>1. /\ pc = "breeding" /\ pc' = "panicked"
      /\ UNCHANGED <<read, slots, pool, available, gene, genes, pop, best>>
  BY DEF BreedPanics, made
<1>2. Listed'
  <2>1. Filled /\ Filled' /\ pc' /= "failed"
    BY <1>1 DEF Filled
  <2> QED BY <1>1, <2>1, ListedStays DEF RInv
<1>3. FullGenes'
  BY <1>1, FullStays DEF RInv, FullGenes
<1>4. OwnGenes' /\ FirstKept' /\ NoBest'
  BY <1>1 DEF RInv, OwnGenes, FirstKept, NoBest
<1> QED BY <1>2, <1>3, <1>4 DEF RInv

(* Crossover exchanges two references at some places: no two chromosomes   *)
(* come to have one gene, and only the parents have other ones than before. *)
LEMMA BreedRInv == IInv /\ RInv /\ Breed => RInv'
<1> SUFFICES ASSUME IInv, RInv, Breed PROVE RInv'
  OBVIOUS
<1> DEFINE n == Len(pop)
<1>1. PICK p \in Selected, q \in Selected :
        /\ parents' = <<p, q>>
        /\ bred' = bred \cup {p, q}
        /\ \/ UNCHANGED genes
           \/ \E point \in DOMAIN slots : genes' = Crossed(p, q, point)
  BY DEF Breed
<1>2. /\ pc = "breeding" /\ pc' = "mutating"
      /\ UNCHANGED <<read, slots, pool, available, gene, fitness, pop, newPop, best>>
  BY DEF Breed, made
<1>3. /\ n = read.size /\ read.size \in Nat \ {0}
      /\ pop \in Seq(1 .. n) /\ DOMAIN pop = 1 .. n /\ DOMAIN genes = 1 .. n
  BY <1>2, InputFacts DEF IInv, TypeOK, Places, Filled, Ended, MadeGenes, Chromosomes
<1>4. p \in 1 .. n /\ q \in 1 .. n
  <2>1. Last(pop) \in 1 .. n
    BY <1>3 DEF Last
  <2>2. Selected \subseteq {Last(pop)} \cup {pop[k] : k \in DOMAIN pop}
    BY DEF Selected
  <2>3. \A k \in DOMAIN pop : pop[k] \in 1 .. n
    <3> HIDE DEF n
    <3> QED BY <1>3
  <2> QED BY <2>1, <2>2, <2>3
<1> HIDE DEF n
<1>5. \A c \in 1 .. n : c \notin {p, q} => genes'[c] = genes[c]
  BY <1>1, <1>3 DEF Crossed
<1>6. ASSUME NEW i \in DOMAIN slots
      PROVE  \/ \A c \in 1 .. n : genes'[c][i] = genes[c][i]
             \/ /\ genes'[p][i] = genes[q][i] /\ genes'[q][i] = genes[p][i] /\ p /= q
  <2>1. CASE UNCHANGED genes
    BY <2>1
  <2>2. ASSUME NEW point \in DOMAIN slots, genes' = Crossed(p, q, point)
        PROVE  \/ \A c \in 1 .. n : genes'[c][i] = genes[c][i]
               \/ /\ genes'[p][i] = genes[q][i] /\ genes'[q][i] = genes[p][i] /\ p /= q
    <3> DEFINE first == [j \in DOMAIN slots |-> IF j < point THEN genes[p][j] ELSE genes[q][j]]
               second == [j \in DOMAIN slots |-> IF j < point THEN genes[q][j] ELSE genes[p][j]]
    <3>1. genes' = [genes EXCEPT ![p] = first, ![q] = second]
      BY <2>2 DEF Crossed
    <3>2. /\ first[i] = IF i < point THEN genes[p][i] ELSE genes[q][i]
          /\ second[i] = IF i < point THEN genes[q][i] ELSE genes[p][i]
      OBVIOUS
    <3> HIDE DEF first, second
    <3>3. genes'[q] = second /\ (p /= q => genes'[p] = first)
      BY <1>3, <1>4, <3>1
    <3>4. CASE i < point \/ p = q
      <4>1. genes'[p][i] = genes[p][i] /\ genes'[q][i] = genes[q][i]
        BY <3>2, <3>3, <3>4
      <4> QED BY <1>5, <4>1
    <3>5. CASE ~(i < point) /\ p /= q
      BY <3>2, <3>3, <3>5
    <3> QED BY <3>4, <3>5
  <2> QED BY <1>1, <2>1, <2>2
<1>7. Listed'
  <2>1. Filled /\ Filled' /\ pc' /= "failed"
    BY <1>2 DEF Filled
  <2> QED BY <1>2, <2>1, ListedStays DEF RInv
<1>8. FullGenes'
  BY <1>2, FullStays DEF RInv, FullGenes
<1>9. OwnGenes'
  <2> SUFFICES ASSUME NEW c \in 1 .. n, NEW d \in 1 .. n, NEW i \in DOMAIN slots,
                      genes'[c][i] = genes'[d][i]
               PROVE  c = d
    BY <1>2 DEF OwnGenes, n
  <2>1. \A k, l \in 1 .. n : genes[k][i] = genes[l][i] => k = l
    BY DEF RInv, OwnGenes, n
  <2> QED BY <1>4, <1>5, <1>6, <2>1
<1>10. FirstKept'
  <2>1. /\ newPop /= <<>> /\ newPop[1] = pop[1] /\ AsFitAsAny(fitness[pop[1]])
        /\ pop[1] \notin bred => fitness[pop[1]] = Fitness(Genome(pop[1]), slots)
    BY <1>2 DEF RInv, FirstKept
  <2>2. AsFitAsAny(fitness[pop[1]])'
    BY <1>2, <2>1 DEF AsFitAsAny, Fitter
  <2>3. ASSUME pop[1] \notin bred'
        PROVE  fitness[pop[1]] = Fitness(Genome(pop[1])', slots)
    <3>1. pop[1] \in 1 .. n
      BY <1>3
    <3>2. genes'[pop[1]] = genes[pop[1]]
      BY <1>1, <1>5, <2>3, <3>1
    <3>3. Genome(pop[1])' = Genome(pop[1])
      BY <1>2, <3>2 DEF Genome
    <3> QED BY <1>1, <2>1, <2>3, <3>3
  <2> QED BY <1>1, <1>2, <2>1, <2>2, <2>3 DEF FirstKept
<1>11. NoBest'
  BY <1>2 DEF RInv, NoBest, Nobody, PrincipalCandidates, Seats
<1> QED BY <1>7, <1>8, <1>9, <1>10, <1>11 DEF RInv

(* A gene that is replaced by one with as many assistants: a chromosome    *)
(* that is not a parent does not have it, and stays what it was.           *)
LEMMA MutatingRInv ==
  ASSUME IInv, RInv, Mutating, UNCHANGED Rest, NEW h, Full(h, at[2]),
         UNCHANGED gene \/ gene' = [gene EXCEPT ![Chosen][at[2]] = h]
  PROVE  RInv'
<1>1. /\ pc = "mutating" /\ pc' = "mutating"
      /\ UNCHANGED <<read, slots, pool, available, genes, fitness, pop, newPop, parents, best, bred>>
  BY DEF Mutating, Rest, made
<1>2. /\ DOMAIN gene = 0 .. read.size /\ Len(pop) = read.size /\ read.size \in Nat \ {0}
      /\ Chosen \in 1 .. Len(pop) /\ at[1] \in 1 .. 2 /\ at[2] \in DOMAIN slots
      /\ pop \in Seq(1 .. Len(pop)) /\ \A k \in 1 .. Len(pop) : DOMAIN gene[k] = DOMAIN slots
  BY Considered DEF IInv, TypeOK, MadeGenes
<1>3. ASSUME NEW k \in 1 .. Len(pop), NEW i \in DOMAIN slots
      PROVE  /\ gene'[k][i] \in {gene[k][i], h}
             /\ k /= Chosen \/ i /= at[2] => gene'[k][i] = gene[k][i]
             /\ gene'[k][i] = gene[k][i] \/ i = at[2]
  <2>1. CASE UNCHANGED gene
    BY <2>1
  <2>2. CASE gene' = [gene EXCEPT ![Chosen][at[2]] = h]
    <3>1. k \in DOMAIN gene /\ i \in DOMAIN gene[k]
      BY <1>2
    <3>2. gene' = [gene EXCEPT ![Chosen] = [gene[Chosen] EXCEPT ![at[2]] = h]]
      BY <2>2
    <3>3. gene'[k] = IF k = Chosen THEN [gene[Chosen] EXCEPT ![at[2]] = h] ELSE gene[k]
      BY <3>1, <3>2
    <3> QED BY <3>1, <3>3
  <2> QED BY <2>1, <2>2
<1>4. gene'[0] = gene[0]
  <2>1. Chosen /= 0 /\ 0 \in DOMAIN gene
    BY <1>2
  <2> QED BY <2>1
<1>5. Listed'
  <2>1. Filled /\ Filled' /\ pc' /= "failed"
    BY <1>1 DEF Filled
  <2> QED BY <1>1, <2>1, ListedStays DEF RInv
<1>6. FullGenes'
  <2>1. \A k \in 1 .. Len(pop') : \A i \in DOMAIN slots : Full(gene'[k][i], i)
    <3> SUFFICES ASSUME NEW k \in 1 .. Len(pop), NEW i \in DOMAIN slots PROVE Full(gene'[k][i], i)
      BY <1>1
    <3>1. Full(gene[k][i], i)
      BY DEF RInv, FullGenes
    <3> QED BY <1>3, <3>1
  <2>2. best'.genes /= <<>> => \A i \in DOMAIN slots : Full(gene'[0][i], i)
    BY <1>1, <1>4 DEF RInv, FullGenes
  <2> QED BY <1>1, <2>1, <2>2, FullStays
<1>7. OwnGenes'
  BY <1>1 DEF RInv, OwnGenes
<1>8. FirstKept'
  <2>1. /\ newPop /= <<>> /\ newPop[1] = pop[1] /\ AsFitAsAny(fitness[pop[1]])
        /\ pop[1] \notin bred => fitness[pop[1]] = Fitness(Genome(pop[1]), slots)
        /\ parents[1] \in bred /\ parents[2] \in bred
    BY <1>1 DEF RInv, FirstKept
  <2>2. AsFitAsAny(fitness[pop[1]])'
    BY <1>1, <2>1 DEF AsFitAsAny, Fitter
  <2>3. ASSUME pop[1] \notin bred
        PROVE  fitness[pop[1]] = Fitness(Genome(pop[1])', slots)
    <3>1. pop[1] \in 1 .. Len(pop) /\ parents[at[1]] \in 1 .. Len(pop)
      <4>1. parents \in Chromosomes \X Chromosomes /\ Chromosomes = 1 .. Len(pop)
        BY <1>2, Considered DEF Chromosomes
      <4>2. parents[at[1]] \in 1 .. Len(pop)
        BY <1>2, <4>1
      <4>3. 1 \in DOMAIN pop
        BY <1>2
      <4> QED BY <1>2, <4>2, <4>3
    <3>2. pop[1] /= parents[at[1]]
      BY <1>2, <2>1, <2>3
    <3>3. ASSUME NEW i \in DOMAIN slots
          PROVE  gene'[genes[pop[1]][i]][i] = gene[genes[pop[1]][i]][i]
      <4>1. genes[pop[1]][i] \in 1 .. Len(pop)
        BY <3>1 DEF IInv, MadeGenes
      <4>2. ASSUME i = at[2], genes[pop[1]][i] = Chosen PROVE FALSE
        <5>1. genes[pop[1]][i] = genes[parents[at[1]]][i]
          BY <4>2 DEF Chosen
        <5> QED BY <3>1, <3>2, <5>1 DEF RInv, OwnGenes
      <4> QED BY <1>3, <4>1, <4>2
    <3>4. Genome(pop[1])' = Genome(pop[1])
      BY <1>1, <3>3 DEF Genome
    <3> QED BY <2>1, <2>3, <3>4
  <2> QED BY <1>1, <2>1, <2>2, <2>3 DEF FirstKept
<1>9. NoBest'
  BY <1>1 DEF RInv, NoBest, Nobody, PrincipalCandidates, Seats
<1> QED BY <1>5, <1>6, <1>7, <1>8, <1>9 DEF RInv

(* The gene that mutate considers is full.                                 *)
LEMMA ConsideredFull ==
  ASSUME IInv, RInv, Mutating
  PROVE  Full(Current, at[2])
<1>1. Chosen \in 1 .. Len(pop) /\ at[2] \in DOMAIN slots
  BY Considered
<1> QED BY <1>1 DEF RInv, FullGenes, Current

LEMMA SkipGeneRInv == IInv /\ RInv /\ SkipGene => RInv'
BY ConsideredFull, MutatingRInv DEF SkipGene

LEMMA KeepAssistantRInv == IInv /\ RInv /\ KeepAssistant => RInv'
BY ConsideredFull, MutatingRInv DEF KeepAssistant

LEMMA MutatePrincipalRInv == IInv /\ RInv /\ MutatePrincipal => RInv'
<1> SUFFICES ASSUME IInv, RInv, MutatePrincipal PROVE RInv'
  OBVIOUS
<1>1. Mutating /\ UNCHANGED Rest
  BY DEF MutatePrincipal
<1>2. CASE UNCHANGED gene
  BY <1>1, <1>2, ConsideredFull, MutatingRInv
<1>3. ASSUME NEW u \in PrincipalCandidates(at[2]) \ Staff(Current),
             gene' = [gene EXCEPT ![Chosen][at[2]].principal = u]
      PROVE  RInv'
  <2> DEFINE h == [Current EXCEPT !.principal = u]
  <2>1. Current \in Genes /\ WellFormed(Current, at[2]) /\ at[2] \in DOMAIN slots
    BY <1>1, Considered
  <2>2. h.principal = u /\ h.assistants = Current.assistants
    BY <2>1 DEF Genes
  <2>3. u \in available[at[2]] /\ u /= NoPrincipal
    BY <2>1, FitnessAssumption DEF PrincipalCandidates, IInv, TypeOK
  <2>4. ASSUME SubmittedOnce PROVE Len(Current.assistants) = Seats(at[2], u)
    <3>1. Current.principal \in available[at[2]]
      <4>1. PrincipalCandidates(at[2]) /= {}
        OBVIOUS
      <4> QED BY <2>1, <4>1 DEF WellFormed, PrincipalCandidates
    <3>2. Len(Current.assistants) = Seats(at[2], Current.principal)
      BY <1>1, <2>4, ConsideredFull DEF Full
    <3> QED BY <2>1, <2>3, <2>4, <3>1, <3>2, SeatsOfPrincipals DEF IInv, RInv
  <2>5. Full(h, at[2])
    BY <2>2, <2>3, <2>4 DEF Full
  <2>6. gene' = [gene EXCEPT ![Chosen][at[2]] = h]
    BY <1>3 DEF Current
  <2> QED BY <1>1, <2>5, <2>6, MutatingRInv
<1> QED BY <1>2, <1>3 DEF MutatePrincipal

LEMMA MutateAssistantRInv == IInv /\ RInv /\ MutateAssistant => RInv'
<1> SUFFICES ASSUME IInv, RInv, MutateAssistant PROVE RInv'
  OBVIOUS
<1>1. Mutating /\ UNCHANGED Rest /\ at[3] > 0
  BY DEF MutateAssistant
<1>2. PICK u \in AssistantCandidates(at[2], Current) :
        gene' = [gene EXCEPT ![Chosen][at[2]].assistants[at[3]] = u]
  BY DEF MutateAssistant
<1> DEFINE h == [Current EXCEPT !.assistants[at[3]] = u]
<1>3. h.principal = Current.principal /\ Len(h.assistants) = Len(Current.assistants)
  BY <1>1, Considered DEF Genes
<1>4. Full(h, at[2])
  <2>1. Full(Current, at[2])
    BY <1>1, ConsideredFull
  <2> HIDE DEF h
  <2> QED BY <1>3, <2>1 DEF Full
<1>5. gene' = [gene EXCEPT ![Chosen][at[2]] = h]
  BY <1>2 DEF Current
<1> QED BY <1>1, <1>4, <1>5, MutatingRInv

(* The children come after the elites.                                     *)
LEMMA EnlistRInv == IInv /\ RInv /\ Enlist => RInv'
<1> SUFFICES ASSUME IInv, RInv, Enlist PROVE RInv'
  OBVIOUS
<1>1. /\ pc = "mutating" /\ pc' = "breeding"
      /\ UNCHANGED <<read, slots, pool, available, gene, genes, fitness, pop, best, bred>>
  BY DEF Enlist, made
<1>2. /\ newPop \in Seq(Chromosomes) /\ newPop /= <<>> /\ newPop[1] = pop[1]
      /\ parents \in Chromosomes \X Chromosomes
  BY <1>1 DEF IInv, TypeOK, Places, RInv, FirstKept
<1>3. newPop' /= <<>> /\ newPop'[1] = newPop[1]
  <2> DEFINE list == newPop
             C == Chromosomes
  <2>1. list \in Seq(C) /\ list /= <<>> /\ parents \in Seq(C) /\ parents[1] \in C
    <3>1. PICK p \in C, q \in C : parents = <<p, q>>
      BY <1>2
    <3>2. list \in Seq(C) /\ list /= <<>>
      BY <1>2
    <3> HIDE DEF C
    <3> QED BY <3>1, <3>2
  <2>2. newPop' \in {list \o parents, Append(list, parents[1])}
    BY DEF Enlist
  <2> HIDE DEF list, C
  <2>3. list \o parents /= <<>> /\ (list \o parents)[1] = list[1]
    BY <2>1
  <2>4. Append(list, parents[1]) /= <<>> /\ Append(list, parents[1])[1] = list[1]
    BY <2>1
  <2> QED BY <2>2, <2>3, <2>4 DEF list
<1>4. Listed'
  <2>1. Filled /\ Filled' /\ pc' /= "failed"
    BY <1>1 DEF Filled
  <2> QED BY <1>1, <2>1, ListedStays DEF RInv
<1>5. FullGenes'
  BY <1>1, FullStays DEF RInv, FullGenes
<1>6. OwnGenes'
  BY <1>1 DEF RInv, OwnGenes
<1>7. FirstKept'
  BY <1>1, <1>2, <1>3 DEF RInv, FirstKept, AsFitAsAny, Fitter, Genome
<1>8. NoBest'
  BY <1>1 DEF RInv, NoBest, Nobody, PrincipalCandidates, Seats
<1> QED BY <1>4, <1>5, <1>6, <1>7, <1>8 DEF RInv

LEMMA EndGenerationRInv == IInv /\ RInv /\ EndGeneration => RInv'
<1> SUFFICES ASSUME IInv, RInv, EndGeneration PROVE RInv'
  OBVIOUS
<1>1. /\ pc = "breeding" /\ pc' \in {"examining", "finishing"}
      /\ pop' = newPop /\ Len(newPop) >= read.size
      /\ UNCHANGED <<read, slots, pool, available, gene, genes, best, bred>>
  BY DEF EndGeneration, made
<1>2. Len(pop') = Len(pop)
  BY <1>1, InputFacts DEF IInv, TypeOK, Places, Filled, Ended
<1>3. Listed'
  <2>1. Filled /\ Filled' /\ pc' /= "failed"
    BY <1>1 DEF Filled
  <2> QED BY <1>1, <2>1, ListedStays DEF RInv
<1>4. FullGenes'
  BY <1>1, <1>2, FullStays DEF RInv, FullGenes
<1>5. OwnGenes'
  BY <1>1, <1>2 DEF RInv, OwnGenes
<1>6. FirstKept'
  BY <1>1 DEF FirstKept
<1>7. NoBest'
  BY <1>1 DEF RInv, NoBest, Nobody, PrincipalCandidates, Seats
<1> QED BY <1>3, <1>4, <1>5, <1>6, <1>7 DEF RInv

LEMMA StutterRInv == IInv /\ RInv /\ UNCHANGED vars => RInv'
<1> SUFFICES ASSUME IInv, RInv, UNCHANGED vars PROVE RInv'
  OBVIOUS
<1>1. UNCHANGED <<read, pc, slots, pool, available, gene, genes, fitness, pop, newPop, parents, at,
                  best, generation, bred>>
  BY DEF vars, made
<1>2. Listed'
  BY <1>1 DEF RInv, Listed, OfferedBy, SlotOf, Filled, SubmittedOnce
<1>3. FullGenes'
  BY <1>1, FullStays DEF RInv, FullGenes
<1>4. OwnGenes'
  BY <1>1 DEF RInv, OwnGenes
<1>5. FirstKept'
  BY <1>1 DEF RInv, FirstKept, AsFitAsAny, Fitter, Genome
<1>6. NoBest'
  BY <1>1 DEF RInv, NoBest, Nobody, PrincipalCandidates, Seats
<1> QED BY <1>2, <1>3, <1>4, <1>5, <1>6 DEF RInv

-----------------------------------------------------------------------------
(* The result.                                                             *)

\* What the best one ever makes of slot i, and of a shift.
ItemOf(i) == [day |-> slots[i].day, principal |-> BestGenome[i].principal,
              assistants |-> BestGenome[i].assistants]
RowOf(k) == [shift |-> read.shifts[k].id, items |-> ItemsOf(read.shifts[k].id)]

(* The best one ever has a gene for each slot, or none.                    *)
LEMMA BestFits ==
  ASSUME IInv, RInv, best.genes /= <<>>
  PROVE  /\ DOMAIN best.genes = DOMAIN slots /\ slots /= <<>>
         /\ BestGenome \in [DOMAIN slots -> Genes]
         /\ \A i \in DOMAIN slots : WellFormed(BestGenome[i], i) /\ Full(BestGenome[i], i)
<1>1. best.genes = [j \in DOMAIN slots |-> 0]
  BY DEF IInv, TypeOK
<1>2. gene[0] \in [DOMAIN slots -> Genes] /\ \A i \in DOMAIN slots : WellFormed(gene[0][i], i)
  BY <1>1 DEF IInv, Kept
<1>3. BestGenome = gene[0]
  BY <1>1, <1>2 DEF BestGenome
<1>4. slots /= <<>>
  <2>1. ASSUME slots = <<>> PROVE FALSE
    <3>1. DOMAIN slots = {}
      BY <2>1
    <3>2. [j \in DOMAIN slots |-> 0] = <<>>
      BY <3>1
    <3> QED BY <1>1, <3>2
  <2> QED BY <2>1
<1> QED BY <1>1, <1>2, <1>3, <1>4 DEF RInv, FullGenes

(* The items of a shift are those of its slots.                            *)
LEMMA ItemsOfShift ==
  ASSUME IInv, NEW id
  PROVE  /\ ItemsOf(id) \in Seq({ItemOf(i) : i \in DOMAIN best.genes})
         /\ Range(ItemsOf(id)) = {ItemOf(i) : i \in {j \in DOMAIN best.genes : slots[j].shift = id}}
<1> DEFINE n == IF best.genes = <<>> THEN 0 ELSE Len(slots)
           V == {ItemOf(i) : i \in DOMAIN best.genes}
           list == [i \in DOMAIN BestGenome |-> IF slots[i].shift = id THEN <<ItemOf(i)>> ELSE <<>>]
<1>1. n \in Nat /\ DOMAIN best.genes = 1 .. n /\ DOMAIN BestGenome = 1 .. n
  <2>1. slots \in Seq(SlotRows) /\ best.genes \in {<<>>, [i \in DOMAIN slots |-> 0]}
    BY DEF IInv, TypeOK
  <2>2. n \in Nat /\ DOMAIN best.genes = 1 .. n
    BY <2>1
  <2> QED BY <2>2 DEF BestGenome
<1>2. ItemsOf(id) = FlattenSeq(list)
  BY DEF ItemsOf, ItemOf
<1>3. \A i \in 1 .. n : ItemOf(i) \in V
  BY <1>1
<1>4. \A i \in 1 .. n : list[i] = IF slots[i].shift = id THEN <<ItemOf(i)>> ELSE <<>>
  BY <1>1
<1>5. list = [i \in 1 .. n |-> list[i]]
  BY <1>1
<1> HIDE DEF n, V, list
<1>6. \A i \in 1 .. n : list[i] \in Seq(V)
                        /\ Range(list[i]) = IF slots[i].shift = id THEN {ItemOf(i)} ELSE {}
  <2> SUFFICES ASSUME NEW i \in 1 .. n
               PROVE  /\ list[i] \in Seq(V)
                      /\ Range(list[i]) = IF slots[i].shift = id THEN {ItemOf(i)} ELSE {}
    OBVIOUS
  <2>1. ItemOf(i) \in V
    BY <1>3
  <2>2. ASSUME NEW x \in V
        PROVE  /\ <<x>> \in Seq(V) /\ Range(<<x>>) = {x}
               /\ <<>> \in Seq(V) /\ Range(<<>>) = {}
    BY DEF Range
  <2> QED BY <1>4, <2>1, <2>2
<1>7. list \in [1 .. n -> Seq(V)]
  BY <1>5, <1>6
<1>8. /\ ItemsOf(id) \in Seq(V)
      /\ Range(ItemsOf(id)) = UNION {Range(list[i]) : i \in 1 .. n}
  BY <1>1, <1>2, <1>7, Flattened
<1>9. UNION {Range(list[i]) : i \in 1 .. n} = {ItemOf(i) : i \in {j \in 1 .. n : slots[j].shift = id}}
  BY <1>6
<1> QED BY <1>1, <1>8, <1>9 DEF V

(* The rows of the result are those of the shifts, and all of them if each *)
(* of them has a slot.                                                     *)
LEMMA ProposalRows ==
  ASSUME TypeOK
  PROVE  /\ Proposal \in Seq({RowOf(k) : k \in DOMAIN read.shifts})
         /\ (\A k \in DOMAIN read.shifts : RowOf(k).items /= <<>>) =>
              /\ Len(Proposal) = Len(read.shifts)
              /\ \A k \in DOMAIN read.shifts : Proposal[k] = RowOf(k)
<1> DEFINE n == Len(read.shifts)
           V == {RowOf(k) : k \in DOMAIN read.shifts}
           list == [k \in DOMAIN read.shifts |-> IF RowOf(k).items = <<>> THEN <<>> ELSE <<RowOf(k)>>]
<1>1. n \in Nat /\ DOMAIN read.shifts = 1 .. n
  BY ShiftsOfInput
<1>2. Proposal = FlattenSeq(list)
  BY DEF Proposal, RowOf
<1>3. \A k \in 1 .. n : RowOf(k) \in V
  BY <1>1
<1>4. \A k \in 1 .. n : list[k] = IF RowOf(k).items = <<>> THEN <<>> ELSE <<RowOf(k)>>
  BY <1>1
<1>5. list = [k \in 1 .. n |-> list[k]]
  BY <1>1
<1> HIDE DEF n, V, list
<1>6. \A k \in 1 .. n : list[k] \in Seq(V)
                        /\ (RowOf(k).items /= <<>> => Len(list[k]) = 1 /\ list[k][1] = RowOf(k))
  <2> SUFFICES ASSUME NEW k \in 1 .. n
               PROVE  /\ list[k] \in Seq(V)
                      /\ RowOf(k).items /= <<>> => Len(list[k]) = 1 /\ list[k][1] = RowOf(k)
    OBVIOUS
  <2>1. ASSUME NEW x \in V
        PROVE  /\ <<x>> \in Seq(V) /\ Len(<<x>>) = 1 /\ <<x>>[1] = x
               /\ <<>> \in Seq(V)
    OBVIOUS
  <2> QED BY <1>3, <1>4, <2>1
<1>7. list \in [1 .. n -> Seq(V)]
  BY <1>5, <1>6
<1>8. /\ FlattenSeq(list) \in Seq(V)
      /\ (\A i \in 1 .. n : Len(list[i]) = 1) =>
           /\ Len(FlattenSeq(list)) = n
           /\ \A i \in 1 .. n : FlattenSeq(list)[i] = list[i][1]
  BY <1>1, <1>7, Flattened
<1>9. Proposal \in Seq(V)
  BY <1>2, <1>8
<1>10. ASSUME \A k \in DOMAIN read.shifts : RowOf(k).items /= <<>>
       PROVE  Len(Proposal) = n /\ \A k \in DOMAIN read.shifts : Proposal[k] = RowOf(k)
  <2>1. \A k \in 1 .. n : Len(list[k]) = 1 /\ list[k][1] = RowOf(k)
    BY <1>1, <1>6, <1>10
  <2> QED BY <1>1, <1>2, <1>8, <2>1
<1> QED BY <1>9, <1>10 DEF n, V

(* Everybody on a gene offered its slot.                                   *)
LEMMA StaffOffered ==
  ASSUME NEW g, NEW i, WellFormed(g, i)
  PROVE  Staff(g) \subseteq available[i]
BY DEF WellFormed, Staff, PrincipalCandidates

(* If everybody submitted once, the submission that is found for somebody  *)
(* is the one with which they offered the slot.                            *)
LEMMA FoundOffer ==
  ASSUME TypeOK, Listed, SubmittedOnce, NEW i \in DOMAIN slots, NEW u \in available[i]
  PROVE  u \in DOMAIN Offers /\ <<slots[i].shift, slots[i].day>> \in Slots(Offers[u])
<1>1. pool = [k \in DOMAIN read.submissions |-> read.submissions[k].user] /\ pool \in Seq(Users)
  <2>1. slots /= <<>>
    BY DEF TypeOK
  <2> QED BY <2>1 DEF Listed, TypeOK
<1>2. u \in OfferedBy(i)
  BY DEF Listed
<1>3. PICK k \in DOMAIN read.submissions :
        /\ u = read.submissions[k].user
        /\ <<slots[i].shift, slots[i].day>> \in Slots(read.submissions[k].form)
  BY <1>2 DEF OfferedBy
<1>4. k \in DOMAIN pool /\ pool[k] = u /\ k \in Nat
  BY <1>1, <1>3
<1>5. {l \in DOMAIN pool : pool[l] = u} = {k}
  BY <1>4 DEF SubmittedOnce, IsInjective
<1>6. Min({k}) = k
  BY <1>4 DEF Min
<1>7. u \in Range(pool)
  BY <1>4 DEF Range
<1>8. Offers[u] = read.submissions[k].form
  BY <1>5, <1>6, <1>7 DEF Offers
<1> QED BY <1>3, <1>7, <1>8 DEF Offers

(* The result passes the checks that the generator makes itself.           *)
LEMMA ProposalPasses ==
  ASSUME IInv, RInv, SubmittedOnce
  PROVE  StaffAvailable(Proposal, Offers) /\ NoDuplicateStaff(Proposal)
<1> DEFINE items(i) == Proposal[i].items
<1>1. ASSUME NEW i \in 1 .. Len(Proposal), NEW j \in 1 .. Len(items(i))
      PROVE  \E s \in DOMAIN slots :
               /\ slots[s].shift = Proposal[i].shift /\ items(i)[j] = ItemOf(s)
               /\ WellFormed(BestGenome[s], s)
  <2>1. Proposal \in Seq({RowOf(k) : k \in DOMAIN read.shifts})
    BY ProposalRows DEF IInv
  <2>2. PICK k \in DOMAIN read.shifts : Proposal[i] = RowOf(k)
    BY <2>1
  <2> DEFINE id == read.shifts[k].id
             list == ItemsOf(id)
  <2>3. Proposal[i].shift = id /\ items(i) = list
    BY <2>2 DEF RowOf
  <2>4. /\ list \in Seq({ItemOf(s) : s \in DOMAIN best.genes})
        /\ Range(list) = {ItemOf(s) : s \in {t \in DOMAIN best.genes : slots[t].shift = id}}
    BY ItemsOfShift
  <2> HIDE DEF id, list, items
  <2>5. list[j] \in Range(list)
    BY <2>3, <2>4 DEF Range
  <2>6. PICK s \in DOMAIN best.genes : slots[s].shift = id /\ list[j] = ItemOf(s)
    BY <2>4, <2>5
  <2>7. best.genes /= <<>>
    OBVIOUS
  <2> QED BY <2>3, <2>6, <2>7, BestFits
<1>2. ASSUME NEW s PROVE Staff(ItemOf(s)) = Staff(BestGenome[s])
  BY DEF Staff, ItemOf
<1>3. StaffAvailable(Proposal, Offers)
  <2> SUFFICES ASSUME NEW i \in 1 .. Len(Proposal), NEW j \in 1 .. Len(items(i)),
                      NEW u \in Staff(items(i)[j])
               PROVE  /\ u \in DOMAIN Offers
                      /\ <<Proposal[i].shift, items(i)[j].day>> \in Slots(Offers[u])
    BY DEF StaffAvailable
  <2>1. PICK s \in DOMAIN slots : /\ slots[s].shift = Proposal[i].shift /\ items(i)[j] = ItemOf(s)
                                  /\ WellFormed(BestGenome[s], s)
    BY <1>1
  <2>2. u \in available[s]
    BY <1>2, <2>1, StaffOffered
  <2>3. items(i)[j].day = slots[s].day
    BY <2>1 DEF ItemOf
  <2> QED BY <2>1, <2>2, <2>3, FoundOffer DEF IInv, RInv
<1>4. NoDuplicateStaff(Proposal)
  <2> SUFFICES ASSUME NEW i \in 1 .. Len(Proposal), NEW j \in 1 .. Len(items(i))
               PROVE  /\ items(i)[j].principal \notin Range(items(i)[j].assistants) \ {NoPrincipal}
                      /\ IsInjective(items(i)[j].assistants)
    BY DEF NoDuplicateStaff
  <2>1. PICK s \in DOMAIN slots : /\ slots[s].shift = Proposal[i].shift /\ items(i)[j] = ItemOf(s)
                                  /\ WellFormed(BestGenome[s], s)
    BY <1>1
  <2> QED BY <2>1 DEF ItemOf, WellFormed
<1> QED BY <1>3, <1>4

(* If everybody submitted once, the generator does not fail here.          *)
LEMMA FinishRInv == IInv /\ RInv /\ Finish => RInv'
<1> SUFFICES ASSUME IInv, RInv, Finish PROVE RInv'
  OBVIOUS
<1>1. /\ pc = "finishing" /\ pc' \in {"done", "failed"}
      /\ UNCHANGED <<read, slots, pool, available, gene, genes, fitness, pop, newPop, best, bred>>
  BY DEF Finish, made
<1>2. CASE pc' = "done"
  <2>1. Listed'
    <3>1. Filled /\ Filled' /\ pc' /= "failed"
      BY <1>1, <1>2 DEF Filled
    <3> QED BY <1>1, <3>1, ListedStays DEF RInv
  <2>2. FullGenes'
    BY <1>1, FullStays DEF RInv, FullGenes
  <2>3. OwnGenes' /\ FirstKept'
    BY <1>1 DEF RInv, OwnGenes, FirstKept
  <2>4. NoBest'
    BY <1>1 DEF RInv, NoBest, Nobody, PrincipalCandidates, Seats
  <2> QED BY <2>1, <2>2, <2>3, <2>4 DEF RInv
<1>3. CASE pc' = "failed"
  <2>1. ~SubmittedOnce
    BY <1>3, ProposalPasses DEF Finish
  <2>2. Listed'
    BY <1>1, <1>3, <2>1 DEF RInv, Listed, OfferedBy, SlotOf, Filled, SubmittedOnce
  <2>3. FullGenes'
    BY <1>1, FullStays DEF RInv, FullGenes
  <2>4. OwnGenes' /\ FirstKept' /\ NoBest'
    BY <1>1, <1>3 DEF RInv, OwnGenes, FirstKept, NoBest
  <2> QED BY <2>2, <2>3, <2>4 DEF RInv
<1> QED BY <1>1, <1>2, <1>3

(* A result with a best one ever has an item for each day of each shift of *)
(* the template, no other ones, and a place left for each principal.       *)
LEMMA ProposalFits ==
  ASSUME IInv, RInv, Filled, DaysOnce, best.genes /= <<>>
  PROVE  ResultFits(Proposal, [k \in DOMAIN read.shifts |->
                                 [read.shifts[k] EXCEPT !.days = Range(@)]])
<1> DEFINE rows == [k \in DOMAIN read.shifts |-> [read.shifts[k] EXCEPT !.days = Range(@)]]
<1>1. /\ read.shifts \in Seq(ShiftRows)
      /\ \A k \in DOMAIN read.shifts : read.shifts[k].days \in Seq(1 .. 7)
      /\ \A j, k \in DOMAIN read.shifts : read.shifts[j].id = read.shifts[k].id => j = k
  BY ShiftsOfInput DEF IInv
<1>2. Len(rows) = Len(read.shifts)
  BY <1>1
<1>3. ASSUME NEW k \in DOMAIN read.shifts
      PROVE  /\ rows[k].id = read.shifts[k].id /\ rows[k].need = read.shifts[k].need
             /\ rows[k].days = Range(read.shifts[k].days)
  <2> DEFINE shift == read.shifts[k]
  <2>1. shift \in ShiftRows
    <3> DEFINE list == read.shifts
    <3>1. list \in Seq(ShiftRows) /\ k \in DOMAIN list
      BY <1>1
    <3> HIDE DEF list
    <3>2. list[k] \in ShiftRows
      BY <3>1
    <3> QED BY <3>2 DEF list
  <2>2. rows[k] = [shift EXCEPT !.days = Range(@)]
    OBVIOUS
  <2> HIDE DEF shift, rows
  <2>3. /\ rows[k].id = shift.id /\ rows[k].need = shift.need /\ rows[k].days = Range(shift.days)
    BY <2>1, <2>2 DEF ShiftRows
  <2> QED BY <2>3 DEF shift
<1> HIDE DEF rows
<1>4. DOMAIN best.genes = DOMAIN slots
  BY BestFits
<1>5. ASSUME NEW k \in DOMAIN read.shifts
      PROVE  /\ RowOf(k).items \in Seq({ItemOf(i) : i \in DOMAIN slots})
             /\ Range(RowOf(k).items)
                  = {ItemOf(i) : i \in {j \in DOMAIN slots : slots[j].shift = read.shifts[k].id}}
  BY <1>4, ItemsOfShift DEF RowOf
<1>6. ASSUME NEW k \in DOMAIN read.shifts, NEW day \in Range(read.shifts[k].days)
      PROVE  \E j \in 1 .. Len(RowOf(k).items) : RowOf(k).items[j].day = day
  <2>1. PICK d \in DOMAIN read.shifts[k].days : day = read.shifts[k].days[d]
    BY DEF Range
  <2>2. PICK i \in DOMAIN slots : slots[i] = SlotOf(k, d)
    BY <2>1 DEF RInv, Listed
  <2>3. slots[i].shift = read.shifts[k].id /\ slots[i].day = day
    BY <2>1, <2>2 DEF SlotOf
  <2>4. ItemOf(i) \in Range(RowOf(k).items)
    BY <1>5, <2>3
  <2>5. PICK j \in DOMAIN RowOf(k).items : RowOf(k).items[j] = ItemOf(i)
    BY <2>4 DEF Range
  <2>6. j \in 1 .. Len(RowOf(k).items)
    <3> DEFINE list == RowOf(k).items
               V == {ItemOf(s) : s \in DOMAIN slots}
    <3>1. list \in Seq(V) /\ j \in DOMAIN list
      BY <1>5
    <3> HIDE DEF list, V
    <3> QED BY <3>1 DEF list
  <2> QED BY <2>3, <2>5, <2>6 DEF ItemOf
<1>7. ASSUME NEW k \in DOMAIN read.shifts, NEW j \in 1 .. Len(RowOf(k).items)
      PROVE  /\ RowOf(k).items[j].day \in Range(read.shifts[k].days)
             /\ Len(RowOf(k).items[j].assistants) + 1 <= read.shifts[k].need
  <2> DEFINE list == RowOf(k).items
  <2>1. list[j] \in Range(list)
    <3>1. list \in Seq({ItemOf(i) : i \in DOMAIN slots})
      BY <1>5
    <3> HIDE DEF list
    <3> QED BY <3>1 DEF Range, list
  <2>2. PICK i \in DOMAIN slots : slots[i].shift = read.shifts[k].id /\ list[j] = ItemOf(i)
    BY <1>5, <2>1
  <2>3. PICK l \in DOMAIN read.shifts :
          \E e \in DOMAIN read.shifts[l].days : slots[i] = SlotOf(l, e)
    BY DEF RInv, Listed
  <2>4. l = k
    BY <1>1, <2>2, <2>3 DEF SlotOf
  <2> PICK d \in DOMAIN read.shifts[k].days : slots[i] = SlotOf(k, d)
    BY <2>3, <2>4
  <2>5. slots[i].day = read.shifts[k].days[d] /\ slots[i].need = read.shifts[k].need
    BY DEF SlotOf
  <2>6. slots[i].day \in Range(read.shifts[k].days)
    BY <2>5 DEF Range
  <2>7. BestGenome[i] \in Genes /\ WellFormed(BestGenome[i], i)
    BY BestFits
  <2>8. Len(BestGenome[i].assistants) \in Nat
    BY <2>7 DEF Genes
  <2>9. slots[i].need \in Nat
    <3>1. slots[i] \in SlotRows
      BY DEF IInv, TypeOK
    <3> QED BY <3>1 DEF SlotRows
  <2>10. Len(BestGenome[i].assistants) + 1 <= slots[i].need
    BY <2>7, <2>8, <2>9 DEF WellFormed
  <2> QED BY <2>2, <2>5, <2>6, <2>10 DEF ItemOf
<1>8. Len(Proposal) = Len(read.shifts) /\ \A k \in DOMAIN read.shifts : Proposal[k] = RowOf(k)
  <2> SUFFICES ASSUME NEW k \in DOMAIN read.shifts PROVE RowOf(k).items /= <<>>
    BY ProposalRows DEF IInv
  <2>1. read.shifts[k].days[1] \in Range(read.shifts[k].days)
    <3>1. 1 \in DOMAIN read.shifts[k].days
      BY <1>1 DEF DaysOnce
    <3> QED BY <3>1 DEF Range
  <2>2. \E j \in 1 .. Len(RowOf(k).items) : TRUE
    BY <1>6, <2>1
  <2> QED BY <2>2
<1>9. ResultFits(Proposal, rows)
  <2>1. DOMAIN read.shifts = 1 .. Len(read.shifts)
    BY <1>1
  <2>2. ASSUME NEW k \in 1 .. Len(read.shifts)
        PROVE  rows[k].id = Proposal[k].shift /\ ResultShiftFits(Proposal[k].items, rows[k])
    <3>1. Proposal[k] = RowOf(k) /\ rows[k].id = Proposal[k].shift
      BY <1>3, <1>8, <2>1 DEF RowOf
    <3>2. rows[k].need = read.shifts[k].need /\ rows[k].days = Range(read.shifts[k].days)
      BY <1>3, <2>1
    <3>3. \A day \in rows[k].days : \E j \in 1 .. Len(RowOf(k).items) : RowOf(k).items[j].day = day
      BY <1>6, <2>1, <3>2
    <3>4. \A j \in 1 .. Len(RowOf(k).items) :
            /\ RowOf(k).items[j].day \in rows[k].days
            /\ Len(RowOf(k).items[j].assistants) + 1 <= rows[k].need
      BY <1>7, <2>1, <3>2
    <3>5. Proposal[k].items = RowOf(k).items
      BY <3>1
    <3>6. ResultShiftFits(RowOf(k).items, rows[k])
      BY <3>3, <3>4 DEF ResultShiftFits
    <3> QED BY <3>1, <3>5, <3>6
  <2> QED BY <1>2, <1>8, <2>2 DEF ResultFits
<1> QED BY <1>9 DEF rows

(* As many elements as there are places that have different ones.          *)
LEMMA CountImages ==
  ASSUME NEW D, IsFiniteSet(D), NEW f, \A x, y \in D : f[x] = f[y] => x = y
  PROVE  IsFiniteSet({f[x] : x \in D}) /\ Cardinality({f[x] : x \in D}) = Cardinality(D)
<1> DEFINE T == {f[x] : x \in D}
           h == [x \in D |-> f[x]]
<1>1. h \in Surjection(D, T)
  BY DEF Surjection
<1>2. h \in Injection(D, T)
  BY DEF Injection, IsInjective
<1> HIDE DEF h, T
<1> QED BY <1>1, <1>2, FS_Surjection DEF T

(* A slot has no more people than it needs, and fewer only for want of     *)
(* people, or of a principal.                                              *)
LEMMA SlotIsFilled ==
  ASSUME TypeOK, Listed, SubmittedOnce, NEW i \in DOMAIN slots, NEW g \in Genes,
         WellFormed(g, i), Full(g, i)
  PROVE  /\ Cardinality(Staff(g)) <= slots[i].need
         /\ Cardinality(Staff(g)) < slots[i].need =>
              Staff(g) = available[i] \/ g.principal = NoPrincipal
<1> DEFINE A == Range(g.assistants)
           p == g.principal
           n == Len(g.assistants)
           candidates == {k \in DOMAIN pool : pool[k] \in available[i] \ {p}}
<1>1. /\ g.assistants \in Seq(Users) /\ n \in Nat /\ DOMAIN g.assistants = 1 .. n
      /\ IsInjective(g.assistants) /\ n < slots[i].need /\ A \subseteq available[i] \ {p}
  BY DEF Genes, WellFormed
<1>2. IsFiniteSet(A) /\ Cardinality(A) = n
  <2>1. IsFiniteSet(1 .. n) /\ Cardinality(1 .. n) = n
    BY <1>1, FS_Interval
  <2>2. A = {g.assistants[x] : x \in 1 .. n}
    BY <1>1 DEF Range
  <2>3. \A x, y \in 1 .. n : g.assistants[x] = g.assistants[y] => x = y
    BY <1>1 DEF IsInjective
  <2> HIDE DEF A, n
  <2> DEFINE f == g.assistants
             D == 1 .. n
             T == {f[x] : x \in D}
  <2>4. IsFiniteSet(D) /\ \A x, y \in D : f[x] = f[y] => x = y
    BY <2>1, <2>3
  <2>5. IsFiniteSet(T) /\ Cardinality(T) = Cardinality(D)
    <3> HIDE DEF f, D
    <3> QED BY <2>4, CountImages
  <2> HIDE DEF T
  <2> QED BY <2>1, <2>2, <2>5 DEF T
<1>3. slots[i].need \in Nat /\ Seats(i, p) \in {slots[i].need - 1, Cardinality(candidates)}
      /\ Cardinality(candidates) \in Nat /\ IsFiniteSet(candidates)
  BY SeatsType
<1>4. CASE p = NoPrincipal
  <2>1. Staff(g) = A
    BY <1>4 DEF Staff
  <2> QED BY <1>1, <1>2, <1>3, <1>4, <2>1
<1>5. CASE p /= NoPrincipal
  <2>1. p \in available[i]
    BY <1>5 DEF WellFormed, PrincipalCandidates
  <2>2. Staff(g) = A \cup {p} /\ p \notin A
    BY <1>1, <1>5 DEF Staff
  <2>3. Cardinality(Staff(g)) = n + 1
    <3> HIDE DEF A, p, n
    <3> QED BY <1>2, <2>2, FS_AddElement
  <2>4. ASSUME n + 1 < slots[i].need PROVE Staff(g) = available[i]
    <3>1. n = Cardinality(candidates)
      <4>1. n = Seats(i, p)
        BY DEF Full
      <4> HIDE DEF n, p, candidates
      <4> QED BY <1>1, <1>3, <2>4, <4>1
    <3>2. available[i] \ {p} = {pool[k] : k \in candidates}
      BY OfferersInPool DEF Range
    <3>3. \A k, l \in candidates : pool[k] = pool[l] => k = l
      BY DEF SubmittedOnce, IsInjective
    <3>4. IsFiniteSet(available[i] \ {p}) /\ Cardinality(available[i] \ {p}) = n
      <4> HIDE DEF candidates, n, p
      <4> QED BY <1>3, <3>1, <3>2, <3>3, CountImages
    <3>5. A = available[i] \ {p}
      <4> HIDE DEF A, p, n
      <4> QED BY <1>1, <1>2, <3>4, FS_Subset
    <3> QED BY <2>1, <2>2, <3>5
  <2> HIDE DEF n
  <2> QED BY <1>1, <1>3, <2>3, <2>4
<1> QED BY <1>4, <1>5

-----------------------------------------------------------------------------
(* The invariant holds in every state of every call.                       *)
THEOREM RosterInvariance == Spec => [](IInv /\ RInv)
<1>1. Init => IInv /\ RInv
  BY InitIInv, InitRInv
<1>2. IInv /\ [Next]_vars => IInv'
  BY NewKeeps, NewFailsKeeps, ListSlotsKeeps, PopulateKeeps, ExamineKeeps, BreedKeeps,
     BreedPanicsKeeps, SkipGeneKeeps, MutatePrincipalKeeps, KeepAssistantKeeps,
     MutateAssistantKeeps, EnlistKeeps, EndGenerationKeeps, FinishKeeps, StutterKeeps DEF Next
<1>3. IInv /\ RInv /\ [Next]_vars => RInv'
  BY NewRInv, NewFailsRInv, ListSlotsRInv, PopulateRInv, ExamineRInv, BreedRInv,
     BreedPanicsRInv, SkipGeneRInv, MutatePrincipalRInv, KeepAssistantRInv,
     MutateAssistantRInv, EnlistRInv, EndGenerationRInv, FinishRInv, StutterRInv DEF Next
<1> QED BY <1>1, <1>2, <1>3, PTL DEF Spec

(* What the generator answers, when everybody submitted once and every     *)
(* shift has days, each once, is a roster that the checks of a submitted   *)
(* result accept, on which a place is free only for want of people or of a *)
(* principal; it does not fail once it has its users, and it answers       *)
(* nothing only if nobody could be placed.                                 *)
THEOREM ResultsAreRosters == Spec => []GeneratedIsARoster
<1>1. IInv /\ RInv => GeneratedIsARoster
  <2> SUFFICES ASSUME IInv, RInv, SubmittedOnce, DaysOnce
               PROVE  /\ pc = "failed" => slots = <<>>
                      /\ pc = "done" /\ best.genes /= <<>> =>
                           /\ ResultFits(Proposal, [k \in DOMAIN read.shifts |->
                                                      [read.shifts[k] EXCEPT !.days = Range(@)]])
                           /\ StaffAvailable(Proposal, Offers)
                           /\ NoDuplicateStaff(Proposal)
                           /\ \A i \in DOMAIN slots :
                                /\ Cardinality(SlotStaff(i)) <= slots[i].need
                                /\ Cardinality(SlotStaff(i)) < slots[i].need =>
                                     \/ SlotStaff(i) = available[i]
                                     \/ BestGenome[i].principal = NoPrincipal
                      /\ pc = "done" /\ best.genes = <<>> =>
                           \A i \in DOMAIN slots :
                             RandomGenes(i) = {[principal |-> NoPrincipal, assistants |-> <<>>]}
    BY Zenon DEF GeneratedIsARoster
  <2>1. TypeOK /\ Listed
    BY DEF IInv, RInv
  <2>2. pc = "failed" => slots = <<>>
    BY <2>1 DEF Listed
  <2>3. ASSUME pc = "done", best.genes /= <<>>
        PROVE  ResultFits(Proposal, [k \in DOMAIN read.shifts |->
                                       [read.shifts[k] EXCEPT !.days = Range(@)]])
    <3>1. Filled
      BY <2>3 DEF Filled
    <3> QED BY <2>3, <3>1, ProposalFits
  <2>4. StaffAvailable(Proposal, Offers) /\ NoDuplicateStaff(Proposal)
    BY ProposalPasses
  <2>5. ASSUME best.genes /= <<>>, NEW i \in DOMAIN slots
        PROVE  /\ Cardinality(SlotStaff(i)) <= slots[i].need
               /\ Cardinality(SlotStaff(i)) < slots[i].need =>
                    SlotStaff(i) = available[i] \/ BestGenome[i].principal = NoPrincipal
    <3>1. BestGenome[i] \in Genes /\ WellFormed(BestGenome[i], i) /\ Full(BestGenome[i], i)
      BY <2>5, BestFits
    <3> QED BY <2>1, <3>1, SlotIsFilled DEF SlotStaff
  <2>6. ASSUME pc = "done", best.genes = <<>>, NEW i \in DOMAIN slots
        PROVE  RandomGenes(i) = {[principal |-> NoPrincipal, assistants |-> <<>>]}
    <3>1. Nobody(i)
      BY <2>6 DEF RInv, NoBest
    <3> QED BY <2>1, <3>1, NobodyIsDrawn
  <2> QED BY <2>2, <2>3, <2>4, <2>5, <2>6
<1> QED BY <1>1, RosterInvariance, PTL

(* A generation is succeeded by one that is as fit, unless one of its      *)
(* fittest was bred: the first elite is one of the fittest, and a          *)
(* chromosome that is no parent shares no gene with one that is changed.   *)
THEOREM ElitesAreKept == Spec => ElitesLostOnlyAsParents
<1> DEFINE AsFit == pc = "breeding" /\ pc' \in {"examining", "finishing"} =>
                      \/ \E c \in bred : AsFitAsAny(fitness[c])
                      \/ \E c \in Range(pop') : AsFitAsAny(fitness'[c])
<1>1. IInv /\ RInv /\ [Next]_vars => [AsFit]_vars
  <2> SUFFICES ASSUME IInv, RInv, [Next]_vars,
                      pc = "breeding", pc' \in {"examining", "finishing"}
               PROVE  AsFit
    OBVIOUS
  <2>1. EndGeneration
    BY DEF Next, New, NewFails, ListSlots, Populate, Examine, Breed, BreedPanics, SkipGene,
           MutatePrincipal, KeepAssistant, MutateAssistant, Enlist, Finish, Mutating, vars
  <2>2. /\ pop' = newPop
        /\ fitness' = [c \in DOMAIN fitness |->
                         IF c \in Range(newPop) THEN Fitness(Genome(c), slots) ELSE fitness[c]]
    BY <2>1 DEF EndGeneration
  <2>3. /\ newPop \in Seq(Chromosomes) /\ DOMAIN fitness = Chromosomes
        /\ newPop /= <<>> /\ newPop[1] = pop[1] /\ AsFitAsAny(fitness[pop[1]])
        /\ pop[1] \notin bred => fitness[pop[1]] = Fitness(Genome(pop[1]), slots)
    BY DEF IInv, TypeOK, RInv, FirstKept
  <2>4. pop[1] \in Range(newPop) /\ pop[1] \in Chromosomes
    <3> DEFINE list == newPop
               C == Chromosomes
    <3>1. list \in Seq(C) /\ list /= <<>> /\ list[1] = pop[1]
      BY <2>3
    <3> HIDE DEF list, C
    <3>2. 1 \in DOMAIN list /\ list[1] \in C
      BY <3>1
    <3>3. list[1] \in Range(list)
      BY <3>2 DEF Range
    <3> QED BY <3>1, <3>2, <3>3 DEF list, C
  <2>5. CASE pop[1] \in bred
    BY <2>3, <2>5
  <2>6. CASE pop[1] \notin bred
    <3>1. fitness'[pop[1]] = fitness[pop[1]]
      BY <2>2, <2>3, <2>4, <2>6
    <3>2. pop[1] \in Range(pop')
      BY <2>2, <2>4
    <3> QED BY <2>3, <3>1, <3>2
  <2> QED BY <2>5, <2>6
<1> QED BY <1>1, RosterInvariance, PTL DEF Spec, ElitesLostOnlyAsParents

-----------------------------------------------------------------------------
\* genBestIndex finds one: in a population that is examined either every fitness
\* is NaN, and then the first one is taken, or all of them can be compared.
BestIsFound ==
    pc = "examining" =>
      /\ \E k \in DOMAIN pop : IsGenBest(k)
      /\ \/ \A c \in Range(pop) : fitness[c] = Undefined
         \/ \A c \in Range(pop) : fitness[c] \in Int

(* The first greatest one of a list of numbers.                            *)
LEMMA FirstGreatest ==
  ASSUME NEW n \in Nat \ {0}, NEW f \in [1 .. n -> Int]
  PROVE  \E k \in 1 .. n : /\ \A j \in 1 .. n : f[j] <= f[k]
                           /\ \A j \in 1 .. k - 1 : f[j] < f[k]
<1> DEFINE Greatest(m, k) == /\ \A j \in 1 .. m : f[j] <= f[k]
                             /\ \A j \in 1 .. k - 1 : f[j] < f[k]
           T == {m \in Nat : m + 1 <= n => \E k \in 1 .. m + 1 : Greatest(m + 1, k)}
<1>1. 0 \in T
  <2>1. f[1] \in Int
    OBVIOUS
  <2>2. Greatest(1, 1)
    BY <2>1
  <2> QED BY <2>2
<1>2. ASSUME NEW m \in Nat, m \in T PROVE m + 1 \in T
  <2> SUFFICES ASSUME m + 1 + 1 <= n PROVE \E k \in 1 .. m + 1 + 1 : Greatest(m + 1 + 1, k)
    OBVIOUS
  <2>1. PICK k \in 1 .. m + 1 : Greatest(m + 1, k)
    <3>1. m + 1 <= n
      OBVIOUS
    <3> HIDE DEF Greatest
    <3> QED BY <1>2, <3>1
  <2>2. \A j \in 1 .. m + 1 + 1 : f[j] \in Int /\ (j \in 1 .. m + 1 \/ j = m + 1 + 1)
    OBVIOUS
  <2>3. CASE f[m + 1 + 1] <= f[k]
    <3>1. Greatest(m + 1 + 1, k)
      BY <2>1, <2>2, <2>3
    <3>2. k \in 1 .. m + 1 + 1
      OBVIOUS
    <3> HIDE DEF Greatest
    <3> QED BY <3>1, <3>2
  <2>4. CASE ~(f[m + 1 + 1] <= f[k])
    <3>1. \A j \in 1 .. m + 1 : f[j] < f[m + 1 + 1]
      <4> SUFFICES ASSUME NEW j \in 1 .. m + 1 PROVE f[j] < f[m + 1 + 1]
        OBVIOUS
      <4>1. f[j] \in Int /\ f[k] \in Int /\ f[m + 1 + 1] \in Int
        OBVIOUS
      <4>2. f[j] <= f[k]
        BY <2>1
      <4> QED BY <2>4, <4>1, <4>2
    <3>2. m + 1 + 1 - 1 = m + 1 /\ m + 1 + 1 \in 1 .. m + 1 + 1
      OBVIOUS
    <3>3. f[m + 1 + 1] \in Int
      OBVIOUS
    <3>4. Greatest(m + 1 + 1, m + 1 + 1)
      BY <2>2, <3>1, <3>2, <3>3
    <3> HIDE DEF Greatest
    <3> QED BY <3>2, <3>4
  <2> QED BY <2>3, <2>4
<1>3. Nat \subseteq T
  <2> HIDE DEF T
  <2> QED BY <1>1, <1>2, AllNumbers
<1>4. n - 1 \in Nat /\ n - 1 + 1 = n
  OBVIOUS
<1>5. \E k \in 1 .. n : Greatest(n, k)
  <2> HIDE DEF Greatest
  <2>1. n - 1 \in T
    BY <1>3, <1>4
  <2>2. n - 1 + 1 <= n => \E k \in 1 .. n - 1 + 1 : Greatest(n - 1 + 1, k)
    BY <2>1
  <2> QED BY <1>4, <2>2
<1> QED BY <1>5

(* A best one of the generation is always found, NaN or not.               *)
THEOREM GenerationsHaveABest == Spec => []BestIsFound
<1>1. IInv /\ RInv => BestIsFound
  <2> SUFFICES ASSUME IInv, RInv, pc = "examining"
               PROVE  /\ \E k \in DOMAIN pop : IsGenBest(k)
                      /\ \/ \A c \in Range(pop) : fitness[c] = Undefined
                         \/ \A c \in Range(pop) : fitness[c] \in Int
    BY DEF BestIsFound
  <2> DEFINE n == Len(pop)
             f == [k \in 1 .. n |-> fitness[pop[k]]]
  <2>1. n \in Nat \ {0} /\ pop \in Seq(1 .. n) /\ DOMAIN pop = 1 .. n
    BY InputFacts DEF IInv, Places, Filled, Ended, MadeGenes
  <2>2. ASSUME NEW c \in Range(pop)
        PROVE  IF \A i \in DOMAIN slots : Nobody(i) THEN fitness[c] = Undefined
               ELSE fitness[c] \in Int
    <3>1. c \in 1 .. n
      BY <2>1 DEF Range
    <3>2. fitness[c] = Fitness(Genome(c), slots)
      BY DEF IInv, Measured
    <3> QED BY <3>1, <3>2, GenomesFit
  <2>3. \A k \in 1 .. n : pop[k] \in Range(pop)
    BY <2>1 DEF Range
  <2>4. CASE \A i \in DOMAIN slots : Nobody(i)
    <3>1. \A k \in 1 .. n : fitness[pop[k]] = Undefined
      BY <2>2, <2>3, <2>4
    <3>2. 1 \in DOMAIN pop /\ \A j \in DOMAIN pop : ~(j < 1)
      BY <2>1
    <3>3. IsGenBest(1)
      BY <2>1, <3>1, <3>2 DEF IsGenBest, Fitter
    <3> QED BY <2>2, <2>4, <3>2, <3>3
  <2>5. CASE ~\A i \in DOMAIN slots : Nobody(i)
    <3>1. \A k \in 1 .. n : fitness[pop[k]] \in Int
      BY <2>2, <2>3, <2>5
    <3>2. f \in [1 .. n -> Int] /\ \A k \in 1 .. n : f[k] = fitness[pop[k]]
      BY <3>1
    <3> HIDE DEF f
    <3>3. PICK k \in 1 .. n : /\ \A j \in 1 .. n : f[j] <= f[k]
                              /\ \A j \in 1 .. k - 1 : f[j] < f[k]
      <4> HIDE DEF n
      <4> QED BY <2>1, <3>2, FirstGreatest
    <3>4. IsGenBest(k)
      <4> SUFFICES ASSUME NEW j \in 1 .. n
                   PROVE  /\ ~Fitter(fitness[pop[j]], fitness[pop[k]])
                          /\ j < k => Fitter(fitness[pop[k]], fitness[pop[j]])
        BY <2>1 DEF IsGenBest
      <4>1. f[j] \in Int /\ f[k] \in Int /\ f[j] = fitness[pop[j]] /\ f[k] = fitness[pop[k]]
        BY <3>2
      <4>2. f[j] <= f[k] /\ (j < k => f[j] < f[k])
        <5>1. j < k => j \in 1 .. k - 1
          OBVIOUS
        <5> QED BY <3>3, <5>1
      <4>3. f[j] /= Undefined /\ f[k] /= Undefined
        BY <4>1, FitnessAssumption
      <4> HIDE DEF n
      <4> QED BY <4>1, <4>2, <4>3 DEF Fitter
    <3> QED BY <2>1, <2>2, <2>5, <3>4
  <2> QED BY <2>4, <2>5
<1> QED BY <1>1, RosterInvariance, PTL
=============================================================================

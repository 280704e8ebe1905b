--------------------------- MODULE GeneticProofs ---------------------------
(***************************************************************************)
(* Proofs about Genetic, for any users, inputs and weights: the types, the *)
(* genes stay well-formed through crossover and mutation, and the best one *)
(* ever stays what was measured.  Which fitness a list of genes has plays  *)
(* no part in them.                                                        *)
(***************************************************************************)
EXTENDS Genetic, FiniteSetTheorems, SequenceTheorems, TLAPS

\* The slots and pools that ListSlots and New have filled in.
Filled == pc \notin {"new", "listing", "failed"}

\* Every gene made so far is well-formed, and a chromosome that was made refers
\* to genes that were made.
MadeGenes ==
    /\ pop \in Seq(1 .. Len(pop))
    /\ \A c \in 1 .. Len(pop) : genes[c] \in [DOMAIN slots -> 1 .. Len(pop)]
    /\ \A k \in 1 .. Len(pop) : /\ gene[k] \in [DOMAIN slots -> Genes]
                                /\ \A i \in DOMAIN slots : WellFormed(gene[k][i], i)

\* The best one ever is a whole copy with its fitness.
Kept ==
    best.genes = [i \in DOMAIN slots |-> 0] /\ best.genes /= <<>> =>
      /\ gene[0] \in [DOMAIN slots -> Genes]
      /\ \A i \in DOMAIN slots : WellFormed(gene[0][i], i)
      /\ best.fitness = Fitness(gene[0], slots)

\* Where the call is in its loops, and what it has done before.
Places ==
    /\ pc \in {"new", "listing"} => pop = <<>> /\ best.genes = <<>>
    /\ pc = "new" => slots = <<>>
    /\ pc \in {"new", "listing"} => /\ \A k \in DOMAIN gene : gene[k] = <<>>
                                   /\ \A c \in Chromosomes : genes[c] = <<>>
    /\ pc = "listing" => at \in (Nat \ {0}) \X (Nat \ {0})
    /\ Filled /\ pc /= "populating" => Len(pop) = read.size
    /\ pc \notin {"finishing"} \cup Ended => generation < read.generations
    /\ pc = "mutating" =>
         /\ Len(newPop) < read.size
         /\ parents \in Chromosomes \X Chromosomes
         /\ at \in (1 .. 3) \X Nat \X Nat
         /\ at[1] <= 2 => at[2] \in DOMAIN slots /\ at[3] <= Len(Current.assistants)

\* The fitness of the population is up to date when it is compared.
Measured ==
    pc \in {"populating", "examining"} =>
      \A c \in Range(pop) : fitness[c] = Fitness(Genome(c), slots)

IInv == TypeOK /\ MadeGenes /\ Kept /\ Places /\ Measured

-----------------------------------------------------------------------------
(* What the random choices make of a gene.                                 *)

LEMMA MinOfTwo ==
    ASSUME NEW a \in Int, NEW b \in Int
    PROVE  Min({a, b}) \in {a, b} /\ Min({a, b}) <= a /\ Min({a, b}) <= b
<1>1. \E x \in {a, b} : \A y \in {a, b} : x <= y
  <2>1. CASE a <= b
    BY <2>1
  <2>2. CASE b <= a
    BY <2>2
  <2> QED BY <2>1, <2>2
<1> QED BY <1>1 DEF Min

(* The assistants of randomInitChromosome are distinct people who offer the *)
(* slot, without its principal, on fewer places than it has.               *)
LEMMA DrawsFit ==
    ASSUME TypeOK, NEW i \in DOMAIN slots, NEW p \in Users \cup {NoPrincipal},
           NEW a \in Draws(i, p)
    PROVE  /\ a \in Seq(Users)
           /\ Range(a) \subseteq available[i] \ {p}
           /\ SubmittedOnce => IsInjective(a)
           /\ Len(a) < slots[i].need
<1> DEFINE candidates == {k \in DOMAIN pool : pool[k] \in available[i] \ {p}}
           n == Min({slots[i].need - 1, Cardinality(candidates)})
<1>1. slots[i].need \in Nat \ {0} /\ pool \in Seq(Users)
  <2>1. slots \in Seq(SlotRows) /\ pool \in Seq(Users)
    BY DEF TypeOK
  <2>2. slots[i] \in SlotRows
    BY <2>1
  <2> QED BY <2>1, <2>2 DEF SlotRows
<1>2. Cardinality(candidates) \in Nat
  <2>1. Len(pool) \in Nat /\ candidates \subseteq 1 .. Len(pool)
    BY <1>1
  <2>2. IsFiniteSet(1 .. Len(pool))
    BY <2>1, FS_Interval
  <2> QED BY <2>1, <2>2, FS_Subset, FS_CardinalityType
<1>3. n \in Nat /\ n <= slots[i].need - 1
  <2> DEFINE m == slots[i].need - 1
             c == Cardinality(candidates)
  <2>1. m \in Nat /\ c \in Nat
    BY <1>1, <1>2
  <2> HIDE DEF m, c
  <2>2. Min({m, c}) \in {m, c} /\ Min({m, c}) <= m
    BY <2>1, MinOfTwo
  <2> QED BY <2>1, <2>2 DEF m, c
<1>4. PICK f \in Injection(1 .. n, candidates) : a = [j \in 1 .. n |-> pool[f[j]]]
  BY DEF Draws
<1>5. f \in [1 .. n -> candidates] /\ IsInjective(f)
  BY <1>4 DEF Injection
<1> HIDE DEF n
<1>6. \A j \in 1 .. n : f[j] \in DOMAIN pool /\ pool[f[j]] \in available[i] \ {p}
  BY <1>5
<1>7. a \in Seq(Users) /\ Len(a) = n
  BY <1>1, <1>3, <1>4, <1>6
<1>8. SubmittedOnce => IsInjective(a)
  <2> SUFFICES ASSUME SubmittedOnce, NEW j \in 1 .. n, NEW k \in 1 .. n, a[j] = a[k]
               PROVE  j = k
    BY <1>4 DEF IsInjective
  <2>1. f[j] = f[k]
    BY <1>4, <1>6 DEF SubmittedOnce, IsInjective
  <2> QED BY <2>1, <1>5 DEF IsInjective
<1> QED BY <1>1, <1>3, <1>4, <1>6, <1>7, <1>8 DEF Range

LEMMA RandomGenesFit ==
    ASSUME TypeOK, NEW i \in DOMAIN slots, NEW g \in RandomGenes(i)
    PROVE  g \in Genes /\ WellFormed(g, i)
<1> DEFINE P == IF PrincipalCandidates(i) = {} THEN {NoPrincipal} ELSE PrincipalCandidates(i)
<1>0. PICK p \in P : g \in {[principal |-> p, assistants |-> a] : a \in Draws(i, p)}
  BY DEF RandomGenes
<1>1. PICK a \in Draws(i, p) : g = [principal |-> p, assistants |-> a]
  BY <1>0
<1>2. p \in Users \cup {NoPrincipal}
  BY DEF PrincipalCandidates, TypeOK
<1>3. /\ a \in Seq(Users)
      /\ Range(a) \subseteq available[i] \ {p}
      /\ SubmittedOnce => IsInjective(a)
      /\ Len(a) < slots[i].need
  BY <1>1, <1>2, DrawsFit
<1> QED BY <1>1, <1>2, <1>3 DEF WellFormed, Genes

(* A senior who is not on the slot may become its principal.                *)
LEMMA NewPrincipalFits ==
    ASSUME TypeOK, NEW i \in DOMAIN slots, NEW g \in Genes, WellFormed(g, i),
           NEW u \in PrincipalCandidates(i) \ Staff(g)
    PROVE  LET h == [g EXCEPT !.principal = u] IN h \in Genes /\ WellFormed(h, i)
<1>1. u \in Users /\ u \notin Range(g.assistants) /\ Range(g.assistants) \subseteq available[i]
  BY DEF TypeOK, PrincipalCandidates, Staff, WellFormed
<1> QED BY <1>1 DEF WellFormed, Genes

(* One who offers the slot and is not on it may take an assistant's place.  *)
LEMMA NewAssistantFits ==
    ASSUME TypeOK, NEW i \in DOMAIN slots, NEW g \in Genes, WellFormed(g, i),
           NEW j \in 1 .. Len(g.assistants), NEW u \in AssistantCandidates(i, g)
    PROVE  LET h == [g EXCEPT !.assistants[j] = u] IN h \in Genes /\ WellFormed(h, i)
<1> DEFINE b == [g.assistants EXCEPT ![j] = u]
           h == [g EXCEPT !.assistants[j] = u]
<1>1. g.assistants \in Seq(Users) /\ g.principal \in Users \cup {NoPrincipal}
  BY DEF Genes
<1>2. u \in Users /\ u \in available[i]
  BY DEF AssistantCandidates, TypeOK
<1>3. u /= g.principal
  BY <1>2, FitnessAssumption DEF AssistantCandidates, Staff
<1>4. u \notin Range(g.assistants)
  BY DEF AssistantCandidates, Staff
<1>5. h = [principal |-> g.principal, assistants |-> b]
  BY <1>1 DEF Genes
<1>6. b \in Seq(Users) /\ Len(b) = Len(g.assistants) /\ DOMAIN b = DOMAIN g.assistants
  BY <1>1, <1>2
<1>7. Range(b) \subseteq available[i] \ {g.principal}
  <2> SUFFICES ASSUME NEW k \in DOMAIN b PROVE b[k] \in available[i] \ {g.principal}
    BY DEF Range
  <2>1. g.assistants[k] \in available[i] \ {g.principal}
    BY <1>6 DEF WellFormed, Range
  <2> QED BY <1>2, <1>3, <1>6, <2>1
<1>8. IsInjective(g.assistants) => IsInjective(b)
  <2> SUFFICES ASSUME IsInjective(g.assistants),
                      NEW k \in DOMAIN b, NEW l \in DOMAIN b, b[k] = b[l]
               PROVE  k = l
    BY DEF IsInjective
  <2>1. g.assistants[k] /= u /\ g.assistants[l] /= u
    BY <1>4, <1>6 DEF Range
  <2> QED BY <1>6, <2>1 DEF IsInjective
<1> QED BY <1>1, <1>5, <1>6, <1>7, <1>8 DEF WellFormed, Genes

-----------------------------------------------------------------------------
(* The steps of the call keep the invariant.                               *)

(* The parameters of the input are what the request's tags allow.           *)
LEMMA InputFacts ==
    ASSUME TypeOK
    PROVE  /\ read.size \in Nat \ {0} /\ read.generations \in Nat \ {0}
           /\ read.elites \in Nat \ {0}
BY InputsAssumption DEF TypeOK

LEMMA InitIInv == Init => IInv
<1> SUFFICES ASSUME Init PROVE IInv
  OBVIOUS
<1>1. read.size \in Nat \ {0} /\ read.generations \in Nat \ {0}
  BY InputsAssumption DEF Init
<1>2. TypeOK
  BY <1>1 DEF Init, TypeOK, PCs, Ended, Chromosomes
<1>3. MadeGenes /\ Kept
  BY DEF Init, MadeGenes, Kept
<1>4. Places /\ Measured
  BY <1>1 DEF Init, Places, Measured, Filled, Ended, Chromosomes
<1> QED BY <1>2, <1>3, <1>4 DEF IInv

(* New only takes down the users who submitted.                             *)
LEMMA NewKeeps == IInv /\ New => IInv'
<1> SUFFICES ASSUME IInv, New PROVE IInv'
  OBVIOUS
<1> USE DEF IInv
<1>1. pool' \in Seq(Users)
  <2>1. DOMAIN read.submissions = 1 .. Len(read.submissions)
    BY InputsAssumption DEF TypeOK
  <2> QED BY <2>1, InputsAssumption DEF TypeOK, New
<1>2. TypeOK'
  BY <1>1 DEF TypeOK, New, PCs, Chromosomes
<1>3. pop = <<>> /\ best.genes = <<>> /\ slots = <<>>
  BY DEF Places, New
<1>4. MadeGenes' /\ Kept'
  BY <1>3 DEF MadeGenes, Kept, New
<1>5. Places' /\ Measured'
  BY <1>3 DEF Places, Measured, Filled, Ended, New, Chromosomes
<1> QED BY <1>2, <1>4, <1>5

(* A slot that is listed gets those who offered it.  Nothing has a gene yet. *)
LEMMA ListSlotsKeeps == IInv /\ ListSlots => IInv'
<1> SUFFICES ASSUME IInv, ListSlots PROVE IInv'
  OBVIOUS
<1> USE DEF IInv
<1>1. at \in (Nat \ {0}) \X (Nat \ {0}) /\ pop = <<>> /\ best.genes = <<>>
  BY DEF Places, ListSlots
<1>0. read.shifts \in Seq(ShiftRows)
  BY InputsAssumption DEF TypeOK
<1>2. slots' \in Seq(SlotRows) /\ available' \in [DOMAIN slots' -> SUBSET Users]
  <2>1. slots \in Seq(SlotRows) /\ available \in [DOMAIN slots -> SUBSET Users]
    BY DEF TypeOK
  <2>2. CASE UNCHANGED <<slots, available>>
    BY <2>1, <2>2
  <2>3. CASE at[1] <= Len(read.shifts) /\ at[2] <= Len(read.shifts[at[1]].days)
    <3> DEFINE shift == read.shifts[at[1]]
               day == shift.days[at[2]]
               row == [shift |-> shift.id, day |-> day, need |-> shift.need,
                       hours |-> shift.end - shift.start]
               those == {read.submissions[k].user : k \in
                           {l \in DOMAIN read.submissions :
                              <<shift.id, day>> \in Slots(read.submissions[l].form)}}
    <3>2. shift \in ShiftRows
      BY <1>0, <1>1, <2>3
    <3>1. slots' = Append(slots, row) /\ available' = Append(available, those)
      <4>1. Len(read.shifts) \in Nat /\ Len(shift.days) \in Nat
        <5>1. \A s \in ShiftRows : s.days \in Seq(1 .. 7)
          BY DEF ShiftRows
        <5>2. shift.days \in Seq(1 .. 7)
          BY <3>2, <5>1
        <5> QED BY <1>0, <5>2
      <4>2. ~(at[1] > Len(read.shifts)) /\ ~(at[2] > Len(shift.days))
        BY <1>1, <2>3, <4>1
      <4> QED BY <4>2, Zenon DEF ListSlots
    <3>3. row \in SlotRows
      <4>1. shift.days \in Seq(1 .. 7) /\ at[2] \in 1 .. Len(shift.days)
        BY <1>1, <2>3, <3>2 DEF ShiftRows
      <4> QED BY <3>2, <4>1 DEF SlotRows, ShiftRows
    <3>4. those \in SUBSET Users
      <4>1. \A k \in DOMAIN read.submissions : read.submissions[k].user \in Users
        BY InputsAssumption DEF TypeOK
      <4> QED BY <4>1
    <3> HIDE DEF row, those
    <3>5. available \in Seq(SUBSET Users) /\ Len(available) = Len(slots)
      BY <2>1
    <3>6. slots' \in Seq(SlotRows) /\ available' \in Seq(SUBSET Users) /\ Len(available') = Len(slots')
      BY <2>1, <3>1, <3>3, <3>4, <3>5
    <3> QED BY <3>6
  <2> QED BY <1>1, <2>2, <2>3 DEF ListSlots, TypeOK
<1>3. at' \in {<<>>} \cup (Nat \ {0}) \X (Nat \ {0}) /\ (pc' = "listing" => at' /= <<>>)
  BY <1>1 DEF ListSlots
<1>4. /\ \A k \in DOMAIN gene : gene[k] = <<>>
      /\ \A c \in Chromosomes : genes[c] = <<>>
  BY DEF Places, ListSlots
<1>5. TypeOK'
  BY <1>1, <1>2, <1>3, <1>4 DEF TypeOK, ListSlots, PCs, Chromosomes
<1>6. MadeGenes' /\ Kept'
  BY <1>1 DEF MadeGenes, Kept, ListSlots
<1>7. Places' /\ Measured'
  BY <1>1, <1>3, <1>4 DEF Places, Measured, Filled, Ended, ListSlots, Chromosomes, Range
<1> QED BY <1>5, <1>6, <1>7

(* Steps that only go on to another step of the call.                       *)
LEMMA NewFailsKeeps == IInv /\ NewFails => IInv'
<1> SUFFICES ASSUME IInv, NewFails PROVE IInv'
  OBVIOUS
<1> USE DEF IInv, NewFails
<1>1. TypeOK'
  BY DEF TypeOK, made, PCs, Ended, Chromosomes
<1>2. MadeGenes' /\ Kept'
  BY DEF MadeGenes, Kept, made, WellFormed, PrincipalCandidates, SubmittedOnce
<1>3. Places' /\ Measured'
  BY DEF Places, Measured, Filled, Ended
<1> QED BY <1>1, <1>2, <1>3

LEMMA BreedPanicsKeeps == IInv /\ BreedPanics => IInv'
<1> SUFFICES ASSUME IInv, BreedPanics PROVE IInv'
  OBVIOUS
<1> USE DEF IInv, BreedPanics
<1>1. TypeOK'
  BY DEF TypeOK, made, PCs, Ended, Chromosomes
<1>2. MadeGenes' /\ Kept'
  BY DEF MadeGenes, Kept, made, WellFormed, PrincipalCandidates, SubmittedOnce
<1>3. Places' /\ Measured'
  BY DEF Places, Measured, Filled, Ended, made
<1> QED BY <1>1, <1>2, <1>3

LEMMA FinishKeeps == IInv /\ Finish => IInv'
<1> SUFFICES ASSUME IInv, Finish PROVE IInv'
  OBVIOUS
<1> USE DEF IInv
<1>1. pc = "finishing" /\ pc' \in {"done", "failed"}
  BY DEF Finish
<1>2. UNCHANGED <<made, gene, genes, fitness, pop, newPop, parents, at, best, generation, bred>>
  BY DEF Finish
<1>3. TypeOK'
  BY <1>1, <1>2 DEF TypeOK, made, PCs, Ended, Chromosomes
<1>4. MadeGenes' /\ Kept'
  BY <1>2 DEF MadeGenes, Kept, made, WellFormed, PrincipalCandidates, SubmittedOnce
<1>5. Places' /\ Measured'
  BY <1>1, <1>2 DEF Places, Measured, Filled, Ended, made
<1> QED BY <1>3, <1>4, <1>5

(* The genes of a chromosome that was made are well-formed.                 *)
LEMMA GenomeFits ==
    ASSUME MadeGenes, NEW c \in 1 .. Len(pop)
    PROVE  /\ Genome(c) \in [DOMAIN slots -> Genes]
           /\ \A i \in DOMAIN slots : WellFormed(Genome(c)[i], i)
BY DEF MadeGenes, Genome

(* A new chromosome gets genes of its own, which no earlier one refers to.   *)
LEMMA PopulateKeeps == IInv /\ Populate => IInv'
<1> SUFFICES ASSUME IInv, Populate PROVE IInv'
  OBVIOUS
<1> USE DEF IInv
<1> DEFINE c == Len(pop) + 1
<1>1. PICK g \in RandomGenomes :
        /\ gene' = [gene EXCEPT ![c] = g]
        /\ genes' = [genes EXCEPT ![c] = [i \in DOMAIN slots |-> c]]
        /\ fitness' = [fitness EXCEPT ![c] = Fitness(g, slots)]
        /\ pop' = Append(pop, c)
        /\ pc' = IF c = read.size THEN "examining" ELSE pc
  BY DEF Populate
<1>2. /\ pc = "populating" /\ Len(pop) < read.size
      /\ UNCHANGED <<made, newPop, parents, at, best, generation, bred>>
  BY DEF Populate
<1>3. read.size \in Nat /\ Len(pop) \in Nat /\ c \in Chromosomes /\ pop \in Seq(1 .. Len(pop))
  BY <1>2, InputFacts DEF TypeOK, Chromosomes, MadeGenes
<1>4. g \in [DOMAIN slots -> Genes] /\ \A i \in DOMAIN slots : WellFormed(g[i], i)
  <2>1. DOMAIN g = DOMAIN slots /\ g = [i \in DOMAIN slots |-> g[i]]
    BY DEF RandomGenomes
  <2>2. \A i \in DOMAIN slots : g[i] \in RandomGenes(i)
    BY DEF RandomGenomes
  <2>3. \A i \in DOMAIN slots : g[i] \in Genes /\ WellFormed(g[i], i)
    BY <2>2, RandomGenesFit
  <2> QED BY <2>1, <2>3
<1>5. /\ Len(pop') = c /\ pop' \in Seq(1 .. c)
      /\ Range(pop') = Range(pop) \cup {c}
  <2>1. pop \in Seq(1 .. c)
    BY <1>3
  <2>2. /\ Len(pop') = c /\ DOMAIN pop' = 1 .. c /\ pop'[c] = c
        /\ \A k \in 1 .. Len(pop) : pop'[k] = pop[k]
    BY <1>1, <1>3, <2>1
  <2>3. pop' \in Seq(1 .. c)
    BY <1>1, <1>3, <2>1
  <2>4. \A k \in 1 .. c : k = c \/ k \in 1 .. Len(pop)
    BY <1>3
  <2>5. DOMAIN pop = 1 .. Len(pop) /\ 1 .. Len(pop) \subseteq 1 .. c /\ c \in 1 .. c
    BY <1>3
  <2> HIDE DEF c
  <2>6. Range(pop') = Range(pop) \cup {c}
    BY <2>2, <2>4, <2>5 DEF Range
  <2> QED BY <2>2, <2>3, <2>6
<1>6. /\ gene'[c] = g /\ genes'[c] = [i \in DOMAIN slots |-> c]
      /\ fitness'[c] = Fitness(g, slots)
      /\ \A k \in 1 .. Len(pop) : /\ gene'[k] = gene[k] /\ genes'[k] = genes[k]
                                  /\ fitness'[k] = fitness[k]
      /\ gene'[0] = gene[0]
  <2>1. DOMAIN gene = 0 .. read.size /\ DOMAIN genes = Chromosomes /\ DOMAIN fitness = Chromosomes
    BY DEF TypeOK
  <2>2. c \in 0 .. read.size /\ c /= 0 /\ \A k \in 1 .. Len(pop) : k /= c
    BY <1>3 DEF Chromosomes
  <2>3. 0 \in 0 .. read.size /\ \A k \in 1 .. Len(pop) : k \in 0 .. read.size /\ k \in Chromosomes
    BY <1>2, <1>3 DEF Chromosomes
  <2> HIDE DEF c
  <2> QED BY <1>1, <1>3, <2>1, <2>2, <2>3
<1>7. UNCHANGED <<read, slots, pool, available, best>>
  BY <1>2 DEF made
<1>8. TypeOK'
  <2>1. pop' \in Seq(Chromosomes) /\ Len(pop') <= read.size
    BY <1>2, <1>3, <1>5 DEF Chromosomes
  <2>2. gene'[c] \in [DOMAIN slots -> Genes] /\ genes'[c] \in [DOMAIN slots -> Chromosomes]
    BY <1>3, <1>4, <1>6
  <2>3. DOMAIN gene' = 0 .. read.size
        /\ \A k \in DOMAIN gene' : gene'[k] \in {<<>>} \cup [DOMAIN slots -> Genes]
    BY <1>1, <1>4 DEF TypeOK
  <2>4. DOMAIN genes' = Chromosomes
        /\ \A k \in Chromosomes : genes'[k] \in {<<>>} \cup [DOMAIN slots -> Chromosomes]
    BY <1>1, <1>3 DEF TypeOK
  <2>5. DOMAIN fitness' = Chromosomes /\ pc' \in PCs
    BY <1>1, <1>2 DEF TypeOK, PCs
  <2> QED BY <1>2, <1>7, <2>1, <2>3, <2>4, <2>5 DEF TypeOK, Chromosomes
<1>9. MadeGenes'
  <2>1. \A k \in 1 .. c : k = c \/ k \in 1 .. Len(pop)
    BY <1>3
  <2>2. \A k \in 1 .. c : genes'[k] \in [DOMAIN slots -> 1 .. c]
    BY <1>3, <1>6, <2>1 DEF MadeGenes
  <2>3. \A k \in 1 .. c : gene'[k] \in [DOMAIN slots -> Genes]
                          /\ \A i \in DOMAIN slots : WellFormed(gene'[k][i], i)
    BY <1>4, <1>6, <2>1 DEF MadeGenes
  <2> HIDE DEF c
  <2> QED BY <1>5, <1>7, <2>2, <2>3 DEF MadeGenes, WellFormed, PrincipalCandidates, SubmittedOnce, Genes
<1>10. Kept'
  BY <1>6, <1>7 DEF Kept, WellFormed, PrincipalCandidates, SubmittedOnce, Genes
<1>11. Measured'
  <2> SUFFICES ASSUME NEW d \in Range(pop') PROVE fitness'[d] = Fitness(Genome(d)', slots')
    BY DEF Measured
  <2>1. CASE d = c
    <3>1. Genome(d)' = g
      BY <1>4, <1>6, <1>7, <2>1 DEF Genome
    <3> QED BY <1>6, <1>7, <2>1, <3>1
  <2>2. CASE d \in Range(pop)
    <3>1. d \in 1 .. Len(pop)
      BY <1>3, <2>2 DEF Range
    <3>2. \A i \in DOMAIN slots : genes[d][i] \in 1 .. Len(pop)
      BY <3>1 DEF MadeGenes
    <3>3. Genome(d)' = Genome(d)
      BY <1>6, <1>7, <3>1, <3>2 DEF Genome
    <3> QED BY <1>2, <1>6, <1>7, <2>2, <3>1, <3>3 DEF Measured
  <2> QED BY <1>5, <2>1, <2>2
<1>12. Places'
  BY <1>1, <1>2, <1>5, <1>7 DEF Places, Filled, Ended
<1> QED BY <1>8, <1>9, <1>10, <1>11, <1>12

(* The population is put in order, and the best one ever, when there is a    *)
(* better one, becomes a deep copy with the fitness it was measured with.    *)
LEMMA ExamineKeeps == IInv /\ Examine => IInv'
<1> SUFFICES ASSUME IInv, Examine PROVE IInv'
  OBVIOUS
<1> USE DEF IInv
<1>1. PICK k \in DOMAIN pop : KeepBest(pop[k])
  BY DEF Examine
<1>2. PICK order \in Injection(DOMAIN pop, DOMAIN pop) :
        pop' = [l \in DOMAIN pop |-> pop[order[l]]]
  BY DEF Examine
<1>3. /\ pc = "examining" /\ bred' = {}
      /\ UNCHANGED <<read, slots, pool, available, genes, fitness, parents, at, generation>>
  BY DEF Examine, made
<1>4. \/ pc' = "panicked" /\ UNCHANGED newPop
      \/ pc' = "breeding" /\ newPop' = SubSeq(pop', 1, read.elites) /\ ~(read.elites > read.size)
  BY DEF Examine
<1>5. /\ Len(pop) = read.size /\ read.size \in Nat \ {0} /\ read.elites \in Nat \ {0}
      /\ pop \in Seq(1 .. Len(pop)) /\ DOMAIN pop = 1 .. Len(pop)
  BY <1>3, InputFacts DEF Places, Filled, Ended, MadeGenes
<1>6. pop' \in Seq(1 .. Len(pop)) /\ Len(pop') = Len(pop)
  <2>1. \A l \in DOMAIN pop : order[l] \in DOMAIN pop
    BY <1>2 DEF Injection
  <2>2. \A l \in 1 .. read.size : pop[order[l]] \in 1 .. read.size
    BY <1>5, <2>1
  <2>3. pop' = [l \in 1 .. read.size |-> pop[order[l]]]
    BY <1>2, <1>5
  <2>4. pop' \in Seq(1 .. read.size) /\ Len(pop') = read.size
    <3>1. pop' \in [1 .. read.size -> 1 .. read.size]
      BY <2>2, <2>3
    <3>2. \A n \in Nat : \A f \in [1 .. n -> 1 .. n] : f \in Seq(1 .. n) /\ Len(f) = n
      OBVIOUS
    <3> QED BY <1>5, <3>1, <3>2
  <2> QED BY <1>5, <2>4
<1>7. newPop' \in Seq(Chromosomes) /\ Len(newPop') <= read.size
  <2>1. CASE UNCHANGED newPop
    BY <2>1 DEF TypeOK
  <2>2. CASE newPop' = SubSeq(pop', 1, read.elites) /\ ~(read.elites > read.size)
    <3>1. pop' \in Seq(Chromosomes) /\ Len(pop') = read.size
      BY <1>5, <1>6 DEF Chromosomes
    <3>2. read.elites \in 1 .. Len(pop') /\ 1 \in 1 .. Len(pop')
      BY <1>5, <2>2, <3>1
    <3>3. newPop' \in Seq(Chromosomes) /\ Len(newPop') = read.elites
      <4>1. \A i \in 1 .. read.elites : pop'[i] \in Chromosomes
        BY <1>5, <3>1, <3>2
      <4> QED BY <1>5, <2>2, <4>1, SubSeqProperties
    <3> QED BY <1>5, <2>2, <3>3
  <2> QED BY <1>4, <2>1, <2>2
<1>8. /\ gene' \in {gene, [gene EXCEPT ![0] = Genome(pop[k])]}
      /\ Genome(pop[k]) \in [DOMAIN slots -> Genes]
      /\ \A i \in DOMAIN slots : WellFormed(Genome(pop[k])[i], i)
  <2>1. pop[k] \in 1 .. Len(pop)
    BY <1>5
  <2> QED BY <1>1, <2>1, GenomeFits DEF KeepBest
<1>9. DOMAIN gene = 0 .. read.size /\ DOMAIN gene' = 0 .. read.size
      /\ \A l \in 1 .. Len(pop) : gene'[l] = gene[l]
  <2>1. DOMAIN gene = 0 .. read.size
    BY DEF TypeOK
  <2> QED BY <1>5, <1>8, <2>1
<1>10. TypeOK'
  <2>1. pop' \in Seq(Chromosomes) /\ Len(pop') <= read.size
    BY <1>5, <1>6 DEF Chromosomes
  <2>2. \A l \in DOMAIN gene' : gene'[l] \in {<<>>} \cup [DOMAIN slots -> Genes]
    BY <1>8, <1>9 DEF TypeOK
  <2>3. best'.genes \in {<<>>, [i \in DOMAIN slots |-> 0]}
    BY <1>1 DEF KeepBest, TypeOK
  <2>4. pc' \in PCs
    BY <1>4 DEF PCs, Ended
  <2> QED BY <1>3, <1>7, <1>9, <2>1, <2>2, <2>3, <2>4 DEF TypeOK, Chromosomes, Genes
<1>11. MadeGenes'
  BY <1>3, <1>6, <1>9 DEF MadeGenes, WellFormed, PrincipalCandidates, SubmittedOnce, Genes
<1>12. Kept'
  <2>1. CASE UNCHANGED <<best, gene>>
    BY <1>3, <2>1 DEF Kept, WellFormed, PrincipalCandidates, SubmittedOnce, Genes
  <2>2. CASE /\ best' = [fitness |-> fitness[pop[k]], genes |-> [i \in DOMAIN slots |-> 0]]
             /\ gene' = [gene EXCEPT ![0] = Genome(pop[k])]
    <3>1. gene'[0] = Genome(pop[k])
      BY <1>5, <1>9, <2>2
    <3>2. pop[k] \in Range(pop)
      BY DEF Range
    <3>3. best'.fitness = Fitness(gene'[0], slots)
      BY <1>3, <2>2, <3>1, <3>2 DEF Measured
    <3> QED BY <1>3, <1>8, <3>1, <3>3 DEF Kept, WellFormed, PrincipalCandidates, SubmittedOnce, Genes
  <2> QED BY <1>1, <2>1, <2>2 DEF KeepBest
<1>13. Places' /\ Measured'
  BY <1>3, <1>4, <1>5, <1>6 DEF Places, Measured, Filled, Ended
<1> QED BY <1>10, <1>11, <1>12, <1>13

(* The parents are members of the population, and crossing them exchanges    *)
(* references to genes of the same slots.                                    *)
LEMMA BreedKeeps == IInv /\ Breed => IInv'
<1> SUFFICES ASSUME IInv, Breed PROVE IInv'
  OBVIOUS
<1> USE DEF IInv
<1>1. PICK p \in Selected, q \in Selected :
        /\ parents' = <<p, q>>
        /\ bred' = bred \cup {p, q}
        /\ \/ UNCHANGED genes
           \/ \E point \in DOMAIN slots : genes' = Crossed(p, q, point)
  BY DEF Breed
<1>2. /\ pc = "breeding" /\ pc' = "mutating" /\ Len(newPop) < read.size
      /\ at' = IF slots = <<>> THEN <<3, 1, 0>> ELSE <<1, 1, 0>>
      /\ UNCHANGED <<read, slots, pool, available, gene, fitness, pop, newPop, best, generation>>
  BY DEF Breed, made
<1>3. /\ Len(pop) = read.size /\ read.size \in Nat \ {0}
      /\ pop \in Seq(1 .. Len(pop)) /\ DOMAIN pop = 1 .. Len(pop)
  BY <1>2, InputFacts DEF Places, Filled, Ended, MadeGenes
<1>4. p \in 1 .. Len(pop) /\ q \in 1 .. Len(pop)
  <2>1. Last(pop) \in 1 .. Len(pop)
    BY <1>3 DEF Last
  <2>2. Selected \subseteq {Last(pop)} \cup {pop[k] : k \in DOMAIN pop}
    BY DEF Selected
  <2> QED BY <1>3, <2>1, <2>2
<1>5. p \in Chromosomes /\ q \in Chromosomes /\ Chromosomes = 1 .. Len(pop)
  BY <1>3, <1>4 DEF Chromosomes
<1>6. /\ DOMAIN genes' = Chromosomes
      /\ \A c \in Chromosomes : genes'[c] \in [DOMAIN slots -> Chromosomes]
  <2>1. /\ DOMAIN genes = Chromosomes
        /\ \A c \in Chromosomes : genes[c] \in [DOMAIN slots -> Chromosomes]
    BY <1>5 DEF TypeOK, MadeGenes
  <2>2. CASE UNCHANGED genes
    BY <2>1, <2>2
  <2>3. ASSUME NEW point \in DOMAIN slots, genes' = Crossed(p, q, point)
        PROVE  /\ DOMAIN genes' = Chromosomes
               /\ \A c \in Chromosomes : genes'[c] \in [DOMAIN slots -> Chromosomes]
    <3> DEFINE first == [i \in DOMAIN slots |-> IF i < point THEN genes[p][i] ELSE genes[q][i]]
               second == [i \in DOMAIN slots |-> IF i < point THEN genes[q][i] ELSE genes[p][i]]
    <3>1. first \in [DOMAIN slots -> Chromosomes] /\ second \in [DOMAIN slots -> Chromosomes]
      BY <1>5, <2>1
    <3>2. genes' = [genes EXCEPT ![p] = first, ![q] = second]
      BY <2>3 DEF Crossed
    <3> HIDE DEF first, second
    <3> QED BY <1>5, <2>1, <3>1, <3>2
  <2> QED BY <1>1, <2>2, <2>3
<1>7. TypeOK'
  <2>1. at' \in (1 .. 3) \X Nat \X Nat
    BY <1>2
  <2>2. parents' \in Chromosomes \X Chromosomes /\ bred' \in SUBSET Chromosomes
    BY <1>1, <1>5 DEF TypeOK
  <2> QED BY <1>2, <1>6, <2>1, <2>2 DEF TypeOK, PCs, Ended, Chromosomes, Genes
<1>8. MadeGenes' /\ Kept'
  BY <1>2, <1>5, <1>6 DEF MadeGenes, Kept, WellFormed, PrincipalCandidates, SubmittedOnce, Genes
<1>9. Places'
  <2>1. at' \in (1 .. 3) \X Nat \X Nat /\ parents' \in Chromosomes \X Chromosomes
    BY <1>1, <1>2, <1>5
  <2>2. ASSUME slots /= <<>>
        PROVE  at'[2] \in DOMAIN slots /\ at'[3] <= Len(Current'.assistants)
    <3>1. at' = <<1, 1, 0>> /\ parents' = <<p, q>>
      BY <1>1, <1>2, <2>2
    <3>2. 1 \in DOMAIN slots
      <4>1. slots \in Seq(SlotRows)
        BY DEF TypeOK
      <4> QED BY <2>2, <4>1
    <3>3. genes'[p][1] \in 1 .. Len(pop)
      BY <1>5, <1>6, <3>2
    <3>4. Current' = gene[genes'[p][1]][1]
      BY <1>2, <3>1 DEF Current, Chosen
    <3>5. Current' \in Genes
      BY <3>2, <3>3, <3>4 DEF MadeGenes
    <3>6. Len(Current'.assistants) \in Nat
      BY <3>5 DEF Genes
    <3> QED BY <3>1, <3>2, <3>6
  <2>3. slots = <<>> => at'[1] = 3
    BY <1>2
  <2> QED BY <1>2, <1>3, <2>1, <2>2, <2>3 DEF Places, Filled, Ended, Chromosomes
<1>10. Measured'
  BY <1>2 DEF Measured
<1> QED BY <1>7, <1>8, <1>9, <1>10

(* The gene that mutate is at.                                              *)
LEMMA Considered ==
    ASSUME IInv, Mutating
    PROVE  /\ Len(pop) = read.size /\ read.size \in Nat \ {0}
           /\ at[1] \in 1 .. 2 /\ at[2] \in DOMAIN slots /\ at[3] \in Nat
           /\ at = <<at[1], at[2], at[3]>>
           /\ parents \in Chromosomes \X Chromosomes
           /\ Chosen \in 1 .. Len(pop)
           /\ Current \in Genes /\ WellFormed(Current, at[2])
           /\ Len(Current.assistants) \in Nat /\ at[3] <= Len(Current.assistants)
           /\ DOMAIN slots = 1 .. Len(slots) /\ Len(slots) \in Nat
<1> USE DEF IInv
<1>1. /\ Len(pop) = read.size /\ read.size \in Nat \ {0}
      /\ parents \in Chromosomes \X Chromosomes
      /\ at \in (1 .. 3) \X Nat \X Nat
      /\ at[2] \in DOMAIN slots /\ at[3] <= Len(Current.assistants)
  BY InputFacts DEF Places, Filled, Ended, Mutating
<1>2. at[1] \in 1 .. 2 /\ at[3] \in Nat /\ at = <<at[1], at[2], at[3]>>
  BY <1>1 DEF Mutating
<1>3. Chosen \in 1 .. Len(pop)
  <2>1. parents[at[1]] \in 1 .. Len(pop)
    BY <1>1, <1>2 DEF Chromosomes
  <2> QED BY <1>1, <2>1 DEF Chosen, MadeGenes
<1>4. Current \in Genes /\ WellFormed(Current, at[2])
  BY <1>1, <1>3 DEF Current, MadeGenes
<1>5. Len(Current.assistants) \in Nat
  BY <1>4 DEF Genes
<1>6. DOMAIN slots = 1 .. Len(slots) /\ Len(slots) \in Nat
  BY DEF TypeOK
<1> QED BY <1>1, <1>2, <1>3, <1>4, <1>5, <1>6

(* Where mutate goes on: to another gene, or to an assistant of this one.    *)
LEMMA NextPlace ==
    ASSUME IInv, Mutating
    PROVE  /\ NextGene \in (1 .. 3) \X Nat \X Nat
           /\ NextGene[2] \in DOMAIN slots /\ NextGene[3] = 0
           /\ \/ NextSeat = NextGene
              \/ /\ NextSeat = <<at[1], at[2], at[3] + 1>>
                 /\ at[3] + 1 <= Len(Current.assistants)
<1>1. NextGene \in {<<at[1], at[2] + 1, 0>>, <<at[1] + 1, 1, 0>>}
      /\ (at[2] < Len(slots) \/ NextGene = <<at[1] + 1, 1, 0>>)
  BY DEF NextGene
<1>2. NextGene \in (1 .. 3) \X Nat \X Nat /\ NextGene[3] = 0
  BY <1>1, Considered
<1>3. NextGene[2] \in DOMAIN slots
  BY <1>1, Considered
<1>4. \/ NextSeat = NextGene
      \/ /\ NextSeat = <<at[1], at[2], at[3] + 1>>
         /\ at[3] + 1 <= Len(Current.assistants)
  BY Considered DEF NextSeat
<1> QED BY <1>2, <1>3, <1>4

(* A gene is left alone or replaced, in its place, by a well-formed one with *)
(* as many assistants: whoever else refers to it sees a well-formed gene.    *)
LEMMA MutatingKeeps ==
    ASSUME IInv, Mutating, UNCHANGED Rest, at' \in {NextGene, NextSeat},
           NEW h \in Genes, WellFormed(h, at[2]),
           Len(h.assistants) = Len(Current.assistants),
           UNCHANGED gene \/ gene' = [gene EXCEPT ![Chosen][at[2]] = h]
    PROVE  IInv'
<1>1. /\ pc = "mutating" /\ pc' = "mutating"
      /\ UNCHANGED <<read, slots, pool, available, genes, fitness, pop, newPop, parents, best,
                     generation, bred>>
  BY DEF Mutating, Rest, made
<1>2. /\ DOMAIN gene' = DOMAIN gene /\ DOMAIN gene = 0 .. read.size
      /\ \A k \in DOMAIN gene : k /= Chosen => gene'[k] = gene[k]
  BY DEF IInv, TypeOK
<1>3. \A k \in 1 .. Len(pop) : k \in DOMAIN gene /\ k /= 0
  BY <1>2, Considered
<1>4. \A k \in 1 .. Len(pop) : /\ gene'[k] \in [DOMAIN slots -> Genes]
                               /\ \A i \in DOMAIN slots : WellFormed(gene'[k][i], i)
  <2> SUFFICES ASSUME NEW k \in 1 .. Len(pop)
               PROVE  /\ gene'[k] \in [DOMAIN slots -> Genes]
                      /\ \A i \in DOMAIN slots : WellFormed(gene'[k][i], i)
    OBVIOUS
  <2>1. gene[k] \in [DOMAIN slots -> Genes] /\ \A i \in DOMAIN slots : WellFormed(gene[k][i], i)
    BY DEF IInv, MadeGenes
  <2>2. gene'[k] \in {gene[k], [gene[k] EXCEPT ![at[2]] = h]}
    BY <1>2, <1>3
  <2> QED BY <2>1, <2>2, Considered
<1>5. gene'[0] = gene[0]
  <2>1. 0 \in DOMAIN gene
    BY <1>2, Considered
  <2>2. Chosen /= 0
    BY <1>3, Considered
  <2> QED BY <1>2, <2>1, <2>2
<1>6. /\ \A k \in DOMAIN gene' : gene'[k] \in {<<>>} \cup [DOMAIN slots -> Genes]
  BY <1>2, <1>3, <1>4, Considered DEF IInv, TypeOK
<1>7. at' \in (1 .. 3) \X Nat \X Nat
  BY Considered, NextPlace
<1>8. TypeOK'
  BY <1>1, <1>2, <1>6, <1>7 DEF IInv, TypeOK, PCs, Chromosomes, Genes
<1>9. MadeGenes'
  BY <1>1, <1>4 DEF IInv, MadeGenes, WellFormed, PrincipalCandidates, SubmittedOnce, Genes
<1>10. Kept'
  BY <1>1, <1>5 DEF IInv, Kept, WellFormed, PrincipalCandidates, SubmittedOnce, Genes
<1>11. at'[1] <= 2 => at'[2] \in DOMAIN slots /\ at'[3] <= Len(Current'.assistants)
  <2>1. Current' = gene'[Chosen'][at'[2]] /\ Chosen' = genes[parents[at'[1]]][at'[2]]
    BY <1>1 DEF Current, Chosen
  <2>2. CASE at' = NextGene
    <3> SUFFICES ASSUME at'[1] <= 2
                 PROVE  at'[2] \in DOMAIN slots /\ at'[3] <= Len(Current'.assistants)
      OBVIOUS
    <3>1. at'[1] \in 1 .. 2 /\ at'[2] \in DOMAIN slots /\ at'[3] = 0
      BY <1>7, <2>2, NextPlace
    <3>2. parents[at'[1]] \in 1 .. Len(pop)
      BY <3>1, Considered DEF Chromosomes
    <3>3. Chosen' \in 1 .. Len(pop)
      BY <2>1, <3>1, <3>2 DEF IInv, MadeGenes
    <3>4. Current' \in Genes
      BY <1>4, <2>1, <3>1, <3>3
    <3> QED BY <3>1, <3>4 DEF Genes
  <2>3. CASE at' = <<at[1], at[2], at[3] + 1>> /\ at[3] + 1 <= Len(Current.assistants)
    <3>1. at'[1] = at[1] /\ at'[2] = at[2] /\ at'[3] = at[3] + 1
      BY <2>3
    <3>2. Chosen' = Chosen
      BY <2>1, <3>1 DEF Chosen
    <3>3. Current' = gene'[Chosen][at[2]]
      BY <2>1, <3>1, <3>2
    <3>4. gene[Chosen] \in [DOMAIN slots -> Genes] /\ Chosen \in DOMAIN gene
      BY <1>3, Considered DEF IInv, MadeGenes
    <3>5. Current' \in {Current, h}
      BY <3>3, <3>4, Considered DEF Current
    <3> QED BY <2>3, <3>1, <3>5, Considered
  <2> QED BY <2>2, <2>3, NextPlace
<1>12. Places' /\ Measured'
  BY <1>1, <1>7, <1>11 DEF IInv, Places, Measured, Filled, Ended, Chromosomes
<1> QED BY <1>8, <1>9, <1>10, <1>12 DEF IInv

LEMMA SkipGeneKeeps == IInv /\ SkipGene => IInv'
BY Considered, MutatingKeeps DEF SkipGene

LEMMA KeepAssistantKeeps == IInv /\ KeepAssistant => IInv'
BY Considered, MutatingKeeps DEF KeepAssistant

LEMMA MutatePrincipalKeeps == IInv /\ MutatePrincipal => IInv'
<1> SUFFICES ASSUME IInv, MutatePrincipal PROVE IInv'
  OBVIOUS
<1>1. Mutating /\ UNCHANGED Rest /\ at' = NextSeat
  BY DEF MutatePrincipal
<1>2. CASE UNCHANGED gene
  BY <1>1, <1>2, Considered, MutatingKeeps
<1>3. ASSUME NEW u \in PrincipalCandidates(at[2]) \ Staff(Current),
             gene' = [gene EXCEPT ![Chosen][at[2]].principal = u]
      PROVE  IInv'
  <2> DEFINE h == [Current EXCEPT !.principal = u]
  <2>1. h \in Genes /\ WellFormed(h, at[2])
    BY <1>1, Considered, NewPrincipalFits DEF IInv
  <2>2. Len(h.assistants) = Len(Current.assistants)
    BY <1>1, Considered DEF Genes
  <2>3. gene' = [gene EXCEPT ![Chosen][at[2]] = h]
    BY <1>3 DEF Current
  <2> QED BY <1>1, <2>1, <2>2, <2>3, MutatingKeeps
<1> QED BY <1>2, <1>3 DEF MutatePrincipal

LEMMA MutateAssistantKeeps == IInv /\ MutateAssistant => IInv'
<1> SUFFICES ASSUME IInv, MutateAssistant PROVE IInv'
  OBVIOUS
<1>1. Mutating /\ UNCHANGED Rest /\ at' = NextSeat /\ at[3] > 0
  BY DEF MutateAssistant
<1>2. PICK u \in AssistantCandidates(at[2], Current) :
        gene' = [gene EXCEPT ![Chosen][at[2]].assistants[at[3]] = u]
  BY DEF MutateAssistant
<1> DEFINE h == [Current EXCEPT !.assistants[at[3]] = u]
<1>3. at[3] \in 1 .. Len(Current.assistants)
  BY <1>1, Considered
<1>4. h \in Genes /\ WellFormed(h, at[2])
  BY <1>1, <1>3, Considered, NewAssistantFits DEF IInv
<1>5. Len(h.assistants) = Len(Current.assistants)
  BY <1>1, <1>3, Considered DEF Genes
<1>6. gene' = [gene EXCEPT ![Chosen][at[2]] = h]
  BY <1>2 DEF Current
<1> QED BY <1>1, <1>4, <1>5, <1>6, MutatingKeeps

(* The parents fill places of the next population.                          *)
LEMMA EnlistKeeps == IInv /\ Enlist => IInv'
<1> SUFFICES ASSUME IInv, Enlist PROVE IInv'
  OBVIOUS
<1> USE DEF IInv
<1>1. /\ pc = "mutating" /\ pc' = "breeding"
      /\ UNCHANGED <<read, slots, pool, available, gene, genes, fitness, pop, parents, at, best,
                     generation, bred>>
  BY DEF Enlist, made
<1>2. /\ Len(newPop) < read.size /\ newPop \in Seq(Chromosomes) /\ read.size \in Nat \ {0}
      /\ parents \in Chromosomes \X Chromosomes /\ Len(pop) = read.size
  BY <1>1, InputFacts DEF Places, TypeOK, Filled, Ended
<1>3. newPop' \in Seq(Chromosomes) /\ Len(newPop') <= read.size
  <2>1. parents \in Seq(Chromosomes) /\ Len(parents) = 2 /\ parents[1] \in Chromosomes
    <3>1. PICK p \in Chromosomes, q \in Chromosomes : parents = <<p, q>>
      BY <1>2
    <3> HIDE DEF Chromosomes
    <3> QED BY <3>1
  <2>2. CASE Len(newPop) + 1 < read.size
    <3>1. newPop' = newPop \o parents
      BY <2>2 DEF Enlist
    <3>2. newPop' \in Seq(Chromosomes) /\ Len(newPop') = Len(newPop) + 2
      <4>1. /\ newPop \o parents \in Seq(Chromosomes)
            /\ Len(newPop \o parents) = Len(newPop) + Len(parents)
        BY <1>2, <2>1, ConcatProperties, Zenon
      <4> QED BY <2>1, <3>1, <4>1
    <3> QED BY <1>2, <2>2, <3>2
  <2>3. CASE ~(Len(newPop) + 1 < read.size)
    <3>1. newPop' = Append(newPop, parents[1])
      BY <2>3 DEF Enlist
    <3> QED BY <1>2, <2>1, <3>1
  <2> QED BY <2>2, <2>3
<1>4. TypeOK'
  BY <1>1, <1>3 DEF TypeOK, PCs, Chromosomes, Genes
<1>5. MadeGenes' /\ Kept'
  BY <1>1 DEF MadeGenes, Kept, WellFormed, PrincipalCandidates, SubmittedOnce, Genes
<1>6. Places' /\ Measured'
  BY <1>1, <1>2 DEF Places, Measured, Filled, Ended
<1> QED BY <1>4, <1>5, <1>6

(* The next population is as large, and is measured anew.                    *)
LEMMA EndGenerationKeeps == IInv /\ EndGeneration => IInv'
<1> SUFFICES ASSUME IInv, EndGeneration PROVE IInv'
  OBVIOUS
<1> USE DEF IInv
<1>1. /\ pc = "breeding" /\ pc' = IF generation' < read.generations THEN "examining" ELSE "finishing"
      /\ pop' = newPop /\ newPop' = <<>> /\ parents' = <<>> /\ at' = <<>>
      /\ generation' = generation + 1 /\ Len(newPop) >= read.size
      /\ UNCHANGED <<read, slots, pool, available, gene, genes, best, bred>>
  BY DEF EndGeneration, made
<1>2. fitness' = [c \in DOMAIN fitness |->
                    IF c \in Range(newPop) THEN Fitness(Genome(c), slots) ELSE fitness[c]]
  BY DEF EndGeneration
<1>3. /\ newPop \in Seq(Chromosomes) /\ Len(newPop) = read.size /\ Len(pop) = read.size
      /\ read.size \in Nat \ {0} /\ DOMAIN fitness = Chromosomes
  BY <1>1, InputFacts DEF TypeOK, Places, Filled, Ended
<1>4. Range(newPop) \subseteq Chromosomes
  BY <1>3 DEF Range
<1>5. generation' \in Nat /\ generation' <= read.generations
  <2>1. generation < read.generations /\ generation \in Nat /\ read.generations \in Nat
    BY <1>1, InputFacts DEF Places, TypeOK, Ended
  <2> QED BY <1>1, <2>1
<1>6. pc' \in {"examining", "finishing"}
  BY <1>1
<1>7. TypeOK'
  BY <1>1, <1>2, <1>3, <1>5, <1>6 DEF TypeOK, PCs, Chromosomes, Genes
<1>8. MadeGenes' /\ Kept'
  BY <1>1, <1>3 DEF MadeGenes, Kept, Chromosomes, WellFormed, PrincipalCandidates, SubmittedOnce, Genes
<1>9. Measured'
  <2> SUFFICES ASSUME NEW c \in Range(pop') PROVE fitness'[c] = Fitness(Genome(c)', slots')
    BY DEF Measured
  <2>1. c \in Range(newPop) /\ c \in Chromosomes
    BY <1>1, <1>4
  <2>2. Genome(c)' = Genome(c)
    BY <1>1 DEF Genome
  <2> QED BY <1>1, <1>2, <1>3, <2>1, <2>2
<1>10. Places'
  BY <1>1, <1>3, <1>6 DEF Places, Filled, Ended
<1> QED BY <1>7, <1>8, <1>9, <1>10

LEMMA StutterKeeps == IInv /\ UNCHANGED vars => IInv'
<1> SUFFICES ASSUME IInv, UNCHANGED vars PROVE IInv'
  OBVIOUS
<1> USE DEF vars, made
<1>1. TypeOK'
  BY DEF IInv, TypeOK, Chromosomes, Genes
<1>2. MadeGenes' /\ Kept'
  BY DEF IInv, MadeGenes, Kept, WellFormed, PrincipalCandidates, SubmittedOnce, Genes
<1>3. Places'
  BY DEF IInv, Places, Filled, Ended, Current, Chosen, Chromosomes
<1>4. Measured'
  BY DEF IInv, Measured, Genome
<1> QED BY <1>1, <1>2, <1>3, <1>4 DEF IInv

-----------------------------------------------------------------------------
(* The invariant holds in every state of every call.                        *)
THEOREM Invariance == Spec => []IInv
<1>1. Init => IInv
  BY InitIInv
<1>2. IInv /\ [Next]_vars => IInv'
  BY NewKeeps, NewFailsKeeps, ListSlotsKeeps, PopulateKeeps, ExamineKeeps, BreedKeeps,
     BreedPanicsKeeps, SkipGeneKeeps, MutatePrincipalKeeps, KeepAssistantKeeps,
     MutateAssistantKeeps, EnlistKeeps, EndGenerationKeeps, FinishKeeps, StutterKeeps DEF Next
<1> QED BY <1>1, <1>2, PTL DEF Spec

(* The objects of a call have their types: the population never outgrows its *)
(* size, and a chromosome refers to genes of the population, one for each    *)
(* slot, whatever was crossed with what.                                     *)
THEOREM TypeCorrect == Spec => []TypeOK
<1>1. IInv => TypeOK
  BY DEF IInv
<1> QED BY <1>1, Invariance, PTL

(* Every gene of the population and of the best one ever is one that a       *)
(* roster can have, through any crossovers and mutations in place.           *)
THEOREM GenesStayWellFormed == Spec => []GenesWellFormed
<1>1. IInv => GenesWellFormed
  <2> SUFFICES ASSUME IInv PROVE GenesWellFormed
    OBVIOUS
  <2>1. \A c \in Range(pop) : \A i \in DOMAIN slots : WellFormed(Genome(c)[i], i)
    <3>1. Range(pop) \subseteq 1 .. Len(pop)
      BY DEF IInv, MadeGenes, Range
    <3> QED BY <3>1, GenomeFits DEF IInv
  <2>2. \A i \in DOMAIN best.genes : WellFormed(BestGenome[i], i)
    <3> SUFFICES ASSUME NEW i \in DOMAIN best.genes PROVE WellFormed(BestGenome[i], i)
      OBVIOUS
    <3>1. best.genes = [j \in DOMAIN slots |-> 0] /\ best.genes /= <<>>
      BY DEF IInv, TypeOK
    <3> QED BY <3>1 DEF IInv, Kept, BestGenome
  <2> QED BY <2>1, <2>2 DEF GenesWellFormed
<1> QED BY <1>1, Invariance, PTL

(* The best one ever has the fitness it was chosen for, although the         *)
(* chromosome it was copied from is crossed and mutated in place.            *)
THEOREM BestStaysMeasured == Spec => []BestIsWhatWasMeasured
<1>1. IInv => BestIsWhatWasMeasured
  <2> SUFFICES ASSUME IInv, best.genes /= <<>>
               PROVE  best.fitness = Fitness(BestGenome, slots)
    BY DEF BestIsWhatWasMeasured
  <2>1. best.genes = [j \in DOMAIN slots |-> 0]
    BY DEF IInv, TypeOK
  <2>2. gene[0] \in [DOMAIN slots -> Genes] /\ best.fitness = Fitness(gene[0], slots)
    BY <2>1 DEF IInv, Kept
  <2>3. BestGenome = gene[0]
    BY <2>1, <2>2 DEF BestGenome
  <2> QED BY <2>2, <2>3
<1> QED BY <1>1, Invariance, PTL
=============================================================================

------------------------------ MODULE Genetic ------------------------------
(***************************************************************************)
(* The generator of scheduling results, internal/scheduler, as one call of *)
(* GenerateSchedulingResult runs it: New and Schedule.                     *)
(*                                                                         *)
(* The program works on chromosomes by reference.  A population is a list  *)
(* of references in which one chromosome may occur several times; the      *)
(* genes of a chromosome are a list of references to Gene objects, which   *)
(* crossover exchanges and mutation writes to.  So there is a variable for *)
(* each kind of object.  gene[k][i] is the gene that was made for slot i   *)
(* with chromosome k, gene[0] are the copies that the best one ever owns,  *)
(* and genes[c][i] = k says that chromosome c has gene[k][i] at place i.   *)
(*                                                                         *)
(* Each random choice is a choice of the model, so the rates of crossover  *)
(* and mutation do not occur: both are positive.  A fitness is a whole     *)
(* number of 1 / Unit; Undefined stands for NaN, and for the fitness of    *)
(* the best one ever as long as there is none.                             *)
(*                                                                         *)
(* The shifts are those of Validation, with the applicable days as the     *)
(* list that they are: neither the request nor the table that stores them  *)
(* forbids an empty list or a day given twice.                             *)
(***************************************************************************)
EXTENDS Validation, FiniteSets, SequencesExt

CONSTANTS Users,
          Inputs,         \* what a call may have read, and its parameters
          FairnessWeight,
          Unit,           \* the denominator of a fitness
          Undefined

(***************************************************************************)
(* An input has the parameters size, generations and elites, the shifts of *)
(* the template, the submissions [user, form] of the plan as listed, and   *)
(* the users as read after them, with those who may be principals.  Three  *)
(* statements read it: a user may be gone by the third.                    *)
(***************************************************************************)
ShiftRows == [id : STRING, start : Nat, end : Nat, need : Nat \ {0}, days : Seq(1 .. 7)]

ASSUME InputsAssumption ==
    \A input \in Inputs :
      /\ {input.size, input.generations, input.elites} \subseteq Nat \ {0}
      /\ input.shifts \in Seq(ShiftRows)
      /\ \A j, k \in DOMAIN input.shifts : input.shifts[j].id = input.shifts[k].id => j = k
      /\ DOMAIN input.submissions = 1 .. Len(input.submissions)
      /\ \A k \in DOMAIN input.submissions : input.submissions[k].user \in Users
      /\ input.users \subseteq Users
      /\ input.seniors \subseteq input.users

ASSUME FitnessAssumption ==
    /\ {FairnessWeight, Unit} \subseteq Nat \ {0}
    /\ \A n \in 1 .. Cardinality(Users) : Unit % (n * n) = 0
    /\ Undefined \notin Int
    /\ NoPrincipal \notin Users

VARIABLES read,         \* the input
          pc,           \* the step of the call
          slots,        \* s.shifts: a gene has a slot, a day of a shift
          pool,         \* s.users: one for each submission
          available,    \* s.availableMap, by slot
          gene, genes,  \* the objects, see above
          fitness,      \* of each chromosome, when it was last calculated
          pop, newPop,  \* lists of chromosomes
          parents,      \* p1 and p2
          at,           \* the place in the loops: <<shift, day>> when the slots are
                        \* listed, <<parent, slot, assistant>> in mutate
          best,         \* bestChromosomeEver
          generation,
          bred          \* history: the chromosomes that were parents in this generation

made == <<read, slots, pool, available>>
vars == <<made, pc, gene, genes, fitness, pop, newPop, parents, at, best, generation, bred>>

Ended == {"done", "failed", "panicked"}
PCs == {"new", "listing", "populating", "examining", "breeding", "mutating", "finishing"} \cup Ended

Init == /\ read \in Inputs
        /\ pc = "new"
        /\ slots = <<>>
        /\ pool = <<>>
        /\ available = <<>>
        /\ gene = [k \in 0 .. read.size |-> <<>>]
        /\ genes = [c \in 1 .. read.size |-> <<>>]
        /\ fitness = [c \in 1 .. read.size |-> Undefined]
        /\ pop = <<>>
        /\ newPop = <<>>
        /\ parents = <<>>
        /\ at = <<>>
        /\ best = [fitness |-> Undefined, genes |-> <<>>]
        /\ generation = 0
        /\ bred = {}

-----------------------------------------------------------------------------
(* New.                                                                    *)

New ==
    /\ pc = "new"
    /\ \A k \in DOMAIN read.submissions : read.submissions[k].user \in read.users
    /\ pool' = [k \in DOMAIN read.submissions |-> read.submissions[k].user]
    /\ at' = <<1, 1>>
    /\ pc' = "listing"
    /\ UNCHANGED <<read, slots, available, gene, genes, fitness, pop, newPop, parents,
                   best, generation, bred>>

\* A submission of somebody who is not among the users.
NewFails ==
    /\ pc = "new"
    /\ \E k \in DOMAIN read.submissions : read.submissions[k].user \notin read.users
    /\ pc' = "failed"
    /\ UNCHANGED <<made, gene, genes, fitness, pop, newPop, parents, at, best, generation, bred>>

\* The loops over the shifts and their days, in which every chromosome gets its
\* genes: each day of each shift is a slot, for those who offered it.
ListSlots ==
    /\ pc = "listing"
    /\ IF at[1] > Len(read.shifts)
       THEN pc' = "populating" /\ at' = <<>> /\ UNCHANGED <<slots, available>>
       ELSE LET shift == read.shifts[at[1]]
            IN  IF at[2] > Len(shift.days)
                THEN at' = <<at[1] + 1, 1>> /\ UNCHANGED <<pc, slots, available>>
                ELSE LET day == shift.days[at[2]]
                     IN  /\ slots' = Append(slots, [shift |-> shift.id, day |-> day, need |-> shift.need,
                                                    hours |-> shift.end - shift.start])
                         /\ available' = Append(available,
                              {read.submissions[k].user : k \in
                                 {l \in DOMAIN read.submissions :
                                    <<shift.id, day>> \in Slots(read.submissions[l].form)}})
                         /\ at' = <<at[1], at[2] + 1>>
                         /\ UNCHANGED pc
    /\ UNCHANGED <<read, pool, gene, genes, fitness, pop, newPop, parents, best, generation, bred>>

-----------------------------------------------------------------------------
(* randomInitChromosome and calcFitness.                                   *)

PrincipalCandidates(i) == available[i] \cap read.seniors

\* The lists of assistants that a shuffle may put first.  A user who is twice
\* in the pool is drawn twice.
Draws(i, principal) ==
    LET candidates == {k \in DOMAIN pool : pool[k] \in available[i] \ {principal}}
        chosenNum == Min({slots[i].need - 1, Cardinality(candidates)})
    IN  {[j \in 1 .. chosenNum |-> pool[f[j]]] : f \in Injection(1 .. chosenNum, candidates)}

\* Mutant of RandomGenes: the place of the principal is given to an assistant.
RandomGenesOneMore(i) ==
    UNION {{[principal |-> p, assistants |-> a] : a \in
              {[j \in 1 .. slots[i].need |-> pool[f[j]]] :
                 f \in Injection(1 .. slots[i].need, {k \in DOMAIN pool : pool[k] \in available[i] \ {p}})}} :
             p \in IF PrincipalCandidates(i) = {} THEN {NoPrincipal} ELSE PrincipalCandidates(i)}

RandomGenes(i) ==
    UNION {{[principal |-> p, assistants |-> a] : a \in Draws(i, p)} :
             p \in IF PrincipalCandidates(i) = {} THEN {NoPrincipal} ELSE PrincipalCandidates(i)}

RandomGenomes ==
    {g \in [DOMAIN slots -> UNION {RandomGenes(i) : i \in DOMAIN slots}] :
       \A i \in DOMAIN slots : g[i] \in RandomGenes(i)}

\* The hours of u, who counts as often as a gene names them.
Work(u, genome, places) ==
    SumFunction([i \in DOMAIN genome |->
                   places[i].hours * ((IF genome[i].principal = u THEN 1 ELSE 0)
                                      + Cardinality({j \in DOMAIN genome[i].assistants :
                                                       genome[i].assistants[j] = u}))])

\* The penalties are taken over those who have a place at all.
Fitness(genome, places) ==
    LET working == UNION {Staff(genome[i]) : i \in DOMAIN genome}
        n == Cardinality(working)
        work == [u \in working |-> Work(u, genome, places)]
        notWorkPenalty == Cardinality({u \in working : work[u] = 0})
        squares == SumFunction([u \in working |-> work[u] * work[u]])
        total == SumFunction(work)
    IN  IF n = 0 THEN Undefined
        ELSE -(Unit * notWorkPenalty)
             - FairnessWeight * (Unit \div (n * n)) * (n * squares - total * total)

\* The genes of chromosome c.
Genome(c) == [i \in DOMAIN slots |-> gene[genes[c][i]][i]]

Populate ==
    /\ pc = "populating"
    /\ Len(pop) < read.size
    /\ LET c == Len(pop) + 1
       IN  \E g \in RandomGenomes :
             /\ gene' = [gene EXCEPT ![c] = g]
             /\ genes' = [genes EXCEPT ![c] = [i \in DOMAIN slots |-> c]]
             /\ fitness' = [fitness EXCEPT ![c] = Fitness(g, slots)]
             /\ pop' = Append(pop, c)
             /\ pc' = IF c = read.size THEN "examining" ELSE pc
    /\ UNCHANGED <<made, newPop, parents, at, best, generation, bred>>

-----------------------------------------------------------------------------
(* The head of a generation.                                               *)

\* Comparisons with NaN are false.
Fitter(a, b) == a /= Undefined /\ b /= Undefined /\ a > b

\* genBestIndex: the first of the fittest.
IsGenBest(k) ==
    \A j \in DOMAIN pop :
      /\ ~Fitter(fitness[pop[j]], fitness[pop[k]])
      /\ j < k => Fitter(fitness[pop[k]], fitness[pop[j]])

IsBestEver(f) == f /= Undefined /\ (best.fitness = Undefined \/ f > best.fitness)

\* Mutant of KeepBest: the references are copied, not the genes.
KeepBestShallow(c) ==
    IF IsBestEver(fitness[c])
    THEN /\ best' = [fitness |-> fitness[c], genes |-> genes[c]]
         /\ UNCHANGED gene
    ELSE UNCHANGED <<best, gene>>

\* The copy is deep: the best one ever has genes of its own.
KeepBest(c) ==
    IF IsBestEver(fitness[c])
    THEN /\ best' = [fitness |-> fitness[c], genes |-> [i \in DOMAIN slots |-> 0]]
         /\ gene' = [gene EXCEPT ![0] = Genome(c)]
    ELSE UNCHANGED <<best, gene>>

\* Mutant of Sorted: the order is turned round.
SortedUp(list) ==
    \A k \in 1 .. Len(list) - 1 : ~Fitter(fitness[list[k]], fitness[list[k + 1]])

Sorted(list) ==
    \A k \in 1 .. Len(list) - 1 : ~Fitter(fitness[list[k + 1]], fitness[list[k]])

\* sort.Slice is not stable: chromosomes of one fitness come in any order.
Examine ==
    /\ pc = "examining"
    /\ \E k \in DOMAIN pop : IsGenBest(k) /\ KeepBest(pop[k])
    /\ \E order \in Injection(DOMAIN pop, DOMAIN pop) :
         /\ pop' = [k \in DOMAIN pop |-> pop[order[k]]]
         /\ Sorted(pop')
    /\ IF read.elites > read.size      \* the slice ends beyond the population
       THEN pc' = "panicked" /\ UNCHANGED newPop
       ELSE pc' = "breeding" /\ newPop' = SubSeq(pop', 1, read.elites)
    /\ bred' = {}
    /\ UNCHANGED <<made, genes, fitness, parents, at, generation>>

-----------------------------------------------------------------------------
(* selectByRoulette and singlePointCrossover.                              *)

PartialFit(k) == FoldLeft(LAMBDA sum, c : sum + fitness[c], 0, SubSeq(pop, 1, k))
SumFit == PartialFit(Len(pop))

\* pick is in [0, 1) times a sum that is not positive.  It is only compared
\* with the partial sums, so these and 0 stand for all that it can be.
Picks == {p \in {PartialFit(k) : k \in 0 .. Len(pop)} : p > SumFit \/ SumFit = 0}

\* The roulette stops at k; or at none, then the last is taken.
StopsAt(k, pick) == PartialFit(k) >= pick /\ \A j \in 1 .. k - 1 : ~(PartialFit(j) >= pick)
StopsNowhere(pick) == \A k \in DOMAIN pop : ~(PartialFit(k) >= pick)

\* With a fitness that is NaN every comparison fails.
Selected ==
    IF \E k \in DOMAIN pop : fitness[pop[k]] = Undefined
    THEN {Last(pop)}
    ELSE {pop[k] : k \in {l \in DOMAIN pop : \E pick \in Picks : StopsAt(l, pick)}}
         \cup {c \in {Last(pop)} : \E pick \in Picks : StopsNowhere(pick)}

Crossed(p, q, point) ==
    [genes EXCEPT ![p] = [i \in DOMAIN slots |-> IF i < point THEN genes[p][i] ELSE genes[q][i]],
                  ![q] = [i \in DOMAIN slots |-> IF i < point THEN genes[q][i] ELSE genes[p][i]]]

\* Two parents, which may be one chromosome, and perhaps their crossover.
Breed ==
    /\ pc = "breeding"
    /\ Len(newPop) < read.size
    /\ \E p, q \in Selected :
         /\ parents' = <<p, q>>
         /\ bred' = bred \cup {p, q}
         /\ \/ UNCHANGED genes
            \/ \E point \in DOMAIN slots : genes' = Crossed(p, q, point)
    /\ at' = IF slots = <<>> THEN <<3, 1, 0>> ELSE <<1, 1, 0>>
    /\ pc' = "mutating"
    /\ UNCHANGED <<made, gene, fitness, pop, newPop, best, generation>>

\* rand.Intn(0), when there is no slot to cross at.
BreedPanics ==
    /\ pc = "breeding"
    /\ Len(newPop) < read.size
    /\ slots = <<>>
    /\ pc' = "panicked"
    /\ UNCHANGED <<made, gene, genes, fitness, pop, newPop, parents, at, best, generation, bred>>

-----------------------------------------------------------------------------
(* mutate, one choice at a time: <<k, i, 0>> is where gene i of parent k is *)
(* considered, <<k, i, j>> where its assistant j is.                       *)

Chosen == genes[parents[at[1]]][at[2]]
Current == gene[Chosen][at[2]]

NextGene == IF at[2] < Len(slots) THEN <<at[1], at[2] + 1, 0>> ELSE <<at[1] + 1, 1, 0>>
NextSeat == IF at[3] < Len(Current.assistants) THEN <<at[1], at[2], at[3] + 1>> ELSE NextGene

Mutating == pc = "mutating" /\ at[1] <= 2

\* The objects that mutate leaves alone.
Rest == <<made, pc, genes, fitness, pop, newPop, parents, best, generation, bred>>

SkipGene ==
    /\ Mutating
    /\ at[3] = 0
    /\ at' = NextGene
    /\ UNCHANGED <<gene, Rest>>

\* A new principal is one who is not on the slot yet.
MutatePrincipal ==
    /\ Mutating
    /\ at[3] = 0
    /\ LET candidates == PrincipalCandidates(at[2]) \ Staff(Current)
       IN  IF candidates = {} THEN UNCHANGED gene
           ELSE \E u \in candidates : gene' = [gene EXCEPT ![Chosen][at[2]].principal = u]
    /\ at' = NextSeat
    /\ UNCHANGED Rest

KeepAssistant ==
    /\ Mutating
    /\ at[3] > 0
    /\ at' = NextSeat
    /\ UNCHANGED <<gene, Rest>>

\* Mutant of AssistantCandidates: the principal is not left out.
AssistantCandidatesAll(i, g) == available[i] \ Range(g.assistants)

AssistantCandidates(i, g) == available[i] \ Staff(g)

MutateAssistant ==
    /\ Mutating
    /\ at[3] > 0
    /\ \E u \in AssistantCandidates(at[2], Current) :
         gene' = [gene EXCEPT ![Chosen][at[2]].assistants[at[3]] = u]
    /\ at' = NextSeat
    /\ UNCHANGED Rest

\* Mutant of Enlist: the second child is added whether there is room or not.
EnlistBoth ==
    /\ pc = "mutating"
    /\ at[1] = 3
    /\ newPop' = newPop \o parents
    /\ pc' = "breeding"
    /\ UNCHANGED <<made, gene, genes, fitness, pop, parents, at, best, generation, bred>>

\* The parents themselves, mutated, are the children.
Enlist ==
    /\ pc = "mutating"
    /\ at[1] = 3
    /\ newPop' = IF Len(newPop) + 1 < read.size THEN newPop \o parents
                 ELSE Append(newPop, parents[1])
    /\ pc' = "breeding"
    /\ UNCHANGED <<made, gene, genes, fitness, pop, parents, at, best, generation, bred>>

EndGeneration ==
    /\ pc = "breeding"
    /\ Len(newPop) >= read.size
    /\ pop' = newPop
    /\ newPop' = <<>>
    /\ fitness' = [c \in DOMAIN fitness |->
                     IF c \in Range(newPop) THEN Fitness(Genome(c), slots) ELSE fitness[c]]
    /\ generation' = generation + 1
    /\ pc' = IF generation' < read.generations THEN "examining" ELSE "finishing"
    /\ parents' = <<>>
    /\ at' = <<>>
    /\ UNCHANGED <<made, gene, genes, best, bred>>

-----------------------------------------------------------------------------
(* The result.                                                             *)

BestGenome == [i \in DOMAIN best.genes |-> gene[best.genes[i]][i]]

\* The items of a shift are those of its genes, in order; a shift without a
\* gene is left out.  The order of the shifts is that of a Go map, and no check
\* depends on it.
ItemsOf(id) ==
    FlattenSeq([i \in DOMAIN BestGenome |->
                  IF slots[i].shift = id
                  THEN <<[day |-> slots[i].day, principal |-> BestGenome[i].principal,
                          assistants |-> BestGenome[i].assistants]>>
                  ELSE <<>>])
Proposal ==
    FlattenSeq([k \in DOMAIN read.shifts |->
                  LET id == read.shifts[k].id
                  IN  IF ItemsOf(id) = <<>> THEN <<>>
                      ELSE <<[shift |-> id, items |-> ItemsOf(id)]>>])

\* getSubmissionByAssistantID takes the first one of a user.
Offers ==
    [u \in Range(pool) |->
       read.submissions[Min({k \in DOMAIN pool : pool[k] = u})].form]

Finish ==
    /\ pc = "finishing"
    /\ pc' = IF StaffAvailable(Proposal, Offers) /\ NoDuplicateStaff(Proposal)
             THEN "done" ELSE "failed"
    /\ UNCHANGED <<made, gene, genes, fitness, pop, newPop, parents, at, best, generation, bred>>

-----------------------------------------------------------------------------
Next == \/ New \/ NewFails \/ ListSlots
        \/ Populate
        \/ Examine
        \/ Breed \/ BreedPanics
        \/ SkipGene \/ MutatePrincipal \/ KeepAssistant \/ MutateAssistant
        \/ Enlist
        \/ EndGeneration
        \/ Finish

Spec == Init /\ [][Next]_vars

-----------------------------------------------------------------------------
Chromosomes == 1 .. read.size
Genes == [principal : Users \cup {NoPrincipal}, assistants : Seq(Users)]
SlotRows == [shift : STRING, day : 1 .. 7, need : Nat \ {0}, hours : Int]

TypeOK ==
    /\ read \in Inputs
    /\ pc \in PCs
    /\ slots \in Seq(SlotRows)
    /\ pool \in Seq(Users)
    /\ available \in [DOMAIN slots -> SUBSET Users]
    /\ DOMAIN gene = 0 .. read.size
    /\ \A k \in DOMAIN gene : gene[k] \in {<<>>} \cup [DOMAIN slots -> Genes]
    /\ DOMAIN genes = Chromosomes
    /\ \A c \in Chromosomes : genes[c] \in {<<>>} \cup [DOMAIN slots -> Chromosomes]
    /\ DOMAIN fitness = Chromosomes
    /\ pop \in Seq(Chromosomes) /\ Len(pop) <= read.size
    /\ newPop \in Seq(Chromosomes) /\ Len(newPop) <= read.size
    /\ parents \in {<<>>} \cup (Chromosomes \X Chromosomes)
    /\ at \in {<<>>} \cup (Nat \X Nat) \cup ((1 .. 3) \X Nat \X Nat)
    /\ best.genes \in {<<>>, [i \in DOMAIN slots |-> 0]}
    /\ generation \in Nat /\ generation <= read.generations
    /\ bred \in SUBSET Chromosomes

\* What New promises of the pool and the shifts, and what neither is sure of:
\* a user may have two submissions, and a shift a day twice, or none.
SubmittedOnce == IsInjective(pool)
DaysOnce == \A k \in DOMAIN read.shifts :
              /\ read.shifts[k].days /= <<>>
              /\ IsInjective(read.shifts[k].days)

\* A gene that a roster can have: the slot has a principal if anybody who offers
\* it may be one; everyone on it offers it; nobody has two of its places, unless
\* they are in the pool twice; and one of the required places is the principal's.
WellFormed(g, i) ==
    /\ g.principal \in IF PrincipalCandidates(i) = {} THEN {NoPrincipal} ELSE PrincipalCandidates(i)
    /\ Range(g.assistants) \subseteq available[i] \ {g.principal}
    /\ SubmittedOnce => IsInjective(g.assistants)
    /\ Len(g.assistants) < slots[i].need

\* However chromosomes that share their genes' memory are crossed, and mutated
\* one choice at a time while others refer to them, every gene of the population
\* and of the best one ever is well-formed.
GenesWellFormed ==
    /\ \A c \in Range(pop) : \A i \in DOMAIN slots : WellFormed(Genome(c)[i], i)
    /\ \A i \in DOMAIN best.genes : WellFormed(BestGenome[i], i)

\* "这里需要使用深拷贝": the best one ever is still what was measured, although
\* the chromosome it was copied from is crossed and mutated in place.
BestIsWhatWasMeasured ==
    best.genes /= <<>> => best.fitness = Fitness(BestGenome, slots)

\* "保留精英": what keeping the elites amounts to.  A generation loses its fittest
\* chromosome only by breeding it: the next one is as fit unless one of the
\* fittest was chosen as a parent and changed in place.
AsFitAsAny(f) == \A d \in Range(pop) : ~Fitter(fitness[d], f)
ElitesLostOnlyAsParents ==
    [][pc = "breeding" /\ pc' \in {"examining", "finishing"} =>
         \/ \E c \in bred : AsFitAsAny(fitness[c])
         \/ \E c \in Range(pop') : AsFitAsAny(fitness'[c])]_vars

SlotStaff(i) == Staff(BestGenome[i])

\* When every user submitted once and no shift names a day twice or none at all,
\* the generator does not fail once it has its users; what it answers passes
\* the checks that a submitted result has to pass, puts nobody twice on a slot,
\* and leaves a place free only if all who offer the slot are on it or none
\* of them may be its principal.  It answers nothing only if nobody could be placed.
GeneratedIsARoster ==
    SubmittedOnce /\ DaysOnce =>
      /\ pc = "failed" => slots = <<>>
      /\ pc = "done" /\ best.genes /= <<>> =>
           /\ ResultFits(Proposal, [k \in DOMAIN read.shifts |->
                                      [read.shifts[k] EXCEPT !.days = Range(@)]])
           /\ StaffAvailable(Proposal, Offers)
           /\ NoDuplicateStaff(Proposal)
           /\ \A i \in DOMAIN slots :
                /\ Cardinality(SlotStaff(i)) <= slots[i].need
                /\ Cardinality(SlotStaff(i)) < slots[i].need =>
                     \/ SlotStaff(i) = available[i]
                     \/ BestGenome[i].principal = NoPrincipal
      /\ pc = "done" /\ best.genes = <<>> =>
           \A i \in DOMAIN slots : RandomGenes(i) = {[principal |-> NoPrincipal, assistants |-> <<>>]}

\* "notWorkPenalty 为未工作惩罚（用于确保每个用户都尽可能工作）": a chromosome that
\* leaves a user of the pool without work is penalised.
IdleIsPenalised ==
    pc = "examining" =>
      \A c \in Range(pop) :
        /\ fitness[c] /= Undefined
        /\ Range(pool) /= UNION {Staff(Genome(c)[i]) : i \in DOMAIN slots}
        => fitness[c] < 0
=============================================================================

-------------------------- MODULE ValidationProofs --------------------------
(***************************************************************************)
(* Proofs about Validation and Seed: what the test of the shift times      *)
(* decides, what a result that passes the checks is, and that the values   *)
(* the seed tool makes up pass them; for templates and results of any      *)
(* length, any times, any week and any number of places.                   *)
(***************************************************************************)
EXTENDS MCValidation, FiniteSetTheorems, TLAPS

-----------------------------------------------------------------------------
(* Sequences.                                                              *)

LEMMA SeqElements ==
  ASSUME NEW S, NEW s \in Seq(S)
  PROVE  /\ Len(s) \in Nat /\ DOMAIN s = 1 .. Len(s)
         /\ \A i \in 1 .. Len(s) : s[i] \in S
OBVIOUS

LEMMA SeqWiden ==
  ASSUME NEW S, NEW T, S \subseteq T, NEW s \in Seq(S)
  PROVE  s \in Seq(T)
OBVIOUS

-----------------------------------------------------------------------------
(* The times of shifts.                                                    *)

Shift == [start : Int, end : Int]

(* Shifts that are apart share no instant, in either order.                *)
LEMMA ApartSharesNothing ==
  ASSUME NEW a \in Shift, NEW b \in Shift, NEW t \in Int, ShiftsApart(a, b)
  PROVE  ~SharedInstant(a, b, t) /\ ~SharedInstant(b, a, t)
BY DEF Shift, ShiftsApart, SharedInstant

(* Two shifts that are not apart share an instant: the middle of what they *)
(* have in common is strictly inside at least one of them.                 *)
LEMMA NotApartShares ==
  ASSUME NEW a \in Shift, NEW b \in Shift, a.start <= a.end, b.start <= b.end,
         ~ShiftsApart(a, b)
  PROVE  \E t \in Int : /\ 2 * a.start <= t /\ t <= 2 * a.end
                        /\ SharedInstant(a, b, t) \/ SharedInstant(b, a, t)
<1> DEFINE first == IF a.start <= b.start THEN b.start ELSE a.start
           last == IF a.end <= b.end THEN a.end ELSE b.end
<1>1. /\ a.start \in Int /\ a.end \in Int /\ b.start \in Int /\ b.end \in Int
      /\ b.start < a.end /\ a.start < b.end
  BY DEF Shift, ShiftsApart
<1>2. first + last \in Int /\ 2 * a.start <= first + last /\ first + last <= 2 * a.end
  BY <1>1
<1>3. SharedInstant(a, b, first + last) \/ SharedInstant(b, a, first + last)
  BY <1>1 DEF SharedInstant
<1> QED BY <1>2, <1>3

(* ValidateScheduleTemplateShiftTime accepts a list of shifts if and only  *)
(* if at most one of them goes on at any of the instants that include      *)
(* those of the shifts.                                                    *)
THEOREM ShiftTimesDecided ==
  ASSUME NEW list \in Seq(Shift), NEW instants \in SUBSET Int,
         \A i \in 1 .. Len(list) : \A t \in Int :
           2 * list[i].start <= t /\ t <= 2 * list[i].end => t \in instants
  PROVE  ShiftTimesValid(list) <=> OneAtATime(list, instants)
<1>1. \A i \in 1 .. Len(list) : list[i] \in Shift
  OBVIOUS
<1>2. ASSUME ShiftTimesValid(list) PROVE OneAtATime(list, instants)
  <2>1. \A i, j \in 1 .. Len(list) :
           i /= j => ShiftsApart(list[i], list[j]) \/ ShiftsApart(list[j], list[i])
    BY <1>2 DEF ShiftTimesValid
  <2>2. \A i \in 1 .. Len(list) : list[i].start <= list[i].end
    BY <1>1, <1>2 DEF ShiftTimesValid, Shift
  <2> QED BY <1>1, <2>1, <2>2, ApartSharesNothing DEF OneAtATime
<1>3. ASSUME OneAtATime(list, instants) PROVE ShiftTimesValid(list)
  <2>1. \A i, j \in 1 .. Len(list) : i < j => ShiftsApart(list[i], list[j])
    <3> SUFFICES ASSUME NEW i \in 1 .. Len(list), NEW j \in 1 .. Len(list), i < j,
                        ~ShiftsApart(list[i], list[j])
                 PROVE  FALSE
      OBVIOUS
    <3>1. list[i].start <= list[i].end /\ list[j].start <= list[j].end
      BY <1>3 DEF OneAtATime
    <3>2. PICK t \in Int : /\ 2 * list[i].start <= t /\ t <= 2 * list[i].end
                           /\ SharedInstant(list[i], list[j], t) \/ SharedInstant(list[j], list[i], t)
      BY <1>1, <3>1, NotApartShares
    <3>3. t \in instants
      BY <3>2
    <3> QED BY <1>3, <3>2, <3>3 DEF OneAtATime
  <2>2. \A i \in 1 .. Len(list) : ~(list[i].end < list[i].start)
    BY <1>1, <1>3 DEF OneAtATime, Shift
  <2> QED BY <2>1, <2>2 DEF ShiftTimesValid
<1> QED BY <1>2, <1>3

-----------------------------------------------------------------------------
(* What the client and the seed tool have put together so far.             *)

ShiftsWithin == shifts \in Seq([start : 0 .. MaxTime, end : 0 .. MaxTime])

ItemsOfTheForm ==
    items \in Seq([day : Days, principal : People \cup {NoPrincipal}, assistants : Assistants])

SeedsMade ==
    /\ number \in 0 .. MaxShifts
    /\ DOMAIN seeds = 1 .. Len(seeds) /\ seeds \in Seq(Range(seeds))
    /\ seeds /= <<>> => number > 0
    /\ \A i \in 1 .. Len(seeds) : seeds[i] \in RandomShifts(i, number)

IInv == ShiftsWithin /\ ItemsOfTheForm /\ SeedsMade

(* Nothing is put together at first.                                       *)
LEMMA InitIInv == Init => IInv
BY BoundsAssumption DEF Init, IInv, ShiftsWithin, ItemsOfTheForm, SeedsMade

(* Every addition keeps what has been put together in its form.            *)
LEMMA NextIInv == IInv /\ [Next]_vars => IInv'
<1> SUFFICES ASSUME IInv, [Next]_vars PROVE IInv'
  OBVIOUS
<1>1. ASSUME NEW start \in 0 .. MaxTime, NEW end \in 0 .. MaxTime, AddShift(start, end)
      PROVE  IInv'
  BY <1>1 DEF AddShift, IInv, ShiftsWithin, ItemsOfTheForm, SeedsMade
<1>2. ASSUME NEW day \in Days, NEW principal \in People \cup {NoPrincipal},
             NEW assistants \in Assistants, AddItem(day, principal, assistants)
      PROVE  IInv'
  BY <1>2 DEF AddItem, IInv, ShiftsWithin, ItemsOfTheForm, SeedsMade
<1>3. ASSUME NEW n \in 1 .. MaxShifts, AddSeed(n) PROVE IInv'
  <2>1. PICK shift \in RandomShifts(Len(seeds) + 1, n) : seeds' = Append(seeds, shift)
    BY <1>3 DEF AddSeed
  <2>2. n \in Nat /\ n > 0 /\ n \in 0 .. MaxShifts /\ number' = n
    BY <1>3, BoundsAssumption DEF AddSeed
  <2>3. seeds \in Seq(Range(seeds) \cup {shift}) /\ Len(seeds) \in Nat
    BY DEF IInv, SeedsMade, Range
  <2>4. /\ Len(seeds') = Len(seeds) + 1
        /\ seeds'[Len(seeds) + 1] = shift
        /\ \A i \in 1 .. Len(seeds) : seeds'[i] = seeds[i]
        /\ DOMAIN seeds' = 1 .. Len(seeds')
    BY <2>1, <2>3
  <2>5. \A i \in 1 .. Len(seeds') : seeds'[i] \in RandomShifts(i, n)
    <3> SUFFICES ASSUME NEW i \in 1 .. Len(seeds') PROVE seeds'[i] \in RandomShifts(i, n)
      OBVIOUS
    <3>1. CASE i = Len(seeds) + 1
      BY <2>1, <2>4, <3>1
    <3>2. CASE i \in 1 .. Len(seeds)
      <4>1. number = n
        BY <1>3, <3>2 DEF AddSeed, IInv, SeedsMade
      <4> QED BY <2>4, <3>2, <4>1 DEF IInv, SeedsMade
    <3> QED BY <2>3, <2>4, <3>1, <3>2
  <2>6. seeds' \in Seq(Range(seeds'))
    BY <2>1, <2>3, <2>4 DEF Range
  <2>7. SeedsMade'
    BY <2>2, <2>4, <2>5, <2>6 DEF SeedsMade
  <2> QED BY <1>3, <2>7 DEF AddSeed, IInv, ShiftsWithin, ItemsOfTheForm
<1>4. CASE UNCHANGED vars
  BY <1>4 DEF vars, IInv, ShiftsWithin, ItemsOfTheForm, SeedsMade
<1> QED BY <1>1, <1>2, <1>3, <1>4 DEF Next

(* What has been put together keeps its form.                              *)
LEMMA Invariance == Spec => []IInv
<1> QED BY InitIInv, NextIInv, PTL DEF Spec

(* The pairwise test decides exactly whether at most one shift of the      *)
(* template goes on at a time, whatever the last time of day is.           *)
THEOREM TimesAreDecidedExactly == Spec => []TimesDecidedExactly
<1>1. IInv => TimesDecidedExactly
  <2> SUFFICES ASSUME IInv PROVE TimesDecidedExactly
    OBVIOUS
  <2>1. shifts \in Seq(Shift)
    <3>1. [start : 0 .. MaxTime, end : 0 .. MaxTime] \subseteq Shift
      BY BoundsAssumption DEF Shift
    <3>2. shifts \in Seq([start : 0 .. MaxTime, end : 0 .. MaxTime])
      BY DEF IInv, ShiftsWithin
    <3> QED BY <3>1, <3>2, SeqWiden
  <2>2. ASSUME NEW i \in 1 .. Len(shifts), NEW t \in Int,
               2 * shifts[i].start <= t, t <= 2 * shifts[i].end
        PROVE  t \in 0 .. 2 * MaxTime
    <3>1. shifts[i] \in [start : 0 .. MaxTime, end : 0 .. MaxTime]
      BY <2>2, SeqElements DEF IInv, ShiftsWithin
    <3> QED BY <2>2, <3>1, BoundsAssumption
  <2>3. 0 .. 2 * MaxTime \in SUBSET Int
    BY BoundsAssumption
  <2> QED BY <2>1, <2>2, <2>3, ShiftTimesDecided DEF TimesDecidedExactly
<1> QED BY <1>1, Invariance, PTL

-----------------------------------------------------------------------------
(* A result that passes the checks.                                        *)

(* An item has a place for its principal and one for each assistant.       *)
LEMMA PlacesOfOne ==
  ASSUME NEW j, NEW n \in Nat
  PROVE  IsFiniteSet({j} \X (0 .. n)) /\ Cardinality({j} \X (0 .. n)) = n + 1
<1>1. IsFiniteSet({j}) /\ Cardinality({j}) = 1
  BY FS_Singleton
<1>2. IsFiniteSet(0 .. n) /\ Cardinality(0 .. n) = n + 1
  BY FS_Interval
<1>3. Cardinality({j} \X (0 .. n)) = 1 * (n + 1)
  BY <1>1, <1>2, FS_Product
<1> QED BY <1>1, <1>2, <1>3, FS_Product

(* The places of an item that names nobody twice are as many as the people *)
(* on it, and one more than its assistants at most.                        *)
LEMMA PlacesOfItem ==
  ASSUME NEW item, NEW n \in 0 .. 2, NEW j,
         item.assistants \in [1 .. n -> People], IsInjective(item.assistants),
         item.principal \notin Range(item.assistants) \ {NoPrincipal},
         NEW P \in SUBSET ({j} \X (0 .. 2)),
         \A p \in {j} \X (0 .. 2) :
           p \in P <=> IF p[2] = 0 THEN item.principal /= NoPrincipal ELSE p[2] <= n
  PROVE  /\ Cardinality(P) = Cardinality(Staff(item))
         /\ Cardinality(P) \in Nat /\ Cardinality(P) <= n + 1
<1> DEFINE Person(k) == IF k = 0 THEN item.principal ELSE item.assistants[k]
           f == [p \in P |-> Person(p[2])]
<1>1. P \in SUBSET ({j} \X (0 .. n))
  <2> SUFFICES ASSUME NEW p \in P PROVE p \in {j} \X (0 .. n)
    OBVIOUS
  <2>1. p = <<j, p[2]>> /\ p[2] \in 0 .. n
    OBVIOUS
  <2> QED BY <2>1
<1>2. IsFiniteSet({j} \X (0 .. n)) /\ Cardinality({j} \X (0 .. n)) = n + 1
  <2>1. n \in Nat
    OBVIOUS
  <2> HIDE DEF Person, f
  <2> QED BY ONLY <2>1, PlacesOfOne
<1>3. IsFiniteSet(P) /\ Cardinality(P) \in Nat /\ Cardinality(P) <= n + 1
  BY <1>1, <1>2, FS_Subset, FS_CardinalityType
<1>4. f \in Surjection(P, Staff(item))
  <2>1. \A p \in P : Person(p[2]) \in Staff(item)
    BY <1>1 DEF Staff, Range
  <2>2. ASSUME NEW u \in Staff(item) PROVE \E p \in P : f[p] = u
    <3>1. PICK k \in 0 .. n : Person(k) = u /\ (k = 0 => item.principal /= NoPrincipal)
      BY <2>2 DEF Staff, Range
    <3>2. <<j, k>> \in P
      BY <3>1
    <3> QED BY <3>1, <3>2
  <2> QED BY <2>1, <2>2 DEF Surjection
<1>5. f \in Injection(P, Staff(item))
  <2>1. ASSUME NEW p \in P, NEW q \in P, f[p] = f[q] PROVE p = q
    <3>1. p = <<j, p[2]>> /\ q = <<j, q[2]>> /\ p[2] \in 0 .. n /\ q[2] \in 0 .. n
      BY <1>1
    <3>2. Person(p[2]) = Person(q[2])
      BY <2>1
    <3>3. p[2] = q[2]
      <4>1. CASE p[2] /= 0 /\ q[2] /= 0
        BY <3>1, <3>2, <4>1 DEF IsInjective
      <4>2. CASE p[2] = 0 /\ q[2] /= 0
        BY <3>1, <3>2, <4>2 DEF Range
      <4>3. CASE p[2] /= 0 /\ q[2] = 0
        BY <3>1, <3>2, <4>3 DEF Range
      <4> QED BY <4>1, <4>2, <4>3
    <3> QED BY <3>1, <3>3
  <2> QED BY <1>4, <2>1 DEF Surjection, Injection, IsInjective
<1> QED BY <1>3, <1>4, <1>5, FS_Surjection

(* A result that names every slot once and passes the checks staffs every  *)
(* slot of the template with at most the required number of people, all of *)
(* them different, and nothing else; whatever days, people and number of   *)
(* places there are.                                                       *)
THEOREM AcceptedResultsAreRosters == Spec => []AcceptedResultIsARoster
<1>1. IInv => AcceptedResultIsARoster
  <2> SUFFICES ASSUME IInv, ResultFits(Form, Template), NoDuplicateStaff(Form),
                      \A j, k \in DOMAIN items : items[j].day = items[k].day => j = k
               PROVE  /\ {items[j].day : j \in DOMAIN items} = Days
                      /\ \A day \in Days : /\ Cardinality(SlotStaff(day)) <= Need
                                           /\ Cardinality(SlotStaff(day)) = Cardinality(Places(day))
    BY DEF AcceptedResultIsARoster
  <2>1. /\ DOMAIN items = 1 .. Len(items)
        /\ \A j \in DOMAIN items : /\ items[j].day \in Days
                                   /\ \E n \in 0 .. 2 : items[j].assistants \in [1 .. n -> People]
    <3>1. items \in Seq([day : Days, principal : People \cup {NoPrincipal}, assistants : Assistants])
      BY DEF IInv, ItemsOfTheForm
    <3>2. \A j \in 1 .. Len(items) : items[j].day \in Days /\ items[j].assistants \in Assistants
      <4> DEFINE I == [day : Days, principal : People \cup {NoPrincipal}, assistants : Assistants]
      <4>1. \A item \in I : item.day \in Days /\ item.assistants \in Assistants
        OBVIOUS
      <4>2. items \in Seq(I)
        BY <3>1
      <4> HIDE DEF I
      <4> QED BY <4>1, <4>2, SeqElements
    <3>3. \A a \in Assistants : \E n \in 0 .. 2 : a \in [1 .. n -> People]
      BY DEF Assistants
    <3> QED BY <3>1, <3>2, <3>3
  <2>2. ResultShiftFits(items, Template[1])
    BY DEF ResultFits, Form, Template
  <2>3. /\ \A day \in Days : \E j \in DOMAIN items : items[j].day = day
        /\ \A j \in DOMAIN items : Len(items[j].assistants) + 1 <= Need
    BY <2>1, <2>2 DEF ResultShiftFits, Template
  <2>4. \A j \in DOMAIN items : /\ items[j].principal \notin Range(items[j].assistants) \ {NoPrincipal}
                                /\ IsInjective(items[j].assistants)
    BY <2>1 DEF NoDuplicateStaff, Form
  <2>5. ASSUME NEW day \in Days
        PROVE  /\ Cardinality(SlotStaff(day)) <= Need
               /\ Cardinality(SlotStaff(day)) = Cardinality(Places(day))
    <3>1. PICK j \in DOMAIN items : items[j].day = day
      BY <2>3
    <3>2. {k \in DOMAIN items : items[k].day = day} = {j}
      BY <3>1
    <3>3. SlotStaff(day) = Staff(items[j])
      BY <3>2 DEF SlotStaff
    <3>4. PICK n \in 0 .. 2 : items[j].assistants \in [1 .. n -> People]
      BY <2>1
    <3>5. Len(items[j].assistants) = n
      BY <3>4
    <3>6. Places(day) = {p \in {j} \X (0 .. 2) :
                           IF p[2] = 0 THEN items[j].principal /= NoPrincipal ELSE p[2] <= n}
      BY <3>1, <3>5 DEF Places
    <3>7. /\ Cardinality(Places(day)) = Cardinality(Staff(items[j]))
          /\ Cardinality(Places(day)) \in Nat /\ Cardinality(Places(day)) <= n + 1
      <4>1. /\ items[j].principal \notin Range(items[j].assistants) \ {NoPrincipal}
            /\ IsInjective(items[j].assistants)
        BY <2>4
      <4> DEFINE item == items[j]
                 P == Places(day)
      <4>2. /\ item.assistants \in [1 .. n -> People] /\ IsInjective(item.assistants)
            /\ item.principal \notin Range(item.assistants) \ {NoPrincipal}
            /\ P \in SUBSET ({j} \X (0 .. 2))
            /\ \A p \in {j} \X (0 .. 2) :
                 p \in P <=> IF p[2] = 0 THEN item.principal /= NoPrincipal ELSE p[2] <= n
        BY <3>4, <3>6, <4>1
      <4> HIDE DEF item, P
      <4>3. /\ Cardinality(P) = Cardinality(Staff(item))
            /\ Cardinality(P) \in Nat /\ Cardinality(P) <= n + 1
        BY <4>2, PlacesOfItem
      <4> QED BY <4>3 DEF item, P
    <3> QED BY <2>3, <3>3, <3>4, <3>5, <3>7, BoundsAssumption
  <2> QED BY <2>1, <2>3, <2>5
<1> QED BY <1>1, Invariance, PTL

-----------------------------------------------------------------------------
(* What the seed tool makes up.                                            *)

(* A subset of a list that names nothing twice is not empty, names nothing *)
(* twice and nothing else.                                                 *)
LEMMA SubsetOfList ==
  ASSUME NEW list, IsInjective(list), NEW d \in RandomSubsets(list)
  PROVE  d /= <<>> /\ IsInjective(d) /\ Range(d) \subseteq Range(list)
<1>1. PICK n \in 1 .. Len(list) :
        \E f \in Injection(1 .. n, DOMAIN list) : d = [i \in 1 .. n |-> list[f[i]]]
  BY DEF RandomSubsets
<1>2. PICK f \in Injection(1 .. n, DOMAIN list) : d = [i \in 1 .. n |-> list[f[i]]]
  BY <1>1
<1>3. 1 \in 1 .. n /\ DOMAIN d = 1 .. n
  BY <1>2
<1>4. d /= <<>>
  BY <1>3
<1>5. /\ \A i \in 1 .. n : f[i] \in DOMAIN list /\ d[i] = list[f[i]]
      /\ \A i, k \in 1 .. n : f[i] = f[k] => i = k
  BY <1>2 DEF Injection, IsInjective
<1>6. IsInjective(d)
  BY <1>3, <1>5 DEF IsInjective
<1>7. Range(d) \subseteq Range(list)
  BY <1>3, <1>5 DEF Range
<1> QED BY <1>4, <1>6, <1>7

(* The days of the week are listed, each once, and so are the days of a    *)
(* shift of the seed tool.                                                 *)
LEMMA DaysListed ==
  /\ IsInjective(SetToSeq(Weekdays))
  /\ \A d \in RandomApplicableDays : d /= <<>> /\ IsInjective(d)
<1>1. ExistsBijection(1 .. Cardinality(Weekdays), Weekdays)
  BY WeekAssumption, FS_CardinalityType
<1>2. \E f \in [1 .. Cardinality(Weekdays) -> Weekdays] : IsInjective(f)
  BY <1>1 DEF ExistsBijection, Bijection, Injection
<1>3. IsInjective(SetToSeq(Weekdays))
  BY <1>2 DEF SetToSeq
<1> QED BY <1>3, SubsetOfList DEF RandomApplicableDays

(* Where the hours of a shift begin and end, when it has hour of them.     *)
LEMMA HoursOfShift ==
  ASSUME NEW hour \in Nat, NEW half \in Nat, NEW i \in Nat, NEW h \in 0 .. hour - 1
  PROVE  /\ ((i - 1) * hour) * 2 * half \in Int /\ ((i - 1) * hour + h) * 2 * half \in Int
         /\ ((i - 1) * hour) * 2 * half <= ((i - 1) * hour + h) * 2 * half
         /\ ((i - 1) * hour + h) * 2 * half + 2 * half <= (i * hour) * 2 * half
OBVIOUS

(* The hours of a later shift begin after those of an earlier one.         *)
LEMMA HoursInOrder ==
  ASSUME NEW hour \in Nat, NEW half \in Nat, NEW i \in Nat, NEW j \in Nat, i < j
  PROVE  (i * hour) * 2 * half <= ((j - 1) * hour) * 2 * half
<1>1. i <= j - 1 /\ j - 1 \in Nat
  OBVIOUS
<1>2. \A a, b, c \in Nat : a <= b => a * c <= b * c
  OBVIOUS
<1>3. i * hour <= (j - 1) * hour /\ i * hour \in Nat /\ (j - 1) * hour \in Nat
  BY <1>1, <1>2
<1>4. 2 * half \in Nat
  OBVIOUS
<1>5. (i * hour) * (2 * half) <= ((j - 1) * hour) * (2 * half)
  BY <1>2, <1>3, <1>4
<1> QED BY <1>5

(* A shift of the seed tool: its id, its times within its hours, its days. *)
LEMMA SeedShift ==
  ASSUME NEW n \in Nat, n > 0, NEW i \in Nat, NEW shift \in RandomShifts(i, n)
  PROVE  /\ shift = [id |-> i, start |-> shift.start, end |-> shift.end, days |-> shift.days]
         /\ shift.days \in RandomApplicableDays
         /\ shift.start \in Int /\ shift.end \in Int /\ shift.start <= shift.end
         /\ ((i - 1) * (Hours \div n)) * 2 * Half <= shift.start
         /\ shift.end <= (i * (Hours \div n)) * 2 * Half
<1> DEFINE hour == Hours \div n
<1>1. hour \in Nat
  BY WeekAssumption
<1>2. PICK h \in 0 .. hour - 1, startMinute \in 0 .. Half - 1, endMinute \in Half .. 2 * Half - 1,
           days \in RandomApplicableDays :
        shift = [id |-> i, start |-> ((i - 1) * hour) * 2 * Half + startMinute,
                 end |-> ((i - 1) * hour + h) * 2 * Half + endMinute, days |-> days]
  BY DEF RandomShifts
<1>3. /\ ((i - 1) * hour) * 2 * Half \in Int /\ ((i - 1) * hour + h) * 2 * Half \in Int
      /\ ((i - 1) * hour) * 2 * Half <= ((i - 1) * hour + h) * 2 * Half
      /\ ((i - 1) * hour + h) * 2 * Half + 2 * Half <= (i * hour) * 2 * Half
      /\ (i * hour) * 2 * Half \in Int
  <2> HIDE DEF hour
  <2> QED BY <1>1, <1>2, WeekAssumption, HoursOfShift
<1>4. /\ shift.start = ((i - 1) * hour) * 2 * Half + startMinute
      /\ shift.end = ((i - 1) * hour + h) * 2 * Half + endMinute
      /\ shift.days = days /\ shift.id = i
  BY <1>2
<1>5. /\ shift.start \in Int /\ shift.end \in Int /\ shift.start <= shift.end
      /\ ((i - 1) * hour) * 2 * Half <= shift.start
      /\ shift.end <= (i * hour) * 2 * Half
  <2>1. /\ startMinute \in Int /\ 0 <= startMinute /\ startMinute < Half
        /\ endMinute \in Int /\ Half <= endMinute /\ endMinute < 2 * Half
    BY WeekAssumption
  <2>2. ASSUME NEW a \in Int, NEW b \in Int, NEW c \in Int, a <= b, b + 2 * Half <= c,
               shift.start = a + startMinute, shift.end = b + endMinute
        PROVE  /\ shift.start \in Int /\ shift.end \in Int /\ shift.start <= shift.end
               /\ a <= shift.start /\ shift.end <= c
    BY <2>1, <2>2, WeekAssumption
  <2> HIDE DEF hour
  <2> QED BY <1>3, <1>4, <2>2
<1> QED BY <1>2, <1>4, <1>5

(* The shifts that the seed tool has made for a template so far.           *)
LEMMA SeedTimesValid == IInv => ShiftTimesValid(seeds)
<1> SUFFICES ASSUME IInv PROVE ShiftTimesValid(seeds)
  OBVIOUS
<1>1. ASSUME NEW i \in 1 .. Len(seeds)
      PROVE  /\ number \in Nat /\ number > 0 /\ i \in Nat /\ i > 0
             /\ seeds[i] \in RandomShifts(i, number)
  BY BoundsAssumption DEF IInv, SeedsMade
<1>2. \A i \in 1 .. Len(seeds) : ~(seeds[i].end < seeds[i].start)
  BY <1>1, SeedShift
<1>3. ASSUME NEW i \in 1 .. Len(seeds), NEW j \in 1 .. Len(seeds), i < j
      PROVE  ShiftsApart(seeds[i], seeds[j])
  <2> DEFINE hour == Hours \div number
             reached == (i * hour) * 2 * Half
             begun == ((j - 1) * hour) * 2 * Half
  <2>1. hour \in Nat /\ number \in Nat /\ number > 0 /\ i \in Nat /\ j \in Nat /\ Half \in Nat
    <3>1. \A h, n \in Nat : n > 0 => h \div n \in Nat
      OBVIOUS
    <3>2. number \in Nat /\ number > 0 /\ i \in Nat /\ j \in Nat /\ Half \in Nat /\ Hours \in Nat
      BY <1>1, WeekAssumption
    <3> QED BY <3>1, <3>2
  <2>2. reached \in Int /\ begun \in Int
    <3> HIDE DEF hour
    <3> QED BY <2>1
  <2>3. reached <= begun
    BY <1>3, <2>1, HoursInOrder
  <2>4. seeds[i].end \in Int /\ seeds[i].end <= reached
    BY <1>1, <2>1, SeedShift
  <2>5. seeds[j].start \in Int /\ begun <= seeds[j].start
    BY <1>1, <2>1, SeedShift
  <2> HIDE DEF reached, begun
  <2> QED BY <2>2, <2>3, <2>4, <2>5 DEF ShiftsApart
<1> QED BY <1>2, <1>3 DEF ShiftTimesValid

(* The items of the submissions that it makes up for these shifts pass the *)
(* check.                                                                  *)
LEMMA SeedFormsFit ==
  ASSUME IInv,
         NEW as \in RandomSubmissions([id |-> "template", shifts |-> seeds], "user")
  PROVE  SubmissionFits(as.items, [i \in DOMAIN seeds |-> [seeds[i] EXCEPT !.days = Range(@)]])
<1> DEFINE list == [i \in DOMAIN seeds |-> [seeds[i] EXCEPT !.days = Range(@)]]
           form == as.items
<1>1. Len(seeds) \in Nat /\ DOMAIN seeds = 1 .. Len(seeds)
  BY DEF IInv, SeedsMade
<1>2. /\ DOMAIN form = 1 .. Len(seeds)
      /\ \A i \in 1 .. Len(seeds) :
           /\ form[i].shift = seeds[i].id
           /\ form[i].days \in {Range(d) : d \in RandomSubsets(seeds[i].days)}
  <2> DEFINE template == [id |-> "template", shifts |-> seeds]
             Forms == {f \in [DOMAIN seeds ->
                                [shift : 1 .. Len(seeds),
                                 days : {Range(d) : d \in RandomApplicableDays}]] :
                         \A i \in DOMAIN seeds :
                           /\ f[i].shift = seeds[i].id
                           /\ f[i].days \in {Range(d) : d \in RandomSubsets(seeds[i].days)}}
  <2>1. \E f \in Forms : as = [plan |-> template.id, user |-> "user", items |-> f]
    BY DEF RandomSubmissions
  <2>2. form \in Forms
    BY <2>1
  <2> QED BY <1>1, <2>2
<1> HIDE DEF form
<1>3. Len(form) = Len(seeds) /\ Len(list) = Len(seeds)
  BY <1>1, <1>2
<1>4. ASSUME NEW i \in 1 .. Len(seeds)
      PROVE  list[i].id = form[i].shift /\ form[i].days \subseteq list[i].days
  <2>1. /\ number \in Nat /\ number > 0 /\ i \in Nat
        /\ seeds[i] \in RandomShifts(i, number)
    BY BoundsAssumption DEF IInv, SeedsMade
  <2>2. /\ seeds[i].days \in RandomApplicableDays
        /\ seeds[i] = [id |-> i, start |-> seeds[i].start, end |-> seeds[i].end,
                       days |-> seeds[i].days]
    BY <2>1, SeedShift
  <2>3. \A d \in RandomSubsets(seeds[i].days) : Range(d) \subseteq Range(seeds[i].days)
    BY <2>2, DaysListed, SubsetOfList
  <2>4. form[i].days \subseteq Range(seeds[i].days)
    BY <1>2, <2>3
  <2>5. list[i].id = seeds[i].id /\ list[i].days = Range(seeds[i].days)
    BY <1>1, <2>2
  <2> QED BY <1>2, <2>4, <2>5
<1> HIDE DEF list
<1>5. SubmissionFits(form, list)
  BY <1>3, <1>4 DEF SubmissionFits
<1> QED BY <1>5 DEF form, list

(* The times of the plans that it makes up.                                *)
LEMMA SeedPlansValid ==
  /\ \A status \in DOMAIN SubmissionStart :
       PlanTimesValid(PlanTimes(status)) /\ InStatus(status, PlanTimes(status))
  /\ PlanTimesValid(RealPlan)
<1>1. DOMAIN SubmissionStart =
        {"NotStarted", "SubmissionAvailable", "Scheduling", "Active", "Ended"}
  BY DEF SubmissionStart
<1>2. PlanTimesValid(PlanTimes("NotStarted")) /\ InStatus("NotStarted", PlanTimes("NotStarted"))
  BY DEF PlanTimesValid, PlanTimes, InStatus, SubmissionStart
<1>3. /\ PlanTimesValid(PlanTimes("SubmissionAvailable"))
      /\ InStatus("SubmissionAvailable", PlanTimes("SubmissionAvailable"))
  BY DEF PlanTimesValid, PlanTimes, InStatus, SubmissionStart
<1>4. PlanTimesValid(PlanTimes("Scheduling")) /\ InStatus("Scheduling", PlanTimes("Scheduling"))
  BY DEF PlanTimesValid, PlanTimes, InStatus, SubmissionStart
<1>5. PlanTimesValid(PlanTimes("Active")) /\ InStatus("Active", PlanTimes("Active"))
  BY DEF PlanTimesValid, PlanTimes, InStatus, SubmissionStart
<1>6. PlanTimesValid(PlanTimes("Ended")) /\ InStatus("Ended", PlanTimes("Ended"))
  BY DEF PlanTimesValid, PlanTimes, InStatus, SubmissionStart
<1>7. PlanTimesValid(RealPlan)
  BY DEF PlanTimesValid, RealPlan
<1> QED BY <1>1, <1>2, <1>3, <1>4, <1>5, <1>6, <1>7

(* The shifts of the real template, in any order.                          *)
LEMMA RealShiftsValid == \A a, b \in RealShifts : a = b \/ ShiftTimesValid(<<a, b>>)
<1> SUFFICES ASSUME NEW a \in RealShifts, NEW b \in RealShifts, a /= b
             PROVE  ShiftTimesValid(<<a, b>>)
  OBVIOUS
<1>1. a.start <= a.end /\ b.start <= b.end /\ a.start \in Int /\ a.end \in Int
      /\ b.start \in Int /\ b.end \in Int
  BY DEF RealShifts
<1>2. ShiftsApart(a, b)
  BY DEF RealShifts, ShiftsApart
<1> QED BY <1>1, <1>2 DEF ShiftTimesValid

(* The seed tool bypasses the handlers, and the templates, the items of    *)
(* submissions and the times of plans that it makes up pass their checks   *)
(* all the same: whatever the week, the hours of a day and the units of an *)
(* hour are, and however many shifts it is asked for.  The plan it stores  *)
(* a submission under is not part of this.                                 *)
THEOREM SeededValuesStayValid == Spec => []SeedsAreValid
<1>1. IInv => SeedsAreValid
  <2> SUFFICES ASSUME IInv PROVE SeedsAreValid
    OBVIOUS
  <2>1. ASSUME NEW i \in DOMAIN seeds PROVE seeds[i].days /= <<>> /\ IsInjective(seeds[i].days)
    <3>1. /\ number \in Nat /\ number > 0 /\ i \in Nat /\ seeds[i] \in RandomShifts(i, number)
      BY BoundsAssumption DEF IInv, SeedsMade
    <3> QED BY <3>1, SeedShift, DaysListed
  <2> QED BY <2>1, SeedTimesValid, SeedFormsFit, SeedPlansValid, RealShiftsValid DEF SeedsAreValid
<1> QED BY <1>1, Invariance, PTL
=============================================================================

---------------------------- MODULE MCValidation ----------------------------
(***************************************************************************)
(* Validation.tla against reference definitions, and Seed.tla against      *)
(* Validation.tla.  The shifts of a template and the items of a result are *)
(* put together one by one, as the client lists them or the seed tool      *)
(* makes them, so that every list within the bounds is reached.            *)
(***************************************************************************)
EXTENDS Seed, FiniteSets

CONSTANTS MaxTime,      \* the last time of day
          MaxShifts,    \* the longest template
          MaxItems,     \* the most items of a result shift
          People, Days, Need

ASSUME BoundsAssumption == MaxTime \in Nat /\ MaxShifts \in Nat /\ Need \in Nat

VARIABLES shifts,       \* the shifts of a template, their times only
          items,        \* the items of a result shift
          seeds,        \* the shifts of a template of the seed tool
          number        \* how many it is to have

vars == <<shifts, items, seeds, number>>

Init == shifts = <<>> /\ items = <<>> /\ seeds = <<>> /\ number = 0

AddShift(start, end) ==
    /\ items = <<>> /\ number = 0
    /\ Len(shifts) < MaxShifts
    /\ shifts' = Append(shifts, [start |-> start, end |-> end])
    /\ UNCHANGED <<items, seeds, number>>

AddItem(day, principal, assistants) ==
    /\ shifts = <<>> /\ number = 0
    /\ Len(items) < MaxItems
    /\ items' = Append(items, [day |-> day, principal |-> principal, assistants |-> assistants])
    /\ UNCHANGED <<shifts, seeds, number>>

AddSeed(n) ==
    /\ shifts = <<>> /\ items = <<>>
    /\ number \in {0, n}
    /\ Len(seeds) < n
    /\ \E shift \in RandomShifts(Len(seeds) + 1, n) : seeds' = Append(seeds, shift)
    /\ number' = n
    /\ UNCHANGED <<shifts, items>>

Assistants == UNION {[1 .. n -> People] : n \in 0 .. 2}

Next == \/ \E start, end \in 0 .. MaxTime : AddShift(start, end)
        \/ \E day \in Days, principal \in People \cup {NoPrincipal}, assistants \in Assistants :
             AddItem(day, principal, assistants)
        \/ \E n \in 1 .. MaxShifts : AddSeed(n)

Spec == Init /\ [][Next]_vars

-----------------------------------------------------------------------------
\* The pairwise test of ValidateScheduleTemplateShiftTime decides exactly
\* whether at most one shift goes on at a time: it neither accepts two shifts
\* that overlap nor refuses two that merely touch.
TimesDecidedExactly == ShiftTimesValid(shifts) <=> OneAtATime(shifts, 0 .. 2 * MaxTime)

\* The template of the forms, with one shift, and a form for it.
Template == <<[id |-> "shift", start |-> 0, end |-> 1, need |-> Need, days |-> Days]>>
Form == <<[shift |-> "shift", items |-> items]>>
SlotStaff(day) == UNION {Staff(items[j]) : j \in {k \in DOMAIN items : items[k].day = day}}
Places(day) == {p \in (DOMAIN items) \X (0 .. 2) :
                  /\ items[p[1]].day = day
                  /\ IF p[2] = 0 THEN items[p[1]].principal /= NoPrincipal
                                 ELSE p[2] <= Len(items[p[1]].assistants)}

\* When a result names every slot once, what passes the checks staffs every
\* slot of the template with at most the required number of people, all of
\* them different, and staffs nothing else.
AcceptedResultIsARoster ==
    /\ ResultFits(Form, Template)
    /\ NoDuplicateStaff(Form)
    /\ \A j, k \in DOMAIN items : items[j].day = items[k].day => j = k
    => /\ {items[j].day : j \in DOMAIN items} = Days
       /\ \A day \in Days : /\ Cardinality(SlotStaff(day)) <= Need
                            /\ Cardinality(SlotStaff(day)) = Cardinality(Places(day))

\* What a status means now, at 0: "还没有开放提交", "已经开放提交", "正在排班",
\* "正在启用", "已经结束".
InStatus(status, times) ==
    CASE status = "NotStarted" -> 0 < times.from
      [] status = "SubmissionAvailable" -> times.from <= 0 /\ 0 < times.until
      [] status = "Scheduling" -> times.until < 0 /\ 0 < times.start
      [] status = "Active" -> times.start < 0 /\ 0 < times.end
      [] status = "Ended" -> times.end < 0

\* The seed tool bypasses the handlers, and these values that it makes up pass
\* their checks all the same: the times of a template, however many of its shifts
\* exist so far, and their days, each once; the items of the submissions, against
\* the template they are made from; and the times of the plans, which are in the
\* status they were made for.  Of the plan that a submission is stored under this
\* says nothing: it is the wrong one, as SeedTool shows.
SeedsAreValid ==
    /\ ShiftTimesValid(seeds)
    /\ \A i \in DOMAIN seeds : seeds[i].days /= <<>> /\ IsInjective(seeds[i].days)
    /\ \A as \in RandomSubmissions([id |-> "template", shifts |-> seeds], "user") :
         SubmissionFits(as.items, [i \in DOMAIN seeds |-> [seeds[i] EXCEPT !.days = Range(@)]])
    /\ \A status \in DOMAIN SubmissionStart :
         PlanTimesValid(PlanTimes(status)) /\ InStatus(status, PlanTimes(status))
    /\ \A a, b \in RealShifts : a = b \/ ShiftTimesValid(<<a, b>>)
    /\ PlanTimesValid(RealPlan)
=============================================================================

-------------------------------- MODULE Seed --------------------------------
(***************************************************************************)
(* What the seed tool of cmd/seed makes up: the generators of              *)
(* internal/utils/random.go, as the sets of what they can return, and the  *)
(* template of internal/seed.  The tool hands all of it to the repository, *)
(* past the checks that the handlers make of a request.                    *)
(*                                                                         *)
(* A day has Hours hours, an hour 2 * Half units of time and a week the    *)
(* days Weekdays; the program has 24, 30 and 1 to 7.                       *)
(***************************************************************************)
EXTENDS Validation, SequencesExt

CONSTANTS Hours, Half, Weekdays

ASSUME WeekAssumption == Hours \in Nat /\ Half \in Nat /\ IsFiniteSet(Weekdays)

-----------------------------------------------------------------------------
\* GenerateRandomSubset: a shuffle, and a beginning of it that is not empty.
RandomSubsets(list) ==
    UNION {{[i \in 1 .. n |-> list[f[i]]] : f \in Injection(1 .. n, DOMAIN list)} :
             n \in 1 .. Len(list)}

\* GenerateRandomApplicableDays: the same of all the days of the week.
RandomApplicableDays == RandomSubsets(SetToSeq(Weekdays))

\* Mutant of RandomShifts: a shift may end in the first half of an hour.
RandomShiftsAnyMinute(i, n) ==
    LET hourPerShift == Hours \div n
        startHour == (i - 1) * hourPerShift
    IN  {[id |-> i, start |-> startHour * 2 * Half + startMinute,
          end |-> (startHour + h) * 2 * Half + endMinute, days |-> days] :
           h \in 0 .. hourPerShift - 1, startMinute \in 0 .. Half - 1,
           endMinute \in 0 .. 2 * Half - 1, days \in RandomApplicableDays}

\* Shift i of GenerateRandomScheduleTemplate, when it makes n of them: a shift
\* starts in the first half of an hour and ends in the second half of one.
RandomShifts(i, n) ==
    LET hourPerShift == Hours \div n
        startHour == (i - 1) * hourPerShift
    IN  {[id |-> i, start |-> startHour * 2 * Half + startMinute,
          end |-> (startHour + h) * 2 * Half + endMinute, days |-> days] :
           h \in 0 .. hourPerShift - 1, startMinute \in 0 .. Half - 1,
           endMinute \in Half .. 2 * Half - 1, days \in RandomApplicableDays}

\* GenerateRandomSubmission: an item for each shift, with a subset of its days.
\* The plan that the submission is for is taken to be the template's id.
RandomSubmissions(template, user) ==
    LET shifts == template.shifts
        forms == {form \in [DOMAIN shifts ->
                               [shift : 1 .. Len(shifts),
                                days : {Range(d) : d \in RandomApplicableDays}]] :
                    \A i \in DOMAIN shifts :
                      /\ form[i].shift = shifts[i].id
                      /\ form[i].days \in {Range(d) : d \in RandomSubsets(shifts[i].days)}}
    IN  {[plan |-> template.id, user |-> user, items |-> form] : form \in forms}

\* GenerateRandomSchedulePlan: by the status that a plan is to have, when its
\* submissions open, in days from now; the rest follows from that.
SubmissionStart ==
    [NotStarted |-> 1, SubmissionAvailable |-> -1, Scheduling |-> -8,
     Active |-> -30, Ended |-> -30 * 7]
PlanTimes(status) ==
    LET from == SubmissionStart[status]
    IN  [from |-> from, until |-> from + 7, start |-> from + 7 + 3,
         end |-> from + 7 + 3 + 30 * 5]

\* ShiftHeaderMap, in minutes, and the plan of SeedRealData, in quarters of a day.
RealShifts ==
    {[start |-> 9 * 60, end |-> 10 * 60], [start |-> 10 * 60, end |-> 12 * 60],
     [start |-> 13 * 60 + 30, end |-> 16 * 60 + 10],
     [start |-> 16 * 60 + 10, end |-> 18 * 60], [start |-> 19 * 60, end |-> 21 * 60]}
RealPlan == [from |-> -4, until |-> 1, start |-> 40, end |-> 80]
=============================================================================

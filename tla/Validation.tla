----------------------------- MODULE Validation -----------------------------
(***************************************************************************)
(* The checks of internal/utils/validation.go, as predicates on what the   *)
(* handlers pass to them: a check that returns no error is one that holds. *)
(*                                                                         *)
(* A template is a sequence of shifts                                      *)
(*    [id, start, end, need, days]     start, end: the time of day, a      *)
(*                                     number; days: a set of weekdays     *)
(* A submission form is a sequence of items [shift, days].                 *)
(* A result form is a sequence of shifts [shift, items], where items is a  *)
(* sequence of [day, principal, assistants], assistants is a sequence of   *)
(* users and principal is a user, or NoPrincipal when the slot has none.   *)
(* Shifts may be named more than once in a form: no check forbids it.      *)
(***************************************************************************)
EXTENDS Integers, Sequences, Functions

CONSTANT NoPrincipal

-----------------------------------------------------------------------------
(* Times.                                                                  *)

\* Mutant of ShiftsApart: a shift is compared with the start of the other only.
ShiftsApartHalf(a, b) == b.start >= a.end \/ a.start >= b.start

\* Neither starts before the other one has ended.
ShiftsApart(a, b) == b.start >= a.end \/ a.start >= b.end

ShiftTimesValid(shifts) ==
    /\ \A i \in 1 .. Len(shifts) : ~(shifts[i].end < shifts[i].start)
    /\ \A i, j \in 1 .. Len(shifts) : i < j => ShiftsApart(shifts[i], shifts[j])

\* Two shifts share an instant that is strictly inside one of them.  An instant
\* is given as twice its time, so that a shift of one unit has an inside.
SharedInstant(a, b, t) ==
    /\ 2 * a.start < t /\ t < 2 * a.end
    /\ 2 * b.start <= t /\ t <= 2 * b.end

\* What the pairwise test is for: no shift ends before it starts, and none is
\* going on inside another, at any of the instants.
OneAtATime(shifts, instants) ==
    /\ \A i \in 1 .. Len(shifts) : shifts[i].start <= shifts[i].end
    /\ \A t \in instants : \A i, j \in 1 .. Len(shifts) :
         i /= j => ~SharedInstant(shifts[i], shifts[j], t)

\* Mutant of PlanTimesValid: a plan may take effect while it is still open.
PlanTimesValidNoGap(times) ==
    /\ times.from <= times.until
    /\ times.start <= times.end

\* from, until: the submissions are open; start, end: the plan is in effect.
PlanTimesValid(times) ==
    /\ ~(times.from > times.until)
    /\ ~(times.start > times.end)
    /\ ~(times.start < times.until)

-----------------------------------------------------------------------------
(* Forms.                                                                  *)

\* Mutant of SubmissionFits: the days are not compared with those of the shift.
SubmissionFitsAnyDay(form, shifts) ==
    /\ Len(form) = Len(shifts)
    /\ \A i \in 1 .. Len(form) : \E k \in 1 .. Len(shifts) : shifts[k].id = form[i].shift

SubmissionFits(form, shifts) ==
    /\ Len(form) = Len(shifts)
    /\ \A i \in 1 .. Len(form) : \E k \in 1 .. Len(shifts) :
         /\ shifts[k].id = form[i].shift
         /\ form[i].days \subseteq shifts[k].days

\* Mutant of ResultShiftFits: the principal is not counted.
ResultShiftFitsOneMore(items, shift) ==
    /\ \A day \in shift.days : \E j \in 1 .. Len(items) : items[j].day = day
    /\ \A j \in 1 .. Len(items) :
         /\ items[j].day \in shift.days
         /\ Len(items[j].assistants) <= shift.need

\* The items of a result shift cover the days of the template's shift, keep to
\* them, and leave one of the required places to the principal.
ResultShiftFits(items, shift) ==
    /\ \A day \in shift.days : \E j \in 1 .. Len(items) : items[j].day = day
    /\ \A j \in 1 .. Len(items) :
         /\ items[j].day \in shift.days
         /\ Len(items[j].assistants) + 1 <= shift.need

ResultFits(form, shifts) ==
    /\ Len(form) = Len(shifts)
    /\ \A i \in 1 .. Len(form) : \E k \in 1 .. Len(shifts) :
         /\ shifts[k].id = form[i].shift
         /\ ResultShiftFits(form[i].items, shifts[k])

\* The slots that a submission offers, and the people that an item puts on one.
Slots(form) == UNION {{form[i].shift} \X form[i].days : i \in 1 .. Len(form)}
Staff(item) == ({item.principal} \ {NoPrincipal}) \cup Range(item.assistants)

\* Mutant of StaffAvailable: to have submitted anything is enough.
StaffSubmitted(form, offers) ==
    \A i \in 1 .. Len(form) : \A j \in 1 .. Len(form[i].items) :
      Staff(form[i].items[j]) \subseteq DOMAIN offers

\* offers[u] is the submission form that was found for u.
StaffAvailable(form, offers) ==
    \A i \in 1 .. Len(form) : \A j \in 1 .. Len(form[i].items) :
      \A u \in Staff(form[i].items[j]) :
        /\ u \in DOMAIN offers
        /\ <<form[i].shift, form[i].items[j].day>> \in Slots(offers[u])

\* Nobody is named twice in one item (two items may be about one slot).
NoDuplicateStaff(form) ==
    \A i \in 1 .. Len(form) : \A j \in 1 .. Len(form[i].items) :
      LET item == form[i].items[j]
      IN  /\ item.principal \notin Range(item.assistants) \ {NoPrincipal}
          /\ IsInjective(item.assistants)
=============================================================================

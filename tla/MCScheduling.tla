---------------------------- MODULE MCScheduling ----------------------------
(* Instances of Scheduling: two assistants, a template with two shifts.    *)
EXTENDS Scheduling, TLC

CONSTANTS u1, u2, p1, p2, t1, new

\* The early shift takes a principal and two assistants, the late one only one.
MCShiftsOf ==
    [t \in Templates |->
       <<[id |-> <<t, "early">>, start |-> 0, end |-> 1, need |-> 3, days |-> {1}],
         [id |-> <<t, "late">>,  start |-> 1, end |-> 2, need |-> 1, days |-> {2}]>>]

-----------------------------------------------------------------------------
(* Submissions and results for a plan that uses t1.                        *)

Offer(early, late) == <<[shift |-> <<t1, "early">>, days |-> early],
                        [shift |-> <<t1, "late">>, days |-> late]>>
Item(day, principal, assistants) ==
    [day |-> day, principal |-> principal, assistants |-> assistants]
Roster(early, late) == <<[shift |-> <<t1, "early">>, items |-> <<early>>],
                         [shift |-> <<t1, "late">>, items |-> <<late>>]>>

Submit(u, p, form) == [op |-> "submit", user |-> u, plan |-> p, form |-> form, latest |-> FALSE]
Read(u, p) == [op |-> "read", user |-> u, plan |-> p, latest |-> FALSE]
Result(p, form) == [op |-> "result", plan |-> p, form |-> form, latest |-> FALSE]

StaffCalls ==
    {Submit(u1, p1, Offer({1}, {2})), Submit(u1, p1, Offer({1}, {})),
     Submit(u1, p1, Offer({}, {2})), Read(u1, p1),
     Submit(u2, p1, Offer({1}, {})), Submit(u2, p1, Offer({2}, {2})),
     Result(p1, Roster(Item(1, u2, <<u1>>), Item(2, u1, <<>>))),
     Result(p1, Roster(Item(1, u1, <<>>), Item(2, NoPrincipal, <<>>))),
     Result(p1, Roster(Item(1, NoPrincipal, <<u1, u2>>), Item(2, NoPrincipal, <<>>)))}

-----------------------------------------------------------------------------
(* Plans and their edits.                                                  *)

Window(from, until, start, end) ==
    [f \in Times |-> CASE f = "from" -> from   [] f = "until" -> until
                       [] f = "start" -> start [] f = "end" -> end]

Update(p, change, latest) ==
    [op |-> "update", plan |-> p, change |-> change, latest |-> latest]
Set(field, time) == [f \in {field} |-> time]

\* Two fields of one template, written by requests that read both.
TitleCalls == {[op |-> "retitle", template |-> t1, change |-> Set(field, new)] : field \in Texts}

\* Each is valid for some window and some order of the edits, and not for others.
EditCalls ==
    {Update(p1, Set("until", 2), FALSE), Update(p1, Set("start", 1), FALSE),
     Update(p1, Set("from", 1) @@ Set("until", 0), FALSE), Update(p1, Set("end", 2), TRUE),
     Update(p2, Set("from", 1), FALSE)}

LateCalls == {[Submit(u1, p, Offer({1}, {2})) EXCEPT !.latest = latest] :
                p \in {p1, p2}, latest \in BOOLEAN}
             \cup {Update(p1, Set("until", 2), FALSE)}

TimesCalls == EditCalls \cup LateCalls \cup TitleCalls
TimesWindows == {Window(0, 1, 2, 2), Window(1, 2, 2, 2), Window(2, 2, 2, 1)}

OpenWindows == {Window(0, 1, 1, 1)}

Symmetry == Permutations(Requests)
=============================================================================

----------------------------- MODULE MCGenetic -----------------------------
(***************************************************************************)
(* Instances of Genetic: s1 and s2 may be principals, a1 and a2 may not.   *)
(***************************************************************************)
EXTENDS Genetic

CONSTANTS s1, s2, a1, a2

Shift(id, start, end, need, days) ==
    [id |-> id, start |-> start, end |-> end, need |-> need, days |-> days]
Early(need, days) == Shift("early", 0, 1, need, days)
Late(need, days) == Shift("late", 1, 3, need, days)

Offer(u, early, late) ==
    [user |-> u, form |-> <<[shift |-> "early", days |-> early],
                            [shift |-> "late", days |-> late]>>]

Input(size, generations, elites, shifts, submissions) ==
    [size |-> size, generations |-> generations, elites |-> elites,
     shifts |-> shifts, submissions |-> submissions,
     users |-> Users, seniors |-> {s1, s2}]

\* Two slots with a choice of principals, on one of them an assistant.
TwoSlots == <<Early(2, <<1>>), Late(1, <<2>>)>>
Three == <<Offer(s1, {1}, {2}), Offer(s2, {1}, {2}), Offer(a1, {1}, {})>>

\* One slot with two assistants and one person to spare.
OneSlot == <<Early(3, <<1>>)>>
Four == <<Offer(s1, {1}, {}), Offer(s2, {1}, {}), Offer(a1, {1}, {}), Offer(a2, {1}, {})>>

Usual ==
    {Input(2, 2, 1, TwoSlots, Three),
     Input(3, 1, 1, TwoSlots, Three),
     Input(2, 1, 2, TwoSlots, Three),
     Input(3, 2, 1, <<Early(2, <<1>>)>>, Three),
     Input(2, 2, 1, OneSlot, Four)}

\* The boundaries: more elites than chromosomes; no slot; nobody to place;
\* no principal; too few; a day twice, or a shift without a day; a user with
\* two submissions; a user who is deleted while the input is read.
Boundaries ==
    {Input(1, 2, 1, OneSlot, Four),
     Input(1, 1, 2, TwoSlots, Three),
     Input(2, 1, 1, <<>>, Three),
     Input(2, 1, 1, TwoSlots, <<>>),
     Input(2, 1, 1, TwoSlots, <<Offer(a1, {1}, {}), Offer(a2, {}, {2})>>),
     Input(2, 2, 1, OneSlot, <<Offer(s1, {1}, {}), Offer(a1, {1}, {})>>),
     Input(2, 1, 1, <<Early(2, <<1, 1>>)>>, <<Offer(s1, {1}, {}), Offer(a1, {1}, {})>>),
     Input(2, 1, 1, <<Early(2, <<>>), Late(1, <<2>>)>>, Three),
     Input(2, 1, 1, <<Early(3, <<1>>)>>,
           <<Offer(s1, {1}, {}), Offer(a1, {1}, {}), Offer(a1, {}, {2})>>),
     Input(2, 1, 1, <<Early(3, <<1>>)>>,
           <<Offer(s1, {1}, {}), Offer(a1, {1}, {}), Offer(a1, {1}, {2})>>),
     [Input(2, 1, 1, TwoSlots, Three) EXCEPT !.users = {s1, s2}]}

AllInputs == Usual \cup Boundaries
=============================================================================

-------------------------- MODULE SchedulingProofs --------------------------
(***************************************************************************)
(* Proofs about Scheduling, for any users, plans, templates and requests:  *)
(* what was checked on copies, steps before it is stored, still holds of   *)
(* what is stored, whatever the others do in between.                      *)
(***************************************************************************)
EXTENDS Scheduling, TLAPS

-----------------------------------------------------------------------------
(* The inductive invariant.                                                *)

AllSlots(t) == UNION {{shift.id} \X shift.days : shift \in Range(ShiftsOf[t])}

\* The slots of a form are of template t.
FormFits(r, t) ==
    IF call[r].op = "submit" THEN Slots(call[r].form) \subseteq AllSlots(t)
    ELSE \A i \in ItemRows(call[r].form) : <<i.shift, i.day>> \in AllSlots(t)

WasOffered(r) ==
    \A i \in ItemRows(call[r].form) : \A u \in StaffOf({i}) :
      \E x \in offered : /\ call[x].user = u
                         /\ call[x].plan = call[r].plan
                         /\ <<i.shift, i.day>> \in Slots(call[x].form)

\* Everyone whom the form names and who is still there has a submission.
Backed(r) ==
    StaffOf(ItemRows(call[r].form)) \cap LiveUsers \subseteq Submitters(call[r].plan)

\* A result that was checked against the submissions.
Vetted(r) ==
    WasOffered(r) /\ (call[r].plan \in LivePlans => Backed(r))

Loaded == {"loaded", "known", "begun", "open", "fits", "checked", "replacing", "found"}
Checked == {"checked", "replacing"}

\* A copy of a plan is of one that was created, and names its template still.
CopyFits(r) ==
    pc[r] \in Loaded =>
      IF call[r].op = "retitle" THEN copy[r] \in TemplateRows
      ELSE /\ copy[r] \in PlanRows
           /\ plan[call[r].plan] /= Absent
           /\ call[r].plan \in LivePlans => plan[call[r].plan].template = copy[r].template

\* A request that reads found one submission, which its user stored.
FoundOne(r) ==
    /\ call[r].op = "read"
    /\ \E x \in offered : /\ saw[r] = {x}
                          /\ call[x].user = call[r].user
                          /\ call[x].plan = call[r].plan

RequestInv(r) ==
    /\ CopyFits(r)
    /\ pc[r] \in {"known", "begun", "open", "found"} => call[r].op \in {"submit", "read"}
    /\ pc[r] = "fits" => call[r].op = "result"
    /\ pc[r] \in Checked => call[r].op \in {"submit", "result"}
    /\ pc[r] \in Checked \cup {"fits"} => FormFits(r, copy[r].template)
    /\ pc[r] \in Checked /\ call[r].op = "result" => Vetted(r)
    /\ pc[r] = "replacing" => \A x \in saw[r] : call[x].op = call[r].op /\ SameKey(x, r)
    /\ pc[r] = "found" => FoundOne(r)

\* The foreign keys, and what the stored records were checked for.
PlansHaveTemplates == \A p \in LivePlans : plan[p].template \in LiveTemplates

SubmissionInv(r) ==
    /\ call[r].plan \in LivePlans
    /\ call[r].user \in LiveUsers
    /\ r \in offered
    /\ FormFits(r, plan[call[r].plan].template)

ResultInv(r) ==
    /\ call[r].plan \in LivePlans
    /\ FormFits(r, plan[call[r].plan].template)
    /\ Vetted(r)

IInv ==
    /\ TypeOK
    /\ PlansHaveTemplates
    /\ PlansWellTimed
    /\ RosterIsWhatWasAccepted
    /\ \A r \in submissions : SubmissionInv(r)
    /\ \A r \in results : ResultInv(r)
    /\ \A r \in Requests : RequestInv(r)

-----------------------------------------------------------------------------
(* The rows of a roster.                                                   *)

Accepted(form, live) ==
    {[i EXCEPT !.assistants = @ \cap live] :
       i \in {k \in ItemRows(form) : k.principal \in live \cup {NoPrincipal}}}

(* An item row is a record; without some assistants it is another one.     *)
LEMMA RowIsRecord ==
  ASSUME NEW form, NEW i \in ItemRows(form), NEW A
  PROVE  /\ [i EXCEPT !.assistants = A] =
              [at |-> i.at, shift |-> i.shift, day |-> i.day,
               principal |-> i.principal, assistants |-> A]
         /\ i = [at |-> i.at, shift |-> i.shift, day |-> i.day,
                 principal |-> i.principal, assistants |-> i.assistants]
<1>1. PICK k \in 1 .. Len(form) : \E j \in 1 .. Len(form[k].items) :
        i = [at |-> <<k, j>>, shift |-> form[k].shift, day |-> form[k].items[j].day,
             principal |-> form[k].items[j].principal,
             assistants |-> Range(form[k].items[j].assistants)]
  BY DEF ItemRows
<1> QED BY <1>1

(* What is left of a form without the users that are gone, less one more.  *)
LEMMA AcceptedWithout ==
  ASSUME NEW form, NEW live, NEW u, u /= NoPrincipal
  PROVE  Without(u, Accepted(form, live)) = Accepted(form, live \ {u})
<1> DEFINE Cut(i, A) == [at |-> i.at, shift |-> i.shift, day |-> i.day,
                         principal |-> i.principal, assistants |-> A]
           Of(L) == {k \in ItemRows(form) : k.principal \in L \cup {NoPrincipal}}
<1>1. ASSUME NEW L PROVE Accepted(form, L) = {Cut(i, i.assistants \cap L) : i \in Of(L)}
  <2>1. \A i \in Of(L) : [i EXCEPT !.assistants = @ \cap L] = Cut(i, i.assistants \cap L)
    BY RowIsRecord
  <2> HIDE DEF Cut
  <2> QED BY <2>1 DEF Accepted
<1>2. \A i, A : /\ Cut(i, A).principal = i.principal
                /\ [Cut(i, A) EXCEPT !.assistants = @ \ {u}] = Cut(i, A \ {u})
  OBVIOUS
<1>3. {k \in Accepted(form, live) : k.principal /= u} =
        {Cut(i, i.assistants \cap live) : i \in Of(live \ {u})}
  BY <1>1, <1>2
<1>4. Without(u, Accepted(form, live)) =
        {[k EXCEPT !.assistants = @ \ {u}] :
           k \in {Cut(i, i.assistants \cap live) : i \in Of(live \ {u})}}
  BY <1>3 DEF Without
<1>5. Without(u, Accepted(form, live)) =
        {Cut(i, (i.assistants \cap live) \ {u}) : i \in Of(live \ {u})}
  <2> DEFINE Rows == {Cut(i, i.assistants \cap live) : i \in Of(live \ {u})}
             Less(k) == [k EXCEPT !.assistants = @ \ {u}]
  <2>1. \A i : Less(Cut(i, i.assistants \cap live)) = Cut(i, (i.assistants \cap live) \ {u})
    BY <1>2
  <2>2. Without(u, Accepted(form, live)) = {Less(k) : k \in Rows}
    BY <1>4
  <2> HIDE DEF Cut, Of, Less
  <2> QED BY <2>1, <2>2
<1>6. \A i : (i.assistants \cap live) \ {u} = i.assistants \cap (live \ {u})
  OBVIOUS
<1>7. {Cut(i, (i.assistants \cap live) \ {u}) : i \in Of(live \ {u})} =
        {Cut(i, i.assistants \cap (live \ {u})) : i \in Of(live \ {u})}
  <2> HIDE DEF Cut, Of
  <2> QED BY <1>6
<1> QED BY <1>5, <1>7, <1>1

(* A form all of whose staff is there is stored as it is.                  *)
LEMMA AcceptedWhole ==
  ASSUME NEW form, NEW live, StaffOf(ItemRows(form)) \subseteq live
  PROVE  Accepted(form, live) = ItemRows(form)
<1>1. \A i \in ItemRows(form) : /\ i.principal \in live \cup {NoPrincipal}
                                /\ i.assistants \cap live = i.assistants
  BY DEF StaffOf
<1>2. ASSUME NEW i \in ItemRows(form) PROVE [i EXCEPT !.assistants = @ \cap live] = i
  <2>1. i.assistants \cap live = i.assistants
    BY <1>1
  <2>2. i = [at |-> i.at, shift |-> i.shift, day |-> i.day,
             principal |-> i.principal, assistants |-> i.assistants]
    BY RowIsRecord
  <2>3. [i EXCEPT !.assistants = @ \cap live] =
          [at |-> i.at, shift |-> i.shift, day |-> i.day,
           principal |-> i.principal, assistants |-> i.assistants \cap live]
    BY RowIsRecord
  <2> QED BY <2>1, <2>2, <2>3
<1> QED BY <1>1, <1>2 DEF Accepted

(* Whoever is left was there, on the same slot.                            *)
LEMMA AcceptedStaff ==
  ASSUME NEW form, NEW live, NEW i \in Accepted(form, live)
  PROVE  /\ StaffOf({i}) \subseteq live
         /\ \E k \in ItemRows(form) : /\ i.shift = k.shift /\ i.day = k.day
                                      /\ StaffOf({i}) \subseteq StaffOf({k})
<1>1. PICK k \in ItemRows(form) : /\ k.principal \in live \cup {NoPrincipal}
                                  /\ i = [k EXCEPT !.assistants = @ \cap live]
  BY DEF Accepted
<1>2. i = [at |-> k.at, shift |-> k.shift, day |-> k.day,
           principal |-> k.principal, assistants |-> k.assistants \cap live]
  BY <1>1, RowIsRecord
<1>3. i.shift = k.shift /\ i.day = k.day /\ i.principal = k.principal
      /\ i.assistants = k.assistants \cap live
  BY <1>2
<1>4. \A x : StaffOf({x}) = ({x.principal} \ {NoPrincipal}) \cup x.assistants
  BY DEF StaffOf
<1> QED BY <1>1, <1>3, <1>4

-----------------------------------------------------------------------------
(* What a step leaves as it was checked.                                   *)

(* Nobody comes back; a plan that was created keeps its template, and those *)
(* who have submitted for it, as long as it and they are there.            *)
Monotone ==
    /\ call' = call
    /\ offered \subseteq offered'
    /\ LiveUsers' \subseteq LiveUsers
    /\ \A p \in Plans : plan[p] /= Absent =>
         /\ plan'[p] /= Absent
         /\ p \in LivePlans' =>
              /\ p \in LivePlans
              /\ plan'[p].template = plan[p].template
              /\ Submitters(p) \cap LiveUsers' \subseteq Submitters(p)'

(* The plan of a request is one.                                           *)
LEMMA CallsNamePlans ==
  ASSUME TypeOK, NEW r \in Requests
  PROVE  /\ call[r] \in Calls
         /\ call[r].op /= "retitle" => call[r].plan \in Plans
         /\ call[r].op = "retitle" => call[r].template \in Templates
         /\ call[r].op \in {"submit", "read"} => call[r].user \in Users
BY CallsAssumption DEF TypeOK

(* What was checked of a result stays so.                                  *)
LEMMA VettedStays ==
  ASSUME TypeOK, Monotone, NEW r \in Requests, call[r].op = "result",
         plan[call[r].plan] /= Absent, Vetted(r)
  PROVE  Vetted(r)'
<1> DEFINE p == call[r].plan
<1>1. p \in Plans /\ call'[r] = call[r]
  BY CallsNamePlans DEF Monotone
<1>2. WasOffered(r)'
  BY DEF Vetted, WasOffered, Monotone
<1>3. ASSUME p \in LivePlans' PROVE Backed(r)'
  <2>1. p \in LivePlans /\ Submitters(p) \cap LiveUsers' \subseteq Submitters(p)'
    BY <1>1, <1>3 DEF Monotone
  <2>2. Backed(r)
    BY <2>1 DEF Vetted
  <2> QED BY <2>1, <2>2, <1>1 DEF Backed, Monotone
<1> QED BY <1>1, <1>2, <1>3 DEF Vetted

(* The same of a request that does not move.                               *)
LEMMA RequestStays ==
  ASSUME TypeOK, Monotone, NEW r \in Requests, RequestInv(r),
         pc'[r] = pc[r], copy'[r] = copy[r], saw'[r] = saw[r]
  PROVE  RequestInv(r)'
<1>1. call' = call
  BY DEF Monotone
<1>2. CopyFits(r)'
  BY <1>1, CallsNamePlans DEF RequestInv, CopyFits, Monotone
<1>3. pc[r] \in Checked \cup {"fits"} => FormFits(r, copy[r].template)'
  BY <1>1 DEF RequestInv, FormFits
<1>4. pc[r] \in Checked /\ call[r].op = "result" => Vetted(r)'
  BY VettedStays DEF RequestInv, CopyFits, Loaded, Checked
<1>5. pc[r] = "replacing" => \A x \in saw'[r] : call'[x].op = call'[r].op /\ SameKey(x, r)'
  BY <1>1 DEF RequestInv, SameKey
<1>6. pc[r] = "found" => FoundOne(r)'
  BY <1>1 DEF RequestInv, FoundOne, Monotone
<1> QED BY <1>1, <1>2, <1>3, <1>4, <1>5, <1>6 DEF RequestInv

(* The same of a record that is still stored.                              *)
LEMMA StoredStays ==
  ASSUME IInv, Monotone
  PROVE  /\ \A r \in submissions :
              call[r].plan \in LivePlans' /\ call[r].user \in LiveUsers' => SubmissionInv(r)'
         /\ \A r \in results : call[r].plan \in LivePlans' => ResultInv(r)'
<1>1. TypeOK /\ call' = call
  BY DEF IInv, Monotone
<1>2. \A r \in submissions \cup results : /\ r \in Requests /\ call[r].op \in {"submit", "result"}
                                          /\ call[r].plan \in LivePlans
  BY DEF IInv, TypeOK, SubmissionInv, ResultInv
<1>3. \A r \in submissions \cup results :
        call[r].plan \in LivePlans' => plan'[call[r].plan].template = plan[call[r].plan].template
  BY <1>1, <1>2, CallsNamePlans DEF Monotone, LivePlans
<1>4. ASSUME NEW r \in submissions, call[r].plan \in LivePlans', call[r].user \in LiveUsers'
      PROVE  SubmissionInv(r)'
  <2>1. SubmissionInv(r)
    BY DEF IInv
  <2>2. FormFits(r, plan[call[r].plan].template)'
    BY <1>1, <1>3, <1>4, <2>1 DEF SubmissionInv, FormFits
  <2> QED BY <1>1, <1>4, <2>1, <2>2 DEF SubmissionInv, Monotone
<1>5. ASSUME NEW r \in results, call[r].plan \in LivePlans' PROVE ResultInv(r)'
  <2>1. ResultInv(r) /\ call[r].op = "result"
    BY DEF IInv, TypeOK
  <2>2. FormFits(r, plan[call[r].plan].template)'
    BY <1>1, <1>3, <1>5, <2>1 DEF ResultInv, FormFits
  <2>3. Vetted(r)'
    BY <1>1, <1>2, <2>1, VettedStays DEF ResultInv, LivePlans
  <2> QED BY <1>1, <1>5, <2>2, <2>3 DEF ResultInv
<1> QED BY <1>4, <1>5

(* A step that moves at most request r.                                    *)
LEMMA StepKeeps ==
  ASSUME IInv, TypeOK', Monotone,
         PlansHaveTemplates', PlansWellTimed', RosterIsWhatWasAccepted',
         \A x \in submissions' :
           \/ x \in submissions /\ call[x].plan \in LivePlans' /\ call[x].user \in LiveUsers'
           \/ SubmissionInv(x)',
         \A x \in results' : (x \in results /\ call[x].plan \in LivePlans') \/ ResultInv(x)',
         \A x \in Requests :
           (pc'[x] = pc[x] /\ copy'[x] = copy[x] /\ saw'[x] = saw[x]) \/ RequestInv(x)'
  PROVE  IInv'
<1>1. \A x \in submissions' : SubmissionInv(x)'
  BY StoredStays
<1>2. \A x \in results' : ResultInv(x)'
  BY StoredStays
<1>3. \A x \in Requests : RequestInv(x)'
  BY RequestStays DEF IInv
<1> QED BY <1>1, <1>2, <1>3 DEF IInv

(* A step that changes no row.                                             *)
LEMMA RowsKept ==
  ASSUME IInv, TypeOK', UNCHANGED <<rows, call>>,
         \A x \in Requests :
           (pc'[x] = pc[x] /\ copy'[x] = copy[x] /\ saw'[x] = saw[x]) \/ RequestInv(x)'
  PROVE  IInv'
<1>1. UNCHANGED <<user, template, plan, submissions, results, roster, offered>> /\ call' = call
  BY DEF rows
<1>2. Monotone
  BY <1>1 DEF Monotone, LiveUsers, LivePlans, Submitters, SubmissionsOf
<1>3. PlansHaveTemplates' /\ PlansWellTimed'
  BY <1>1 DEF IInv, PlansHaveTemplates, PlansWellTimed, LivePlans, LiveTemplates
<1>4. RosterIsWhatWasAccepted'
  BY <1>1 DEF IInv, RosterIsWhatWasAccepted, LiveUsers
<1>5. \A x \in submissions' :
        x \in submissions /\ call[x].plan \in LivePlans' /\ call[x].user \in LiveUsers'
  BY <1>1 DEF IInv, SubmissionInv, LivePlans, LiveUsers
<1>6. \A x \in results' : x \in results /\ call[x].plan \in LivePlans'
  BY <1>1 DEF IInv, ResultInv, LivePlans
<1> QED BY <1>2, <1>3, <1>4, <1>5, <1>6, StepKeeps

-----------------------------------------------------------------------------
(* At the start nothing is stored and no request has begun.                *)
LEMMA InitIInv == Init => IInv
<1> SUFFICES ASSUME Init PROVE IInv
  OBVIOUS
<1>1. TypeOK
  BY TablesAssumption DEF Init, TypeOK, PCs
<1>2. LivePlans = {} /\ results = {}
  BY DEF Init, LivePlans
<1>3. PlansHaveTemplates /\ PlansWellTimed /\ RosterIsWhatWasAccepted
  BY <1>2 DEF Init, PlansHaveTemplates, PlansWellTimed, RosterIsWhatWasAccepted
<1>4. \A r \in Requests : RequestInv(r)
  BY DEF Init, RequestInv, CopyFits, Loaded, Checked
<1>5. (\A r \in submissions : SubmissionInv(r)) /\ (\A r \in results : ResultInv(r))
  BY DEF Init
<1> QED BY <1>1, <1>3, <1>4, <1>5 DEF IInv

-----------------------------------------------------------------------------
(* The handlers of one statement.                                          *)

LEMMA TickKeeps == ASSUME IInv, Tick PROVE IInv'
<1>1. UNCHANGED <<rows, call, pc, copy, saw>>
  BY DEF Tick, rows
<1>2. TypeOK'
  BY <1>1, TablesAssumption DEF IInv, TypeOK, Tick, rows
<1> QED BY <1>1, <1>2, RowsKept

LEMMA CreateTemplateKeeps ==
  ASSUME IInv, NEW t \in Templates, CreateScheduleTemplate(t)
  PROVE  IInv'
<1>1. /\ UNCHANGED <<now, user, plan, submissions, results, roster, call, pc, copy, saw, offered>>
      /\ template[t] = Absent
      /\ template' = [template EXCEPT ![t] = [text |-> [f \in Texts |-> t],
                                              version |-> 1]]
  BY DEF CreateScheduleTemplate
<1>2. template'[t] \in TemplateRows
  <2> DEFINE text == [f \in Texts |-> t]
  <2>1. text \in [Texts -> Names]
    BY TablesAssumption
  <2>2. template'[t] = [text |-> text, version |-> 1]
    BY <1>1 DEF IInv, TypeOK
  <2> QED BY <2>1, <2>2 DEF TemplateRows
<1>3. TypeOK'
  BY <1>1, <1>2 DEF IInv, TypeOK
<1>4. Monotone
  BY <1>1 DEF Monotone, LiveUsers, LivePlans, Submitters, SubmissionsOf
<1>5. LiveTemplates \subseteq LiveTemplates'
  BY <1>1 DEF IInv, TypeOK, LiveTemplates
<1>6. PlansHaveTemplates' /\ PlansWellTimed'
  BY <1>1, <1>5 DEF IInv, PlansHaveTemplates, PlansWellTimed, LivePlans
<1>7. RosterIsWhatWasAccepted'
  BY <1>1 DEF IInv, RosterIsWhatWasAccepted, LiveUsers
<1>8. /\ \A x \in submissions' :
           x \in submissions /\ call[x].plan \in LivePlans' /\ call[x].user \in LiveUsers'
      /\ \A x \in results' : x \in results /\ call[x].plan \in LivePlans'
  BY <1>1 DEF IInv, SubmissionInv, ResultInv, LivePlans, LiveUsers
<1> QED BY <1>1, <1>3, <1>4, <1>6, <1>7, <1>8, StepKeeps

LEMMA DeleteTemplateKeeps ==
  ASSUME IInv, NEW t \in Templates, DeleteScheduleTemplate(t)
  PROVE  IInv'
<1>1. /\ UNCHANGED <<now, user, plan, submissions, results, roster, call, pc, copy, saw, offered>>
      /\ \A p \in LivePlans : plan[p].template /= t
      /\ template' = [template EXCEPT ![t] = Deleted]
  BY DEF DeleteScheduleTemplate
<1>2. TypeOK'
  BY <1>1 DEF IInv, TypeOK
<1>3. Monotone
  BY <1>1 DEF Monotone, LiveUsers, LivePlans, Submitters, SubmissionsOf
<1>4. LiveTemplates \ {t} \subseteq LiveTemplates'
  BY <1>1 DEF IInv, TypeOK, LiveTemplates
<1>5. PlansHaveTemplates' /\ PlansWellTimed'
  BY <1>1, <1>4 DEF IInv, PlansHaveTemplates, PlansWellTimed, LivePlans
<1>6. RosterIsWhatWasAccepted'
  BY <1>1 DEF IInv, RosterIsWhatWasAccepted, LiveUsers
<1>7. /\ \A x \in submissions' :
           x \in submissions /\ call[x].plan \in LivePlans' /\ call[x].user \in LiveUsers'
      /\ \A x \in results' : x \in results /\ call[x].plan \in LivePlans'
  BY <1>1 DEF IInv, SubmissionInv, ResultInv, LivePlans, LiveUsers
<1> QED BY <1>1, <1>2, <1>3, <1>5, <1>6, <1>7, StepKeeps

(* Times that are accepted are in order.                                   *)
LEMMA AcceptedTimes ==
  ASSUME NEW times \in [Times -> Nat], PlanTimesValid(times)
  PROVE  times.from <= times.until /\ times.until <= times.start /\ times.start <= times.end
<1>1. \A f \in {"from", "until", "start", "end"} : times[f] \in Nat
  BY DEF Times
<1> QED BY <1>1 DEF PlanTimesValid

LEMMA CreatePlanKeeps ==
  ASSUME IInv, NEW p \in Plans, NEW t \in Templates, NEW times \in Windows,
         CreateSchedulePlan(p, t, times)
  PROVE  IInv'
<1> DEFINE row == [template |-> t, times |-> times, version |-> 1, created |-> now]
<1>1. /\ UNCHANGED <<now, user, template, submissions, results, roster, call, pc, copy, saw, offered>>
      /\ plan[p] = Absent /\ t \in LiveTemplates /\ PlanTimesValid(times)
      /\ plan' = [plan EXCEPT ![p] = row]
  BY DEF CreateSchedulePlan, InsertPlan
<1>2. times \in [Times -> Nat] /\ row \in PlanRows
  BY TablesAssumption DEF IInv, TypeOK, PlanRows
<1>3. row \notin {Absent, Deleted}
  BY <1>2, TablesAssumption
<1>4. /\ plan'[p] = row
      /\ \A q \in Plans : q /= p => plan'[q] = plan[q]
  BY <1>1 DEF IInv, TypeOK
<1>5. LivePlans' = LivePlans \cup {p} /\ p \notin LivePlans
  BY <1>1, <1>3, <1>4 DEF LivePlans
<1>6. TypeOK'
  BY <1>1, <1>2 DEF IInv, TypeOK
<1>7. Monotone
  <2>1. LiveUsers' = LiveUsers /\ \A q \in Plans : Submitters(q)' = Submitters(q)
    BY <1>1 DEF LiveUsers, Submitters, SubmissionsOf
  <2> QED BY <1>1, <1>4, <1>5, <2>1 DEF Monotone
<1>8. row.template = t /\ row.times = times
  OBVIOUS
<1> HIDE DEF row
<1>9. PlansHaveTemplates'
  BY <1>1, <1>4, <1>5, <1>8 DEF IInv, PlansHaveTemplates, LivePlans, LiveTemplates
<1>10. PlansWellTimed'
  BY <1>1, <1>2, <1>4, <1>5, <1>8, AcceptedTimes DEF IInv, PlansWellTimed, LivePlans
<1>11. RosterIsWhatWasAccepted'
  BY <1>1 DEF IInv, RosterIsWhatWasAccepted, LiveUsers
<1>12. /\ \A x \in submissions' :
            x \in submissions /\ call[x].plan \in LivePlans' /\ call[x].user \in LiveUsers'
       /\ \A x \in results' : x \in results /\ call[x].plan \in LivePlans'
  BY <1>1, <1>5 DEF IInv, SubmissionInv, ResultInv, LiveUsers
<1> QED BY <1>1, <1>6, <1>7, <1>9, <1>10, <1>11, <1>12, StepKeeps

LEMMA DeletePlanKeeps ==
  ASSUME IInv, NEW p \in Plans, DeleteSchedulePlan(p)
  PROVE  IInv'
<1>1. /\ UNCHANGED <<now, user, template, call, pc, copy, saw, offered>>
      /\ p \in LivePlans
      /\ plan' = [plan EXCEPT ![p] = Deleted]
      /\ submissions' = {r \in submissions : call[r].plan /= p}
      /\ results' = {r \in results : call[r].plan /= p}
      /\ roster' = [r \in Requests |-> IF r \in results \ results' THEN {} ELSE roster[r]]
  BY DEF DeleteSchedulePlan
<1>2. /\ plan'[p] = Deleted
      /\ \A q \in Plans : q /= p => plan'[q] = plan[q]
  BY <1>1 DEF IInv, TypeOK
<1>3. LivePlans' = LivePlans \ {p}
  BY <1>2 DEF LivePlans
<1>4. TypeOK'
  BY <1>1 DEF IInv, TypeOK
<1>5. Monotone
  <2>1. LiveUsers' = LiveUsers /\ \A q \in Plans \ {p} : Submitters(q)' = Submitters(q)
    BY <1>1 DEF LiveUsers, Submitters, SubmissionsOf
  <2> QED BY <1>1, <1>2, <1>3, <2>1, TablesAssumption DEF Monotone
<1>6. PlansHaveTemplates' /\ PlansWellTimed'
  BY <1>1, <1>2, <1>3 DEF IInv, PlansHaveTemplates, PlansWellTimed, LivePlans, LiveTemplates
<1>7. RosterIsWhatWasAccepted'
  <2>1. \A r \in Requests : roster[r] = IF r \in results THEN Accepted(call[r].form, LiveUsers) ELSE {}
    BY DEF IInv, RosterIsWhatWasAccepted, Accepted
  <2>2. \A r \in Requests : roster'[r] = IF r \in results' THEN Accepted(call[r].form, LiveUsers) ELSE {}
    BY <1>1, <2>1
  <2>3. LiveUsers' = LiveUsers
    BY <1>1 DEF LiveUsers
  <2> QED BY <1>1, <2>2, <2>3 DEF RosterIsWhatWasAccepted, Accepted
<1>8. /\ \A x \in submissions' :
           x \in submissions /\ call[x].plan \in LivePlans' /\ call[x].user \in LiveUsers'
      /\ \A x \in results' : x \in results /\ call[x].plan \in LivePlans'
  BY <1>1, <1>3 DEF IInv, SubmissionInv, ResultInv, LiveUsers
<1> QED BY <1>1, <1>4, <1>5, <1>6, <1>7, <1>8, StepKeeps

LEMMA SetActiveKeeps ==
  ASSUME IInv, NEW u \in Users, NEW status \in {"active", "left"}, SetActive(u, status)
  PROVE  IInv'
<1>1. /\ UNCHANGED <<now, template, plan, submissions, results, roster, call, pc, copy, saw, offered>>
      /\ user[u] /= "deleted"
      /\ user' = [user EXCEPT ![u] = status]
  BY DEF SetActive
<1>2. TypeOK'
  BY <1>1 DEF IInv, TypeOK
<1>3. LiveUsers' = LiveUsers
  BY <1>1 DEF IInv, TypeOK, LiveUsers
<1>4. Monotone
  BY <1>1, <1>3 DEF Monotone, LivePlans, Submitters, SubmissionsOf
<1>5. PlansHaveTemplates' /\ PlansWellTimed'
  BY <1>1 DEF IInv, PlansHaveTemplates, PlansWellTimed, LivePlans, LiveTemplates
<1>6. RosterIsWhatWasAccepted'
  BY <1>1, <1>3 DEF IInv, RosterIsWhatWasAccepted
<1>7. /\ \A x \in submissions' :
           x \in submissions /\ call[x].plan \in LivePlans' /\ call[x].user \in LiveUsers'
      /\ \A x \in results' : x \in results /\ call[x].plan \in LivePlans'
  BY <1>1, <1>3 DEF IInv, SubmissionInv, ResultInv, LivePlans
<1> QED BY <1>1, <1>2, <1>4, <1>5, <1>6, <1>7, StepKeeps

LEMMA DeleteUserKeeps ==
  ASSUME IInv, NEW u \in Users, DeleteUser(u)
  PROVE  IInv'
<1>1. /\ UNCHANGED <<now, template, plan, results, call, pc, copy, saw, offered>>
      /\ user' = [user EXCEPT ![u] = "deleted"]
      /\ submissions' = {r \in submissions : call[r].user /= u}
      /\ roster' = [r \in Requests |-> Without(u, roster[r])]
  BY DEF DeleteUser
<1>2. TypeOK'
  BY <1>1 DEF IInv, TypeOK
<1>3. LiveUsers' = LiveUsers \ {u}
  BY <1>1 DEF IInv, TypeOK, LiveUsers
<1>4. Monotone
  <2>1. \A p : Submitters(p) \ {u} \subseteq Submitters(p)'
    BY <1>1 DEF Submitters, SubmissionsOf
  <2> QED BY <1>1, <1>3, <2>1 DEF Monotone, LivePlans
<1>5. PlansHaveTemplates' /\ PlansWellTimed'
  BY <1>1 DEF IInv, PlansHaveTemplates, PlansWellTimed, LivePlans, LiveTemplates
<1>6. RosterIsWhatWasAccepted'
  <2>1. \A r \in Requests : roster[r] = IF r \in results THEN Accepted(call[r].form, LiveUsers) ELSE {}
    BY DEF IInv, RosterIsWhatWasAccepted, Accepted
  <2>2. u /= NoPrincipal /\ Without(u, {}) = {}
    BY TablesAssumption DEF Without
  <2>3. \A r \in Requests : roster'[r] =
          IF r \in results THEN Accepted(call[r].form, LiveUsers \ {u}) ELSE {}
    <3> TAKE r \in Requests
    <3>1. roster'[r] = Without(u, roster[r])
      BY <1>1
    <3>2. Without(u, Accepted(call[r].form, LiveUsers)) = Accepted(call[r].form, LiveUsers \ {u})
      BY <2>2, AcceptedWithout
    <3> QED BY <2>1, <2>2, <3>1, <3>2
  <2> QED BY <1>1, <1>3, <2>3 DEF RosterIsWhatWasAccepted, Accepted
<1>7. /\ \A x \in submissions' :
           x \in submissions /\ call[x].plan \in LivePlans' /\ call[x].user \in LiveUsers'
      /\ \A x \in results' : x \in results /\ call[x].plan \in LivePlans'
  BY <1>1, <1>3 DEF IInv, SubmissionInv, ResultInv, LivePlans
<1> QED BY <1>1, <1>2, <1>4, <1>5, <1>6, <1>7, StepKeeps

-----------------------------------------------------------------------------
(* The steps of a request that change no row.                              *)

LEMMA RequestMoves ==
  ASSUME IInv, NEW r \in Requests, UNCHANGED <<now, rows, call>>,
         NEW s \in PCs, pc' = [pc EXCEPT ![r] = s],
         \/ UNCHANGED copy
         \/ \E c \in {Absent} \cup PlanRows \cup TemplateRows : copy' = [copy EXCEPT ![r] = c],
         UNCHANGED saw \/ \E w \in SUBSET Requests : saw' = [saw EXCEPT ![r] = w],
         RequestInv(r)'
  PROVE  IInv'
<1>1. TypeOK'
  BY DEF IInv, TypeOK, rows
<1>2. \A x \in Requests \ {r} : pc'[x] = pc[x] /\ copy'[x] = copy[x] /\ saw'[x] = saw[x]
  BY DEF IInv, TypeOK
<1> QED BY <1>1, <1>2, RowsKept

(* A request that moves on with its copy, and nothing new to be sure of.   *)
LEMMA EarlyMoves ==
  ASSUME IInv, NEW r \in Requests, UNCHANGED <<now, rows, call, copy>>,
         NEW s \in {"resolved", "known", "begun", "open", "found"}, pc' = [pc EXCEPT ![r] = s],
         s /= "resolved" => pc[r] \in Loaded /\ call[r].op \in {"submit", "read"},
         \/ UNCHANGED saw /\ s /= "found"
         \/ /\ call[r].op = "read"
            /\ \E x \in OwnSubmissions(r) : saw' = [saw EXCEPT ![r] = {x}]
  PROVE  IInv'
<1>1. pc'[r] = s /\ call' = call /\ plan' = plan /\ offered' = offered
  BY DEF IInv, TypeOK, rows
<1>2. CopyFits(r)'
  BY <1>1 DEF IInv, RequestInv, CopyFits, Loaded, LivePlans
<1>3. \A x \in OwnSubmissions(r) : /\ x \in Requests /\ x \in offered
                                    /\ call[x].user = call[r].user
                                    /\ call[x].plan = call[r].plan
  BY DEF IInv, TypeOK, SubmissionInv, OwnSubmissions, SubmissionsOf
<1>4. s = "found" => FoundOne(r)'
  <2> SUFFICES ASSUME call[r].op = "read",
                      NEW x \in OwnSubmissions(r), saw' = [saw EXCEPT ![r] = {x}]
               PROVE  FoundOne(r)'
    OBVIOUS
  <2>1. saw'[r] = {x}
    BY DEF IInv, TypeOK
  <2> QED BY <1>1, <1>3, <2>1 DEF FoundOne
<1>5. RequestInv(r)'
  BY <1>1, <1>2, <1>4 DEF RequestInv, Checked
<1>6. s \in PCs /\ (UNCHANGED saw \/ \E w \in SUBSET Requests : saw' = [saw EXCEPT ![r] = w])
  BY <1>3 DEF PCs
<1> QED BY <1>5, <1>6, RequestMoves

(* A request that has ended has nothing to be sure of.                     *)
LEMMA Ends ==
  ASSUME IInv, NEW r \in Requests, UNCHANGED <<now, rows, call, saw>>,
         NEW s \in {"done", "failed"}, Finish(r, s)
  PROVE  IInv'
<1>1. /\ pc' = [pc EXCEPT ![r] = s] /\ copy' = [copy EXCEPT ![r] = Absent]
      /\ pc'[r] = s /\ s \in PCs
  BY DEF IInv, TypeOK, Finish, PCs
<1>2. RequestInv(r)'
  BY <1>1 DEF RequestInv, CopyFits, Loaded, Checked
<1> QED BY <1>1, <1>2, RequestMoves

LEMMA MiddlewaresKeep ==
  ASSUME IInv, NEW r \in Requests, ResolveLatest(r) \/ CheckCaller(r) \/ CheckOpened(r) \/ CheckNotClosed(r)
  PROVE  IInv'
<1>1. CASE ResolveLatest(r)
  BY <1>1, EarlyMoves DEF ResolveLatest
<1>2. CASE CheckCaller(r)
  <2>1. pc[r] \in Loaded /\ call[r].op \in {"submit", "read"}
    BY <1>2 DEF CheckCaller, Loaded
  <2> QED BY <1>2, <2>1, EarlyMoves DEF CheckCaller
<1>3. CASE CheckOpened(r)
  <2>1. pc[r] \in Loaded /\ call[r].op \in {"submit", "read"}
    BY <1>3 DEF CheckOpened, Loaded, IInv, RequestInv
  <2> QED BY <1>3, <2>1, EarlyMoves DEF CheckOpened
<1>4. CASE CheckNotClosed(r)
  <2>1. pc[r] \in Loaded /\ call[r].op \in {"submit", "read"}
    BY <1>4 DEF CheckNotClosed, Loaded, IInv, RequestInv
  <2> QED BY <1>4, <2>1, EarlyMoves DEF CheckNotClosed
<1> QED BY <1>1, <1>2, <1>3, <1>4

LEMMA LoadPlanKeeps ==
  ASSUME IInv, NEW r \in Requests, LoadPlan(r)
  PROVE  IInv'
<1> DEFINE p == call[r].plan
<1>1. /\ call[r].op /= "retitle" /\ p \in LivePlans
      /\ UNCHANGED <<now, rows, call, saw>>
      /\ copy' = [copy EXCEPT ![r] = plan[p]]
      /\ pc' = [pc EXCEPT ![r] = "loaded"]
  BY DEF LoadPlan
<1>2. plan[p] \in PlanRows /\ plan[p] /= Absent
  BY <1>1 DEF IInv, TypeOK, LivePlans, PlansWellTimed
<1>3. copy'[r] = plan[p] /\ pc'[r] = "loaded" /\ plan' = plan
  BY <1>1 DEF IInv, TypeOK, rows
<1>4. RequestInv(r)'
  BY <1>1, <1>2, <1>3 DEF RequestInv, CopyFits, Checked
<1>5. "loaded" \in PCs
  BY DEF PCs
<1> QED BY <1>1, <1>2, <1>4, <1>5, RequestMoves

LEMMA LoadTemplateKeeps ==
  ASSUME IInv, NEW r \in Requests, LoadTemplate(r)
  PROVE  IInv'
<1> DEFINE t == call[r].template
<1>1. /\ call[r].op = "retitle" /\ t \in LiveTemplates
      /\ UNCHANGED <<now, rows, call, saw>>
      /\ copy' = [copy EXCEPT ![r] = template[t]]
      /\ pc' = [pc EXCEPT ![r] = "loaded"]
  BY DEF LoadTemplate
<1>2. template[t] \in TemplateRows
  BY <1>1 DEF IInv, TypeOK, LiveTemplates
<1>3. copy'[r] = template[t] /\ pc'[r] = "loaded"
  BY <1>1 DEF IInv, TypeOK
<1>4. RequestInv(r)'
  BY <1>1, <1>2, <1>3 DEF RequestInv, CopyFits, Checked
<1>5. "loaded" \in PCs
  BY DEF PCs
<1> QED BY <1>1, <1>2, <1>4, <1>5, RequestMoves

LEMMA ReadsKeep ==
  ASSUME IInv, NEW r \in Requests, FindOwnSubmission(r) \/ ReadOwnItems(r) \/ GiveUp(r)
  PROVE  IInv'
<1>1. CASE /\ Finish(r, "done") \/ Finish(r, "failed")
           /\ UNCHANGED <<now, rows, call, saw>>
  BY <1>1, Ends
<1>2. CASE /\ pc[r] = "open" /\ call[r].op = "read"
           /\ \E x \in OwnSubmissions(r) : saw' = [saw EXCEPT ![r] = {x}]
           /\ pc' = [pc EXCEPT ![r] = "found"]
           /\ UNCHANGED <<now, rows, call, copy>>
  <2>1. pc[r] \in Loaded /\ call[r].op \in {"submit", "read"}
    BY <1>2 DEF Loaded, IInv, RequestInv
  <2> QED BY <1>2, <2>1, EarlyMoves
<1> QED BY <1>1, <1>2 DEF FindOwnSubmission, ReadOwnItems, GiveUp

-----------------------------------------------------------------------------
(* The checks of the forms.                                                *)

(* The slots of a template that was found are all that it ever has.        *)
LEMMA FoundSlots ==
  ASSUME NEW t \in Templates, NEW k \in 1 .. Len(TemplateShifts(t))
  PROVE  {TemplateShifts(t)[k].id} \X TemplateShifts(t)[k].days \subseteq AllSlots(t)
<1>1. TemplateShifts(t) = ShiftsOf[t] \/ TemplateShifts(t) = <<>>
  BY DEF TemplateShifts
<1>2. CASE TemplateShifts(t) = ShiftsOf[t]
  <2>1. ShiftsOf[t][k] \in Range(ShiftsOf[t])
    BY <1>2, TablesAssumption DEF Range
  <2> QED BY <1>2, <2>1 DEF AllSlots
<1>3. CASE TemplateShifts(t) = <<>>
  BY <1>3
<1> QED BY <1>1, <1>2, <1>3

(* A submission that is accepted keeps to the template of the copy.        *)
LEMMA SubmissionFitsTemplate ==
  ASSUME NEW r \in Requests, NEW t \in Templates, call[r].op = "submit",
         SubmissionFits(call[r].form, TemplateShifts(t))
  PROVE  FormFits(r, t)
<1> DEFINE form == call[r].form
           shifts == TemplateShifts(t)
<1>1. SUFFICES ASSUME NEW i \in 1 .. Len(form)
               PROVE  {form[i].shift} \X form[i].days \subseteq AllSlots(t)
  BY DEF FormFits, Slots
<1>2. PICK k \in 1 .. Len(shifts) : shifts[k].id = form[i].shift /\ form[i].days \subseteq shifts[k].days
  BY DEF SubmissionFits
<1>3. {shifts[k].id} \X shifts[k].days \subseteq AllSlots(t)
  BY FoundSlots
<1> QED BY <1>2, <1>3

(* The same of a result.                                                   *)
LEMMA ResultFitsTemplate ==
  ASSUME NEW r \in Requests, NEW t \in Templates, call[r].op = "result",
         ResultFits(call[r].form, TemplateShifts(t))
  PROVE  FormFits(r, t)
<1> DEFINE form == call[r].form
           shifts == TemplateShifts(t)
<1>1. SUFFICES ASSUME NEW i \in 1 .. Len(form), NEW j \in 1 .. Len(form[i].items)
               PROVE  <<form[i].shift, form[i].items[j].day>> \in AllSlots(t)
  <2>1. \A x \in ItemRows(form) : \E i \in 1 .. Len(form) : \E j \in 1 .. Len(form[i].items) :
          x.shift = form[i].shift /\ x.day = form[i].items[j].day
    BY DEF ItemRows
  <2> QED BY <2>1 DEF FormFits
<1>2. PICK k \in 1 .. Len(shifts) : /\ shifts[k].id = form[i].shift
                                    /\ form[i].items[j].day \in shifts[k].days
  BY DEF ResultFits, ResultShiftFits
<1>3. {shifts[k].id} \X shifts[k].days \subseteq AllSlots(t)
  BY FoundSlots
<1> QED BY <1>2, <1>3

(* The staff of a row of a form is the staff of an item.                   *)
LEMMA RowStaff ==
  ASSUME NEW form, NEW x \in ItemRows(form)
  PROVE  \E i \in 1 .. Len(form) : \E j \in 1 .. Len(form[i].items) :
           /\ x.shift = form[i].shift /\ x.day = form[i].items[j].day
           /\ StaffOf({x}) = Staff(form[i].items[j])
<1>1. PICK i \in 1 .. Len(form) : \E j \in 1 .. Len(form[i].items) :
        x = [at |-> <<i, j>>, shift |-> form[i].shift, day |-> form[i].items[j].day,
             principal |-> form[i].items[j].principal,
             assistants |-> Range(form[i].items[j].assistants)]
  BY DEF ItemRows
<1>2. PICK j \in 1 .. Len(form[i].items) :
        x = [at |-> <<i, j>>, shift |-> form[i].shift, day |-> form[i].items[j].day,
             principal |-> form[i].items[j].principal,
             assistants |-> Range(form[i].items[j].assistants)]
  BY <1>1
<1>3. StaffOf({x}) = ({x.principal} \ {NoPrincipal}) \cup x.assistants
  BY DEF StaffOf
<1>4. StaffOf({x}) = Staff(form[i].items[j])
  BY <1>2, <1>3 DEF Staff
<1> QED BY <1>2, <1>4

(* A result that passes is of people who offered what they are given.      *)
LEMMA StaffIsVetted ==
  ASSUME IInv, NEW r \in Requests, CheckResultStaff(r)
  PROVE  Vetted(r)
<1> DEFINE p == call[r].plan
           form == call[r].form
           Offered(first) == [u \in Submitters(p) |-> call[first[u]].form]
<1>1. PICK first \in [Submitters(p) -> SubmissionsOf(p)] :
        /\ \A u \in Submitters(p) : call[first[u]].user = u
        /\ StaffAvailable(form, Offered(first))
  BY DEF CheckResultStaff
<1>2. ASSUME NEW x \in ItemRows(form), NEW u \in StaffOf({x})
      PROVE  /\ u \in Submitters(p)
             /\ <<x.shift, x.day>> \in Slots(call[first[u]].form)
  <2>1. PICK i \in 1 .. Len(form) : \E j \in 1 .. Len(form[i].items) :
          /\ x.shift = form[i].shift /\ x.day = form[i].items[j].day
          /\ StaffOf({x}) = Staff(form[i].items[j])
    BY RowStaff
  <2>2. PICK j \in 1 .. Len(form[i].items) :
          /\ x.shift = form[i].shift /\ x.day = form[i].items[j].day
          /\ StaffOf({x}) = Staff(form[i].items[j])
    BY <2>1
  <2>3. u \in DOMAIN Offered(first) /\ <<x.shift, x.day>> \in Slots(Offered(first)[u])
    <3> HIDE DEF Offered
    <3> QED BY <1>1, <2>2 DEF StaffAvailable
  <2> QED BY <2>3
<1>3. WasOffered(r)
  <2> SUFFICES ASSUME NEW x \in ItemRows(form), NEW u \in StaffOf({x})
               PROVE  \E y \in offered : /\ call[y].user = u
                                         /\ call[y].plan = p
                                         /\ <<x.shift, x.day>> \in Slots(call[y].form)
    BY DEF WasOffered
  <2>1. first[u] \in SubmissionsOf(p) /\ call[first[u]].user = u
    BY <1>1, <1>2
  <2>2. first[u] \in offered /\ call[first[u]].plan = p
    BY <2>1 DEF SubmissionsOf, IInv, SubmissionInv
  <2> QED BY <1>2, <2>1, <2>2
<1>4. Backed(r)
  <2>1. \A u \in StaffOf(ItemRows(form)) : \E x \in ItemRows(form) : u \in StaffOf({x})
    BY DEF StaffOf
  <2> QED BY <1>2, <2>1 DEF Backed
<1> QED BY <1>3, <1>4 DEF Vetted

LEMMA ChecksKeep ==
  ASSUME IInv, NEW r \in Requests,
         CheckSubmission(r) \/ CheckResultForm(r) \/ CheckResultStaff(r)
  PROVE  IInv'
<1> DEFINE t == copy[r].template
           Moves(s) == /\ UNCHANGED <<now, rows, call, copy, saw>>
                       /\ pc' = [pc EXCEPT ![r] = s]
<1>1. ASSUME NEW s \in {"checked", "fits"}, Moves(s), pc[r] \in Loaded, FormFits(r, t),
             s = "fits" => call[r].op = "result",
             call[r].op \in {"submit", "result"},
             s = "checked" /\ call[r].op = "result" => Vetted(r)
      PROVE  IInv'
  <2>1. pc'[r] = s /\ s \in PCs
    BY <1>1 DEF IInv, TypeOK, PCs
  <2>2. UNCHANGED <<user, plan, submissions, offered, call, copy>>
    BY <1>1 DEF rows
  <2>3. Vetted(r) => Vetted(r)'
    BY <2>2 DEF Vetted, WasOffered, Backed, LivePlans, LiveUsers, Submitters, SubmissionsOf
  <2>4. FormFits(r, copy[r].template)'
    BY <1>1, <2>2 DEF FormFits
  <2>5. CopyFits(r)'
    BY <1>1, <2>1, <2>2 DEF IInv, RequestInv, CopyFits, LivePlans
  <2>6. RequestInv(r)'
    BY <1>1, <2>1, <2>2, <2>3, <2>4, <2>5 DEF RequestInv, Checked
  <2> QED BY <1>1, <2>1, <2>6, RequestMoves
<1>2. pc[r] \in Loaded /\ call[r].op /= "retitle" => t \in Templates
  BY DEF IInv, RequestInv, CopyFits, PlanRows
<1>3. CASE CheckSubmission(r)
  <2>1. pc[r] \in Loaded /\ call[r].op = "submit"
    BY <1>3 DEF CheckSubmission, Loaded
  <2>2. FormFits(r, t)
    BY <1>2, <1>3, <2>1, SubmissionFitsTemplate DEF CheckSubmission
  <2> QED BY <1>1, <1>3, <2>1, <2>2 DEF CheckSubmission
<1>4. CASE CheckResultForm(r)
  <2>1. pc[r] \in Loaded /\ call[r].op = "result"
    BY <1>4 DEF CheckResultForm, Loaded
  <2>2. FormFits(r, t)
    BY <1>2, <1>4, <2>1, ResultFitsTemplate DEF CheckResultForm
  <2> QED BY <1>1, <1>4, <2>1, <2>2 DEF CheckResultForm
<1>5. CASE CheckResultStaff(r)
  <2>1. pc[r] = "fits" /\ Moves("checked")
    BY <1>5 DEF CheckResultStaff
  <2>2. pc[r] \in Loaded /\ call[r].op = "result" /\ FormFits(r, t)
    BY <2>1 DEF IInv, RequestInv, Loaded
  <2> QED BY <1>1, <1>5, <2>1, <2>2, StaffIsVetted
<1> QED BY <1>3, <1>4, <1>5

-----------------------------------------------------------------------------
(* The transactions that replace a record.                                 *)

LEMMA StartReplaceKeeps ==
  ASSUME IInv, NEW r \in Requests, StartReplace(r)
  PROVE  IInv'
<1> DEFINE found == {x \in IF call[r].op = "submit" THEN submissions ELSE results : SameKey(x, r)}
<1>1. /\ pc[r] = "checked" /\ UNCHANGED <<now, rows, call, copy>>
      /\ pc' = [pc EXCEPT ![r] = "replacing"]
      /\ saw' = [saw EXCEPT ![r] = found]
  BY DEF StartReplace
<1>2. UNCHANGED <<user, plan, submissions, offered, call, copy>>
  BY <1>1 DEF rows
<1>3. pc'[r] = "replacing" /\ saw'[r] = found /\ "replacing" \in PCs /\ found \in SUBSET Requests
  BY <1>1 DEF IInv, TypeOK, PCs
<1>4. call[r].op \in {"submit", "result"} /\ FormFits(r, copy[r].template) /\ CopyFits(r)
      /\ (call[r].op = "result" => Vetted(r))
  BY <1>1 DEF IInv, RequestInv, Checked
<1>5. \A x \in found : call[x].op = call[r].op /\ SameKey(x, r)
  BY <1>4 DEF IInv, TypeOK
<1> HIDE DEF found
<1>6. (Vetted(r) => Vetted(r)') /\ FormFits(r, copy[r].template)'
  BY <1>2, <1>4 DEF Vetted, WasOffered, Backed, LivePlans, LiveUsers, Submitters, SubmissionsOf,
     FormFits
<1>7. CopyFits(r)'
  BY <1>1, <1>2, <1>3, <1>4 DEF CopyFits, Loaded, LivePlans
<1>8. \A x \in saw'[r] : call'[x].op = call'[r].op /\ SameKey(x, r)'
  BY <1>2, <1>3, <1>5 DEF SameKey
<1>9. RequestInv(r)'
  BY <1>2, <1>3, <1>4, <1>6, <1>7, <1>8 DEF RequestInv, Checked
<1> QED BY <1>1, <1>3, <1>9, RequestMoves

(* A request that ends is all that moves.                                  *)
LEMMA OnlyOneEnds ==
  ASSUME TypeOK, NEW r \in Requests, Finish(r, "done"), UNCHANGED saw
  PROVE  /\ pc' \in [Requests -> PCs]
         /\ copy' \in [Requests -> {Absent} \cup PlanRows \cup TemplateRows]
         /\ \A x \in Requests :
              (pc'[x] = pc[x] /\ copy'[x] = copy[x] /\ saw'[x] = saw[x]) \/ RequestInv(x)'
<1>1. pc' = [pc EXCEPT ![r] = "done"] /\ copy' = [copy EXCEPT ![r] = Absent] /\ "done" \in PCs
  BY DEF Finish, PCs
<1>2. pc'[r] = "done" /\ \A x \in Requests \ {r} : pc'[x] = pc[x] /\ copy'[x] = copy[x]
  BY <1>1 DEF TypeOK
<1>3. RequestInv(r)'
  BY <1>2 DEF RequestInv, CopyFits, Loaded, Checked
<1> QED BY <1>1, <1>2, <1>3 DEF TypeOK

(* What a request that commits was checked for holds of the plan's row.    *)
LEMMA CheckedForPlan ==
  ASSUME IInv, NEW r \in Requests, pc[r] = "replacing", call[r].plan \in LivePlans
  PROVE  /\ FormFits(r, plan[call[r].plan].template)
         /\ call[r].op = "result" => WasOffered(r) /\ Backed(r)
         /\ \A x \in saw[r] : call[x].op = call[r].op /\ SameKey(x, r)
<1>1. RequestInv(r) /\ pc[r] \in Loaded /\ pc[r] \in Checked
  BY DEF IInv, Loaded, Checked
<1> QED BY <1>1 DEF RequestInv, CopyFits, Vetted

LEMMA CommitSubmissionKeeps ==
  ASSUME IInv, NEW r \in Requests, CommitSubmission(r)
  PROVE  IInv'
<1> DEFINE p == call[r].plan
<1>1. /\ pc[r] = "replacing" /\ call[r].op = "submit"
      /\ p \in LivePlans /\ call[r].user \in LiveUsers
      /\ submissions' = (submissions \ saw[r]) \cup {r}
      /\ offered' = offered \cup {r}
      /\ Finish(r, "done")
      /\ UNCHANGED <<now, user, template, plan, results, roster, call, saw>>
  BY DEF CommitSubmission
<1>2. /\ pc' \in [Requests -> PCs]
      /\ copy' \in [Requests -> {Absent} \cup PlanRows \cup TemplateRows]
      /\ \A x \in Requests :
           (pc'[x] = pc[x] /\ copy'[x] = copy[x] /\ saw'[x] = saw[x]) \/ RequestInv(x)'
  BY <1>1, OnlyOneEnds DEF IInv
<1>3. TypeOK'
  BY <1>1, <1>2 DEF IInv, TypeOK
<1>4. FormFits(r, plan[p].template) /\ \A x \in saw[r] : SameKey(x, r)
  BY <1>1, CheckedForPlan
<1>5. LivePlans' = LivePlans /\ LiveUsers' = LiveUsers
  BY <1>1 DEF LivePlans, LiveUsers
<1>6. Monotone
  <2>1. \A q : Submitters(q) \subseteq Submitters(q)'
    <3> SUFFICES ASSUME NEW q, NEW x \in submissions, call[x].plan = q
                 PROVE  \E y \in submissions' : call[y].plan = q /\ call[y].user = call[x].user
      BY <1>1 DEF Submitters, SubmissionsOf
    <3>1. x \in saw[r] => call[r].plan = q /\ call[r].user = call[x].user
      BY <1>1, <1>4 DEF SameKey
    <3> QED BY <1>1, <3>1
  <2> QED BY <1>1, <1>5, <2>1 DEF Monotone
<1>7. SubmissionInv(r)'
  BY <1>1, <1>4, <1>5 DEF SubmissionInv, FormFits
<1>8. \A x \in submissions' :
        \/ x \in submissions /\ call[x].plan \in LivePlans' /\ call[x].user \in LiveUsers'
        \/ SubmissionInv(x)'
  BY <1>1, <1>5, <1>7 DEF IInv, SubmissionInv
<1>9. \A x \in results' : x \in results /\ call[x].plan \in LivePlans'
  BY <1>1, <1>5 DEF IInv, ResultInv
<1>10. PlansHaveTemplates' /\ PlansWellTimed'
  BY <1>1 DEF IInv, PlansHaveTemplates, PlansWellTimed, LivePlans, LiveTemplates
<1>11. RosterIsWhatWasAccepted'
  BY <1>1, <1>5 DEF IInv, RosterIsWhatWasAccepted
<1> QED BY <1>2, <1>3, <1>6, <1>8, <1>9, <1>10, <1>11, StepKeeps

LEMMA CommitResultKeeps ==
  ASSUME IInv, NEW r \in Requests, CommitResult(r)
  PROVE  IInv'
<1> DEFINE p == call[r].plan
           items == ItemRows(call[r].form)
<1>1. /\ pc[r] = "replacing" /\ call[r].op = "result"
      /\ p \in LivePlans /\ StaffOf(items) \subseteq LiveUsers
      /\ results' = (results \ saw[r]) \cup {r}
      /\ roster' = [x \in Requests |-> IF x = r THEN items
                                       ELSE IF x \in saw[r] THEN {} ELSE roster[x]]
      /\ Finish(r, "done")
      /\ UNCHANGED <<now, user, template, plan, submissions, offered, call, saw>>
  BY DEF CommitResult
<1>2. /\ pc' \in [Requests -> PCs]
      /\ copy' \in [Requests -> {Absent} \cup PlanRows \cup TemplateRows]
      /\ \A x \in Requests :
           (pc'[x] = pc[x] /\ copy'[x] = copy[x] /\ saw'[x] = saw[x]) \/ RequestInv(x)'
  BY <1>1, OnlyOneEnds DEF IInv
<1>3. TypeOK'
  BY <1>1, <1>2 DEF IInv, TypeOK
<1>4. FormFits(r, plan[p].template) /\ WasOffered(r) /\ Backed(r)
  BY <1>1, CheckedForPlan
<1>5. LivePlans' = LivePlans /\ LiveUsers' = LiveUsers /\ \A q : Submitters(q)' = Submitters(q)
  BY <1>1 DEF LivePlans, LiveUsers, Submitters, SubmissionsOf
<1>6. Monotone
  BY <1>1, <1>5 DEF Monotone
<1>7. ResultInv(r)'
  <2>1. WasOffered(r)' /\ Backed(r)'
    BY <1>1, <1>4, <1>5 DEF WasOffered, Backed
  <2> QED BY <1>1, <1>4, <1>5, <2>1 DEF ResultInv, FormFits, Vetted
<1>8. \A x \in results' : (x \in results /\ call[x].plan \in LivePlans') \/ ResultInv(x)'
  BY <1>1, <1>5, <1>7 DEF IInv, ResultInv
<1>9. \A x \in submissions' :
        x \in submissions /\ call[x].plan \in LivePlans' /\ call[x].user \in LiveUsers'
  BY <1>1, <1>5 DEF IInv, SubmissionInv
<1>10. PlansHaveTemplates' /\ PlansWellTimed'
  BY <1>1 DEF IInv, PlansHaveTemplates, PlansWellTimed, LivePlans, LiveTemplates
<1>11. RosterIsWhatWasAccepted'
  <2>1. \A x \in Requests : roster[x] = IF x \in results THEN Accepted(call[x].form, LiveUsers) ELSE {}
    BY DEF IInv, RosterIsWhatWasAccepted, Accepted
  <2>2. Accepted(call[r].form, LiveUsers) = items
    BY <1>1, AcceptedWhole
  <2>3. \A x \in Requests : roster'[x] = IF x \in results' THEN Accepted(call[x].form, LiveUsers) ELSE {}
    BY <1>1, <2>1, <2>2
  <2> QED BY <1>1, <1>5, <2>3 DEF RosterIsWhatWasAccepted, Accepted
<1> QED BY <1>2, <1>3, <1>6, <1>8, <1>9, <1>10, <1>11, StepKeeps

-----------------------------------------------------------------------------
(* The edits of a plan and of a template.                                  *)

(* Fields that are replaced by such fields are such fields.                *)
LEMMA MergeType ==
  ASSUME NEW F, NEW V, NEW fields \in [F -> V], NEW change,
         \A f \in DOMAIN change : change[f] \in V
  PROVE  Merge(fields, change) \in [F -> V]
BY DEF Merge

(* An edit of a plan writes a row, with its template and times in order.   *)
LEMMA EditedPlan ==
  ASSUME IInv, NEW r \in Requests, UpdateSchedulePlan(r)
  PROVE  \E p \in LivePlans : \E row \in PlanRows :
           /\ plan' = [plan EXCEPT ![p] = row]
           /\ row \notin {Absent, Deleted}
           /\ row.template = plan[p].template
           /\ PlanTimesValid(row.times)
           /\ row.times \in [Times -> Nat]
<1> DEFINE p == call[r].plan
           times == Merge(copy[r].times, call[r].change)
           row == [plan[p] EXCEPT !.times = times, !.version = @ + 1]
<1>1. /\ pc[r] = "loaded" /\ call[r].op = "update" /\ p \in LivePlans
      /\ PlanTimesValid(times)
      /\ plan' = [plan EXCEPT ![p] = row]
  BY DEF UpdateSchedulePlan, UpdatePlan
<1>2. p \in Plans /\ plan[p] \in PlanRows
  BY <1>1 DEF IInv, TypeOK, LivePlans
<1>3. times \in [Times -> Nat]
  <2>1. copy[r].times \in [Times -> Nat]
    BY <1>1 DEF IInv, RequestInv, CopyFits, Loaded, PlanRows
  <2>2. \A f \in DOMAIN call[r].change : call[r].change[f] \in Nat
    BY <1>1, CallsNamePlans, CallsAssumption DEF IInv
  <2> HIDE DEF p
  <2> QED BY <2>1, <2>2, MergeType
<1>4. row \in PlanRows /\ row.template = plan[p].template /\ row.times = times
  <2> HIDE DEF times, p
  <2> DEFINE old == plan[p]
  <2>1. /\ old \in [template : Templates, times : [Times -> Nat],
                    version : Nat \ {0}, created : 0 .. MaxTime]
        /\ old.version + 1 \in Nat \ {0}
        /\ old = [template |-> old.template, times |-> old.times, version |-> old.version,
                  created |-> old.created]
    BY <1>2 DEF PlanRows
  <2> HIDE DEF old
  <2>2. [old EXCEPT !.times = times, !.version = @ + 1] =
          [template |-> old.template, times |-> times, version |-> old.version + 1,
           created |-> old.created]
    <3> DEFINE mid == [old EXCEPT !.times = times]
    <3>1. mid = [template |-> old.template, times |-> times, version |-> old.version,
                 created |-> old.created]
      BY <2>1
    <3> HIDE DEF mid
    <3>2. [mid EXCEPT !.version = @ + 1] =
            [template |-> old.template, times |-> times, version |-> old.version + 1,
             created |-> old.created]
      BY <3>1
    <3>3. [old EXCEPT !.times = times, !.version = @ + 1] = [mid EXCEPT !.version = @ + 1]
      BY DEF mid
    <3> QED BY <3>2, <3>3
  <2>3. [template |-> old.template, times |-> times, version |-> old.version + 1,
         created |-> old.created] \in PlanRows
    BY <1>3, <2>1 DEF PlanRows
  <2> QED BY <2>2, <2>3 DEF old
<1>5. row \notin {Absent, Deleted}
  BY <1>4, TablesAssumption
<1> HIDE DEF row, times
<1> QED BY <1>1, <1>3, <1>4, <1>5

LEMMA UpdatePlanKeeps ==
  ASSUME IInv, NEW r \in Requests, UpdateSchedulePlan(r)
  PROVE  IInv'
<1>1. /\ Finish(r, "done")
      /\ UNCHANGED <<now, user, template, submissions, results, roster, call, saw, offered>>
  BY DEF UpdateSchedulePlan
<1>2. PICK p \in LivePlans : \E row \in PlanRows :
        /\ plan' = [plan EXCEPT ![p] = row]
        /\ row \notin {Absent, Deleted}
        /\ row.template = plan[p].template
        /\ PlanTimesValid(row.times)
        /\ row.times \in [Times -> Nat]
  BY EditedPlan
<1>3. PICK row \in PlanRows :
        /\ plan' = [plan EXCEPT ![p] = row]
        /\ row \notin {Absent, Deleted}
        /\ row.template = plan[p].template
        /\ PlanTimesValid(row.times)
        /\ row.times \in [Times -> Nat]
  BY <1>2
<1>4. p \in Plans /\ plan'[p] = row /\ \A q \in Plans : q /= p => plan'[q] = plan[q]
  BY <1>3 DEF LivePlans, IInv, TypeOK
<1>5. LivePlans' = LivePlans
  BY <1>3, <1>4 DEF LivePlans
<1>6. /\ pc' \in [Requests -> PCs]
      /\ copy' \in [Requests -> {Absent} \cup PlanRows \cup TemplateRows]
      /\ \A x \in Requests :
           (pc'[x] = pc[x] /\ copy'[x] = copy[x] /\ saw'[x] = saw[x]) \/ RequestInv(x)'
  BY <1>1, OnlyOneEnds DEF IInv
<1>7. TypeOK'
  BY <1>1, <1>3, <1>6 DEF IInv, TypeOK
<1>8. Monotone
  <2>1. LiveUsers' = LiveUsers /\ \A q \in Plans : Submitters(q)' = Submitters(q)
    BY <1>1 DEF LiveUsers, Submitters, SubmissionsOf
  <2> QED BY <1>1, <1>3, <1>4, <1>5, <2>1 DEF Monotone
<1>9. PlansHaveTemplates'
  BY <1>1, <1>3, <1>4, <1>5 DEF IInv, PlansHaveTemplates, LivePlans, LiveTemplates
<1>10. PlansWellTimed'
  BY <1>1, <1>3, <1>4, <1>5, AcceptedTimes DEF IInv, PlansWellTimed, LivePlans
<1>11. RosterIsWhatWasAccepted'
  BY <1>1 DEF IInv, RosterIsWhatWasAccepted, LiveUsers
<1>12. /\ \A x \in submissions' :
            x \in submissions /\ call[x].plan \in LivePlans' /\ call[x].user \in LiveUsers'
       /\ \A x \in results' : x \in results /\ call[x].plan \in LivePlans'
  BY <1>1, <1>5 DEF IInv, SubmissionInv, ResultInv, LiveUsers
<1> QED BY <1>6, <1>7, <1>8, <1>9, <1>10, <1>11, <1>12, StepKeeps

LEMMA UpdateTemplateKeeps ==
  ASSUME IInv, NEW r \in Requests, UpdateScheduleTemplate(r)
  PROVE  IInv'
<1> DEFINE t == call[r].template
           text == Merge(copy[r].text, call[r].change)
           row == [text |-> text, version |-> template[t].version + 1]
<1>1. /\ pc[r] = "loaded" /\ call[r].op = "retitle" /\ t \in LiveTemplates
      /\ template' = [template EXCEPT ![t] = row]
      /\ Finish(r, "done")
      /\ UNCHANGED <<now, user, plan, submissions, results, roster, call, saw, offered>>
  BY DEF UpdateScheduleTemplate
<1>2. t \in Templates /\ template[t] \in TemplateRows
  BY <1>1 DEF IInv, TypeOK, LiveTemplates
<1>3. text \in [Texts -> Names]
  <2>1. copy[r].text \in [Texts -> Names]
    BY <1>1 DEF IInv, RequestInv, CopyFits, Loaded, TemplateRows
  <2>2. \A f \in DOMAIN call[r].change : call[r].change[f] \in Names
    BY <1>1, CallsNamePlans, CallsAssumption DEF IInv
  <2> QED BY <2>1, <2>2, MergeType
<1>4. row \in TemplateRows
  BY <1>2, <1>3 DEF TemplateRows
<1>5. row \notin {Absent, Deleted}
  BY <1>4, TablesAssumption
<1> HIDE DEF row, text
<1>6. LiveTemplates \subseteq LiveTemplates'
  BY <1>1, <1>2, <1>5 DEF IInv, TypeOK, LiveTemplates
<1>7. /\ pc' \in [Requests -> PCs]
      /\ copy' \in [Requests -> {Absent} \cup PlanRows \cup TemplateRows]
      /\ \A x \in Requests :
           (pc'[x] = pc[x] /\ copy'[x] = copy[x] /\ saw'[x] = saw[x]) \/ RequestInv(x)'
  BY <1>1, OnlyOneEnds DEF IInv
<1>8. TypeOK'
  BY <1>1, <1>4, <1>7 DEF IInv, TypeOK
<1>9. Monotone
  BY <1>1 DEF Monotone, LiveUsers, LivePlans, Submitters, SubmissionsOf
<1>10. PlansHaveTemplates' /\ PlansWellTimed'
  BY <1>1, <1>6 DEF IInv, PlansHaveTemplates, PlansWellTimed, LivePlans
<1>11. RosterIsWhatWasAccepted'
  BY <1>1 DEF IInv, RosterIsWhatWasAccepted, LiveUsers
<1>12. /\ \A x \in submissions' :
            x \in submissions /\ call[x].plan \in LivePlans' /\ call[x].user \in LiveUsers'
       /\ \A x \in results' : x \in results /\ call[x].plan \in LivePlans'
  BY <1>1 DEF IInv, SubmissionInv, ResultInv, LivePlans, LiveUsers
<1> QED BY <1>7, <1>8, <1>9, <1>10, <1>11, <1>12, StepKeeps

-----------------------------------------------------------------------------
(* What holds in every state.                                              *)

LEMMA StepKeepsIInv == IInv /\ [Next]_vars => IInv'
<1> SUFFICES ASSUME IInv, [Next]_vars PROVE IInv'
  OBVIOUS
<1>1. CASE Tick
  BY <1>1, TickKeeps
<1>2. ASSUME NEW t \in Templates, CreateScheduleTemplate(t) \/ DeleteScheduleTemplate(t)
      PROVE  IInv'
  BY <1>2, CreateTemplateKeeps, DeleteTemplateKeeps
<1>3. ASSUME NEW p \in Plans, NEW t \in Templates, NEW times \in Windows,
             CreateSchedulePlan(p, t, times)
      PROVE  IInv'
  BY <1>3, CreatePlanKeeps
<1>4. ASSUME NEW p \in Plans, DeleteSchedulePlan(p) PROVE IInv'
  BY <1>4, DeletePlanKeeps
<1>5. ASSUME NEW u \in Users, DeleteUser(u) \/ SetActive(u, "active") \/ SetActive(u, "left")
      PROVE  IInv'
  BY <1>5, DeleteUserKeeps, SetActiveKeeps
<1>6. ASSUME NEW r \in Requests, RequestStep(r) PROVE IInv'
  BY <1>6, MiddlewaresKeep, LoadPlanKeeps, LoadTemplateKeeps, ReadsKeep, ChecksKeep,
     StartReplaceKeeps, CommitSubmissionKeeps, CommitResultKeeps, UpdatePlanKeeps,
     UpdateTemplateKeeps DEF RequestStep
<1>7. CASE UNCHANGED vars
  <2>1. UNCHANGED <<now, rows, call, pc, copy, saw>>
    BY <1>7 DEF vars, rows
  <2>2. TypeOK'
    BY <2>1 DEF IInv, TypeOK, rows
  <2> QED BY <2>1, <2>2, RowsKept
<1> QED BY <1>1, <1>2, <1>3, <1>4, <1>5, <1>6, <1>7 DEF Next

(* What was checked on copies still holds of the rows, for any number of   *)
(* users, plans, templates and requests.                                   *)
THEOREM Invariance == Spec => []IInv
<1> QED BY InitIInv, StepKeepsIInv, PTL DEF Spec

(* Every table and every copy holds rows of its kind.                      *)
THEOREM TypeCorrect == Spec => []TypeOK
<1>1. IInv => TypeOK
  BY DEF IInv
<1> QED BY <1>1, Invariance, PTL

(* A plan opens before it closes, closes before it takes effect and takes  *)
(* effect before it ends, however partial updates of its times race.       *)
THEOREM PlansStayWellTimed == Spec => []PlansWellTimed
<1>1. IInv => PlansWellTimed
  BY DEF IInv
<1> QED BY <1>1, Invariance, PTL

(* A stored result is the accepted one less the users deleted since.       *)
THEOREM RostersAreAccepted == Spec => []RosterIsWhatWasAccepted
<1>1. IInv => RosterIsWhatWasAccepted
  BY DEF IInv
<1> QED BY <1>1, Invariance, PTL

(* The rows of a stored result are what is left of its form.               *)
LEMMA RosterRows ==
  ASSUME IInv, NEW r \in results, NEW i \in roster[r]
  PROVE  /\ r \in Requests /\ call[r].op = "result" /\ call[r].plan \in LivePlans
         /\ FormFits(r, plan[call[r].plan].template) /\ WasOffered(r) /\ Backed(r)
         /\ StaffOf({i}) \subseteq LiveUsers
         /\ \E k \in ItemRows(call[r].form) : /\ i.shift = k.shift /\ i.day = k.day
                                              /\ StaffOf({i}) \subseteq StaffOf({k})
<1>1. r \in Requests /\ call[r].op = "result" /\ ResultInv(r)
  BY DEF IInv, TypeOK
<1>2. i \in Accepted(call[r].form, LiveUsers)
  BY <1>1 DEF IInv, RosterIsWhatWasAccepted, Accepted
<1>3. StaffOf({i}) \subseteq LiveUsers
      /\ \E k \in ItemRows(call[r].form) : /\ i.shift = k.shift /\ i.day = k.day
                                           /\ StaffOf({i}) \subseteq StaffOf({k})
  BY <1>2, AcceptedStaff
<1> QED BY <1>1, <1>3 DEF ResultInv, Vetted

(* The slots of stored submissions and results are of the template of      *)
(* their plan, although the template was read from a copy of the plan.     *)
THEOREM StoredFits == Spec => []StoredFitsTemplate
<1>1. ASSUME IInv PROVE StoredFitsTemplate
  <2>1. ASSUME NEW p \in LivePlans PROVE TemplateSlots(plan[p].template) = AllSlots(plan[p].template)
    BY <1>1 DEF IInv, PlansHaveTemplates, TemplateSlots, TemplateShifts, AllSlots
  <2>2. ASSUME NEW r \in submissions
        PROVE  Slots(call[r].form) \subseteq TemplateSlots(plan[call[r].plan].template)
    <3>1. SubmissionInv(r) /\ call[r].op = "submit"
      BY <1>1 DEF IInv, TypeOK
    <3> QED BY <2>1, <3>1 DEF SubmissionInv, FormFits
  <2>3. ASSUME NEW r \in results, NEW i \in roster[r]
        PROVE  <<i.shift, i.day>> \in TemplateSlots(plan[call[r].plan].template)
    <3>1. PICK k \in ItemRows(call[r].form) : i.shift = k.shift /\ i.day = k.day
      BY <1>1, RosterRows
    <3>2. call[r].op = "result" /\ call[r].plan \in LivePlans
          /\ FormFits(r, plan[call[r].plan].template)
      BY <1>1, RosterRows
    <3> QED BY <2>1, <3>1, <3>2 DEF FormFits
  <2> QED BY <2>2, <2>3 DEF StoredFitsTemplate
<1> QED BY <1>1, Invariance, PTL

(* Nobody is on a slot of a stored result that they never offered.         *)
THEOREM OfferedBeforeRostered == Spec => []RosterWasOffered
<1>1. ASSUME IInv PROVE RosterWasOffered
  <2> SUFFICES ASSUME NEW r \in results, NEW i \in roster[r], NEW u \in StaffOf({i})
               PROVE  \E x \in offered : /\ call[x].user = u
                                         /\ call[x].plan = call[r].plan
                                         /\ <<i.shift, i.day>> \in Slots(call[x].form)
    BY DEF RosterWasOffered
  <2>1. PICK k \in ItemRows(call[r].form) : /\ i.shift = k.shift /\ i.day = k.day
                                            /\ u \in StaffOf({k})
    BY <1>1, RosterRows
  <2>2. WasOffered(r)
    BY <1>1, RosterRows
  <2> QED BY <2>1, <2>2 DEF WasOffered
<1> QED BY <1>1, Invariance, PTL

(* Everyone on a stored result is there and has a submission for the plan, *)
(* whatever was deleted or submitted again while it was checked.           *)
THEOREM RosteredStillSubmitted == Spec => []RosteredHaveSubmitted
<1>1. ASSUME IInv PROVE RosteredHaveSubmitted
  <2> SUFFICES ASSUME NEW r \in results, NEW u \in StaffOf(roster[r])
               PROVE  u \in LiveUsers \cap Submitters(call[r].plan)
    BY DEF RosteredHaveSubmitted
  <2>1. PICK i \in roster[r] : u \in StaffOf({i})
    BY DEF StaffOf
  <2>2. PICK k \in ItemRows(call[r].form) : u \in StaffOf({k})
    BY <1>1, <2>1, RosterRows
  <2>3. u \in StaffOf(ItemRows(call[r].form))
    BY <2>2 DEF StaffOf
  <2> QED BY <1>1, <2>1, <2>3, RosterRows DEF Backed
<1> QED BY <1>1, Invariance, PTL

-----------------------------------------------------------------------------
(* What a step may never do.                                               *)

(* A request moves in a step of its own.                                   *)
LEMMA OwnStep ==
  ASSUME TypeOK, [Next]_vars, NEW r \in Requests, pc'[r] /= pc[r]
  PROVE  RequestStep(r)
<1>1. ASSUME NEW x \in Requests, RequestStep(x) PROVE \E s : pc' = [pc EXCEPT ![x] = s]
  BY <1>1 DEF RequestStep, ResolveLatest, LoadPlan, LoadTemplate, CheckCaller, CheckOpened, CheckNotClosed,
     CheckSubmission, CheckResultForm, CheckResultStaff, StartReplace, CommitSubmission,
     CommitResult, FindOwnSubmission, ReadOwnItems, UpdateSchedulePlan, UpdateScheduleTemplate,
     GiveUp, Finish
<1>2. \/ UNCHANGED pc
      \/ \E x \in Requests : RequestStep(x)
  BY DEF Next, vars, Tick, CreateScheduleTemplate, DeleteScheduleTemplate, CreateSchedulePlan,
     DeleteSchedulePlan, DeleteUser, SetActive
<1>3. PICK x \in Requests : RequestStep(x)
  BY <1>2
<1>4. x = r
  BY <1>1, <1>3 DEF TypeOK
<1> QED BY <1>3, <1>4

(* What a user reads back is one submission of theirs, or nothing of one   *)
(* that has gone.                                                          *)
THEOREM OneSubmissionIsRead == Spec => ReadsOneSubmission
<1> DEFINE One(r) ==
             \/ \E x \in offered : /\ call[x].user = call[r].user
                                   /\ call[x].plan = call[r].plan
                                   /\ ItemsRead(r) = Slots(call[x].form)
             \/ ItemsRead(r) = {} /\ \E x \in offered : x \in saw[r] \ submissions
<1>1. ASSUME IInv, NEW r \in Requests, pc[r] = "found" PROVE One(r)
  <2>1. PICK x \in offered : /\ saw[r] = {x}
                             /\ call[x].user = call[r].user
                             /\ call[x].plan = call[r].plan
    BY <1>1 DEF IInv, RequestInv, FoundOne
  <2>2. CASE x \in submissions
    <3>1. ItemsRead(r) = Slots(call[x].form)
      BY <2>1, <2>2 DEF ItemsRead
    <3> QED BY <2>1, <3>1
  <2>3. CASE x \notin submissions
    <3>1. ItemsRead(r) = {}
      BY <2>1, <2>3 DEF ItemsRead
    <3> QED BY <2>1, <2>3, <3>1
  <2> QED BY <2>2, <2>3
<1>2. IInv => [\A r \in Requests : pc[r] = "found" /\ pc'[r] = "done" => One(r)]_vars
  BY <1>1
<1> QED BY <1>2, Invariance, PTL DEF Spec, ReadsOneSubmission

-----------------------------------------------------------------------------
(* The submissions and the results implement KeyedStore.                   *)

LEMMA PhaseIs ==
  ASSUME TypeOK, NEW r \in Requests, NEW op
  PROVE  PhaseOf(r, op) = IF call[r].op /= op THEN "waiting"
                          ELSE IF pc[r] = "replacing" THEN "open"
                          ELSE IF pc[r] = "done" THEN "stored"
                          ELSE IF pc[r] = "failed" THEN "failed" ELSE "waiting"
<1> pc[r] \in PCs
  BY DEF TypeOK
<1> QED BY DEF PhaseOf, PCs, Running

LEMMA NextPhaseIs ==
  ASSUME TypeOK', NEW r \in Requests, NEW op
  PROVE  PhaseOf(r, op)' = IF call'[r].op /= op THEN "waiting"
                           ELSE IF pc'[r] = "replacing" THEN "open"
                           ELSE IF pc'[r] = "done" THEN "stored"
                           ELSE IF pc'[r] = "failed" THEN "failed" ELSE "waiting"
<1> pc'[r] \in PCs
  BY DEF TypeOK
<1> QED BY DEF PhaseOf, PCs, Running

(* A step of one request is not one of another.                            *)
LEMMA OthersStay ==
  ASSUME TypeOK, NEW r \in Requests, RequestStep(r)
  PROVE  /\ call' = call
         /\ \A x \in Requests \ {r} : pc'[x] = pc[x] /\ saw'[x] = saw[x]
<1>1. /\ call' = call
      /\ \E s : pc' = [pc EXCEPT ![r] = s]
      /\ saw' = saw \/ \E w : saw' = [saw EXCEPT ![r] = w]
  BY DEF RequestStep, ResolveLatest, LoadPlan, LoadTemplate, CheckCaller, CheckOpened, CheckNotClosed,
     CheckSubmission, CheckResultForm, CheckResultStaff, StartReplace, CommitSubmission,
     CommitResult, FindOwnSubmission, ReadOwnItems, UpdateSchedulePlan, UpdateScheduleTemplate,
     GiveUp, Finish
<1> QED BY <1>1 DEF TypeOK

\* A step that neither opens, stores nor fails a request of the op.
Quiet(op) ==
    \A x \in Requests : call[x].op = op => PhaseOf(x, op)' = PhaseOf(x, op) /\ saw'[x] = saw[x]

(* Only four of the steps of a request are about the store of an op.       *)
LEMMA QuietSteps ==
  ASSUME IInv, TypeOK', NEW r \in Requests, RequestStep(r), NEW op \in {"submit", "result"}
  PROVE  \/ Quiet(op)
         \/ call[r].op = op /\ (StartReplace(r) \/ GiveUp(r))
         \/ op = "submit" /\ CommitSubmission(r)
         \/ op = "result" /\ CommitResult(r)
<1>1. TypeOK /\ call' = call /\ \A x \in Requests \ {r} : pc'[x] = pc[x] /\ saw'[x] = saw[x]
  BY OthersStay DEF IInv
<1>2. \A x \in Requests \ {r} : PhaseOf(x, op)' = PhaseOf(x, op)
  BY <1>1 DEF PhaseOf
<1>3. CASE call[r].op /= op
  BY <1>1, <1>2, <1>3 DEF Quiet
<1>4. ASSUME call[r].op = op, saw'[r] = saw[r],
             pc[r] \in Running \ {"replacing"}, pc'[r] \in Running \ {"replacing"}
      PROVE  Quiet(op)
  <2>1. PhaseOf(r, op) = "waiting" /\ PhaseOf(r, op)' = "waiting"
    <3>1. PhaseOf(r, op) = "waiting"
      BY <1>1, <1>4, PhaseIs DEF Running
    <3>2. PhaseOf(r, op)' = IF call'[r].op /= op THEN "waiting"
                            ELSE IF pc'[r] = "replacing" THEN "open"
                            ELSE IF pc'[r] = "done" THEN "stored"
                            ELSE IF pc'[r] = "failed" THEN "failed" ELSE "waiting"
      BY NextPhaseIs
    <3> QED BY <1>1, <1>4, <3>1, <3>2 DEF Running
  <2> QED BY <1>1, <1>2, <1>4, <2>1 DEF Quiet
<1>5. ASSUME call[r].op = op,
             \/ ResolveLatest(r) \/ LoadPlan(r) \/ CheckCaller(r) \/ CheckOpened(r) \/ CheckNotClosed(r)
             \/ CheckSubmission(r) \/ CheckResultForm(r) \/ CheckResultStaff(r)
      PROVE  Quiet(op)
  <2>1. pc[r] \in {"new", "resolved", "loaded", "known", "begun", "open", "fits"}
    BY <1>5 DEF ResolveLatest, LoadPlan, CheckCaller, CheckOpened, CheckNotClosed, CheckSubmission,
       CheckResultForm, CheckResultStaff
  <2>2. /\ pc'[r] \in {"resolved", "loaded", "known", "begun", "open", "fits", "checked"}
        /\ saw'[r] = saw[r]
    BY <1>1, <1>5 DEF TypeOK, ResolveLatest, LoadPlan, CheckCaller, CheckOpened, CheckNotClosed,
       CheckSubmission, CheckResultForm, CheckResultStaff
  <2> QED BY <1>4, <1>5, <2>1, <2>2 DEF Running, PCs
<1>6. ReadOwnItems(r) => call[r].op = "read"
  BY DEF ReadOwnItems, IInv, RequestInv, FoundOne
<1> QED BY <1>3, <1>5, <1>6 DEF RequestStep, LoadTemplate, FindOwnSubmission,
        UpdateSchedulePlan, UpdateScheduleTemplate, CommitSubmission, CommitResult

(* Where a request is, when it takes one of the others.                    *)
LEMMA StorePhases ==
  ASSUME IInv, TypeOK', NEW r \in Requests, NEW op \in {"submit", "result"}, call[r].op = op
  PROVE  /\ StartReplace(r) => PhaseOf(r, op) = "waiting" /\ PhaseOf(r, op)' = "open"
         /\ GiveUp(r) => PhaseOf(r, op) \in {"waiting", "open"} /\ PhaseOf(r, op)' = "failed"
         /\ CommitSubmission(r) \/ CommitResult(r) =>
              PhaseOf(r, op) = "open" /\ PhaseOf(r, op)' = "stored"
<1>1. TypeOK
  BY DEF IInv
<1>2. PhaseOf(r, op) = IF pc[r] = "replacing" THEN "open"
                       ELSE IF pc[r] = "done" THEN "stored"
                       ELSE IF pc[r] = "failed" THEN "failed" ELSE "waiting"
  BY <1>1, PhaseIs
<1>3. call' = call => PhaseOf(r, op)' = IF pc'[r] = "replacing" THEN "open"
                                        ELSE IF pc'[r] = "done" THEN "stored"
                                        ELSE IF pc'[r] = "failed" THEN "failed" ELSE "waiting"
  BY NextPhaseIs
<1>4. ASSUME StartReplace(r) PROVE pc[r] = "checked" /\ pc'[r] = "replacing" /\ call' = call
  BY <1>1, <1>4 DEF StartReplace, TypeOK
<1>5. ASSUME GiveUp(r) PROVE pc[r] \notin {"done", "failed"} /\ pc'[r] = "failed" /\ call' = call
  BY <1>1, <1>5 DEF GiveUp, Finish, TypeOK, Running
<1>6. ASSUME CommitSubmission(r) \/ CommitResult(r)
      PROVE  pc[r] = "replacing" /\ pc'[r] = "done" /\ call' = call
  BY <1>1, <1>6 DEF CommitSubmission, CommitResult, Finish, TypeOK
<1> QED BY <1>2, <1>3, <1>4, <1>5, <1>6

(* The initial states of the submissions are those of a KeyedStore.        *)
LEMMA InitSubmissionStore == Init => SubmissionStore!Init
<1> SUFFICES ASSUME Init PROVE SubmissionStore!Init
  OBVIOUS
<1>1. TypeOK
  BY InitIInv DEF IInv
<1>2. \A r \in Requests : PhaseOf(r, "submit") = "waiting"
  BY <1>1, PhaseIs DEF Init
<1>3. \A r \in Requests : SubmissionKey(r) \in Users \X Plans
  <2>1. Users \X Plans /= {}
    <3>1. PICK u : u \in Users
      BY TablesAssumption
    <3>2. PICK p : p \in Plans
      BY TablesAssumption
    <3>3. <<u, p>> \in Users \X Plans
      BY <3>1, <3>2
    <3> QED BY <3>3
  <2> QED BY <1>1, <2>1, CallsNamePlans DEF SubmissionKey
<1>4. LiveParents = Parents
  BY TablesAssumption DEF Init, LiveParents
<1> QED BY <1>2, <1>3, <1>4 DEF Init, SubmissionStore!Init

(* The initial states of the results are those of a KeyedStore.        *)
LEMMA InitResultStore == Init => ResultStore!Init
<1> SUFFICES ASSUME Init PROVE ResultStore!Init
  OBVIOUS
<1>1. TypeOK
  BY InitIInv DEF IInv
<1>2. \A r \in Requests : PhaseOf(r, "result") = "waiting"
  BY <1>1, PhaseIs DEF Init
<1>3. \A r \in Requests : ResultKey(r) \in Plans
  <2>1. Plans /= {}
    BY TablesAssumption
  <2> QED BY <1>1, <2>1, CallsNamePlans DEF ResultKey
<1>4. LiveParents = Parents
  BY TablesAssumption DEF Init, LiveParents
<1> QED BY <1>2, <1>3, <1>4 DEF Init, ResultStore!Init

(* A request drops no parent.                                              *)
LEMMA RequestKeepsParents ==
  ASSUME IInv, NEW r \in Requests, RequestStep(r)
  PROVE  LiveParents' = LiveParents
<1>1. user' = user /\ (UNCHANGED plan \/ UpdateSchedulePlan(r))
  BY DEF RequestStep, ResolveLatest, LoadPlan, LoadTemplate, CheckCaller, CheckOpened, CheckNotClosed,
     CheckSubmission, CheckResultForm, CheckResultStaff, StartReplace, CommitSubmission,
     CommitResult, FindOwnSubmission, ReadOwnItems, UpdateSchedulePlan, UpdateScheduleTemplate,
     GiveUp, rows
<1>2. {p \in Plans : plan[p] = Deleted}' = {p \in Plans : plan[p] = Deleted}
  BY <1>1, EditedPlan DEF IInv, TypeOK, LivePlans
<1> QED BY <1>1, <1>2 DEF LiveParents

(* Neither does the creation of a plan.                                    *)
LEMMA CreateKeepsParents ==
  ASSUME IInv, NEW p \in Plans, NEW t \in Templates, NEW times \in Windows,
         CreateSchedulePlan(p, t, times)
  PROVE  LiveParents' = LiveParents
<1> DEFINE row == [template |-> t, times |-> times, version |-> 1, created |-> now]
<1>1. /\ row \in PlanRows /\ plan[p] = Absent /\ user' = user
      /\ plan' = [plan EXCEPT ![p] = row]
  BY TablesAssumption DEF CreateSchedulePlan, InsertPlan, PlanRows, IInv, TypeOK
<1> HIDE DEF row
<1>2. {q \in Plans : plan[q] = Deleted}' = {q \in Plans : plan[q] = Deleted}
  BY <1>1, TablesAssumption DEF IInv, TypeOK
<1> QED BY <1>1, <1>2 DEF LiveParents

(* Where the requests of an op are, and what they found, as one of them moves. *)
LEMMA OneMoves ==
  ASSUME TypeOK, NEW r \in Requests, RequestStep(r), NEW op
  PROVE  \A x \in Requests \ {r} : PhaseOf(x, op)' = PhaseOf(x, op) /\ saw'[x] = saw[x]
BY OthersStay DEF PhaseOf

(* A record leaves the submissions only as KeyedStore has it.              *)
LEMMA StepSubmissionStore ==
  ASSUME IInv, IInv', [Next]_vars
  PROVE  [SubmissionStore!Next]_SubmissionStore!vars
<1> DEFINE Saw(x) == IF call[x].op = "submit" THEN saw[x] ELSE {}
           Same(x) == PhaseOf(x, "submit")' = PhaseOf(x, "submit") /\ Saw(x)' = Saw(x)
           Phases == [x \in Requests |-> PhaseOf(x, "submit")]
           Keys == [x \in Requests |-> SubmissionKey(x)]
           Saws == [x \in Requests |-> Saw(x)]
<1>1. TypeOK /\ TypeOK'
  BY DEF IInv
<1>2. ASSUME \A x \in Requests : Same(x), UNCHANGED <<call, submissions>>, LiveParents' = LiveParents
      PROVE  UNCHANGED SubmissionStore!vars
  BY <1>2 DEF SubmissionStore!vars, SubmissionKey
<1>3. ASSUME NEW r \in Requests, RequestStep(r)
      PROVE  /\ call' = call /\ LiveParents' = LiveParents
             /\ \A x \in Requests \ {r} : Same(x)
             /\ CommitSubmission(r) \/ submissions' = submissions
             /\ Phases' = [Phases EXCEPT ![r] = PhaseOf(r, "submit")']
             /\ Keys' = Keys
             /\ Saws' = [Saws EXCEPT ![r] = Saw(r)']
  <2>1. call' = call /\ \A x \in Requests \ {r} : Same(x)
    BY <1>1, <1>3, OneMoves, OthersStay
  <2>2. LiveParents' = LiveParents
    BY <1>3, RequestKeepsParents
  <2>3. CommitSubmission(r) \/ submissions' = submissions
    BY <1>3 DEF RequestStep, ResolveLatest, LoadPlan, LoadTemplate, CheckCaller,
       CheckOpened, CheckNotClosed, CheckSubmission, CheckResultForm, CheckResultStaff, StartReplace,
       CommitResult, FindOwnSubmission, ReadOwnItems, UpdateSchedulePlan, UpdateScheduleTemplate,
       GiveUp, rows
  <2>4. Keys' = Keys
    BY <2>1 DEF SubmissionKey
  <2>5. /\ Phases' = [Phases EXCEPT ![r] = PhaseOf(r, "submit")']
        /\ Saws' = [Saws EXCEPT ![r] = Saw(r)']
    <3> HIDE DEF Saw
    <3> QED BY <2>1
  <2> QED BY <2>1, <2>2, <2>3, <2>4, <2>5
<1>4. ASSUME NEW r \in Requests, RequestStep(r), call[r].op = "submit", StartReplace(r)
      PROVE  SubmissionStore!Open(r)
  <2>1. PhaseOf(r, "submit") = "waiting" /\ PhaseOf(r, "submit")' = "open"
    BY <1>1, <1>4, StorePhases
  <2>2. {x \in submissions : SameKey(x, r)} = {x \in submissions : SubmissionKey(x) = SubmissionKey(r)}
    BY <1>1, <1>4 DEF SameKey, SubmissionKey, TypeOK
  <2>3. Saw(r)' = {x \in submissions : SubmissionKey(x) = SubmissionKey(r)}
    BY <1>1, <1>4, <2>2 DEF StartReplace, TypeOK
  <2>4. submissions \subseteq Requests /\ submissions' = submissions
    BY <1>1, <1>4 DEF TypeOK, StartReplace, rows
  <2>5. Phases[r] = "waiting" /\ Phases' = [Phases EXCEPT ![r] = "open"]
    BY <1>3, <1>4, <2>1
  <2>6. Saws' = [Saws EXCEPT ![r] = {x \in submissions : Keys[x] = Keys[r]}]
    BY <1>3, <1>4, <2>3, <2>4
  <2> QED BY <1>3, <1>4, <2>4, <2>5, <2>6 DEF SubmissionStore!Open
<1>5. ASSUME NEW r \in Requests, RequestStep(r), CommitSubmission(r)
      PROVE  SubmissionStore!Replace(r)
  <2>1. /\ call[r].op = "submit" /\ call[r].plan \in LivePlans /\ call[r].user \in LiveUsers
        /\ submissions' = (submissions \ saw[r]) \cup {r}
        /\ saw' = saw
    BY <1>5 DEF CommitSubmission
  <2>2. PhaseOf(r, "submit") = "open" /\ PhaseOf(r, "submit")' = "stored"
    BY <1>1, <1>5, <2>1, StorePhases
  <2>3. /\ SubmissionKey(r) = <<call[r].user, call[r].plan>>
        /\ SubmissionKey(r) \in Users \X Plans
    BY <1>1, <2>1, CallsNamePlans DEF SubmissionKey
  <2>4. {SubmissionKey(r)[1], SubmissionKey(r)[2]} \subseteq LiveParents
    BY <2>1, <2>3, TablesAssumption DEF LiveParents, Parents, LivePlans, LiveUsers
  <2>5. Phases[r] = "open" /\ Phases' = [Phases EXCEPT ![r] = "stored"] /\ Saws' = Saws
    BY <1>3, <1>5, <2>1, <2>2
  <2>6. [k \in Users \X Plans |-> {k[1], k[2]}][Keys[r]] \subseteq LiveParents
    BY <2>3, <2>4
  <2> QED BY <1>3, <1>5, <2>1, <2>5, <2>6 DEF SubmissionStore!Replace
<1>6. ASSUME NEW r \in Requests, RequestStep(r), call[r].op = "submit", GiveUp(r)
      PROVE  SubmissionStore!Fail(r)
  <2>1. PhaseOf(r, "submit") \in {"waiting", "open"} /\ PhaseOf(r, "submit")' = "failed"
    BY <1>1, <1>6, StorePhases
  <2>2. submissions' = submissions /\ saw' = saw
    BY <1>6 DEF GiveUp, rows
  <2>3. Phases[r] \in {"waiting", "open"} /\ Phases' = [Phases EXCEPT ![r] = "failed"] /\ Saws' = Saws
    BY <1>3, <1>6, <2>1, <2>2
  <2> QED BY <1>3, <1>6, <2>2, <2>3 DEF SubmissionStore!Fail
<1>7. ASSUME NEW r \in Requests, RequestStep(r)
      PROVE  [SubmissionStore!Next]_SubmissionStore!vars
  <2>1. \/ Quiet("submit")
        \/ call[r].op = "submit" /\ (StartReplace(r) \/ GiveUp(r))
        \/ CommitSubmission(r)
    BY <1>1, <1>7, QuietSteps
  <2>2. CASE Quiet("submit") /\ ~CommitSubmission(r)
    <3>1. \A x \in Requests : call[x].op = "submit" => Same(x)
      BY <1>3, <1>7, <2>2 DEF Quiet
    <3>2. \A x \in Requests : call[x].op /= "submit" => Same(x)
      <4> SUFFICES ASSUME NEW x \in Requests, call[x].op /= "submit" PROVE Same(x)
        OBVIOUS
      <4>1. call' = call
        BY <1>3, <1>7
      <4>2. PhaseOf(x, "submit") = "waiting" /\ PhaseOf(x, "submit")' = "waiting"
        BY <1>1, <4>1, PhaseIs, NextPhaseIs
      <4> QED BY <4>1, <4>2
    <3> QED BY <1>2, <1>3, <1>7, <2>2, <3>1, <3>2
  <2> QED BY <1>4, <1>5, <1>6, <1>7, <2>1, <2>2 DEF SubmissionStore!Next
<1>8. ASSUME NEW u \in Users, DeleteUser(u) PROVE SubmissionStore!Drop(u)
  <2>1. /\ user[u] /= "deleted" /\ user' = [user EXCEPT ![u] = "deleted"]
        /\ submissions' = {r \in submissions : call[r].user /= u}
        /\ UNCHANGED <<plan, call, pc, saw>>
    BY <1>8 DEF DeleteUser
  <2>2. u \in LiveParents /\ LiveParents' = LiveParents \ {u}
    BY <1>1, <2>1, TablesAssumption DEF LiveParents, Parents, TypeOK
  <2>3. \A r \in submissions :
          /\ SubmissionKey(r) = <<call[r].user, call[r].plan>> /\ SubmissionKey(r) \in Users \X Plans
          /\ r \in Requests
    BY <1>1, CallsNamePlans DEF SubmissionKey, TypeOK
  <2>4. \A r \in submissions :
          u \notin {SubmissionKey(r)[1], SubmissionKey(r)[2]} <=> call[r].user /= u
    BY <2>3, TablesAssumption
  <2>5. \A x \in Requests : Same(x)
    BY <2>1 DEF PhaseOf
  <2> QED BY <2>1, <2>2, <2>3, <2>4, <2>5 DEF SubmissionStore!Drop, SubmissionKey
<1>9. ASSUME NEW p \in Plans, DeleteSchedulePlan(p) PROVE SubmissionStore!Drop(p)
  <2>1. /\ p \in LivePlans /\ plan' = [plan EXCEPT ![p] = Deleted]
        /\ submissions' = {r \in submissions : call[r].plan /= p}
        /\ UNCHANGED <<user, call, pc, saw>>
    BY <1>9 DEF DeleteSchedulePlan
  <2>2. p \in LiveParents /\ LiveParents' = LiveParents \ {p}
    BY <1>1, <2>1, TablesAssumption DEF LiveParents, LivePlans, Parents, TypeOK
  <2>3. \A r \in submissions :
          /\ SubmissionKey(r) = <<call[r].user, call[r].plan>> /\ SubmissionKey(r) \in Users \X Plans
          /\ r \in Requests
    BY <1>1, CallsNamePlans DEF SubmissionKey, TypeOK
  <2>4. \A r \in submissions :
          p \notin {SubmissionKey(r)[1], SubmissionKey(r)[2]} <=> call[r].plan /= p
    BY <2>3, TablesAssumption
  <2>5. \A x \in Requests : Same(x)
    BY <2>1 DEF PhaseOf
  <2> QED BY <2>1, <2>2, <2>3, <2>4, <2>5 DEF SubmissionStore!Drop, SubmissionKey
<1>10. CASE Tick \/ (\E t \in Templates : CreateScheduleTemplate(t) \/ DeleteScheduleTemplate(t))
            \/ UNCHANGED vars
  <2>1. UNCHANGED <<user, plan, submissions, call, pc, saw>>
    BY <1>10 DEF Tick, CreateScheduleTemplate, DeleteScheduleTemplate, vars
  <2>2. LiveParents' = LiveParents /\ \A x \in Requests : Same(x)
    BY <2>1 DEF LiveParents, PhaseOf
  <2> QED BY <1>2, <2>1, <2>2
<1>11. ASSUME NEW p \in Plans, NEW t \in Templates, NEW times \in Windows,
              CreateSchedulePlan(p, t, times)
       PROVE  UNCHANGED SubmissionStore!vars
  <2>1. /\ UNCHANGED <<user, submissions, call, pc, saw>>
        /\ LiveParents' = LiveParents
    BY <1>11, CreateKeepsParents DEF CreateSchedulePlan
  <2>2. \A x \in Requests : Same(x)
    BY <2>1 DEF PhaseOf
  <2> QED BY <1>2, <2>1, <2>2
<1>12. ASSUME NEW u \in Users, SetActive(u, "active") \/ SetActive(u, "left")
       PROVE  UNCHANGED SubmissionStore!vars
  <2>1. /\ UNCHANGED <<plan, submissions, call, pc, saw>>
        /\ user[u] /= "deleted"
        /\ user' = [user EXCEPT ![u] = "active"] \/ user' = [user EXCEPT ![u] = "left"]
    BY <1>12 DEF SetActive
  <2>2. {v \in Users : user[v] = "deleted"}' = {v \in Users : user[v] = "deleted"}
    BY <1>1, <2>1 DEF TypeOK
  <2>3. LiveParents' = LiveParents /\ \A x \in Requests : Same(x)
    BY <2>1, <2>2 DEF LiveParents, PhaseOf
  <2> QED BY <1>2, <2>1, <2>3
<1>13. Users \subseteq Parents /\ Plans \subseteq Parents
  BY DEF Parents
<1> QED BY <1>7, <1>8, <1>9, <1>10, <1>11, <1>12, <1>13 DEF Next, SubmissionStore!Next

(* A record leaves the results only as KeyedStore has it.              *)
LEMMA StepResultStore ==
  ASSUME IInv, IInv', [Next]_vars
  PROVE  [ResultStore!Next]_ResultStore!vars
<1> DEFINE Saw(x) == IF call[x].op = "result" THEN saw[x] ELSE {}
           Same(x) == PhaseOf(x, "result")' = PhaseOf(x, "result") /\ Saw(x)' = Saw(x)
           Phases == [x \in Requests |-> PhaseOf(x, "result")]
           Keys == [x \in Requests |-> ResultKey(x)]
           Saws == [x \in Requests |-> Saw(x)]
<1>1. TypeOK /\ TypeOK'
  BY DEF IInv
<1>2. ASSUME \A x \in Requests : Same(x), UNCHANGED <<call, results>>, LiveParents' = LiveParents
      PROVE  UNCHANGED ResultStore!vars
  BY <1>2 DEF ResultStore!vars, ResultKey
<1>3. ASSUME NEW r \in Requests, RequestStep(r)
      PROVE  /\ call' = call /\ LiveParents' = LiveParents
             /\ \A x \in Requests \ {r} : Same(x)
             /\ CommitResult(r) \/ results' = results
             /\ Phases' = [Phases EXCEPT ![r] = PhaseOf(r, "result")']
             /\ Keys' = Keys
             /\ Saws' = [Saws EXCEPT ![r] = Saw(r)']
  <2>1. call' = call /\ \A x \in Requests \ {r} : Same(x)
    BY <1>1, <1>3, OneMoves, OthersStay
  <2>2. LiveParents' = LiveParents
    BY <1>3, RequestKeepsParents
  <2>3. CommitResult(r) \/ results' = results
    BY <1>3 DEF RequestStep, ResolveLatest, LoadPlan, LoadTemplate, CheckCaller,
       CheckOpened, CheckNotClosed, CheckSubmission, CheckResultForm, CheckResultStaff, StartReplace,
       CommitSubmission, FindOwnSubmission, ReadOwnItems, UpdateSchedulePlan, UpdateScheduleTemplate,
       GiveUp, rows
  <2>4. Keys' = Keys
    BY <2>1 DEF ResultKey
  <2>5. /\ Phases' = [Phases EXCEPT ![r] = PhaseOf(r, "result")']
        /\ Saws' = [Saws EXCEPT ![r] = Saw(r)']
    <3> HIDE DEF Saw
    <3> QED BY <2>1
  <2> QED BY <2>1, <2>2, <2>3, <2>4, <2>5
<1>4. ASSUME NEW r \in Requests, RequestStep(r), call[r].op = "result", StartReplace(r)
      PROVE  ResultStore!Open(r)
  <2>1. PhaseOf(r, "result") = "waiting" /\ PhaseOf(r, "result")' = "open"
    BY <1>1, <1>4, StorePhases
  <2>2. {x \in results : SameKey(x, r)} = {x \in results : ResultKey(x) = ResultKey(r)}
    BY <1>1, <1>4 DEF SameKey, ResultKey, TypeOK
  <2>3. Saw(r)' = {x \in results : ResultKey(x) = ResultKey(r)}
    BY <1>1, <1>4, <2>2 DEF StartReplace, TypeOK
  <2>4. results \subseteq Requests /\ results' = results
    BY <1>1, <1>4 DEF TypeOK, StartReplace, rows
  <2>5. Phases[r] = "waiting" /\ Phases' = [Phases EXCEPT ![r] = "open"]
    BY <1>3, <1>4, <2>1
  <2>6. Saws' = [Saws EXCEPT ![r] = {x \in results : Keys[x] = Keys[r]}]
    BY <1>3, <1>4, <2>3, <2>4
  <2> QED BY <1>3, <1>4, <2>4, <2>5, <2>6 DEF ResultStore!Open
<1>5. ASSUME NEW r \in Requests, RequestStep(r), CommitResult(r)
      PROVE  ResultStore!Replace(r)
  <2>1. /\ call[r].op = "result" /\ call[r].plan \in LivePlans
        /\ results' = (results \ saw[r]) \cup {r}
        /\ saw' = saw
    BY <1>5 DEF CommitResult
  <2>2. PhaseOf(r, "result") = "open" /\ PhaseOf(r, "result")' = "stored"
    BY <1>1, <1>5, <2>1, StorePhases
  <2>3. ResultKey(r) = call[r].plan /\ ResultKey(r) \in Plans
    BY <1>1, <2>1, CallsNamePlans DEF ResultKey
  <2>4. {ResultKey(r)} \subseteq LiveParents
    BY <2>1, <2>3, TablesAssumption DEF LiveParents, Parents, LivePlans
  <2>5. Phases[r] = "open" /\ Phases' = [Phases EXCEPT ![r] = "stored"] /\ Saws' = Saws
    BY <1>3, <1>5, <2>1, <2>2
  <2>6. [k \in Plans |-> {k}][Keys[r]] \subseteq LiveParents
    BY <2>3, <2>4
  <2> QED BY <1>3, <1>5, <2>1, <2>5, <2>6 DEF ResultStore!Replace
<1>6. ASSUME NEW r \in Requests, RequestStep(r), call[r].op = "result", GiveUp(r)
      PROVE  ResultStore!Fail(r)
  <2>1. PhaseOf(r, "result") \in {"waiting", "open"} /\ PhaseOf(r, "result")' = "failed"
    BY <1>1, <1>6, StorePhases
  <2>2. results' = results /\ saw' = saw
    BY <1>6 DEF GiveUp, rows
  <2>3. Phases[r] \in {"waiting", "open"} /\ Phases' = [Phases EXCEPT ![r] = "failed"] /\ Saws' = Saws
    BY <1>3, <1>6, <2>1, <2>2
  <2> QED BY <1>3, <1>6, <2>2, <2>3 DEF ResultStore!Fail
<1>7. ASSUME NEW r \in Requests, RequestStep(r)
      PROVE  [ResultStore!Next]_ResultStore!vars
  <2>1. \/ Quiet("result")
        \/ call[r].op = "result" /\ (StartReplace(r) \/ GiveUp(r))
        \/ CommitResult(r)
    BY <1>1, <1>7, QuietSteps
  <2>2. CASE Quiet("result") /\ ~CommitResult(r)
    <3>1. \A x \in Requests : call[x].op = "result" => Same(x)
      BY <1>3, <1>7, <2>2 DEF Quiet
    <3>2. \A x \in Requests : call[x].op /= "result" => Same(x)
      <4> SUFFICES ASSUME NEW x \in Requests, call[x].op /= "result" PROVE Same(x)
        OBVIOUS
      <4>1. call' = call
        BY <1>3, <1>7
      <4>2. PhaseOf(x, "result") = "waiting" /\ PhaseOf(x, "result")' = "waiting"
        BY <1>1, <4>1, PhaseIs, NextPhaseIs
      <4> QED BY <4>1, <4>2
    <3> QED BY <1>2, <1>3, <1>7, <2>2, <3>1, <3>2
  <2> QED BY <1>4, <1>5, <1>6, <1>7, <2>1, <2>2 DEF ResultStore!Next
<1>8. ASSUME NEW u \in Users, DeleteUser(u) PROVE ResultStore!Drop(u)
  <2>1. /\ user[u] /= "deleted" /\ user' = [user EXCEPT ![u] = "deleted"]
        /\ UNCHANGED <<plan, results, call, pc, saw>>
    BY <1>8 DEF DeleteUser
  <2>2. u \in LiveParents /\ LiveParents' = LiveParents \ {u}
    BY <1>1, <2>1, TablesAssumption DEF LiveParents, Parents, TypeOK
  <2>3. \A r \in results : ResultKey(r) \in Plans /\ r \in Requests
    BY <1>1, CallsNamePlans DEF ResultKey, TypeOK
  <2>4. \A r \in results :
          u \notin [k \in Plans |-> {k}][ResultKey(r)]
    BY <2>3, TablesAssumption
  <2>5. \A x \in Requests : Same(x)
    BY <2>1 DEF PhaseOf
  <2> QED BY <2>1, <2>2, <2>3, <2>4, <2>5 DEF ResultStore!Drop, ResultKey
<1>9. ASSUME NEW p \in Plans, DeleteSchedulePlan(p) PROVE ResultStore!Drop(p)
  <2>1. /\ p \in LivePlans /\ plan' = [plan EXCEPT ![p] = Deleted]
        /\ results' = {r \in results : call[r].plan /= p}
        /\ UNCHANGED <<user, call, pc, saw>>
    BY <1>9 DEF DeleteSchedulePlan
  <2>2. p \in LiveParents /\ LiveParents' = LiveParents \ {p}
    BY <1>1, <2>1, TablesAssumption DEF LiveParents, LivePlans, Parents, TypeOK
  <2>3. \A r \in results :
          ResultKey(r) = call[r].plan /\ ResultKey(r) \in Plans /\ r \in Requests
    BY <1>1, CallsNamePlans DEF ResultKey, TypeOK
  <2>4. \A r \in results :
          p \notin [k \in Plans |-> {k}][ResultKey(r)] <=> call[r].plan /= p
    BY <2>3, TablesAssumption
  <2>5. \A x \in Requests : Same(x)
    BY <2>1 DEF PhaseOf
  <2> QED BY <2>1, <2>2, <2>3, <2>4, <2>5 DEF ResultStore!Drop, ResultKey
<1>10. CASE Tick \/ (\E t \in Templates : CreateScheduleTemplate(t) \/ DeleteScheduleTemplate(t))
            \/ UNCHANGED vars
  <2>1. UNCHANGED <<user, plan, results, call, pc, saw>>
    BY <1>10 DEF Tick, CreateScheduleTemplate, DeleteScheduleTemplate, vars
  <2>2. LiveParents' = LiveParents /\ \A x \in Requests : Same(x)
    BY <2>1 DEF LiveParents, PhaseOf
  <2> QED BY <1>2, <2>1, <2>2
<1>11. ASSUME NEW p \in Plans, NEW t \in Templates, NEW times \in Windows,
              CreateSchedulePlan(p, t, times)
       PROVE  UNCHANGED ResultStore!vars
  <2>1. /\ UNCHANGED <<user, results, call, pc, saw>>
        /\ LiveParents' = LiveParents
    BY <1>11, CreateKeepsParents DEF CreateSchedulePlan
  <2>2. \A x \in Requests : Same(x)
    BY <2>1 DEF PhaseOf
  <2> QED BY <1>2, <2>1, <2>2
<1>12. ASSUME NEW u \in Users, SetActive(u, "active") \/ SetActive(u, "left")
       PROVE  UNCHANGED ResultStore!vars
  <2>1. /\ UNCHANGED <<plan, results, call, pc, saw>>
        /\ user[u] /= "deleted"
        /\ user' = [user EXCEPT ![u] = "active"] \/ user' = [user EXCEPT ![u] = "left"]
    BY <1>12 DEF SetActive
  <2>2. {v \in Users : user[v] = "deleted"}' = {v \in Users : user[v] = "deleted"}
    BY <1>1, <2>1 DEF TypeOK
  <2>3. LiveParents' = LiveParents /\ \A x \in Requests : Same(x)
    BY <2>1, <2>2 DEF LiveParents, PhaseOf
  <2> QED BY <1>2, <2>1, <2>3
<1>13. Users \subseteq Parents /\ Plans \subseteq Parents
  BY DEF Parents
<1> QED BY <1>7, <1>8, <1>9, <1>10, <1>11, <1>12, <1>13 DEF Next, ResultStore!Next

(* A stored submission leaves only with its user, its plan or as its user  *)
(* submits again for that plan: the handlers, with their checks on copies, *)
(* are a use of the store that ReplaceTxn implements.                      *)
THEOREM SubmissionRefinement == Spec => ImplementsSubmissionStore
<1>1. IInv /\ IInv' /\ [Next]_vars => [SubmissionStore!Next]_SubmissionStore!vars
  BY StepSubmissionStore
<1> QED BY <1>1, InitSubmissionStore, Invariance, PTL
        DEF Spec, ImplementsSubmissionStore, SubmissionStore!Spec

(* The same of the result of a plan.                                       *)
THEOREM ResultRefinement == Spec => ImplementsResultStore
<1>1. IInv /\ IInv' /\ [Next]_vars => [ResultStore!Next]_ResultStore!vars
  BY StepResultStore
<1> QED BY <1>1, InitResultStore, Invariance, PTL
        DEF Spec, ImplementsResultStore, ResultStore!Spec
=============================================================================

------------------------ MODULE SchedulingRowsProofs ------------------------
(***************************************************************************)
(* Proofs about the rows of Scheduling, for any calls.  The version in     *)
(* WHERE makes the UPDATE of a whole row a compare-and-swap, so that no    *)
(* accepted edit is lost, however many there are; and the lines of the     *)
(* LEFT JOIN, in any order, are put together to the result that was        *)
(* stored.                                                                 *)
(***************************************************************************)
EXTENDS SchedulingProofs, FiniteSetTheorems

-----------------------------------------------------------------------------
(* Edits: the inductive invariant.                                         *)

\* What a plan or a template is given: its first fields, and what calls change.
Changes == Windows \cup [Texts -> Names] \cup {c.change : c \in Calls}

EditsType == edits \in [Plans \cup Templates -> Seq(Changes)]

\* A copy is no newer than the row, and has its fields if the versions agree.
\* A plan or a template that is gone never comes back.
CopyAgrees(r) ==
    pc[r] \in Loaded =>
      IF call[r].op = "retitle"
      THEN /\ template[call[r].template] /= Absent
           /\ call[r].template \in LiveTemplates =>
                /\ copy[r].version <= template[call[r].template].version
                /\ copy[r].version = template[call[r].template].version =>
                     copy[r].text = template[call[r].template].text
      ELSE /\ plan[call[r].plan] /= Absent
           /\ call[r].plan \in LivePlans =>
                /\ copy[r].version <= plan[call[r].plan].version
                /\ copy[r].version = plan[call[r].plan].version =>
                     copy[r].times = plan[call[r].plan].times

EditInv == /\ EditsType
           /\ NoLostEdit
           /\ \A r \in Requests : CopyAgrees(r)

-----------------------------------------------------------------------------
(* The fields after a change.                                              *)

(* The fields at the creation are those given at the creation.             *)
LEMMA GivenFirst ==
  ASSUME NEW fields
  PROVE  GivenLast(fields, <<fields>>)
BY DEF GivenLast

(* A change that is merged into the fields is the last to name its own.    *)
LEMMA GivenLastMerged ==
  ASSUME NEW fields, NEW changes \in Seq(Changes), NEW change \in Changes,
         GivenLast(fields, changes)
  PROVE  GivenLast(Merge(fields, change), Append(changes, change))
<1> DEFINE n == Len(changes) + 1
           all == Append(changes, change)
<1>1. /\ DOMAIN all = 1 .. n /\ n \in DOMAIN all /\ all[n] = change
      /\ DOMAIN changes = 1 .. (n - 1) /\ n \in Nat
      /\ \A i \in DOMAIN changes : i \in DOMAIN all /\ all[i] = changes[i]
  OBVIOUS
<1> HIDE DEF all, n
<1>2. DOMAIN Merge(fields, change) = DOMAIN fields
  BY DEF Merge
<1>3. ASSUME NEW f \in DOMAIN fields
      PROVE  \E i \in DOMAIN all : /\ f \in DOMAIN all[i]
                                   /\ Merge(fields, change)[f] = all[i][f]
                                   /\ \A j \in DOMAIN all : j > i => f \notin DOMAIN all[j]
  <2>1. CASE f \in DOMAIN change
    <3>1. Merge(fields, change)[f] = change[f]
      BY <2>1 DEF Merge
    <3>2. \A j \in DOMAIN all : ~(j > n)
      BY <1>1
    <3> QED BY <1>1, <2>1, <3>1, <3>2
  <2>2. CASE f \notin DOMAIN change
    <3>1. Merge(fields, change)[f] = fields[f]
      BY <2>2 DEF Merge
    <3>2. PICK i \in DOMAIN changes :
            /\ f \in DOMAIN changes[i]
            /\ fields[f] = changes[i][f]
            /\ \A j \in DOMAIN changes : j > i => f \notin DOMAIN changes[j]
      BY DEF GivenLast
    <3>3. \A j \in DOMAIN all : j \in DOMAIN changes \/ j = n
      BY <1>1
    <3> QED BY <1>1, <2>2, <3>1, <3>2, <3>3
  <2> QED BY <2>1, <2>2
<1> QED BY <1>2, <1>3 DEF GivenLast, all

-----------------------------------------------------------------------------
(* What a step may do to a row.                                            *)

PlanStep(p) ==
    \/ plan'[p] = plan[p] /\ edits'[p] = edits[p]
    \/ plan[p] /= Absent /\ plan'[p] = Deleted
    \/ /\ plan[p] = Absent \/ (p \in LivePlans /\ plan'[p].version > plan[p].version)
       /\ p \in LivePlans'
       /\ GivenLast(plan'[p].times, edits'[p])

TemplateStep(t) ==
    \/ template'[t] = template[t] /\ edits'[t] = edits[t]
    \/ template[t] /= Absent /\ template'[t] = Deleted
    \/ /\ template[t] = Absent \/ (t \in LiveTemplates /\ template'[t].version > template[t].version)
       /\ t \in LiveTemplates'
       /\ GivenLast(template'[t].text, edits'[t])

(* Such steps keep the fields those that were given, and the copies of the *)
(* requests that had one older than what changes.                          *)
LEMMA RowSteps ==
  ASSUME IInv, TypeOK', EditInv, EditsType', call' = call,
         \A p \in Plans : PlanStep(p),
         \A t \in Templates : TemplateStep(t),
         \A r \in Requests : pc'[r] \in Loaded =>
           (pc[r] \in Loaded /\ copy'[r] = copy[r]) \/ CopyAgrees(r)'
  PROVE  EditInv'
<1>0. Absent /= Deleted
  BY TablesAssumption
<1>1. NoLostEdit'
  <2>1. ASSUME NEW p \in LivePlans' PROVE GivenLast(plan'[p].times, edits'[p])
    BY <1>0, <2>1 DEF LivePlans, PlanStep, EditInv, NoLostEdit
  <2>2. ASSUME NEW t \in LiveTemplates' PROVE GivenLast(template'[t].text, edits'[t])
    BY <1>0, <2>2 DEF LiveTemplates, TemplateStep, EditInv, NoLostEdit
  <2> QED BY <2>1, <2>2 DEF NoLostEdit
<1>2. ASSUME NEW r \in Requests, pc[r] \in Loaded, pc'[r] \in Loaded, copy'[r] = copy[r]
      PROVE  CopyAgrees(r)'
  <2>1. CASE call[r].op = "retitle"
    <3> DEFINE t == call[r].template
    <3>1. t \in Templates /\ TemplateStep(t)
      BY <2>1, CallsNamePlans DEF IInv
    <3>2. copy[r].version \in Nat
      BY <1>2, <2>1 DEF IInv, RequestInv, CopyFits, TemplateRows
    <3>3. /\ t \in LiveTemplates => template[t].version \in Nat
          /\ t \in LiveTemplates' => template'[t].version \in Nat
      BY <3>1 DEF IInv, TypeOK, LiveTemplates, TemplateRows
    <3>4. CopyAgrees(r)
      BY DEF EditInv
    <3> QED BY <1>0, <1>2, <2>1, <3>1, <3>2, <3>3, <3>4 DEF CopyAgrees, TemplateStep, LiveTemplates
  <2>2. CASE call[r].op /= "retitle"
    <3> DEFINE p == call[r].plan
    <3>1. p \in Plans /\ PlanStep(p)
      BY <2>2, CallsNamePlans DEF IInv
    <3>2. copy[r].version \in Nat
      BY <1>2, <2>2 DEF IInv, RequestInv, CopyFits, PlanRows
    <3>3. /\ p \in LivePlans => plan[p].version \in Nat
          /\ p \in LivePlans' => plan'[p].version \in Nat
      BY <3>1 DEF IInv, TypeOK, LivePlans, PlanRows
    <3>4. CopyAgrees(r)
      BY DEF EditInv
    <3> QED BY <1>0, <1>2, <2>2, <3>1, <3>2, <3>3, <3>4 DEF CopyAgrees, PlanStep, LivePlans
  <2> QED BY <2>1, <2>2
<1>3. \A r \in Requests : CopyAgrees(r)'
  BY <1>2 DEF CopyAgrees
<1> QED BY <1>1, <1>3 DEF EditInv

(* A step that changes no plan, no template and no history of edits.       *)
LEMMA RowsUntouched ==
  ASSUME IInv, TypeOK', EditInv, UNCHANGED <<plan, template, edits, call>>,
         \A r \in Requests : pc'[r] \in Loaded =>
           (pc[r] \in Loaded /\ copy'[r] = copy[r]) \/ CopyAgrees(r)'
  PROVE  EditInv'
BY RowSteps DEF PlanStep, TemplateStep, EditInv, EditsType, Changes

(* A step of a request that reads no plan and no template.                 *)
LEMMA OneAdvances ==
  ASSUME IInv, TypeOK', EditInv, NEW r \in Requests, UNCHANGED <<plan, template, edits, call>>,
         \A x \in Requests \ {r} : pc'[x] = pc[x] /\ copy'[x] = copy[x],
         pc'[r] \notin Loaded \/ (pc[r] \in Loaded /\ copy'[r] = copy[r])
  PROVE  EditInv'
BY RowsUntouched

-----------------------------------------------------------------------------
(* The steps.                                                              *)

LEMMA InitEditInv == Init => EditInv
<1> SUFFICES ASSUME Init PROVE EditInv
  OBVIOUS
<1>1. EditsType
  BY DEF Init, EditsType
<1>2. LivePlans = {} /\ LiveTemplates = {}
  BY DEF Init, LivePlans, LiveTemplates
<1> QED BY <1>1, <1>2 DEF Init, EditInv, NoLostEdit, CopyAgrees, Loaded

LEMMA CreateTemplateEdits ==
  ASSUME IInv, TypeOK', EditInv, NEW t \in Templates, CreateScheduleTemplate(t)
  PROVE  EditInv'
<1> DEFINE text == [f \in Texts |-> t]
           row == [text |-> text, version |-> 1]
<1>1. /\ template[t] = Absent
      /\ template' = [template EXCEPT ![t] = row]
      /\ edits' = [edits EXCEPT ![t] = <<text>>]
      /\ UNCHANGED <<plan, call, pc, copy>>
  BY DEF CreateScheduleTemplate
<1>2. text \in [Texts -> Names]
  BY TablesAssumption
<1>3. row \in TemplateRows /\ row.text = text
  BY <1>2 DEF TemplateRows
<1>4. row \notin {Absent, Deleted}
  BY <1>3, TablesAssumption
<1>5. text \in Changes
  BY <1>2 DEF Changes
<1> HIDE DEF row, text
<1>6. EditsType'
  <2>1. <<text>> \in Seq(Changes)
    BY <1>5
  <2> QED BY <1>1, <2>1 DEF EditInv, EditsType, Changes
<1>7. /\ template'[t] = row /\ edits'[t] = <<text>>
      /\ \A x \in Templates \ {t} : template'[x] = template[x]
      /\ \A x \in (Plans \cup Templates) \ {t} : edits'[x] = edits[x]
  BY <1>1 DEF IInv, TypeOK, EditInv, EditsType
<1>8. t \notin Plans
  BY TablesAssumption
<1>9. TemplateStep(t)
  BY <1>1, <1>3, <1>4, <1>7, GivenFirst DEF TemplateStep, LiveTemplates
<1> QED BY <1>1, <1>6, <1>7, <1>8, <1>9, RowSteps DEF PlanStep, TemplateStep

LEMMA CreatePlanEdits ==
  ASSUME IInv, TypeOK', EditInv, NEW p \in Plans, NEW t \in Templates, NEW times \in Windows,
         CreateSchedulePlan(p, t, times)
  PROVE  EditInv'
<1> DEFINE row == [template |-> t, times |-> times, version |-> 1, created |-> now]
<1>1. /\ plan[p] = Absent
      /\ plan' = [plan EXCEPT ![p] = row]
      /\ edits' = [edits EXCEPT ![p] = <<times>>]
      /\ UNCHANGED <<template, call, pc, copy>>
  BY DEF CreateSchedulePlan, InsertPlan
<1>2. row \in PlanRows /\ row.times = times
  BY TablesAssumption DEF PlanRows, IInv, TypeOK
<1>3. row \notin {Absent, Deleted}
  BY <1>2, TablesAssumption
<1> HIDE DEF row
<1>4. EditsType'
  <2>1. <<times>> \in Seq(Changes)
    BY DEF Changes
  <2> QED BY <1>1, <2>1 DEF EditInv, EditsType, Changes
<1>5. /\ plan'[p] = row /\ edits'[p] = <<times>>
      /\ \A x \in Plans \ {p} : plan'[x] = plan[x]
      /\ \A x \in (Plans \cup Templates) \ {p} : edits'[x] = edits[x]
  BY <1>1 DEF IInv, TypeOK, EditInv, EditsType
<1>6. p \notin Templates
  BY TablesAssumption
<1>7. PlanStep(p)
  BY <1>1, <1>2, <1>3, <1>5, GivenFirst DEF PlanStep, LivePlans
<1> QED BY <1>1, <1>4, <1>5, <1>6, <1>7, RowSteps DEF PlanStep, TemplateStep

LEMMA DeleteEdits ==
  ASSUME IInv, TypeOK', EditInv,
         \/ \E t \in Templates : DeleteScheduleTemplate(t)
         \/ \E p \in Plans : DeleteSchedulePlan(p)
  PROVE  EditInv'
<1>1. UNCHANGED <<edits, call, pc, copy>> /\ EditsType'
  BY DEF DeleteScheduleTemplate, DeleteSchedulePlan, EditInv, EditsType, Changes
<1>2. \A p \in Plans : PlanStep(p)
  BY <1>1 DEF DeleteScheduleTemplate, DeleteSchedulePlan, PlanStep, LivePlans, IInv, TypeOK
<1>3. \A t \in Templates : TemplateStep(t)
  BY <1>1 DEF DeleteScheduleTemplate, DeleteSchedulePlan, TemplateStep, LiveTemplates, IInv, TypeOK
<1> QED BY <1>1, <1>2, <1>3, RowSteps

LEMMA LoadEdits ==
  ASSUME IInv, TypeOK', EditInv, NEW r \in Requests, LoadPlan(r) \/ LoadTemplate(r)
  PROVE  EditInv'
<1>1. UNCHANGED <<plan, template, edits, call>>
  BY DEF LoadPlan, LoadTemplate, rows
<1>2. /\ \A x \in Requests \ {r} : pc'[x] = pc[x] /\ copy'[x] = copy[x]
      /\ LoadPlan(r) => call[r].plan \in LivePlans /\ copy'[r] = plan[call[r].plan]
      /\ LoadTemplate(r) => call[r].template \in LiveTemplates
                            /\ copy'[r] = template[call[r].template]
  BY DEF LoadPlan, LoadTemplate, IInv, TypeOK
<1>3. CopyAgrees(r)'
  <2>1. CASE LoadPlan(r)
    <3>1. call[r].op /= "retitle" /\ plan[call[r].plan].version \in Nat /\ plan[call[r].plan] /= Absent
      BY <1>2, <2>1 DEF LoadPlan, IInv, TypeOK, LivePlans, PlanRows
    <3> QED BY <1>1, <1>2, <2>1, <3>1 DEF CopyAgrees
  <2>2. CASE LoadTemplate(r)
    <3>1. /\ call[r].op = "retitle" /\ template[call[r].template].version \in Nat
          /\ template[call[r].template] /= Absent
      BY <1>2, <2>2 DEF LoadTemplate, IInv, TypeOK, LiveTemplates, TemplateRows
    <3> QED BY <1>1, <1>2, <2>2, <3>1 DEF CopyAgrees
  <2> QED BY <2>1, <2>2
<1> QED BY <1>1, <1>2, <1>3, RowsUntouched

(* The version of the copy is that of the row, so the fields that the      *)
(* change is merged into are those of the row.                             *)
LEMMA UpdatePlanEdits ==
  ASSUME IInv, TypeOK', EditInv, NEW r \in Requests, UpdateSchedulePlan(r)
  PROVE  EditInv'
<1> DEFINE p == call[r].plan
           change == call[r].change
           times == Merge(copy[r].times, change)
<1>1. /\ pc[r] = "loaded" /\ call[r].op = "update" /\ p \in LivePlans
      /\ plan[p].version = copy[r].version
      /\ plan' = [plan EXCEPT ![p].times = times, ![p].version = @ + 1]
      /\ edits' = [edits EXCEPT ![p] = Append(@, change)]
      /\ Finish(r, "done")
      /\ UNCHANGED <<template, call>>
  BY DEF UpdateSchedulePlan, UpdatePlan
<1>2. p \in Plans /\ plan[p] \in PlanRows /\ p \notin Templates
  BY <1>1, TablesAssumption DEF IInv, TypeOK, LivePlans
<1>3. copy[r].times = plan[p].times
  BY <1>1 DEF EditInv, CopyAgrees, Loaded
<1>4. change \in Changes
  BY <1>1, CallsNamePlans DEF Changes, IInv
<1>5. edits[p] \in Seq(Changes) /\ GivenLast(plan[p].times, edits[p])
  BY <1>1, <1>2 DEF EditInv, EditsType, NoLostEdit
<1>6. GivenLast(times, Append(edits[p], change))
  BY <1>3, <1>4, <1>5, GivenLastMerged
<1>7. Append(edits[p], change) \in Seq(Changes)
  BY <1>4, <1>5
<1> HIDE DEF p, change, times
<1>8. EditsType'
  BY <1>1, <1>7 DEF EditInv, EditsType, Changes
<1>9. /\ edits'[p] = Append(edits[p], change)
      /\ \A x \in Plans \ {p} : plan'[x] = plan[x]
      /\ \A x \in (Plans \cup Templates) \ {p} : edits'[x] = edits[x]
  BY <1>1, <1>2 DEF IInv, TypeOK, EditInv, EditsType
<1>10. plan'[p] /= Absent /\ plan'[p] /= Deleted
  <2>1. PICK q \in LivePlans : \E row \in PlanRows :
          plan' = [plan EXCEPT ![q] = row] /\ row \notin {Absent, Deleted}
    BY EditedPlan
  <2> QED BY <1>1, <1>2, <2>1 DEF LivePlans, IInv, TypeOK
<1>11. plan'[p].times = times /\ plan'[p].version = plan[p].version + 1
  <2>1. plan'[p] = [plan[p] EXCEPT !.times = times, !.version = @ + 1]
    BY <1>1, <1>2 DEF IInv, TypeOK
  <2> QED BY <1>2, <2>1 DEF PlanRows
<1>12. PlanStep(p)
  <2>1. plan'[p].version > plan[p].version
    BY <1>2, <1>11 DEF PlanRows
  <2> QED BY <1>1, <1>2, <1>6, <1>9, <1>10, <1>11, <2>1 DEF PlanStep, LivePlans
<1>13. \A x \in Requests : pc'[x] \in Loaded => pc[x] \in Loaded /\ copy'[x] = copy[x]
  BY <1>1 DEF Finish, Loaded, IInv, TypeOK
<1> QED BY <1>1, <1>2, <1>8, <1>9, <1>12, <1>13, RowSteps DEF PlanStep, TemplateStep

LEMMA UpdateTemplateEdits ==
  ASSUME IInv, TypeOK', EditInv, NEW r \in Requests, UpdateScheduleTemplate(r)
  PROVE  EditInv'
<1> DEFINE t == call[r].template
           change == call[r].change
           text == Merge(copy[r].text, change)
           row == [text |-> text, version |-> template[t].version + 1]
<1>1. /\ pc[r] = "loaded" /\ call[r].op = "retitle" /\ t \in LiveTemplates
      /\ template[t].version = copy[r].version
      /\ template' = [template EXCEPT ![t] = row]
      /\ edits' = [edits EXCEPT ![t] = Append(@, change)]
      /\ Finish(r, "done")
      /\ UNCHANGED <<plan, call>>
  BY DEF UpdateScheduleTemplate
<1>2. t \in Templates /\ template[t] \in TemplateRows /\ t \notin Plans
  BY <1>1, TablesAssumption DEF IInv, TypeOK, LiveTemplates
<1>3. copy[r].text = template[t].text
  BY <1>1 DEF EditInv, CopyAgrees, Loaded
<1>4. change \in Changes
  BY <1>1, CallsNamePlans DEF Changes, IInv
<1>5. edits[t] \in Seq(Changes) /\ GivenLast(template[t].text, edits[t])
  BY <1>1, <1>2 DEF EditInv, EditsType, NoLostEdit
<1>6. GivenLast(text, Append(edits[t], change))
  BY <1>3, <1>4, <1>5, GivenLastMerged
<1>7. Append(edits[t], change) \in Seq(Changes)
  BY <1>4, <1>5
<1>8. text \in [Texts -> Names]
  <2>1. \A f \in DOMAIN change : change[f] \in Names
    BY <1>1, CallsNamePlans, CallsAssumption DEF IInv
  <2>2. template[t].text \in [Texts -> Names]
    BY <1>2 DEF TemplateRows
  <2> HIDE DEF t, change
  <2> QED BY <1>3, <2>1, <2>2, MergeType
<1>9. row \in TemplateRows /\ row.version > template[t].version /\ row.text = text
  BY <1>2, <1>8 DEF TemplateRows
<1>10. row \notin {Absent, Deleted}
  BY <1>9, TablesAssumption
<1> HIDE DEF t, change, text, row
<1>11. EditsType'
  BY <1>1, <1>7 DEF EditInv, EditsType, Changes
<1>12. /\ edits'[t] = Append(edits[t], change) /\ template'[t] = row
       /\ \A x \in Templates \ {t} : template'[x] = template[x]
       /\ \A x \in (Plans \cup Templates) \ {t} : edits'[x] = edits[x]
  BY <1>1, <1>2 DEF IInv, TypeOK, EditInv, EditsType
<1>13. TemplateStep(t)
  BY <1>1, <1>2, <1>6, <1>9, <1>10, <1>12 DEF TemplateStep, LiveTemplates
<1>14. \A x \in Requests : pc'[x] \in Loaded => pc[x] \in Loaded /\ copy'[x] = copy[x]
  BY <1>1 DEF Finish, Loaded, IInv, TypeOK
<1> QED BY <1>1, <1>2, <1>11, <1>12, <1>13, <1>14, RowSteps DEF PlanStep, TemplateStep

(* The other steps of a request read and write no plan and no template.    *)
LEMMA OtherRequestEdits ==
  ASSUME IInv, TypeOK', EditInv, NEW r \in Requests,
         \/ ResolveLatest(r) \/ CheckCaller(r) \/ CheckOpened(r) \/ CheckNotClosed(r) \/ CheckSubmission(r)
         \/ CheckResultForm(r) \/ CheckResultStaff(r) \/ StartReplace(r) \/ CommitSubmission(r)
         \/ CommitResult(r) \/ FindOwnSubmission(r) \/ ReadOwnItems(r) \/ GiveUp(r)
  PROVE  EditInv'
<1>1. UNCHANGED <<plan, template, edits, call>>
  BY DEF rows, ResolveLatest, CheckCaller, CheckOpened, CheckNotClosed, CheckSubmission, CheckResultForm,
     CheckResultStaff, StartReplace, CommitSubmission, CommitResult, FindOwnSubmission,
     ReadOwnItems, GiveUp
<1>2. CASE \/ ResolveLatest(r) \/ CheckCaller(r) \/ CheckOpened(r) \/ CheckNotClosed(r) \/ CheckSubmission(r)
           \/ CheckResultForm(r) \/ CheckResultStaff(r) \/ StartReplace(r)
           \/ (FindOwnSubmission(r) /\ ~Finish(r, "done"))
  <2>1. /\ \A x \in Requests \ {r} : pc'[x] = pc[x] /\ copy'[x] = copy[x]
        /\ copy'[r] = copy[r]
        /\ pc'[r] \in Loaded => pc[r] \in Loaded
    BY <1>2 DEF IInv, TypeOK, Loaded, ResolveLatest, CheckCaller, CheckOpened, CheckNotClosed, CheckSubmission,
       CheckResultForm, CheckResultStaff, StartReplace, FindOwnSubmission
  <2> QED BY <1>1, <2>1, OneAdvances
<1>3. CASE Finish(r, "done") \/ Finish(r, "failed")
  <2>1. /\ \A x \in Requests \ {r} : pc'[x] = pc[x] /\ copy'[x] = copy[x]
        /\ pc'[r] \notin Loaded
    BY <1>3 DEF IInv, TypeOK, Loaded, Finish
  <2> QED BY <1>1, <2>1, OneAdvances
<1> QED BY <1>2, <1>3 DEF CommitSubmission, CommitResult, ReadOwnItems, GiveUp

(* Every step preserves the invariant.                                     *)
LEMMA StepKeepsEditInv == IInv /\ EditInv /\ [Next]_vars => EditInv'
<1> SUFFICES ASSUME IInv, EditInv, [Next]_vars PROVE EditInv'
  OBVIOUS
<1>1. TypeOK'
  BY StepKeepsIInv DEF IInv
<1>2. CASE \/ Tick \/ UNCHANGED vars
           \/ \E u \in Users : DeleteUser(u) \/ SetActive(u, "active") \/ SetActive(u, "left")
  <2>1. UNCHANGED <<plan, template, edits, call, pc, copy>>
    BY <1>2 DEF Tick, vars, DeleteUser, SetActive
  <2> QED BY <1>1, <2>1, RowsUntouched
<1>3. ASSUME NEW t \in Templates, CreateScheduleTemplate(t) \/ DeleteScheduleTemplate(t)
      PROVE  EditInv'
  BY <1>1, <1>3, CreateTemplateEdits, DeleteEdits
<1>4. ASSUME NEW p \in Plans, NEW t \in Templates, NEW times \in Windows,
             CreateSchedulePlan(p, t, times)
      PROVE  EditInv'
  BY <1>1, <1>4, CreatePlanEdits
<1>5. ASSUME NEW p \in Plans, DeleteSchedulePlan(p) PROVE EditInv'
  BY <1>1, <1>5, DeleteEdits
<1>6. ASSUME NEW r \in Requests, RequestStep(r) PROVE EditInv'
  BY <1>1, <1>6, LoadEdits, UpdatePlanEdits, UpdateTemplateEdits, OtherRequestEdits
     DEF RequestStep
<1> QED BY <1>2, <1>3, <1>4, <1>5, <1>6 DEF Next

-----------------------------------------------------------------------------
(* Edits: the theorems.                                                    *)

(* A copy of a plan or a template is the row, or older than the row.       *)
THEOREM EditsInvariance == Spec => [](IInv /\ EditInv)
<1>1. Init => IInv /\ EditInv
  BY InitIInv, InitEditInv
<1>2. IInv /\ EditInv /\ [Next]_vars => (IInv /\ EditInv)'
  BY StepKeepsIInv, StepKeepsEditInv
<1> QED BY <1>1, <1>2, PTL DEF Spec

(* Though UpdateSchedulePlan and UpdateScheduleTemplate write every field  *)
(* of a copy back, no accepted edit is lost, however many of them race.    *)
THEOREM EditsAreKept == Spec => []NoLostEdit
<1>1. IInv /\ EditInv => NoLostEdit
  BY DEF EditInv
<1> QED BY <1>1, EditsInvariance, PTL

-----------------------------------------------------------------------------
(* The opening of a plan.                                                  *)

\* What CheckOpened has let through: the plan, as it was read, has opened.
Begun == {"begun", "open", "checked", "replacing", "found"}
OpenedInv ==
    \A r \in Requests :
      call[r].op \in {"submit", "read"} /\ pc[r] \in Begun => copy[r].times.from <= now

(* A step leaves a request where it was, with its copy, or is its own.     *)
LEMMA OthersCopies ==
  ASSUME TypeOK, NEW x \in Requests, RequestStep(x), NEW r \in Requests, r /= x
  PROVE  pc'[r] = pc[r] /\ copy'[r] = copy[r]
<1>1. /\ \E s : pc' = [pc EXCEPT ![x] = s]
      /\ copy' = copy \/ \E c : copy' = [copy EXCEPT ![x] = c]
  BY DEF RequestStep, ResolveLatest, LoadPlan, LoadTemplate, CheckCaller, CheckOpened,
     CheckNotClosed, CheckSubmission, CheckResultForm, CheckResultStaff, StartReplace,
     CommitSubmission, CommitResult, FindOwnSubmission, ReadOwnItems, UpdateSchedulePlan,
     UpdateScheduleTemplate, GiveUp, Finish
<1> QED BY <1>1 DEF TypeOK

(* Only CheckOpened lets a request of a user in, and its copy stays.       *)
LEMMA OwnCopies ==
  ASSUME IInv, NEW r \in Requests, RequestStep(r),
         call[r].op \in {"submit", "read"}, pc'[r] \in Begun
  PROVE  /\ copy'[r] = copy[r]
         /\ pc[r] \in Begun \/ ~(copy[r].times.from > now)
<1>1. TypeOK /\ RequestInv(r)
  BY DEF IInv
<1>2. CASE ResolveLatest(r) \/ LoadPlan(r) \/ LoadTemplate(r) \/ CheckCaller(r)
  BY <1>1, <1>2 DEF TypeOK, Begun, ResolveLatest, LoadPlan, LoadTemplate, CheckCaller
<1>3. CASE CheckOpened(r)
  BY <1>3 DEF CheckOpened
<1>4. CASE CheckNotClosed(r) \/ CheckSubmission(r)
  BY <1>4 DEF CheckNotClosed, CheckSubmission, Begun
<1>5. CASE CheckResultForm(r) \/ CheckResultStaff(r)
  BY <1>1, <1>5 DEF RequestInv, CheckResultForm, CheckResultStaff
<1>6. CASE StartReplace(r)
  BY <1>6 DEF StartReplace, Begun
<1>7. CASE FindOwnSubmission(r)
  BY <1>1, <1>7 DEF TypeOK, FindOwnSubmission, Begun, Finish
<1>8. CASE Finish(r, "done") \/ Finish(r, "failed")
  BY <1>1, <1>8 DEF TypeOK, Finish, Begun
<1> QED BY <1>2, <1>3, <1>4, <1>5, <1>6, <1>7, <1>8 DEF RequestStep, CommitSubmission,
     CommitResult, ReadOwnItems, UpdateSchedulePlan, UpdateScheduleTemplate, GiveUp

(* The clock does not go back.                                             *)
LEMMA StepKeepsOpened == IInv /\ OpenedInv /\ [Next]_vars => OpenedInv'
<1> SUFFICES ASSUME IInv, OpenedInv, [Next]_vars PROVE OpenedInv'
  OBVIOUS
<1>1. /\ call' = call /\ now \in Nat /\ now' \in Nat /\ now <= now'
      /\ UNCHANGED <<pc, copy>> \/ \E x \in Requests : RequestStep(x)
  <2>1. now \in Nat
    BY TablesAssumption DEF IInv, TypeOK
  <2>2. /\ call' = call /\ (now' = now \/ now' = now + 1)
        /\ UNCHANGED <<pc, copy>> \/ \E x \in Requests : RequestStep(x)
    <3>1. ASSUME NEW x \in Requests, RequestStep(x) PROVE call' = call /\ now' = now
      BY <3>1 DEF RequestStep, ResolveLatest, LoadPlan, LoadTemplate, CheckCaller, CheckOpened,
         CheckNotClosed, CheckSubmission, CheckResultForm, CheckResultStaff, StartReplace,
         CommitSubmission, CommitResult, FindOwnSubmission, ReadOwnItems, UpdateSchedulePlan,
         UpdateScheduleTemplate, GiveUp, rows
    <3> QED BY <3>1 DEF Next, vars, Tick, CreateScheduleTemplate, DeleteScheduleTemplate,
         CreateSchedulePlan, DeleteSchedulePlan, DeleteUser, SetActive
  <2> QED BY <2>1, <2>2
<1> SUFFICES ASSUME NEW r \in Requests, call[r].op \in {"submit", "read"}, pc'[r] \in Begun
             PROVE  copy'[r].times.from <= now'
  BY <1>1 DEF OpenedInv
<1>2. copy'[r] = copy[r] /\ (pc[r] \in Begun \/ ~(copy[r].times.from > now))
  <2>1. CASE UNCHANGED <<pc, copy>>
    BY <2>1
  <2>2. ASSUME NEW x \in Requests, RequestStep(x), x /= r
        PROVE  copy'[r] = copy[r] /\ pc[r] \in Begun
    BY <2>2, OthersCopies DEF IInv
  <2>3. CASE RequestStep(r)
    BY <2>3, OwnCopies
  <2> QED BY <1>1, <2>1, <2>2, <2>3
<1>3. copy[r].times.from \in Nat
  <2>1. TypeOK' /\ RequestInv(r)'
    BY StepKeepsIInv DEF IInv
  <2>2. copy'[r] \in PlanRows
    BY <1>1, <2>1 DEF RequestInv, CopyFits, Loaded, Begun
  <2> QED BY <1>2, <2>2 DEF PlanRows, Times
<1> QED BY <1>1, <1>2, <1>3 DEF OpenedInv

(* The opening is checked on a copy, long before the INSERT.  If the       *)
(* version is still that of the copy, so are the times, and a submission   *)
(* is stored only for a plan that has opened.                              *)
THEOREM NoneIsStoredEarly == Spec => NoneStoredEarly
<1> DEFINE Stores(r) == /\ call[r].op = "submit" /\ pc[r] = "replacing" /\ pc'[r] = "done"
                        /\ plan[call[r].plan].version = copy[r].version
<1>1. ASSUME IInv, EditInv, OpenedInv, [Next]_vars, NEW r \in Requests, Stores(r)
      PROVE  plan[call[r].plan].times.from <= now
  <2>1. RequestStep(r)
    BY <1>1, OwnStep DEF IInv
  <2>2. CommitSubmission(r)
    BY <2>1, <1>1 DEF RequestStep, ResolveLatest, LoadPlan, LoadTemplate, CheckCaller,
       CheckOpened, CheckNotClosed, CheckSubmission, CheckResultForm, CheckResultStaff,
       StartReplace, CommitResult, FindOwnSubmission, ReadOwnItems, UpdateSchedulePlan,
       UpdateScheduleTemplate, GiveUp, Finish, IInv, TypeOK
  <2>3. call[r].plan \in LivePlans
    BY <2>2 DEF CommitSubmission
  <2>4. copy[r].times = plan[call[r].plan].times
    BY <1>1, <2>3 DEF EditInv, CopyAgrees, Loaded
  <2> QED BY <1>1, <2>4 DEF OpenedInv, Begun
<1>2. IInv /\ EditInv /\ OpenedInv /\ [Next]_vars =>
        [\A r \in Requests : Stores(r) => plan[call[r].plan].times.from <= now]_vars
  BY <1>1
<1>3. Init => OpenedInv
  BY DEF Init, OpenedInv, Begun
<1>4. Spec => []OpenedInv
  BY <1>3, StepKeepsOpened, Invariance, PTL DEF Spec
<1> QED BY <1>2, <1>4, EditsInvariance, PTL DEF Spec, NoneStoredEarly

-----------------------------------------------------------------------------
(* The lines of items that name each slot once.                            *)

SlotOf(x) == <<x.shift, x.day>>

\* An item as it is read: each assistant once.
ItemRead(i) ==
    [shift |-> i.shift, day |-> i.day, principal |-> i.principal,
     assistants |-> [a \in i.assistants |-> 1]]

(* An item has a line, its lines have its slot and its principal, and each *)
(* of its assistants is on one of them.                                    *)
LEMMA LinesOfItem ==
  ASSUME NEW r, NEW i, NoPrincipal \notin i.assistants
  PROVE  /\ ItemLines(r, i) /= {}
         /\ \A x \in ItemLines(r, i) : SlotOf(x) = SlotOf(i) /\ x.principal = i.principal
         /\ {x.assistant : x \in ItemLines(r, i)} \ {NoPrincipal} = i.assistants
         /\ \A a \in i.assistants : Cardinality({x \in ItemLines(r, i) : x.assistant = a}) = 1
<1> DEFINE Line(a) == [result |-> r, item |-> i.at, shift |-> i.shift, day |-> i.day,
                       principal |-> i.principal, assistant |-> a]
           named == IF i.assistants = {} THEN {NoPrincipal} ELSE i.assistants
<1>1. ItemLines(r, i) = {Line(a) : a \in named}
  BY DEF ItemLines
<1>2. \A a : SlotOf(Line(a)) = SlotOf(i) /\ Line(a).principal = i.principal /\ Line(a).assistant = a
  BY DEF SlotOf
<1>3. named /= {} /\ named \ {NoPrincipal} = i.assistants
  OBVIOUS
<1> HIDE DEF Line, named
<1>4. {x.assistant : x \in ItemLines(r, i)} = named
  BY <1>1, <1>2
<1>5. ASSUME NEW a \in i.assistants PROVE Cardinality({x \in ItemLines(r, i) : x.assistant = a}) = 1
  <2>1. {x \in ItemLines(r, i) : x.assistant = a} = {Line(a)}
    BY <1>1, <1>2, <1>3
  <2> QED BY <2>1, FS_Singleton
<1> QED BY <1>1, <1>2, <1>3, <1>4, <1>5

(* If each slot has one item, the lines are put together to the items.     *)
LEMMA LinesPutTogether ==
  ASSUME NEW r, NEW items,
         \A i \in items : NoPrincipal \notin i.assistants,
         \A i, j \in items : SlotOf(i) = SlotOf(j) => i = j
  PROVE  PutTogether(UNION {ItemLines(r, i) : i \in items}) = {{ItemRead(i) : i \in items}}
<1> DEFINE lines == UNION {ItemLines(r, i) : i \in items}
           slots == {<<x.shift, x.day>> : x \in lines}
           Of(s) == {x \in lines : <<x.shift, x.day>> = s}
           assistants(s) == {x.assistant : x \in Of(s)} \ {NoPrincipal}
           Times1(s) == [a \in assistants(s) |-> Cardinality({x \in Of(s) : x.assistant = a})]
           Slot(s, f) == [shift |-> s[1], day |-> s[2], principal |-> f[s],
                          assistants |-> Times1(s)]
           Picked == {f \in [slots -> {x.principal : x \in lines}] :
                         \A s \in slots : \E x \in Of(s) : f[s] = x.principal}
<1>1. \A i \in items : /\ ItemLines(r, i) /= {}
                       /\ \A x \in ItemLines(r, i) : SlotOf(x) = SlotOf(i) /\ x.principal = i.principal
  BY LinesOfItem
<1>2. slots = {SlotOf(i) : i \in items}
  BY <1>1 DEF SlotOf
<1>3. ASSUME NEW i \in items PROVE Of(SlotOf(i)) = ItemLines(r, i)
  BY <1>1, <1>3 DEF SlotOf
<1>4. ASSUME NEW i \in items PROVE Times1(SlotOf(i)) = [a \in i.assistants |-> 1]
  <2>1. assistants(SlotOf(i)) = i.assistants
    BY <1>3, LinesOfItem
  <2>2. \A a \in i.assistants : Cardinality({x \in Of(SlotOf(i)) : x.assistant = a}) = 1
    BY <1>3, LinesOfItem
  <2> HIDE DEF Of, assistants
  <2> QED BY <2>1, <2>2
<1>5. ASSUME NEW f \in Picked, NEW i \in items PROVE f[SlotOf(i)] = i.principal
  <2>1. SlotOf(i) \in slots
    BY <1>2
  <2>2. \E x \in Of(SlotOf(i)) : f[SlotOf(i)] = x.principal
    BY <2>1
  <2> HIDE DEF Of
  <2> QED BY <1>1, <1>3, <2>2
<1>6. Picked /= {}
  <2> DEFINE First(s) == CHOOSE x \in Of(s) : TRUE
             g == [s \in slots |-> First(s).principal]
  <2>1. ASSUME NEW s \in slots PROVE First(s) \in Of(s)
    <3>1. Of(s) /= {}
      OBVIOUS
    <3> HIDE DEF Of
    <3> QED BY <3>1
  <2>2. \A s \in slots : First(s) \in lines
    BY <2>1
  <2> HIDE DEF First, Of, slots, lines
  <2>3. g \in [slots -> {x.principal : x \in lines}]
    BY <2>2
  <2>4. \A s \in slots : \E x \in Of(s) : g[s] = x.principal
    BY <2>1
  <2> QED BY <2>3, <2>4
<1>7. ASSUME NEW f \in Picked PROVE {Slot(s, f) : s \in slots} = {ItemRead(i) : i \in items}
  <2>1. ASSUME NEW i \in items PROVE Slot(SlotOf(i), f) = ItemRead(i)
    <3>1. SlotOf(i)[1] = i.shift /\ SlotOf(i)[2] = i.day
      BY DEF SlotOf
    <3>2. f[SlotOf(i)] = i.principal /\ Times1(SlotOf(i)) = [a \in i.assistants |-> 1]
      BY <1>4, <1>5
    <3> HIDE DEF Times1
    <3> QED BY <3>1, <3>2 DEF ItemRead
  <2> HIDE DEF Slot, slots
  <2> QED BY <1>2, <2>1
<1> HIDE DEF Picked, Slot, slots
<1>8. {{Slot(s, f) : s \in slots} : f \in Picked} = {{ItemRead(i) : i \in items}}
  BY <1>6, <1>7
<1> QED BY <1>8, Zenon DEF PutTogether, Picked, Slot, slots

-----------------------------------------------------------------------------
(* The result that is stored.                                              *)

(* What is left of an accepted form is read as its items that are left,    *)
(* without the users that are gone, and names no slot twice if the form    *)
(* does not.                                                               *)
LEMMA AcceptedIsRead ==
  ASSUME NEW form, NEW live, NoPrincipal \notin live, NamesSlotsOnce(form)
  PROVE  /\ \A i \in Accepted(form, live) : NoPrincipal \notin i.assistants
         /\ \A i, j \in Accepted(form, live) : SlotOf(i) = SlotOf(j) => i = j
         /\ {ItemRead(i) : i \in Accepted(form, live)} =
              {[shift |-> i.shift, day |-> i.day, principal |-> i.principal,
                assistants |-> [a \in i.assistants \cap live |-> 1]] :
                 i \in {k \in ItemRows(form) : k.principal \in live \cup {NoPrincipal}}}
<1> DEFINE left == {k \in ItemRows(form) : k.principal \in live \cup {NoPrincipal}}
           Cut(k) == [k EXCEPT !.assistants = @ \cap live]
           Row(k) == [at |-> k.at, shift |-> k.shift, day |-> k.day,
                      principal |-> k.principal, assistants |-> k.assistants \cap live]
           Reading(k) == [shift |-> k.shift, day |-> k.day, principal |-> k.principal,
                          assistants |-> [a \in k.assistants \cap live |-> 1]]
<1>1. Accepted(form, live) = {Cut(k) : k \in left}
  BY DEF Accepted
<1>2. \A k \in left : Cut(k) = Row(k)
  BY RowIsRecord
<1>3. \A k : /\ Row(k).shift = k.shift /\ Row(k).day = k.day /\ Row(k).principal = k.principal
             /\ Row(k).assistants = k.assistants \cap live
  OBVIOUS
<1>4. \A k \in left : ItemRead(Cut(k)) = Reading(k)
  BY <1>2, <1>3 DEF ItemRead
<1>5. \A k, l \in left : SlotOf(Cut(k)) = SlotOf(Cut(l)) => k = l
  BY <1>2, <1>3 DEF NamesSlotsOnce, SlotOf
<1>6. \A k \in left : NoPrincipal \notin Cut(k).assistants
  BY <1>2, <1>3
<1> HIDE DEF Cut, Row, left, Reading
<1>7. {ItemRead(i) : i \in Accepted(form, live)} = {Reading(k) : k \in left}
  BY <1>1, <1>4
<1>8. \A i, j \in Accepted(form, live) : SlotOf(i) = SlotOf(j) => i = j
  BY <1>1, <1>5
<1>9. \A i \in Accepted(form, live) : NoPrincipal \notin i.assistants
  BY <1>1, <1>6
<1> QED BY <1>7, <1>8, <1>9 DEF left, Reading

(* GetSchedulingResultBySchedulePlanID merges the rows of a LEFT JOIN, in  *)
(* no order, by shift and day; of a plan with one result, which names each *)
(* slot once, it makes what was accepted, less the users deleted since.    *)
THEOREM ReadBackAsAccepted == Spec => []ReadsBackWhatWasAccepted
<1>1. IInv => ReadsBackWhatWasAccepted
  <2> SUFFICES ASSUME IInv, NEW p \in LivePlans, NEW r \in ResultsOf(p),
                      ResultsOf(p) = {r}, NamesSlotsOnce(call[r].form)
               PROVE  Readings(p) =
                        {{[shift |-> i.shift, day |-> i.day, principal |-> i.principal,
                           assistants |-> [a \in i.assistants \cap LiveUsers |-> 1]] :
                            i \in {k \in ItemRows(call[r].form) :
                                     k.principal \in LiveUsers \cup {NoPrincipal}}}}
    BY DEF ReadsBackWhatWasAccepted
  <2> DEFINE items == Accepted(call[r].form, LiveUsers)
  <2>1. roster[r] = items
    BY DEF ResultsOf, IInv, TypeOK, RosterIsWhatWasAccepted, Accepted
  <2>2. NoPrincipal \notin LiveUsers
    BY TablesAssumption DEF LiveUsers
  <2>3. /\ \A i \in items : NoPrincipal \notin i.assistants
        /\ \A i, j \in items : SlotOf(i) = SlotOf(j) => i = j
        /\ {ItemRead(i) : i \in items} =
              {[shift |-> i.shift, day |-> i.day, principal |-> i.principal,
                assistants |-> [a \in i.assistants \cap LiveUsers |-> 1]] :
                 i \in {k \in ItemRows(call[r].form) :
                          k.principal \in LiveUsers \cup {NoPrincipal}}}
    BY <2>2, AcceptedIsRead
  <2>4. Readings(p) = {{ItemRead(i) : i \in items}}
    <3>1. Lines(p) = UNION {ItemLines(r, i) : i \in items}
      BY <2>1 DEF Lines
    <3> HIDE DEF items
    <3> QED BY <2>3, <3>1, LinesPutTogether DEF Readings
  <2> QED BY <2>3, <2>4
<1> QED BY <1>1, Invariance, PTL
=============================================================================

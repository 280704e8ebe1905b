----------------------------- MODULE Scheduling -----------------------------
(***************************************************************************)
(* The API around a schedule plan: templates, plans, users, the            *)
(* availability submissions and the scheduling result of a plan.           *)
(*                                                                         *)
(* A handler with one statement is one action.  The handlers that read     *)
(* first and write later (SubmitYourAvailability, SubmitSchedulingResult,  *)
(* UpdateSchedulePlan, UpdateScheduleTemplate) or read twice               *)
(* (GetYourAvailabilitySubmission) are requests that take one step per     *)
(* statement and keep copies of what they read; anything may happen        *)
(* between two steps.                                                      *)
(* The transaction that replaces a record takes two steps, as KeyedStore   *)
(* has them and as ReplaceTxn is shown to implement them: what it will     *)
(* replace is found when its DELETE starts and replaced when it commits.   *)
(*                                                                         *)
(* A stored record is identified with the request that wrote it.           *)
(***************************************************************************)
EXTENDS Validation, FiniteSets, SequencesExt

CONSTANTS Users, Plans, Templates,
          ShiftsOf,     \* the shifts of each template
          Names,        \* what a template may be called, or described with
          Windows,      \* the times that a plan may be created with
          Requests,     \* the requests that take more than one step
          Calls,        \* what they may ask for
          MaxTime,      \* the clock stops there
          MaxEdits,     \* bound: accepted edits of a plan or a template
          Absent,       \* in place of a plan or a template: not created yet
          Deleted       \* in place of a plan or a template: deleted

(***************************************************************************)
(* A call has an op, a plan (retitle: a template) and more fields:         *)
(*   submit   user, form, latest   the availability of a user              *)
(*   result   form, latest         the result of a plan                    *)
(*   update   change, latest       some of the times of a plan             *)
(*   retitle  change               the name or description of a template   *)
(*   read     user, latest         the availability that a user submitted  *)
(* latest says that the plan is asked for as "latest-available"; the plan  *)
(* of such a call is the one that it will turn out to be.                  *)
(***************************************************************************)
Times == {"from", "until", "start", "end"}
Texts == {"name", "description"}
Items == [day : 1 .. 7, principal : Users \cup {NoPrincipal}, assistants : Seq(Users)]
PlanRows == [template : Templates, times : [Times -> Nat],
             version : Nat \ {0}, created : 0 .. MaxTime]
TemplateRows == [text : [Texts -> Names], version : Nat \ {0}]

ASSUME CallsAssumption ==
    \A c \in Calls :
      /\ c.op \in {"submit", "result", "update", "retitle", "read"}
      /\ IF c.op = "retitle" THEN c.template \in Templates ELSE c.plan \in Plans
      /\ c.op \in {"submit", "read"} => c.user \in Users
      /\ c.op = "result" => \A i \in 1 .. Len(c.form) : c.form[i].items \in Seq(Items)
      /\ c.op = "update" => \A f \in DOMAIN c.change : c.change[f] \in Nat
      /\ c.op = "retitle" => \A f \in DOMAIN c.change : c.change[f] \in Names

ASSUME TablesAssumption ==
    /\ Users /= {} /\ Plans /= {}
    /\ Users \cap Plans = {} /\ Plans \cap Templates = {}
    /\ NoPrincipal \notin Users
    /\ Templates \subseteq Names
    /\ Absent /= Deleted
    /\ {Absent, Deleted} \cap PlanRows = {}
    /\ {Absent, Deleted} \cap TemplateRows = {}
    /\ \A t \in Templates : DOMAIN ShiftsOf[t] = 1 .. Len(ShiftsOf[t])
    /\ Windows \subseteq [Times -> Nat]
    /\ {MaxTime, MaxEdits} \subseteq Nat

VARIABLES now,
          user,         \* "active", "left" (IsActive is false) or "deleted"
          template,     \* Absent, Deleted, or the row of the template
          plan,         \* Absent, Deleted, or the row of the plan
          submissions,  \* the stored submissions
          results,      \* the stored results
          roster,       \* the item rows of each result
          call,         \* what each request asks for
          pc,           \* the step of its handler that each request is at
          copy,         \* the plan, or the template, as each request has read it
          saw,          \* the records that each request found, to replace or to read
          offered,      \* history: every submission that was ever stored
          edits         \* history: the times given to each plan and the texts
                        \* given to each template, in order

vars == <<now, user, template, plan, submissions, results, roster,
          call, pc, copy, saw, offered, edits>>
rows == <<user, template, plan, submissions, results, roster, offered, edits>>

LiveTemplates == {t \in Templates : template[t] \notin {Absent, Deleted}}
LivePlans == {p \in Plans : plan[p] \notin {Absent, Deleted}}
LiveUsers == {u \in Users : user[u] /= "deleted"}

PCs == {"new", "resolved", "loaded", "known", "begun", "open", "fits", "checked", "replacing",
        "found", "done", "failed"}
Running == PCs \ {"done", "failed"}

Init == /\ now = 0
        /\ user = [u \in Users |-> "active"]
        /\ template = [t \in Templates |-> Absent]
        /\ plan = [p \in Plans |-> Absent]
        /\ submissions = {}
        /\ results = {}
        /\ roster = [r \in Requests |-> {}]
        /\ call \in [Requests -> Calls]
        /\ pc = [r \in Requests |-> "new"]
        /\ copy = [r \in Requests |-> Absent]
        /\ saw = [r \in Requests |-> {}]
        /\ offered = {}
        /\ edits = [x \in Plans \cup Templates |-> <<>>]

-----------------------------------------------------------------------------
(* Handlers of one statement.                                              *)

Tick == /\ now < MaxTime
        /\ now' = now + 1
        /\ UNCHANGED <<user, template, plan, submissions, results, roster,
                       call, pc, copy, saw, offered, edits>>

\* The names of templates are unique.
NameFree(t, name) == \A s \in LiveTemplates \ {t} : template[s].text.name /= name

CreateScheduleTemplate(t) ==
    /\ template[t] = Absent
    /\ ShiftTimesValid(ShiftsOf[t])
    /\ LET text == [f \in Texts |-> t]
       IN  /\ NameFree(t, text.name)
           /\ template' = [template EXCEPT ![t] = [text |-> text, version |-> 1]]
           /\ edits' = [edits EXCEPT ![t] = <<text>>]
    /\ UNCHANGED <<now, user, plan, submissions, results, roster,
                   call, pc, copy, saw, offered>>

\* The foreign key of the plans refuses it for a template in use.
DeleteScheduleTemplate(t) ==
    /\ t \in LiveTemplates
    /\ \A p \in LivePlans : plan[p].template /= t
    /\ template' = [template EXCEPT ![t] = Deleted]
    /\ UNCHANGED <<now, user, plan, submissions, results, roster,
                   call, pc, copy, saw, offered, edits>>

\* Mutant of InsertPlan: the versions begin at 0.
InsertPlanVersion0(p, t, times) ==
    /\ t \in LiveTemplates
    /\ plan' = [plan EXCEPT ![p] = [template |-> t, times |-> times,
                                    version |-> 0, created |-> now]]

\* The INSERT of a plan; its foreign key wants the template.
InsertPlan(p, t, times) ==
    /\ t \in LiveTemplates
    /\ plan' = [plan EXCEPT ![p] = [template |-> t, times |-> times,
                                    version |-> 1, created |-> now]]

CreateSchedulePlan(p, t, times) ==
    /\ plan[p] = Absent
    /\ PlanTimesValid(times)
    /\ InsertPlan(p, t, times)
    /\ edits' = [edits EXCEPT ![p] = <<times>>]
    /\ UNCHANGED <<now, user, template, submissions, results, roster,
                   call, pc, copy, saw, offered>>

\* ON DELETE CASCADE takes the submissions and the results of the plan along.
DeleteSchedulePlan(p) ==
    /\ p \in LivePlans
    /\ plan' = [plan EXCEPT ![p] = Deleted]
    /\ submissions' = {r \in submissions : call[r].plan /= p}
    /\ results' = {r \in results : call[r].plan /= p}
    /\ roster' = [r \in Requests |-> IF r \in results \ results' THEN {} ELSE roster[r]]
    /\ UNCHANGED <<now, user, template, call, pc, copy, saw, offered, edits>>

\* UpdateUser sets IsActive.
SetActive(u, status) ==
    /\ user[u] \in {"active", "left"} \ {status}
    /\ user' = [user EXCEPT ![u] = status]
    /\ UNCHANGED <<now, template, plan, submissions, results, roster,
                   call, pc, copy, saw, offered, edits>>

\* The items of a result without a user: an item goes with its principal.
Without(u, items) ==
    {[i EXCEPT !.assistants = @ \ {u}] : i \in {k \in items : k.principal /= u}}

\* Mutant of DeleteUser: the foreign keys of the items do not cascade.
DeleteUserOnly(u) ==
    /\ user[u] /= "deleted"
    /\ user' = [user EXCEPT ![u] = "deleted"]
    /\ submissions' = {r \in submissions : call[r].user /= u}
    /\ UNCHANGED <<now, template, plan, results, roster, call, pc, copy, saw, offered, edits>>

DeleteUser(u) ==
    /\ user[u] /= "deleted"
    /\ user' = [user EXCEPT ![u] = "deleted"]
    /\ submissions' = {r \in submissions : call[r].user /= u}
    /\ roster' = [r \in Requests |-> Without(u, roster[r])]
    /\ UNCHANGED <<now, template, plan, results, call, pc, copy, saw, offered, edits>>

-----------------------------------------------------------------------------
(* The middlewares that the requests pass.                                 *)

\* GetLatestAvailableSchedulePlanID: the newest plan that is not over yet.
LatestAvailable ==
    LET candidates == {p \in LivePlans : plan[p].times.until > now}
    IN  {p \in candidates : \A q \in candidates : plan[q].created <= plan[p].created}

ResolveLatest(r) ==
    /\ pc[r] = "new"
    /\ call[r].op /= "retitle" /\ call[r].latest
    /\ call[r].plan \in LatestAvailable
    /\ pc' = [pc EXCEPT ![r] = "resolved"]
    /\ UNCHANGED <<now, rows, call, copy, saw>>

LoadPlan(r) ==
    /\ call[r].op /= "retitle"
    /\ pc[r] = IF call[r].latest THEN "resolved" ELSE "new"
    /\ call[r].plan \in LivePlans
    /\ copy' = [copy EXCEPT ![r] = plan[call[r].plan]]
    /\ pc' = [pc EXCEPT ![r] = "loaded"]
    /\ UNCHANGED <<now, rows, call, saw>>

LoadTemplate(r) ==
    /\ pc[r] = "new"
    /\ call[r].op = "retitle"
    /\ call[r].template \in LiveTemplates
    /\ copy' = [copy EXCEPT ![r] = template[call[r].template]]
    /\ pc' = [pc EXCEPT ![r] = "loaded"]
    /\ UNCHANGED <<now, rows, call, saw>>

\* myInfo and preventLeavedAssistant.
CheckCaller(r) ==
    /\ pc[r] = "loaded"
    /\ call[r].op \in {"submit", "read"}
    /\ user[call[r].user] = "active"
    /\ pc' = [pc EXCEPT ![r] = "known"]
    /\ UNCHANGED <<now, rows, call, copy, saw>>

\* Mutant of CheckOpened: nobody asks whether the plan has opened.
CheckOpenedAlways(r) ==
    /\ pc[r] = "known"
    /\ pc' = [pc EXCEPT ![r] = "begun"]
    /\ UNCHANGED <<now, rows, call, copy, saw>>

\* preventSubmit2unavailableSchedulePlan, on the copy.  It asks for the time
\* twice.
CheckOpened(r) ==
    /\ pc[r] = "known"
    /\ ~(copy[r].times.from > now)
    /\ pc' = [pc EXCEPT ![r] = "begun"]
    /\ UNCHANGED <<now, rows, call, copy, saw>>

CheckNotClosed(r) ==
    /\ pc[r] = "begun"
    /\ ~(copy[r].times.until < now)
    /\ pc' = [pc EXCEPT ![r] = "open"]
    /\ UNCHANGED <<now, rows, call, copy, saw>>

-----------------------------------------------------------------------------
(* SubmitYourAvailability and SubmitSchedulingResult.                      *)

\* GetScheduleTemplate: no rows are a template with no shifts, not an error.
TemplateShifts(t) == IF t \in LiveTemplates THEN ShiftsOf[t] ELSE <<>>

CheckSubmission(r) ==
    /\ pc[r] = "open"
    /\ call[r].op = "submit"
    /\ SubmissionFits(call[r].form, TemplateShifts(copy[r].template))
    /\ pc' = [pc EXCEPT ![r] = "checked"]
    /\ UNCHANGED <<now, rows, call, copy, saw>>

CheckResultForm(r) ==
    /\ pc[r] = "loaded"
    /\ call[r].op = "result"
    /\ ResultFits(call[r].form, TemplateShifts(copy[r].template))
    /\ pc' = [pc EXCEPT ![r] = "fits"]
    /\ UNCHANGED <<now, rows, call, copy, saw>>

SubmissionsOf(p) == {x \in submissions : call[x].plan = p}
Submitters(p) == {call[x].user : x \in SubmissionsOf(p)}

\* GetAllSubmissionsBySchedulePlanID, in no order; getSubmissionByAssistantID
\* takes the first one of a user, should there be more.
CheckResultStaff(r) ==
    LET p == call[r].plan
    IN  /\ pc[r] = "fits"
        /\ \E first \in [Submitters(p) -> SubmissionsOf(p)] :
             /\ \A u \in Submitters(p) : call[first[u]].user = u
             /\ StaffAvailable(call[r].form, [u \in Submitters(p) |-> call[first[u]].form])
        /\ NoDuplicateStaff(call[r].form)
        /\ pc' = [pc EXCEPT ![r] = "checked"]
        /\ UNCHANGED <<now, rows, call, copy, saw>>

\* Mutant of SameKey: a submission replaces those of all users.
SamePlan(x, r) == call[x].plan = call[r].plan

SameKey(x, r) ==
    /\ call[x].plan = call[r].plan
    /\ call[r].op = "submit" => call[x].user = call[r].user

\* The transaction begins and its DELETE looks for the former record.
StartReplace(r) ==
    /\ pc[r] = "checked"
    /\ pc' = [pc EXCEPT ![r] = "replacing"]
    /\ saw' = [saw EXCEPT ![r] =
                 {x \in IF call[r].op = "submit" THEN submissions ELSE results : SameKey(x, r)}]
    /\ UNCHANGED <<now, rows, call, copy>>

Finish(r, outcome) ==
    /\ pc' = [pc EXCEPT ![r] = outcome]
    /\ copy' = [copy EXCEPT ![r] = Absent]

\* InsertAvailabilitySubmission commits: its user and its plan are there.
CommitSubmission(r) ==
    /\ pc[r] = "replacing"
    /\ call[r].op = "submit"
    /\ call[r].plan \in LivePlans
    /\ call[r].user \in LiveUsers
    /\ submissions' = (submissions \ saw[r]) \cup {r}
    /\ offered' = offered \cup {r}
    /\ Finish(r, "done")
    /\ UNCHANGED <<now, user, template, plan, results, roster, call, saw, edits>>

\* One row per item of the form; at tells them apart.
ItemRows(form) ==
    UNION {{[at |-> <<i, j>>, shift |-> form[i].shift, day |-> form[i].items[j].day,
             principal |-> form[i].items[j].principal,
             assistants |-> Range(form[i].items[j].assistants)] :
              j \in 1 .. Len(form[i].items)} : i \in 1 .. Len(form)}

StaffOf(items) ==
    UNION {({i.principal} \ {NoPrincipal}) \cup i.assistants : i \in items}

\* Mutant of CommitResult: the former result is not deleted.
CommitResultKeepOld(r) ==
    /\ pc[r] = "replacing"
    /\ call[r].op = "result"
    /\ call[r].plan \in LivePlans
    /\ StaffOf(ItemRows(call[r].form)) \subseteq LiveUsers
    /\ results' = results \cup {r}
    /\ roster' = [roster EXCEPT ![r] = ItemRows(call[r].form)]
    /\ Finish(r, "done")
    /\ UNCHANGED <<now, user, template, plan, submissions, call, saw, offered, edits>>

\* InsertSchedulingResult commits: its plan and everyone it names are there.
CommitResult(r) ==
    /\ pc[r] = "replacing"
    /\ call[r].op = "result"
    /\ call[r].plan \in LivePlans
    /\ StaffOf(ItemRows(call[r].form)) \subseteq LiveUsers
    /\ results' = (results \ saw[r]) \cup {r}
    /\ roster' = [x \in Requests |-> IF x = r THEN ItemRows(call[r].form)
                                     ELSE IF x \in saw[r] THEN {} ELSE roster[x]]
    /\ Finish(r, "done")
    /\ UNCHANGED <<now, user, template, plan, submissions, call, saw, offered, edits>>

-----------------------------------------------------------------------------
(* GetYourAvailabilitySubmission, which is routed through the same window, *)
(* and the rows that GetSchedulingResult puts together.                    *)

OwnSubmissions(r) == {x \in SubmissionsOf(call[r].plan) : call[x].user = call[r].user}

\* The first statement: the submission's id, of any of them; or no rows.
FindOwnSubmission(r) ==
    /\ pc[r] = "open"
    /\ call[r].op = "read"
    /\ \/ /\ OwnSubmissions(r) = {}
          /\ Finish(r, "done")
          /\ UNCHANGED saw
       \/ /\ \E x \in OwnSubmissions(r) : saw' = [saw EXCEPT ![r] = {x}]
          /\ pc' = [pc EXCEPT ![r] = "found"]
          /\ UNCHANGED copy
    /\ UNCHANGED <<now, rows, call>>

\* Mutant of ItemsRead: the items are looked up by user and plan as well.
ItemsReadByKey(r) == UNION {Slots(call[x].form) : x \in OwnSubmissions(r)}

\* What the second statement finds under that id; nothing, if the submission
\* has gone, and the answer is one without items.
ItemsRead(r) == UNION {Slots(call[x].form) : x \in saw[r] \cap submissions}

ReadOwnItems(r) ==
    /\ pc[r] = "found"
    /\ Finish(r, "done")
    /\ UNCHANGED <<now, rows, call, saw>>

ResultsOf(p) == {x \in results : call[x].plan = p}

\* The lines of the LEFT JOIN for an item: one for each assistant, or one that
\* names nobody.
ItemLines(r, i) ==
    {[result |-> r, item |-> i.at, shift |-> i.shift, day |-> i.day,
      principal |-> i.principal, assistant |-> a] :
       a \in IF i.assistants = {} THEN {NoPrincipal} ELSE i.assistants}

\* All that the plan has, of any result.
Lines(p) == UNION {UNION {ItemLines(r, i) : i \in roster[r]} : r \in ResultsOf(p)}

\* Mutant of PutTogether: every line starts the item of its shift and day anew.
PutTogetherLastLine(lines) ==
    LET slots == {<<x.shift, x.day>> : x \in lines}
        Of(s) == {x \in lines : <<x.shift, x.day>> = s}
    IN  {{[shift |-> s[1], day |-> s[2], principal |-> last[s].principal,
           assistants |-> [a \in {last[s].assistant} \ {NoPrincipal} |-> 1]] : s \in slots} :
           last \in {f \in [slots -> lines] : \A s \in slots : f[s] \in Of(s)}}

\* The lines are merged by shift and day; the line that comes first, in no order,
\* decides on the principal.  Each assistant comes with the number of times that
\* the merged list names them.
PutTogether(lines) ==
    LET slots == {<<x.shift, x.day>> : x \in lines}
        Of(s) == {x \in lines : <<x.shift, x.day>> = s}
        assistants(s) == {x.assistant : x \in Of(s)} \ {NoPrincipal}
    IN  {{[shift |-> s[1], day |-> s[2], principal |-> principal[s],
           assistants |-> [a \in assistants(s) |-> Cardinality({x \in Of(s) : x.assistant = a})]] :
            s \in slots} :
           principal \in {f \in [slots -> {x.principal : x \in lines}] :
                            \A s \in slots : \E x \in Of(s) : f[s] = x.principal}}

Readings(p) == PutTogether(Lines(p))

-----------------------------------------------------------------------------
(* UpdateSchedulePlan and UpdateScheduleTemplate.                          *)

\* The times or the texts with some of them replaced.
Merge(fields, change) ==
    [f \in DOMAIN fields |-> IF f \in DOMAIN change THEN change[f] ELSE fields[f]]

\* Mutant of UpdatePlan: WHERE names the id of the plan only.
UpdatePlanAnyVersion(p, times, version) ==
    /\ p \in LivePlans
    /\ plan' = [plan EXCEPT ![p].times = times, ![p].version = @ + 1]

\* The UPDATE of a plan: WHERE names the id and the version.
UpdatePlan(p, times, version) ==
    /\ p \in LivePlans
    /\ plan[p].version = version
    /\ plan' = [plan EXCEPT ![p].times = times, ![p].version = @ + 1]

\* The copy with the changes is checked and written over the row.
UpdateSchedulePlan(r) ==
    /\ pc[r] = "loaded"
    /\ call[r].op = "update"
    /\ LET p == call[r].plan
           times == Merge(copy[r].times, call[r].change)
       IN  /\ Len(edits[p]) <= MaxEdits
           /\ PlanTimesValid(times)
           /\ UpdatePlan(p, times, copy[r].version)
           /\ edits' = [edits EXCEPT ![p] = Append(@, call[r].change)]
    /\ Finish(r, "done")
    /\ UNCHANGED <<now, user, template, submissions, results, roster, call, saw, offered>>

\* The same of a template, whose name may be taken.
UpdateScheduleTemplate(r) ==
    /\ pc[r] = "loaded"
    /\ call[r].op = "retitle"
    /\ LET t == call[r].template
           text == Merge(copy[r].text, call[r].change)
       IN  /\ Len(edits[t]) <= MaxEdits
           /\ t \in LiveTemplates
           /\ template[t].version = copy[r].version
           /\ NameFree(t, text.name)
           /\ template' = [template EXCEPT ![t] = [text |-> text, version |-> @.version + 1]]
           /\ edits' = [edits EXCEPT ![t] = Append(@, call[r].change)]
    /\ Finish(r, "done")
    /\ UNCHANGED <<now, user, plan, submissions, results, roster, call, saw, offered>>

\* A check fails, a row is gone or locked for too long, a statement fails: the
\* handler answers with an error, and the transaction, if any, is rolled back.
GiveUp(r) ==
    /\ pc[r] \in Running
    /\ Finish(r, "failed")
    /\ UNCHANGED <<now, rows, call, saw>>

-----------------------------------------------------------------------------
RequestStep(r) == \/ ResolveLatest(r)
                  \/ LoadPlan(r)
                  \/ LoadTemplate(r)
                  \/ CheckCaller(r)
                  \/ CheckOpened(r)
                  \/ CheckNotClosed(r)
                  \/ CheckSubmission(r)
                  \/ CheckResultForm(r)
                  \/ CheckResultStaff(r)
                  \/ StartReplace(r)
                  \/ CommitSubmission(r)
                  \/ CommitResult(r)
                  \/ FindOwnSubmission(r)
                  \/ ReadOwnItems(r)
                  \/ UpdateSchedulePlan(r)
                  \/ UpdateScheduleTemplate(r)
                  \/ GiveUp(r)

Next == \/ Tick
        \/ \E t \in Templates : CreateScheduleTemplate(t) \/ DeleteScheduleTemplate(t)
        \/ \E p \in Plans, t \in Templates, times \in Windows : CreateSchedulePlan(p, t, times)
        \/ \E p \in Plans : DeleteSchedulePlan(p)
        \/ \E u \in Users : DeleteUser(u) \/ SetActive(u, "active") \/ SetActive(u, "left")
        \/ \E r \in Requests : RequestStep(r)

Spec == Init /\ [][Next]_vars

-----------------------------------------------------------------------------
TypeOK ==
    /\ now \in 0 .. MaxTime
    /\ user \in [Users -> {"active", "left", "deleted"}]
    /\ template \in [Templates -> {Absent, Deleted} \cup TemplateRows]
    /\ plan \in [Plans -> {Absent, Deleted} \cup PlanRows]
    /\ submissions \in SUBSET {r \in Requests : call[r].op = "submit"}
    /\ results \in SUBSET {r \in Requests : call[r].op = "result"}
    /\ call \in [Requests -> Calls]
    /\ pc \in [Requests -> PCs]
    /\ copy \in [Requests -> {Absent} \cup PlanRows \cup TemplateRows]
    /\ saw \in [Requests -> SUBSET Requests]
    /\ offered \in SUBSET Requests

\* Whatever partial updates are accepted and however they race, a plan opens
\* before it closes, closes before it takes effect, and takes effect before it
\* ends.
PlansWellTimed ==
    \A p \in LivePlans : LET t == plan[p].times
                         IN  t.from <= t.until /\ t.until <= t.start /\ t.start <= t.end

\* No accepted edit of a plan or a template is lost or undone by one that raced
\* with it, though each writes all the fields back: every field has the value
\* that the last accepted change to name it, or the creation, gave it.
GivenLast(fields, changes) ==
    \A f \in DOMAIN fields :
      \E i \in DOMAIN changes : /\ f \in DOMAIN changes[i]
                               /\ fields[f] = changes[i][f]
                               /\ \A j \in DOMAIN changes : j > i => f \notin DOMAIN changes[j]
NoLostEdit ==
    /\ \A p \in LivePlans : GivenLast(plan[p].times, edits[p])
    /\ \A t \in LiveTemplates : GivenLast(template[t].text, edits[t])

\* Of every stored submission and every stored result, each slot is a shift of
\* the template that the plan has now on a day of that shift, although the
\* template was read from a copy of the plan and before the record was stored.
TemplateSlots(t) == UNION {{shift.id} \X shift.days : shift \in Range(TemplateShifts(t))}
StoredFitsTemplate ==
    /\ \A r \in submissions : Slots(call[r].form) \subseteq TemplateSlots(plan[call[r].plan].template)
    /\ \A r \in results : \A i \in roster[r] :
         <<i.shift, i.day>> \in TemplateSlots(plan[call[r].plan].template)

\* Everyone on the roster of a stored result is a user of the system and still
\* has a submission for that plan, whatever was submitted again, deleted or
\* stored while the result was checked and stored.
RosteredHaveSubmitted ==
    \A r \in results : StaffOf(roster[r]) \subseteq LiveUsers \cap Submitters(call[r].plan)

\* Nobody is put on a slot that they never offered: some submission that they
\* stored for the plan names the shift and the day.
RosterWasOffered ==
    \A r \in results : \A i \in roster[r] : \A u \in StaffOf({i}) :
      \E x \in offered : /\ call[x].user = u
                         /\ call[x].plan = call[r].plan
                         /\ <<i.shift, i.day>> \in Slots(call[x].form)

\* A stored result is the accepted one less the users deleted since: no item
\* or assistant goes for any other reason, and none comes back.
RosterIsWhatWasAccepted ==
    \A r \in Requests :
      roster[r] = IF r \in results
                  THEN {[i EXCEPT !.assistants = @ \cap LiveUsers] :
                          i \in {k \in ItemRows(call[r].form) :
                                   k.principal \in LiveUsers \cup {NoPrincipal}}}
                  ELSE {}

\* No submission is stored for a plan that has not opened yet, though the opening
\* is checked on a copy and long before the INSERT; unless the plan was edited in
\* between, which nothing prevents.
NoneStoredEarly ==
    [][\A r \in Requests :
         /\ call[r].op = "submit" /\ pc[r] = "replacing" /\ pc'[r] = "done"
         /\ plan[call[r].plan].version = copy[r].version
         => plan[call[r].plan].times.from <= now]_vars

\* Whoever reads the only result of a plan, one that names each slot once, gets
\* in whatever order the rows come what was accepted when it was stored, less
\* the users deleted since: with the principal that was chosen, each assistant
\* once, and no slot lost for having no assistants.
NamesSlotsOnce(form) ==
    \A i, j \in ItemRows(form) : i.shift = j.shift /\ i.day = j.day => i = j
ReadsBackWhatWasAccepted ==
    \A p \in LivePlans : \A r \in ResultsOf(p) :
      ResultsOf(p) = {r} /\ NamesSlotsOnce(call[r].form) =>
        Readings(p) = {{[shift |-> i.shift, day |-> i.day, principal |-> i.principal,
                         assistants |-> [a \in i.assistants \cap LiveUsers |-> 1]] :
                          i \in {k \in ItemRows(call[r].form) :
                                   k.principal \in LiveUsers \cup {NoPrincipal}}}}

\* What a user reads back is one submission that they stored for the plan, or
\* nothing of one that went between the two statements: never parts of several,
\* however many of theirs are stored or being replaced.
ReadsOneSubmission ==
    [][\A r \in Requests : pc[r] = "found" /\ pc'[r] = "done" =>
         \/ \E x \in offered : /\ call[x].user = call[r].user
                               /\ call[x].plan = call[r].plan
                               /\ ItemsRead(r) = Slots(call[x].form)
         \/ ItemsRead(r) = {} /\ \E x \in offered : x \in saw[r] \ submissions]_vars

-----------------------------------------------------------------------------
(* The submissions and the results are stored as KeyedStore promises.      *)

PhaseOf(r, op) ==
    CASE call[r].op /= op \/ pc[r] \in Running \ {"replacing"} -> "waiting"
      [] call[r].op = op /\ pc[r] = "replacing" -> "open"
      [] call[r].op = op /\ pc[r] = "done" -> "stored"
      [] call[r].op = op /\ pc[r] = "failed" -> "failed"

Parents == Users \cup Plans
LiveParents == Parents \ ({u \in Users : user[u] = "deleted"} \cup {p \in Plans : plan[p] = Deleted})

SubmissionKey(r) == IF call[r].op = "submit" THEN <<call[r].user, call[r].plan>>
                    ELSE CHOOSE k \in Users \X Plans : TRUE

SubmissionStore ==
    INSTANCE KeyedStore WITH
      Keys <- Users \X Plans,
      ParentsOf <- [k \in Users \X Plans |-> {k[1], k[2]}],
      phase <- [r \in Requests |-> PhaseOf(r, "submit")],
      key <- [r \in Requests |-> SubmissionKey(r)],
      saw <- [r \in Requests |-> IF call[r].op = "submit" THEN saw[r] ELSE {}],
      stored <- submissions,
      live <- LiveParents

ResultKey(r) == IF call[r].op = "result" THEN call[r].plan ELSE CHOOSE p \in Plans : TRUE

ResultStore ==
    INSTANCE KeyedStore WITH
      Keys <- Plans,
      ParentsOf <- [k \in Plans |-> {k}],
      phase <- [r \in Requests |-> PhaseOf(r, "result")],
      key <- [r \in Requests |-> ResultKey(r)],
      saw <- [r \in Requests |-> IF call[r].op = "result" THEN saw[r] ELSE {}],
      stored <- results,
      live <- LiveParents

\* A stored submission leaves only with its user, its plan or as its user
\* submits again for that plan; the same of results and plans.
ImplementsSubmissionStore == SubmissionStore!Spec
ImplementsResultStore == ResultStore!Spec
=============================================================================

------------------------------ MODULE SeedTool ------------------------------
(***************************************************************************)
(* Operation 4 of cmd/seed: submissions of all users for the plan named on *)
(* the command line, one user after the other.  Plans and templates are    *)
(* numbered independently, both from 1.                                    *)
(***************************************************************************)
EXTENDS Seed

CONSTANTS Users,
          Templates,    \* id -> the shifts of the template
          Plans         \* id -> the id of the plan's template

VARIABLES pc,
          asked,        \* -schedule-plan-id
          todo,         \* the assistants left to go through
          submissions   \* the table availability_submissions

vars == <<pc, asked, todo, submissions>>

Init == /\ pc = "asked"
        /\ asked \in DOMAIN Plans \cup DOMAIN Templates \cup {0}
        /\ todo = {}
        /\ submissions = {}

\* The plan, its template and all users are read, or the tool gives up: an id
\* that is not positive, or is of no plan.
Load ==
    /\ pc = "asked"
    /\ IF asked > 0 /\ asked \in DOMAIN Plans
         THEN pc' = "storing" /\ todo' = Users
         ELSE pc' = "over" /\ UNCHANGED todo
    /\ UNCHANGED <<asked, submissions>>

Template == [id |-> Plans[asked], shifts |-> Templates[Plans[asked]]]

\* InsertAvailabilitySubmission puts a submission in the place of the former one
\* of its user and plan; when there is no such plan, its foreign key refuses it
\* and the tool goes on with the next user.
StoreFor(user) ==
    /\ pc = "storing" /\ user \in todo
    /\ \E as \in RandomSubmissions(Template, user) :
         submissions' =
           IF as.plan \in DOMAIN Plans
             THEN {f \in submissions : f.plan /= as.plan \/ f.user /= user} \cup {as}
             ELSE submissions
    /\ todo' = todo \ {user}
    /\ UNCHANGED <<pc, asked>>

Finish ==
    /\ pc = "storing" /\ todo = {}
    /\ pc' = "over"
    /\ UNCHANGED <<asked, todo, submissions>>

Next == Load \/ (\E user \in Users : StoreFor(user)) \/ Finish

Spec == Init /\ [][Next]_vars

-----------------------------------------------------------------------------
\* The flag is "随机插入提交记录的排班计划 ID", the id of the plan to insert random
\* submissions for: what the tool stores is of that plan.
SubmissionsGoToThePlan == \A as \in submissions : as.plan = asked
=============================================================================

# Verification of shift-manager-backend

TLA+ models of the backend with which a group of assistants plans its shifts: what TLC
checks about them on small instances, and what TLAPS proves about them for all. Paths are
those of the repository.

## 1. The system

The administrators create *schedule templates* (shifts, each with the days of the week on
which it takes place and the number of people it needs) and *schedule plans* (a template, a
window for submissions, a period in which the plan is in effect). The assistants submit, in
the window, on which days of which shifts they are available. The administrators store a
*scheduling result*: who is the principal and who are the assistants of each slot. A genetic
algorithm can propose one.

There are two processes. `cmd/api` serves HTTP requests, each in a goroutine of its own, over
one PostgreSQL pool, one Redis client and one RabbitMQ channel. `cmd/mail` is a loop that
takes mails from a RabbitMQ queue and sends them over SMTP. The Go code shares no memory
between requests: all interaction is through the rows of PostgreSQL, the keys of Redis and the
messages of RabbitMQ, and what is hard is the order of the statements of different requests.

| Component | State | Operations | Hard behaviour | Correct when |
|---|---|---|---|---|
| Replacing transaction (`repository/availability_submissions.go`, `scheduling_results.go`, foreign keys of migrations 4 and 5) | rows of submissions and results with the rows under them | `InsertAvailabilitySubmission`, `InsertSchedulingResult`; `DeleteUser`, `DeleteSchedulePlan` through their cascades | READ COMMITTED, lock waits, deadlocks, failures between statements, a commit whose answer is lost | records are whole, have their parents, vanish only when replaced or cascaded away; every transaction ends |
| Validation (`utils/validation.go`) | none | checks of templates, plans, submissions and results | boundaries; lists given by clients, with repetitions | what it accepts is a roster of the template |
| Templates, plans, submissions, results (`handler/schedule_*.go`, `middlewares.go`, `repository/schedule_*.go`) | templates, plans with versions, submissions, results | create, update and delete; submit; store a result | a request reads in its middlewares, checks later and writes later still, while others edit and delete | stored submissions and results fit the template; edits are not lost; templates in use stay |
| Users, passwords, addresses (`handler/users.go`, `me.go`, `auth.go`, `repository/users.go`) | rows of users with versions; codes in Redis | create, edit, delete; change and reset a password; change the address with a mailed code | read-modify-write of whole rows over several requests; codes that are replaced, shared, deleted, or expire | rows are distinct; the initial administrator stays; nothing changes but what was asked; a code opens only what it was mailed for |
| Mail pipeline (`cmd/mail/main.go` and the publishers) | the queue, the deliveries in the worker | publish, deliver, send, Ack, Nack | connection loss, crash, broker restart, SMTP failure before and after acceptance | no mail is given up unsent; duplicates only when the outcome was unknown; one bad mail does not stop the rest |
| Genetic scheduler (`internal/scheduler`, called by `GenerateSchedulingResult`) | a population of chromosomes, the genes they share, the best one ever | `New`, `Schedule` | chromosomes share genes and populations share chromosomes, by pointer, and mutation writes in place; boundaries of the random choices | what it proposes is a roster; the best one keeps the genes that were measured; elites change only as parents |
| Seed tool (`cmd/seed`, `internal/seed`, `utils/random.go`) | none of its own | makes up templates, plans and submissions and stores them | past the checks of the handlers | what it makes up would have been accepted, and is stored where it was asked for |
| Login and tokens (`handler/auth.go`, `middlewares.go`) | none on the server | login, logout | the role in a token is as old as the token | |
| API process, HTTP helpers, configuration, domain types | none of the running system | | | |

Interactions: a submission or a result holds foreign keys to users, plans and shifts, so
deleting a user or a plan changes stored submissions and results; a result is checked against
the submissions and the template that are stored when its handler reads them; the generator
reads the same rows; the handlers of users publish the mails that the worker sends.
`PROJECT.json` lists the components with their status and the hazards with their lines.

## 2. The modules

| Module | Models |
|---|---|
| `KeyedStore` | abstract: a store in which a request puts its record, in one step, in the place of exactly those it found; what a caller of the two Insert functions may rely on |
| `ReplaceTxn` | the transaction of the two Insert functions, one action per statement, with PostgreSQL's row locks, foreign-key locks, snapshots, cascades and deadlock detector; implements `KeyedStore` |
| `Validation` | the checks of `utils/validation.go`, as operators |
| `Scheduling` | the handlers of templates, plans, submissions and results, one action per step between reads and writes; EXTENDS `Validation`; implements `KeyedStore` twice |
| `Accounts` | the handlers of users, passwords and addresses, with Redis |
| `MailPipeline` | publishers, broker, worker and SMTP server |
| `Genetic` | one call of the generator, with every random choice; EXTENDS `Validation` |
| `Seed` | what the seed tool can make up, as sets; EXTENDS `Validation` |
| `SeedTool` | operation 4 of the seed tool, which stores a submission of every user; EXTENDS `Seed` |
| `MC*` | instances of the above for TLC; `MCValidation` has the reference definitions for `Validation` and `Seed` |
| `ValidationProofs` | theorems about `Validation`, `Seed` and the reference definitions of `MCValidation` |
| `ReplaceTxnProofs`, `AccountsProofs`, `MailPipelineProofs`, `GeneticProofs`, `SchedulingProofs` | the inductive invariant of the module they are named after, and its theorems |
| `SchedulingRowsProofs` | on top of `SchedulingProofs`: no edit of a row is lost; results are read back from their rows as accepted |
| `GeneticRosterProofs` | on top of `GeneticProofs`: what the generator answers is a roster; elites are lost only as parents |

A definition whose comment begins with "Mutant of" is a plausible bug of the definition that
follows it; no specification uses it. It is there to show that the property named for it in
`PROJECT.json` notices the bug.

### KeyedStore and ReplaceTxn

A record is identified with the request that wrote it. `pc[r]` is where the Go function is:
`deleting` and `inserting` are the two halves of an open transaction. `StartDelete` takes the
statement's snapshot; `DeleteRow` locks the rows of the snapshot one by one and waits for
other holders; `InsertHead` needs every row of the snapshot locked or gone (a READ COMMITTED
DELETE skips rows that others removed); `ShareParent` is the foreign-key lock, `InsertItem` the
child rows, `Commit` makes all visible. `CommitAnswerLost` is the commit that returns an error
and took effect nonetheless. `Rollback` is the deferred call, reached by any error and by the
context's timeout. `LockParent`, `CascadeRow`, `CommitDrop` are `DeleteUser` and
`DeleteSchedulePlan`. The history variable `before` records which requests had committed when a
DELETE started; `ExactSurvivors` uses it to say exactly which records survive.

`KeyedStore` has `Open`, `Replace`, `Fail` and `Drop` only. The refinement maps `deleting` and
`inserting` to an open phase and hides locks, shares and items.

The parents of a result are taken to be its plan only; the foreign keys of principals and
assistants are in `Scheduling`, whose `CommitResult` needs them and whose `DeleteUser` cascades.

### Validation

The shapes of submissions and results are sequences of records, as the client lists them,
repetitions included. Times of day are numbers. `ShiftsApart` is the comparison of two shifts,
`ResultShiftFits` one round of the loop, `Staff` whom an item names, and so on. Error texts and
formats are left out.

### Scheduling

`copy[r]` is the plan (or, for an edit of a template, the template) that the middleware put in
the context of the request; every later check reads it. `saw[r]` is what the DELETE of the
replacing transaction found. The steps are: `ResolveLatest`, `LoadPlan`, `CheckCaller`,
`CheckOpened` and `CheckNotClosed` (middlewares, in the order of the routes; the last one looks at the
clock twice), then `CheckSubmission` or
`CheckResultForm` and `CheckResultStaff`, then `StartReplace` and a commit.
`UpdateSchedulePlan` and `UpdateScheduleTemplate` merge the given fields into the copy, check,
and write with the version in WHERE. `GiveUp` ends a request at any step. `edits` and `offered`
are histories: the changes accepted for each plan and template, and the submissions ever stored. The
clock `now` is that of the server and of the database.

The shifts of a template are constant (`ShiftsOf`), for no statement of the program changes them
after the creation; its name and description change. A request to `latest-available` carries
the plan for which it will turn out to stand, so its step is enabled only when the query
answers with that plan.

Two reads are modelled, because they are more than one statement or more than a copy of rows.
A user's own submission is read by `FindOwnSubmission` (any one of theirs, as the statement has no
ORDER BY) and then `ReadOwnItems`, and may be replaced in between. The result of a plan is
`Readings`: `Lines` is the LEFT JOIN over all results of the plan, and `PutTogether` merges the
lines by shift and day, in every order in which the server may return them.

### Accounts

`users` is a set of rows; ids come from a sequence. A request keeps the row that it read in
`copy[r]` and writes it back with `StoreUser`, which is the UPDATE statement with its version
check, its unique constraint and the column that it leaves out. `otp` is Redis, one value per key;
keys are a name with `"reset"` or with an address. A code is identified with the request
that generated it, a hash with its password, so no two random values are equal by chance.
`GiveUp` ends a request at any step and leaves what was done, for there is no transaction around
these steps: a confirmation whose DEL fails has stored the row, and its code can be used again. `Expire` may happen at any time: the length of the TTL is left out.

### MailPipeline

`status` is what the broker knows of a mail, `buffered` what the Go client holds, `hand` the mail
that the loop is at, `answers` the Acks and Nacks that are on their way to the broker, with `reply` what each says.
The loop writes an answer and goes on (`Answer`, part of `Reject`, `SendFails` and `Ack`); the broker processes the
answers one by one, in their order (`Settle`), and when the connection breaks those that have not
arrived are lost, so any number of mails may be sent again. `ConnectionLost` leaves the worker with a closed channel, from which the loop
takes empty deliveries for ever: they are left out, as they are answered on no channel and
change nothing; the worker takes no mail again until it is stopped or crashes.

### Genetic

The program works by reference, and so does the model. `gene[k][i]` is the `Gene` object that was
made for slot *i* with chromosome *k*; `gene[0]` are the copies that the best one ever owns.
`genes[c][i] = k` says that chromosome *c* has `gene[k][i]` at place *i*, so crossover exchanges
numbers and mutation writes to `gene`, where every chromosome that shares it sees the change.
`pop` and `newPop` are lists of chromosomes, in which one can occur twice.

The steps are those of the code: `New` (or `NewFails`), `ListSlots`, `Populate`, `Examine`
(fitness of all, the best one, the elites), `Breed` (or `BreedPanics`), then the loops of `mutate` gene by
gene and seat by seat (`SkipGene`, `MutatePrincipal`, `KeepAssistant`, `MutateAssistant`), `Enlist`,
`EndGeneration`, `Finish`. Mutating a place is a choice, so the rates do not occur. `Selected` is the
roulette as it is written, which, as no fitness is positive, stops at the first chromosome or runs past the end. A
fitness is a whole number of 1/`Unit`, with a `Unit` that every square of a number of workers divides, so no
rounding is needed; `Undefined` is NaN, which compares as false.

An input has the template, the submissions and the users that the handler has read in three
statements; that they may not fit one another is in the inputs.

### Seed

`RandomShifts`, `RandomApplicableDays`, `PlanTimes`, `RandomSubmissions` are the sets of what
the generators of `utils/random.go` can return, `RealShifts` and `RealPlan` the built-in
data. An hour has 2 * `Half` units and a day `Hours` hours. `RandomSubmissions` gives the submission the plan that
the code gives it, which is the id of the template. `SeedTool` is operation 4 of `cmd/seed`: it loads the plan
that it was asked for, its template and the users, and stores a submission of each user with
`InsertAvailabilitySubmission`, whose foreign key refuses it when no plan has that id. Plans and templates are numbered
independently.

## 3. What is checked

Each run finishes within a few minutes. In every instance the requests are fewer than a real
system has, and enough for the interleavings that matter: a lost update needs two writers, a
violated foreign key one writer and one delete, a duplicate two transactions of one key; a
transaction that waits for one that waits needs three. The four requests of `accounts` are those
of a code that is asked for, replaced, and used by two confirmations. `MaxFaults` = 3 lets a
connection break, a worker stop and a broker restart on the way of one mail. Two chromosomes are
enough to share genes, three for one that is elite, parent and neither in turn; two
generations let what the first one wrote be compared in the second.

| Run | Instance | Shows |
|---|---|---|
| `replace_submissions` | 3 requests, 2 users, 1 plan, 1 child row | `TypeOK`, `StoredWhole`, `ReferentialIntegrity`, `ExactSurvivors`, the inductive invariant `IInv`, `NeverVanishes`, and that `KeyedStore` is implemented |
| `replace_liveness` | 3 requests of one key, 1 user, 1 plan, fairness | every opened transaction ends, and so does every DELETE of a parent: no wait goes on for ever |
| `replace_one_record` | 2 requests of one user for one plan | **violation**: two records of one key (section 5) |
| `validation_reference` | up to 3 shifts, times 0 to 4; up to 2 items on 2 days, 3 people, 2 needed; days of 7 hours and weeks of 2 days for the seeds | `TimesDecidedExactly`, `AcceptedResultIsARoster`, `SeedsAreValid` |
| `scheduling_roster` | 3 requests of 9 kinds, 2 users, 1 plan, 1 template | `TypeOK`, `StoredFitsTemplate`, `RosteredHaveSubmitted`, `RosterWasOffered`, `RosterIsWhatWasAccepted`, `ReadsBackWhatWasAccepted` (results with two assistants on a slot, and with none), `ReadsOneSubmission`, two refinements of `KeyedStore` |
| `scheduling_times` | 2 requests (edits of the times of plans and of the texts of a template, submissions by id and by latest-available), 2 plans, clock to 2, 2 edits of each, windows that open late, touch or are refused | `PlansWellTimed`, `NoLostEdit`, `NoneStoredEarly` |
| `genetic` | 1 to 3 chromosomes, 1 or 2 generations, up to 2 slots and 4 users; the boundaries: more elites than chromosomes, no slot, nobody to place, no principal, too few people, days twice, a shift without a day, a user with two submissions, a user deleted while the input is read | `TypeOK`, `GenesWellFormed`, `BestIsWhatWasMeasured`, `GeneratedIsARoster`, `ElitesLostOnlyAsParents` |
| `genetic_idle` | as above, without the boundaries | **violation** |
| `accounts` | 4 requests of 15 kinds: the administrator and one name, created, edited, deleted and created again; codes for two addresses and a reset, confirmations, a rival for an address | `TypeOK`, `InitialAdminStays`, `RowsDistinct`, `CodesProveTheAddress`, `IInv`, `OnlyWhatWasAsked`, `SuccessSpendsTheCode` |
| `accounts_full_name` | 3 requests | **violation** |
| `seed_wrong_plan` | 2 users, 2 plans, each with the template that has the id of the other | **violation** |
| `mail_delivery` | 3 mails (good, malformed, refused), 3 faults, fairness | `TypeOK`, `OneDeliveryEach`, `AcknowledgedWasSent`, `DuplicatesAreExplained`, `EveryMailSettles` |

Deadlock is not checked: every model stops legitimately when all its requests have ended, or
its faults are used up; that nothing waits for ever is what the liveness properties say.

Bounds, all constants or guards: `NumItems` (child rows), `MaxTime` (the clock, or the times of
day), `MaxEdits` (accepted edits of a plan or template, which bounds its version), `MaxFaults` (failures and
stops of the mail pipeline), `Hours`, `Half` and `Weekdays` (the calendar of the seeds), and the sets of
requests, calls and inputs: each request is made once. Retries by a
client are further requests. Symmetry is used in safety runs only, over requests, users and plans
that the properties do not tell apart.

A few properties deserve a word. `NoLostEdit` says that a plan or template holds, field by field, the last accepted
value, so a write of a stale copy would show in a field that the writer did not even name.
`GeneratedIsARoster` says that what `Schedule` returns passes the very checks that the
result would have to pass when it is submitted; it has the premises that the code needs and nothing
guarantees: one submission per user, each shift with each of its days once. `ElitesLostOnlyAsParents`
is the most that elitism promises here: the elites are kept by pointer and may be made worse, but only
by having been chosen as parents. `ReadsOneSubmission` allows an empty answer, which the code gives
when the submission has gone between its two statements, and no mixture of two.
`NoneStoredEarly` is about the INSERT and not about the check: the plan as it is at the INSERT, when its version is that
of the copy, has opened. A submission that comes too late is another matter, as the window may close behind
the check (section 5). `SuccessSpendsTheCode` says no more than the code gives: the DEL comes after the UPDATE, so a code is
spent from the success of a confirmation on, and not from its UPDATE on.

### Fairness

`ReplaceTxn`: weak fairness of each statement of an open transaction (the server runs them),
strong fairness of lock acquisition (a waiter in the queue of a lock that is released again and again
gets it), weak fairness of the deadlock detector. It is not assumed that a request is made, nor
that its timeout fires: the property says that the timeout is not needed.

`MailPipeline`: the broker pushes a ready mail as long as no prefetch limit holds it (the worker
sets none), strongly, since a mail that fails keeps coming back before it; the worker's loop goes on
weakly; an SMTP server that does not refuse a mail accepts it when it is tried for ever (strong).
Nobody is assumed to restart a worker, so the property has the premise that the connection stays
open from some time on.

The other modules state safety only: their requests may end at any step.

## 4. What is proved

TLAPS checks these for every set of requests, keys, users, plans, templates, names, emails, mails, inputs and
calls, from the named ASSUMEs of the modules only. Three of these ASSUMEs are there for the proofs and are what the
code has: the ids of the shifts of a template are distinct (`InputsAssumption`; `BIGSERIAL PRIMARY KEY` in migration 2), a week
has finitely many days (`WeekAssumption`), and the bounds of `MCValidation` are numbers (`BoundsAssumption`).

*ReplaceTxn.* `Invariance`: `IInv` is inductive. It adds to the properties that row locks are
disjoint and held by open transactions only (`RowLocks`), that foreign-key locks exclude the
deletion of the parent (`ParentLocks`), and that a DELETE's snapshot is related to the history
`before` (`Snapshots`): a record of the key that had committed before the DELETE began is in the snapshot
or gone. The last is needed because `ExactSurvivors` speaks of what a DELETE could have seen and not of
what it locked. From it follow `TypeCorrect`, `RecordsAreWhole`, `ParentsAreLive`, `SurvivorsAreExact`,
`NothingVanishes`, and `OnlyOverlapsDuplicate`: of two stored records of one key, each committed
after the other's DELETE began; so the violation of section 5 needs calls that overlap. `Refinement`: every step of
`ReplaceTxn` is a step of `KeyedStore` or a stutter.

*Validation.* `ShiftTimesDecided`: the pairwise comparison accepts exactly the templates in which no shift goes on
inside another, for any number of shifts and any set of instants that has those of the shifts; the middle of what two shifts
have in common is the instant that they share. `TimesAreDecidedExactly` is the same of the templates that the run goes
through. `AcceptedResultsAreRosters`: when a result passes the checks and names each slot once, the people of a slot
are those of its one item, whose assistants are a list without repetition (so as many as it is long) and without the
principal; that is at most the needed number. `SeededValuesStayValid`: the times, windows and submitted slots that the seed tool
makes up pass the checks, each against the template that it is made from; that a submission then goes to the wrong plan is shown by a run. Shifts are laid out one after the other,
each within what is left of the day; the windows of a plan are sums of durations that are not negative; days are subsets
of those of the shift.

*Scheduling.* `Invariance`: `IInv` is inductive. Its core is what a request still knows from its checks when others have
acted in between: `CopyFits` (a copy is of a plan that was created and, while it is there, has the same template, for no
edit changes it), `FormFits` (a form that passed fits that template, whose shifts never change) and `Vetted` (whom a
result names had submitted, and has a submission still unless they have been deleted: submissions are
replaced, and withdrawn only with their user or plan). `PlansHaveTemplates` is the foreign key that keeps templates in use.
From it follow `StoredFits`, `OfferedBeforeRostered`, `RosteredStillSubmitted`, `RostersAreAccepted`,
`PlansStayWellTimed` and `OneSubmissionIsRead`, which is an action property.
`SubmissionRefinement` and `ResultRefinement` show that submissions and results are two `KeyedStore`s: what
`Scheduling` takes for one step, `ReplaceTxn` does statement by statement, and both promise the same.

`SchedulingRowsProofs` adds `CopyAgrees`: a copy is no newer than the row, and has its fields when
the versions are equal. So the version in WHERE is a compare-and-swap of the whole row, and `EditsAreKept`
follows by adding the accepted change at the end of the history. The same fact gives `NoneIsStoredEarly`: when the plan
has the version of the copy at the INSERT, it has the window that was compared with the clock, which only goes on (`OpenedInv`). It also shows
`ReadBackAsAccepted`: the lines of items that name each slot once are put together to the items, whichever line comes first,
since all lines of a slot have one principal, and a slot without assistants has its line from the LEFT JOIN (`LinesPutTogether`).

*Accounts.* `Invariance`: `IInv` is inductive. Its core is `CopiesAgree`: a copy of the row with id *i* is no newer than the
row, and is the row itself when the versions are equal. That is what makes the version check in
WHERE a compare-and-swap of the whole row, and it needs ids that are never used again
(`copy[r].id <= lastId`), as an account may be deleted and created again under the same name. `AdminCopies` says that
a copy of the initial administrator is of one in charge, in a request that neither edits nor
deletes: the middleware acts when the copy is read, and the row is written later.
From it follow `TypeCorrect`, `RowsStayDistinct`, `AdminStays` and, as an action property,
`ChangesOnlyAsAsked`: there is no lost update, and no write to an account by a request for a deleted one.
The codes need more, `CodeInv`: a code in Redis is under the key of the request that made it (`UnderKeys`), a mail goes
to the address that its code is about (`Mailed`), a code that was found right had been mailed and was under the key of its confirmation
(`Found`), and the code of a confirmation that was answered with success is under no key (`Spent`, which rests on the DEL
and on codes being stored once). From it follow `CodesOpenOnlyTheirs` and `SuccessfulCodeIsSpent`.

*MailPipeline.* `Invariance`: while the connection is open, the broker's unacknowledged mails are those whose answers are on
their way, those in the client's buffer and the one in the worker's hand, each once (`Held`); a closed connection has none (`Closed`);
an answer on its way is true (`AnswersTrue`); and every sending is the one that is acknowledged, or about to be, or
one whose outcome did not get back to the broker (`Accounted`).
From it follow `HeldOnce`, `NoneGivenUp`, `DuplicatesHaveCauses`.

*Genetic.* `Invariance`: a gene that was made is well-formed for the slot that it was made for, and chromosomes refer, at
place *i*, to genes of slot *i* only (`MadeGenes`): this is why sharing them does no harm. The best one ever owns its copies
(`Kept`, `gene[0]` is written by the copying alone), and the fitness of a population is up to date when it
is compared (`Measured`). From it follow `GenesStayWellFormed` and `BestStaysMeasured`. The value of a fitness plays no part in these.

`GeneticRosterProofs` adds `RInv`. Before it was proved, TLC checked it, as an invariant, on the instance of the run `genetic`. Its parts are what
`GeneratedIsARoster` and `ElitesLostOnlyAsParents` need and do not say themselves:

- `Listed`: each slot is a day of a shift of the template, with those who offered it; each day of each shift that the loops of `New` have
  passed has a slot; and the call fails only before it has any, or when somebody submitted twice.
- `FullGenes`: a gene has as many assistants as there are seats beside its principal, or people for them. A new principal does
  not disturb it, as with one submission each the number of people is the same without the one as without the other (`SeatsOfPrincipals`).
  With two submissions it is not, hence the premise.
- `OwnGenes`: no two chromosomes have one gene at a place, since crossover exchanges references and copies none. So mutating a
  parent, in place, changes no chromosome that is not one.
- `FirstKept`: from the sorting to the end of the generation, the first of the population is a fittest one and the first of the
  next one, and unless it was bred it still has the genes that it was measured with.
- `NoBest`: once a generation was examined there is a best one ever, unless nobody can be placed on any slot.

The last two need that a fitness is a number, or NaN in every chromosome at once, because then nobody can be placed at all
(`FitnessValue`, `EmptyGene`); otherwise a sorted list with a NaN in it would be in no order at all. From `RosterInvariance`
follow `ElitesAreKept` (an action property), `GenerationsHaveABest` (the search for the best one of a generation ends with one, so
`Examine` is never blocked), and `ResultsAreRosters`: the slots of a shift are exactly its days, the ids of shifts are distinct, so the items
made of the genes are those that `ResultFits` asks for; who is on a gene offered the slot, in the only submission that can be found for
them, so the checks at the end of `Schedule` pass; and a gene with fewer people than needed has as many as there are, that is all of them.

Sums over the places of a chromosome and the concatenation of lists of items are recursive functions of the community modules. The induction
over them is done on sets, without an operator as a parameter: a family of subsets of a finite set has a minimal
member (`Minimal`), so a set of numbers that has 0 and all successors of its members is that of all numbers (`AllNumbers`). That gives
`SumIsInt` (a sum of whole numbers over a finite set is one), `Flattened` (what `FlattenSeq` has and, for lists of one element,
where), `FirstIsFittest` and `FirstGreatest`.

Only model-checked: `EveryTransactionEnds` and `EveryMailSettles`, as liveness under fairness is out of the prover's reach. All other
properties of the passing runs are theorems. The violations of section 5 are counterexamples, and need no proof.
No module has a RECURSIVE operator.

## 5. Where the code and its documents disagree

Shown by runs:

1. `replace_one_record`: two overlapping calls for one key both store a record, as neither DELETE sees
   the other and no table has a unique constraint on the key; the comment promises that the former record
   goes first. Readers then find two submissions of one user.
2. `genetic_idle`: the penalty for idle users is counted over the users who have work, so a user without any costs nothing.
3. `accounts_full_name`: the UPDATE of a user leaves `full_name` out, and the edit is answered with success.
4. `seed_wrong_plan`: `random.go:234` stores a random submission under the id of the template instead of that of the plan. When some
   other plan has this id, the submissions of that plan are replaced; when none has, the foreign key refuses each.

Met while modelling, without a run:

- "latest-available" is commented as the newest plan that can be submitted to (`middlewares.go:196`); the query ignores the beginning
  of the window (`schedule_plans.go:196`).
- `validation.go:200` is commented as finding whoever is twice on a day of a shift; it looks in one item at a time, and no check forbids two
  items of one day. The premise `NamesSlotsOnce` of `ReadsBackWhatWasAccepted` and that of `AcceptedResultIsARoster` are for these results.
- A submission is stored late when the window closes, or the plan is edited, between `middlewares.go:249` and the INSERT.
- A code can be used twice: by confirmations that overlap, and after one whose DEL failed (`auth.go:247`, `me.go:186`), which has stored
  the row and is answered with an error. `SuccessSpendsTheCode` is what remains true.
- A restart of the broker loses the mails in the queue, and a worker whose channel is closed takes none (`cmd/mail/main.go:125`).
- `scheduling_results.go:158` takes a shift without items to be impossible; the cascade of a deleted
  principal leaves one.
- `core.go:145` is commented as never reached; with fitnesses below zero the roulette reaches it.
- `core.go:117` divides by the number of people at work: with none, the fitness is NaN, never the
  best, and the answer is an empty result with success. The children of the last generation are never compared with the best.
- `auth.go:143` and `me.go:100` multiply by minutes a setting that the mail's text (`auth.go:155`) takes for seconds.
- `middlewares.go:176` answers that a template does not exist, but `GetScheduleTemplate` never returns `ErrNoRows`.
- A user's own submission, read while it is replaced, can be answered as an empty one.
- The role in a token stays what it was at login until the token expires (`middlewares.go:118`).
- `GenerateRandomSubset` panics on a shift without days.

## 6. What is not modelled

- Formats, texts, logging, HTTP helpers, routing tables, configuration: no behaviour that the properties tell apart.
- Login, logout and tokens: they change no state on the server. The callers of `Accounts` and `Scheduling`
  are taken to have the rights that the route asks for.
- The start and stop of the API process, beyond the inserted administrator that is the initial state of `Accounts`.
- Of the seed tool, the names, users, CSV file and the loops that insert users, templates and plans.
- Readers that are one statement and change nothing (the lists of plans, templates, users, submissions). What they return is
  what the handlers that use them read.
- The lengths of the TTLs of the codes: `Expire` is allowed at any time, which covers every length.
- The floating point of a fitness, which the model replaces by exact fractions.

## 7. Plan

Done: the replacing transaction, validation, the handlers that combine them, the accounts, the mails, the generator, what
the seed tool makes up, and the proofs of section 4, of every safety property that a run checks. What is left:

1. A clock for the codes of `Accounts`, for the unit of the TTL (section 5).
2. `Accounts` composed with `MailPipeline`: an account whose first password was never published (`users.go:104`)
   stays without one that anybody knows.
3. The premise of `ResultsAreRosters` put together with `Scheduling`: one submission per user holds of a call of the
   generator when no two calls for one user overlapped (`OnlyOverlapsDuplicate`), which the two modules say apart.

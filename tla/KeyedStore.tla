----------------------------- MODULE KeyedStore -----------------------------
(***************************************************************************)
(* What the backend promises about a replaced record, with no tables, no   *)
(* statements and no locks: the availability submission of a user for a    *)
(* plan (InsertAvailabilitySubmission) and the scheduling result of a plan *)
(* (InsertSchedulingResult).                                               *)
(*                                                                         *)
(* A record is identified with the request that wrote it.  A request looks *)
(* at the records of its key once, and later, in one step, puts its own    *)
(* record in the place of exactly those; or it fails and changes nothing.  *)
(* A record depends on its parents (a user, a plan): it can be stored only *)
(* while they live, and it goes with the first of them to be dropped.      *)
(***************************************************************************)
EXTENDS Naturals

CONSTANTS Requests,     \* each replaces the record of one key, once
          Keys,         \* what there should be one record of
          Parents,      \* the rows that the records refer to
          ParentsOf     \* the parents that the records of a key refer to

VARIABLES phase,        \* where each request is
          key,          \* the key whose record each request replaces
          saw,          \* the records that each request found and will replace
          stored,       \* the stored records, as the requests that wrote them
          live          \* the parents that exist

vars == <<phase, key, saw, stored, live>>

Init == /\ phase = [r \in Requests |-> "waiting"]
        /\ key \in [Requests -> Keys]
        /\ saw = [r \in Requests |-> {}]
        /\ stored = {}
        /\ live = Parents

Open(r) == /\ phase[r] = "waiting"
           /\ phase' = [phase EXCEPT ![r] = "open"]
           /\ saw' = [saw EXCEPT ![r] = {x \in stored : key[x] = key[r]}]
           /\ UNCHANGED <<key, stored, live>>

Replace(r) == /\ phase[r] = "open"
              /\ ParentsOf[key[r]] \subseteq live
              /\ phase' = [phase EXCEPT ![r] = "stored"]
              /\ stored' = (stored \ saw[r]) \cup {r}
              /\ UNCHANGED <<key, saw, live>>

Fail(r) == /\ phase[r] \in {"waiting", "open"}
           /\ phase' = [phase EXCEPT ![r] = "failed"]
           /\ UNCHANGED <<key, saw, stored, live>>

Drop(p) == /\ p \in live
           /\ live' = live \ {p}
           /\ stored' = {x \in stored : p \notin ParentsOf[key[x]]}
           /\ UNCHANGED <<phase, key, saw>>

Next == \/ \E r \in Requests : Open(r) \/ Replace(r) \/ Fail(r)
        \/ \E p \in Parents : Drop(p)

Spec == Init /\ [][Next]_vars
=============================================================================

----------------------------- MODULE MCAccounts -----------------------------
(* Instances of Accounts: the initial administrator and one or two more.   *)
EXTENDS Accounts, TLC

CONSTANTS admin, ann, a1, e1, e2, s1, s2, w1, w2

MCFirstAdmin == [id |-> 1, name |-> admin, full |-> s1, hash |-> w1, email |-> a1,
                 role |-> "blackCore", active |-> TRUE, version |-> 1]

Create(name, email) ==
    [op |-> "create", name |-> name, full |-> s1, email |-> email, role |-> "normal"]
Edit(id, change) == [op |-> "edit", id |-> id, change |-> change]
Field(f, v) == [g \in {f} |-> v]
On(op, id) == [op |-> op, id |-> id]
OnEmail(op, id, email) == [op |-> op, id |-> id, email |-> email]

-----------------------------------------------------------------------------
(* Rows: created, edited, deleted and created again under the same name.   *)

RowCalls ==
    {Create(ann, e1), Create(ann, e2),
     Edit(1, Field("active", FALSE)), Edit(2, Field("role", "senior")), Edit(2, Field("email", a1)),
     [op |-> "setpw", id |-> 2, password |-> w2], On("delete", 1), On("delete", 2),
     [op |-> "mypw", id |-> 1, old |-> w1, password |-> w2]}

-----------------------------------------------------------------------------
(* Codes: for a forgotten password and for two new addresses, of the       *)
(* administrator, while someone else may take one of the addresses.        *)

CodeCalls ==
    {OnEmail("address", 1, e1), OnEmail("confirm", 1, e1),
     OnEmail("address", 1, e2), OnEmail("confirm", 1, e2), Create(ann, e1),
     [op |-> "forgot", name |-> admin], [op |-> "reset", name |-> admin, password |-> w2]}

AllCalls == RowCalls \cup CodeCalls

NameCalls == {Create(ann, e1), Edit(2, Field("full", s2)),
              Edit(2, Field("full", s2) @@ Field("role", "senior"))}

Symmetry == Permutations(Requests)
=============================================================================

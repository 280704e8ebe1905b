---------------------------- MODULE AccountsProofs ----------------------------
(***************************************************************************)
(* Proofs about Accounts, for any names, emails, passwords, requests and   *)
(* calls: the rows of the users stay distinct, the initial administrator   *)
(* stays, a row changes only as a request asked, and a code opens only     *)
(* what it was mailed for.                                                 *)
(***************************************************************************)
EXTENDS Accounts, TLAPS

USE DEF PCs, Running, Ops, ByID, Asks, Goto

(* The first row is that of the initial administrator; nothing is read yet. *)
LEMMA InitIInv == Init => IInv
<1> SUFFICES ASSUME Init PROVE IInv
  OBVIOUS
<1>1. TypeOK
  BY AdminAssumption, DistinctAssumption DEF Init, TypeOK
<1>2. RowsDistinct /\ InitialAdminStays /\ \A u \in users : u.id <= lastId
  BY AdminAssumption DEF Init, RowsDistinct, InitialAdminStays, Rows
<1>3. Loaded /\ CopiesAgree /\ AdminCopies
  BY DEF Init, Loaded, CopiesAgree, AdminCopies
<1> QED BY <1>1, <1>2, <1>3 DEF IInv

-----------------------------------------------------------------------------
(* The row that StoreUser leaves.                                          *)

Stored(row, user) == [row EXCEPT !.hash = user.hash, !.email = user.email,
                                 !.role = user.role, !.active = user.active,
                                 !.version = @ + 1]

(* What a handler writes over its copy is the copy with a new hash, a new  *)
(* email, or with the fields of an edit: a row in each case, of the same id *)
(* and version.                                                            *)
LEMMA EditedIsARow ==
  ASSUME TypeOK, NEW r \in Requests, call[r].op = "edit", NEW user \in Rows
  PROVE  /\ Edited(user, call[r].change) \in Rows
         /\ "full" \notin DOMAIN call[r].change => Edited(user, call[r].change).full = user.full
         /\ Edited(user, call[r].change).id = user.id
         /\ Edited(user, call[r].change).name = user.name
         /\ Edited(user, call[r].change).version = user.version
<1> DEFINE change == call[r].change
           e == Edited(user, change)
<1>1. call[r] \in Calls
  BY DEF TypeOK
<1>2. /\ DOMAIN change \subseteq {"full", "email", "role", "active"}
      /\ "full" \in DOMAIN change => change["full"] \in FullNames
      /\ "email" \in DOMAIN change => change["email"] \in Emails
      /\ "role" \in DOMAIN change => change["role"] \in Roles
      /\ "active" \in DOMAIN change => change["active"] \in BOOLEAN
  BY <1>1, CallsAssumption
<1>3. DOMAIN user = {"id", "name", "full", "hash", "email", "role", "active", "version"}
  BY DEF Rows
<1> HIDE DEF change
<1>4. e = [id |-> user.id, name |-> user.name,
           full |-> IF "full" \in DOMAIN change THEN change["full"] ELSE user.full,
           hash |-> user.hash,
           email |-> IF "email" \in DOMAIN change THEN change["email"] ELSE user.email,
           role |-> IF "role" \in DOMAIN change THEN change["role"] ELSE user.role,
           active |-> IF "active" \in DOMAIN change THEN change["active"] ELSE user.active,
           version |-> user.version]
  BY <1>2, <1>3 DEF Edited
<1>5. e \in Rows
  BY <1>2, <1>4 DEF Rows
<1> QED BY <1>4, <1>5 DEF change

(* The row that StoreUser leaves is a row of the same user, one version on. *)
LEMMA StoredIsARow ==
  ASSUME NEW row \in Rows, NEW user \in Rows
  PROVE  /\ Stored(row, user) \in Rows
         /\ Stored(row, user) = [id |-> row.id, name |-> row.name, full |-> row.full,
                                hash |-> user.hash, email |-> user.email, role |-> user.role,
                                active |-> user.active, version |-> row.version + 1]
<1>1. Stored(row, user) \in Rows
  <2>1. row.version + 1 \in Nat
    BY DEF Rows
  <2> QED BY <2>1 DEF Stored, Rows
<1>2. /\ Stored(row, user).id = row.id /\ Stored(row, user).name = row.name
      /\ Stored(row, user).full = row.full /\ Stored(row, user).hash = user.hash
      /\ Stored(row, user).email = user.email /\ Stored(row, user).role = user.role
      /\ Stored(row, user).active = user.active
      /\ Stored(row, user).version = row.version + 1
  BY DEF Stored, Rows
<1>3. ASSUME NEW u \in Rows
      PROVE  u = [id |-> u.id, name |-> u.name, full |-> u.full, hash |-> u.hash,
                  email |-> u.email, role |-> u.role, active |-> u.active,
                  version |-> u.version]
  BY DEF Rows
<1> QED BY <1>1, <1>2, <1>3

(* StoreUser keeps what the inductive invariant says of the rows and of the *)
(* copies: the constraint keeps the emails apart, and the new version is    *)
(* above that of every copy.                                                *)
LEMMA StoreUserKeeps ==
  ASSUME IInv, NEW user \in Rows, StoreUser(user), UNCHANGED <<lastId, call, copy>>,
         user.id = 1 => user.role = "blackCore" /\ user.active
  PROVE  /\ users' \in SUBSET Rows
         /\ RowsDistinct'
         /\ \A u \in users' : u.id <= lastId'
         /\ CopiesAgree'
         /\ InitialAdminStays'
         /\ AdminCopies'
<1>1. PICK row \in users : /\ row.id = user.id
                           /\ row.version = user.version
                           /\ EmailFree(user.email, user.id)
                           /\ users' = (users \ {row}) \cup {Stored(row, user)}
  BY DEF StoreUser, Stored
<1> DEFINE new == Stored(row, user)
<1>2. users \subseteq Rows /\ row \in Rows
  BY DEF IInv, TypeOK
<1>3. /\ new \in Rows
      /\ new.id = row.id /\ new.name = row.name /\ new.email = user.email
      /\ new.role = user.role /\ new.active = user.active /\ new.version = row.version + 1
  <2>1. /\ new \in Rows
        /\ new = [id |-> row.id, name |-> row.name, full |-> row.full, hash |-> user.hash,
                  email |-> user.email, role |-> user.role, active |-> user.active,
                  version |-> row.version + 1]
    BY <1>2, StoredIsARow
  <2> HIDE DEF new
  <2> QED BY <2>1
<1>4. row.version \in Nat /\ \A r \in Requests : copy[r] /= NoRow => copy[r].version \in Nat
  BY <1>2 DEF IInv, TypeOK, Rows
<1> HIDE DEF new
<1>5. users' = (users \ {row}) \cup {new}
  BY <1>1 DEF new
<1>6. users' \in SUBSET Rows
  BY <1>2, <1>3, <1>5
<1>7. RowsDistinct'
  BY <1>1, <1>2, <1>3, <1>5 DEF IInv, RowsDistinct, EmailFree
<1>8. \A u \in users' : u.id <= lastId'
  BY <1>3, <1>5 DEF IInv
<1>9. CopiesAgree'
  <2> SUFFICES ASSUME NEW s \in Requests, copy[s] /= NoRow
               PROVE  /\ copy[s].id <= lastId
                      /\ \A u \in users' : u.id = copy[s].id =>
                           /\ copy[s].version <= u.version
                           /\ copy[s].version = u.version => u = copy[s]
    BY DEF CopiesAgree
  <2>1. /\ copy[s].id <= lastId
        /\ \A u \in users : u.id = copy[s].id =>
             /\ copy[s].version <= u.version
             /\ copy[s].version = u.version => u = copy[s]
    BY DEF IInv, CopiesAgree
  <2>2. new.id = copy[s].id => /\ copy[s].version <= new.version
                              /\ copy[s].version /= new.version
    <3> SUFFICES ASSUME new.id = copy[s].id
                 PROVE  copy[s].version <= new.version /\ copy[s].version /= new.version
      OBVIOUS
    <3>1. copy[s].version <= row.version
      BY <1>3, <2>1
    <3> QED BY <1>3, <1>4, <3>1
  <2> QED BY <1>3, <1>4, <1>5, <2>1, <2>2
<1>10. InitialAdminStays'
  <2>1. PICK u \in users : u.name = Admin /\ u.id = 1 /\ u.role = "blackCore" /\ u.active
    BY DEF IInv, InitialAdminStays
  <2>2. CASE u = row
    BY <1>1, <1>3, <1>5, <2>1, <2>2 DEF InitialAdminStays
  <2>3. CASE u /= row
    BY <1>5, <2>1, <2>3 DEF InitialAdminStays
  <2> QED BY <2>2, <2>3
<1>11. AdminCopies'
  BY DEF IInv, AdminCopies
<1> QED BY <1>6, <1>7, <1>8, <1>9, <1>10, <1>11

-----------------------------------------------------------------------------
(* One step preserves the inductive invariant.                             *)

(* A request that has a copy has read a row. *)
LEMMA CopyIsARow ==
  ASSUME IInv, NEW r \in Requests, copy[r] /= NoRow
  PROVE  /\ copy[r] \in Rows
         /\ copy[r].id = 1 => /\ copy[r].role = "blackCore" /\ copy[r].active
                              /\ call[r].op \notin {"edit", "delete"}
BY DEF IInv, TypeOK, AdminCopies

(* What each handler hands to StoreUser is a row with the id of the copy,  *)
(* and leaves the initial administrator in charge and active.              *)
LEMMA WrittenIsARow ==
  ASSUME IInv, NEW r \in Requests, copy[r] /= NoRow, NEW user,
         \/ call[r].op = "edit" /\ user = Edited(copy[r], call[r].change)
         \/ /\ call[r].op \in {"setpw", "mypw", "reset"}
            /\ user = [copy[r] EXCEPT !.hash = call[r].password]
         \/ call[r].op = "confirm" /\ user = [copy[r] EXCEPT !.email = call[r].email]
  PROVE  /\ user \in Rows
         /\ user.id = copy[r].id /\ user.version = copy[r].version
         /\ user.id = 1 => user.role = "blackCore" /\ user.active
<1>1. /\ copy[r] \in Rows
      /\ copy[r].id = 1 => /\ copy[r].role = "blackCore" /\ copy[r].active
                           /\ call[r].op \notin {"edit", "delete"}
  BY CopyIsARow
<1>2. call[r] \in Calls /\ TypeOK
  BY DEF IInv, TypeOK
<1>3. CASE call[r].op = "edit" /\ user = Edited(copy[r], call[r].change)
  BY <1>1, <1>2, <1>3, EditedIsARow
<1>4. CASE /\ call[r].op \in {"setpw", "mypw", "reset"}
           /\ user = [copy[r] EXCEPT !.hash = call[r].password]
  <2>1. call[r].password \in Passwords
    BY <1>2, <1>4, CallsAssumption
  <2> QED BY <1>1, <1>4, <2>1 DEF Rows
<1>5. CASE call[r].op = "confirm" /\ user = [copy[r] EXCEPT !.email = call[r].email]
  <2>1. call[r].email \in Emails
    BY <1>2, <1>5, CallsAssumption
  <2> QED BY <1>1, <1>5, <2>1 DEF Rows
<1> QED BY <1>3, <1>4, <1>5

(* A handler that ends with StoreUser preserves the invariant. *)
LEMMA WriteIInv ==
  ASSUME IInv, NEW r \in Requests, NEW user, copy[r] /= NoRow,
         \/ call[r].op = "edit" /\ user = Edited(copy[r], call[r].change)
         \/ /\ call[r].op \in {"setpw", "mypw", "reset"}
            /\ user = [copy[r] EXCEPT !.hash = call[r].password]
         \/ call[r].op = "confirm" /\ user = [copy[r] EXCEPT !.email = call[r].email],
         StoreUser(user),
         Goto(r, "done") \/ Goto(r, "written"),
         UNCHANGED <<lastId, otp, mails, call, copy, code>>
  PROVE  IInv'
<1>1. /\ user \in Rows
      /\ user.id = 1 => user.role = "blackCore" /\ user.active
  BY WrittenIsARow
<1>2. /\ users' \in SUBSET Rows
      /\ RowsDistinct' /\ (\A u \in users' : u.id <= lastId')
      /\ CopiesAgree' /\ InitialAdminStays' /\ AdminCopies'
  BY <1>1, StoreUserKeeps
<1>3. TypeOK'
  BY <1>2 DEF IInv, TypeOK
<1>4. Loaded'
  BY DEF IInv, TypeOK, Loaded
<1> QED BY <1>2, <1>3, <1>4 DEF IInv

(* UpdateUser, UpdateUserPassword, UpdateMyPassword, ChangeEmail and        *)
(* ResetPassword preserve the invariant.                                    *)
LEMMA WritersIInv ==
  ASSUME IInv, NEW r \in Requests,
         \/ UpdateUser(r) \/ UpdateUserPassword(r) \/ UpdateMyPassword(r)
         \/ ChangeEmail(r) \/ ResetPassword(r)
  PROVE  IInv'
<1>1. copy[r] /= NoRow
  BY DEF IInv, Loaded, UpdateUser, UpdateUserPassword, UpdateMyPassword, ChangeEmail,
         ResetPassword
<1>2. CASE UpdateUser(r)
  BY <1>1, <1>2, WriteIInv DEF UpdateUser
<1>3. CASE UpdateUserPassword(r)
  BY <1>1, <1>3, WriteIInv DEF UpdateUserPassword
<1>4. CASE UpdateMyPassword(r)
  BY <1>1, <1>4, WriteIInv DEF UpdateMyPassword
<1>5. CASE ChangeEmail(r)
  BY <1>1, <1>5, WriteIInv DEF ChangeEmail
<1>6. CASE ResetPassword(r)
  BY <1>1, <1>6, WriteIInv DEF ResetPassword
<1> QED BY <1>2, <1>3, <1>4, <1>5, <1>6

(* CreateUser preserves the invariant: its id is above that of every row   *)
(* and every copy, and a row of the name or the email stops it.            *)
LEMMA CreateUserIInv ==
  ASSUME IInv, NEW r \in Requests, CreateUser(r)
  PROVE  IInv'
<1> DEFINE new == [id |-> lastId + 1, name |-> call[r].name, full |-> call[r].full,
                   hash |-> r, email |-> call[r].email, role |-> call[r].role,
                   active |-> TRUE, version |-> 1]
<1>1. /\ users \in SUBSET Rows /\ lastId \in Nat /\ call[r] \in Calls
      /\ \A s \in Requests : copy[s] /= NoRow => copy[s].id \in Nat
  BY DEF IInv, TypeOK, Rows
<1>2. \A u \in users : u.id \in Nat
  BY <1>1 DEF Rows
<1>3. new \in Rows
  BY <1>1, CallsAssumption DEF CreateUser, Rows
<1>4. /\ users' = users \cup {new}
      /\ lastId' = lastId + 1
      /\ UNCHANGED <<otp, mails, call, copy, code>>
      /\ pc' = [pc EXCEPT ![r] = "inserted"]
      /\ \A u \in users : u.name /= new.name /\ u.email /= new.email /\ u.id < new.id
      /\ new.id = lastId + 1
  BY <1>1, <1>2 DEF CreateUser, EmailFree, IInv
<1> HIDE DEF new
<1>5. TypeOK'
  BY <1>1, <1>3, <1>4 DEF IInv, TypeOK
<1>6. RowsDistinct'
  BY <1>1, <1>2, <1>4 DEF IInv, RowsDistinct
<1>7. \A u \in users' : u.id <= lastId'
  BY <1>1, <1>2, <1>4
<1>8. Loaded'
  BY <1>4 DEF IInv, TypeOK, Loaded, CreateUser
<1>9. CopiesAgree'
  BY <1>1, <1>2, <1>4 DEF IInv, CopiesAgree
<1>10. InitialAdminStays'
  BY <1>4 DEF IInv, InitialAdminStays
<1>11. AdminCopies'
  BY <1>4 DEF IInv, AdminCopies
<1> QED BY <1>5, <1>6, <1>7, <1>8, <1>9, <1>10, <1>11 DEF IInv

(* A request that has just read a row has a copy of that row. *)
LEMMA LoadIInv ==
  ASSUME IInv, NEW r \in Requests, LoadByID(r) \/ LoadByUsername(r)
  PROVE  IInv'
<1>1. PICK u \in users : /\ copy' = [copy EXCEPT ![r] = u]
                         /\ MayOperate(r, u) \/ call[r].op \in {"forgot", "reset"}
  BY DEF LoadByID, LoadByUsername
<1>2. UNCHANGED <<users, lastId, otp, mails, call, code>> /\ Goto(r, "loaded")
  BY DEF LoadByID, LoadByUsername
<1>3. users \subseteq Rows /\ u \in Rows /\ u /= NoRow /\ copy \in [Requests -> Rows \cup {NoRow}]
  BY DistinctAssumption DEF IInv, TypeOK
<1>4. TypeOK'
  BY <1>1, <1>2, <1>3 DEF IInv, TypeOK
<1>5. RowsDistinct' /\ InitialAdminStays' /\ \A v \in users' : v.id <= lastId'
  BY <1>2 DEF IInv, RowsDistinct, InitialAdminStays
<1>6. Loaded'
  BY <1>1, <1>2, <1>3 DEF IInv, TypeOK, Loaded
<1>7. CopiesAgree'
  <2>1. u.id <= lastId /\ \A v \in users : v.id = u.id => v = u /\ u.version <= v.version
    BY <1>3 DEF IInv, RowsDistinct, Rows
  <2> QED BY <1>1, <1>2, <1>3, <2>1 DEF IInv, CopiesAgree
<1>8. AdminCopies'
  <2>1. PICK a \in users : a.name = Admin /\ a.id = 1 /\ a.role = "blackCore" /\ a.active
    BY DEF IInv, InitialAdminStays
  <2>2. u.id = 1 => u = a
    BY <2>1 DEF IInv, RowsDistinct
  <2>3. u.id = 1 => call[r].op \notin {"edit", "delete"}
    BY <1>1, <2>1, <2>2 DEF MayOperate
  <2> QED BY <1>1, <1>2, <1>3, <2>1, <2>2, <2>3 DEF IInv, AdminCopies
<1> QED BY <1>4, <1>5, <1>6, <1>7, <1>8 DEF IInv

(* DeleteUser preserves the invariant: no request that deletes has a copy  *)
(* of the row of the initial administrator.                                *)
LEMMA DeleteUserIInv ==
  ASSUME IInv, NEW r \in Requests, DeleteUser(r)
  PROVE  IInv'
<1>1. copy[r] /= NoRow
  BY DEF IInv, Loaded, DeleteUser
<1>2. copy[r].id /= 1
  BY <1>1, CopyIsARow DEF DeleteUser
<1>3. users' \subseteq users /\ UNCHANGED <<lastId, otp, mails, call, copy, code>>
  BY DEF DeleteUser
<1>4. TypeOK'
  BY <1>3 DEF IInv, TypeOK, DeleteUser
<1>5. RowsDistinct' /\ CopiesAgree' /\ AdminCopies' /\ \A v \in users' : v.id <= lastId'
  BY <1>3 DEF IInv, RowsDistinct, CopiesAgree, AdminCopies
<1>6. Loaded'
  BY <1>3 DEF IInv, TypeOK, Loaded, DeleteUser
<1>7. InitialAdminStays'
  BY <1>2 DEF IInv, InitialAdminStays, DeleteUser
<1> QED BY <1>4, <1>5, <1>6, <1>7 DEF IInv

(* The steps that leave the rows and the copies alone preserve the         *)
(* invariant: a request goes on only where it has a copy.                  *)
LEMMA OtherIInv ==
  ASSUME IInv, NEW r \in Requests,
         \/ PublishPassword(r) \/ CheckEmail(r) \/ StoreCode(r) \/ PublishCode(r)
         \/ CheckCode(r) \/ DeleteCode(r) \/ GiveUp(r)
  PROVE  IInv'
<1>1. UNCHANGED <<users, lastId, call, copy>>
  BY DEF PublishPassword, CheckEmail, StoreCode, PublishCode, CheckCode, DeleteCode, GiveUp
<1>2. TypeOK'
  <2>1. otp' \in [Keys -> Requests \cup {NoCode}]
    BY DEF IInv, TypeOK, PublishPassword, CheckEmail, StoreCode, PublishCode, CheckCode,
           DeleteCode, GiveUp
  <2>2. mails' \in SUBSET [code : Requests, to : Emails]
    BY CallsAssumption DEF IInv, TypeOK, Loaded, Rows, PublishPassword, CheckEmail, StoreCode,
           PublishCode, CheckCode, DeleteCode, GiveUp
  <2>3. /\ pc' \in [Requests -> PCs]
        /\ code' \in [Requests -> Requests \cup {NoCode}]
    BY DEF IInv, TypeOK, PublishPassword, CheckEmail, StoreCode, PublishCode, CheckCode,
           DeleteCode, GiveUp
  <2> QED BY <1>1, <2>1, <2>2, <2>3 DEF IInv, TypeOK
<1>3. Loaded'
  BY <1>1 DEF IInv, TypeOK, Loaded, PublishPassword, CheckEmail, StoreCode, PublishCode,
              CheckCode, DeleteCode, GiveUp
<1>4. /\ RowsDistinct' /\ CopiesAgree' /\ AdminCopies' /\ InitialAdminStays'
      /\ \A v \in users' : v.id <= lastId'
  BY <1>1 DEF IInv, RowsDistinct, CopiesAgree, AdminCopies, InitialAdminStays
<1> QED BY <1>2, <1>3, <1>4 DEF IInv

(* So does the expiry of a key. *)
LEMMA ExpireIInv ==
  ASSUME IInv, NEW k \in Keys, Expire(k)
  PROVE  IInv'
BY DEF Expire, IInv, TypeOK, RowsDistinct, Loaded, CopiesAgree, AdminCopies, InitialAdminStays

LEMMA StutterIInv == ASSUME IInv, UNCHANGED vars PROVE IInv'
BY DEF vars, IInv, TypeOK, RowsDistinct, Loaded, CopiesAgree, AdminCopies, InitialAdminStays

(* Every step preserves the invariant. *)
LEMMA NextIInv == IInv /\ [Next]_vars => IInv'
<1> SUFFICES ASSUME IInv, [Next]_vars PROVE IInv'
  OBVIOUS
<1>1. ASSUME NEW r \in Requests, RequestStep(r) PROVE IInv'
  BY <1>1, CreateUserIInv, LoadIInv, DeleteUserIInv, WritersIInv, OtherIInv DEF RequestStep
<1>2. ASSUME NEW k \in Keys, Expire(k) PROVE IInv'
  BY <1>2, ExpireIInv
<1>3. CASE UNCHANGED vars
  BY <1>3, StutterIInv
<1> QED BY <1>1, <1>2, <1>3 DEF Next

(* The inductive invariant holds of every behaviour: rows are distinct,    *)
(* copies agree with them, and the initial administrator is in charge,     *)
(* whatever requests of CreateUser, UpdateUser, DeleteUser and the handlers *)
(* of codes and passwords overlap.                                         *)
THEOREM Invariance == Spec => []IInv
BY InitIInv, NextIInv, PTL DEF Spec

(* Every variable keeps its type: a row that any handler stores is complete. *)
THEOREM TypeCorrect == Spec => []TypeOK
<1>1. IInv => TypeOK
  BY DEF IInv
<1> QED BY <1>1, Invariance, PTL

(* No two rows share an id, a name or an email: the constraints in CREATE  *)
(* TABLE users, and the id sequence, decide and not the handlers' look-ups. *)
THEOREM RowsStayDistinct == Spec => []RowsDistinct
<1>1. IInv => RowsDistinct
  BY DEF IInv
<1> QED BY <1>1, Invariance, PTL

(* preventOperateInitialAdmin on two routes is enough: the initial         *)
(* administrator is never deleted, demoted or deactivated, by any handler. *)
THEOREM AdminStays == Spec => []InitialAdminStays
<1>1. IInv => InitialAdminStays
  BY DEF IInv
<1> QED BY <1>1, Invariance, PTL

-----------------------------------------------------------------------------
(* A row changes only as a request asked.                                  *)

(* An edit on the copy of a current row, stored by the UPDATE that leaves  *)
(* full_name out, is the edit of that row without its full name.           *)
LEMMA StoredAsAsked ==
  ASSUME IInv, NEW r \in Requests, NEW row \in Rows, NEW user,
         \/ call[r].op = "edit" /\ user = Edited(row, call[r].change)
         \/ /\ call[r].op \in {"setpw", "mypw", "reset"}
            /\ user = [row EXCEPT !.hash = call[r].password]
         \/ call[r].op = "confirm" /\ user = [row EXCEPT !.email = call[r].email]
  PROVE  Stored(row, user) = [Asked(r, row) EXCEPT !.version = @ + 1]
<1>1. /\ DOMAIN row = {"id", "name", "full", "hash", "email", "role", "active", "version"}
      /\ row = [f \in DOMAIN row |-> row[f]]
  BY DEF Rows
<1>2. CASE call[r].op = "edit" /\ user = Edited(row, call[r].change)
  <2> DEFINE change == call[r].change
             asked == Edited(row, [f \in DOMAIN change \ {"full"} |-> change[f]])
  <2>1. Asked(r, row) = asked
    BY <1>2 DEF Asked
  <2>2. DOMAIN change \subseteq {"full", "email", "role", "active"}
    BY <1>2, CallsAssumption DEF IInv, TypeOK
  <2> HIDE DEF change
  <2>3. asked = [f \in DOMAIN row |-> IF f \in DOMAIN change \ {"full"} THEN change[f] ELSE row[f]]
    BY <1>1 DEF Edited
  <2>4. user = [f \in DOMAIN row |-> IF f \in DOMAIN change THEN change[f] ELSE row[f]]
    BY <1>2 DEF Edited, change
  <2> HIDE DEF asked
  <2>5. /\ asked.id = row.id /\ asked.name = row.name /\ asked.full = row.full
        /\ asked.hash = user.hash /\ asked.email = user.email /\ asked.role = user.role
        /\ asked.active = user.active /\ asked.version = row.version
    BY <1>1, <2>2, <2>3, <2>4
  <2>6. asked = [id |-> row.id, name |-> row.name, full |-> row.full, hash |-> user.hash,
                 email |-> user.email, role |-> user.role, active |-> user.active,
                 version |-> row.version]
    BY <1>1, <2>3, <2>5
  <2>7. user \in Rows
    BY <1>2, EditedIsARow DEF IInv
  <2>8. [asked EXCEPT !.version = @ + 1]
          = [id |-> row.id, name |-> row.name, full |-> row.full, hash |-> user.hash,
             email |-> user.email, role |-> user.role, active |-> user.active,
             version |-> row.version + 1]
    BY <2>6
  <2>9. QED
    BY <2>1, <2>7, <2>8, StoredIsARow
<1>3. CASE /\ call[r].op \in {"setpw", "mypw", "reset"}
           /\ user = [row EXCEPT !.hash = call[r].password]
  <2>1. Asked(r, row) = user
    BY <1>3 DEF Asked
  <2>2. Stored(row, user) = [user EXCEPT !.version = @ + 1]
    BY <1>1, <1>3 DEF Stored
  <2> QED BY <2>1, <2>2
<1>4. CASE call[r].op = "confirm" /\ user = [row EXCEPT !.email = call[r].email]
  <2>1. Asked(r, row) = user
    BY <1>4 DEF Asked
  <2>2. Stored(row, user) = [user EXCEPT !.version = @ + 1]
    BY <1>1, <1>4 DEF Stored
  <2> QED BY <2>1, <2>2
<1> QED BY <1>2, <1>3, <1>4

(* The body of OnlyWhatWasAsked. *)
ChangesAsAsked ==
    \A old \in users, new \in users' :
      old.id = new.id /\ old /= new =>
        \E r \in Requests : /\ pc[r] /= pc'[r]
                            /\ new = [Asked(r, old) EXCEPT !.version = @ + 1]

(* A handler that ends with StoreUser finds its copy to be the row: the    *)
(* version in WHERE is that of the copy.                                   *)
LEMMA WriteChangesAsAsked ==
  ASSUME IInv, NEW r \in Requests, NEW user, copy[r] /= NoRow, pc[r] /= pc'[r],
         \/ call[r].op = "edit" /\ user = Edited(copy[r], call[r].change)
         \/ /\ call[r].op \in {"setpw", "mypw", "reset"}
            /\ user = [copy[r] EXCEPT !.hash = call[r].password]
         \/ call[r].op = "confirm" /\ user = [copy[r] EXCEPT !.email = call[r].email],
         StoreUser(user)
  PROVE  ChangesAsAsked
<1>1. PICK row \in users : /\ row.id = user.id
                           /\ row.version = user.version
                           /\ users' = (users \ {row}) \cup {Stored(row, user)}
  BY DEF StoreUser, Stored
<1>2. user \in Rows /\ user.id = copy[r].id /\ user.version = copy[r].version
  BY WrittenIsARow
<1>3. row = copy[r] /\ row \in Rows
  BY <1>1, <1>2 DEF IInv, TypeOK, CopiesAgree
<1>4. Stored(row, user).id = row.id
  <2> DEFINE new == Stored(row, user)
  <2>1. new = [id |-> row.id, name |-> row.name, full |-> row.full, hash |-> user.hash,
               email |-> user.email, role |-> user.role, active |-> user.active,
               version |-> row.version + 1]
    BY <1>2, <1>3, StoredIsARow
  <2> HIDE DEF new
  <2>2. new.id = row.id
    BY <2>1
  <2> QED BY <2>2 DEF new
<1>5. Stored(row, user) = [Asked(r, row) EXCEPT !.version = @ + 1]
  BY <1>3, StoredAsAsked
<1> SUFFICES ASSUME NEW old \in users, NEW new \in users', old.id = new.id, old /= new
             PROVE  new = [Asked(r, old) EXCEPT !.version = @ + 1]
  BY DEF ChangesAsAsked
<1>6. new \notin users
  BY DEF IInv, RowsDistinct
<1>7. new = Stored(row, user)
  BY <1>1, <1>6
<1>8. old = row
  BY <1>4, <1>7 DEF IInv, RowsDistinct
<1> QED BY <1>5, <1>7, <1>8

(* Every step of a request changes rows as asked. *)
LEMMA RequestChangesAsAsked ==
  ASSUME IInv, NEW r \in Requests, RequestStep(r)
  PROVE  ChangesAsAsked
<1>1. CASE \/ UpdateUser(r) \/ UpdateUserPassword(r) \/ UpdateMyPassword(r)
           \/ ChangeEmail(r) \/ ResetPassword(r)
  <2>1. copy[r] /= NoRow
    BY <1>1 DEF IInv, Loaded, UpdateUser, UpdateUserPassword, UpdateMyPassword, ChangeEmail,
           ResetPassword
  <2>2. pc[r] /= pc'[r]
    BY <1>1 DEF IInv, TypeOK, UpdateUser, UpdateUserPassword, UpdateMyPassword, ChangeEmail,
           ResetPassword
  <2>3. CASE UpdateUser(r)
    BY <2>1, <2>2, <2>3, WriteChangesAsAsked DEF UpdateUser
  <2>4. CASE UpdateUserPassword(r)
    BY <2>1, <2>2, <2>4, WriteChangesAsAsked DEF UpdateUserPassword
  <2>5. CASE UpdateMyPassword(r)
    BY <2>1, <2>2, <2>5, WriteChangesAsAsked DEF UpdateMyPassword
  <2>6. CASE ChangeEmail(r)
    BY <2>1, <2>2, <2>6, WriteChangesAsAsked DEF ChangeEmail
  <2>7. CASE ResetPassword(r)
    BY <2>1, <2>2, <2>7, WriteChangesAsAsked DEF ResetPassword
  <2> QED BY <1>1, <2>3, <2>4, <2>5, <2>6, <2>7
<1>2. CASE CreateUser(r)
  <2> DEFINE new == [id |-> lastId + 1, name |-> call[r].name, full |-> call[r].full,
                     hash |-> r, email |-> call[r].email, role |-> call[r].role,
                     active |-> TRUE, version |-> 1]
  <2>1. users' = users \cup {new} /\ new.id = lastId + 1
    BY <1>2 DEF CreateUser
  <2> HIDE DEF new
  <2>2. \A u \in users : u.id /= new.id
    BY <2>1 DEF IInv, TypeOK, Rows
  <2> QED BY <2>1, <2>2 DEF ChangesAsAsked, IInv, RowsDistinct
<1>3. CASE \/ DeleteUser(r) \/ LoadByID(r) \/ LoadByUsername(r) \/ PublishPassword(r)
           \/ CheckEmail(r) \/ StoreCode(r) \/ PublishCode(r) \/ CheckCode(r)
           \/ DeleteCode(r) \/ GiveUp(r)
  <2>1. users' \subseteq users
    BY <1>3 DEF DeleteUser, LoadByID, LoadByUsername, PublishPassword, CheckEmail, StoreCode,
                PublishCode, CheckCode, DeleteCode, GiveUp
  <2> QED BY <2>1 DEF ChangesAsAsked, IInv, RowsDistinct
<1> QED BY <1>1, <1>2, <1>3 DEF RequestStep

(* No handler puts a column back to what a stale copy has, and none writes *)
(* to the account of somebody else: the optimistic lock of UpdateUser.     *)
THEOREM ChangesOnlyAsAsked == Spec => OnlyWhatWasAsked
<1>1. IInv /\ [Next]_vars => [ChangesAsAsked]_vars
  <2> SUFFICES ASSUME IInv, Next PROVE ChangesAsAsked
    BY DEF ChangesAsAsked
  <2>1. ASSUME NEW r \in Requests, RequestStep(r) PROVE ChangesAsAsked
    BY <2>1, RequestChangesAsAsked
  <2>2. ASSUME NEW k \in Keys, Expire(k) PROVE ChangesAsAsked
    BY <2>2 DEF Expire, ChangesAsAsked, IInv, RowsDistinct
  <2> QED BY <2>1, <2>2 DEF Next
<1> QED BY <1>1, Invariance, PTL DEF Spec, OnlyWhatWasAsked, ChangesAsAsked

-----------------------------------------------------------------------------
(* The codes: a code is under the key that it was made for and under no    *)
(* other, opens what it was mailed for, and is under no key once its use   *)
(* is over.                                                                *)

\* The key that a request stores its code under, or looks for one under.
KeyOf(r) == CodeKey(r, NameOf(r))

-----------------------------------------------------------------------------
(* The inductive invariant.                                                *)

\* A request that has not begun has read nothing.
Fresh == \A r \in Requests : pc[r] = "new" => copy[r] = NoRow /\ code[r] = NoCode

\* What RequireResetPassword has read is of the name that it was asked for.
ForgotNames ==
    \A r \in Requests : call[r].op = "forgot" /\ copy[r] /= NoRow => copy[r].name = call[r].name

\* A code in Redis is under the key of the request that made it.
UnderKeys ==
    \A k \in Keys : otp[k] /= NoCode =>
      /\ call[otp[k]].op \in {"forgot", "address"}
      /\ pc[otp[k]] \in {"stored", "done", "failed"}
      /\ copy[otp[k]] /= NoRow
      /\ KeyOf(otp[k]) = k

\* A code that is mailed comes from a request that is over, and goes to the
\* address that it is about.
Mailed ==
    \A m \in mails :
      /\ call[m.code].op \in {"forgot", "address"}
      /\ pc[m.code] = "done"
      /\ copy[m.code] /= NoRow
      /\ call[m.code].op = "address" => m.to = call[m.code].email

\* A code that was right was mailed, and was under the key of the confirmation.
Found ==
    \A r \in Requests : code[r] /= NoCode =>
      /\ call[r].op \in {"reset", "confirm"}
      /\ pc[r] /= "new"
      /\ call[r].op = "confirm" => pc[r] /= "loaded" /\ copy[r] /= NoRow
      /\ \E m \in mails : m.code = code[r]
      /\ KeyOf(code[r]) = KeyOf(r)

\* Nothing is confirmed without a code.
NeedsCode ==
    \A r \in Requests :
      \/ pc[r] \in {"coded", "written"}
      \/ call[r].op = "reset" /\ pc[r] = "loaded"
      => code[r] /= NoCode

\* The code of a confirmation that is over is under no key.
Spent ==
    \A r \in Requests : pc[r] = "done" /\ code[r] /= NoCode =>
      \A k \in Keys : otp[k] /= code[r]

CodeInv == /\ Fresh
           /\ ForgotNames
           /\ UnderKeys
           /\ Mailed
           /\ Found
           /\ NeedsCode
           /\ Spent

-----------------------------------------------------------------------------
(* Facts about the keys.                                                   *)

(* The key of a request is one of Redis, and stays while its call and its   *)
(* copy do.                                                                 *)
LEMMA KeyIsAKey ==
  ASSUME TypeOK, NEW r \in Requests, call[r].op \in {"forgot", "address", "reset", "confirm"},
         call[r].op = "reset" \/ copy[r] /= NoRow
  PROVE  KeyOf(r) \in Keys
<1>1. call[r] \in Calls /\ copy[r] \in Rows \cup {NoRow}
  BY DEF TypeOK
<1>2. NameOf(r) \in Names
  BY <1>1, CallsAssumption DEF NameOf, Rows
<1>3. call[r].op \in {"address", "confirm"} => call[r].email \in Emails
  BY <1>1, CallsAssumption
<1> QED BY <1>2, <1>3 DEF KeyOf, CodeKey, Keys

LEMMA KeyStays ==
  ASSUME call' = call, NEW r \in Requests, call[r].op = "reset" \/ copy'[r] = copy[r]
  PROVE  KeyOf(r)' = KeyOf(r)
BY DEF KeyOf, CodeKey, NameOf

(* Requests of one key are for one purpose: the same name forgotten, or the *)
(* same new address.                                                        *)
LEMMA OnePurpose ==
  ASSUME TypeOK, NEW c \in Requests, NEW r \in Requests, KeyOf(c) = KeyOf(r),
         call[c].op \in {"forgot", "address"}, call[r].op \in {"reset", "confirm"}
  PROVE  /\ call[r].op = "confirm" => call[c].op = "address" /\ call[c].email = call[r].email
         /\ call[r].op = "reset" => call[c].op = "forgot" /\ copy[c].name = call[r].name
<1>1. call[r] \in Calls /\ call[c] \in Calls
  BY DEF TypeOK
<1>2. /\ call[c].op = "address" => call[c].email /= "reset"
      /\ call[r].op = "confirm" => call[r].email /= "reset"
  BY <1>1, CallsAssumption, DistinctAssumption
<1> QED BY <1>2 DEF KeyOf, CodeKey, NameOf

-----------------------------------------------------------------------------
(* The initial states and the steps.                                       *)

LEMMA InitCodeInv == Init => CodeInv
BY DistinctAssumption DEF Init, CodeInv, Fresh, ForgotNames, UnderKeys, Mailed, Found, NeedsCode, Spent

(* A step that stores, mails, finds and deletes no code.                    *)
LEMMA PlainCodeInv ==
  ASSUME IInv, CodeInv, NEW r \in Requests, NEW step \in PCs,
         UNCHANGED <<otp, mails, call, code>>, Goto(r, step),
         \A x \in Requests : copy'[x] = copy[x] \/
            (x = r /\ copy[r] = NoRow /\ (call[r].op = "forgot" => copy'[r].name = call[r].name)),
         pc[r] \notin {"done", "failed"},
         pc[r] = "stored" => step = "failed",
         step \notin {"new", "coded"},
         step = "loaded" => pc[r] = "new" /\ call[r].op /= "reset",
         step = "done" => call[r].op \notin {"reset", "confirm"},
         step = "written" => pc[r] = "coded" \/ (pc[r] = "loaded" /\ call[r].op = "reset")
  PROVE  CodeInv'
<1> USE DEF CodeInv
<1>0. pc \in [Requests -> PCs] /\ otp \in [Keys -> Requests \cup {NoCode}]
      /\ mails \in SUBSET [code : Requests, to : Emails] /\ code \in [Requests -> Requests \cup {NoCode}]
  BY DEF IInv, TypeOK
<1>1. Fresh' /\ ForgotNames'
  BY <1>0 DEF Fresh, ForgotNames
<1>2. \A x \in Requests : copy[x] /= NoRow \/ call[x].op = "reset" => KeyOf(x)' = KeyOf(x)
  BY KeyStays
<1>3. UnderKeys'
  BY <1>0, <1>2 DEF UnderKeys
<1>4. Mailed'
  BY <1>0 DEF Mailed
<1>5. Found'
  <2> SUFFICES ASSUME NEW x \in Requests, code[x] /= NoCode
               PROVE  /\ call[x].op \in {"reset", "confirm"}
                      /\ pc'[x] /= "new"
                      /\ call[x].op = "confirm" => pc'[x] /= "loaded" /\ copy'[x] /= NoRow
                      /\ \E m \in mails : m.code = code[x]
                      /\ KeyOf(code[x])' = KeyOf(x)'
    BY DEF Found, KeyOf, CodeKey, NameOf
  <2>1. /\ call[x].op \in {"reset", "confirm"} /\ pc[x] /= "new"
        /\ call[x].op = "confirm" => pc[x] /= "loaded" /\ copy[x] /= NoRow
        /\ KeyOf(code[x]) = KeyOf(x)
    BY DEF Found
  <2>2. PICK m \in mails : m.code = code[x]
    BY DEF Found
  <2>3. copy[code[x]] /= NoRow /\ code[x] \in Requests
    BY <2>2, <1>0 DEF Mailed
  <2> QED BY <1>0, <1>2, <2>1, <2>2, <2>3
<1>6. NeedsCode'
  BY <1>0 DEF NeedsCode
<1>7. Spent'
  BY <1>0 DEF Spent, Found
<1> QED BY <1>1, <1>3, <1>4, <1>5, <1>6, <1>7

(* ConfirmResetPassword reads its row when it has the code: nothing in the   *)
(* invariant is about that row.                                              *)
LEMMA ResetLoadCodeInv ==
  ASSUME IInv, CodeInv, NEW r \in Requests, LoadByUsername(r), Asks(r, "reset", "coded")
  PROVE  CodeInv'
<1> USE DEF CodeInv
<1>0. /\ pc \in [Requests -> PCs] /\ otp \in [Keys -> Requests \cup {NoCode}]
      /\ mails \in SUBSET [code : Requests, to : Emails]
      /\ code \in [Requests -> Requests \cup {NoCode}]
      /\ copy \in [Requests -> Rows \cup {NoRow}]
  BY DEF IInv, TypeOK
<1>1. /\ UNCHANGED <<otp, mails, call, code>>
      /\ pc' = [pc EXCEPT ![r] = "loaded"]
      /\ \A x \in Requests \ {r} : copy'[x] = copy[x]
  BY <1>0 DEF LoadByUsername
<1>2. \A x \in Requests : KeyOf(x)' = KeyOf(x)
  BY <1>1, KeyStays
<1>3. Fresh' /\ ForgotNames' /\ NeedsCode'
  BY <1>0, <1>1 DEF Fresh, ForgotNames, NeedsCode
<1>4. UnderKeys' /\ Mailed'
  BY <1>0, <1>1, <1>2 DEF UnderKeys, Mailed
<1>5. Found'
  <2>1. \A x \in Requests : code[x] /= NoCode => code[x] \in Requests
    BY <1>0
  <2> QED BY <1>0, <1>1, <1>2, <2>1 DEF Found
<1>6. Spent'
  BY <1>0, <1>1 DEF Spent
<1> QED BY <1>3, <1>4, <1>5, <1>6

(* Any other step that a handler can take without a code at hand.          *)
LEMMA PlainStepsCodeInv ==
  ASSUME IInv, CodeInv, NEW r \in Requests,
         \/ CreateUser(r) \/ PublishPassword(r) \/ LoadByID(r) \/ UpdateUser(r)
         \/ UpdateUserPassword(r) \/ DeleteUser(r) \/ UpdateMyPassword(r) \/ CheckEmail(r)
         \/ ChangeEmail(r) \/ LoadByUsername(r) \/ ResetPassword(r) \/ GiveUp(r)
  PROVE  CodeInv'
<1>1. CASE LoadByID(r)
  BY <1>1, PlainCodeInv DEF LoadByID, CodeInv, Fresh, IInv, TypeOK
<1>2. CASE LoadByUsername(r)
  <2>1. PICK u \in users : u.name = call[r].name /\ copy' = [copy EXCEPT ![r] = u]
    BY <1>2 DEF LoadByUsername
  <2>2. CASE Asks(r, "forgot", "new")
    <3>1. copy[r] = NoRow /\ copy \in [Requests -> Rows \cup {NoRow}]
      BY <2>2 DEF CodeInv, Fresh, IInv, TypeOK
    <3> QED BY <1>2, <2>1, <2>2, <3>1, PlainCodeInv DEF LoadByUsername
  <2>3. CASE Asks(r, "reset", "coded")
    BY <1>2, <2>3, ResetLoadCodeInv
  <2> QED BY <1>2, <2>2, <2>3 DEF LoadByUsername
<1>3. CASE ChangeEmail(r) \/ ResetPassword(r)
  BY <1>3, PlainCodeInv DEF ChangeEmail, ResetPassword
<1>4. CASE GiveUp(r)
  BY <1>4, PlainCodeInv DEF GiveUp
<1>5. CASE \/ CreateUser(r) \/ PublishPassword(r) \/ UpdateUser(r) \/ UpdateUserPassword(r)
           \/ DeleteUser(r) \/ UpdateMyPassword(r) \/ CheckEmail(r)
  <2>1. CASE CreateUser(r)
    BY <2>1, PlainCodeInv DEF CreateUser
  <2>2. CASE PublishPassword(r)
    BY <2>2, PlainCodeInv DEF PublishPassword
  <2>3. CASE UpdateUser(r)
    BY <2>3, PlainCodeInv DEF UpdateUser
  <2>4. CASE UpdateUserPassword(r) \/ UpdateMyPassword(r)
    BY <2>4, PlainCodeInv DEF UpdateUserPassword, UpdateMyPassword
  <2>5. CASE DeleteUser(r)
    BY <2>5, PlainCodeInv DEF DeleteUser
  <2>6. CASE CheckEmail(r)
    BY <2>6, PlainCodeInv DEF CheckEmail
  <2> QED BY <1>5, <2>1, <2>2, <2>3, <2>4, <2>5, <2>6
<1> QED BY <1>1, <1>2, <1>3, <1>4, <1>5

(* A code is made: nobody has found it yet, so no confirmation with it is   *)
(* over.                                                                    *)
LEMMA StoreCodeInv ==
  ASSUME IInv, CodeInv, NEW r \in Requests, StoreCode(r)
  PROVE  CodeInv'
<1> USE DEF CodeInv
<1>0. /\ pc \in [Requests -> PCs] /\ otp \in [Keys -> Requests \cup {NoCode}]
      /\ mails \in SUBSET [code : Requests, to : Emails]
      /\ code \in [Requests -> Requests \cup {NoCode}]
  BY DEF IInv, TypeOK
<1>1. /\ UNCHANGED <<mails, call, copy, code>>
      /\ otp' = [otp EXCEPT ![KeyOf(r)] = r]
      /\ pc' = [pc EXCEPT ![r] = "stored"]
      /\ Asks(r, "forgot", "loaded") \/ Asks(r, "address", "free")
  BY DEF StoreCode, KeyOf
<1>2. copy[r] /= NoRow /\ KeyOf(r) \in Keys
  BY <1>1, KeyIsAKey DEF IInv, Loaded
<1>3. \A x \in Requests : KeyOf(x)' = KeyOf(x)
  BY <1>1, KeyStays
<1>4. Fresh' /\ ForgotNames' /\ NeedsCode'
  BY <1>0, <1>1 DEF Fresh, ForgotNames, NeedsCode
<1>5. UnderKeys'
  BY <1>0, <1>1, <1>2, <1>3 DEF UnderKeys
<1>6. Mailed'
  BY <1>0, <1>1 DEF Mailed
<1>7. Found'
  <2>1. \A x \in Requests : code[x] /= NoCode => code[x] \in Requests
    BY <1>0
  <2> QED BY <1>0, <1>1, <1>3, <2>1 DEF Found
<1>8. Spent'
  <2>1. \A x \in Requests : code[x] /= r
    BY <1>0, <1>1, DistinctAssumption DEF Found, Mailed
  <2> QED BY <1>0, <1>1, <2>1 DEF Spent
<1> QED BY <1>4, <1>5, <1>6, <1>7, <1>8

LEMMA PublishCodeInv ==
  ASSUME IInv, CodeInv, NEW r \in Requests, PublishCode(r)
  PROVE  CodeInv'
<1> USE DEF CodeInv
<1>0. /\ pc \in [Requests -> PCs] /\ otp \in [Keys -> Requests \cup {NoCode}]
      /\ mails \in SUBSET [code : Requests, to : Emails]
      /\ code \in [Requests -> Requests \cup {NoCode}]
  BY DEF IInv, TypeOK
<1>1. /\ UNCHANGED <<otp, call, copy, code>>
      /\ pc' = [pc EXCEPT ![r] = "done"]
      /\ pc[r] = "stored" /\ call[r].op \in {"forgot", "address"}
      /\ mails' = mails \cup {[code |-> r, to |-> IF call[r].op = "forgot" THEN copy[r].email
                                                  ELSE call[r].email]}
  BY DEF PublishCode
<1>2. copy[r] /= NoRow
  BY <1>1 DEF IInv, Loaded
<1>3. \A x \in Requests : KeyOf(x)' = KeyOf(x)
  BY <1>1, KeyStays
<1>4. Fresh' /\ ForgotNames' /\ NeedsCode'
  BY <1>0, <1>1 DEF Fresh, ForgotNames, NeedsCode
<1>5. UnderKeys'
  BY <1>0, <1>1, <1>3 DEF UnderKeys
<1>6. Mailed'
  BY <1>0, <1>1, <1>2 DEF Mailed
<1>7. Found'
  <2>1. mails \subseteq mails' /\ \A x \in Requests : code[x] /= NoCode => code[x] \in Requests
    BY <1>0, <1>1
  <2> QED BY <1>0, <1>1, <1>3, <2>1 DEF Found
<1>8. Spent'
  BY <1>0, <1>1 DEF Spent, Found
<1> QED BY <1>4, <1>5, <1>6, <1>7, <1>8

(* The code that is found is under a key, so its use is not over.           *)
LEMMA CheckCodeInv ==
  ASSUME IInv, CodeInv, NEW r \in Requests, CheckCode(r)
  PROVE  /\ CodeInv'
         /\ KeyOf(r) \in Keys /\ code' = [code EXCEPT ![r] = otp[KeyOf(r)]]
<1> USE DEF CodeInv
<1>0. /\ pc \in [Requests -> PCs] /\ otp \in [Keys -> Requests \cup {NoCode}]
      /\ mails \in SUBSET [code : Requests, to : Emails]
      /\ code \in [Requests -> Requests \cup {NoCode}]
  BY DEF IInv, TypeOK
<1>1. /\ UNCHANGED <<otp, mails, call, copy>>
      /\ pc' = [pc EXCEPT ![r] = "coded"]
      /\ Asks(r, "reset", "new") \/ Asks(r, "confirm", "loaded")
  BY DEF CheckCode
<1>2. PICK m \in mails : otp[KeyOf(r)] = m.code /\ code' = [code EXCEPT ![r] = m.code]
  BY DEF CheckCode, KeyOf
<1>3. call[r].op = "confirm" => copy[r] /= NoRow
  BY <1>1 DEF IInv, Loaded
<1>4. KeyOf(r) \in Keys
  BY <1>1, <1>3, KeyIsAKey DEF IInv
<1>5. \A x \in Requests : KeyOf(x)' = KeyOf(x)
  BY <1>1, KeyStays
<1>6. m.code \in Requests /\ m.code /= NoCode
  BY <1>0, DistinctAssumption
<1>7. KeyOf(m.code) = KeyOf(r)
  BY <1>2, <1>4, <1>6 DEF UnderKeys
<1>8. Fresh' /\ ForgotNames' /\ NeedsCode'
  BY <1>0, <1>1, <1>2, <1>6 DEF Fresh, ForgotNames, NeedsCode
<1>9. UnderKeys' /\ Mailed'
  BY <1>0, <1>1, <1>5, <1>6 DEF UnderKeys, Mailed
<1>10. Found'
  <2>1. \A x \in Requests : code'[x] /= NoCode => code'[x] \in Requests
    BY <1>0, <1>2, <1>6
  <2> QED BY <1>0, <1>1, <1>2, <1>3, <1>5, <1>6, <1>7, <2>1 DEF Found
<1>11. Spent'
  BY <1>0, <1>1, <1>2 DEF Spent
<1> QED BY <1>2, <1>4, <1>8, <1>9, <1>10, <1>11

(* The code of the confirmation was under its key and under no other one.   *)
LEMMA DeleteCodeInv ==
  ASSUME IInv, CodeInv, NEW r \in Requests, DeleteCode(r)
  PROVE  CodeInv'
<1> USE DEF CodeInv
<1>0. /\ pc \in [Requests -> PCs] /\ otp \in [Keys -> Requests \cup {NoCode}]
      /\ mails \in SUBSET [code : Requests, to : Emails]
      /\ code \in [Requests -> Requests \cup {NoCode}]
  BY DEF IInv, TypeOK
<1>1. /\ UNCHANGED <<mails, call, copy, code>>
      /\ otp' = [otp EXCEPT ![KeyOf(r)] = NoCode]
      /\ pc' = [pc EXCEPT ![r] = "done"] /\ pc[r] = "written"
  BY DEF DeleteCode, KeyOf
<1>2. \A x \in Requests : KeyOf(x)' = KeyOf(x)
  BY <1>1, KeyStays
<1>3. \A k \in Keys : otp'[k] \in {otp[k], NoCode} /\ (k = KeyOf(r) => otp'[k] = NoCode)
  BY <1>0, <1>1
<1>4. Fresh' /\ ForgotNames' /\ NeedsCode'
  BY <1>0, <1>1 DEF Fresh, ForgotNames, NeedsCode
<1>5. UnderKeys'
  BY <1>0, <1>1, <1>2, <1>3 DEF UnderKeys
<1>6. Mailed'
  BY <1>0, <1>1 DEF Mailed
<1>7. Found'
  <2>1. \A x \in Requests : code[x] /= NoCode => code[x] \in Requests
    BY <1>0
  <2> QED BY <1>0, <1>1, <1>2, <2>1 DEF Found
<1>8. Spent'
  <2>1. code[r] /= NoCode => \A k \in Keys : otp'[k] /= code[r]
    BY <1>3, DistinctAssumption DEF Found, UnderKeys
  <2> QED BY <1>0, <1>1, <1>3, <2>1 DEF Spent
<1> QED BY <1>4, <1>5, <1>6, <1>7, <1>8

(* Every step preserves the invariant.                                      *)
LEMMA NextCodeInv == IInv /\ CodeInv /\ [Next]_vars => CodeInv'
<1> SUFFICES ASSUME IInv, CodeInv, [Next]_vars PROVE CodeInv'
  OBVIOUS
<1>1. ASSUME NEW r \in Requests, RequestStep(r) PROVE CodeInv'
  BY <1>1, PlainStepsCodeInv, StoreCodeInv, PublishCodeInv, CheckCodeInv, DeleteCodeInv
     DEF RequestStep
<1>2. ASSUME NEW k \in Keys, Expire(k) PROVE CodeInv'
  <2>0. otp \in [Keys -> Requests \cup {NoCode}]
    BY DEF IInv, TypeOK
  <2>1. UNCHANGED <<mails, call, pc, copy, code>> /\ otp' = [otp EXCEPT ![k] = NoCode]
    BY <1>2 DEF Expire
  <2>2. \A x : KeyOf(x)' = KeyOf(x)
    BY <2>1 DEF KeyOf, CodeKey, NameOf
  <2>3. Fresh' /\ ForgotNames' /\ NeedsCode' /\ Mailed'
    BY <2>1 DEF CodeInv, Fresh, ForgotNames, NeedsCode, Mailed
  <2>4. UnderKeys' /\ Found' /\ Spent'
    BY <2>0, <2>1, <2>2 DEF CodeInv, UnderKeys, Found, Spent
  <2> QED BY <2>3, <2>4 DEF CodeInv
<1>3. CASE UNCHANGED vars
  <2>1. \A x : KeyOf(x)' = KeyOf(x)
    BY <1>3 DEF vars, KeyOf, CodeKey, NameOf
  <2> QED BY <1>3, <2>1
          DEF vars, CodeInv, Fresh, ForgotNames, UnderKeys, Mailed, Found, NeedsCode, Spent
<1> QED BY <1>1, <1>2, <1>3 DEF Next

-----------------------------------------------------------------------------
(* The theorems.                                                           *)

(* The codes in Redis, in the mails and with the confirmations are as the   *)
(* invariant says.                                                          *)
THEOREM CodesInvariance == Spec => [](IInv /\ CodeInv)
<1>1. Init => IInv /\ CodeInv
  BY InitIInv, InitCodeInv
<1>2. IInv /\ CodeInv /\ [Next]_vars => (IInv /\ CodeInv)'
  BY NextIInv, NextCodeInv
<1> QED BY <1>1, <1>2, PTL DEF Spec

(* ConfirmUpdateEmail stores an address only with a code that was mailed to *)
(* it, and ConfirmResetPassword a password only with a code that was mailed *)
(* as that of the name was forgotten: only the Redis key ties them.         *)
THEOREM CodesOpenOnlyTheirs == Spec => []CodesProveTheAddress
<1>1. IInv /\ CodeInv => CodesProveTheAddress
  <2> SUFFICES ASSUME IInv, CodeInv, NEW r \in Requests, pc[r] = "written"
               PROVE  \E m \in mails :
                        /\ m.code = code[r]
                        /\ IF call[r].op = "confirm"
                           THEN m.to = call[r].email /\ call[m.code].op = "address"
                           ELSE call[m.code].op = "forgot" /\ call[m.code].name = call[r].name
    BY DEF CodesProveTheAddress
  <2>1. /\ code[r] /= NoCode /\ call[r].op \in {"reset", "confirm"}
        /\ KeyOf(code[r]) = KeyOf(r)
    BY DEF CodeInv, NeedsCode, Found
  <2>2. PICK m \in mails : m.code = code[r]
    BY <2>1 DEF CodeInv, Found
  <2>3. /\ code[r] \in Requests
        /\ call[code[r]].op \in {"forgot", "address"} /\ copy[code[r]] /= NoRow
        /\ call[code[r]].op = "address" => m.to = call[code[r]].email
    BY <2>2 DEF IInv, TypeOK, CodeInv, Mailed
  <2>4. /\ call[r].op = "confirm" => call[code[r]].op = "address"
                                     /\ call[code[r]].email = call[r].email
        /\ call[r].op = "reset" => call[code[r]].op = "forgot"
                                   /\ copy[code[r]].name = call[r].name
    BY <2>1, <2>3, OnePurpose DEF IInv
  <2>5. call[code[r]].op = "forgot" => copy[code[r]].name = call[code[r]].name
    BY <2>3 DEF CodeInv, ForgotNames
  <2> QED BY <2>1, <2>2, <2>3, <2>4, <2>5
<1> QED BY <1>1, CodesInvariance, PTL

\* What SuccessSpendsTheCode says of a step.
NoneReused ==
    \A r, s \in Requests :
      code[r] = NoCode /\ code'[r] /= NoCode /\ code[s] = code'[r] => pc[s] /= "done"

(* Success is answered behind DEL, which names the key only; a code that     *)
(* another request stores there later is not the one that was deleted, so no *)
(* code is found right once a confirmation with it was answered with         *)
(* success.  One that ended with an error leaves its code to be used.        *)
THEOREM SuccessfulCodeIsSpent == Spec => SuccessSpendsTheCode
<1>1. IInv /\ CodeInv /\ [Next]_vars => [NoneReused]_vars
  <2> SUFFICES ASSUME IInv, CodeInv, Next, NEW r \in Requests, NEW s \in Requests,
                      code[r] = NoCode, code'[r] /= NoCode, code[s] = code'[r]
               PROVE  pc[s] /= "done"
    BY DEF NoneReused
  <2>1. CheckCode(r)
    <3>1. ASSUME NEW x \in Requests, RequestStep(x) PROVE CheckCode(x) \/ code' = code
      BY <3>1 DEF RequestStep, CreateUser, PublishPassword, LoadByID, UpdateUser, UpdateUserPassword,
                  DeleteUser, UpdateMyPassword, CheckEmail, ChangeEmail, LoadByUsername,
                  ResetPassword, StoreCode, PublishCode, DeleteCode, GiveUp
    <3>2. ASSUME NEW x \in Requests, CheckCode(x) PROVE x = r
      BY <3>2, CheckCodeInv DEF IInv, TypeOK
    <3>3. ASSUME NEW k \in Keys, Expire(k) PROVE code' = code
      BY <3>3 DEF Expire
    <3> QED BY <3>1, <3>2, <3>3 DEF Next
  <2>2. /\ KeyOf(r) \in Keys
        /\ code'[r] = otp[KeyOf(r)]
    BY <2>1, CheckCodeInv DEF IInv, TypeOK
  <2> QED BY <2>2 DEF CodeInv, Spent
<1> QED BY <1>1, CodesInvariance, PTL DEF Spec, SuccessSpendsTheCode, NoneReused
=============================================================================

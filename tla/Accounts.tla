------------------------------ MODULE Accounts ------------------------------
(***************************************************************************)
(* The users of the system: their rows, the codes in Redis with which a    *)
(* forgotten password is reset and a new email address is confirmed, and   *)
(* the mails published with those codes.                                   *)
(*                                                                         *)
(* A request takes one step per statement, Redis command or publication    *)
(* and keeps what it has read in between.  UPDATE writes the columns of    *)
(* the copy and names the id and the version of the copy in WHERE.         *)
(*                                                                         *)
(* A random value (the first password of an account, a code) is identified *)
(* with the request that generated it: two are never equal.  A hash is     *)
(* identified with the password that it accepts.                           *)
(***************************************************************************)
EXTENDS Naturals, FiniteSets

CONSTANTS Names, Emails, FullNames, Passwords,
          Admin,        \* the username of the initial administrator
          FirstAdmin,   \* its row, as cmd/api inserts it
          Requests,
          Calls,        \* what the requests may ask for
          NoCode, NoRow

(***************************************************************************)
(* The ops of a call, and its fields:                                      *)
(*   create   name, full, email, role   CreateUser                         *)
(*   edit     id, change                UpdateUser                         *)
(*   setpw    id, password              UpdateUserPassword                 *)
(*   delete   id                        DeleteUser                         *)
(*   mypw     id, old, password         UpdateMyPassword                   *)
(*   forgot   name                      RequireResetPassword               *)
(*   reset    name, password            ConfirmResetPassword               *)
(*   address  id, email                 RequireUpdateEmail                 *)
(*   confirm  id, email                 ConfirmUpdateEmail                 *)
(***************************************************************************)
ByID == {"edit", "setpw", "delete", "mypw", "address", "confirm"}
Ops == ByID \cup {"create", "forgot", "reset"}

Roles == {"normal", "senior", "blackCore"}
Rows == [id : Nat, name : Names, full : FullNames, hash : Passwords \cup Requests,
         email : Emails, role : Roles, active : BOOLEAN, version : Nat]

\* What the validators of the requests admit.
ASSUME CallsAssumption ==
    \A c \in Calls :
      /\ c.op \in Ops
      /\ c.op = "create" => /\ c.name \in Names /\ c.full \in FullNames
                            /\ c.email \in Emails /\ c.role \in Roles
      /\ c.op = "edit" =>
           /\ DOMAIN c.change \subseteq {"full", "email", "role", "active"}
           /\ "full" \in DOMAIN c.change => c.change["full"] \in FullNames
           /\ "email" \in DOMAIN c.change => c.change["email"] \in Emails
           /\ "role" \in DOMAIN c.change => c.change["role"] \in Roles
           /\ "active" \in DOMAIN c.change => c.change["active"] \in BOOLEAN
      /\ c.op \in {"setpw", "mypw", "reset"} => c.password \in Passwords
      /\ c.op \in {"forgot", "reset"} => c.name \in Names
      /\ c.op \in {"address", "confirm"} => c.email \in Emails
ASSUME AdminAssumption ==
    /\ FirstAdmin \in Rows
    /\ FirstAdmin.id = 1 /\ FirstAdmin.name = Admin
    /\ FirstAdmin.role = "blackCore" /\ FirstAdmin.active
ASSUME DistinctAssumption ==
    NoRow \notin Rows /\ NoCode \notin Requests /\ "reset" \notin Emails

VARIABLES users,    \* the rows
          lastId,   \* the sequence that the ids come from
          otp,      \* the code under each Redis key
          mails,    \* the published mails that carry a code
          call,     \* what each request asks for
          pc,       \* the step of its handler that each request is at
          copy,     \* the row as each request has read it
          code      \* the code that each request found to be right

vars == <<users, lastId, otp, mails, call, pc, copy, code>>

PCs == {"new", "inserted", "loaded", "free", "coded", "stored", "written", "done", "failed"}
Running == PCs \ {"done", "failed"}

\* The Redis keys: reset_password of a name, change_email_to an address.
Keys == Names \X ({"reset"} \cup Emails)

\* cmd/api inserts the initial administrator before it serves any request.
Init == /\ users = {FirstAdmin}
        /\ lastId = 1
        /\ otp = [k \in Keys |-> NoCode]
        /\ mails = {}
        /\ call \in [Requests -> Calls]
        /\ pc = [r \in Requests |-> "new"]
        /\ copy = [r \in Requests |-> NoRow]
        /\ code = [r \in Requests |-> NoCode]

Goto(r, step) == pc' = [pc EXCEPT ![r] = step]
Asks(r, op, step) == call[r].op = op /\ pc[r] = step

-----------------------------------------------------------------------------
(* The repository of the users.                                            *)

\* Mutant of EmailFree: no constraint, the handlers look with CheckEmailIfExists.
EmailUnconstrained(email, id) == TRUE

\* users_email_key admits this email in the row with this id.
EmailFree(email, id) == \A u \in users : u.email = email => u.id = id

\* Mutant of StoreUser: WHERE names the id only.
StoreUserAnyVersion(user) ==
    \E row \in users :
      /\ row.id = user.id
      /\ EmailFree(user.email, user.id)
      /\ users' = (users \ {row}) \cup {[row EXCEPT !.hash = user.hash, !.email = user.email,
                                                    !.role = user.role, !.active = user.active,
                                                    !.version = @ + 1]}

\* UpdateUser: the UPDATE does not list full_name.
StoreUser(user) ==
    \E row \in users :
      /\ row.id = user.id
      /\ row.version = user.version
      /\ EmailFree(user.email, user.id)
      /\ users' = (users \ {row}) \cup {[row EXCEPT !.hash = user.hash, !.email = user.email,
                                                    !.role = user.role, !.active = user.active,
                                                    !.version = @ + 1]}

-----------------------------------------------------------------------------
(* The handlers under /users.                                              *)

CreateUser(r) ==
    /\ Asks(r, "create", "new")
    /\ \A u \in users : u.name /= call[r].name
    /\ EmailFree(call[r].email, lastId + 1)
    /\ lastId' = lastId + 1
    /\ users' = users \cup {[id |-> lastId + 1, name |-> call[r].name, full |-> call[r].full,
                             hash |-> r, email |-> call[r].email, role |-> call[r].role,
                             active |-> TRUE, version |-> 1]}
    /\ Goto(r, "inserted")
    /\ UNCHANGED <<otp, mails, call, copy, code>>

\* The mail with the first password carries no code.
PublishPassword(r) ==
    /\ Asks(r, "create", "inserted")
    /\ Goto(r, "done")
    /\ UNCHANGED <<users, lastId, otp, mails, call, copy, code>>

\* Mutant of MayOperate: the route of UpdateUser lacks the middleware.
MayOperateOnEdit(r, user) == call[r].op = "delete" => user.name /= Admin

\* preventOperateInitialAdmin, on the routes of UpdateUser and DeleteUser.
MayOperate(r, user) == call[r].op \in {"edit", "delete"} => user.name /= Admin

\* GetUserByID in myInfo and in userInfo.
LoadByID(r) ==
    /\ pc[r] = "new"
    /\ call[r].op \in ByID
    /\ \E u \in users : /\ u.id = call[r].id
                        /\ MayOperate(r, u)
                        /\ copy' = [copy EXCEPT ![r] = u]
    /\ Goto(r, "loaded")
    /\ UNCHANGED <<users, lastId, otp, mails, call, code>>

\* Mutant of Edited: a field that the call leaves out is stored as empty.
EditedAsPut(user, change) ==
    [f \in DOMAIN user |-> IF f \in DOMAIN change THEN change[f]
                           ELSE IF f \in {"email", "role", "active"} THEN NoRow ELSE user[f]]

\* The copy with the fields that the call gives.
Edited(user, change) ==
    [f \in DOMAIN user |-> IF f \in DOMAIN change THEN change[f] ELSE user[f]]

UpdateUser(r) ==
    /\ Asks(r, "edit", "loaded")
    /\ StoreUser(Edited(copy[r], call[r].change))
    /\ Goto(r, "done")
    /\ UNCHANGED <<lastId, otp, mails, call, copy, code>>

UpdateUserPassword(r) ==
    /\ Asks(r, "setpw", "loaded")
    /\ StoreUser([copy[r] EXCEPT !.hash = call[r].password])
    /\ Goto(r, "done")
    /\ UNCHANGED <<lastId, otp, mails, call, copy, code>>

\* WHERE names the id only, and no row to delete is no error.
DeleteUser(r) ==
    /\ Asks(r, "delete", "loaded")
    /\ users' = {u \in users : u.id /= copy[r].id}
    /\ Goto(r, "done")
    /\ UNCHANGED <<lastId, otp, mails, call, copy, code>>

-----------------------------------------------------------------------------
(* The handlers under /my-info.                                            *)

UpdateMyPassword(r) ==
    /\ Asks(r, "mypw", "loaded")
    /\ copy[r].hash = call[r].old
    /\ StoreUser([copy[r] EXCEPT !.hash = call[r].password])
    /\ Goto(r, "done")
    /\ UNCHANGED <<lastId, otp, mails, call, copy, code>>

\* RequireUpdateEmail looks whether the address is taken.
CheckEmail(r) ==
    /\ Asks(r, "address", "loaded")
    /\ \A u \in users : u.email /= call[r].email
    /\ Goto(r, "free")
    /\ UNCHANGED <<users, lastId, otp, mails, call, copy, code>>

\* ConfirmUpdateEmail stores the address when the code was right.
ChangeEmail(r) ==
    /\ Asks(r, "confirm", "coded")
    /\ StoreUser([copy[r] EXCEPT !.email = call[r].email])
    /\ Goto(r, "written")
    /\ UNCHANGED <<lastId, otp, mails, call, copy, code>>

-----------------------------------------------------------------------------
(* The handlers under /auth/reset-password.                                *)

\* GetUserByUsername: RequireResetPassword begins with it, and
\* ConfirmResetPassword comes to it when the code was right.
LoadByUsername(r) ==
    /\ Asks(r, "forgot", "new") \/ Asks(r, "reset", "coded")
    /\ \E u \in users : u.name = call[r].name /\ copy' = [copy EXCEPT ![r] = u]
    /\ Goto(r, "loaded")
    /\ UNCHANGED <<users, lastId, otp, mails, call, code>>

ResetPassword(r) ==
    /\ Asks(r, "reset", "loaded")
    /\ StoreUser([copy[r] EXCEPT !.hash = call[r].password])
    /\ Goto(r, "written")
    /\ UNCHANGED <<lastId, otp, mails, call, copy, code>>

-----------------------------------------------------------------------------
(* The codes.                                                              *)

\* Mutant of CodeKey: one key per user.
CodeKeyOfName(r, name) == <<name, "reset">>

CodeKey(r, name) ==
    <<name, IF call[r].op \in {"forgot", "reset"} THEN "reset" ELSE call[r].email>>

\* ConfirmResetPassword has no copy before the code was right.
NameOf(r) == IF call[r].op = "reset" THEN call[r].name ELSE copy[r].name

\* SET, which replaces an earlier code.
StoreCode(r) ==
    /\ Asks(r, "forgot", "loaded") \/ Asks(r, "address", "free")
    /\ otp' = [otp EXCEPT ![CodeKey(r, NameOf(r))] = r]
    /\ Goto(r, "stored")
    /\ UNCHANGED <<users, lastId, mails, call, copy, code>>

PublishCode(r) ==
    /\ call[r].op \in {"forgot", "address"}
    /\ pc[r] = "stored"
    /\ mails' = mails \cup {[code |-> r, to |-> IF call[r].op = "forgot" THEN copy[r].email
                                                ELSE call[r].email]}
    /\ Goto(r, "done")
    /\ UNCHANGED <<users, lastId, otp, call, copy, code>>

\* GET finds the code that the client sent; it has one from a mail.
CheckCode(r) ==
    /\ Asks(r, "reset", "new") \/ Asks(r, "confirm", "loaded")
    /\ \E m \in mails : /\ otp[CodeKey(r, NameOf(r))] = m.code
                        /\ code' = [code EXCEPT ![r] = m.code]
    /\ Goto(r, "coded")
    /\ UNCHANGED <<users, lastId, otp, mails, call, copy>>

\* Mutant of DeleteCode: the code is left to expire.
KeepCode(r) ==
    /\ pc[r] = "written"
    /\ Goto(r, "done")
    /\ UNCHANGED <<users, lastId, otp, mails, call, copy, code>>

\* DEL names the key, whatever code is under it by now.
DeleteCode(r) ==
    /\ pc[r] = "written"
    /\ otp' = [otp EXCEPT ![CodeKey(r, NameOf(r))] = NoCode]
    /\ Goto(r, "done")
    /\ UNCHANGED <<users, lastId, mails, call, copy, code>>

\* The TTL of a key runs out.
Expire(k) ==
    /\ otp[k] /= NoCode
    /\ otp' = [otp EXCEPT ![k] = NoCode]
    /\ UNCHANGED <<users, lastId, mails, call, pc, copy, code>>

\* A check fails, a row or a code is not there, a constraint or the version
\* refuses the row, or a store or the broker fails: an error is answered and
\* what the earlier steps did stays.
GiveUp(r) ==
    /\ pc[r] \in Running
    /\ Goto(r, "failed")
    /\ UNCHANGED <<users, lastId, otp, mails, call, copy, code>>
-----------------------------------------------------------------------------
RequestStep(r) == \/ CreateUser(r)
                  \/ PublishPassword(r)
                  \/ LoadByID(r)
                  \/ UpdateUser(r)
                  \/ UpdateUserPassword(r)
                  \/ DeleteUser(r)
                  \/ UpdateMyPassword(r)
                  \/ CheckEmail(r)
                  \/ ChangeEmail(r)
                  \/ LoadByUsername(r)
                  \/ ResetPassword(r)
                  \/ StoreCode(r)
                  \/ PublishCode(r)
                  \/ CheckCode(r)
                  \/ DeleteCode(r)
                  \/ GiveUp(r)

Next == \/ \E r \in Requests : RequestStep(r)
        \/ \E k \in Keys : Expire(k)

Spec == Init /\ [][Next]_vars

-----------------------------------------------------------------------------
TypeOK ==
    /\ users \in SUBSET Rows
    /\ lastId \in Nat
    /\ otp \in [Keys -> Requests \cup {NoCode}]
    /\ mails \in SUBSET [code : Requests, to : Emails]
    /\ call \in [Requests -> Calls]
    /\ pc \in [Requests -> PCs]
    /\ copy \in [Requests -> Rows \cup {NoRow}]
    /\ code \in [Requests -> Requests \cup {NoCode}]

\* The unique columns: no two rows share an id, a name or an email, although
\* an address is looked up long before it is stored.
RowsDistinct ==
    \A u, v \in users : u /= v => u.id /= v.id /\ u.name /= v.name /\ u.email /= v.email

\* The initial administrator is there, in charge and active, whatever the
\* other administrators edit or delete and whoever gets its name in between.
InitialAdminStays ==
    \E u \in users : u.name = Admin /\ u.id = 1 /\ u.role = "blackCore" /\ u.active

-----------------------------------------------------------------------------
(* The inductive invariants: of the rows, and of the codes.                *)

\* A request has a copy wherever its handler uses one.
Loaded ==
    \A r \in Requests :
      \/ pc[r] \in {"loaded", "free", "stored"}
      \/ call[r].op = "confirm" /\ pc[r] \in {"coded", "written"}
      => copy[r] /= NoRow

\* A copy is the row itself, or of an earlier version, or of a row that is gone.
CopiesAgree ==
    \A r \in Requests : copy[r] /= NoRow =>
      /\ copy[r].id <= lastId
      /\ \A u \in users : u.id = copy[r].id =>
           /\ copy[r].version <= u.version
           /\ copy[r].version = u.version => u = copy[r]

AdminCopies ==
    \A r \in Requests : copy[r] /= NoRow /\ copy[r].id = 1 =>
      /\ copy[r].name = Admin /\ copy[r].role = "blackCore" /\ copy[r].active
      /\ call[r].op \notin {"edit", "delete"}

\* Every row, every copy and the row of the initial administrator are right.
IInv == /\ TypeOK
        /\ RowsDistinct
        /\ \A u \in users : u.id <= lastId
        /\ Loaded
        /\ CopiesAgree
        /\ InitialAdminStays
        /\ AdminCopies

-----------------------------------------------------------------------------
\* What a call asks to be made of a row.
Asked(r, user) ==
    CASE call[r].op = "edit" -> Edited(user, [f \in DOMAIN call[r].change \ {"full"} |->
                                                 call[r].change[f]])
      [] call[r].op \in {"setpw", "mypw", "reset"} -> [user EXCEPT !.hash = call[r].password]
      [] call[r].op = "confirm" -> [user EXCEPT !.email = call[r].email]
      [] OTHER -> user

\* A row changes only as one request asked, applied to the row as it is and not
\* as the request read it: no column goes back to what it was in a stale copy,
\* and no account gets the columns of a deleted one.
OnlyWhatWasAsked ==
    [][\A old \in users, new \in users' :
         old.id = new.id /\ old /= new =>
           \E r \in Requests : /\ pc[r] /= pc'[r]
                               /\ new = [Asked(r, old) EXCEPT !.version = @ + 1]]_vars

\* A code opens what it was mailed for: a new address is stored with a code
\* that was mailed to that address, and a password is reset with a code that
\* was mailed because the password of that name was forgotten.
CodesProveTheAddress ==
    \A r \in Requests :
      pc[r] = "written" =>
        \E m \in mails :
          /\ m.code = code[r]
          /\ IF call[r].op = "confirm"
             THEN m.to = call[r].email /\ call[m.code].op = "address"
             ELSE call[m.code].op = "forgot" /\ call[m.code].name = call[r].name

\* Once a confirmation was answered with success, its code is right for no later
\* one, although new codes are stored under the key and other confirmations delete
\* it in between.  Nothing is promised of a confirmation that stored the row and was
\* answered with an error, or not answered yet: its code may still be used.
SuccessSpendsTheCode ==
    [][\A r, s \in Requests :
         code[r] = NoCode /\ code'[r] /= NoCode /\ code[s] = code'[r] => pc[s] /= "done"]_vars

\* "更新用户信息成功": an edit that is answered with success has given the row
\* all that it asked for.
EditsAreStored ==
    [][\A r \in Requests :
         Asks(r, "edit", "loaded") /\ pc'[r] = "done" =>
           \E u \in users' : /\ u.id = call[r].id
                             /\ \A f \in DOMAIN call[r].change : u[f] = call[r].change[f]]_vars
=============================================================================

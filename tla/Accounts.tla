------------------------------ MODULE Accounts ----------------------------
(***************************************************************************)
(* The account routes of the KabaList API server (api/src/account.rs), the *)
(* account search (api/src/main.rs) and the administration tool            *)
(* (admin/src/main.rs), which writes invitations into the same database.   *)
(*                                                                         *)
(* As in Requests, a worker serves one request, one SQL statement at a     *)
(* time, at READ COMMITTED; the statements of different workers            *)
(* interleave.  A name stands for all its spellings in upper and lower     *)
(* case (the column is CITEXT).  A token is kept as the account it names.  *)
(***************************************************************************)
EXTENDS Integers, FiniteSets

CONSTANTS Workers,          \* requests the server has in progress at once
          Names,            \* account names
          Passwords,
          Like,             \* Like[n]: the names that n matches as a pattern of
                            \* ILIKE, where _ and % stand for other characters
          RequestSet,       \* the requests clients may send
          MaxConnections,   \* size of the sqlx pool
          Failures,         \* whether connections may fail and clients leave
          MaxAccounts,      \* bound: ids of accounts, one more than ever needed at
                            \* once when there are as many as names and workers
          MaxRegistrations, MaxRecoveries  \* bounds on what kb_admin creates

Operations == {"login", "register", "recovery_info", "recover_password",
               "get_account_name", "search_account"}

\* id is the registration, the recovery or the account of the path.
Request == [op : Operations, id : Nat \ {0}, name : Names, password : Passwords]

ASSUME NamesAssumption == Like \in [Names -> SUBSET Names] /\ \A n \in Names : n \in Like[n]
ASSUME RequestAssumption == RequestSet \subseteq Request
ASSUME BoundsAssumption ==
  /\ MaxConnections \in Nat \ {0} /\ MaxAccounts \in Nat
  /\ MaxRegistrations \in Nat /\ MaxRecoveries \in Nat
ASSUME FailureAssumption == Failures \in BOOLEAN

AccountRow == [id : Nat \ {0}, name : Names, password : Passwords]
ResetRow   == [id : Nat \ {0}, account : Nat \ {0}]

Answers == {"none", "ok", "UnknownAccount", "RegistrationDoesNotExist",
            "MissingAuthorization", "InvalidToken", "Internal"}

\* Labels of the statements a worker runs on a connection it keeps, and of
\* those that borrow one and return it at once.
Statements == {"find_registration", "insert_account", "delete_registration",
               "find_reset", "delete_reset", "update_password", "commit"}
Lookups == {"token", "begin", "select_login", "select_recovery", "select_name",
            "select_like"}
Labels == {"idle", "done"} \cup Lookups \cup Statements

VARIABLES
  accounts, registrations, resets,  \* the three tables, as committed
  tx,      \* tx[p]: account rows written, registrations and resets deleted
  pc,      \* pc[p]: the statement p runs next
  req,     \* req[p]: the request p serves
  answer,  \* answer[p]: what p answers, "none" before it is "done"
  found,   \* found[p]: the account p has selected, 0 for none
  tokens,  \* the accounts named by tokens that have not expired
  next,    \* next ids (uuids) of registrations and resets
  issued   \* auxiliary: every row password_reset ever held

tables == <<accounts, registrations, resets>>
vars == <<tables, tx, pc, req, answer, found, tokens, next, issued>>

Idle == [op |-> "idle"]
NoChange == [accounts |-> {}, registrations |-> {}, resets |-> {}]

Ids(rows) == {r.id : r \in rows}
Others(p) == Workers \ {p}

Init ==
  /\ accounts = {} /\ registrations = {} /\ resets = {}
  /\ tx = [p \in Workers |-> NoChange]
  /\ pc = [p \in Workers |-> "idle"]
  /\ req = [p \in Workers |-> Idle]
  /\ answer = [p \in Workers |-> "none"]
  /\ found = [p \in Workers |-> 0]
  /\ tokens = {}
  /\ next = [registration |-> 1, reset |-> 1]
  /\ issued = {}

---------------------------------------------------------------------------
(***************************************************************************)
(* kb_admin, on a connection of its own.                                   *)
(***************************************************************************)
NewRegistration ==
  /\ next.registration <= MaxRegistrations
  /\ registrations' = registrations \cup {next.registration}
  /\ next' = [next EXCEPT !.registration = @ + 1]
  /\ UNCHANGED <<accounts, resets, tx, pc, req, answer, found, tokens, issued>>

\* Fault: the column account of password_reset may stay NULL.
NewRecoveryOfNobody ==
  /\ next.reset <= MaxRecoveries
  /\ LET row == [id |-> next.reset, account |-> 0] IN
       resets' = resets \cup {row} /\ issued' = issued \cup {row}
  /\ next' = [next EXCEPT !.reset = @ + 1]
  /\ UNCHANGED <<accounts, registrations, tx, pc, req, answer, found, tokens>>

\* password_reset.account REFERENCES accounts: any other account is refused.
NewRecovery ==
  /\ next.reset <= MaxRecoveries
  /\ \E a \in Ids(accounts) :
       LET row == [id |-> next.reset, account |-> a] IN
       resets' = resets \cup {row} /\ issued' = issued \cup {row}
  /\ next' = [next EXCEPT !.reset = @ + 1]
  /\ UNCHANGED <<accounts, registrations, tx, pc, req, answer, found, tokens>>

---------------------------------------------------------------------------
(***************************************************************************)
(* Running SQL.                                                            *)
(***************************************************************************)
Connection == Cardinality({q \in Workers : pc[q] \in Statements}) < MaxConnections

Goto(p, label) == pc' = [pc EXCEPT ![p] = label] /\ UNCHANGED answer

\* The handler returns: its transaction, if still open, is rolled back.
Respond(p, a) == /\ pc' = [pc EXCEPT ![p] = "done"]
                 /\ answer' = [answer EXCEPT ![p] = a]
                 /\ tx' = [tx EXCEPT ![p] = NoChange]

\* pool.begin()
Begin(p, label) ==
  /\ pc[p] = "begin" /\ Connection
  /\ Goto(p, label)
  /\ UNCHANGED <<tables, tx, req, found, tokens, next, issued>>

\* A statement of an open transaction that writes.
Write(p, change, label) ==
  /\ tx' = [tx EXCEPT ![p] = change]
  /\ Goto(p, label)
  /\ UNCHANGED <<tables, req, found, tokens, issued>>

\* tx.commit(); the connection may break before its answer is known.
Commit(p) ==
  /\ pc[p] = "commit"
  /\ accounts' = {a \in accounts : a.id \notin Ids(tx[p].accounts)} \cup tx[p].accounts
  /\ registrations' = registrations \ tx[p].registrations
  /\ resets' = {r \in resets : r.id \notin tx[p].resets}
  /\ Respond(p, "ok") \/ (Failures /\ Respond(p, "Internal"))
  /\ UNCHANGED <<req, found, tokens, next, issued>>

\* fetch_one: any of the rows, or an error when there is none.
FetchOne(p, rows) ==
  /\ \/ rows = {} /\ Respond(p, "Internal") /\ UNCHANGED found
     \/ \E a \in rows : Respond(p, "ok") /\ found' = [found EXCEPT ![p] = a.id]
  /\ UNCHANGED <<tables, req, tokens, next, issued>>

---------------------------------------------------------------------------
(***************************************************************************)
(* The handlers.                                                           *)
(***************************************************************************)
\* The extractor User: a request comes with no token, with one that is not
\* valid (any more), or with a valid one.
Authenticate(p, label) ==
  /\ pc[p] = "token"
  /\ \/ Respond(p, "MissingAuthorization")
     \/ Respond(p, "InvalidToken")
     \/ tokens # {} /\ Goto(p, label) /\ UNCHANGED tx
  /\ UNCHANGED <<tables, req, found, tokens, next, issued>>

\* One SELECT; the password is compared by the database.
Login(p) ==
  /\ req[p].op = "login"
  /\ pc[p] = "select_login" /\ Connection
  /\ LET rows == {a \in accounts : a.name = req[p].name /\ a.password = req[p].password} IN
     \/ rows = {} /\ Respond(p, "UnknownAccount") /\ UNCHANGED <<found, tokens>>
     \/ \E a \in rows : /\ Respond(p, "ok")
                        /\ found' = [found EXCEPT ![p] = a.id]
                        /\ tokens' = tokens \cup {a.id}
  /\ UNCHANGED <<tables, req, next, issued>>

\* Fault: accounts.name is not UNIQUE.
NameFree(p) == TRUE

\* The unique index on accounts.name: the name is no other account's.
NameUnused(p) == \A a \in accounts : a.name # req[p].name

\* Another open transaction has written an account of that name.
NameHeld(p) == \E q \in Others(p) : \E a \in tx[q].accounts : a.name = req[p].name

FindRegistration(p) ==
  /\ IF req[p].id \in registrations THEN Goto(p, "insert_account") /\ UNCHANGED tx
     ELSE Respond(p, "RegistrationDoesNotExist")
  /\ UNCHANGED <<tables, req, found, tokens, next, issued>>

\* A uuid that no account has, committed or not.
Unused == {i \in 1 .. MaxAccounts :
             i \notin Ids(accounts) /\ \A q \in Workers : i \notin Ids(tx[q].accounts)}

InsertAccount(p) ==
  /\ ~ NameHeld(p)
  /\ \/ /\ NameUnused(p) /\ Unused # {}
        /\ Write(p, [tx[p] EXCEPT !.accounts =
                       {[id |-> CHOOSE i \in Unused : TRUE, name |-> req[p].name,
                         password |-> req[p].password]}], "delete_registration")
        /\ UNCHANGED next
     \/ /\ ~ NameUnused(p)
        /\ Respond(p, "Internal")
        /\ UNCHANGED <<tables, req, found, tokens, next, issued>>

\* DELETE FROM registrations: waits for another transaction that deletes the
\* row; when that one has committed no row is left, which is no error.
DeleteRegistration(p) ==
  /\ \A q \in Others(p) : req[p].id \notin tx[q].registrations
  /\ Write(p, [tx[p] EXCEPT !.registrations = {req[p].id} \cap registrations], "commit")
  /\ UNCHANGED next

\* Fault: the DELETE runs on the pool, ahead of the transaction.
RegisterInTwoCommits(p) ==
  /\ req[p].op = "register"
  /\ \/ Begin(p, "find_registration")
     \/ /\ pc[p] = "find_registration" /\ req[p].id \in registrations
        /\ registrations' = registrations \ {req[p].id}
        /\ Goto(p, "insert_account")
        /\ UNCHANGED <<accounts, resets, tx, req, found, tokens, next, issued>>
     \/ /\ pc[p] = "find_registration" /\ req[p].id \notin registrations
        /\ FindRegistration(p)
     \/ pc[p] = "insert_account" /\ InsertAccount(p)
     \/ pc[p] = "delete_registration" /\ DeleteRegistration(p)
     \/ Commit(p)

Register(p) ==
  /\ req[p].op = "register"
  /\ \/ Begin(p, "find_registration")
     \/ pc[p] = "find_registration" /\ FindRegistration(p)
     \/ pc[p] = "insert_account" /\ InsertAccount(p)
     \/ pc[p] = "delete_registration" /\ DeleteRegistration(p)
     \/ Commit(p)

\* SELECT accounts.name FROM password_reset, accounts WHERE ...
RecoveryInfo(p) ==
  /\ req[p].op = "recovery_info"
  /\ pc[p] = "select_recovery" /\ Connection
  /\ FetchOne(p, {a \in accounts : \E r \in resets : r.id = req[p].id /\ r.account = a.id})

\* The SELECT keeps no lock; fetch_one fails when the row is gone.
FindReset(p) ==
  LET rows == {r \in resets : r.id = req[p].id} IN
  /\ \/ rows = {} /\ Respond(p, "Internal") /\ UNCHANGED found
     \/ \E r \in rows : /\ Goto(p, "delete_reset") /\ UNCHANGED tx
                        /\ found' = [found EXCEPT ![p] = r.account]
  /\ UNCHANGED <<tables, req, tokens, next, issued>>

DeleteReset(p) ==
  /\ \A q \in Others(p) : req[p].id \notin tx[q].resets
  /\ Write(p, [tx[p] EXCEPT !.resets = {req[p].id} \cap Ids(resets)], "update_password")
  /\ UNCHANGED next

\* Fault: UPDATE accounts without the WHERE.
PasswordOfAll(p) ==
  {[a EXCEPT !.password = req[p].password] : a \in accounts}

\* UPDATE accounts SET password = ... WHERE id = $1, on the newest version.
NewPassword(p) ==
  {[a EXCEPT !.password = req[p].password] : a \in {b \in accounts : b.id = found[p]}}

UpdatePassword(p) ==
  /\ \A q \in Others(p) : found[p] \notin Ids(tx[q].accounts)
  /\ Write(p, [tx[p] EXCEPT !.accounts = NewPassword(p)], "commit")
  /\ UNCHANGED next

\* Fault: the first DELETE runs on the pool, and commits by itself.
RecoverInTwoCommits(p) ==
  /\ req[p].op = "recover_password"
  /\ \/ Begin(p, "find_reset")
     \/ pc[p] = "find_reset" /\ FindReset(p)
     \/ /\ pc[p] = "delete_reset"
        /\ resets' = {r \in resets : r.id # req[p].id}
        /\ Goto(p, "update_password")
        /\ UNCHANGED <<accounts, registrations, tx, req, found, tokens, next, issued>>
     \/ pc[p] = "update_password" /\ UpdatePassword(p)
     \/ Commit(p)

RecoverPassword(p) ==
  /\ req[p].op = "recover_password"
  /\ \/ Begin(p, "find_reset")
     \/ pc[p] = "find_reset" /\ FindReset(p)
     \/ pc[p] = "delete_reset" /\ DeleteReset(p)
     \/ pc[p] = "update_password" /\ UpdatePassword(p)
     \/ Commit(p)

GetAccountName(p) ==
  /\ req[p].op = "get_account_name"
  /\ \/ Authenticate(p, "select_name")
     \/ /\ pc[p] = "select_name" /\ Connection
        /\ FetchOne(p, {a \in accounts : a.id = req[p].id})

\* WHERE name ILIKE $1: the name is taken as a pattern.
SearchAccount(p) ==
  /\ req[p].op = "search_account"
  /\ \/ Authenticate(p, "select_like")
     \/ /\ pc[p] = "select_like" /\ Connection
        /\ FetchOne(p, {a \in accounts : a.name \in Like[req[p].name]})

---------------------------------------------------------------------------
(***************************************************************************)
(* Requests come and go; connections, clients and the server fail.         *)
(***************************************************************************)
First(op) == CASE op = "login"         -> "select_login"
               [] op = "recovery_info" -> "select_recovery"
               [] op \in {"register", "recover_password"} -> "begin"
               [] OTHER                -> "token"

Arrive(p) ==
  /\ pc[p] = "idle"
  /\ \E r \in RequestSet : /\ req' = [req EXCEPT ![p] = r]
                           /\ pc' = [pc EXCEPT ![p] = First(r.op)]
  /\ UNCHANGED <<tables, tx, answer, found, tokens, next, issued>>

\* The workers S are free again; their open transactions are rolled back.
Leave(S) ==
  /\ pc' = [p \in Workers |-> IF p \in S THEN "idle" ELSE pc[p]]
  /\ req' = [p \in Workers |-> IF p \in S THEN Idle ELSE req[p]]
  /\ answer' = [p \in Workers |-> IF p \in S THEN "none" ELSE answer[p]]
  /\ found' = [p \in Workers |-> IF p \in S THEN 0 ELSE found[p]]
  /\ tx' = [p \in Workers |-> IF p \in S THEN NoChange ELSE tx[p]]
  /\ UNCHANGED <<tables, tokens, next, issued>>

Deliver(p) == pc[p] = "done" /\ Leave({p})

\* The client goes away and axum drops the handler at an await point.
Cancel(p) == Failures /\ pc[p] \notin {"idle", "done"} /\ Leave({p})

\* The server is stopped and started.  The key of the tokens is part of its
\* configuration, so that they go on being valid.
Restart == Failures /\ Leave(Workers)

\* The exp of a token is over.
Expire == \E a \in tokens : /\ tokens' = tokens \ {a}
                            /\ UNCHANGED <<tables, tx, pc, req, answer, found, next, issued>>

\* sqlx returns an error: the connection broke, or the pool had none in time.
Fail(p) ==
  /\ Failures /\ pc[p] \notin {"idle", "done", "token"}
  /\ Respond(p, "Internal")
  /\ UNCHANGED <<tables, req, found, tokens, next, issued>>

Handle(p) == Login(p) \/ Register(p) \/ RecoveryInfo(p) \/ RecoverPassword(p)
               \/ GetAccountName(p) \/ SearchAccount(p)

Serve(p) == Handle(p) \/ Deliver(p)

Next == \/ NewRegistration \/ NewRecovery \/ Expire \/ Restart
        \/ \E p \in Workers : Arrive(p) \/ Serve(p) \/ Cancel(p) \/ Fail(p)

Spec == Init /\ [][Next]_vars

---------------------------------------------------------------------------
(***************************************************************************)
(* Properties.                                                             *)
(***************************************************************************)
Change == [accounts : SUBSET AccountRow, registrations : SUBSET Nat, resets : SUBSET Nat]

TypeOK ==
  /\ accounts \subseteq AccountRow
  /\ registrations \subseteq Nat
  /\ resets \subseteq ResetRow /\ issued \subseteq ResetRow
  /\ tx \in [Workers -> Change]
  /\ pc \in [Workers -> Labels]
  /\ req \in [Workers -> RequestSet \cup {Idle}]
  /\ answer \in [Workers -> Answers]
  /\ found \in [Workers -> Nat]
  /\ tokens \subseteq Nat
  /\ next \in [registration : Nat \ {0}, reset : Nat \ {0}]

\* A name logs in to one account only, and a token names one that exists,
\* however many registrations with that name overlap.
OneAccountPerName ==
  /\ \A a, b \in accounts : a.name = b.name \/ a.id = b.id => a = b
  /\ tokens \subseteq Ids(accounts)

\* Invitations are not lost: a registration goes away only when, in the same
\* step, the account it was used for appears, with the name and the password of
\* the request; a name that is taken, a broken connection or a restart in the
\* middle of register leaves it for another try.
InvitationsBecomeAccounts ==
  [][\A i \in registrations \ registrations' :
       \E p \in Workers : \E a \in accounts' \ accounts :
         /\ req[p].op = "register" /\ req[p].id = i
         /\ a.name = req[p].name /\ a.password = req[p].password]_vars

\* Recoveries are not lost: one goes away only when its account gets the
\* password of the request in the same step.
RecoveriesBecomePasswords ==
  [][\A r \in resets \ resets' :
       \E p \in Workers : \E a \in accounts' :
         /\ req[p].op = "recover_password" /\ req[p].id = r.id
         /\ a.id = r.account /\ a.password = req[p].password]_vars

\* The password of an account changes only by a recovery that was issued for
\* that very account, to what its request says; no account goes away and none
\* changes its name.
PasswordsChangeByRecovery ==
  [][\A a \in accounts : a \in accounts' \/
       \E p \in Workers :
         /\ req[p].op = "recover_password"
         /\ [id |-> req[p].id, account |-> a.id] \in issued
         /\ [a EXCEPT !.password = req[p].password] \in accounts']_vars

\* "By default no users are available, and no registration is possible": as
\* many accounts as invitations were used.
AccountsAreInvited ==
  Cardinality(accounts) + Cardinality(registrations) <= next.registration - 1
===========================================================================

--------------------------- MODULE AccountsProofs ---------------------------
(***************************************************************************)
(* What the account routes keep true of any number of requests, names and  *)
(* accounts: types, one account for a name, and what becomes of            *)
(* registrations, recoveries and passwords.                                *)
(***************************************************************************)
EXTENDS Accounts, TLAPS

\* The account rows that p has written and not yet committed.
Rows(p) == tx[p].accounts

\* Names and ids tell accounts apart, the uncommitted ones too: an account that
\* is being changed is itself, one that is being made is nobody's, and no two
\* transactions write one account.
Apart ==
  /\ \A a, b \in accounts : a.name = b.name \/ a.id = b.id => a = b
  /\ \A p \in Workers : \A b \in Rows(p) :
       /\ \A a \in accounts : a.name = b.name <=> a.id = b.id
       /\ \A c \in Rows(p) : c = b
       /\ \A q \in Workers \ {p} : \A c \in Rows(q) : c.name # b.name /\ c.id # b.id

Recovery(p) == [id |-> req[p].id, account |-> found[p]]

\* What a transaction of register or of recover_password has done at each of
\* its statements.
Shape(p) ==
  /\ pc[p] \notin {"delete_registration", "commit"} => Rows(p) = {}
  /\ pc[p] \notin {"update_password", "commit"} =>
       tx[p].registrations = {} /\ tx[p].resets = {}
  /\ req[p].op = "register" =>
       /\ tx[p].resets = {} /\ tx[p].registrations \subseteq {req[p].id}
       /\ \A b \in Rows(p) : b.id \notin Ids(accounts)
       /\ pc[p] \in {"delete_registration", "commit"} =>
            \E b \in Rows(p) : b.name = req[p].name /\ b.password = req[p].password
  /\ req[p].op = "recover_password" =>
       /\ tx[p].registrations = {} /\ tx[p].resets \subseteq {req[p].id}
       /\ \A b \in Rows(p) : \E a \in accounts :
            a.id = found[p] /\ b = [a EXCEPT !.password = req[p].password]
       /\ pc[p] \in {"delete_reset", "update_password", "commit"} => Recovery(p) \in issued
       /\ pc[p] = "commit" => Rows(p) # {}

\* A recovery names one account, which there is, for ever.
IssuedOnce ==
  /\ resets \subseteq issued
  /\ \A r \in issued : r.id < next.reset /\ r.account \in Ids(accounts)
  /\ \A r, s \in issued : r.id = s.id => r = s

AccountsInv ==
  /\ TypeOK /\ Apart /\ IssuedOnce
  /\ tokens \subseteq Ids(accounts)
  /\ \A p \in Workers : Shape(p)

---------------------------------------------------------------------------
(***************************************************************************)
(* Types.                                                                  *)
(***************************************************************************)
\* A worker that serves has a request.
LEMMA ReqType ==
  ASSUME TypeOK, NEW p \in Workers, req[p].op \in Operations
  PROVE  req[p] \in Request
  <1>1. req[p] \in RequestSet \cup {Idle}
    BY DEF TypeOK
  <1>2. req[p] # Idle
    BY DEF Idle, Operations
  <1> QED
    BY <1>1, <1>2, RequestAssumption

\* What the generic steps of a handler do to types.
LEMMA RespondType ==
  ASSUME TypeOK, NEW p \in Workers, NEW a \in Answers, Respond(p, a)
  PROVE  pc' \in [Workers -> Labels] /\ answer' \in [Workers -> Answers]
           /\ tx' \in [Workers -> Change]
  <1>1. NoChange \in Change /\ "done" \in Labels
    BY DEF NoChange, Change, Labels
  <1> QED
    BY <1>1 DEF TypeOK, Respond

LEMMA GotoType ==
  ASSUME TypeOK, NEW p \in Workers, NEW label \in Labels, Goto(p, label)
  PROVE  pc' \in [Workers -> Labels] /\ answer' \in [Workers -> Answers]
  BY DEF TypeOK, Goto

LEMMA WriteType ==
  ASSUME TypeOK, NEW p \in Workers, NEW label \in Labels, NEW change \in Change,
         Write(p, change, label), UNCHANGED next
  PROVE  TypeOK'
  BY GotoType DEF TypeOK, Write, tables

LEMMA FetchOneType ==
  ASSUME TypeOK, NEW p \in Workers, NEW rows, rows \subseteq AccountRow, FetchOne(p, rows)
  PROVE  TypeOK'
  <1>1. PICK x \in Answers : Respond(p, x)
    BY DEF FetchOne, Answers
  <1>2. found' \in [Workers -> Nat]
    <2>1. CASE UNCHANGED found
      BY <2>1 DEF TypeOK
    <2>2. CASE \E a \in rows : found' = [found EXCEPT ![p] = a.id]
      BY <2>2 DEF TypeOK, AccountRow
    <2> QED
      BY <2>1, <2>2 DEF FetchOne
  <1> QED
    BY <1>1, <1>2, RespondType DEF TypeOK, FetchOne, tables

\* The handlers keep types.
LEMMA RegisterType ==
  ASSUME TypeOK, NEW p \in Workers, Register(p)
  PROVE  TypeOK'
  <1>1. req[p] \in Request /\ tx[p] \in Change
    BY ReqType DEF TypeOK, Register, Operations
  <1>2. {"find_registration", "insert_account", "delete_registration", "commit"} \subseteq Labels
    BY DEF Labels, Statements
  <1>3. {"ok", "Internal", "RegistrationDoesNotExist"} \subseteq Answers
    BY DEF Answers
  <1>4. CASE Begin(p, "find_registration")
    BY <1>2, <1>4, GotoType DEF TypeOK, Begin, tables
  <1>5. CASE FindRegistration(p)
    <2>1. pc' \in [Workers -> Labels] /\ answer' \in [Workers -> Answers] /\ tx' \in [Workers -> Change]
      BY <1>2, <1>3, <1>5, GotoType, RespondType DEF FindRegistration, TypeOK
    <2> QED
      BY <2>1, <1>5 DEF TypeOK, FindRegistration, tables
  <1>6. CASE InsertAccount(p)
    <2>1. CASE Respond(p, "Internal") /\ UNCHANGED <<tables, req, found, tokens, next, issued>>
      BY <1>3, <2>1, RespondType DEF TypeOK, tables
    <2>2. CASE Unused # {} /\ UNCHANGED next /\
               Write(p, [tx[p] EXCEPT !.accounts =
                       {[id |-> CHOOSE i \in Unused : TRUE, name |-> req[p].name,
                         password |-> req[p].password]}], "delete_registration")
      <3>1. (CHOOSE i \in Unused : TRUE) \in Nat \ {0}
        BY <2>2, BoundsAssumption DEF Unused
      <3>2. [id |-> CHOOSE i \in Unused : TRUE, name |-> req[p].name,
             password |-> req[p].password] \in AccountRow
        BY <1>1, <3>1 DEF Request, AccountRow
      <3>3. [tx[p] EXCEPT !.accounts =
                       {[id |-> CHOOSE i \in Unused : TRUE, name |-> req[p].name,
                         password |-> req[p].password]}] \in Change
        BY <1>1, <3>2 DEF Change
      <3> QED
        BY <1>2, <2>2, <3>3, WriteType
    <2> QED
      BY <1>6, <2>1, <2>2 DEF InsertAccount
  <1>7. CASE DeleteRegistration(p)
    <2>1. [tx[p] EXCEPT !.registrations = {req[p].id} \cap registrations] \in Change
      BY <1>1 DEF Change, TypeOK
    <2> QED
      BY <1>2, <1>7, <2>1, WriteType DEF DeleteRegistration
  <1>8. CASE Commit(p)
    BY <1>1, <1>3, <1>8, RespondType DEF TypeOK, Commit, Change
  <1> QED
    BY <1>4, <1>5, <1>6, <1>7, <1>8 DEF Register

LEMMA RecoverPasswordType ==
  ASSUME TypeOK, NEW p \in Workers, RecoverPassword(p)
  PROVE  TypeOK'
  <1>1. req[p] \in Request /\ tx[p] \in Change
    BY ReqType DEF TypeOK, RecoverPassword, Operations
  <1>2. {"find_reset", "delete_reset", "update_password", "commit"} \subseteq Labels
    BY DEF Labels, Statements
  <1>3. {"ok", "Internal"} \subseteq Answers
    BY DEF Answers
  <1>4. CASE Begin(p, "find_reset")
    BY <1>2, <1>4, GotoType DEF TypeOK, Begin, tables
  <1>5. CASE FindReset(p)
    <2>1. pc' \in [Workers -> Labels] /\ answer' \in [Workers -> Answers] /\ tx' \in [Workers -> Change]
      BY <1>2, <1>3, <1>5, GotoType, RespondType DEF FindReset, TypeOK
    <2>2. found' \in [Workers -> Nat]
      BY <1>5 DEF FindReset, TypeOK, ResetRow
    <2> QED
      BY <2>1, <2>2, <1>5 DEF TypeOK, FindReset, tables
  <1>6. CASE DeleteReset(p)
    <2>1. {req[p].id} \cap Ids(resets) \subseteq Nat
      BY <1>1 DEF Request
    <2>2. [tx[p] EXCEPT !.resets = {req[p].id} \cap Ids(resets)] \in Change
      BY <1>1, <2>1 DEF Change
    <2> QED
      BY <1>2, <1>6, <2>2, WriteType DEF DeleteReset
  <1>7. CASE UpdatePassword(p)
    <2>1. NewPassword(p) \subseteq AccountRow
      BY <1>1 DEF NewPassword, TypeOK, AccountRow, Request
    <2>2. [tx[p] EXCEPT !.accounts = NewPassword(p)] \in Change
      BY <1>1, <2>1 DEF Change
    <2> QED
      BY <1>2, <1>7, <2>2, WriteType DEF UpdatePassword
  <1>8. CASE Commit(p)
    BY <1>1, <1>3, <1>8, RespondType DEF TypeOK, Commit, Change
  <1> QED
    BY <1>4, <1>5, <1>6, <1>7, <1>8 DEF RecoverPassword

LEMMA AuthenticateType ==
  ASSUME TypeOK, NEW p \in Workers, NEW label \in Labels, Authenticate(p, label)
  PROVE  TypeOK'
  <1>1. {"MissingAuthorization", "InvalidToken"} \subseteq Answers
    BY DEF Answers
  <1>2. pc' \in [Workers -> Labels] /\ answer' \in [Workers -> Answers] /\ tx' \in [Workers -> Change]
    BY <1>1, RespondType, GotoType DEF Authenticate, TypeOK
  <1> QED
    BY <1>2 DEF TypeOK, Authenticate, tables

LEMMA LoginType ==
  ASSUME TypeOK, NEW p \in Workers, Login(p)
  PROVE  TypeOK'
  <1>1. PICK a \in Answers : Respond(p, a)
    BY DEF Login, Answers
  <1>2. found' \in [Workers -> Nat] /\ tokens' \subseteq Nat
    BY DEF Login, TypeOK, AccountRow
  <1> QED
    BY <1>1, <1>2, RespondType DEF TypeOK, Login, tables

LEMMA HandleType ==
  ASSUME TypeOK, NEW p \in Workers, Handle(p)
  PROVE  TypeOK'
  <1>1. {"select_name", "select_like"} \subseteq Labels
    BY DEF Labels, Lookups
  <1>2. CASE RecoveryInfo(p)
    <2>1. {a \in accounts : \E r \in resets : r.id = req[p].id /\ r.account = a.id} \subseteq AccountRow
      BY DEF TypeOK
    <2> QED
      BY <1>2, <2>1, FetchOneType DEF RecoveryInfo
  <1>3. CASE GetAccountName(p)
    <2>1. {a \in accounts : a.id = req[p].id} \subseteq AccountRow
      BY DEF TypeOK
    <2> QED
      BY <1>1, <1>3, <2>1, FetchOneType, AuthenticateType DEF GetAccountName
  <1>4. CASE SearchAccount(p)
    <2>1. {a \in accounts : a.name \in Like[req[p].name]} \subseteq AccountRow
      BY DEF TypeOK
    <2> QED
      BY <1>1, <1>4, <2>1, FetchOneType, AuthenticateType DEF SearchAccount
  <1> QED
    BY <1>2, <1>3, <1>4, LoginType, RegisterType, RecoverPasswordType DEF Handle

LEMMA LeaveType ==
  ASSUME TypeOK, NEW S, Leave(S)
  PROVE  TypeOK'
  <1>1. NoChange \in Change /\ "idle" \in Labels /\ "none" \in Answers /\ 0 \in Nat
    BY DEF NoChange, Change, Labels, Answers
  <1> QED
    BY <1>1 DEF TypeOK, Leave, tables

LEMMA AdminType ==
  ASSUME TypeOK, NewRegistration \/ NewRecovery \/ Expire
  PROVE  TypeOK'
  <1>1. CASE NewRegistration
    BY <1>1 DEF TypeOK, NewRegistration
  <1>2. CASE NewRecovery
    <2>1. PICK a \in Ids(accounts) :
            LET row == [id |-> next.reset, account |-> a] IN
            resets' = resets \cup {row} /\ issued' = issued \cup {row}
      BY <1>2 DEF NewRecovery
    <2>2. [id |-> next.reset, account |-> a] \in ResetRow
      BY DEF TypeOK, ResetRow, Ids, AccountRow
    <2> QED
      BY <1>2, <2>1, <2>2 DEF TypeOK, NewRecovery
  <1>3. CASE Expire
    BY <1>3 DEF TypeOK, Expire, tables
  <1> QED
    BY <1>1, <1>2, <1>3

LEMMA TypeNext ==
  ASSUME TypeOK, [Next]_vars
  PROVE  TypeOK'
  <1>1. CASE NewRegistration \/ NewRecovery \/ Expire
    BY <1>1, AdminType
  <1>2. CASE Restart
    BY <1>2, LeaveType DEF Restart
  <1>3. ASSUME NEW p \in Workers, Arrive(p) PROVE TypeOK'
    <2>1. PICK r \in RequestSet : req' = [req EXCEPT ![p] = r] /\ pc' = [pc EXCEPT ![p] = First(r.op)]
      BY <1>3 DEF Arrive
    <2>2. r.op \in Operations
      BY RequestAssumption DEF Request
    <2>3. First(r.op) \in Labels
      BY <2>2 DEF First, Labels, Lookups, Operations
    <2> QED
      BY <1>3, <2>1, <2>3 DEF TypeOK, Arrive, tables
  <1>4. ASSUME NEW p \in Workers, Serve(p) \/ Cancel(p) PROVE TypeOK'
    BY <1>4, HandleType, LeaveType DEF Serve, Deliver, Cancel
  <1>5. ASSUME NEW p \in Workers, Fail(p) PROVE TypeOK'
    <2>1. "Internal" \in Answers
      BY DEF Answers
    <2> QED
      BY <1>5, <2>1, RespondType DEF TypeOK, Fail, tables
  <1>6. CASE UNCHANGED vars
    BY <1>6 DEF TypeOK, vars, tables
  <1> QED
    BY <1>1, <1>2, <1>3, <1>4, <1>5, <1>6 DEF Next

LEMMA TypeInit == Init => TypeOK
  BY DEF Init, TypeOK, NoChange, Change, Labels, Answers, Idle

\* Every value keeps its type: no recovery is of nobody, no account without a
\* name or a password (the columns of accounts and password_reset).
THEOREM TypeCorrect == Spec => []TypeOK
  <1> QED
    BY TypeInit, TypeNext, PTL DEF Spec

---------------------------------------------------------------------------
(***************************************************************************)
(* AccountsInv is inductive.  First what does not depend on the step.      *)
(***************************************************************************)
\* A step of p: nothing of the other workers changes.
Own(p) == \A q \in Workers \ {p} :
            pc'[q] = pc[q] /\ req'[q] = req[q] /\ tx'[q] = tx[q] /\ found'[q] = found[q]

LEMMA ShapeKept ==
  ASSUME NEW q \in Workers, Shape(q), pc'[q] = pc[q], req'[q] = req[q], tx'[q] = tx[q],
         found'[q] = found[q], UNCHANGED accounts, issued \subseteq issued'
  PROVE  Shape(q)'
  BY DEF Shape, Rows, Recovery

\* Without a transaction, or after it.
LEMMA ShapeOutside ==
  ASSUME NEW p \in Workers, tx'[p] = NoChange,
         pc'[p] \notin {"delete_registration", "delete_reset", "update_password", "commit"}
  PROVE  Shape(p)'
  BY DEF Shape, Rows, Recovery, NoChange

LEMMA ApartKept ==
  ASSUME Apart, UNCHANGED accounts, \A q \in Workers : Rows(q)' \subseteq Rows(q)
  PROVE  Apart'
  BY DEF Apart

LEMMA IssuedKept ==
  ASSUME IssuedOnce, Ids(accounts) \subseteq Ids(accounts)', UNCHANGED issued,
         next'.reset = next.reset, resets' \subseteq resets
  PROVE  IssuedOnce'
  BY DEF IssuedOnce

\* Most steps write no account: what is left to show is the Shape of the worker.
LEMMA OwnStep ==
  ASSUME AccountsInv, TypeOK', NEW p \in Workers, Own(p), UNCHANGED <<accounts, issued>>,
         next'.reset = next.reset, resets' \subseteq resets, tokens' \subseteq Ids(accounts),
         Rows(p)' \subseteq Rows(p), Shape(p)'
  PROVE  AccountsInv'
  <1>1. \A q \in Workers : Rows(q)' \subseteq Rows(q)
    BY DEF Own, Rows
  <1>2. Apart'
    BY <1>1, ApartKept DEF AccountsInv
  <1>3. IssuedOnce'
    BY IssuedKept DEF AccountsInv, Ids
  <1>4. \A q \in Workers \ {p} : Shape(q)'
    BY ShapeKept DEF Own, AccountsInv
  <1> QED
    BY <1>2, <1>3, <1>4 DEF AccountsInv, Ids

\* A handler that returns without having committed.
LEMMA ResponseStep ==
  ASSUME AccountsInv, TypeOK', NEW p \in Workers, NEW a, Respond(p, a),
         UNCHANGED <<tables, req, next, issued>>, tokens' \subseteq Ids(accounts),
         \A q \in Workers \ {p} : found'[q] = found[q]
  PROVE  AccountsInv'
  <1>1. tx'[p] = NoChange /\ pc'[p] = "done"
    BY DEF Respond, AccountsInv, TypeOK
  <1>2. Own(p)
    BY DEF Own, Respond, AccountsInv, TypeOK
  <1>3. Shape(p)'
    BY <1>1, ShapeOutside
  <1>4. Rows(p)' \subseteq Rows(p)
    BY <1>1 DEF Rows, NoChange
  <1> QED
    BY <1>2, <1>3, <1>4, OwnStep DEF tables

\* A statement before the transaction has written anything.
LEMMA ReadStep ==
  ASSUME AccountsInv, TypeOK', NEW p \in Workers, NEW label, Goto(p, label), tx[p] = NoChange,
         label \notin {"delete_registration", "delete_reset", "update_password", "commit"},
         UNCHANGED <<tables, req, tx, found, tokens, next, issued>>
  PROVE  AccountsInv'
  <1>1. Own(p)
    BY DEF Own, Goto, AccountsInv, TypeOK
  <1>2. Shape(p)'
    BY ShapeOutside DEF Goto, AccountsInv, TypeOK
  <1> QED
    BY <1>1, <1>2, OwnStep DEF tables, Rows, AccountsInv

LEMMA NothingWritten ==
  ASSUME AccountsInv, NEW p \in Workers,
         pc[p] \notin {"delete_registration", "update_password", "commit"}
  PROVE  tx[p] = NoChange
  <1>1. tx[p] \in Change
    BY DEF AccountsInv, TypeOK
  <1>2. tx[p].accounts = {} /\ tx[p].registrations = {} /\ tx[p].resets = {}
    BY DEF AccountsInv, Shape, Rows
  <1> QED
    BY <1>1, <1>2 DEF NoChange, Change

---------------------------------------------------------------------------
(***************************************************************************)
(* The statements that write.                                              *)
(***************************************************************************)
LEMMA InsertAccountStep ==
  ASSUME AccountsInv, TypeOK', NEW p \in Workers, req[p].op = "register",
         pc[p] = "insert_account", InsertAccount(p)
  PROVE  AccountsInv'
  <1>1. CASE Respond(p, "Internal") /\ UNCHANGED <<tables, req, found, tokens, next, issued>>
    BY <1>1, ResponseStep DEF AccountsInv
  <1>2. CASE /\ NameUnused(p) /\ Unused # {} /\ UNCHANGED next
             /\ Write(p, [tx[p] EXCEPT !.accounts =
                       {[id |-> CHOOSE i \in Unused : TRUE, name |-> req[p].name,
                         password |-> req[p].password]}], "delete_registration")
    <2> DEFINE new == CHOOSE i \in Unused : TRUE
    <2> DEFINE b == [id |-> new, name |-> req[p].name, password |-> req[p].password]
    <2>1. new \in Unused
      BY <1>2
    <2>2. new \notin Ids(accounts) /\ \A q \in Workers : new \notin Ids(tx[q].accounts)
      BY <2>1 DEF Unused
    <2> HIDE DEF new
    <2>3. tx[p] = NoChange /\ tx[p] \in Change
      BY NothingWritten DEF AccountsInv, TypeOK
    <2>4. /\ tx'[p].accounts = {b} /\ tx'[p].registrations = {} /\ tx'[p].resets = {}
          /\ pc'[p] = "delete_registration"
      BY <1>2, <2>3 DEF Write, Goto, AccountsInv, TypeOK, NoChange, new
    <2>5. Own(p) /\ UNCHANGED <<accounts, resets, req, found, tokens, next, issued>>
      BY <1>2 DEF Own, Write, Goto, AccountsInv, TypeOK, tables
    <2>6. Shape(p)'
      BY <2>2, <2>4, <2>5 DEF Shape, Rows, Ids
    <2>7. \A q \in Workers \ {p} : Shape(q)'
      BY <2>5, ShapeKept DEF Own, AccountsInv
    <2>8. \A q \in Workers \ {p} : \A c \in Rows(q) : c.name # b.name /\ c.id # b.id
      BY <2>2 DEF InsertAccount, Rows, Ids, NameHeld, Others
    <2>9. \A a \in accounts : a.name # b.name /\ a.id # b.id
      BY <1>2, <2>2 DEF NameUnused, Ids
    <2>10. Apart'
      <3>1. Rows(p)' = {b} /\ \A q \in Workers \ {p} : Rows(q)' = Rows(q)
        BY <2>4, <2>5 DEF Rows, Own
      <3> QED
        BY <2>5, <2>8, <2>9, <3>1 DEF Apart, AccountsInv
    <2> QED
      BY <2>5, <2>6, <2>7, <2>10 DEF AccountsInv, IssuedOnce, Ids
  <1> QED
    BY <1>1, <1>2 DEF InsertAccount

LEMMA DeleteRegistrationStep ==
  ASSUME AccountsInv, TypeOK', NEW p \in Workers, req[p].op = "register",
         pc[p] = "delete_registration", DeleteRegistration(p)
  PROVE  AccountsInv'
  <1>1. tx[p] \in Change /\ Shape(p)
    BY DEF AccountsInv, TypeOK
  <1>2. /\ tx'[p].accounts = tx[p].accounts /\ tx'[p].resets = tx[p].resets
        /\ tx'[p].registrations \subseteq {req[p].id} /\ pc'[p] = "commit"
    BY <1>1 DEF DeleteRegistration, Write, Goto, AccountsInv, TypeOK, Change
  <1>3. Own(p) /\ UNCHANGED <<tables, req, found, tokens, next, issued>>
    BY DEF Own, DeleteRegistration, Write, Goto, AccountsInv, TypeOK, tables
  <1>4. Shape(p)'
    BY <1>1, <1>2, <1>3 DEF Shape, Rows, tables, Ids
  <1> QED
    BY <1>2, <1>3, <1>4, OwnStep DEF tables, Rows, AccountsInv

LEMMA FindResetStep ==
  ASSUME AccountsInv, TypeOK', NEW p \in Workers, req[p].op = "recover_password",
         pc[p] = "find_reset", FindReset(p)
  PROVE  AccountsInv'
  <1>1. CASE Respond(p, "Internal") /\ UNCHANGED found
    BY <1>1, ResponseStep DEF FindReset, AccountsInv, tables
  <1>2. ASSUME NEW r \in resets, r.id = req[p].id, Goto(p, "delete_reset"), UNCHANGED tx,
               found' = [found EXCEPT ![p] = r.account]
        PROVE  AccountsInv'
    <2>1. tx[p] = NoChange
      BY NothingWritten
    <2>2. /\ Own(p) /\ UNCHANGED <<tables, req, tx, tokens, next, issued>>
          /\ pc'[p] = "delete_reset" /\ found'[p] = r.account
      BY <1>2 DEF Own, FindReset, Goto, AccountsInv, TypeOK, tables
    <2>3. r = [id |-> req[p].id, account |-> r.account]
      BY <1>2 DEF AccountsInv, TypeOK, ResetRow
    <2>4. Recovery(p)' \in issued'
      BY <2>2, <2>3 DEF Recovery, AccountsInv, IssuedOnce
    <2>5. Shape(p)'
      BY <2>1, <2>2, <2>4 DEF Shape, Rows, NoChange
    <2> QED
      BY <2>2, <2>5, OwnStep DEF tables, Rows, AccountsInv
  <1> QED
    BY <1>1, <1>2 DEF FindReset

LEMMA DeleteResetStep ==
  ASSUME AccountsInv, TypeOK', NEW p \in Workers, req[p].op = "recover_password",
         pc[p] = "delete_reset", DeleteReset(p)
  PROVE  AccountsInv'
  <1>1. tx[p] \in Change /\ tx[p] = NoChange /\ Shape(p)
    BY NothingWritten DEF AccountsInv, TypeOK
  <1>2. /\ tx'[p].accounts = {} /\ tx'[p].registrations = {}
        /\ tx'[p].resets \subseteq {req[p].id} /\ pc'[p] = "update_password"
    BY <1>1 DEF DeleteReset, Write, Goto, AccountsInv, TypeOK, NoChange
  <1>3. Own(p) /\ UNCHANGED <<tables, req, found, tokens, next, issued>>
    BY DEF Own, DeleteReset, Write, Goto, AccountsInv, TypeOK, tables
  <1>4. Shape(p)'
    BY <1>1, <1>2, <1>3 DEF Shape, Rows, Recovery
  <1> QED
    BY <1>2, <1>3, <1>4, OwnStep DEF tables, Rows, AccountsInv

LEMMA UpdatePasswordStep ==
  ASSUME AccountsInv, TypeOK', NEW p \in Workers, req[p].op = "recover_password",
         pc[p] = "update_password", UpdatePassword(p)
  PROVE  AccountsInv'
  <1>1. tx[p] \in Change /\ Shape(p)
    BY DEF AccountsInv, TypeOK
  <1>2. /\ Rows(p)' = NewPassword(p) /\ tx'[p].registrations = tx[p].registrations
        /\ tx'[p].resets = tx[p].resets /\ pc'[p] = "commit"
    BY <1>1 DEF UpdatePassword, Write, Goto, AccountsInv, TypeOK, Change, Rows
  <1>3. Own(p) /\ UNCHANGED <<tables, req, found, tokens, next, issued>>
    BY DEF Own, UpdatePassword, Write, Goto, AccountsInv, TypeOK, tables
  <1>4. \A b \in NewPassword(p) : \E a \in accounts :
          a.id = found[p] /\ b = [a EXCEPT !.password = req[p].password]
    BY DEF NewPassword
  <1>5. NewPassword(p) # {}
    <2>1. Recovery(p) \in issued
      BY <1>1 DEF Shape
    <2>2. found[p] \in Ids(accounts)
      BY <2>1 DEF AccountsInv, IssuedOnce, Recovery
    <2> QED
      BY <2>2 DEF NewPassword, Ids
  <1>6. Shape(p)'
    BY <1>1, <1>2, <1>3, <1>4, <1>5 DEF Shape, Recovery, tables
  <1>7. \A q \in Workers \ {p} : Shape(q)'
    BY <1>3, ShapeKept DEF Own, AccountsInv, tables
  <1>8. Apart'
    <2>1. \A q \in Workers \ {p} : Rows(q)' = Rows(q) /\ \A c \in Rows(q) : c.id # found[p]
      BY <1>3 DEF Own, Rows, UpdatePassword, Others, Ids
    <2>2. \A b \in NewPassword(p) : \E a \in accounts :
            a.id = found[p] /\ b.id = a.id /\ b.name = a.name
      BY <1>4 DEF AccountsInv, TypeOK, AccountRow
    <2>3. \A b, c \in NewPassword(p) : b = c
      BY <1>4 DEF AccountsInv, Apart
    <2>4. \A q \in Workers \ {p} : \A c \in Rows(q) : \A b \in NewPassword(p) :
            c.name # b.name /\ c.id # b.id
      BY <2>1, <2>2 DEF AccountsInv, Apart
    <2>5. \A b \in NewPassword(p) : \A a \in accounts : a.name = b.name <=> a.id = b.id
      BY <2>2 DEF AccountsInv, Apart
    <2> QED
      BY <1>2, <1>3, <2>1, <2>3, <2>4, <2>5 DEF AccountsInv, Apart, tables
  <1> QED
    BY <1>3, <1>6, <1>7, <1>8 DEF AccountsInv, IssuedOnce, Ids, tables

LEMMA CommitStep ==
  ASSUME AccountsInv, TypeOK', NEW p \in Workers, req[p].op \in {"register", "recover_password"},
         Commit(p)
  PROVE  AccountsInv'
  <1>1. /\ tx'[p] = NoChange /\ pc'[p] = "done" /\ Own(p)
        /\ UNCHANGED <<req, found, tokens, next, issued>>
    BY DEF Commit, Respond, Own, AccountsInv, TypeOK
  <1>2. accounts' = {a \in accounts : a.id \notin Ids(Rows(p))} \cup Rows(p)
    BY DEF Commit, Rows
  <1>3. resets' \subseteq resets
    BY DEF Commit
  <1>4. Ids(accounts) \subseteq Ids(accounts)' /\ Ids(accounts)' \subseteq Ids(accounts) \cup Ids(Rows(p))
    BY <1>2 DEF Ids
  <1>5. \A q \in Workers \ {p} : Rows(q)' = Rows(q) /\ \A c \in Rows(q) : c.id \notin Ids(Rows(p))
    <2>1. \A q \in Workers \ {p} : p \in Workers \ {q}
      OBVIOUS
    <2> QED
      BY <1>1, <2>1 DEF Own, Rows, AccountsInv, Apart, Ids
  <1>6. Apart'
    <2>1. \A a, b \in accounts' : a.name = b.name \/ a.id = b.id => a = b
      <3>1. \A a \in accounts : a.id \notin Ids(Rows(p)) => \A b \in Rows(p) : a.name # b.name /\ a.id # b.id
        BY DEF AccountsInv, Apart, Ids
      <3>2. \A b, c \in Rows(p) : b = c
        BY DEF AccountsInv, Apart
      <3> QED
        BY <1>2, <3>1, <3>2 DEF AccountsInv, Apart
    <2>2. Rows(p)' = {}
      BY <1>1 DEF Rows, NoChange
    <2>3. \A q \in Workers \ {p} : \A b \in Rows(q) : \A a \in accounts' : a.name = b.name <=> a.id = b.id
      <3>1. \A q \in Workers \ {p} : \A b \in Rows(q) : \A c \in Rows(p) : c.name # b.name /\ c.id # b.id
        BY DEF AccountsInv, Apart
      <3> QED
        BY <1>2, <3>1 DEF AccountsInv, Apart
    <2> QED
      BY <1>5, <2>1, <2>2, <2>3 DEF AccountsInv, Apart
  <1>7. Shape(p)'
    BY <1>1, ShapeOutside
  <1>8. ASSUME NEW q \in Workers \ {p} PROVE Shape(q)'
    <2>1. /\ pc'[q] = pc[q] /\ req'[q] = req[q] /\ tx'[q] = tx[q] /\ found'[q] = found[q]
          /\ Shape(q)
      BY <1>1, <1>8 DEF Own, AccountsInv
    <2>2. req[q].op = "register" => \A b \in Rows(q) : b.id \notin Ids(accounts)'
      BY <1>4, <1>5, <2>1 DEF Shape
    <2>3. req[q].op = "recover_password" => \A b \in Rows(q) : \E a \in accounts' :
            a.id = found[q] /\ b = [a EXCEPT !.password = req[q].password]
      <3>1. SUFFICES ASSUME req[q].op = "recover_password", NEW b \in Rows(q)
                     PROVE  \E a \in accounts' :
                       a.id = found[q] /\ b = [a EXCEPT !.password = req[q].password]
        OBVIOUS
      <3>2. PICK a \in accounts : a.id = found[q] /\ b = [a EXCEPT !.password = req[q].password]
        BY <2>1, <3>1 DEF Shape
      <3>3. b.id = a.id
        BY <3>2 DEF AccountsInv, TypeOK, AccountRow
      <3>4. a \in accounts'
        BY <1>2, <1>5, <3>3
      <3> QED
        BY <3>2, <3>4
    <2> QED
      BY <1>1, <2>1, <2>2, <2>3 DEF Shape, Rows, Recovery
  <1>9. IssuedOnce'
    BY <1>1, <1>3, <1>4, IssuedKept DEF AccountsInv
  <1> QED
    BY <1>1, <1>4, <1>6, <1>7, <1>8, <1>9 DEF AccountsInv

---------------------------------------------------------------------------
(***************************************************************************)
(* The handlers, and everything else that happens.                         *)
(***************************************************************************)
LEMMA RegisterStep ==
  ASSUME AccountsInv, TypeOK', NEW p \in Workers, Register(p)
  PROVE  AccountsInv'
  <1>1. CASE Begin(p, "find_registration")
    BY <1>1, ReadStep, NothingWritten DEF Begin
  <1>2. CASE pc[p] = "find_registration" /\ FindRegistration(p)
    <2>1. tx[p] = NoChange
      BY <1>2, NothingWritten
    <2>2. CASE Goto(p, "insert_account") /\ UNCHANGED tx
      BY <1>2, <2>1, <2>2, ReadStep DEF FindRegistration
    <2>3. CASE Respond(p, "RegistrationDoesNotExist")
      BY <1>2, <2>3, ResponseStep DEF FindRegistration, AccountsInv
    <2> QED
      BY <1>2, <2>2, <2>3 DEF FindRegistration
  <1> QED
    BY <1>1, <1>2, InsertAccountStep, DeleteRegistrationStep, CommitStep DEF Register

LEMMA RecoverPasswordStep ==
  ASSUME AccountsInv, TypeOK', NEW p \in Workers, RecoverPassword(p)
  PROVE  AccountsInv'
  <1>1. CASE Begin(p, "find_reset")
    BY <1>1, ReadStep, NothingWritten DEF Begin
  <1> QED
    BY <1>1, FindResetStep, DeleteResetStep, UpdatePasswordStep, CommitStep DEF RecoverPassword

LEMMA FetchOneStep ==
  ASSUME AccountsInv, TypeOK', NEW p \in Workers, NEW rows, FetchOne(p, rows)
  PROVE  AccountsInv'
  <1>1. PICK a : Respond(p, a)
    BY DEF FetchOne
  <1>2. \A q \in Workers \ {p} : found'[q] = found[q]
    BY DEF FetchOne, AccountsInv, TypeOK
  <1> QED
    BY <1>1, <1>2, ResponseStep DEF FetchOne, AccountsInv

LEMMA LoginStep ==
  ASSUME AccountsInv, TypeOK', NEW p \in Workers, Login(p)
  PROVE  AccountsInv'
  <1>1. PICK a : Respond(p, a)
    BY DEF Login
  <1>2. \A q \in Workers \ {p} : found'[q] = found[q]
    BY DEF Login, AccountsInv, TypeOK
  <1>3. tokens' \subseteq Ids(accounts)
    BY DEF Login, AccountsInv, Ids
  <1> QED
    BY <1>1, <1>2, <1>3, ResponseStep DEF Login

LEMMA AuthenticateStep ==
  ASSUME AccountsInv, TypeOK', NEW p \in Workers, NEW label \in Lookups, Authenticate(p, label)
  PROVE  AccountsInv'
  <1>1. CASE Goto(p, label) /\ UNCHANGED tx
    BY <1>1, ReadStep, NothingWritten DEF Authenticate, Lookups
  <1>2. CASE \E a \in Answers : Respond(p, a)
    BY <1>2, ResponseStep DEF Authenticate, AccountsInv
  <1> QED
    BY <1>1, <1>2 DEF Authenticate, Answers

LEMMA HandleStep ==
  ASSUME AccountsInv, TypeOK', NEW p \in Workers, Handle(p)
  PROVE  AccountsInv'
  <1>1. {"select_name", "select_like"} \subseteq Lookups
    BY DEF Lookups
  <1>2. CASE RecoveryInfo(p)
    BY <1>2, FetchOneStep DEF RecoveryInfo
  <1>3. CASE GetAccountName(p)
    BY <1>1, <1>3, FetchOneStep, AuthenticateStep DEF GetAccountName
  <1>4. CASE SearchAccount(p)
    BY <1>1, <1>4, FetchOneStep, AuthenticateStep DEF SearchAccount
  <1> QED
    BY <1>2, <1>3, <1>4, LoginStep, RegisterStep, RecoverPasswordStep DEF Handle

LEMMA LeaveStep ==
  ASSUME AccountsInv, TypeOK', NEW S, Leave(S)
  PROVE  AccountsInv'
  <1>1. UNCHANGED <<tables, tokens, next, issued>>
    BY DEF Leave
  <1>2. ASSUME NEW q \in Workers
        PROVE  Shape(q)' /\ Rows(q)' \subseteq Rows(q)
    <2>1. CASE q \in S
      <3>1. tx'[q] = NoChange /\ pc'[q] = "idle"
        BY <2>1, <1>2 DEF Leave
      <3> QED
        BY <3>1, <1>2, ShapeOutside DEF Rows, NoChange
    <2>2. CASE q \notin S
      <3>1. pc'[q] = pc[q] /\ req'[q] = req[q] /\ tx'[q] = tx[q] /\ found'[q] = found[q]
        BY <2>2, <1>2 DEF Leave
      <3> QED
        BY <1>1, <1>2, <3>1, ShapeKept DEF AccountsInv, Rows, tables
    <2> QED
      BY <2>1, <2>2
  <1>3. Apart'
    BY <1>1, <1>2, ApartKept DEF AccountsInv, tables
  <1>4. IssuedOnce'
    BY <1>1, IssuedKept DEF AccountsInv, tables, Ids
  <1> QED
    BY <1>1, <1>2, <1>3, <1>4 DEF AccountsInv, Ids, tables

LEMMA ArriveStep ==
  ASSUME AccountsInv, TypeOK', NEW p \in Workers, Arrive(p)
  PROVE  AccountsInv'
  <1>1. tx[p] = NoChange
    BY NothingWritten DEF Arrive
  <1>2. PICK r \in RequestSet : req' = [req EXCEPT ![p] = r] /\ pc' = [pc EXCEPT ![p] = First(r.op)]
    BY DEF Arrive
  <1>3. r.op \in Operations
    BY RequestAssumption DEF Request
  <1>4. First(r.op) \in Lookups
    BY <1>3 DEF First, Lookups, Operations
  <1>5. pc'[p] = First(r.op) /\ Own(p) /\ tx'[p] = tx[p]
    BY <1>2 DEF Own, Arrive, AccountsInv, TypeOK
  <1>6. Shape(p)'
    BY <1>1, <1>4, <1>5, ShapeOutside DEF Lookups
  <1> QED
    BY <1>5, <1>6, OwnStep DEF Arrive, tables, Rows, AccountsInv

LEMMA NewRecoveryStep ==
  ASSUME AccountsInv, TypeOK', NewRecovery
  PROVE  AccountsInv'
  <1> DEFINE row(a) == [id |-> next.reset, account |-> a]
  <1>1. PICK a \in Ids(accounts) :
          resets' = resets \cup {row(a)} /\ issued' = issued \cup {row(a)}
    BY DEF NewRecovery
  <1>2. UNCHANGED <<accounts, registrations, tx, pc, req, answer, found, tokens>>
    BY DEF NewRecovery
  <1>3. next.reset \in Nat /\ next'.reset = next.reset + 1 /\ \A r \in issued : r.id \in Nat
    BY DEF NewRecovery, AccountsInv, TypeOK, ResetRow
  <1>4. IssuedOnce'
    BY <1>1, <1>2, <1>3 DEF AccountsInv, IssuedOnce, Ids
  <1>5. \A q \in Workers : Shape(q)'
    BY <1>1, <1>2, ShapeKept DEF AccountsInv
  <1>6. Apart'
    BY <1>2 DEF AccountsInv, Apart, Rows
  <1> QED
    BY <1>2, <1>4, <1>5, <1>6 DEF AccountsInv, Ids

LEMMA AccountsInvNext ==
  ASSUME AccountsInv, [Next]_vars
  PROVE  AccountsInv'
  <1>1. TypeOK'
    BY TypeNext DEF AccountsInv
  <1>2. CASE NewRegistration
    <2>1. UNCHANGED <<accounts, resets, tx, pc, req, answer, found, tokens, issued>>
            /\ next'.reset = next.reset
      BY <1>2 DEF NewRegistration, AccountsInv, TypeOK
    <2> QED
      BY <1>1, <2>1 DEF AccountsInv, Apart, IssuedOnce, Shape, Rows, Recovery, Ids
  <1>3. CASE Expire
    <2>1. UNCHANGED <<tables, tx, pc, req, answer, found, next, issued>> /\ tokens' \subseteq tokens
      BY <1>3 DEF Expire
    <2> QED
      BY <1>1, <2>1 DEF AccountsInv, Apart, IssuedOnce, Shape, Rows, Recovery, Ids, tables
  <1>4. ASSUME NEW p \in Workers, Serve(p) \/ Cancel(p) PROVE AccountsInv'
    BY <1>1, <1>4, HandleStep, LeaveStep DEF Serve, Deliver, Cancel
  <1>5. ASSUME NEW p \in Workers, Fail(p) PROVE AccountsInv'
    BY <1>1, <1>5, ResponseStep DEF Fail, AccountsInv
  <1>6. CASE UNCHANGED vars
    BY <1>1, <1>6 DEF vars, tables, AccountsInv, Apart, IssuedOnce, Shape, Rows, Recovery, Ids
  <1> QED
    BY <1>1, <1>2, <1>3, <1>4, <1>5, <1>6, LeaveStep, ArriveStep, NewRecoveryStep DEF Next, Restart

LEMMA AccountsInvInit == Init => AccountsInv
  <1>1. Init => \A p \in Workers : Shape(p)
    BY DEF Init, Shape, Rows, Recovery, NoChange, Idle
  <1>2. Init => Apart /\ IssuedOnce /\ tokens \subseteq Ids(accounts)
    BY DEF Init, Apart, IssuedOnce, Rows, NoChange
  <1> QED
    BY <1>1, <1>2, TypeInit DEF AccountsInv

\* What the proofs of the theorems start from.
LEMMA AccountsInvHolds == Spec => []AccountsInv
  <1> QED
    BY AccountsInvInit, AccountsInvNext, PTL DEF Spec

\* The name of a login and the id of a token are one account's (the unique
\* index on accounts.name, the transactions of register and recover_password).
THEOREM NamesAreUnique == Spec => []OneAccountPerName
  <1>1. AccountsInv => OneAccountPerName
    BY DEF AccountsInv, Apart, OneAccountPerName
  <1> QED
    BY <1>1, AccountsInvHolds, PTL

---------------------------------------------------------------------------
(***************************************************************************)
(* What a step does to the tables.                                         *)
(***************************************************************************)
Grows == registrations \subseteq registrations' /\ resets \subseteq resets' /\ accounts' = accounts

\* Rows go away, and accounts change, only when a transaction commits.
LEMMA OnlyCommits ==
  ASSUME [Next]_vars,
         \A p \in Workers : ~ (req[p].op \in {"register", "recover_password"} /\ Commit(p))
  PROVE  Grows
  <1>1. ASSUME NEW p \in Workers, Register(p) PROVE Grows
    BY <1>1 DEF Grows, Register, Begin, FindRegistration, InsertAccount, DeleteRegistration,
                Write, tables
  <1>2. ASSUME NEW p \in Workers, RecoverPassword(p) PROVE Grows
    BY <1>2 DEF Grows, RecoverPassword, Begin, FindReset, DeleteReset, UpdatePassword,
                Write, tables
  <1>3. ASSUME NEW p \in Workers,
               Login(p) \/ RecoveryInfo(p) \/ GetAccountName(p) \/ SearchAccount(p)
        PROVE  Grows
    BY <1>3 DEF Grows, Login, RecoveryInfo, GetAccountName, SearchAccount, Authenticate,
                FetchOne, tables
  <1>4. ASSUME NEW p \in Workers, Arrive(p) \/ Deliver(p) \/ Cancel(p) \/ Fail(p) PROVE Grows
    BY <1>4 DEF Grows, Arrive, Deliver, Cancel, Fail, Leave, tables
  <1>5. CASE NewRegistration \/ Expire \/ Restart \/ UNCHANGED vars
    BY <1>5 DEF Grows, NewRegistration, Expire, Restart, Leave, vars, tables
  <1>6. CASE NewRecovery
    BY <1>6 DEF Grows, NewRecovery
  <1> QED
    BY <1>1, <1>2, <1>3, <1>4, <1>5, <1>6 DEF Next, Serve, Handle

\* A registration is deleted with the commit that makes its account.
LEMMA InvitationStep ==
  ASSUME AccountsInv, [Next]_vars, NEW i \in registrations \ registrations'
  PROVE  \E p \in Workers : \E a \in accounts' \ accounts :
           /\ req[p].op = "register" /\ req[p].id = i
           /\ a.name = req[p].name /\ a.password = req[p].password
  <1>1. PICK p \in Workers : req[p].op \in {"register", "recover_password"} /\ Commit(p)
    BY OnlyCommits DEF Grows
  <1>2. i \in tx[p].registrations /\ pc[p] = "commit" /\ Shape(p)
    BY <1>1 DEF Commit, AccountsInv
  <1>3. req[p].op = "register" /\ req[p].id = i
    BY <1>1, <1>2 DEF Shape
  <1>4. PICK b \in Rows(p) : b.name = req[p].name /\ b.password = req[p].password
    BY <1>2, <1>3 DEF Shape
  <1>5. b \in accounts' \ accounts
    BY <1>1, <1>2, <1>3, <1>4 DEF Commit, Shape, Rows, Ids
  <1> QED
    BY <1>3, <1>4, <1>5

\* The account of a recovery gets its password with the commit that deletes it.
LEMMA RecoveryStep ==
  ASSUME AccountsInv, [Next]_vars, NEW r \in resets \ resets'
  PROVE  \E p \in Workers : \E a \in accounts' :
           /\ req[p].op = "recover_password" /\ req[p].id = r.id
           /\ a.id = r.account /\ a.password = req[p].password
  <1>1. PICK p \in Workers : req[p].op \in {"register", "recover_password"} /\ Commit(p)
    BY OnlyCommits DEF Grows
  <1>2. r.id \in tx[p].resets /\ pc[p] = "commit" /\ Shape(p)
    BY <1>1 DEF Commit, AccountsInv
  <1>3. req[p].op = "recover_password" /\ req[p].id = r.id
    BY <1>1, <1>2 DEF Shape
  <1>4. PICK b \in Rows(p) : \E a \in accounts :
          a.id = found[p] /\ b = [a EXCEPT !.password = req[p].password]
    BY <1>2, <1>3 DEF Shape
  <1>5. b.id = found[p] /\ b.password = req[p].password
    BY <1>4 DEF AccountsInv, TypeOK, AccountRow
  <1>6. r.account = found[p]
    <2>1. Recovery(p) \in issued /\ r \in issued
      BY <1>2, <1>3 DEF Shape, AccountsInv, IssuedOnce
    <2>2. Recovery(p).id = r.id
      BY <1>3 DEF Recovery
    <2>3. r = Recovery(p)
      BY <2>1, <2>2 DEF AccountsInv, IssuedOnce
    <2> QED
      BY <2>3 DEF Recovery
  <1>7. b \in accounts'
    BY <1>1 DEF Commit, Rows
  <1> QED
    BY <1>3, <1>5, <1>6, <1>7

\* An account that is no longer the same was given a password by its recovery.
LEMMA PasswordStep ==
  ASSUME AccountsInv, [Next]_vars, NEW a \in accounts, a \notin accounts'
  PROVE  \E p \in Workers :
           /\ req[p].op = "recover_password"
           /\ [id |-> req[p].id, account |-> a.id] \in issued
           /\ [a EXCEPT !.password = req[p].password] \in accounts'
  <1>1. PICK p \in Workers : req[p].op \in {"register", "recover_password"} /\ Commit(p)
    BY OnlyCommits DEF Grows
  <1>2. PICK b \in Rows(p) : b.id = a.id
    BY <1>1 DEF Commit, Rows, Ids
  <1>3. pc[p] = "commit" /\ Shape(p)
    BY <1>1 DEF Commit, AccountsInv
  <1>4. req[p].op = "recover_password"
    BY <1>1, <1>2, <1>3 DEF Shape, Ids
  <1>5. PICK c \in accounts : c.id = found[p] /\ b = [c EXCEPT !.password = req[p].password]
    BY <1>2, <1>3, <1>4 DEF Shape
  <1>6. b.id = c.id
    BY <1>5 DEF AccountsInv, TypeOK, AccountRow
  <1>7. c = a
    <2>1. \A x, y \in accounts : x.id = y.id => x = y
      BY DEF AccountsInv, Apart
    <2> QED
      BY <1>2, <1>6, <2>1
  <1>8. [id |-> req[p].id, account |-> a.id] \in issued
    BY <1>3, <1>4, <1>5, <1>7 DEF Shape, Recovery
  <1>9. b \in accounts'
    BY <1>1 DEF Commit, Rows
  <1> QED
    BY <1>4, <1>5, <1>7, <1>8, <1>9

\* An invitation that is used is an account that is made (the transaction of
\* register), with any number of requests for one registration or one name.
THEOREM InvitationsAreKept == Spec => InvitationsBecomeAccounts
  <1>1. AccountsInv /\ [Next]_vars =>
          (\A i \in registrations \ registrations' :
             \E p \in Workers : \E a \in accounts' \ accounts :
               /\ req[p].op = "register" /\ req[p].id = i
               /\ a.name = req[p].name /\ a.password = req[p].password)
    BY InvitationStep
  <1> QED
    BY <1>1, AccountsInvHolds, PTL DEF Spec, InvitationsBecomeAccounts

\* A recovery that is used is a password that is set (the transaction of
\* recover_password).
THEOREM RecoveriesAreKept == Spec => RecoveriesBecomePasswords
  <1>1. AccountsInv /\ [Next]_vars =>
          (\A r \in resets \ resets' :
             \E p \in Workers : \E a \in accounts' :
               /\ req[p].op = "recover_password" /\ req[p].id = r.id
               /\ a.id = r.account /\ a.password = req[p].password)
    BY RecoveryStep
  <1> QED
    BY <1>1, AccountsInvHolds, PTL DEF Spec, RecoveriesBecomePasswords

\* Nobody's password changes but by a recovery issued for that account, and no
\* account goes away.
THEOREM PasswordsAreSafe == Spec => PasswordsChangeByRecovery
  <1>1. AccountsInv /\ [Next]_vars =>
          (\A a \in accounts : a \in accounts' \/
             \E p \in Workers :
               /\ req[p].op = "recover_password"
               /\ [id |-> req[p].id, account |-> a.id] \in issued
               /\ [a EXCEPT !.password = req[p].password] \in accounts')
    BY PasswordStep
  <1> QED
    BY <1>1, AccountsInvHolds, PTL DEF Spec, PasswordsChangeByRecovery
=============================================================================

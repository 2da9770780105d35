---------------------------- MODULE MCAccounts ----------------------------
(***************************************************************************)
(* Small instances of Accounts: two names, one of which matches the other  *)
(* as a pattern, and the requests of a few visitors.                       *)
(***************************************************************************)
EXTENDS Accounts, TLC

CONSTANTS ann, a_n, red, blue, w1, w2

Perms == Permutations(Workers)

\* a_n is a name with an underscore: as a pattern it matches ann too.
Patterns == (ann :> {ann}) @@ (a_n :> {a_n, ann})

Rq(op, id, name, password) == [op |-> op, id |-> id, name |-> name, password |-> password]

\* Two people with one invitation, with one name, with one recovery.
AccountRequests ==
  {Rq("register", 1, ann, red), Rq("register", 1, a_n, red), Rq("register", 2, ann, red),
   Rq("recover_password", 1, ann, blue), Rq("recover_password", 2, ann, red),
   Rq("recovery_info", 1, ann, red),
   Rq("login", 1, ann, red), Rq("get_account_name", 1, ann, red),
   Rq("search_account", 1, a_n, red)}

RegistrationRequests == {Rq("register", 1, ann, red), Rq("register", 1, a_n, blue)}
===========================================================================

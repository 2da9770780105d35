----------------------------- MODULE Requests -----------------------------
(***************************************************************************)
(* What every handler of the KabaList API server shares (api/src/main.rs): *)
(* the workers that serve requests, the connection pool, the permission    *)
(* checks is_owner and check_list, and how a handler runs SQL.             *)
(*                                                                         *)
(* A worker serves one request at a time and moves from one SQL statement  *)
(* to the next at every await point of the handler; statements of          *)
(* different workers interleave.  PostgreSQL runs at READ COMMITTED: a     *)
(* statement sees what is committed when it runs, and what its own         *)
(* transaction wrote.  A statement whose rows another transaction holds    *)
(* waits, which here means that its step is not enabled.                   *)
(***************************************************************************)
EXTENDS Api

CONSTANTS Workers,         \* requests the server has in progress at once
          RequestSet,      \* the requests clients may send
          MaxConnections   \* size of the sqlx pool

ASSUME RequestAssumption == \A r \in RequestSet : r \in Request /\ WellFormed(r)
ASSUME ConnectionAssumption == MaxConnections \in Nat \ {0}

\* Labels of the statements a worker runs on a connection it keeps.
Statements ==
  {"insert_content", "upsert_history", "update_name", "update_amount",
   "read_item", "credit_pantry", "delete_item", "delete_sharing",
   "delete_contents", "delete_history", "delete_list", "set_pub",
   "insert_sharing", "delete_share", "delete_history_of",
   "delete_history_others", "insert_pantry", "update_pantry",
   "delete_refills", "delete_pantry", "read_pantry", "insert_refill",
   "commit"}

\* Labels of the statements that borrow a connection and return it at once.
Lookups == {"is_owner", "check_shared", "begin", "count_names", "insert_list",
            "select_content", "select_readonly", "select_pub",
            "select_public_content", "select_shares", "select_pantry",
            "select_owned", "select_shared", "select_history"}

Labels == {"idle", "done"} \cup Lookups \cup Statements

VARIABLES
  db,      \* the committed store
  tx,      \* tx[p]: what p's open transaction has changed
  pc,      \* pc[p]: the statement p runs next
  req,     \* req[p]: the request p serves
  answer,  \* answer[p]: what p answers, "none" before it is "done"
  seen,    \* seen[p]: rows that p has read and still uses or returns
  next,    \* next value of the list ids (uuids) and of the two sequences
  granted  \* auxiliary: rights the user had when p's checks looked

vars == <<db, tx, pc, req, answer, seen, next, granted>>

---------------------------------------------------------------------------
\* What rights the user has on the list of the request now, for `granted'.
Witness(p) == granted' = [granted EXCEPT ![p] =
                            @ \cup Rights(db, req[p].user, req[p].list)]

---------------------------------------------------------------------------
(***************************************************************************)
(* Running SQL.                                                            *)
(***************************************************************************)
At(p, op, label) == pc[p] = label /\ req[p].op = op

\* A connection of the pool is free.
Connection == Cardinality({q \in Workers : pc[q] \in Statements}) < MaxConnections

\* What a statement of p sees.
View(p) == Apply(db, tx[p])

\* Another transaction holds a row the statement with change d needs.
Blocked(p, d) == \E q \in Workers \ {p} : Conflict(d, tx[q])

Goto(p, label) == pc' = [pc EXCEPT ![p] = label] /\ UNCHANGED answer

\* The handler returns: its transaction, if still open, is rolled back.
Respond(p, a) == /\ pc' = [pc EXCEPT ![p] = "done"]
                 /\ answer' = [answer EXCEPT ![p] = a]
                 /\ tx' = [tx EXCEPT ![p] = NoChange]

\* pool.begin(), or the pool handing out the connection of a statement that
\* may wait for a lock.
Begin(p, label) ==
  /\ pc[p] = "begin" /\ Connection
  /\ Goto(p, label)
  /\ UNCHANGED <<db, tx, req, seen, next, granted>>

\* A statement of an open transaction, followed by the one at `label'.  It
\* fails when a value is out of range or a reference is left dangling.
Execute(p, d, inRange, label) ==
  /\ ~ Blocked(p, d)
  /\ IF inRange /\ ReferencesHold(Apply(View(p), d))
     THEN tx' = [tx EXCEPT ![p] = Then(@, d)] /\ Goto(p, label)
     ELSE Respond(p, "Internal")
  /\ UNCHANGED <<db, req, seen, granted>>

\* The answer after a commit: the connection may break before it is known.
Committed(p) == \/ Respond(p, "ok")
                \/ Failures /\ Respond(p, "Internal")

\* A statement run on the pool: it commits by itself.
Autocommit(p, d, inRange) ==
  /\ ~ Blocked(p, d)
  /\ IF inRange /\ ReferencesHold(Apply(db, d))
     THEN db' = Apply(db, d) /\ Committed(p)
     ELSE Respond(p, "Internal") /\ UNCHANGED db
  /\ UNCHANGED <<req, seen, granted>>

\* tx.commit()
Commit(p) ==
  /\ pc[p] = "commit"
  /\ db' = View(p)
  /\ Committed(p)
  /\ UNCHANGED <<req, seen, next, granted>>

\* A SELECT that adds the rows `found' to what p has seen.
Select(p, found, label) ==
  /\ Goto(p, label)
  /\ seen' = [seen EXCEPT ![p] = Both(@, found)]
  /\ UNCHANGED <<db, tx, req, next, granted>>

\* A SELECT that answers with what p has seen.
SelectLast(p, found) ==
  /\ Respond(p, "ok")
  /\ seen' = [seen EXCEPT ![p] = Both(@, found)]
  /\ UNCHANGED <<db, req, next, granted>>

---------------------------------------------------------------------------
(***************************************************************************)
(* The permission checks.                                                  *)
(***************************************************************************)
\* SELECT COUNT( * ) FROM lists WHERE owner = $1 AND id = $2
OwnerRows(u, l) == {r \in db.lists : r.owner = u /\ r.id = l}

\* SELECT readonly FROM list_sharing WHERE list = $1 AND shared = $2
ShareRows(u, l) == {r \in db.sharing : r.list = l /\ r.shared = u}

\* is_owner, called by a handler that only the owner may use.
IsOwner(p, label) ==
  /\ pc[p] = "is_owner" /\ Connection
  /\ IF OwnerRows(req[p].user, req[p].list) # {}
     THEN Goto(p, label) /\ UNCHANGED tx
     ELSE Respond(p, "NoSuchList")
  /\ Witness(p)
  /\ UNCHANGED <<db, req, seen, next>>

\* check_list: is_owner, and for anybody else the row of list_sharing.  An
\* error of is_owner, whatever it is, counts as "not the owner".
CheckList(p, write, label) ==
  \/ /\ pc[p] = "is_owner" /\ Connection
     /\ Goto(p, IF OwnerRows(req[p].user, req[p].list) # {}
                THEN label ELSE "check_shared")
     /\ Witness(p)
     /\ UNCHANGED <<db, tx, req, seen, next>>
  \/ /\ pc[p] = "check_shared" /\ Connection
     /\ LET rows == ShareRows(req[p].user, req[p].list) IN
        \/ rows = {} /\ Respond(p, "NoSuchList")
        \/ (\E r \in rows : r.readonly /\ write) /\ Respond(p, "NotWritable")
        \/ (\E r \in rows : ~ (r.readonly /\ write)) /\ Goto(p, label) /\ UNCHANGED tx
     /\ Witness(p)
     /\ UNCHANGED <<db, req, seen, next>>
===========================================================================

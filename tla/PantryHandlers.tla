--------------------------- MODULE PantryHandlers -------------------------
(***************************************************************************)
(* The handlers of api/src/pantry.rs: the pantry of a list, and the        *)
(* refill that turns what is missing into items of the list.               *)
(***************************************************************************)
EXTENDS ListHandlers

\* Fault: WHERE item = $4 alone.
PantryRowsAnywhere(s, p) == {r \in s.pantry : r.item = req[p].item}

PantryRowsAt(s, p) == {r \in s.pantry : r.list = req[p].list /\ r.item = req[p].item}

InsertPantry(p) ==
  OnPantry({}, {[item |-> next.pantry, list |-> req[p].list, name |-> req[p].name,
                 target |-> req[p].target, amount |-> 0]})

\* UPDATE pantry_content SET amount = COALESCE($1, amount), target = ...
UpdatePantry(p) ==
  LET coalesce(x, old) == IF x = NULL THEN old ELSE x
      rows == PantryRowsAt(db, p)
  IN OnPantry(rows, {[r EXCEPT !.amount = coalesce(req[p].stock, @),
                               !.target = coalesce(req[p].target, @)] : r \in rows})

\* DELETE FROM lists_content WHERE from_pantry = $1 AND list = $2: NULL is equal
\* to nothing
DeleteRefills(p) ==
  OnContent({r \in OfList(View(p).content, req[p].list) : r.from_pantry = req[p].item
                                                      /\ r.from_pantry # NoItem}, {})

DeletePantryRow(p) == OnPantry(PantryRowsAt(View(p), p), {})

\* Fault: WHERE amount <= target.
MissingOrEnough(p) == {r \in OfList(db.pantry, req[p].list) : r.amount <= r.target}

\* The SELECT of the refill: what is below its target.
Missing(p) == {r \in OfList(db.pantry, req[p].list) : r.amount < r.target}

\* The INSERT of the refill.  The sequence gives every new item an id of its
\* own; here they follow the ids of the pantry items, and gaps are left.
InsertRefill(p) ==
  OnContent({}, {[id |-> next.content + r.item - 1, list |-> r.list, name |-> r.name,
                  amount |-> r.target - r.amount, from_pantry |-> r.item] :
                    r \in seen[p].pantry})

---------------------------------------------------------------------------
GetPantry(p) ==
  /\ req[p].op = "get_pantry"
  /\ \/ CheckList(p, FALSE, "select_pantry")
     \/ /\ pc[p] = "select_pantry" /\ Connection
        /\ SelectLast(p, [Empty EXCEPT !.pantry = OfList(db.pantry, req[p].list)])

AddToPantry(p) ==
  /\ req[p].op = "add_to_pantry"
  /\ \/ CheckList(p, TRUE, "begin")
     \/ Begin(p, "insert_pantry")
     \/ /\ pc[p] = "insert_pantry"
        /\ Autocommit(p, InsertPantry(p), TRUE)
        /\ next' = [next EXCEPT !.pantry = @ + 1]

SetPantryItem(p) ==
  /\ req[p].op = "set_pantry_item"
  /\ \/ CheckList(p, TRUE, "begin")
     \/ Begin(p, "update_pantry")
     \/ /\ pc[p] = "update_pantry"
        /\ Autocommit(p, UpdatePantry(p), TRUE)
        /\ UNCHANGED next

\* Fault: the second DELETE runs on the pool, which has to hand out a connection
\* while the transaction holds another, and again when it has none in time.
DeletePantryItemOnThePool(p) ==
  /\ req[p].op = "delete_pantry_item"
  /\ \/ CheckList(p, TRUE, "begin")
     \/ Begin(p, "delete_refills")
     \/ /\ pc[p] = "delete_refills"
        /\ Execute(p, DeleteRefills(p), TRUE, "delete_pantry")
        /\ UNCHANGED next
     \/ /\ pc[p] = "delete_pantry" /\ Connection
        /\ Execute(p, DeletePantryRow(p), TRUE, "commit")
        /\ UNCHANGED next
     \/ pc[p] = "delete_pantry" /\ ~ Connection /\ UNCHANGED vars
     \/ Commit(p)

DeletePantryItem(p) ==
  /\ req[p].op = "delete_pantry_item"
  /\ \/ CheckList(p, TRUE, "begin")
     \/ Begin(p, "delete_refills")
     \/ /\ pc[p] = "delete_refills"
        /\ Execute(p, DeleteRefills(p), TRUE, "delete_pantry")
        /\ UNCHANGED next
     \/ /\ pc[p] = "delete_pantry"
        /\ Execute(p, DeletePantryRow(p), TRUE, "commit")
        /\ UNCHANGED next
     \/ Commit(p)

\* One INSERT ... SELECT: it reads the pantry, then inserts and waits for
\* the pantry rows it refers to.
RefillPantry(p) ==
  /\ req[p].op = "refill_pantry"
  /\ \/ CheckList(p, TRUE, "begin")
     \/ Begin(p, "read_pantry")
     \/ /\ pc[p] = "read_pantry"
        /\ Select(p, [Empty EXCEPT !.pantry = Missing(p)], "insert_refill")
     \/ /\ pc[p] = "insert_refill"
        /\ Autocommit(p, InsertRefill(p),
                      \A r \in seen[p].pantry : InRange(r.target - r.amount))
        /\ next' = [next EXCEPT !.content =
                       IF seen[p].pantry = {} THEN @ ELSE @ + next.pantry - 1]
===========================================================================

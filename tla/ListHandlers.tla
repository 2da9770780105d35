--------------------------- MODULE ListHandlers ---------------------------
(***************************************************************************)
(* The handlers of api/src/list.rs that read or change one list.  One      *)
(* operator per SQL statement gives the change it makes; one action per    *)
(* handler runs its statements in the order of the code.                   *)
(***************************************************************************)
EXTENDS Requests

\* Fault: the two parameters of the COUNT are bound in the wrong order.
NamedListsSwapped(u, n) == {r \in db.lists : r.owner = n /\ r.name = u}

\* Lists of user u called n: the COUNT of create_list.
NamedLists(u, n) == {r \in db.lists : r.owner = u /\ r.name = n}

---------------------------------------------------------------------------
\* Fault: WHERE id = $2 alone.
ItemRowsOfAnyList(s, p) == {r \in s.content : r.id = req[p].item}

\* The rows `WHERE list = $1 AND id = $2' of lists_content.
ItemRows(s, p) == {r \in s.content : r.list = req[p].list /\ r.id = req[p].item}

InsertList(p) ==
  OnLists({}, {[id |-> next.list, owner |-> req[p].user, name |-> req[p].name,
                pub |-> FALSE]})

InsertContent(p) ==
  OnContent({}, {[id |-> next.content, list |-> req[p].list, name |-> req[p].name,
                  amount |-> req[p].amount, from_pantry |-> NoItem]})

\* INSERT INTO history ... ON CONFLICT DO UPDATE: the row is there afterwards,
\* and locked whether it was there before or not.
UpsertHistory(p) ==
  LET row == [list |-> req[p].list, creator |-> req[p].user, name |-> req[p].name]
  IN OnHistory(View(p).history \cap {row}, {row})

UpdateName(p) ==
  LET rows == ItemRows(View(p), p)
  IN OnContent(rows, {[r EXCEPT !.name = req[p].name] : r \in rows})

UpdateAmount(p) ==
  LET rows == ItemRows(View(p), p)
  IN OnContent(rows, {[r EXCEPT !.amount = req[p].amount] : r \in rows})

\* The pantry row that the item p has read came from, as it is now: the two
\* subqueries of the UPDATE keep the item as the statement first saw it, the
\* row it updates is the newest version.
CreditedRows(p) ==
  {r \in View(p).pantry : \E c \in seen[p].content : c.from_pantry = r.item}

\* Fault: the amount of the item replaces the one of the pantry.
CreditReplaced(p, r) ==
  [r EXCEPT !.amount =
     LET c == CHOOSE c \in seen[p].content : TRUE IN Added(c.amount)]

Credit(p, r) ==
  [r EXCEPT !.amount =
     LET c == CHOOSE c \in seen[p].content : TRUE IN r.amount + Added(c.amount)]

CreditPantry(p) ==
  OnPantry(CreditedRows(p), {Credit(p, r) : r \in CreditedRows(p)})

CreditInRange(p) ==
  \A r \in CreditedRows(p) : InRange(Credit(p, r).amount)

DeleteItemRow(p) == OnContent(ItemRows(View(p), p), {})

\* DELETE FROM list_sharing / lists_content / history / lists of a whole list.
DeleteSharing(p)  == OnSharing(OfList(View(p).sharing, req[p].list), {})
DeleteContents(p) == OnContent(OfList(View(p).content, req[p].list), {})
DeleteHistory(p)  == OnHistory(OfList(View(p).history, req[p].list), {})
DeleteListRow(p)  ==
  OnLists({r \in View(p).lists : r.id = req[p].list}, {})

\* Fault: the column is cleared instead of set to false.
SetPubCleared(p, flag) ==
  LET rows == {r \in db.lists : r.id = req[p].list}
  IN OnLists(rows, {[r EXCEPT !.pub = IF flag THEN TRUE ELSE NULL] : r \in rows})

\* UPDATE lists SET pub = flag WHERE id = $1
SetPub(p, flag) ==
  LET rows == {r \in db.lists : r.id = req[p].list}
  IN OnLists(rows, {[r EXCEPT !.pub = flag] : r \in rows})

---------------------------------------------------------------------------
\* The name is looked up and the row inserted by two statements of the pool.
CreateList(p) ==
  \/ /\ At(p, "create_list", "count_names") /\ Connection
     /\ IF NamedLists(req[p].user, req[p].name) = {}
        THEN Goto(p, "insert_list") /\ UNCHANGED tx
        ELSE Respond(p, "ListAlreadyExists")
     /\ UNCHANGED <<db, req, seen, next, granted>>
  \/ /\ At(p, "create_list", "insert_list") /\ Connection
     /\ Autocommit(p, InsertList(p), TRUE)
     /\ next' = [next EXCEPT !.list = @ + 1]

\* Fault: the second SELECT is left out and readonly is always false.
ReadListWithoutFlag(p) ==
  /\ req[p].op = "read_list"
  /\ \/ CheckList(p, FALSE, "select_content")
     \/ /\ pc[p] = "select_content" /\ Connection
        /\ SelectLast(p, [Empty EXCEPT !.content = OfList(db.content, req[p].list)])

\* The answer holds the items and the caller's own row of list_sharing.
ReadList(p) ==
  /\ req[p].op = "read_list"
  /\ \/ CheckList(p, FALSE, "select_content")
     \/ /\ pc[p] = "select_content" /\ Connection
        /\ Select(p, [Empty EXCEPT !.content = OfList(db.content, req[p].list)],
                  "select_readonly")
     \/ /\ pc[p] = "select_readonly" /\ Connection
        /\ SelectLast(p, [Empty EXCEPT !.sharing = ShareRows(req[p].user, req[p].list)])

AddList(p) ==
  /\ req[p].op = "add_list"
  /\ \/ CheckList(p, TRUE, "begin")
     \/ Begin(p, "insert_content")
     \/ /\ pc[p] = "insert_content"
        /\ Execute(p, InsertContent(p), TRUE, "upsert_history")
        /\ next' = [next EXCEPT !.content = @ + 1]
     \/ /\ pc[p] = "upsert_history"
        /\ Execute(p, UpsertHistory(p), TRUE, "commit")
        /\ UNCHANGED next
     \/ Commit(p)

\* Each of the two UPDATEs runs only when the body has the field.
UpdateItem(p) ==
  LET rest == IF req[p].amount = NULL THEN "commit" ELSE "update_amount"
  IN /\ req[p].op = "update_item"
     /\ \/ CheckList(p, TRUE, "begin")
        \/ Begin(p, IF req[p].name = NULL THEN rest ELSE "update_name")
        \/ /\ pc[p] = "update_name"
           /\ Execute(p, UpdateName(p), TRUE, rest)
           /\ UNCHANGED next
        \/ /\ pc[p] = "update_amount"
           /\ Execute(p, UpdateAmount(p), TRUE, "commit")
           /\ UNCHANGED next
        \/ Commit(p)

\* The first UPDATE is two steps: it reads the item, then locks the pantry row.
DeleteItem(p) ==
  /\ req[p].op = "delete_item"
  /\ \/ CheckList(p, TRUE, "begin")
     \/ Begin(p, "read_item")
     \/ /\ pc[p] = "read_item"
        /\ Select(p, [Empty EXCEPT !.content = ItemRows(db, p)], "credit_pantry")
     \/ /\ pc[p] = "credit_pantry"
        /\ Execute(p, CreditPantry(p), CreditInRange(p), "delete_item")
        /\ UNCHANGED next
     \/ /\ pc[p] = "delete_item"
        /\ Execute(p, DeleteItemRow(p), TRUE, "commit")
        /\ UNCHANGED next
     \/ Commit(p)

DeleteList(p) ==
  /\ req[p].op = "delete_list"
  /\ \/ IsOwner(p, "begin")
     \/ Begin(p, "delete_sharing")
     \/ /\ UNCHANGED next
        /\ \/ /\ pc[p] = "delete_sharing"
              /\ Execute(p, DeleteSharing(p), TRUE, "delete_contents")
           \/ /\ pc[p] = "delete_contents"
              /\ Execute(p, DeleteContents(p), TRUE, "delete_history")
           \/ /\ pc[p] = "delete_history"
              /\ Execute(p, DeleteHistory(p), TRUE, "delete_list")
           \/ /\ pc[p] = "delete_list"
              /\ Execute(p, DeleteListRow(p), TRUE, "commit")
     \/ Commit(p)

SetPublic(p) ==
  /\ req[p].op = "set_public"
  /\ \/ IsOwner(p, "begin")
     \/ Begin(p, "set_pub")
     \/ pc[p] = "set_pub" /\ Autocommit(p, SetPub(p, TRUE), TRUE) /\ UNCHANGED next

RemovePublic(p) ==
  /\ req[p].op = "remove_public"
  /\ \/ IsOwner(p, "begin")
     \/ Begin(p, "set_pub")
     \/ pc[p] = "set_pub" /\ Autocommit(p, SetPub(p, FALSE), TRUE) /\ UNCHANGED next

\* Fault: whether the list is public is not looked at.
GetAnyList(p) ==
  /\ req[p].op = "get_public_list"
  /\ \/ /\ pc[p] = "select_pub" /\ Connection
        /\ Goto(p, "select_public_content")
        /\ Witness(p)
        /\ UNCHANGED <<db, tx, req, seen, next>>
     \/ /\ pc[p] = "select_public_content" /\ Connection
        /\ SelectLast(p, [Empty EXCEPT !.content = OfList(db.content, req[p].list)])

\* No token and no check: `pub' is the permission.  fetch_one fails when
\* there is no such list.
GetPublicList(p) ==
  /\ req[p].op = "get_public_list"
  /\ \/ /\ pc[p] = "select_pub" /\ Connection
        /\ LET rows == {r \in db.lists : r.id = req[p].list} IN
           \/ rows = {} /\ Respond(p, "Internal")
           \/ (\E r \in rows : ~ r.pub) /\ Respond(p, "NotFound")
           \/ (\E r \in rows : r.pub) /\ Goto(p, "select_public_content") /\ UNCHANGED tx
        /\ Witness(p)
        /\ UNCHANGED <<db, req, seen, next>>
     \/ /\ pc[p] = "select_public_content" /\ Connection
        /\ SelectLast(p, [Empty EXCEPT !.content = OfList(db.content, req[p].list)])
===========================================================================

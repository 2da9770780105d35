------------------------------- MODULE Client -------------------------------
(***************************************************************************)
(* The Rust client library (client/src/lib.rs), which the command line and *)
(* the web pages call: one operator per method, the request it sends.  A   *)
(* client object holds the token of one account, its first argument here.  *)
(* Whatever is no success (an error of the server, an answer that never    *)
(* came) is one and the same error to the callers.                         *)
(***************************************************************************)
EXTENDS ListService, Sequences

CONSTANT Alike   \* Alike[a]: the accounts whose names match that of a, taken
                 \* as a pattern by search_account

ASSUME AlikeAssumption ==
  Alike \in [Accounts -> SUBSET Accounts] /\ \A a \in Accounts : a \in Alike[a]

VARIABLE next    \* the next id: of the ids of SERIAL columns and the uuids, none
                 \* is used twice

---------------------------------------------------------------------------
\* A request without parameters.
Ask(op, me, list) ==
  [op |-> op, user |-> me, list |-> list, item |-> NoItem, name |-> NULL,
   amount |-> NULL, with |-> me, readonly |-> FALSE, stock |-> NULL, target |-> NULL]

Lists(me)                  == Ask("list_lists", me, 0)
Search(me, name)           == [Ask("search_list", me, 0) EXCEPT !.name = name]
SearchHistory(me, l, name) == [Ask("history_search", me, l) EXCEPT !.name = name]
CreateList(me, name)       == [Ask("create_list", me, 0) EXCEPT !.name = name]
DeleteList(me, l)          == Ask("delete_list", me, l)
SetPublic(me, l)           == Ask("set_public", me, l)
RemovePublic(me, l)        == Ask("remove_public", me, l)

Read(me, l)           == Ask("read_list", me, l)
Add(me, l, name, n)   == [Ask("add_list", me, l) EXCEPT !.name = name, !.amount = n]
DeleteItem(me, l, i)  == [Ask("delete_item", me, l) EXCEPT !.item = i]
UpdateItem(me, l, i, name, n) ==
  [Ask("update_item", me, l) EXCEPT !.item = i, !.name = name, !.amount = n]

GetShares(me, l)      == Ask("get_shares", me, l)
Share(me, l, a, ro)   == [Ask("share_list", me, l) EXCEPT !.with = a, !.readonly = ro]
UnshareWith(me, l, a) == [Ask("unshare", me, l) EXCEPT !.with = a]
DeleteShare(me, l)    == Ask("delete_shares", me, l)

Pantry(me, l)         == Ask("get_pantry", me, l)
RefillPantry(me, l)   == Ask("refill_pantry", me, l)
AddToPantry(me, l, name, n) ==
  [Ask("add_to_pantry", me, l) EXCEPT !.name = name, !.target = n]
EditPantryItem(me, l, i, stock, n) ==
  [Ask("set_pantry_item", me, l) EXCEPT !.item = i, !.stock = stock, !.target = n]
DeletePantryItem(me, l, i) == [Ask("delete_pantry_item", me, l) EXCEPT !.item = i]

---------------------------------------------------------------------------
\* map_res
Answered(c) == call[c].status = "answered"
Succeeded(c) == Answered(c) /\ call[c].answer = "ok"

\* The request of c, whether it is under way or answered.
Asks(c, op) == call[c] # Free /\ call[c].req.op = op

\* After an answer the caller asks for the next thing.
SendNext(c, r) ==
  /\ Answered(c)
  /\ call' = [call EXCEPT ![c] = Asked(r)]
  /\ UNCHANGED store

\* How many ids the request r may use up: the items of a refill are numbered from
\* next on like the pantry items they come from, whose ids are below next.
IdsUsed(r) ==
  CASE r.op \in {"create_list", "add_list", "add_to_pantry"} -> 1
    [] r.op = "refill_pantry" -> next
    [] OTHER -> 0

\* The server serves c, or refuses to; new rows get the next ids.
Serve(c) ==
  \/ Perform(c, next) /\ next' = next + IdsUsed(call[c].req)
  \/ Refuse(c) /\ UNCHANGED next
=============================================================================

------------------------------ MODULE MCServer ----------------------------
(***************************************************************************)
(* Small instances of Server: three accounts, the database they start      *)
(* from, and the requests their clients send.                              *)
(***************************************************************************)
EXTENDS Refinement, TLC

CONSTANTS ann, bob, carl, milk, tea, w1, w2, w3

Perms == Permutations(Workers)

\* No name is a part of another one.
Parts == [n \in Names |-> {n}]

\* A request with the parameters no operation of the run looks at filled in.
Rq(op, user, list) ==
  [op |-> op, user |-> user, list |-> list, item |-> NoItem, name |-> milk,
   amount |-> NULL, with |-> bob, readonly |-> FALSE, stock |-> NULL,
   target |-> 1]

On(item, r)    == [r EXCEPT !.item = item]
Named(n, r)    == [r EXCEPT !.name = n]
With(u, ro, r) == [r EXCEPT !.with = u, !.readonly = ro]

Stock(n, r)    == [r EXCEPT !.stock = n]
Saying(a, r)   == [r EXCEPT !.amount = a]

---------------------------------------------------------------------------
\* ann's list 1 is shared with bob, who has put milk on it, and with carl,
\* who may only read it.  List 2 is bob's own.
SharedStore ==
  [Empty EXCEPT
     !.lists = {[id |-> 1, owner |-> ann, name |-> milk, pub |-> TRUE],
                [id |-> 2, owner |-> bob, name |-> milk, pub |-> FALSE]},
     !.sharing = {[list |-> 1, shared |-> bob,  readonly |-> FALSE],
                  [list |-> 1, shared |-> carl, readonly |-> TRUE]},
     !.content = {[id |-> 1, list |-> 1, name |-> milk, amount |-> NULL,
                   from_pantry |-> NoItem]},
     !.history = {[list |-> 1, creator |-> bob, name |-> milk]}]

\* What ann, bob and carl do to shared lists.  bob also removes item 1 through
\* his own list 2, as a client does whose view of the list is out of date.
SharingRequests ==
  {Rq("add_list", bob, 1), Rq("add_list", carl, 1),
   On(1, Rq("delete_item", bob, 2)), Rq("read_list", carl, 1),
   With(bob, FALSE, Rq("unshare", ann, 1)), With(carl, FALSE, Rq("share_list", bob, 1)),
   Rq("delete_shares", ann, 1), Rq("delete_list", ann, 1),
   Rq("remove_public", ann, 1), Rq("get_public_list", carl, 1),
   Rq("list_lists", bob, 1)}

---------------------------------------------------------------------------
\* ann's list 1 is shared with bob and has a pantry of one item, out of stock.
PantryStore ==
  [Empty EXCEPT
     !.lists = {[id |-> 1, owner |-> ann, name |-> milk, pub |-> FALSE],
                [id |-> 2, owner |-> bob, name |-> milk, pub |-> FALSE]},
     !.sharing = {[list |-> 1, shared |-> bob, readonly |-> FALSE]},
     !.pantry = {[item |-> 1, list |-> 1, name |-> milk, target |-> 2, amount |-> 0]}]

\* ann and bob restock the pantry at the same time; bob also reaches for it
\* through his list 2.
PantryRequests ==
  {Rq("refill_pantry", bob, 1), Rq("get_pantry", bob, 1),
   On(1, Rq("delete_item", ann, 1)), On(2, Rq("delete_item", ann, 1)),
   On(1, Rq("delete_pantry_item", bob, 1)), On(1, Rq("delete_pantry_item", bob, 2)),
   On(1, Stock(1, Rq("set_pantry_item", bob, 1))),
   On(1, Saying(Text, Rq("update_item", ann, 1)))}

---------------------------------------------------------------------------
\* From an empty database: ann makes a list, or one after another, and shares
\* it with bob, and with herself; every route is used on list 1.
AloneRequests ==
  {Named(tea, Rq("create_list", ann, 1)),
   Rq("add_list", ann, 1), Named(tea, Rq("add_list", bob, 1)),
   Saying(2, Named(tea, On(1, Rq("update_item", bob, 1)))),
   Named(NULL, Saying(2, On(1, Rq("update_item", ann, 1)))),
   On(1, Rq("delete_item", ann, 1)), On(2, Rq("delete_item", bob, 1)),
   Rq("read_list", ann, 1), Rq("read_list", bob, 1), Rq("list_lists", bob, 1),
   Named(tea, Rq("search_list", ann, 1)), Named(NULL, Rq("history_search", bob, 1)), Rq("get_public_list", bob, 1),
   Rq("set_public", ann, 1), Rq("remove_public", ann, 1),
   With(bob, TRUE, Rq("share_list", ann, 1)), With(bob, FALSE, Rq("share_list", ann, 1)),
   With(ann, TRUE, Rq("share_list", bob, 1)), Rq("get_shares", bob, 1),
   With(bob, FALSE, Rq("unshare", ann, 1)), Rq("delete_shares", ann, 1),
   Rq("delete_list", ann, 1),
   Rq("add_to_pantry", ann, 1), Rq("refill_pantry", bob, 1), Rq("get_pantry", bob, 1),
   On(1, Stock(7, Rq("set_pantry_item", ann, 1))),
   On(1, Stock(-7, Rq("set_pantry_item", ann, 1))), On(1, Rq("delete_pantry_item", ann, 1))}

---------------------------------------------------------------------------
\* Two requests that are sent again and again for one restocked item; each keeps
\* a connection while it waits for the rows of the other, in a ring too.
RestockedStore ==
  [Empty EXCEPT
     !.lists = {[id |-> 1, owner |-> ann, name |-> milk, pub |-> FALSE]},
     !.content = {[id |-> 1, list |-> 1, name |-> milk, amount |-> 1, from_pantry |-> 1]},
     !.pantry = {[item |-> 1, list |-> 1, name |-> milk, target |-> 1, amount |-> 0]}]

WaitingRequests ==
  {On(1, Rq("delete_item", ann, 1)), On(1, Rq("delete_pantry_item", ann, 1))}

---------------------------------------------------------------------------
\* One question each: two lists of one name, the deletion of a list with a
\* pantry, the owner whose is_owner fails, the public page of no list.
NamingRequests   == {Rq("create_list", ann, 1), Rq("create_list", bob, 1)}
DeletingRequests == {Rq("delete_list", bob, 1), Rq("delete_list", ann, 1)}
OwningRequests   == {Rq("read_list", ann, 1), Rq("read_list", bob, 2)}
PublicRequests   == {Rq("get_public_list", ann, 1), Rq("get_public_list", ann, 3),
                     Rq("delete_list", ann, 1)}
===========================================================================

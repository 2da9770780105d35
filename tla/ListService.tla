----------------------------- MODULE ListService ----------------------------
(***************************************************************************)
(* The KabaList server as its clients see it.  A request takes effect at   *)
(* one instant between the moment it is sent and the moment its answer     *)
(* comes, or it is refused and changes nothing.  What each request does to *)
(* the stored lists is said in one operator, without SQL, transactions or  *)
(* locks; Refinement shows that the server does that and no more, as long  *)
(* as requests do not overlap inside the server.                           *)
(*                                                                         *)
(* The clients (ListPage, CommandLine, SharingDialog) run against this     *)
(* service: their requests overlap, and are served and answered in any     *)
(* order.                                                                  *)
(***************************************************************************)
EXTENDS Api

CONSTANTS Callers,  \* who may have a request under way
          Ids       \* ids for new rows

VARIABLES store,    \* what is stored
          call      \* call[c]: the request c has under way, with its answer

---------------------------------------------------------------------------
(***************************************************************************)
(* The effect of each request r on the store s.                            *)
(***************************************************************************)
Swap(rows, old, new) == (rows \ old) \cup new
Given(x, old) == IF x = NULL THEN old ELSE x

\* Fault: the item is looked for in all lists.
ItemAnywhere(r, s) == {c \in s.content : c.id = r.item}

\* The item and the pantry item a request names, if its list has them.
Item(r, s) == {c \in s.content : c.list = r.list /\ c.id = r.item}
Stocked(r, s) == {q \in s.pantry : q.list = r.list /\ q.item = r.item}

Created(r, s, i) ==
  [s EXCEPT !.lists = @ \cup {[id |-> i, owner |-> r.user, name |-> r.name, pub |-> FALSE]}]

Deleted(r, s) ==
  [s EXCEPT !.lists   = {l \in @ : l.id # r.list},
            !.sharing = {t \in @ : t.list # r.list},
            !.content = {c \in @ : c.list # r.list},
            !.history = {h \in @ : h.list # r.list}]

Published(r, s, flag) ==
  [s EXCEPT !.lists = {IF l.id = r.list THEN [l EXCEPT !.pub = flag] ELSE l : l \in @}]

ItemAdded(r, s, i) ==
  [s EXCEPT !.content = @ \cup {[id |-> i, list |-> r.list, name |-> r.name,
                                 amount |-> r.amount, from_pantry |-> NoItem]},
            !.history = @ \cup {[list |-> r.list, creator |-> r.user, name |-> r.name]}]

ItemUpdated(r, s) ==
  [s EXCEPT !.content =
     Swap(@, Item(r, s), {[c EXCEPT !.name = Given(r.name, @), !.amount = Given(r.amount, @)] :
                            c \in Item(r, s)})]

\* The amount of an item that a refill made goes back to the pantry.
ItemRemoved(r, s) ==
  LET back(q) == {c \in Item(r, s) : c.from_pantry = q.item}
      credited(q) == [q EXCEPT !.amount = @ + Added((CHOOSE c \in back(q) : TRUE).amount)]
  IN [s EXCEPT !.content = @ \ Item(r, s),
               !.pantry = {IF back(q) = {} THEN q ELSE credited(q) : q \in @}]

\* A share that is there stays as it is.
Shared(r, s) ==
  IF SharedWith(s, r.with, r.list) THEN s
  ELSE [s EXCEPT !.sharing = @ \cup {[list |-> r.list, shared |-> r.with,
                                      readonly |-> r.readonly]}]

\* An account loses the list, and the list its history of names.
Unshared(r, s) ==
  [s EXCEPT !.sharing = {t \in @ : ~ (t.list = r.list /\ t.shared = r.with)},
            !.history = {h \in @ : ~ (h.list = r.list /\ h.creator = r.with)}]

UnsharedAll(r, s) ==
  [s EXCEPT !.sharing = {t \in @ : t.list # r.list},
            !.history = {h \in @ : h.list = r.list => h.creator = r.user}]

PantryAdded(r, s, i) ==
  [s EXCEPT !.pantry = @ \cup {[item |-> i, list |-> r.list, name |-> r.name,
                                target |-> r.target, amount |-> 0]}]

PantryUpdated(r, s) ==
  [s EXCEPT !.pantry =
     Swap(@, Stocked(r, s), {[q EXCEPT !.amount = Given(r.stock, @),
                                       !.target = Given(r.target, @)] : q \in Stocked(r, s)})]

PantryRemoved(r, s) ==
  [s EXCEPT !.pantry = @ \ Stocked(r, s),
            !.content = {c \in @ : ~ (c.list = r.list /\ c.from_pantry = r.item
                                             /\ c.from_pantry # NoItem)}]

\* What the pantry lacks becomes items, whether the list has them or not.
Lacking(r, s) == {q \in OfList(s.pantry, r.list) : q.amount < q.target}

Refilled(r, s, i) ==
  [s EXCEPT !.content = @ \cup
     {[id |-> i + q.item - 1, list |-> q.list, name |-> q.name,
       amount |-> q.target - q.amount, from_pantry |-> q.item] : q \in Lacking(r, s)}]

\* i is the id of what the request makes, if it makes anything.
Effect(r, s, i) ==
  CASE r.op = "create_list"        -> Created(r, s, i)
    [] r.op = "delete_list"        -> Deleted(r, s)
    [] r.op = "set_public"         -> Published(r, s, TRUE)
    [] r.op = "remove_public"      -> Published(r, s, FALSE)
    [] r.op = "add_list"           -> ItemAdded(r, s, i)
    [] r.op = "update_item"        -> ItemUpdated(r, s)
    [] r.op = "delete_item"        -> ItemRemoved(r, s)
    [] r.op = "share_list"         -> Shared(r, s)
    [] r.op = "unshare"            -> Unshared(r, s)
    [] r.op = "delete_shares"      -> UnsharedAll(r, s)
    [] r.op = "add_to_pantry"      -> PantryAdded(r, s, i)
    [] r.op = "set_pantry_item"    -> PantryUpdated(r, s)
    [] r.op = "delete_pantry_item" -> PantryRemoved(r, s)
    [] r.op = "refill_pantry"      -> Refilled(r, s, i)
    [] OTHER                       -> s

\* The rows the answer is made of.
Found(r, s) ==
  LET lists == {l \in OwnedLists(s, r.user) \cup SharedLists(s, r.user) :
                  r.op = "search_list" => l.name \in Like(r.name)}
  IN CASE r.op \in {"list_lists", "search_list"} ->
            [Empty EXCEPT !.lists = lists,
                          !.sharing = {t \in SharesOf(s, r.user) : \E l \in lists : l.id = t.list}]
       [] r.op = "history_search" ->
            [Empty EXCEPT !.history = {h \in OfList(s.history, r.list) :
                                         h.creator = r.user /\ h.name \in Like(r.name)}]
       [] r.op = "read_list" ->
            [Empty EXCEPT !.content = OfList(s.content, r.list),
                          !.sharing = OfList(SharesOf(s, r.user), r.list)]
       [] r.op = "get_public_list" -> [Empty EXCEPT !.content = OfList(s.content, r.list)]
       [] r.op = "get_shares" -> [Empty EXCEPT !.sharing = OfList(s.sharing, r.list)]
       [] r.op = "get_pantry" -> [Empty EXCEPT !.pantry = OfList(s.pantry, r.list)]
       [] OTHER -> Empty

---------------------------------------------------------------------------
(***************************************************************************)
(* When a request is served and when it is refused.                        *)
(***************************************************************************)
Taken(r, s) == \E l \in s.lists : l.owner = r.user /\ l.name = r.name

Allowed(r, s) ==
  /\ r.op = "create_list" => ~ Taken(r, s)
  /\ Needed(r.op) \in Rights(s, r.user, r.list) \cup {"none"}

\* Nothing has the id yet.
Fresh(r, s, i) ==
  /\ r.op = "create_list" => i \notin ListIds(s)
  /\ r.op = "add_to_pantry" => i \notin PantryItems(s)
  /\ r.op = "add_list" => \A c \in s.content : c.id # i
  /\ r.op = "refill_pantry" => \A q \in Lacking(r, s), c \in s.content : c.id # i + q.item - 1

\* Amounts are 32-bit integers, and nothing may be left that refers to what is
\* gone: the pantry of a list that is deleted.
Possible(r, s, t) ==
  /\ ReferencesHold(t)
  /\ \A q \in t.pantry \ s.pantry : InRange(q.amount)
  /\ r.op = "refill_pantry" => \A q \in Lacking(r, s) : InRange(q.target - q.amount)

\* The reasons to refuse r.  A connection that breaks while is_owner runs makes
\* the owner nobody.
Refusals(r, s) ==
  LET owns == Owns(s, r.user, r.list) /\ ~ (Failures /\ r.op \in Reading \cup Writing) IN
  {a \in Answers :
     \/ a = "Internal" /\ (Failures \/ \E i \in Ids : ~ Possible(r, s, Effect(r, s, i)))
     \/ a = "Internal" /\ r.op = "get_public_list" /\ r.list \notin ListIds(s)
     \/ a = "NotFound" /\ r.op = "get_public_list" /\ r.list \in ListIds(s) /\ ~ Allowed(r, s)
     \/ a = "ListAlreadyExists" /\ r.op = "create_list" /\ ~ Allowed(r, s)
     \/ a = "NoSuchList" /\ r.op \in Owning /\ ~ owns
     \/ /\ a = "NoSuchList" /\ r.op \in Reading \cup Writing
        /\ ~ owns /\ ~ SharedWith(s, r.user, r.list)
     \/ /\ a = "NotWritable" /\ r.op \in Writing
        /\ ~ owns /\ SharedWith(s, r.user, r.list) /\ ~ SharedToWrite(s, r.user, r.list)}

---------------------------------------------------------------------------
Free == [status |-> "free"]
Asked(r) == [status |-> "sent", req |-> r]
Reply(r, a, rows) == [status |-> "answered", req |-> r, answer |-> a, rows |-> rows]

Send(c, r) ==
  /\ call[c] = Free
  /\ call' = [call EXCEPT ![c] = Asked(r)]
  /\ UNCHANGED store

\* The answer to what was done may be lost.
Perform(c, i) ==
  /\ call[c].status = "sent"
  /\ LET r == call[c].req IN
     /\ Allowed(r, store) /\ Fresh(r, store, i)
     /\ Possible(r, store, Effect(r, store, i))
     /\ store' = Effect(r, store, i)
     /\ \/ call' = [call EXCEPT ![c] = Reply(r, "ok", Found(r, store))]
        \/ Failures /\ call' = [call EXCEPT ![c] = Reply(r, "Internal", Empty)]

Refuse(c) ==
  /\ call[c].status = "sent"
  /\ \E a \in Refusals(call[c].req, store) :
       call' = [call EXCEPT ![c] = Reply(call[c].req, a, Empty)]
  /\ UNCHANGED store

Leave(c) ==
  /\ call[c] # Free
  /\ call' = [call EXCEPT ![c] = Free]
  /\ UNCHANGED store

Init == store = InitialStore /\ call = [c \in Callers |-> Free]

service == <<store, call>>

\* The requests of the set R.
Next(R) ==
  \E c \in Callers :
    \/ \E r \in R : Send(c, r)
    \/ \E i \in Ids : Perform(c, i)
    \/ Refuse(c)
    \/ Leave(c)
=============================================================================

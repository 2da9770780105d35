---------------------------- MODULE ClientProofs ---------------------------
(***************************************************************************)
(* What the proofs about the clients need of the service and of the client *)
(* library: what each request does to the store, what it finds, and the    *)
(* types of what is stored and under way.                                  *)
(***************************************************************************)
EXTENDS Client, FiniteSetTheorems, SequenceTheorems, TLAPS

---------------------------------------------------------------------------
(***************************************************************************)
(* Types.                                                                  *)
(***************************************************************************)
\* What a request cannot do without.
Complete(r) ==
  /\ r.op \in {"create_list", "search_list", "add_list", "add_to_pantry"} => r.name # NULL
  /\ r.op = "add_to_pantry" => r.target # NULL

\* The service keeps the types.
LEMMA EffectType ==
  ASSUME NEW s \in Store, NEW r \in Request, Complete(r), NEW i \in Nat \ {0}
  PROVE  Effect(r, s, i) \in Store
  <1>1. /\ s.lists \subseteq ListRow /\ s.sharing \subseteq ShareRow
        /\ s.content \subseteq ContentRow /\ s.history \subseteq HistoryRow
        /\ s.pantry \subseteq PantryRow
        /\ r.list \in Nat /\ r.user \in Accounts /\ r.with \in Accounts /\ r.amount \in Amount
        /\ r.readonly \in BOOLEAN /\ r.name \in Names \cup {NULL}
        /\ r.stock \in Int \cup {NULL} /\ r.target \in Int \cup {NULL}
    BY DEF Store, Request
  <1>2. ASSUME r.op = "create_list" PROVE Created(r, s, i) \in Store
    <2> DEFINE l == [id |-> i, owner |-> r.user, name |-> r.name, pub |-> FALSE]
    <2>1. l \in ListRow
      BY <1>1, <1>2 DEF ListRow, Complete
    <2>2. Created(r, s, i) = [s EXCEPT !.lists = s.lists \cup {l}]
      BY DEF Created
    <2> HIDE DEF l
    <2> QED
      BY <1>1, <2>1, <2>2 DEF Store
  <1>3. ASSUME NEW b \in BOOLEAN PROVE Published(r, s, b) \in Store
    <2> DEFINE x == {IF l.id = r.list THEN [l EXCEPT !.pub = b] ELSE l : l \in s.lists}
    <2>1. x \subseteq ListRow
      BY <1>1 DEF ListRow
    <2>2. Published(r, s, b) = [s EXCEPT !.lists = x]
      BY DEF Published
    <2> HIDE DEF x
    <2> QED
      BY <1>1, <2>1, <2>2 DEF Store
  <1>4. Deleted(r, s) \in Store
    BY <1>1 DEF Deleted, Store
  <1>5. Shared(r, s) \in Store
    BY <1>1 DEF Shared, Store, ShareRow
  <1>6. Unshared(r, s) \in Store /\ UnsharedAll(r, s) \in Store
    BY <1>1 DEF Unshared, UnsharedAll, Store
  <1>7. ASSUME r.op = "add_list" PROVE ItemAdded(r, s, i) \in Store
    <2> DEFINE c == [id |-> i, list |-> r.list, name |-> r.name, amount |-> r.amount,
                     from_pantry |-> NoItem]
               h == [list |-> r.list, creator |-> r.user, name |-> r.name]
    <2>1. r.name \in Names
      BY <1>1, <1>7 DEF Complete
    <2>2. c \in ContentRow /\ h \in HistoryRow
      BY <1>1, <2>1 DEF ContentRow, HistoryRow, NoItem
    <2>3. ItemAdded(r, s, i)
            = [s EXCEPT !.content = s.content \cup {c}, !.history = s.history \cup {h}]
      BY Zenon DEF ItemAdded
    <2> HIDE DEF c, h
    <2>4. s.content \cup {c} \subseteq ContentRow /\ s.history \cup {h} \subseteq HistoryRow
      BY <1>1, <2>2
    <2> QED
      BY <2>3, <2>4 DEF Store
  <1>8. ItemUpdated(r, s) \in Store
    <2> DEFINE row(c) == [c EXCEPT !.name = Given(r.name, @), !.amount = Given(r.amount, @)]
               x == (s.content \ Item(r, s)) \cup {row(c) : c \in Item(r, s)}
    <2>1. \A c \in ContentRow : row(c) \in ContentRow
      BY <1>1 DEF ContentRow, Given, Amount
    <2> HIDE DEF row
    <2>2. x \subseteq ContentRow
      BY <1>1, <2>1 DEF Item
    <2>3. ItemUpdated(r, s) = [s EXCEPT !.content = x]
      BY DEF ItemUpdated, Swap, row
    <2> HIDE DEF x
    <2> QED
      BY <1>1, <2>2, <2>3 DEF Store
  <1>9. ItemRemoved(r, s) \in Store
    <2> DEFINE back(q) == {c \in Item(r, s) : c.from_pantry = q.item}
               credited(q) == [q EXCEPT !.amount =
                                 @ + Added((CHOOSE c \in back(q) : TRUE).amount)]
               x == s.content \ Item(r, s)
               y == {IF back(q) = {} THEN q ELSE credited(q) : q \in s.pantry}
    <2>1. \A c \in s.content : Added(c.amount) \in Int
      BY <1>1 DEF Added, ContentRow, Amount, InRange
    <2>2. ASSUME NEW q \in s.pantry, back(q) # {} PROVE credited(q) \in PantryRow
      <3> DEFINE c == CHOOSE d \in back(q) : TRUE
      <3>1. c \in s.content
        BY <2>2 DEF Item
      <3> HIDE DEF c
      <3>2. Added(c.amount) \in Int
        BY <2>1, <3>1
      <3>3. [q EXCEPT !.amount = @ + Added(c.amount)] \in PantryRow
        BY <1>1, <3>2 DEF PantryRow
      <3> QED
        BY <3>3 DEF c
    <2> HIDE DEF back, credited
    <2>3. y \subseteq PantryRow
      BY <1>1, <2>2
    <2>4. ItemRemoved(r, s) = [s EXCEPT !.content = x, !.pantry = y]
      BY DEF ItemRemoved, back, credited
    <2> HIDE DEF x, y
    <2>5. x \subseteq ContentRow
      BY <1>1 DEF x
    <2> QED
      BY <1>1, <2>3, <2>4, <2>5 DEF Store
  <1>10. ASSUME r.op = "add_to_pantry" PROVE PantryAdded(r, s, i) \in Store
    BY <1>1, <1>10 DEF PantryAdded, Store, PantryRow, Complete
  <1>11. PantryUpdated(r, s) \in Store
    <2> DEFINE row(q) == [q EXCEPT !.amount = Given(r.stock, @), !.target = Given(r.target, @)]
               x == (s.pantry \ Stocked(r, s)) \cup {row(q) : q \in Stocked(r, s)}
    <2>1. \A q \in PantryRow : row(q) \in PantryRow
      BY <1>1 DEF PantryRow, Given
    <2> HIDE DEF row
    <2>2. x \subseteq PantryRow
      BY <1>1, <2>1 DEF Stocked
    <2>3. PantryUpdated(r, s) = [s EXCEPT !.pantry = x]
      BY DEF PantryUpdated, Swap, row
    <2> HIDE DEF x
    <2> QED
      BY <1>1, <2>2, <2>3 DEF Store
  <1>12. PantryRemoved(r, s) \in Store
    BY <1>1 DEF PantryRemoved, Store, Stocked
  <1>13. Refilled(r, s, i) \in Store
    BY <1>1 DEF Refilled, Store, Lacking, OfList, PantryRow, ContentRow, Amount
  <1> QED
    BY <1>2, <1>3, <1>4, <1>5, <1>6, <1>7, <1>8, <1>9, <1>10, <1>11, <1>12, <1>13 DEF Effect

LEMMA FoundType ==
  ASSUME NEW s \in Store, NEW r
  PROVE  Found(r, s) \in Store
  <1> DEFINE lists == {l \in OwnedLists(s, r.user) \cup SharedLists(s, r.user) :
                         r.op = "search_list" => l.name \in Like(r.name)}
             shares == {t \in SharesOf(s, r.user) : \E l \in lists : l.id = t.list}
  <1>1. lists \subseteq ListRow /\ shares \subseteq ShareRow
    BY DEF Store, OwnedLists, SharedLists, SharesOf
  <1>2. CASE r.op \in {"list_lists", "search_list"}
    <2>1. Found(r, s) = [Empty EXCEPT !.lists = lists, !.sharing = shares]
      BY <1>2 DEF Found
    <2> HIDE DEF lists, shares
    <2> QED
      BY <1>1, <2>1 DEF Empty, Store
  <1>3. CASE r.op = "history_search"
    BY <1>3 DEF Found, Empty, Store, OfList
  <1>4. CASE r.op = "read_list"
    BY <1>4 DEF Found, Empty, Store, OfList, SharesOf
  <1>5. CASE r.op = "get_public_list"
    BY <1>5 DEF Found, Empty, Store, OfList
  <1>6. CASE r.op = "get_shares"
    BY <1>6 DEF Found, Empty, Store, OfList
  <1>7. CASE r.op = "get_pantry"
    BY <1>7 DEF Found, Empty, Store, OfList
  <1>8. CASE r.op \notin {"list_lists", "search_list", "history_search", "read_list",
                          "get_public_list", "get_shares", "get_pantry"}
    BY <1>8 DEF Found, Empty, Store
  <1> QED
    BY <1>2, <1>3, <1>4, <1>5, <1>6, <1>7, <1>8

\* The rows that the reads of a front end find.
LEMMA FoundRows ==
  ASSUME NEW s, NEW r
  PROVE  /\ r.op = "read_list" => Found(r, s).content = OfList(s.content, r.list)
         /\ r.op = "get_pantry" => Found(r, s).pantry = OfList(s.pantry, r.list)
         /\ r.op = "get_shares" => Found(r, s).sharing = OfList(s.sharing, r.list)
         /\ r.op = "list_lists" =>
              Found(r, s).lists = OwnedLists(s, r.user) \cup SharedLists(s, r.user)
         /\ r.op = "search_list" =>
              Found(r, s).lists = {l \in OwnedLists(s, r.user) \cup SharedLists(s, r.user) :
                                     l.name \in Like(r.name)}
  BY DEF Found, Empty

---------------------------------------------------------------------------
(***************************************************************************)
(* What a request changes and what it leaves alone.                        *)
(***************************************************************************)
\* The requests that write items, and those that write the pantry.
ItemWriters == {"delete_list", "add_list", "update_item", "delete_item", "delete_pantry_item",
                "refill_pantry"}
PantryWriters == {"delete_item", "add_to_pantry", "set_pantry_item", "delete_pantry_item"}

LEMMA ItemsLeft ==
  ASSUME NEW s \in Store, NEW r, NEW i, r.op \notin ItemWriters
  PROVE  Effect(r, s, i).content = s.content
  <1>1. Created(r, s, i).content = s.content /\ Shared(r, s).content = s.content
    BY DEF Created, Shared, Store
  <1>2. Unshared(r, s).content = s.content /\ UnsharedAll(r, s).content = s.content
    BY DEF Unshared, UnsharedAll, Store
  <1>3. PantryUpdated(r, s).content = s.content /\ PantryAdded(r, s, i).content = s.content
    BY DEF PantryUpdated, PantryAdded, Store
  <1>4. Published(r, s, TRUE).content = s.content /\ Published(r, s, FALSE).content = s.content
    BY DEF Published, Store
  <1> QED
    BY <1>1, <1>2, <1>3, <1>4 DEF Effect, ItemWriters

LEMMA PantryLeft ==
  ASSUME NEW s \in Store, NEW r, NEW i, r.op \notin PantryWriters
  PROVE  Effect(r, s, i).pantry = s.pantry
  <1>1. Created(r, s, i).pantry = s.pantry /\ Shared(r, s).pantry = s.pantry
    BY DEF Created, Shared, Store
  <1>2. Unshared(r, s).pantry = s.pantry /\ UnsharedAll(r, s).pantry = s.pantry
    BY DEF Unshared, UnsharedAll, Store
  <1>3. ItemAdded(r, s, i).pantry = s.pantry /\ ItemUpdated(r, s).pantry = s.pantry
    BY DEF ItemAdded, ItemUpdated, Store
  <1>4. Published(r, s, TRUE).pantry = s.pantry /\ Published(r, s, FALSE).pantry = s.pantry
    BY DEF Published, Store
  <1>5. Deleted(r, s).pantry = s.pantry /\ Refilled(r, s, i).pantry = s.pantry
    BY DEF Deleted, Refilled, Store
  <1> QED
    BY <1>1, <1>2, <1>3, <1>4, <1>5 DEF Effect, PantryWriters

\* The rows that go, or whose versions go, are those the request names.
LEMMA ListsGone ==
  ASSUME NEW s \in Store, NEW r, NEW i, NEW l \in s.lists \ Effect(r, s, i).lists
  PROVE  /\ l.id = r.list
         /\ IF l.id \in ListIds(Effect(r, s, i)) THEN r.op \in {"set_public", "remove_public"}
            ELSE r.op = "delete_list"
  <1>1. s.lists \subseteq Created(r, s, i).lists /\ s.lists = Shared(r, s).lists
    BY DEF Created, Shared, Store
  <1>2. s.lists = Unshared(r, s).lists /\ s.lists = UnsharedAll(r, s).lists
    BY DEF Unshared, UnsharedAll, Store
  <1>3. s.lists = ItemAdded(r, s, i).lists /\ s.lists = ItemUpdated(r, s).lists
    BY DEF ItemAdded, ItemUpdated, Store
  <1>4. s.lists = ItemRemoved(r, s).lists /\ s.lists = PantryAdded(r, s, i).lists
    BY DEF ItemRemoved, PantryAdded, Store
  <1>5. s.lists = PantryUpdated(r, s).lists /\ s.lists = PantryRemoved(r, s).lists
          /\ s.lists = Refilled(r, s, i).lists
    BY DEF PantryUpdated, PantryRemoved, Refilled, Store
  <1>6. /\ l \notin Deleted(r, s).lists => l.id = r.list
        /\ r.list \notin ListIds(Deleted(r, s))
    BY DEF Deleted, Store, ListIds
  <1>7. ASSUME NEW b \in BOOLEAN
        PROVE  /\ l \notin Published(r, s, b).lists => l.id = r.list
               /\ l.id \in ListIds(Published(r, s, b))
    <2> DEFINE flagged(k) == IF k.id = r.list THEN [k EXCEPT !.pub = b] ELSE k
    <2>1. Published(r, s, b).lists = {flagged(k) : k \in s.lists}
      BY DEF Published, Store
    <2>2. l \in ListRow /\ flagged(l).id = l.id
      BY DEF Store, ListRow
    <2>3. l.id # r.list => flagged(l) = l
      OBVIOUS
    <2> QED
      BY <2>1, <2>2, <2>3 DEF ListIds
  <1> QED
    BY <1>1, <1>2, <1>3, <1>4, <1>5, <1>6, <1>7 DEF Effect

LEMMA SharesGone ==
  ASSUME NEW s \in Store, NEW r, NEW i, NEW t \in s.sharing \ Effect(r, s, i).sharing
  PROVE  /\ r.op \in {"delete_list", "unshare", "delete_shares"} /\ t.list = r.list
         /\ r.op = "unshare" => t.shared = r.with
  <1>1. s.sharing = Created(r, s, i).sharing /\ s.sharing \subseteq Shared(r, s).sharing
    BY DEF Created, Shared, Store
  <1>2. /\ s.sharing = Published(r, s, TRUE).sharing
        /\ s.sharing = Published(r, s, FALSE).sharing
    BY DEF Published, Store
  <1>3. s.sharing = ItemAdded(r, s, i).sharing /\ s.sharing = ItemUpdated(r, s).sharing
    BY DEF ItemAdded, ItemUpdated, Store
  <1>4. s.sharing = ItemRemoved(r, s).sharing /\ s.sharing = PantryAdded(r, s, i).sharing
    BY DEF ItemRemoved, PantryAdded, Store
  <1>5. s.sharing = PantryUpdated(r, s).sharing /\ s.sharing = PantryRemoved(r, s).sharing
          /\ s.sharing = Refilled(r, s, i).sharing
    BY DEF PantryUpdated, PantryRemoved, Refilled, Store
  <1>6. t \notin Deleted(r, s).sharing => t.list = r.list
    BY DEF Deleted, Store
  <1>7. t \notin Unshared(r, s).sharing => t.list = r.list /\ t.shared = r.with
    BY DEF Unshared, Store
  <1>8. t \notin UnsharedAll(r, s).sharing => t.list = r.list
    BY DEF UnsharedAll, Store
  <1> QED
    BY <1>1, <1>2, <1>3, <1>4, <1>5, <1>6, <1>7, <1>8 DEF Effect

LEMMA ItemsGone ==
  ASSUME NEW s \in Store, NEW r, NEW i, NEW c \in s.content \ Effect(r, s, i).content
  PROVE  /\ c.list = r.list
         /\ \/ r.op = "delete_list"
            \/ r.op \in {"update_item", "delete_item"} /\ c.id = r.item
            \/ r.op = "delete_pantry_item" /\ c.from_pantry = r.item /\ c.from_pantry # NoItem
  <1>1. r.op \in ItemWriters
    BY ItemsLeft
  <1>2. CASE r.op = "delete_list"
    BY <1>2 DEF Effect, Deleted, Store
  <1>3. CASE r.op = "update_item"
    BY <1>3 DEF Effect, ItemUpdated, Swap, Item, Store
  <1>4. CASE r.op = "delete_item"
    BY <1>4 DEF Effect, ItemRemoved, Item, Store
  <1>5. CASE r.op = "delete_pantry_item"
    BY <1>5 DEF Effect, PantryRemoved, Store
  <1>6. CASE r.op \in {"add_list", "refill_pantry"}
    <2>1. s.content \subseteq ItemAdded(r, s, i).content
      BY DEF ItemAdded, Store
    <2>2. s.content \subseteq Refilled(r, s, i).content
      BY DEF Refilled, Store
    <2> QED
      BY <1>6, <2>1, <2>2 DEF Effect
  <1> QED
    BY <1>1, <1>2, <1>3, <1>4, <1>5, <1>6 DEF ItemWriters

\* An amount changes too when an item that came from it is removed.
LEMMA PantryGone ==
  ASSUME NEW s \in Store, NEW r, NEW i, NEW q \in s.pantry \ Effect(r, s, i).pantry
  PROVE  \/ r.op \in {"set_pantry_item", "delete_pantry_item"} /\ q.list = r.list
              /\ q.item = r.item
         \/ \E c \in s.content \ Effect(r, s, i).content : c.from_pantry = q.item
  <1>1. r.op \in PantryWriters
    BY PantryLeft
  <1>2. CASE r.op = "delete_item"
    <2> DEFINE back(x) == {c \in Item(r, s) : c.from_pantry = x.item}
    <2>1. Effect(r, s, i) = ItemRemoved(r, s)
      BY <1>2 DEF Effect
    <2>2. back(q) # {}
      BY <2>1 DEF ItemRemoved, Store
    <2>3. PICK c \in Item(r, s) : c.from_pantry = q.item
      BY <2>2
    <2>4. ItemRemoved(r, s).content = s.content \ Item(r, s)
      BY DEF ItemRemoved, Store
    <2>5. c \in s.content \ Effect(r, s, i).content
      BY <2>1, <2>3, <2>4 DEF Item
    <2> QED
      BY <2>3, <2>5
  <1>3. CASE r.op = "add_to_pantry"
    BY <1>3 DEF Effect, PantryAdded, Store
  <1>4. CASE r.op = "set_pantry_item"
    BY <1>4 DEF Effect, PantryUpdated, Swap, Stocked, Store
  <1>5. CASE r.op = "delete_pantry_item"
    BY <1>5 DEF Effect, PantryRemoved, Stocked, Store
  <1> QED
    BY <1>1, <1>2, <1>3, <1>4, <1>5 DEF PantryWriters

---------------------------------------------------------------------------
(***************************************************************************)
(* Callers and their requests.                                             *)
(***************************************************************************)
SentCall == [status : {"sent"}, req : Request]
AnsweredCall == [status : {"answered"}, req : Request, answer : Answers, rows : Store]

CallsOK(k) ==
  /\ k \in [Callers -> {Free} \cup SentCall \cup AnsweredCall]
  /\ \A c \in Callers : k[c] # Free => Complete(k[c].req)

ClientInv ==
  /\ store \in Store /\ ReferencesHold(store) /\ next \in Nat \ {0}
  /\ CallsOK(call)

\* A caller is free, waits for an answer or has one.
LEMMA CallKinds ==
  ASSUME NEW k, CallsOK(k), NEW c \in Callers
  PROVE  /\ k[c] = Free \/ k[c] \in SentCall \/ k[c] \in AnsweredCall
         /\ k[c].status = "sent" <=> k[c] \in SentCall
         /\ k[c].status = "answered" <=> k[c] \in AnsweredCall
         /\ k[c] \in SentCall \cup AnsweredCall =>
              k[c] # Free /\ k[c].req \in Request /\ Complete(k[c].req)
  BY DEF CallsOK, Free, SentCall, AnsweredCall

LEMMA AskType ==
  ASSUME NEW op \in Operations, NEW me \in Accounts, NEW l \in Nat
  PROVE  /\ Ask(op, me, l) \in Request
         /\ op \notin {"create_list", "search_list", "add_list", "add_to_pantry"} =>
              Complete(Ask(op, me, l))
  BY DEF Ask, Request, Complete, NoItem, Amount

\* One call after another one.
LEMMA AskedCalls ==
  ASSUME NEW k, CallsOK(k), NEW c \in Callers, NEW r \in Request, Complete(r)
  PROVE  /\ CallsOK([k EXCEPT ![c] = Asked(r)])
         /\ [k EXCEPT ![c] = Asked(r)][c] = Asked(r)
         /\ Asked(r).status = "sent" /\ Asked(r).req = r /\ Asked(r) # Free
  BY DEF CallsOK, Asked, SentCall, Free

LEMMA SendKeeps ==
  ASSUME ClientInv, NEW c \in Callers, NEW r \in Request, Complete(r),
         Send(c, r) \/ SendNext(c, r), UNCHANGED next
  PROVE  /\ ClientInv' /\ UNCHANGED store
         /\ call' = [call EXCEPT ![c] = Asked(r)]
  BY AskedCalls DEF ClientInv, Send, SendNext

LEMMA LeaveKeeps ==
  ASSUME ClientInv, NEW c \in Callers, Leave(c), UNCHANGED next
  PROVE  ClientInv' /\ UNCHANGED store /\ call' = [call EXCEPT ![c] = Free]
  BY DEF ClientInv, Leave, CallsOK

\* A request is served: as the service says, and unless its answer is lost, with
\* the rows there were.
LEMMA ServeKeeps ==
  ASSUME ClientInv, NEW c \in Callers, Serve(c)
  PROVE  /\ ClientInv' /\ \A d \in Callers \ {c} : call'[d] = call[d]
         /\ call[c] \in SentCall /\ Answered(c)' /\ call'[c].req = call[c].req
         /\ \/ UNCHANGED store /\ ~ Succeeded(c)'
            \/ \E i \in Nat \ {0} :
                 /\ Allowed(call[c].req, store)
                 /\ store' = Effect(call[c].req, store, i)
                 /\ Succeeded(c)' => call'[c].rows = Found(call[c].req, store)
  <1> DEFINE r == call[c].req
  <1>1. call[c] \in SentCall /\ r \in Request /\ Complete(r)
    BY CallKinds DEF Serve, Perform, Refuse, ClientInv
  <1>2. ASSUME NEW a \in Answers, NEW rows \in Store, call' = [call EXCEPT ![c] = Reply(r, a, rows)]
        PROVE  /\ CallsOK(call') /\ \A d \in Callers \ {c} : call'[d] = call[d]
               /\ Answered(c)' /\ call'[c].req = r
               /\ Succeeded(c)' <=> a = "ok"
               /\ call'[c].rows = rows
    BY <1>1, <1>2 DEF Reply, CallsOK, AnsweredCall, ClientInv, Answered, Succeeded
  <1>3. Empty \in Store /\ "ok" \in Answers /\ "Internal" \in Answers
    BY DEF Empty, Store, Answers
  <1>4. CASE Perform(c, next) /\ next' = next + IdsUsed(r)
    <2>1. /\ Allowed(r, store) /\ store' = Effect(r, store, next)
          /\ ReferencesHold(store')
      BY <1>4 DEF Perform, Possible
    <2>2. store' \in Store /\ next' \in Nat \ {0}
      BY <1>1, <1>4, <2>1, EffectType DEF ClientInv, IdsUsed
    <2>3. Found(r, store) \in Store
      BY FoundType DEF ClientInv
    <2>4. \/ call' = [call EXCEPT ![c] = Reply(r, "ok", Found(r, store))]
          \/ call' = [call EXCEPT ![c] = Reply(r, "Internal", Empty)]
      BY <1>4 DEF Perform
    <2>5. /\ CallsOK(call') /\ \A d \in Callers \ {c} : call'[d] = call[d]
          /\ Answered(c)' /\ call'[c].req = r
          /\ Succeeded(c)' => call'[c].rows = Found(r, store)
      BY <1>2, <1>3, <2>3, <2>4
    <2> HIDE DEF r
    <2> QED
      BY <1>1, <2>1, <2>2, <2>5 DEF ClientInv, r
  <1>5. CASE Refuse(c) /\ UNCHANGED next
    <2>1. PICK a \in Refusals(r, store) : call' = [call EXCEPT ![c] = Reply(r, a, Empty)]
      BY <1>5 DEF Refuse
    <2>2. a \in Answers /\ a # "ok"
      BY DEF Refusals
    <2> QED
      BY <1>1, <1>2, <1>3, <1>5, <2>1, <2>2 DEF ClientInv, Refuse
  <1> QED
    BY <1>4, <1>5 DEF Serve

=============================================================================

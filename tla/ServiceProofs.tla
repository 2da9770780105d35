---------------------------- MODULE ServiceProofs ---------------------------
(***************************************************************************)
(* The server implements the service its clients see, as long as requests  *)
(* do not overlap inside it: the proof, for any number of workers,         *)
(* accounts, names and requests, and what the service promises on top.     *)
(***************************************************************************)
EXTENDS Refinement, ServerProofs

\* Requests do not overlap: one worker at a time has one.
Serial == \A p, q \in Workers : pc[p] # "idle" /\ pc[q] # "idle" => p = q

---------------------------------------------------------------------------
(***************************************************************************)
(* The service and the server mean the same by their common words.         *)
(***************************************************************************)
LEMMA SameWords ==
  /\ Service!Empty = Empty /\ Service!NoItem = NoItem
  /\ Service!Reading = Reading /\ Service!Writing = Writing
  /\ Service!Owning = Owning /\ Service!Answers = Answers
  /\ \A op : Service!Needed(op) = Needed(op)
  /\ \A n : Service!InRange(n) = InRange(n)
  /\ \A n : Service!Like(n) = Like(n)
  /\ \A n : Service!Added(n) = Added(n)
  BY DEF Service!Empty, Empty, Service!NoItem, NoItem, Service!Reading, Reading,
         Service!Writing, Writing, Service!Owning, Owning, Service!Answers, Answers,
         Service!Needed, Needed, Service!InRange, InRange, Service!MinInt, MinInt,
         Service!Like, Like, Service!Added, Added

LEMMA SameStores ==
  /\ \A s : Service!ListIds(s) = ListIds(s)
  /\ \A s : Service!PantryItems(s) = PantryItems(s)
  /\ \A s : Service!ReferencesHold(s) = ReferencesHold(s)
  /\ \A s, u, l : Service!Owns(s, u, l) = Owns(s, u, l)
  /\ \A s, u, l : Service!SharedWith(s, u, l) = SharedWith(s, u, l)
  /\ \A s, u, l : Service!SharedToWrite(s, u, l) = SharedToWrite(s, u, l)
  /\ \A s, u, l : Service!Rights(s, u, l) = Rights(s, u, l)
  /\ \A rows, l : Service!OfList(rows, l) = OfList(rows, l)
  /\ \A s, u : Service!OwnedLists(s, u) = OwnedLists(s, u)
  /\ \A s, u : Service!SharedLists(s, u) = SharedLists(s, u)
  /\ \A s, u : Service!SharesOf(s, u) = SharesOf(s, u)
  BY DEF Service!ListIds, ListIds, Service!PantryItems, PantryItems,
         Service!ReferencesHold, ReferencesHold, Service!Owns, Owns,
         Service!SharedWith, SharedWith, Service!SharedToWrite, SharedToWrite,
         Service!Rights, Rights, Service!OfList, OfList, Service!OwnedLists, OwnedLists,
         Service!SharedLists, SharedLists, Service!SharesOf, SharesOf, NoItem, Service!NoItem

---------------------------------------------------------------------------
(***************************************************************************)
(* The effect of each request, table by table.                             *)
(***************************************************************************)
Holding(l, sh, c, h, q) ==
  [lists |-> l, sharing |-> sh, content |-> c, history |-> h, pantry |-> q]

\* A store is its five tables, one of which may be replaced.
LEMMA StoreTables ==
  ASSUME NEW s \in Store, NEW x
  PROVE  /\ s = Holding(s.lists, s.sharing, s.content, s.history, s.pantry)
         /\ [s EXCEPT !.lists = x] = Holding(x, s.sharing, s.content, s.history, s.pantry)
         /\ [s EXCEPT !.sharing = x] = Holding(s.lists, x, s.content, s.history, s.pantry)
         /\ [s EXCEPT !.content = x] = Holding(s.lists, s.sharing, x, s.history, s.pantry)
         /\ [s EXCEPT !.pantry = x] = Holding(s.lists, s.sharing, s.content, s.history, x)
  BY DEF Store, Holding

\* Or two.
LEMMA TwoTables ==
  ASSUME NEW s \in Store, NEW x, NEW y
  PROVE  /\ [s EXCEPT !.content = x, !.history = y]
              = Holding(s.lists, s.sharing, x, y, s.pantry)
         /\ [s EXCEPT !.sharing = x, !.history = y]
              = Holding(s.lists, x, s.content, y, s.pantry)
  <1> DEFINE c == Holding(s.lists, s.sharing, x, s.history, s.pantry)
             t == Holding(s.lists, x, s.content, s.history, s.pantry)
  <1>1. [s EXCEPT !.content = x] = c /\ [s EXCEPT !.sharing = x] = t
    BY StoreTables
  <1>2. /\ [c EXCEPT !.history = y] = Holding(s.lists, s.sharing, x, y, s.pantry)
        /\ [t EXCEPT !.history = y] = Holding(s.lists, x, s.content, y, s.pantry)
    BY DEF Holding
  <1>3. /\ [s EXCEPT !.content = x, !.history = y] = [c EXCEPT !.history = y]
        /\ [s EXCEPT !.sharing = x, !.history = y] = [t EXCEPT !.history = y]
    BY <1>1, Zenon
  <1> QED
    BY <1>2, <1>3, Zenon

\* The items and the pantry, in one order or the other.
LEMMA ItemTables ==
  ASSUME NEW s \in Store, NEW x, NEW y
  PROVE  /\ [s EXCEPT !.content = x, !.pantry = y]
              = Holding(s.lists, s.sharing, x, s.history, y)
         /\ [s EXCEPT !.pantry = y, !.content = x]
              = Holding(s.lists, s.sharing, x, s.history, y)
  <1> DEFINE c == Holding(s.lists, s.sharing, x, s.history, s.pantry)
             q == Holding(s.lists, s.sharing, s.content, s.history, y)
  <1>1. [s EXCEPT !.content = x] = c /\ [s EXCEPT !.pantry = y] = q
    BY StoreTables
  <1>2. /\ [c EXCEPT !.pantry = y] = Holding(s.lists, s.sharing, x, s.history, y)
        /\ [q EXCEPT !.content = x] = Holding(s.lists, s.sharing, x, s.history, y)
    BY DEF Holding
  <1>3. /\ [s EXCEPT !.content = x, !.pantry = y] = [c EXCEPT !.pantry = y]
        /\ [s EXCEPT !.pantry = y, !.content = x] = [q EXCEPT !.content = x]
    BY <1>1, Zenon
  <1> QED
    BY <1>2, <1>3, Zenon

\* Or all but the pantry.
LEMMA FourTables ==
  ASSUME NEW s \in Store, NEW l, NEW t, NEW c, NEW h
  PROVE  [s EXCEPT !.lists = l, !.sharing = t, !.content = c, !.history = h]
           = Holding(l, t, c, h, s.pantry)
  <1> DEFINE one == Holding(l, s.sharing, s.content, s.history, s.pantry)
             two == Holding(l, t, s.content, s.history, s.pantry)
             three == Holding(l, t, c, s.history, s.pantry)
  <1>1. [s EXCEPT !.lists = l] = one
    BY StoreTables
  <1>2. /\ [one EXCEPT !.sharing = t] = two
        /\ [two EXCEPT !.content = c] = three
        /\ [three EXCEPT !.history = h] = Holding(l, t, c, h, s.pantry)
    BY DEF Holding
  <1>3. [s EXCEPT !.lists = l, !.sharing = t] = two
    BY <1>1, <1>2, Zenon
  <1>4. [s EXCEPT !.lists = l, !.sharing = t, !.content = c] = three
    BY <1>2, <1>3, Zenon
  <1> QED
    BY <1>2, <1>4, Zenon

\* Requests about the list itself and about who shares it.
LEMMA ListEffects ==
  ASSUME NEW s \in Store, NEW r, NEW i
  PROVE  /\ r.op = "create_list" =>
              Service!Effect(r, s, i) =
                Holding(s.lists \cup {[id |-> i, owner |-> r.user, name |-> r.name, pub |-> FALSE]},
                       s.sharing, s.content, s.history, s.pantry)
         /\ r.op = "delete_list" =>
              Service!Effect(r, s, i) =
                Holding({l \in s.lists : l.id # r.list}, {t \in s.sharing : t.list # r.list},
                       {c \in s.content : c.list # r.list}, {h \in s.history : h.list # r.list},
                       s.pantry)
         /\ r.op \in {"set_public", "remove_public"} =>
              Service!Effect(r, s, i) =
                Holding({IF l.id = r.list THEN [l EXCEPT !.pub = (r.op = "set_public")] ELSE l :
                          l \in s.lists}, s.sharing, s.content, s.history, s.pantry)
         /\ r.op = "share_list" =>
              Service!Effect(r, s, i) =
                IF SharedWith(s, r.with, r.list) THEN s
                ELSE Holding(s.lists, s.sharing \cup {[list |-> r.list, shared |-> r.with,
                                                      readonly |-> r.readonly]},
                            s.content, s.history, s.pantry)
         /\ r.op = "unshare" =>
              Service!Effect(r, s, i) =
                Holding(s.lists, {t \in s.sharing : ~ (t.list = r.list /\ t.shared = r.with)},
                       s.content, {h \in s.history : ~ (h.list = r.list /\ h.creator = r.with)},
                       s.pantry)
         /\ r.op = "delete_shares" =>
              Service!Effect(r, s, i) =
                Holding(s.lists, {t \in s.sharing : t.list # r.list}, s.content,
                       {h \in s.history : h.list = r.list => h.creator = r.user}, s.pantry)
  <1>1. ASSUME r.op = "create_list"
        PROVE  Service!Effect(r, s, i) =
                 Holding(s.lists \cup {[id |-> i, owner |-> r.user, name |-> r.name, pub |-> FALSE]},
                         s.sharing, s.content, s.history, s.pantry)
    <2>1. Service!Effect(r, s, i) = Service!Created(r, s, i)
      BY <1>1 DEF Service!Effect
    <2> QED
      BY <2>1, StoreTables, Zenon DEF Service!Created
  <1>2. ASSUME r.op = "delete_list"
        PROVE  Service!Effect(r, s, i) =
                 Holding({l \in s.lists : l.id # r.list}, {t \in s.sharing : t.list # r.list},
                         {c \in s.content : c.list # r.list}, {h \in s.history : h.list # r.list},
                         s.pantry)
    <2>1. Service!Effect(r, s, i) = Service!Deleted(r, s)
      BY <1>2 DEF Service!Effect
    <2> QED
      BY <2>1, FourTables, Zenon DEF Service!Deleted
  <1>3. ASSUME r.op \in {"set_public", "remove_public"}
        PROVE  Service!Effect(r, s, i) =
                 Holding({IF l.id = r.list THEN [l EXCEPT !.pub = (r.op = "set_public")] ELSE l :
                            l \in s.lists}, s.sharing, s.content, s.history, s.pantry)
    <2>1. Service!Effect(r, s, i) = Service!Published(r, s, r.op = "set_public")
      <3>1. CASE r.op = "set_public"
        <4>1. (r.op = "set_public") = TRUE
          BY <3>1
        <4>2. Service!Effect(r, s, i) = Service!Published(r, s, TRUE)
          BY <3>1 DEF Service!Effect
        <4> QED
          BY <4>1, <4>2
      <3>2. CASE r.op = "remove_public"
        <4>1. (r.op = "set_public") = FALSE
          BY <3>2
        <4>2. Service!Effect(r, s, i) = Service!Published(r, s, FALSE)
          BY <3>2 DEF Service!Effect
        <4> QED
          BY <4>1, <4>2
      <3> QED
        BY <1>3, <3>1, <3>2
    <2> QED
      BY <2>1, StoreTables, Zenon DEF Service!Published
  <1>4. ASSUME r.op = "share_list"
        PROVE  Service!Effect(r, s, i) =
                 IF SharedWith(s, r.with, r.list) THEN s
                 ELSE Holding(s.lists, s.sharing \cup {[list |-> r.list, shared |-> r.with,
                                                        readonly |-> r.readonly]},
                              s.content, s.history, s.pantry)
    <2>1. Service!Effect(r, s, i) = Service!Shared(r, s)
      BY <1>4 DEF Service!Effect
    <2>2. Service!SharedWith(s, r.with, r.list) = SharedWith(s, r.with, r.list)
      BY SameStores
    <2> DEFINE new == [list |-> r.list, shared |-> r.with, readonly |-> r.readonly]
    <2>3. [s EXCEPT !.sharing = @ \cup {new}]
            = Holding(s.lists, s.sharing \cup {new}, s.content, s.history, s.pantry)
      BY StoreTables, Zenon
    <2> QED
      BY <2>1, <2>2, <2>3, Zenon DEF Service!Shared
  <1>5. ASSUME r.op = "unshare"
        PROVE  Service!Effect(r, s, i) =
                 Holding(s.lists, {t \in s.sharing : ~ (t.list = r.list /\ t.shared = r.with)},
                         s.content,
                         {h \in s.history : ~ (h.list = r.list /\ h.creator = r.with)}, s.pantry)
    <2>1. Service!Effect(r, s, i) = Service!Unshared(r, s)
      BY <1>5 DEF Service!Effect
    <2> DEFINE x == {t \in s.sharing : ~ (t.list = r.list /\ t.shared = r.with)}
               y == {h \in s.history : ~ (h.list = r.list /\ h.creator = r.with)}
    <2>2. Service!Unshared(r, s) = [s EXCEPT !.sharing = x, !.history = y]
      BY Zenon DEF Service!Unshared
    <2> HIDE DEF x, y
    <2>3. Service!Unshared(r, s) = Holding(s.lists, x, s.content, y, s.pantry)
      BY <2>2, TwoTables, Zenon
    <2> QED
      BY <2>1, <2>3 DEF x, y
  <1>6. ASSUME r.op = "delete_shares"
        PROVE  Service!Effect(r, s, i) =
                 Holding(s.lists, {t \in s.sharing : t.list # r.list}, s.content,
                         {h \in s.history : h.list = r.list => h.creator = r.user}, s.pantry)
    <2>1. Service!Effect(r, s, i) = Service!UnsharedAll(r, s)
      BY <1>6 DEF Service!Effect
    <2> DEFINE x == {t \in s.sharing : t.list # r.list}
               y == {h \in s.history : h.list = r.list => h.creator = r.user}
    <2>2. Service!UnsharedAll(r, s) = [s EXCEPT !.sharing = x, !.history = y]
      BY Zenon DEF Service!UnsharedAll
    <2> HIDE DEF x, y
    <2>3. Service!UnsharedAll(r, s) = Holding(s.lists, x, s.content, y, s.pantry)
      BY <2>2, TwoTables, Zenon
    <2> QED
      BY <2>1, <2>3 DEF x, y
  <1> QED
    BY <1>1, <1>2, <1>3, <1>4, <1>5, <1>6

\* What becomes of the amount of an item that goes: it is added to the pantry
\* row the item came from, if the list has the item.
Back(r, s, q) == {c \in Service!Item(r, s) : c.from_pantry = q.item}
Restocked(r, s) ==
  {IF Back(r, s, q) = {} THEN q
   ELSE [q EXCEPT !.amount = q.amount + Service!Added((CHOOSE c \in Back(r, s, q) : TRUE).amount)] :
     q \in s.pantry}

\* Requests about items.
LEMMA ItemEffects ==
  ASSUME NEW s \in Store, NEW r, NEW i
  PROVE  /\ r.op = "add_list" =>
              Service!Effect(r, s, i) =
                Holding(s.lists, s.sharing,
                        s.content \cup {[id |-> i, list |-> r.list, name |-> r.name,
                                         amount |-> r.amount, from_pantry |-> NoItem]},
                        s.history \cup {[list |-> r.list, creator |-> r.user, name |-> r.name]},
                        s.pantry)
         /\ r.op = "update_item" =>
              Service!Effect(r, s, i) =
                Holding(s.lists, s.sharing,
                        (s.content \ Service!Item(r, s)) \cup
                          {[c EXCEPT !.name = Service!Given(r.name, @),
                                     !.amount = Service!Given(r.amount, @)] :
                             c \in Service!Item(r, s)},
                        s.history, s.pantry)
         /\ r.op = "delete_item" =>
              Service!Effect(r, s, i) =
                Holding(s.lists, s.sharing, s.content \ Service!Item(r, s), s.history,
                        Restocked(r, s))
  <1>1. ASSUME r.op = "add_list"
        PROVE  Service!Effect(r, s, i) =
                 Holding(s.lists, s.sharing,
                         s.content \cup {[id |-> i, list |-> r.list, name |-> r.name,
                                          amount |-> r.amount, from_pantry |-> NoItem]},
                         s.history \cup {[list |-> r.list, creator |-> r.user, name |-> r.name]},
                         s.pantry)
    <2> DEFINE c == [id |-> i, list |-> r.list, name |-> r.name, amount |-> r.amount,
                     from_pantry |-> NoItem]
               h == [list |-> r.list, creator |-> r.user, name |-> r.name]
    <2>1. Service!Effect(r, s, i) = Service!ItemAdded(r, s, i)
      BY <1>1 DEF Service!Effect
    <2>2. Service!ItemAdded(r, s, i)
            = [s EXCEPT !.content = s.content \cup {c}, !.history = s.history \cup {h}]
      BY SameWords, Zenon DEF Service!ItemAdded
    <2> HIDE DEF c, h
    <2>3. Service!ItemAdded(r, s, i)
            = Holding(s.lists, s.sharing, s.content \cup {c}, s.history \cup {h}, s.pantry)
      BY <2>2, TwoTables, Zenon
    <2> QED
      BY <2>1, <2>3 DEF c, h
  <1>2. ASSUME r.op = "update_item"
        PROVE  Service!Effect(r, s, i) =
                 Holding(s.lists, s.sharing,
                         (s.content \ Service!Item(r, s)) \cup
                           {[c EXCEPT !.name = Service!Given(r.name, @),
                                      !.amount = Service!Given(r.amount, @)] :
                              c \in Service!Item(r, s)},
                         s.history, s.pantry)
    <2>1. Service!Effect(r, s, i) = Service!ItemUpdated(r, s)
      BY <1>2 DEF Service!Effect
    <2> QED
      BY <2>1, StoreTables, Zenon DEF Service!ItemUpdated, Service!Swap
  <1>3. ASSUME r.op = "delete_item"
        PROVE  Service!Effect(r, s, i) =
                 Holding(s.lists, s.sharing, s.content \ Service!Item(r, s), s.history,
                         Restocked(r, s))
    <2>1. Service!Effect(r, s, i) = Service!ItemRemoved(r, s)
      BY <1>3 DEF Service!Effect
    <2>2. Service!ItemRemoved(r, s)
            = [s EXCEPT !.content = s.content \ Service!Item(r, s), !.pantry = Restocked(r, s)]
      BY DEF Service!ItemRemoved, Restocked, Back
    <2> DEFINE x == s.content \ Service!Item(r, s)
               y == Restocked(r, s)
    <2>3. Service!ItemRemoved(r, s) = [s EXCEPT !.content = x, !.pantry = y]
      BY <2>2
    <2> HIDE DEF x, y
    <2>4. Service!ItemRemoved(r, s) = Holding(s.lists, s.sharing, x, s.history, y)
      BY <2>3, ItemTables, Zenon
    <2> QED
      BY <2>1, <2>4 DEF x, y
  <1> QED
    BY <1>1, <1>2, <1>3

\* The item that a refill makes of the pantry row q.
Refill(q, i) ==
  [id |-> i + q.item - 1, list |-> q.list, name |-> q.name,
   amount |-> q.target - q.amount, from_pantry |-> q.item]

Refills(r, s, i) == {Refill(q, i) : q \in Service!Lacking(r, s)}

\* The items that stay when a pantry row goes.
Unlinked(r, s) ==
  {c \in s.content : ~ (c.list = r.list /\ c.from_pantry = r.item /\ c.from_pantry # NoItem)}

\* Requests about the pantry.
LEMMA PantryEffects ==
  ASSUME NEW s \in Store, NEW r, NEW i
  PROVE  /\ r.op = "add_to_pantry" =>
              Service!Effect(r, s, i) =
                Holding(s.lists, s.sharing, s.content, s.history,
                        s.pantry \cup {[item |-> i, list |-> r.list, name |-> r.name,
                                        target |-> r.target, amount |-> 0]})
         /\ r.op = "set_pantry_item" =>
              Service!Effect(r, s, i) =
                Holding(s.lists, s.sharing, s.content, s.history,
                        (s.pantry \ Service!Stocked(r, s)) \cup
                          {[q EXCEPT !.amount = Service!Given(r.stock, @),
                                     !.target = Service!Given(r.target, @)] :
                             q \in Service!Stocked(r, s)})
         /\ r.op = "delete_pantry_item" =>
              Service!Effect(r, s, i) =
                Holding(s.lists, s.sharing,
                        Unlinked(r, s),
                        s.history, s.pantry \ Service!Stocked(r, s))
         /\ r.op = "refill_pantry" =>
              Service!Effect(r, s, i) =
                Holding(s.lists, s.sharing,
                        s.content \cup Refills(r, s, i),
                        s.history, s.pantry)
  <1>1. ASSUME r.op = "add_to_pantry"
        PROVE  Service!Effect(r, s, i) =
                 Holding(s.lists, s.sharing, s.content, s.history,
                         s.pantry \cup {[item |-> i, list |-> r.list, name |-> r.name,
                                         target |-> r.target, amount |-> 0]})
    <2>1. Service!Effect(r, s, i) = Service!PantryAdded(r, s, i)
      BY <1>1 DEF Service!Effect
    <2> QED
      BY <2>1, StoreTables, Zenon DEF Service!PantryAdded
  <1>2. ASSUME r.op = "set_pantry_item"
        PROVE  Service!Effect(r, s, i) =
                 Holding(s.lists, s.sharing, s.content, s.history,
                         (s.pantry \ Service!Stocked(r, s)) \cup
                           {[q EXCEPT !.amount = Service!Given(r.stock, @),
                                      !.target = Service!Given(r.target, @)] :
                              q \in Service!Stocked(r, s)})
    <2>1. Service!Effect(r, s, i) = Service!PantryUpdated(r, s)
      BY <1>2 DEF Service!Effect
    <2> QED
      BY <2>1, StoreTables, Zenon DEF Service!PantryUpdated, Service!Swap
  <1>3. ASSUME r.op = "delete_pantry_item"
        PROVE  Service!Effect(r, s, i) =
                 Holding(s.lists, s.sharing,
                         Unlinked(r, s),
                         s.history, s.pantry \ Service!Stocked(r, s))
    <2> DEFINE x == s.pantry \ Service!Stocked(r, s)
               y == Unlinked(r, s)
    <2>1. Service!Effect(r, s, i) = Service!PantryRemoved(r, s)
      BY <1>3 DEF Service!Effect
    <2>2. Service!PantryRemoved(r, s) = [s EXCEPT !.pantry = x, !.content = y]
      BY SameWords, Zenon DEF Service!PantryRemoved, Unlinked
    <2> HIDE DEF x, y
    <2>3. Service!PantryRemoved(r, s) = Holding(s.lists, s.sharing, y, s.history, x)
      BY <2>2, ItemTables, Zenon
    <2> QED
      BY <2>1, <2>3 DEF x, y
  <1>4. ASSUME r.op = "refill_pantry"
        PROVE  Service!Effect(r, s, i) =
                 Holding(s.lists, s.sharing,
                         s.content \cup Refills(r, s, i),
                         s.history, s.pantry)
    <2>1. Service!Effect(r, s, i) = Service!Refilled(r, s, i)
      BY <1>4 DEF Service!Effect
    <2> QED
      BY <2>1, StoreTables, Zenon DEF Service!Refilled, Refills, Refill
  <1> QED
    BY <1>1, <1>2, <1>3, <1>4

\* The requests that change something, and the others.
Changing == {"create_list", "delete_list", "set_public", "remove_public", "add_list",
             "update_item", "delete_item", "share_list", "unshare", "delete_shares",
             "add_to_pantry", "set_pantry_item", "delete_pantry_item", "refill_pantry"}

LEMMA NoEffect ==
  ASSUME NEW s, NEW r, NEW i, r.op \notin Changing
  PROVE  Service!Effect(r, s, i) = s
  BY DEF Service!Effect, Changing

---------------------------------------------------------------------------
(***************************************************************************)
(* What every store that the service gets to has in common.                *)
(***************************************************************************)
\* The primary keys.
Keyed(s) ==
  /\ \A r, t \in s.lists   : r.id = t.id => r = t
  /\ \A r, t \in s.sharing : r.list = t.list /\ r.shared = t.shared => r = t
  /\ \A r, t \in s.content : r.id = t.id => r = t
  /\ \A r, t \in s.pantry  : r.item = t.item => r = t

\* The ids given out are below those to come, which the record n names.
Numbered(s, n) ==
  /\ \A r \in s.lists   : r.id < n.list
  /\ \A r \in s.content : r.id < n.content
  /\ \A r \in s.pantry  : r.item < n.pantry

\* The columns of the amounts.
Stockable(s) == \A r \in s.pantry : InRange(r.amount)

\* The ids that the request r gives out, starting at i, are below those of n.
Counted(r, s, i, n) ==
  /\ r.op = "create_list" => i < n.list
  /\ r.op = "add_list" => i < n.content
  /\ r.op = "add_to_pantry" => i < n.pantry
  /\ r.op = "refill_pantry" => \A q \in Service!Lacking(r, s) : i + q.item - 1 < n.content

\* An amount put back leaves the row what it is otherwise.
LEMMA RestockedRows ==
  ASSUME NEW s \in Store, NEW r
  PROVE  /\ \A t \in Restocked(r, s) : \E q \in s.pantry :
              /\ t.item = q.item /\ t.list = q.list
              /\ Back(r, s, q) = {} => t = q
              /\ Back(r, s, q) # {} =>
                   t.amount = q.amount + Added((CHOOSE c \in Back(r, s, q) : TRUE).amount)
         /\ \A q \in s.pantry : \E t \in Restocked(r, s) : t.item = q.item
         /\ Keyed(s) => \A t, u \in Restocked(r, s) : t.item = u.item => t = u
  <1> DEFINE gain(q) == Service!Added((CHOOSE c \in Back(r, s, q) : TRUE).amount)
             row(q) == IF Back(r, s, q) = {} THEN q ELSE [q EXCEPT !.amount = q.amount + gain(q)]
  <1>1. Restocked(r, s) = {row(q) : q \in s.pantry}
    BY DEF Restocked
  <1>2. ASSUME NEW q \in s.pantry
        PROVE  /\ row(q).item = q.item /\ row(q).list = q.list
               /\ Back(r, s, q) # {} => row(q).amount = q.amount + gain(q)
    <2>1. q \in PantryRow
      BY DEF Store
    <2> HIDE DEF gain
    <2> QED
      BY <2>1 DEF PantryRow
  <1>3. \A q : gain(q) = Added((CHOOSE c \in Back(r, s, q) : TRUE).amount)
    BY SameWords
  <1>4. \A q : Back(r, s, q) = {} => row(q) = q
    OBVIOUS
  <1> HIDE DEF row, gain
  <1>5. ASSUME Keyed(s), NEW t \in Restocked(r, s), NEW u \in Restocked(r, s), t.item = u.item
        PROVE  t = u
    <2>1. PICK q \in s.pantry, o \in s.pantry : t = row(q) /\ u = row(o)
      BY <1>1, <1>5
    <2> QED
      BY <1>2, <1>5, <2>1 DEF Keyed
  <1>6. ASSUME NEW t \in Restocked(r, s)
        PROVE  \E q \in s.pantry :
                 /\ t.item = q.item /\ t.list = q.list
                 /\ Back(r, s, q) = {} => t = q
                 /\ Back(r, s, q) # {} =>
                      t.amount = q.amount + Added((CHOOSE c \in Back(r, s, q) : TRUE).amount)
    <2>1. PICK q \in s.pantry : t = row(q)
      BY <1>1
    <2>2. gain(q) = Added((CHOOSE c \in Back(r, s, q) : TRUE).amount)
      BY <1>3
    <2> QED
      BY <1>2, <1>4, <2>1, <2>2
  <1>7. \A q \in s.pantry : \E t \in Restocked(r, s) : t.item = q.item
    BY <1>1, <1>2
  <1> QED
    BY <1>5, <1>6, <1>7

\* A row that changes keeps its key.
LEMMA UpdatedRows ==
  ASSUME NEW s \in Store, NEW r
  PROVE  /\ \A l \in s.lists : \A b : [l EXCEPT !.pub = b].id = l.id
         /\ \A c \in s.content : \A n, a :
              /\ [c EXCEPT !.name = n, !.amount = a].id = c.id
              /\ [c EXCEPT !.name = n, !.amount = a].list = c.list
              /\ [c EXCEPT !.name = n, !.amount = a].from_pantry = c.from_pantry
         /\ \A q \in s.pantry : \A a, n : [q EXCEPT !.amount = a, !.target = n].item = q.item
  BY DEF Store, ListRow, ContentRow, PantryRow

\* A fresh id keeps the keys apart.
LEMMA EffectKeyed ==
  ASSUME NEW s \in Store, NEW r, NEW i \in Nat, Keyed(s), Service!Fresh(r, s, i)
  PROVE  Keyed(Service!Effect(r, s, i))
  <1> DEFINE t == Service!Effect(r, s, i)
  <1>1. CASE r.op = "create_list"
    <2>1. \A l \in s.lists : l.id # i
      BY <1>1, SameStores DEF Service!Fresh, ListIds
    <2> DEFINE new == [id |-> i, owner |-> r.user, name |-> r.name, pub |-> FALSE]
    <2>2. t = Holding(s.lists \cup {new}, s.sharing, s.content, s.history, s.pantry) /\ new.id = i
      BY <1>1, ListEffects
    <2> HIDE DEF t, new
    <2>3. Keyed(t)
      BY <2>1, <2>2 DEF Holding, Keyed
    <2> QED
      BY <2>3 DEF t
  <1>2. CASE r.op \in {"delete_list", "unshare", "delete_shares"}
    BY <1>2, ListEffects DEF Holding, Keyed
  <1>3. CASE r.op \in {"set_public", "remove_public"}
    <2> DEFINE row(l) == IF l.id = r.list THEN [l EXCEPT !.pub = (r.op = "set_public")] ELSE l
    <2>1. t = Holding({row(l) : l \in s.lists}, s.sharing, s.content, s.history, s.pantry)
      BY <1>3, ListEffects
    <2>2. \A l \in s.lists : row(l).id = l.id
      BY UpdatedRows
    <2> HIDE DEF row
    <2> QED
      BY <2>1, <2>2 DEF Holding, Keyed
  <1>4. CASE r.op = "share_list"
    <2>1. CASE SharedWith(s, r.with, r.list)
      <3>1. t = s
        BY <1>4, <2>1, ListEffects, Zenon
      <3> QED
        BY <3>1
    <2>2. CASE ~ SharedWith(s, r.with, r.list)
      BY <1>4, <2>2, ListEffects DEF Holding, Keyed, SharedWith
    <2> QED
      BY <2>1, <2>2
  <1>5. CASE r.op = "add_list"
    <2>1. \A c \in s.content : c.id # i
      BY <1>5 DEF Service!Fresh
    <2> DEFINE h == s.history \cup {[list |-> r.list, creator |-> r.user, name |-> r.name]}
    <2>2. t = Holding(s.lists, s.sharing,
                      s.content \cup {[id |-> i, list |-> r.list, name |-> r.name,
                                       amount |-> r.amount, from_pantry |-> NoItem]},
                      h, s.pantry)
      BY <1>5, ItemEffects
    <2> HIDE DEF t, h
    <2>3. Keyed(t)
      BY <2>1, <2>2 DEF Holding, Keyed
    <2> QED
      BY <2>3 DEF t
  <1>6. CASE r.op = "update_item"
    <2> DEFINE row(c) == [c EXCEPT !.name = Service!Given(r.name, @),
                                   !.amount = Service!Given(r.amount, @)]
               old == Service!Item(r, s)
    <2>1. t = Holding(s.lists, s.sharing, (s.content \ old) \cup {row(c) : c \in old},
                      s.history, s.pantry)
      BY <1>6, ItemEffects
    <2>2. old \subseteq s.content
      BY DEF Service!Item
    <2>3. \A c \in old : row(c).id = c.id
      BY <2>2, UpdatedRows
    <2> HIDE DEF row, old
    <2> QED
      BY <2>1, <2>2, <2>3 DEF Holding, Keyed
  <1>7. CASE r.op = "delete_item"
    <2>1. t = Holding(s.lists, s.sharing, s.content \ Service!Item(r, s), s.history,
                      Restocked(r, s))
      BY <1>7, ItemEffects
    <2>2. \A q, o \in Restocked(r, s) : q.item = o.item => q = o
      BY RestockedRows
    <2> HIDE DEF t
    <2>3. Keyed(t)
      BY <2>1, <2>2 DEF Holding, Keyed
    <2> QED
      BY <2>3 DEF t
  <1>8. CASE r.op = "add_to_pantry"
    <2>1. \A q \in s.pantry : q.item # i
      BY <1>8, SameStores DEF Service!Fresh, PantryItems
    <2>2. t = Service!PantryAdded(r, s, i)
      BY <1>8 DEF Service!Effect
    <2> HIDE DEF t
    <2>3. t = Holding(s.lists, s.sharing, s.content, s.history,
                      s.pantry \cup {[item |-> i, list |-> r.list, name |-> r.name,
                                      target |-> r.target, amount |-> 0]})
      BY <2>2, StoreTables, Zenon DEF Service!PantryAdded
    <2>4. Keyed(t)
      BY <2>1, <2>3 DEF Holding, Keyed
    <2> QED
      BY <2>4 DEF t
  <1>9. CASE r.op = "set_pantry_item"
    <2> DEFINE row(q) == [q EXCEPT !.amount = Service!Given(r.stock, @),
                                   !.target = Service!Given(r.target, @)]
               old == Service!Stocked(r, s)
    <2>1. t = Holding(s.lists, s.sharing, s.content, s.history,
                      (s.pantry \ old) \cup {row(q) : q \in old})
      BY <1>9, PantryEffects
    <2>2. old \subseteq s.pantry
      BY DEF Service!Stocked
    <2>3. \A q \in old : row(q).item = q.item
      BY <2>2, UpdatedRows
    <2> HIDE DEF row, old
    <2> QED
      BY <2>1, <2>2, <2>3 DEF Holding, Keyed
  <1>10. CASE r.op = "delete_pantry_item"
    <2> DEFINE x == Unlinked(r, s)
    <2>1. t = Holding(s.lists, s.sharing, x, s.history, s.pantry \ Service!Stocked(r, s))
      BY <1>10, PantryEffects
    <2>2. x \subseteq s.content
      BY DEF Unlinked
    <2> HIDE DEF t, x
    <2>3. Keyed(t)
      BY <2>1, <2>2 DEF Holding, Keyed
    <2> QED
      BY <2>3 DEF t
  <1>11. CASE r.op = "refill_pantry"
    <2> DEFINE low == Service!Lacking(r, s)
    <2>1. t = Holding(s.lists, s.sharing, s.content \cup Refills(r, s, i),
                      s.history, s.pantry)
      BY <1>11, PantryEffects
    <2>2. low \subseteq s.pantry
      BY SameStores DEF Service!Lacking, OfList
    <2>3. \A q \in low : Refill(q, i).id = i + q.item - 1 /\ q.item \in Nat
      BY <2>2 DEF Store, PantryRow, Refill
    <2>4. \A q \in low, c \in s.content : c.id # Refill(q, i).id
      BY <1>11, <2>3 DEF Service!Fresh
    <2>7. Refills(r, s, i) = {Refill(q, i) : q \in low}
      BY DEF Refills
    <2> HIDE DEF t, low
    <2>5. \A q, o \in low : Refill(q, i).id = Refill(o, i).id => q = o
      BY <2>2, <2>3 DEF Keyed
    <2>6. Keyed(t)
      BY <2>1, <2>4, <2>5, <2>7 DEF Holding, Keyed
    <2> QED
      BY <2>6 DEF t
  <1>12. CASE r.op \notin Changing
    BY <1>12, NoEffect
  <1> QED
    BY <1>1, <1>2, <1>3, <1>4, <1>5, <1>6, <1>7, <1>8, <1>9, <1>10, <1>11, <1>12 DEF Changing

\* And below those to come.
LEMMA EffectNumbered ==
  ASSUME NEW s \in Store, NEW r, NEW i \in Nat, NEW n \in SequenceType, NEW m \in SequenceType,
         Numbered(s, n), Counted(r, s, i, m),
         m.list >= n.list, m.content >= n.content, m.pantry >= n.pantry
  PROVE  Numbered(Service!Effect(r, s, i), m)
  <1> DEFINE t == Service!Effect(r, s, i)
  <1>1. Numbered(s, m)
    BY DEF Numbered, SequenceType, Store, ListRow, ContentRow, PantryRow
  <1>2. CASE r.op \in {"create_list", "delete_list", "unshare", "delete_shares"}
    BY <1>1, <1>2, ListEffects DEF Holding, Numbered, Counted
  <1>3. CASE r.op \in {"set_public", "remove_public"}
    <2> DEFINE row(l) == IF l.id = r.list THEN [l EXCEPT !.pub = (r.op = "set_public")] ELSE l
    <2>1. t = Holding({row(l) : l \in s.lists}, s.sharing, s.content, s.history, s.pantry)
      BY <1>3, ListEffects
    <2>2. \A l \in s.lists : row(l).id = l.id
      BY UpdatedRows
    <2> HIDE DEF row
    <2> QED
      BY <1>1, <2>1, <2>2 DEF Holding, Numbered
  <1>4. CASE r.op = "share_list"
    <2>1. CASE SharedWith(s, r.with, r.list)
      <3>1. t = s
        BY <1>4, <2>1, ListEffects, Zenon
      <3> QED
        BY <1>1, <3>1
    <2>2. CASE ~ SharedWith(s, r.with, r.list)
      BY <1>1, <1>4, <2>2, ListEffects DEF Holding, Numbered
    <2> QED
      BY <2>1, <2>2
  <1>5. CASE r.op = "add_list"
    <2> DEFINE h == s.history \cup {[list |-> r.list, creator |-> r.user, name |-> r.name]}
    <2>1. t = Holding(s.lists, s.sharing,
                      s.content \cup {[id |-> i, list |-> r.list, name |-> r.name,
                                       amount |-> r.amount, from_pantry |-> NoItem]},
                      h, s.pantry)
      BY <1>5, ItemEffects
    <2>2. i < m.content
      BY <1>5 DEF Counted
    <2> HIDE DEF t, h
    <2>3. Numbered(t, m)
      BY <1>1, <2>1, <2>2 DEF Holding, Numbered
    <2> QED
      BY <2>3 DEF t
  <1>6. CASE r.op = "update_item"
    <2> DEFINE row(c) == [c EXCEPT !.name = Service!Given(r.name, @),
                                   !.amount = Service!Given(r.amount, @)]
               old == Service!Item(r, s)
    <2>1. t = Holding(s.lists, s.sharing, (s.content \ old) \cup {row(c) : c \in old},
                      s.history, s.pantry)
      BY <1>6, ItemEffects
    <2>2. old \subseteq s.content
      BY DEF Service!Item
    <2>3. \A c \in old : row(c).id = c.id
      BY <2>2, UpdatedRows
    <2> HIDE DEF row, old
    <2> QED
      BY <1>1, <2>1, <2>2, <2>3 DEF Holding, Numbered
  <1>7. CASE r.op = "delete_item"
    <2>1. t = Holding(s.lists, s.sharing, s.content \ Service!Item(r, s), s.history,
                      Restocked(r, s))
      BY <1>7, ItemEffects
    <2>2. \A q \in Restocked(r, s) : \E o \in s.pantry : q.item = o.item
      BY RestockedRows
    <2> HIDE DEF t
    <2>3. Numbered(t, m)
      BY <1>1, <2>1, <2>2 DEF Holding, Numbered
    <2> QED
      BY <2>3 DEF t
  <1>8. CASE r.op = "add_to_pantry"
    <2>1. t = Holding(s.lists, s.sharing, s.content, s.history,
                      s.pantry \cup {[item |-> i, list |-> r.list, name |-> r.name,
                                      target |-> r.target, amount |-> 0]})
      BY <1>8, PantryEffects
    <2>2. i < m.pantry
      BY <1>8 DEF Counted
    <2> HIDE DEF t
    <2>3. Numbered(t, m)
      BY <1>1, <2>1, <2>2 DEF Holding, Numbered
    <2> QED
      BY <2>3 DEF t
  <1>12. CASE r.op = "delete_pantry_item"
    <2> DEFINE x == Unlinked(r, s)
    <2>1. t = Holding(s.lists, s.sharing, x, s.history, s.pantry \ Service!Stocked(r, s))
      BY <1>12, PantryEffects
    <2>2. x \subseteq s.content
      BY DEF Unlinked
    <2> HIDE DEF t, x
    <2>3. Numbered(t, m)
      BY <1>1, <2>1, <2>2 DEF Holding, Numbered
    <2> QED
      BY <2>3 DEF t
  <1>9. CASE r.op = "set_pantry_item"
    <2> DEFINE row(q) == [q EXCEPT !.amount = Service!Given(r.stock, @),
                                   !.target = Service!Given(r.target, @)]
               old == Service!Stocked(r, s)
    <2>1. t = Holding(s.lists, s.sharing, s.content, s.history,
                      (s.pantry \ old) \cup {row(q) : q \in old})
      BY <1>9, PantryEffects
    <2>2. old \subseteq s.pantry
      BY DEF Service!Stocked
    <2>3. \A q \in old : row(q).item = q.item
      BY <2>2, UpdatedRows
    <2> HIDE DEF row, old
    <2> QED
      BY <1>1, <2>1, <2>2, <2>3 DEF Holding, Numbered
  <1>10. CASE r.op = "refill_pantry"
    <2> DEFINE low == Service!Lacking(r, s)
    <2>1. t = Holding(s.lists, s.sharing, s.content \cup Refills(r, s, i),
                      s.history, s.pantry)
      BY <1>10, PantryEffects
    <2>2. \A q \in low : Refill(q, i).id < m.content
      BY <1>10 DEF Counted, Refill
    <2>7. Refills(r, s, i) = {Refill(q, i) : q \in low}
      BY DEF Refills
    <2> HIDE DEF t, low
    <2>3. Numbered(t, m)
      BY <1>1, <2>1, <2>2, <2>7 DEF Holding, Numbered
    <2> QED
      BY <2>3 DEF t
  <1>11. CASE r.op \notin Changing
    BY <1>1, <1>11, NoEffect
  <1> QED
    BY <1>2, <1>3, <1>4, <1>5, <1>6, <1>7, <1>8, <1>9, <1>10, <1>11, <1>12
     DEF Changing

\* The columns of the amounts hold what they may.
LEMMA EffectStockable ==
  ASSUME NEW s, NEW r, NEW t, Stockable(s), Service!Possible(r, s, t)
  PROVE  ReferencesHold(t) /\ Stockable(t)
  BY SameWords, SameStores DEF Service!Possible, Stockable

---------------------------------------------------------------------------
(***************************************************************************)
(* What a request in progress has done so far.                             *)
(***************************************************************************)
\* The statements that look at the right of the user, and those that list what
\* is the user's own.
Checking == {"is_owner", "check_shared", "count_names", "select_pub"}
Listing  == {"select_owned", "select_shared", "select_history"}

\* The statements that come after another one of their transaction.
Later == {"upsert_history", "update_amount", "delete_item", "delete_contents",
          "delete_history", "delete_list", "delete_history_of",
          "delete_history_others", "delete_pantry", "commit"}

\* The statements that use or answer what an earlier one has read.
Reusing == {"select_readonly", "select_shared", "credit_pantry", "delete_item",
            "insert_refill", "commit"}

\* What the request of p does to the store, if what it makes gets the id i.
Outcome(p, i) == Service!Effect(req[p], db, i)

\* The items of s, those the request names renamed as it says.
Renamed(r, s) ==
  (s.content \ Service!Item(r, s)) \cup
    {[c EXCEPT !.name = Service!Given(r.name, @)] : c \in Service!Item(r, s)}

\* A transaction sees its effect table by table, in the order of its handler,
\* and all of it when it commits.
Stage(p) ==
  LET r == req[p] IN
  /\ pc[p] \notin Later => tx[p] = NoChange
  /\ pc[p] = "upsert_history" =>
       \E i \in RowIds :
         /\ Service!Fresh(r, db, i) /\ i < next.content
         /\ View(p) = Holding(db.lists, db.sharing, Outcome(p, i).content, db.history, db.pantry)
  /\ pc[p] = "update_amount" =>
       /\ r.amount # NULL
       /\ View(p) = Holding(db.lists, db.sharing, Renamed(r, db), db.history, db.pantry)
  /\ pc[p] = "delete_item" =>
       /\ View(p) = Holding(db.lists, db.sharing, db.content, db.history, Restocked(r, db))
       /\ \A q \in Restocked(r, db) \ db.pantry : InRange(q.amount)
  /\ pc[p] \in {"delete_contents", "delete_history_of", "delete_history_others"} =>
       View(p) = Holding(db.lists, Outcome(p, 0).sharing, db.content, db.history, db.pantry)
  /\ pc[p] = "delete_history" =>
       View(p) = Holding(db.lists, Outcome(p, 0).sharing, Outcome(p, 0).content, db.history,
                         db.pantry)
  /\ pc[p] = "delete_list" =>
       View(p) = Holding(db.lists, Outcome(p, 0).sharing, Outcome(p, 0).content,
                         Outcome(p, 0).history, db.pantry)
  /\ pc[p] = "delete_pantry" =>
       View(p) = Holding(db.lists, db.sharing, Outcome(p, 0).content, db.history, db.pantry)
  /\ pc[p] = "commit" =>
       \E i \in RowIds :
         /\ Service!Fresh(r, db, i) /\ (r.op = "add_list" => i < next.content)
         /\ View(p) = Outcome(p, i) /\ Service!Possible(r, db, Outcome(p, i))

\* What was read is what is stored.
Fetched(p) ==
  LET r == req[p] IN
  /\ pc[p] \notin Reusing \cup {"done"} => seen[p] = Empty
  /\ pc[p] = "select_readonly" => seen[p] = [Empty EXCEPT !.content = OfList(db.content, r.list)]
  /\ pc[p] = "select_shared" =>
       seen[p] = [Empty EXCEPT !.lists = {l \in OwnedLists(db, r.user) :
                                            r.op = "search_list" => l.name \in Like(r.name)}]
  /\ pc[p] \in {"credit_pantry", "delete_item"} =>
       seen[p] = [Empty EXCEPT !.content = Service!Item(r, db)]
  /\ pc[p] = "insert_refill" => seen[p] = [Empty EXCEPT !.pantry = Service!Lacking(r, db)]
  /\ pc[p] = "commit" =>
       seen[p] = IF r.op = "delete_item" THEN [Empty EXCEPT !.content = Service!Item(r, db)]
                 ELSE Empty
  /\ /\ pc[p] = "done" /\ answer[p] = "ok"
     /\ r.op = "read_list" \/ seen[p].lists # {}
     => Service!Allowed(r, db) /\ seen[p] = Service!Found(r, db)

\* Who got past the checks has the right, and an owner only misses the first
\* check when it fails.
Permitted(p) ==
  /\ pc[p] = "check_shared" /\ Owns(db, req[p].user, req[p].list) => Failures
  /\ pc[p] \notin {"idle", "done"} \cup Checking \cup Listing => Service!Allowed(req[p], db)

\* Nothing was answered yet, and the ids the request will give out are within
\* the bounds.
Waiting(p) ==
  /\ pc[p] # "done" => answer[p] = "none"
  /\ pc[p] # "idle" => req[p] \in RequestSet
  /\ pc[p] \notin {"idle", "done", "upsert_history", "commit"} => HasRoom(req[p])

Running(p) == Waiting(p) /\ Permitted(p) /\ Stage(p) /\ Fetched(p)

StoreInv ==
  /\ ReferencesHold(db) /\ Keyed(db) /\ Numbered(db, next) /\ Stockable(db)
  /\ next.list > 0 /\ next.content > 0

ServiceInv == StoreInv /\ \A p \in Workers : Running(p)

---------------------------------------------------------------------------
(***************************************************************************)
(* The three ways in which a step of a request ends, and what each is to   *)
(* the service.                                                            *)
(***************************************************************************)
\* Nothing of the other workers changes, and no id is given out twice.
Frame(p) ==
  /\ UNCHANGED req
  /\ \A q \in Workers \ {p} : /\ pc'[q] = pc[q] /\ tx'[q] = tx[q]
                              /\ answer'[q] = answer[q] /\ seen'[q] = seen[q]
  /\ next'.list >= next.list /\ next'.content >= next.content /\ next'.pantry >= next.pantry

\* The handler goes on.
Continued(p) == UNCHANGED db /\ pc'[p] \notin {"idle", "done"} /\ Running(p)'

\* It answers with an error and has changed nothing.
Refused(p) ==
  /\ UNCHANGED db /\ pc'[p] = "done" /\ tx'[p] = NoChange
  /\ answer'[p] \in Service!Refusals(req[p], db)

\* It has done what was asked, with the id i for what it made, and answers with
\* the rows that were asked for, unless the answer is lost.
Shown(p) ==
  IF req[p].op \in {"delete_item", "refill_pantry"} THEN seen'[p].lists = {}
  ELSE seen'[p] = Service!Found(req[p], db)

Served(p) ==
  /\ pc'[p] = "done" /\ tx'[p] = NoChange
  /\ \E i \in RowIds :
       /\ Service!Allowed(req[p], db) /\ Service!Fresh(req[p], db, i)
       /\ Service!Possible(req[p], db, Outcome(p, i))
       /\ Counted(req[p], db, i, next')
       /\ db' = Outcome(p, i)
  /\ \/ answer'[p] = "ok" /\ Shown(p)
     \/ Failures /\ answer'[p] = "Internal"

Ended(p) == Frame(p) /\ (Continued(p) \/ Refused(p) \/ Served(p))

\* What the client of p sees while its request is under way.
LEMMA Sent ==
  ASSUME NEW p \in Workers, pc[p] \notin {"idle", "done"}
  PROVE  Calls[p] = [status |-> "sent", req |-> req[p]]
  BY DEF Calls

\* And once it is answered.
LEMMA AnsweredCall ==
  ASSUME NEW p \in Workers, pc'[p] = "done"
  PROVE  Calls'[p] = [status |-> "answered", req |-> req'[p], answer |-> answer'[p],
                      rows |-> Seen(p)']
  BY DEF Calls

\* What the others' clients see stays when their workers do.
LEMMA OthersCalls ==
  ASSUME Serial, NEW p \in Workers, pc[p] # "idle",
         \A q \in Workers \ {p} : pc'[q] = pc[q]
  PROVE  \A q \in Workers \ {p} : Calls[q] = Calls'[q]
  <1>1. \A q \in Workers \ {p} : pc[q] = "idle" /\ pc'[q] = "idle"
    BY DEF Serial
  <1> QED
    BY <1>1 DEF Calls

\* An idle worker has nothing in progress.
LEMMA IdleRunning ==
  ASSUME NEW p \in Workers, pc[p] = "idle"
  PROVE  Running(p) <=> answer[p] = "none" /\ tx[p] = NoChange /\ seen[p] = Empty
  BY DEF Running, Waiting, Permitted, Stage, Fetched, Later, Reusing

LEMMA OthersRunning ==
  ASSUME Serial, ServiceInv, NEW p \in Workers, pc[p] # "idle", Frame(p)
  PROVE  \A q \in Workers \ {p} : Running(q)'
  <1> SUFFICES ASSUME NEW q \in Workers \ {p} PROVE Running(q)'
    OBVIOUS
  <1>1. pc[q] = "idle" /\ pc'[q] = "idle"
    BY DEF Serial, Frame
  <1>2. answer[q] = "none" /\ tx[q] = NoChange /\ seen[q] = Empty
    BY <1>1, IdleRunning DEF ServiceInv
  <1>3. answer'[q] = "none" /\ tx'[q] = NoChange /\ seen'[q] = Empty
    BY <1>2 DEF Frame
  <1> QED
    BY <1>1, <1>3 DEF Running, Waiting, Permitted, Stage, Fetched, Later, Reusing

\* A step that goes on is none of the service.
LEMMA ContinuedStep ==
  ASSUME TypeOK, TypeOK', Serial, ServiceInv, NEW p \in Workers, pc[p] \notin {"idle", "done"},
         Frame(p), Continued(p)
  PROVE  ServiceInv' /\ UNCHANGED <<db, Calls>>
  <1>1. StoreInv'
    <2>1. Numbered(db, next')
      BY DEF ServiceInv, StoreInv, Numbered, TypeOK, Frame, Store, ListRow, ContentRow, PantryRow
    <2> QED
      BY <2>1 DEF ServiceInv, StoreInv, Frame, Continued, TypeOK
  <1>2. \A q \in Workers : Running(q)'
    BY OthersRunning DEF Continued
  <1>3. \A q \in Workers : Calls[q] = Calls'[q]
    <2>1. Calls[p] = [status |-> "sent", req |-> req[p]]
      BY Sent
    <2>2. Calls'[p] = [status |-> "sent", req |-> req[p]]
      BY DEF Calls, Continued, Frame
    <2> QED
      BY <2>1, <2>2, OthersCalls DEF Frame
  <1>4. Calls' = Calls
    BY <1>3 DEF Calls
  <1> QED
    BY <1>1, <1>2, <1>4 DEF ServiceInv, Continued

\* A function that differs at one worker.
LEMMA CallsAnswered ==
  ASSUME TypeOK, Serial, NEW p \in Workers, pc[p] # "idle", Frame(p), NEW v, Calls'[p] = v
  PROVE  Calls' = [Calls EXCEPT ![p] = v]
  <1>1. \A q \in Workers \ {p} : Calls[q] = Calls'[q]
    BY OthersCalls DEF Frame
  <1>2. Calls = [q \in Workers |-> Calls[q]] /\ Calls' = [q \in Workers |-> Calls'[q]]
    BY DEF Calls
  <1> HIDE DEF Calls
  <1> QED
    BY <1>1, <1>2

\* An error that changes nothing is a refusal.
LEMMA RefusedStep ==
  ASSUME TypeOK, TypeOK', Serial, ServiceInv, NEW p \in Workers, pc[p] \notin {"idle", "done"},
         Frame(p), Refused(p)
  PROVE  ServiceInv' /\ Service!Refuse(p)
  <1>1. answer'[p] # "ok"
    BY DEF Refused, Service!Refusals
  <1>2. StoreInv'
    <2>1. Numbered(db, next')
      BY DEF ServiceInv, StoreInv, Numbered, TypeOK, Frame, Store, ListRow, ContentRow, PantryRow
    <2> QED
      BY <2>1 DEF ServiceInv, StoreInv, Frame, Refused, TypeOK
  <1>3. Running(p)'
    <2>1. req'[p] \in RequestSet
      BY DEF ServiceInv, Running, Waiting, Frame
    <2> QED
      BY <1>1, <2>1 DEF Refused, Running, Waiting, Permitted, Stage, Fetched, Later, Reusing
  <1>4. \A q \in Workers : Running(q)'
    BY <1>3, OthersRunning
  <1>5. Calls[p] = [status |-> "sent", req |-> req[p]]
    BY Sent
  <1>6. Calls'[p] = Service!Reply(req[p], answer'[p], Service!Empty)
    <2>1. Seen(p)' = Empty
      BY <1>1 DEF Seen
    <2> QED
      BY <2>1, AnsweredCall, SameWords DEF Refused, Frame, Service!Reply
  <1>7. Calls' = [Calls EXCEPT ![p] = Service!Reply(Calls[p].req, answer'[p], Service!Empty)]
    BY <1>5, <1>6, CallsAnswered
  <1>8. answer'[p] \in Service!Refusals(Calls[p].req, db)
    BY <1>5 DEF Refused
  <1>9. Service!Refuse(p)
    <2>1. \E a \in Service!Refusals(Calls[p].req, db) :
            Calls' = [Calls EXCEPT ![p] = Service!Reply(Calls[p].req, a, Service!Empty)]
      BY <1>7, <1>8, Zenon
    <2>2. Calls[p].status = "sent" /\ UNCHANGED db
      BY <1>5 DEF Refused
    <2> QED
      BY <2>1, <2>2, Zenon DEF Service!Refuse
  <1> QED
    BY <1>2, <1>4, <1>9 DEF ServiceInv

\* A request that is served is performed at that instant.
LEMMA ServedStep ==
  ASSUME TypeOK, TypeOK', Serial, ServiceInv, NEW p \in Workers, pc[p] \notin {"idle", "done"},
         Frame(p), Served(p)
  PROVE  ServiceInv' /\ \E i \in RowIds : Service!Perform(p, i)
  <1>1. PICK i \in RowIds :
          /\ Service!Allowed(req[p], db) /\ Service!Fresh(req[p], db, i)
          /\ Service!Possible(req[p], db, Outcome(p, i))
          /\ Counted(req[p], db, i, next')
          /\ db' = Outcome(p, i)
    BY DEF Served
  <1>2. i \in Nat
    BY BoundAssumption DEF RowIds
  <1>3. /\ db \in Store
        /\ next \in SequenceType /\ next' \in SequenceType
    BY DEF TypeOK, SequenceType
  <1>4. StoreInv'
    <2>1. Keyed(db')
      BY <1>1, <1>2, <1>3, EffectKeyed DEF Outcome, ServiceInv, StoreInv
    <2>2. Numbered(db', next')
      BY <1>1, <1>2, <1>3, EffectNumbered DEF Outcome, ServiceInv, StoreInv, Frame
    <2>3. ReferencesHold(db') /\ Stockable(db')
      BY <1>1, EffectStockable DEF ServiceInv, StoreInv
    <2>4. next'.list > 0 /\ next'.content > 0
      BY <1>3 DEF Frame, ServiceInv, StoreInv, SequenceType
    <2> QED
      BY <2>1, <2>2, <2>3, <2>4 DEF StoreInv
  <1>5. ASSUME answer'[p] = "ok", req[p].op = "read_list" \/ seen'[p].lists # {}
        PROVE  Service!Allowed(req[p], db') /\ seen'[p] = Service!Found(req[p], db')
    <2>1. Shown(p)
      BY <1>5 DEF Served
    <2>2. req[p].op \notin {"delete_item", "refill_pantry"}
      BY <1>5, <2>1 DEF Shown
    <2>3. seen'[p] = Service!Found(req[p], db)
      BY <2>1, <2>2 DEF Shown
    <2>4. req[p].op \notin Changing
      <3>1. CASE req[p].op = "read_list"
        BY <3>1 DEF Changing
      <3>2. CASE seen'[p].lists # {}
        <4>1. CASE req[p].op \in Changing
          <5>1. Service!Found(req[p], db) = Empty
            BY <4>1, SameWords DEF Changing, Service!Found
          <5> QED
            BY <2>3, <3>2, <5>1 DEF Empty
        <4> QED
          BY <4>1
      <3> QED
        BY <1>5, <3>1, <3>2
    <2>5. db' = db
      BY <1>1, <2>4, NoEffect DEF Outcome
    <2> QED
      BY <1>1, <2>3, <2>5
  <1>6. Running(p)'
    <2>1. req'[p] \in RequestSet
      BY DEF ServiceInv, Running, Waiting, Frame
    <2>2. req'[p] = req[p]
      BY DEF Frame
    <2> QED
      BY <1>5, <2>1, <2>2 DEF Served, Running, Waiting, Permitted, Stage, Fetched, Later, Reusing
  <1>7. \A q \in Workers : Running(q)'
    BY <1>6, OthersRunning
  <1>8. Calls[p] = [status |-> "sent", req |-> req[p]]
    BY Sent
  <1>9. \/ Calls' = [Calls EXCEPT ![p] = Service!Reply(req[p], "ok", Service!Found(req[p], db))]
        \/ Failures /\ Calls' = [Calls EXCEPT ![p] = Service!Reply(req[p], "Internal", Service!Empty)]
    <2>1. CASE answer'[p] = "ok" /\ Shown(p)
      <3>1. Seen(p)' = Service!Found(req[p], db)
        <4>1. CASE req[p].op \in {"delete_item", "refill_pantry"}
          <5>1. Service!Found(req[p], db) = Empty
            BY <4>1, SameWords DEF Service!Found
          <5> QED
            BY <4>1, <5>1 DEF Seen, Frame
        <4>2. CASE req[p].op \notin {"delete_item", "refill_pantry"}
          BY <2>1, <4>2 DEF Seen, Shown, Frame
        <4> QED
          BY <4>1, <4>2
      <3>2. Calls'[p] = Service!Reply(req[p], "ok", Service!Found(req[p], db))
        BY <2>1, <3>1, AnsweredCall DEF Served, Frame, Service!Reply
      <3> QED
        BY <3>2, CallsAnswered
    <2>2. CASE Failures /\ answer'[p] = "Internal"
      <3>1. Seen(p)' = Empty
        BY <2>2 DEF Seen
      <3>2. Calls'[p] = Service!Reply(req[p], "Internal", Service!Empty)
        BY <2>2, <3>1, AnsweredCall, SameWords DEF Served, Frame, Service!Reply
      <3> QED
        BY <2>2, <3>2, CallsAnswered
    <2> QED
      BY <2>1, <2>2 DEF Served
  <1>10. Service!Perform(p, i)
    BY <1>1, <1>8, <1>9 DEF Service!Perform, Outcome
  <1> QED
    BY <1>4, <1>7, <1>10 DEF ServiceInv

---------------------------------------------------------------------------
(***************************************************************************)
(* The steps that all handlers are made of.                                *)
(***************************************************************************)
\* p is about to run a statement.
Busy(p) == TypeOK /\ TypeOK' /\ ServiceInv /\ pc[p] \notin {"idle", "done"}

\* The statements a handler may go to with nothing written and nothing read.
Entrances == Labels \ ({"idle", "done", "check_shared"} \cup Later \cup Reusing)

LEMMA EntranceLabels ==
  /\ "begin" \in Entrances /\ "insert_list" \in Entrances
  /\ "select_content" \in Entrances /\ "select_public_content" \in Entrances
  /\ "select_shares" \in Entrances /\ "select_pantry" \in Entrances
  /\ "insert_content" \in Entrances /\ "update_name" \in Entrances
  /\ "read_item" \in Entrances /\ "delete_sharing" \in Entrances
  /\ "set_pub" \in Entrances /\ "insert_sharing" \in Entrances
  /\ "delete_share" \in Entrances /\ "insert_pantry" \in Entrances
  /\ "update_pantry" \in Entrances /\ "delete_refills" \in Entrances
  /\ "read_pantry" \in Entrances
  BY DEF Entrances, Labels, Lookups, Statements, Later, Reusing

\* The sequences only go forward.
LEMMA SequencesStay ==
  ASSUME TypeOK, UNCHANGED next
  PROVE  next'.list >= next.list /\ next'.content >= next.content /\ next'.pantry >= next.pantry
  BY DEF TypeOK

\* Going to a statement, or answering, is about one worker.
LEMMA GotoFrame ==
  ASSUME TypeOK, NEW p \in Workers, NEW label, Goto(p, label),
         UNCHANGED req, UNCHANGED tx \/ (\E t : tx' = [tx EXCEPT ![p] = t]),
         UNCHANGED seen \/ (\E s : seen' = [seen EXCEPT ![p] = s]),
         next'.list >= next.list, next'.content >= next.content, next'.pantry >= next.pantry
  PROVE  Frame(p) /\ pc'[p] = label
  BY DEF TypeOK, Frame, Goto

LEMMA RespondFrame ==
  ASSUME TypeOK, NEW p \in Workers, NEW a, Respond(p, a), UNCHANGED req,
         UNCHANGED seen \/ (\E s : seen' = [seen EXCEPT ![p] = s]),
         next'.list >= next.list, next'.content >= next.content, next'.pantry >= next.pantry
  PROVE  Frame(p) /\ pc'[p] = "done" /\ tx'[p] = NoChange /\ answer'[p] = a
  BY DEF TypeOK, Frame, Respond

\* A handler that goes to its first statement.
LEMMA Enters ==
  ASSUME NEW p \in Workers, Busy(p), NEW label \in Entrances, Goto(p, label),
         UNCHANGED <<db, tx, req, seen, next>>, Service!Allowed(req[p], db),
         pc[p] \notin Later \cup Reusing
  PROVE  Ended(p)
  <1>1. Running(p)
    BY DEF Busy, ServiceInv
  <1>2. Frame(p) /\ pc'[p] = label
    BY GotoFrame, SequencesStay DEF Busy
  <1>3. /\ answer'[p] = "none" /\ req'[p] \in RequestSet /\ HasRoom(req[p])
        /\ tx'[p] = NoChange /\ seen'[p] = Empty
    BY <1>1 DEF Running, Waiting, Stage, Fetched, Busy, Goto, Later, Reusing
  <1>4. Waiting(p)'
    BY <1>2, <1>3 DEF Waiting, HasRoom, Frame
  <1>5. Permitted(p)' /\ Stage(p)' /\ Fetched(p)'
    BY <1>2, <1>3 DEF Permitted, Stage, Fetched, Entrances, Later, Reusing, Frame
  <1> QED
    BY <1>2, <1>4, <1>5 DEF Ended, Continued, Running, Entrances

\* A worker of the pool.
LEMMA BeginEnds ==
  ASSUME NEW p \in Workers, Busy(p), NEW label \in Entrances, Begin(p, label)
  PROVE  Ended(p)
  <1>1. pc[p] = "begin"
    BY DEF Begin
  <1>2. Service!Allowed(req[p], db)
    BY <1>1 DEF Busy, ServiceInv, Running, Permitted, Checking, Listing
  <1>3. pc[p] \notin Later \cup Reusing
    BY <1>1 DEF Later, Reusing
  <1> QED
    BY <1>2, <1>3, Enters DEF Begin

\* An answer that is one of the refusals.
LEMMA Refuses ==
  ASSUME NEW p \in Workers, Busy(p), NEW a, Respond(p, a),
         a \in Service!Refusals(req[p], db),
         UNCHANGED <<db, req>>, UNCHANGED seen \/ (\E s : seen' = [seen EXCEPT ![p] = s]),
         next'.list >= next.list, next'.content >= next.content, next'.pantry >= next.pantry
  PROVE  Ended(p)
  BY RespondFrame DEF Busy, Ended, Refused

\* is_owner, where only the owner may go on.
LEMMA IsOwnerEnds ==
  ASSUME NEW p \in Workers, Busy(p), IsOwner(p, "begin"), req[p].op \in Owning
  PROVE  Ended(p)
  <1>1. pc[p] = "is_owner" /\ UNCHANGED <<db, req, seen, next>>
    BY DEF IsOwner
  <1>2. pc[p] \notin Later \cup Reusing
    BY <1>1 DEF Later, Reusing
  <1>3. CASE OwnerRows(req[p].user, req[p].list) # {}
    <2>1. Owns(db, req[p].user, req[p].list)
      BY <1>3 DEF OwnerRows, Owns
    <2>2. Service!Allowed(req[p], db)
      BY <2>1, SameWords, SameStores DEF Service!Allowed, Rights, Needed, Owning
    <2> QED
      BY <1>1, <1>2, <1>3, <2>2, Enters, EntranceLabels DEF IsOwner
  <1>4. CASE OwnerRows(req[p].user, req[p].list) = {}
    <2>1. ~ Owns(db, req[p].user, req[p].list)
      BY <1>4 DEF OwnerRows, Owns
    <2>2. "NoSuchList" \in Service!Refusals(req[p], db)
      BY <2>1, SameWords, SameStores DEF Service!Refusals, Answers
    <2> QED
      BY <1>1, <1>4, <2>2, Refuses, SequencesStay DEF IsOwner, Busy
  <1> QED
    BY <1>3, <1>4

\* The owner is not found: the shares are looked at next.
LEMMA ChecksOn ==
  ASSUME NEW p \in Workers, Busy(p), pc[p] = "is_owner", Goto(p, "check_shared"),
         UNCHANGED <<db, tx, req, seen, next>>,
         Owns(db, req[p].user, req[p].list) => Failures
  PROVE  Ended(p)
  <1>1. Running(p)
    BY DEF Busy, ServiceInv
  <1>2. Frame(p) /\ pc'[p] = "check_shared"
    BY GotoFrame, SequencesStay DEF Busy
  <1>3. /\ answer'[p] = "none" /\ req'[p] \in RequestSet /\ HasRoom(req[p])
        /\ tx'[p] = NoChange /\ seen'[p] = Empty
    BY <1>1 DEF Running, Waiting, Stage, Fetched, Busy, Goto, Later, Reusing
  <1>4. Waiting(p)'
    BY <1>2, <1>3 DEF Waiting, HasRoom, Frame
  <1>5. Permitted(p)' /\ Stage(p)' /\ Fetched(p)'
    BY <1>2, <1>3 DEF Permitted, Stage, Fetched, Checking, Later, Reusing, Frame
  <1> QED
    BY <1>2, <1>4, <1>5 DEF Ended, Continued, Running

\* Reading and writing are no creation.
LEMMA NeededRights ==
  ASSUME NEW p, NEW op, op = req[p].op
  PROVE  /\ op \in Writing => (Service!Allowed(req[p], db) <=>
                                 "write" \in Rights(db, req[p].user, req[p].list))
         /\ op \in Reading => (Service!Allowed(req[p], db) <=>
                                 "read" \in Rights(db, req[p].user, req[p].list))
  <1>1. /\ op \in Writing => Needed(op) = "write" /\ op # "create_list"
        /\ op \in Reading => Needed(op) = "read" /\ op # "create_list"
    BY DEF Needed, Writing, Reading, Owning
  <1> QED
    BY <1>1, SameWords, SameStores DEF Service!Allowed

\* check_list, asked for the right the operation needs.
LEMMA CheckListEnds ==
  ASSUME NEW p \in Workers, Busy(p), NEW write, NEW label \in Entrances,
         CheckList(p, write, label),
         \/ req[p].op \in Writing /\ write = TRUE
         \/ req[p].op \in Reading /\ write = FALSE
  PROVE  Ended(p)
  <1> DEFINE u == req[p].user
             l == req[p].list
  <1>1. CASE pc[p] = "is_owner" /\ OwnerRows(u, l) # {}
    <2>1. Goto(p, label) /\ UNCHANGED <<db, tx, req, seen, next>>
      BY <1>1 DEF CheckList
    <2>2. Owns(db, u, l)
      BY <1>1 DEF OwnerRows, Owns
    <2>3. Service!Allowed(req[p], db)
      BY <2>2, NeededRights DEF Rights
    <2> QED
      BY <1>1, <2>1, <2>3, Enters DEF Later, Reusing
  <1>2. CASE pc[p] = "is_owner" /\ OwnerRows(u, l) = {}
    <2>1. Goto(p, "check_shared") /\ UNCHANGED <<db, tx, req, seen, next>>
      BY <1>2 DEF CheckList
    <2>2. ~ Owns(db, u, l)
      BY <1>2 DEF OwnerRows, Owns
    <2> QED
      BY <1>2, <2>1, <2>2, ChecksOn
  <1>3. CASE pc[p] = "check_shared"
    <2> DEFINE rows == ShareRows(u, l)
    <2>1. UNCHANGED <<db, req, seen, next>>
      BY <1>3 DEF CheckList
    <2>2. Owns(db, u, l) => Failures
      BY <1>3 DEF Busy, ServiceInv, Running, Permitted
    <2>3. CASE rows = {} /\ Respond(p, "NoSuchList")
      <3>1. ~ SharedWith(db, u, l)
        BY <2>3 DEF ShareRows, SharedWith
      <3>2. "NoSuchList" \in Service!Refusals(req[p], db)
        BY <2>2, <3>1, SameWords, SameStores DEF Service!Refusals, Answers
      <3> QED
        BY <2>1, <2>3, <3>2, Refuses, SequencesStay DEF Busy
    <2>4. CASE (\E r \in rows : r.readonly /\ write) /\ Respond(p, "NotWritable")
      <3>1. PICK r \in rows : r.readonly /\ write
        BY <2>4
      <3>2. req[p].op \in Writing
        BY <3>1
      <3>3. Keyed(db)
        BY DEF Busy, ServiceInv, StoreInv
      <3>4. SharedWith(db, u, l) /\ ~ SharedToWrite(db, u, l)
        BY <3>1, <3>3 DEF ShareRows, SharedWith, SharedToWrite, Keyed
      <3>5. "NotWritable" \in Service!Refusals(req[p], db)
        BY <2>2, <3>2, <3>4, SameWords, SameStores DEF Service!Refusals, Answers
      <3> QED
        BY <2>1, <2>4, <3>5, Refuses, SequencesStay DEF Busy
    <2>5. CASE (\E r \in rows : ~ (r.readonly /\ write)) /\ Goto(p, label) /\ UNCHANGED tx
      <3>1. PICK r \in rows : ~ (r.readonly /\ write)
        BY <2>5
      <3>2. /\ SharedWith(db, u, l)
            /\ req[p].op \in Writing => SharedToWrite(db, u, l)
        BY <3>1 DEF ShareRows, SharedWith, SharedToWrite, Reading, Writing
      <3>3. Service!Allowed(req[p], db)
        BY <3>2, NeededRights DEF Rights
      <3> QED
        BY <1>3, <2>1, <2>5, <3>3, Enters DEF Later, Reusing
    <2> QED
      BY <1>3, <2>3, <2>4, <2>5 DEF CheckList
  <1> QED
    BY <1>1, <1>2, <1>3 DEF CheckList

\* A connection that fails.
LEMMA FailEnds ==
  ASSUME NEW p \in Workers, Busy(p), Fail(p)
  PROVE  Ended(p)
  <1>1. Failures /\ UNCHANGED <<db, req, seen, next>>
    BY DEF Fail
  <1>2. CASE pc[p] = "is_owner" /\ req[p].op \in Reading \cup Writing
    BY <1>1, <1>2, ChecksOn DEF Fail
  <1>3. CASE Respond(p, "Internal")
    <2>1. "Internal" \in Service!Refusals(req[p], db)
      BY <1>1, SameWords DEF Service!Refusals, Answers
    <2> QED
      BY <1>1, <1>3, <2>1, Refuses, SequencesStay DEF Busy
  <1> QED
    BY <1>2, <1>3 DEF Fail

\* Nothing is in the way of a request that is alone.
LEMMA NothingConflicts ==
  ASSUME NEW d PROVE ~ Conflict(d, NoChange) /\ ~ Conflict(NoChange, d)
  <1>1. Written(NoChange) = {} /\ Removed(NoChange) = {}
    <2>1. Keys(Empty) = {} /\ ListKeys(Empty) = {} /\ PantryKeys(Empty) = {}
      BY DEF Empty, Keys, ListKeys, PantryKeys
    <2> QED
      BY <2>1 DEF NoChange, Written, Removed
  <1>2. Referred(NoChange) = {}
    <2>1. Unmatched(Empty, Empty) = Empty /\ References(Empty) = {}
      BY DEF Empty, References, Unmatched
    <2> QED
      BY <2>1 DEF NoChange, Referred
  <1> QED
    BY <1>1, <1>2 DEF Conflict

LEMMA DeadlockNever ==
  ASSUME NEW p \in Workers, ServiceInv, Serial
  PROVE  ~ Deadlock(p)
  <1>1. ASSUME NEW q \in Workers \ {p} PROVE ~ Conflict(Pending(p), tx[q])
    <2>1. CASE pc[p] = "idle"
      BY <2>1, NothingConflicts DEF Pending
    <2>2. CASE pc[p] # "idle"
      <3>1. pc[q] = "idle"
        BY <2>2 DEF Serial
      <3>2. tx[q] = NoChange
        BY <3>1, IdleRunning DEF ServiceInv
      <3> QED
        BY <3>2, NothingConflicts
    <2> QED
      BY <2>1, <2>2
  <1>2. WaitsFor(p) = {}
    BY <1>1 DEF WaitsFor
  <1> QED
    BY <1>2 DEF Deadlock, Ring

---------------------------------------------------------------------------
(***************************************************************************)
(* Statements that write, and the commit.                                  *)
(***************************************************************************)
\* Past the checks the right is there.
LEMMA RightStays ==
  ASSUME NEW p \in Workers, Busy(p), pc[p] \notin Checking \cup Listing
  PROVE  Service!Allowed(req[p], db)
  BY DEF Busy, ServiceInv, Running, Permitted

\* What a statement that succeeds does.
LEMMA Executed ==
  ASSUME NEW p \in Workers, Busy(p), NEW d, NEW inRange, NEW label,
         Execute(p, d, inRange, label), inRange, ReferencesHold(Apply(View(p), d)),
         next'.list >= next.list, next'.content >= next.content, next'.pantry >= next.pantry
  PROVE  /\ Frame(p) /\ pc'[p] = label /\ answer'[p] = "none" /\ UNCHANGED db
         /\ seen'[p] = seen[p] /\ View(p)' = Apply(View(p), d)
  <1>1. Goto(p, label) /\ tx' = [tx EXCEPT ![p] = Then(@, d)] /\ UNCHANGED <<db, req, seen>>
    BY DEF Execute
  <1>2. Frame(p) /\ pc'[p] = label
    BY <1>1, GotoFrame DEF Busy
  <1>3. answer'[p] = "none"
    BY <1>1 DEF Goto, Busy, ServiceInv, Running, Waiting
  <1>4. tx'[p] = Then(tx[p], d)
    BY <1>1 DEF Busy, TypeOK
  <1>5. View(p)' = Apply(View(p), d)
    BY <1>1, <1>4, ThenApplied DEF View
  <1> QED
    BY <1>1, <1>2, <1>3, <1>5

\* A statement in the middle of a transaction.
LEMMA StatementEnds ==
  ASSUME NEW p \in Workers, Busy(p), NEW d, NEW label \in Later, Execute(p, d, TRUE, label),
         pc[p] \notin Checking \cup Listing, ReferencesHold(Apply(View(p), d)),
         \/ UNCHANGED next /\ pc[p] \notin {"upsert_history", "commit"}
         \/ /\ label = "upsert_history"
            /\ next'.list >= next.list /\ next'.content >= next.content
            /\ next'.pantry >= next.pantry,
         Stage(p)', Fetched(p)'
  PROVE  Ended(p)
  <1>1. next'.list >= next.list /\ next'.content >= next.content /\ next'.pantry >= next.pantry
    BY SequencesStay DEF Busy
  <1>2. Frame(p) /\ pc'[p] = label /\ answer'[p] = "none" /\ UNCHANGED db
    BY <1>1, Executed
  <1>3. Service!Allowed(req[p], db)
    BY RightStays
  <1>4. Permitted(p)'
    BY <1>2, <1>3 DEF Permitted, Later, Frame
  <1>5. req'[p] \in RequestSet
    BY <1>2 DEF Busy, ServiceInv, Running, Waiting, Frame
  <1>6. label \notin {"upsert_history", "commit"} => HasRoom(req[p])'
    <2>1. CASE UNCHANGED next /\ pc[p] \notin {"upsert_history", "commit"}
      BY <1>2, <2>1 DEF Busy, ServiceInv, Running, Waiting, Frame, HasRoom
    <2> QED
      BY <2>1
  <1>7. Waiting(p)'
    BY <1>2, <1>5, <1>6 DEF Waiting, Frame
  <1> QED
    BY <1>2, <1>4, <1>7 DEF Ended, Continued, Running, Later

\* What a transaction that is done is worth.
LEMMA LastStatementEnds ==
  ASSUME NEW p \in Workers, Busy(p), NEW d, Execute(p, d, TRUE, "commit"),
         pc[p] \notin Checking \cup Listing, UNCHANGED next,
         NEW i \in RowIds, Service!Fresh(req[p], db, i),
         req[p].op = "add_list" => i < next.content,
         req[p].op # "refill_pantry",
         Apply(View(p), d) = Outcome(p, i),
         \A q \in Outcome(p, i).pantry \ db.pantry : InRange(q.amount),
         seen[p] = IF req[p].op = "delete_item" THEN [Empty EXCEPT !.content = Service!Item(req[p], db)]
                   ELSE Empty
  PROVE  Ended(p)
  <1> DEFINE t == Outcome(p, i)
  <1>1. Service!Possible(req[p], db, t) <=> ReferencesHold(t)
    BY SameWords, SameStores DEF Service!Possible
  <1>2. CASE ReferencesHold(t)
    <2>1. /\ Frame(p) /\ pc'[p] = "commit" /\ answer'[p] = "none" /\ UNCHANGED db
          /\ seen'[p] = seen[p] /\ View(p)' = t
      BY <1>2, Executed, SequencesStay DEF Busy
    <2>2. req'[p] = req[p] /\ req[p] \in RequestSet
      BY <2>1 DEF Frame, Busy, ServiceInv, Running, Waiting
    <2>3. Waiting(p)' /\ Permitted(p)'
      BY <2>1, <2>2, RightStays DEF Waiting, Permitted
    <2>4. Outcome(p, i)' = Outcome(p, i)
      BY <2>1, <2>2 DEF Outcome
    <2>5. Stage(p)'
      <3>1. Service!Possible(req[p], db, t)
        BY <1>1, <1>2
      <3> HIDE DEF t
      <3> QED
        BY <2>1, <2>2, <2>4, <3>1 DEF Stage, Later, t
    <2>6. Fetched(p)'
      BY <2>1, <2>2 DEF Fetched, Reusing
    <2> QED
      BY <2>1, <2>3, <2>5, <2>6 DEF Ended, Continued, Running
  <1>3. CASE ~ ReferencesHold(t)
    <2>1. Respond(p, "Internal") /\ UNCHANGED <<db, req, seen>>
      BY <1>3 DEF Execute
    <2>2. "Internal" \in Service!Refusals(req[p], db)
      BY <1>1, <1>3, SameWords DEF Service!Refusals, Answers, Outcome
    <2> QED
      BY <2>1, <2>2, Refuses, SequencesStay DEF Busy
  <1> QED
    BY <1>2, <1>3

\* The requests that are transactions of more than one statement.
Transactions == {"add_list", "update_item", "delete_item", "delete_list", "unshare",
                 "delete_shares", "delete_pantry_item"}

LEMMA NothingFound ==
  ASSUME NEW r, NEW s, r.op \in Changing
  PROVE  Service!Found(r, s) = Empty
  BY SameWords DEF Changing, Service!Found

\* The answer after a commit.
LEMMA CommittedFrame ==
  ASSUME TypeOK, NEW p \in Workers, Committed(p), UNCHANGED <<req, seen>>,
         next'.list >= next.list, next'.content >= next.content, next'.pantry >= next.pantry
  PROVE  /\ Frame(p) /\ pc'[p] = "done" /\ tx'[p] = NoChange
         /\ (answer'[p] = "ok") \/ (Failures /\ answer'[p] = "Internal")
  BY RespondFrame DEF Committed

LEMMA CommitEnds ==
  ASSUME NEW p \in Workers, Busy(p), Commit(p), req[p].op \in Transactions
  PROVE  Ended(p)
  <1>1. pc[p] = "commit" /\ db' = View(p) /\ UNCHANGED <<req, seen, next>> /\ Committed(p)
    BY DEF Commit
  <1>2. Stage(p) /\ Fetched(p)
    BY DEF Busy, ServiceInv, Running
  <1>3. PICK i \in RowIds :
          /\ Service!Fresh(req[p], db, i) /\ (req[p].op = "add_list" => i < next.content)
          /\ View(p) = Outcome(p, i) /\ Service!Possible(req[p], db, Outcome(p, i))
    BY <1>1, <1>2 DEF Stage
  <1>4. /\ Frame(p) /\ pc'[p] = "done" /\ tx'[p] = NoChange
        /\ (answer'[p] = "ok") \/ (Failures /\ answer'[p] = "Internal")
    BY <1>1, CommittedFrame, SequencesStay DEF Busy
  <1>5. Service!Allowed(req[p], db)
    BY <1>1, RightStays DEF Checking, Listing
  <1>6. Counted(req[p], db, i, next')
    BY <1>1, <1>3 DEF Counted, Transactions
  <1>7. Shown(p)
    <2>1. seen'[p] = IF req[p].op = "delete_item"
                     THEN [Empty EXCEPT !.content = Service!Item(req[p], db)] ELSE Empty
      BY <1>1, <1>2 DEF Fetched
    <2>2. CASE req[p].op = "delete_item"
      BY <2>1, <2>2 DEF Shown, Empty
    <2>3. CASE req[p].op # "delete_item"
      <3>1. Service!Found(req[p], db) = Empty
        BY NothingFound DEF Transactions, Changing
      <3> QED
        BY <2>1, <2>3, <3>1 DEF Shown, Transactions
    <2> QED
      BY <2>2, <2>3
  <1>8. Served(p)
    BY <1>1, <1>3, <1>4, <1>5, <1>6, <1>7 DEF Served
  <1> QED
    BY <1>4, <1>8 DEF Ended

\* A statement that is a transaction of its own.
LEMMA AutocommitEnds ==
  ASSUME NEW p \in Workers, Busy(p), NEW d, NEW inRange, Autocommit(p, d, inRange),
         pc[p] \notin Checking \cup Listing,
         next'.list >= next.list, next'.content >= next.content, next'.pantry >= next.pantry,
         NEW i \in RowIds, Service!Fresh(req[p], db, i), Counted(req[p], db, i, next'),
         Apply(db, d) = Outcome(p, i),
         inRange /\ ReferencesHold(Outcome(p, i)) <=> Service!Possible(req[p], db, Outcome(p, i)),
         req[p].op \in Changing \ {"delete_item"}, seen[p].lists = {},
         req[p].op # "refill_pantry" => seen[p] = Empty
  PROVE  Ended(p)
  <1> DEFINE t == Outcome(p, i)
  <1>1. CASE inRange /\ ReferencesHold(t)
    <2>1. db' = t /\ Committed(p) /\ UNCHANGED <<req, seen>>
      BY <1>1 DEF Autocommit
    <2>2. /\ Frame(p) /\ pc'[p] = "done" /\ tx'[p] = NoChange
          /\ (answer'[p] = "ok") \/ (Failures /\ answer'[p] = "Internal")
      BY <2>1, CommittedFrame DEF Busy
    <2>3. Service!Allowed(req[p], db)
      BY RightStays
    <2>4. Shown(p)
      <3>1. Service!Found(req[p], db) = Empty
        BY NothingFound
      <3> QED
        BY <2>1, <3>1 DEF Shown
    <2>5. Service!Possible(req[p], db, t)
      BY <1>1
    <2>6. Served(p)
      BY <2>1, <2>2, <2>3, <2>4, <2>5 DEF Served
    <2> QED
      BY <2>2, <2>6 DEF Ended
  <1>2. CASE ~ (inRange /\ ReferencesHold(t))
    <2>1. Respond(p, "Internal") /\ UNCHANGED <<db, req, seen>>
      BY <1>2 DEF Autocommit
    <2>2. "Internal" \in Service!Refusals(req[p], db)
      BY <1>2, SameWords DEF Service!Refusals, Answers, Outcome
    <2> QED
      BY <2>1, <2>2, Refuses
  <1> QED
    BY <1>1, <1>2

---------------------------------------------------------------------------
(***************************************************************************)
(* Statements that read.                                                   *)
(***************************************************************************)
\* What a SELECT on the way does.
LEMMA SelectEnds ==
  ASSUME NEW p \in Workers, Busy(p), NEW found,
         NEW label \in Reusing \ Later, Select(p, found, label),
         pc[p] \notin {"upsert_history", "commit"} \cup Later,
         label \in Listing \/ Service!Allowed(req[p], db),
         Fetched(p)'
  PROVE  Ended(p)
  <1>1. Goto(p, label) /\ seen' = [seen EXCEPT ![p] = Both(@, found)]
        /\ UNCHANGED <<db, tx, req, next>>
    BY DEF Select
  <1>2. Frame(p) /\ pc'[p] = label
    BY <1>1, GotoFrame, SequencesStay DEF Busy
  <1>3. /\ answer'[p] = "none" /\ req'[p] \in RequestSet /\ HasRoom(req[p])
        /\ tx'[p] = NoChange
    BY <1>1 DEF Running, Waiting, Stage, Busy, ServiceInv, Goto
  <1>4. Waiting(p)' /\ Permitted(p)' /\ Stage(p)'
    BY <1>1, <1>2, <1>3 DEF Waiting, Permitted, Stage, HasRoom, Reusing, Later
  <1> QED
    BY <1>1, <1>2, <1>4 DEF Ended, Continued, Running, Reusing, Later

LEMMA SelectLastEnds ==
  ASSUME NEW p \in Workers, Busy(p), NEW found, SelectLast(p, found),
         req[p].op \notin Changing, Service!Allowed(req[p], db),
         Both(seen[p], found) = Service!Found(req[p], db)
  PROVE  Ended(p)
  <1>1. Respond(p, "ok") /\ seen' = [seen EXCEPT ![p] = Both(@, found)]
        /\ UNCHANGED <<db, req, next>>
    BY DEF SelectLast
  <1>2. Frame(p) /\ pc'[p] = "done" /\ tx'[p] = NoChange /\ answer'[p] = "ok"
    BY <1>1, RespondFrame, SequencesStay DEF Busy
  <1>3. seen'[p] = Service!Found(req[p], db)
    BY <1>1 DEF Busy, TypeOK
  <1>4. 1 \in RowIds
    BY BoundAssumption DEF RowIds
  <1>5. Outcome(p, 1) = db
    BY NoEffect DEF Outcome
  <1>6. Service!Fresh(req[p], db, 1) /\ Counted(req[p], db, 1, next')
    BY DEF Service!Fresh, Counted, Changing
  <1>7. Service!Possible(req[p], db, db)
    BY SameWords, SameStores DEF Service!Possible, Changing, Busy, ServiceInv, StoreInv
  <1>8. Shown(p)
    BY <1>3 DEF Shown, Changing
  <1>9. Served(p)
    BY <1>1, <1>2, <1>4, <1>5, <1>6, <1>7, <1>8 DEF Served
  <1> QED
    BY <1>2, <1>9 DEF Ended

---------------------------------------------------------------------------
(***************************************************************************)
(* The handlers, one after the other.                                      *)
(***************************************************************************)
\* When rows are only added.
LEMMA Insertion ==
  ASSUME NEW s, NEW I
  PROVE  /\ Apply(s, OnLists({}, I))
              = Holding(s.lists \cup I, s.sharing, s.content, s.history, s.pantry)
         /\ Apply(s, OnContent({}, I))
              = Holding(s.lists, s.sharing, s.content \cup I, s.history, s.pantry)
         /\ Apply(s, OnPantry({}, I))
              = Holding(s.lists, s.sharing, s.content, s.history, s.pantry \cup I)
  BY DEF Apply, Holding, OnLists, OnSharing, OnContent, OnHistory, OnPantry, Empty

\* The tables of a store that is given by its tables.
LEMMA HoldingTables ==
  ASSUME NEW l, NEW t, NEW c, NEW h, NEW q
  PROVE  /\ Holding(l, t, c, h, q).lists = l   /\ Holding(l, t, c, h, q).sharing = t
         /\ Holding(l, t, c, h, q).content = c /\ Holding(l, t, c, h, q).history = h
         /\ Holding(l, t, c, h, q).pantry = q
  BY DEF Holding

\* A statement on a store whose tables are known.
LEMMA NextLists ==
  ASSUME NEW l, NEW t, NEW c, NEW h, NEW q, NEW D, NEW I, NEW x, x = (l \ D) \cup I
  PROVE  Apply(Holding(l, t, c, h, q), OnLists(D, I)) = Holding(x, t, c, h, q)
  BY DEF Apply, Holding, OnLists, Empty

LEMMA NextSharing ==
  ASSUME NEW l, NEW t, NEW c, NEW h, NEW q, NEW D, NEW I, NEW x, x = (t \ D) \cup I
  PROVE  Apply(Holding(l, t, c, h, q), OnSharing(D, I)) = Holding(l, x, c, h, q)
  BY DEF Apply, Holding, OnSharing, Empty

LEMMA NextContent ==
  ASSUME NEW l, NEW t, NEW c, NEW h, NEW q, NEW D, NEW I, NEW x, x = (c \ D) \cup I
  PROVE  Apply(Holding(l, t, c, h, q), OnContent(D, I)) = Holding(l, t, x, h, q)
  BY DEF Apply, Holding, OnContent, Empty

LEMMA NextHistory ==
  ASSUME NEW l, NEW t, NEW c, NEW h, NEW q, NEW D, NEW I, NEW x, x = (h \ D) \cup I
  PROVE  Apply(Holding(l, t, c, h, q), OnHistory(D, I)) = Holding(l, t, c, x, q)
  BY DEF Apply, Holding, OnHistory, Empty

LEMMA NextPantry ==
  ASSUME NEW l, NEW t, NEW c, NEW h, NEW q, NEW D, NEW I, NEW x, x = (q \ D) \cup I
  PROVE  Apply(Holding(l, t, c, h, q), OnPantry(D, I)) = Holding(l, t, c, h, x)
  BY DEF Apply, Holding, OnPantry, Empty

\* What a request is about to start with.
LEMMA Starting ==
  ASSUME NEW p \in Workers, Busy(p), req[p].op \in Operations
  PROVE  /\ db \in Store /\ next \in SequenceType
         /\ Keyed(db) /\ Numbered(db, next) /\ ReferencesHold(db) /\ Stockable(db)
         /\ next.list > 0 /\ next.content > 0 /\ next.pantry > 0
         /\ req[p] \in Request /\ WellFormed(req[p])
         /\ pc[p] \notin Later => View(p) = db
         /\ pc[p] \notin Reusing => seen[p] = Empty
         /\ pc[p] \notin {"upsert_history", "commit"} => HasRoom(req[p])
  <1>1. db \in Store /\ next \in SequenceType
    BY DEF Busy, TypeOK, SequenceType
  <1>2. StoreInv /\ Waiting(p) /\ Stage(p) /\ Fetched(p)
    BY DEF Busy, ServiceInv, Running
  <1>3. req[p] \in Request /\ WellFormed(req[p])
    BY RequestType DEF Busy
  <1>4. Apply(db, NoChange) = db
    BY <1>1 DEF Apply, NoChange, Empty, Store
  <1>5. pc[p] \notin Later => View(p) = db
    BY <1>2, <1>4 DEF Stage, View
  <1> QED
    BY <1>1, <1>2, <1>3, <1>5 DEF StoreInv, Waiting, Fetched, Busy, SequenceType

\* The effect of a request that leaves the pantry alone.
LEMMA PantryLeft ==
  ASSUME NEW r, r.op # "refill_pantry", NEW t, t.pantry = db.pantry
  PROVE  TRUE /\ ReferencesHold(t) <=> Service!Possible(r, db, t)
  BY SameStores DEF Service!Possible

\* An id that is used when something is made, and one when nothing is.
LEMMA Bounded ==
  ASSUME NEW i \in Nat \ {0}, i <= MaxLists \/ i <= MaxItems \/ i <= MaxPantry \/ i = 1
  PROVE  i \in RowIds
  BY BoundAssumption DEF RowIds

LEMMA OneId == 1 \in RowIds
  BY Bounded

\* A read that answers with what it reads.
LEMMA OnlyRead ==
  ASSUME NEW t \in Store
  PROVE  Both(Empty, t) = t
  BY DEF Both, Empty, Store

LEMMA CreateListEnds ==
  ASSUME NEW p \in Workers, Busy(p), CreateList(p)
  PROVE  Ended(p)
  <1>1. req[p].op = "create_list"
    BY DEF CreateList, At
  <1>2. req[p].op \in Operations
    BY <1>1 DEF Operations
  <1>3. Service!Allowed(req[p], db) <=> ~ Service!Taken(req[p], db)
    BY <1>1, SameWords DEF Service!Allowed, Needed, Owning, Writing, Reading
  <1>4. CASE pc[p] = "count_names"
    <2>1. UNCHANGED <<db, req, seen, next>>
      BY <1>4 DEF CreateList, At
    <2>2. CASE NamedLists(req[p].user, req[p].name) = {}
      <3>1. Goto(p, "insert_list") /\ UNCHANGED tx
        BY <1>4, <2>2 DEF CreateList, At
      <3>2. Service!Allowed(req[p], db)
        BY <1>3, <2>2 DEF NamedLists, Service!Taken
      <3> QED
        BY <1>4, <2>1, <3>1, <3>2, Enters, EntranceLabels DEF Later, Reusing
    <2>3. CASE NamedLists(req[p].user, req[p].name) # {}
      <3>1. Respond(p, "ListAlreadyExists")
        BY <1>4, <2>3 DEF CreateList, At
      <3>2. "ListAlreadyExists" \in Service!Refusals(req[p], db)
        BY <1>1, <1>3, <2>3, SameWords DEF NamedLists, Service!Taken, Service!Refusals, Answers
      <3> QED
        BY <2>1, <3>1, <3>2, Refuses, SequencesStay DEF Busy
    <2> QED
      BY <2>2, <2>3
  <1>5. CASE pc[p] = "insert_list"
    <2> DEFINE i == next.list
    <2>1. Autocommit(p, InsertList(p), TRUE) /\ next' = [next EXCEPT !.list = @ + 1]
      BY <1>5 DEF CreateList, At
    <2>2. pc[p] \notin Checking \cup Listing \cup Later \cup Reusing \cup {"upsert_history", "commit"}
      BY <1>5 DEF Checking, Listing, Later, Reusing
    <2>3. /\ db \in Store /\ next \in SequenceType /\ Numbered(db, next)
          /\ next.list > 0 /\ seen[p] = Empty /\ HasRoom(req[p])
      BY <1>2, <2>2, Starting
    <2>4. next'.list = i + 1 /\ next'.content >= next.content /\ next'.pantry >= next.pantry
      BY <2>1, <2>3 DEF SequenceType
    <2>5. i \in RowIds
      BY <1>1, <2>3, Bounded DEF HasRoom, SequenceType
    <2>6. Service!Fresh(req[p], db, i)
      BY <1>1, <2>3, SameStores DEF Service!Fresh, ListIds, Numbered, Store, ListRow, SequenceType
    <2>7. Counted(req[p], db, i, next')
      BY <1>1, <2>3, <2>4 DEF Counted, SequenceType
    <2>8. Outcome(p, i) = Holding(db.lists \cup {[id |-> i, owner |-> req[p].user,
                                                  name |-> req[p].name, pub |-> FALSE]},
                                  db.sharing, db.content, db.history, db.pantry)
      BY <1>1, <2>3, ListEffects DEF Outcome
    <2>9. Apply(db, InsertList(p)) = Outcome(p, i)
      BY <2>8, Insertion DEF InsertList
    <2>10. TRUE /\ ReferencesHold(Outcome(p, i)) <=> Service!Possible(req[p], db, Outcome(p, i))
      BY <1>1, <2>8, HoldingTables, PantryLeft
    <2>11. next'.list >= next.list
      BY <2>3, <2>4 DEF SequenceType
    <2>12. req[p].op \in Changing \ {"delete_item"} /\ seen[p].lists = {}
      BY <1>1, <2>3 DEF Changing, Empty
    <2> QED
      BY <2>1, <2>2, <2>3, <2>4, <2>5, <2>6, <2>7, <2>9, <2>10, <2>11, <2>12, AutocommitEnds
  <1> QED
    BY <1>4, <1>5 DEF CreateList, At

LEMMA ReadListEnds ==
  ASSUME NEW p \in Workers, Busy(p), ReadList(p)
  PROVE  Ended(p)
  <1> DEFINE items == [Empty EXCEPT !.content = OfList(db.content, req[p].list)]
             shares == [Empty EXCEPT !.sharing = ShareRows(req[p].user, req[p].list)]
  <1>1. req[p].op = "read_list" /\ req[p].op \in Operations
    BY DEF ReadList, Operations
  <1>2. CASE CheckList(p, FALSE, "select_content")
    BY <1>1, <1>2, CheckListEnds, EntranceLabels DEF Reading
  <1>3. CASE pc[p] = "select_content" /\ Select(p, items, "select_readonly")
    <2>1. pc[p] \notin Checking \cup Listing \cup Later \cup Reusing
      BY <1>3 DEF Checking, Listing, Later, Reusing
    <2>2. Service!Allowed(req[p], db)
      BY <2>1, RightStays
    <2>3. seen[p] = Empty /\ items \in Store
      BY <1>1, <2>1, Starting, FoundType DEF Busy
    <2>4. seen'[p] = items /\ pc'[p] = "select_readonly" /\ UNCHANGED <<db, req>>
      BY <1>3, <2>3, OnlyRead DEF Select, Goto, Busy, TypeOK
    <2>5. Fetched(p)'
      BY <2>4 DEF Fetched, Reusing
    <2>6. "select_readonly" \in Reusing \ Later
      BY DEF Reusing, Later
    <2> QED
      BY <1>3, <2>1, <2>2, <2>5, <2>6, SelectEnds DEF Later
  <1>4. CASE pc[p] = "select_readonly" /\ SelectLast(p, shares)
    <2>1. Service!Allowed(req[p], db)
      BY <1>4, RightStays DEF Checking, Listing
    <2>2. seen[p] = items
      BY <1>4 DEF Busy, ServiceInv, Running, Fetched
    <2>3. OfList(SharesOf(db, req[p].user), req[p].list) = ShareRows(req[p].user, req[p].list)
      BY DEF OfList, SharesOf, ShareRows
    <2>4. Service!Found(req[p], db) =
            [Empty EXCEPT !.content = OfList(db.content, req[p].list),
                          !.sharing = ShareRows(req[p].user, req[p].list)]
      BY <1>1, <2>3, SameWords, SameStores DEF Service!Found
    <2>5. Both(items, shares) = Service!Found(req[p], db)
      BY <2>4 DEF Both, Empty
    <2> QED
      BY <1>1, <1>4, <2>1, <2>2, <2>5, SelectLastEnds DEF Changing
  <1> QED
    BY <1>2, <1>3, <1>4 DEF ReadList

\* The list of a request that may write to it is there.
LEMMA ListThere ==
  ASSUME NEW p, ReferencesHold(db), Service!Allowed(req[p], db), req[p].op \in Writing
  PROVE  req[p].list \in ListIds(db)
  <1>1. "write" \in Rights(db, req[p].user, req[p].list)
    BY NeededRights
  <1> QED
    BY <1>1 DEF Rights, Owns, SharedToWrite, SharedWith, ReferencesHold, ListIds

LEMMA AddListEnds ==
  ASSUME NEW p \in Workers, Busy(p), AddList(p)
  PROVE  Ended(p)
  <1> DEFINE r == req[p]
             item(i) == [id |-> i, list |-> r.list, name |-> r.name, amount |-> r.amount,
                         from_pantry |-> NoItem]
             row == [list |-> r.list, creator |-> r.user, name |-> r.name]
  <1>1. r.op = "add_list" /\ r.op \in Operations /\ r.op \in Writing
    BY DEF AddList, Operations, Writing
  <1>2. db \in Store
    BY <1>1, Starting
  <1>3. \A i : Outcome(p, i) = Holding(db.lists, db.sharing, db.content \cup {item(i)},
                                       db.history \cup {row}, db.pantry)
    BY <1>1, <1>2, ItemEffects DEF Outcome
  <1>9. \A i : /\ Outcome(p, i).content = db.content \cup {item(i)}
               /\ Outcome(p, i).pantry = db.pantry
    <2> TAKE i
    <2> DEFINE c == db.content \cup {item(i)}
               h == db.history \cup {row}
    <2>1. Outcome(p, i) = Holding(db.lists, db.sharing, c, h, db.pantry)
      BY <1>3
    <2> HIDE DEF c, h
    <2>2. Outcome(p, i).content = c /\ Outcome(p, i).pantry = db.pantry
      BY <2>1, HoldingTables
    <2> QED
      BY <2>2 DEF c
  <1>4. CASE CheckList(p, TRUE, "begin")
    BY <1>1, <1>4, CheckListEnds, EntranceLabels
  <1>5. CASE Begin(p, "insert_content")
    BY <1>5, BeginEnds, EntranceLabels
  <1>6. CASE /\ pc[p] = "insert_content" /\ Execute(p, InsertContent(p), TRUE, "upsert_history")
             /\ next' = [next EXCEPT !.content = @ + 1]
    <2> DEFINE i == next.content
    <2>1. pc[p] \notin Checking \cup Listing \cup Later \cup Reusing \cup {"upsert_history", "commit"}
      BY <1>6 DEF Checking, Listing, Later, Reusing
    <2>2. /\ next \in SequenceType /\ Numbered(db, next) /\ ReferencesHold(db)
          /\ next.content > 0 /\ seen[p] = Empty /\ HasRoom(r) /\ View(p) = db
      BY <1>1, <2>1, Starting
    <2>3. next'.content = i + 1 /\ next'.list >= next.list /\ next'.pantry >= next.pantry
      BY <1>6, <2>2 DEF SequenceType
    <2>4. i \in RowIds /\ i < next'.content /\ next'.content >= next.content
      BY <1>1, <2>2, <2>3, Bounded DEF HasRoom, SequenceType
    <2>5. Service!Fresh(r, db, i)
      BY <1>1, <1>2, <2>2 DEF Service!Fresh, Numbered, Store, ContentRow, SequenceType
    <2>6. Apply(View(p), InsertContent(p))
            = Holding(db.lists, db.sharing, db.content \cup {item(i)}, db.history, db.pantry)
      BY <2>2, Insertion DEF InsertContent
    <2>7. ReferencesHold(Apply(View(p), InsertContent(p)))
      <3>1. r.list \in ListIds(db)
        BY <1>1, <2>1, <2>2, RightStays, ListThere
      <3> QED
        BY <2>2, <2>6, <3>1 DEF ReferencesHold, Holding, ListIds, PantryItems
    <2>8. /\ Frame(p) /\ pc'[p] = "upsert_history" /\ UNCHANGED db /\ seen'[p] = Empty
          /\ View(p)' = Apply(View(p), InsertContent(p))
      BY <1>6, <2>2, <2>3, <2>4, <2>7, Executed
    <2>9. req'[p] = req[p] /\ \A j : Outcome(p, j)' = Outcome(p, j)
      BY <2>8 DEF Frame, Outcome
    <2>10. View(p)' = Holding(db.lists, db.sharing, Outcome(p, i).content, db.history, db.pantry)
      BY <1>3, <2>6, <2>8, HoldingTables
    <2>11. Stage(p)'
      BY <2>4, <2>5, <2>8, <2>9, <2>10 DEF Stage, Later
    <2>12. Fetched(p)'
      BY <2>8 DEF Fetched, Reusing
    <2>13. "upsert_history" \in Later
      BY DEF Later
    <2> QED
      BY <1>6, <2>1, <2>3, <2>4, <2>7, <2>11, <2>12, <2>13, StatementEnds
  <1>7. CASE pc[p] = "upsert_history" /\ Execute(p, UpsertHistory(p), TRUE, "commit") /\ UNCHANGED next
    <2>1. PICK i \in RowIds :
            /\ Service!Fresh(r, db, i) /\ i < next.content
            /\ View(p) = Holding(db.lists, db.sharing, Outcome(p, i).content, db.history, db.pantry)
      BY <1>7 DEF Busy, ServiceInv, Running, Stage
    <2>2. seen[p] = Empty
      BY <1>1, <1>7, Starting DEF Reusing
    <2>3. Apply(View(p), UpsertHistory(p)) = Outcome(p, i)
      <3> DEFINE c == db.content \cup {item(i)}
                 h == db.history \cup {row}
                 old == db.history \cap {row}
                 new == {row}
      <3>1. View(p) = Holding(db.lists, db.sharing, c, db.history, db.pantry)
        BY <1>9, <2>1
      <3>2. Outcome(p, i) = Holding(db.lists, db.sharing, c, h, db.pantry)
        BY <1>3
      <3>3. h = (db.history \ old) \cup new
        OBVIOUS
      <3>4. View(p).history = db.history => UpsertHistory(p) = OnHistory(old, new)
        BY DEF UpsertHistory
      <3> HIDE DEF c, h, old, new
      <3>5. UpsertHistory(p) = OnHistory(old, new)
        BY <3>1, <3>4, HoldingTables
      <3>6. Apply(Holding(db.lists, db.sharing, c, db.history, db.pantry), OnHistory(old, new))
              = Holding(db.lists, db.sharing, c, h, db.pantry)
        BY <3>3, NextHistory
      <3> QED
        BY <3>1, <3>2, <3>5, <3>6
    <2>4. \A q \in Outcome(p, i).pantry \ db.pantry : InRange(q.amount)
      <3>1. Outcome(p, i).pantry = db.pantry
        BY <1>9
      <3> QED
        BY <3>1
    <2>5. pc[p] \notin Checking \cup Listing
      BY <1>7 DEF Checking, Listing
    <2> QED
      BY <1>1, <1>7, <2>1, <2>2, <2>3, <2>4, <2>5, LastStatementEnds
  <1>8. CASE Commit(p)
    BY <1>1, <1>8, CommitEnds DEF Transactions
  <1> QED
    BY <1>4, <1>5, <1>6, <1>7, <1>8 DEF AddList

\* An item with a new name, or with what update_item gives it.
NamedRow(r, c) == [c EXCEPT !.name = Service!Given(r.name, @)]
UpdatedRow(r, c) ==
  [c EXCEPT !.name = Service!Given(r.name, @), !.amount = Service!Given(r.amount, @)]

LEMMA UpdatedItem ==
  ASSUME NEW r, NEW c \in ContentRow
  PROVE  /\ NamedRow(r, c).list = c.list /\ NamedRow(r, c).id = c.id
         /\ NamedRow(r, c).from_pantry = c.from_pantry
         /\ r.name = NULL => NamedRow(r, c) = c
         /\ r.name # NULL => NamedRow(r, c) = [c EXCEPT !.name = r.name]
         /\ r.amount = NULL => UpdatedRow(r, c) = NamedRow(r, c)
         /\ r.amount # NULL => UpdatedRow(r, c) = [NamedRow(r, c) EXCEPT !.amount = r.amount]
  BY DEF NamedRow, UpdatedRow, Service!Given, ContentRow

\* The rows of the item, renamed; and the items when both columns are set.
NamedRows(r, s) == {NamedRow(r, c) : c \in Service!Item(r, s)}
Updated(r, s) ==
  (s.content \ Service!Item(r, s)) \cup {UpdatedRow(r, c) : c \in Service!Item(r, s)}

LEMMA UpdatedItems ==
  ASSUME NEW s \in Store, NEW r
  PROVE  /\ r.name = NULL => Renamed(r, s) = s.content
         /\ {d \in Renamed(r, s) : d.list = r.list /\ d.id = r.item} = NamedRows(r, s)
         /\ r.amount = NULL => Updated(r, s) = Renamed(r, s)
         /\ r.amount # NULL =>
              Updated(r, s) = (Renamed(r, s) \ NamedRows(r, s)) \cup
                                {[d EXCEPT !.amount = r.amount] : d \in NamedRows(r, s)}
  <1> DEFINE old == Service!Item(r, s)
  <1>1. \A c \in s.content : c \in ContentRow
    BY DEF Store
  <1>2. old \subseteq s.content /\ \A c \in s.content : c \in old <=> c.list = r.list /\ c.id = r.item
    BY DEF Service!Item
  <1>3. Renamed(r, s) = (s.content \ old) \cup {NamedRow(r, c) : c \in old}
    BY DEF Renamed, NamedRow
  <1>4. \A c \in old : /\ NamedRow(r, c).list = r.list /\ NamedRow(r, c).id = r.item
                       /\ r.name = NULL => NamedRow(r, c) = c
                       /\ r.amount = NULL => UpdatedRow(r, c) = NamedRow(r, c)
                       /\ r.amount # NULL =>
                            UpdatedRow(r, c) = [NamedRow(r, c) EXCEPT !.amount = r.amount]
    BY <1>1, <1>2, UpdatedItem
  <1> HIDE DEF old
  <1>5. r.name = NULL => Renamed(r, s) = s.content
    BY <1>2, <1>3, <1>4
  <1>6. {d \in Renamed(r, s) : d.list = r.list /\ d.id = r.item} = NamedRows(r, s)
    BY <1>2, <1>3, <1>4 DEF NamedRows, old
  <1>7. r.amount = NULL => Updated(r, s) = Renamed(r, s)
    BY <1>3, <1>4 DEF Updated, old
  <1>8. ASSUME r.amount # NULL
        PROVE  Updated(r, s) = (Renamed(r, s) \ NamedRows(r, s)) \cup
                                 {[d EXCEPT !.amount = r.amount] : d \in NamedRows(r, s)}
    <2>1. Renamed(r, s) \ NamedRows(r, s) = s.content \ old
      BY <1>2, <1>3, <1>4 DEF NamedRows, old
    <2>2. {[d EXCEPT !.amount = r.amount] : d \in NamedRows(r, s)}
            = {UpdatedRow(r, c) : c \in old}
      BY <1>4, <1>8 DEF NamedRows, old
    <2> QED
      BY <2>1, <2>2 DEF Updated, old
  <1> QED
    BY <1>5, <1>6, <1>7, <1>8

\* Renaming an item breaks no reference.
LEMMA RenamedReferences ==
  ASSUME NEW s \in Store, NEW r, ReferencesHold(s)
  PROVE  ReferencesHold(Holding(s.lists, s.sharing, Renamed(r, s), s.history, s.pantry))
  <1> DEFINE t == Holding(s.lists, s.sharing, Renamed(r, s), s.history, s.pantry)
  <1>1. \A d \in Renamed(r, s) : \E c \in s.content : d.list = c.list /\ d.from_pantry = c.from_pantry
    <2> SUFFICES ASSUME NEW d \in Renamed(r, s)
                 PROVE  \E c \in s.content : d.list = c.list /\ d.from_pantry = c.from_pantry
      OBVIOUS
    <2>1. CASE d \in s.content
      BY <2>1
    <2>2. CASE \E c \in Service!Item(r, s) : d = NamedRow(r, c)
      <3>1. PICK c \in Service!Item(r, s) : d = NamedRow(r, c)
        BY <2>2
      <3>2. c \in s.content /\ c \in ContentRow
        BY DEF Service!Item, Store
      <3> QED
        BY <3>1, <3>2, UpdatedItem
    <2> QED
      BY <2>1, <2>2 DEF Renamed, NamedRow
  <1>2. /\ t.lists = s.lists /\ t.sharing = s.sharing /\ t.content = Renamed(r, s)
        /\ t.history = s.history /\ t.pantry = s.pantry
    BY HoldingTables
  <1> HIDE DEF t
  <1>3. ListIds(t) = ListIds(s) /\ PantryItems(t) = PantryItems(s)
    BY <1>2 DEF ListIds, PantryItems
  <1>4. ReferencesHold(t)
    BY <1>1, <1>2, <1>3 DEF ReferencesHold
  <1> QED
    BY <1>4 DEF t

\* A transaction that starts with nothing to do.
LEMMA BeginLater ==
  ASSUME NEW p \in Workers, Busy(p), NEW label \in Later, Begin(p, label), Stage(p)', Fetched(p)'
  PROVE  Ended(p)
  <1>1. pc[p] = "begin" /\ Goto(p, label) /\ UNCHANGED <<db, tx, req, seen, next>>
    BY DEF Begin
  <1>2. Frame(p) /\ pc'[p] = label
    BY <1>1, GotoFrame, SequencesStay DEF Busy
  <1>3. answer'[p] = "none" /\ req'[p] \in RequestSet /\ HasRoom(req[p])
    BY <1>1 DEF Busy, ServiceInv, Running, Waiting, Goto
  <1>4. Waiting(p)'
    BY <1>1, <1>2, <1>3 DEF Waiting, HasRoom
  <1>5. Service!Allowed(req[p], db)
    BY <1>1, RightStays DEF Checking, Listing
  <1>6. Permitted(p)'
    BY <1>1, <1>2, <1>5 DEF Permitted, Later
  <1> QED
    BY <1>1, <1>2, <1>4, <1>6 DEF Ended, Continued, Running, Later

LEMMA UpdateItemEnds ==
  ASSUME NEW p \in Workers, Busy(p), NameGiven, UpdateItem(p)
  PROVE  Ended(p)
  <1> DEFINE r == req[p]
             rest == IF r.amount = NULL THEN "commit" ELSE "update_amount"
  <1>1. r.op = "update_item" /\ r.op \in Operations /\ r.op \in Writing
    BY DEF UpdateItem, Operations, Writing
  <1>2. /\ db \in Store /\ ReferencesHold(db)
        /\ pc[p] \notin Later => View(p) = db
        /\ pc[p] \notin Reusing => seen[p] = Empty
    BY <1>1, Starting
  <1>3. \A i : Outcome(p, i) = Holding(db.lists, db.sharing, Updated(r, db), db.history, db.pantry)
    <2> TAKE i
    <2>1. Service!Effect(r, db, i)
            = Holding(db.lists, db.sharing, Updated(r, db), db.history, db.pantry)
      <3>1. Service!Effect(r, db, i) = Service!ItemUpdated(r, db)
        BY <1>1 DEF Service!Effect
      <3> QED
        BY <1>2, <3>1, StoreTables, Zenon DEF Service!ItemUpdated, Service!Swap, Updated, UpdatedRow
    <2> QED
      BY <2>1, Zenon DEF Outcome
  <1>4. Service!Fresh(r, db, 1)
    BY <1>1 DEF Service!Fresh
  <1>5. \A s : ItemRows(s, p) = {d \in s.content : d.list = r.list /\ d.id = r.item}
    BY DEF ItemRows
  <1>6. /\ "update_amount" \in Later /\ "commit" \in Later
        /\ Outcome(p, 1).pantry = db.pantry
    <2> HIDE DEF r
    <2> QED
      BY <1>3, HoldingTables DEF Later
  <1>7. CASE CheckList(p, TRUE, "begin")
    BY <1>1, <1>7, CheckListEnds, EntranceLabels
  <1>8. CASE Begin(p, IF r.name = NULL THEN rest ELSE "update_name")
    <2>1. pc[p] = "begin" /\ UNCHANGED <<db, tx, req, seen, next>>
      BY <1>8 DEF Begin
    <2>2. View(p) = db /\ seen[p] = Empty
      BY <1>2, <2>1 DEF Later, Reusing
    <2>3. CASE r.name # NULL
      BY <1>8, <2>3, BeginEnds, EntranceLabels
    <2>4. CASE r.name = NULL /\ r.amount # NULL
      <3>1. Begin(p, "update_amount")
        BY <1>8, <2>4
      <3>2. View(p)' = db /\ pc'[p] = "update_amount"
        BY <2>1, <2>2, <3>1 DEF View, Begin, Goto, Busy, TypeOK
      <3>3. db = Holding(db.lists, db.sharing, Renamed(r, db), db.history, db.pantry)
        <4>1. Renamed(r, db) = db.content
          BY <1>2, <2>4, UpdatedItems
        <4>2. db = Holding(db.lists, db.sharing, db.content, db.history, db.pantry)
          BY <1>2, StoreTables
        <4> QED
          BY <4>1, <4>2, Zenon
      <3>4. Stage(p)'
        BY <2>1, <2>4, <3>2, <3>3 DEF Stage, Later
      <3>5. Fetched(p)'
        BY <2>1, <2>2, <3>2 DEF Fetched, Reusing
      <3> QED
        BY <1>6, <3>1, <3>4, <3>5, BeginLater
    <2>5. CASE r.name = NULL /\ r.amount = NULL
      <3>1. Begin(p, "commit")
        BY <1>8, <2>5
      <3>2. View(p)' = db /\ pc'[p] = "commit"
        BY <2>1, <2>2, <3>1 DEF View, Begin, Goto, Busy, TypeOK
      <3>3. Outcome(p, 1) = db
        <4>1. Updated(r, db) = db.content
          BY <1>2, <2>5, UpdatedItems
        <4>2. db = Holding(db.lists, db.sharing, db.content, db.history, db.pantry)
          BY <1>2, StoreTables
        <4> QED
          BY <1>3, <4>1, <4>2, Zenon
      <3>4. Service!Possible(r, db, db)
        BY <1>1, <1>2, PantryLeft
      <3>5. Outcome(p, 1)' = Outcome(p, 1)
        BY <2>1 DEF Outcome
      <3>6. Stage(p)'
        BY <1>1, <1>4, <2>1, <3>2, <3>3, <3>4, <3>5, OneId DEF Stage, Later
      <3>7. Fetched(p)'
        BY <1>1, <2>1, <2>2, <3>2 DEF Fetched, Reusing
      <3> QED
        BY <1>6, <3>1, <3>6, <3>7, BeginLater
    <2> QED
      BY <2>3, <2>4, <2>5
  <1>9. CASE pc[p] = "update_name" /\ Execute(p, UpdateName(p), TRUE, rest) /\ UNCHANGED next
    <2> DEFINE old == Service!Item(r, db)
               new == NamedRows(r, db)
    <2>1. View(p) = db /\ seen[p] = Empty /\ r.name # NULL
      BY <1>2, <1>9 DEF Later, Reusing, NameGiven
    <2>2. UpdateName(p) = OnContent(old, new)
      <3>1. ItemRows(db, p) = old
        BY DEF ItemRows, Service!Item
      <3>2. \A c \in old : NamedRow(r, c) = [c EXCEPT !.name = r.name]
        BY <1>2, <2>1, UpdatedItem DEF Service!Item, Store
      <3>3. {[c EXCEPT !.name = r.name] : c \in old} = new
        BY <3>2 DEF NamedRows
      <3> QED
        BY <2>1, <3>1, <3>3 DEF UpdateName
    <2>3. Renamed(r, db) = (db.content \ old) \cup new
      BY DEF Renamed, NamedRows, NamedRow
    <2> HIDE DEF old, new
    <2>4. Apply(View(p), UpdateName(p))
            = Holding(db.lists, db.sharing, Renamed(r, db), db.history, db.pantry)
      <3>1. db = Holding(db.lists, db.sharing, db.content, db.history, db.pantry)
        BY <1>2, StoreTables
      <3>2. Apply(Holding(db.lists, db.sharing, db.content, db.history, db.pantry), OnContent(old, new))
              = Holding(db.lists, db.sharing, Renamed(r, db), db.history, db.pantry)
        BY <2>3, NextContent
      <3> QED
        BY <2>1, <2>2, <3>1, <3>2
    <2>5. ReferencesHold(Apply(View(p), UpdateName(p)))
      BY <1>2, <2>4, RenamedReferences
    <2>6. pc[p] \notin Checking \cup Listing \cup {"upsert_history", "commit"}
      BY <1>9 DEF Checking, Listing
    <2>7. CASE r.amount # NULL
      <3>1. Execute(p, UpdateName(p), TRUE, "update_amount")
        BY <1>9, <2>7
      <3>2. /\ Frame(p) /\ pc'[p] = "update_amount" /\ UNCHANGED db /\ seen'[p] = Empty
            /\ View(p)' = Apply(View(p), UpdateName(p))
        BY <1>9, <2>1, <2>5, <3>1, Executed, SequencesStay DEF Busy
      <3>3. Stage(p)'
        BY <2>4, <2>7, <3>2 DEF Stage, Later, Frame
      <3>4. Fetched(p)'
        BY <3>2 DEF Fetched, Reusing
      <3> QED
        BY <1>6, <1>9, <2>5, <2>6, <3>1, <3>3, <3>4, StatementEnds
    <2>8. CASE r.amount = NULL
      <3>1. Execute(p, UpdateName(p), TRUE, "commit")
        BY <1>9, <2>8
      <3>2. Apply(View(p), UpdateName(p)) = Outcome(p, 1)
        BY <1>2, <1>3, <2>4, <2>8, UpdatedItems
      <3>3. \A q \in Outcome(p, 1).pantry \ db.pantry : InRange(q.amount)
        BY <1>6
      <3> QED
        BY <1>1, <1>4, <1>9, <2>1, <2>6, <3>1, <3>2, <3>3, OneId, LastStatementEnds
    <2> QED
      BY <2>7, <2>8
  <1>10. CASE pc[p] = "update_amount" /\ Execute(p, UpdateAmount(p), TRUE, "commit") /\ UNCHANGED next
    <2> DEFINE old == NamedRows(r, db)
               new == {[d EXCEPT !.amount = r.amount] : d \in old}
               t == Renamed(r, db)
               u == Updated(r, db)
    <2>1. r.amount # NULL /\ View(p) = Holding(db.lists, db.sharing, t, db.history, db.pantry)
      BY <1>10 DEF Busy, ServiceInv, Running, Stage
    <2>2. seen[p] = Empty
      BY <1>2, <1>10 DEF Reusing
    <2>3. u = (t \ old) \cup new
      BY <1>2, <2>1, UpdatedItems
    <2>4. UpdateAmount(p) = OnContent(old, new)
      <3>1. View(p).content = t
        BY <2>1, HoldingTables
      <3>2. ItemRows(View(p), p) = old
        BY <1>2, <1>5, <3>1, UpdatedItems
      <3> QED
        BY <3>2 DEF UpdateAmount
    <2>5. Outcome(p, 1) = Holding(db.lists, db.sharing, u, db.history, db.pantry)
      BY <1>3
    <2> HIDE DEF old, new, t, u
    <2>6. Apply(View(p), UpdateAmount(p)) = Outcome(p, 1)
      <3>1. Apply(Holding(db.lists, db.sharing, t, db.history, db.pantry), OnContent(old, new))
              = Holding(db.lists, db.sharing, u, db.history, db.pantry)
        BY <2>3, NextContent
      <3> QED
        BY <2>1, <2>4, <2>5, <3>1
    <2>7. pc[p] \notin Checking \cup Listing
      BY <1>10 DEF Checking, Listing
    <2>8. \A q \in Outcome(p, 1).pantry \ db.pantry : InRange(q.amount)
      BY <1>6
    <2> QED
      BY <1>1, <1>4, <1>10, <2>2, <2>6, <2>7, <2>8, OneId, LastStatementEnds
  <1>11. CASE Commit(p)
    BY <1>1, <1>11, CommitEnds DEF Transactions
  <1> QED
    BY <1>7, <1>8, <1>9, <1>10, <1>11 DEF UpdateItem

\* What delete_item puts back is what the service does.
LEMMA CreditRows ==
  ASSUME NEW p \in Workers, TypeOK, Keyed(db), View(p) = db,
         seen[p].content = Service!Item(req[p], db)
  PROVE  /\ Restocked(req[p], db)
              = (db.pantry \ CreditedRows(p)) \cup {Credit(p, q) : q \in CreditedRows(p)}
         /\ CreditInRange(p) =>
              \A q \in Restocked(req[p], db) \ db.pantry : InRange(q.amount)
         /\ Stockable(db) /\ ~ CreditInRange(p) =>
              \E q \in Restocked(req[p], db) \ db.pantry : ~ InRange(q.amount)
  <1> DEFINE r == req[p]
             old == Service!Item(r, db)
             back(q) == Back(r, db, q)
             more(q) == [q EXCEPT !.amount = q.amount + Service!Added((CHOOSE c \in back(q) : TRUE).amount)]
             rows == CreditedRows(p)
  <1>1. \A c, d \in old : c = d
    BY DEF Service!Item, Keyed
  <1>2. \A q : back(q) \subseteq old /\ \A c \in old : c \in back(q) <=> c.from_pantry = q.item
    BY DEF Back
  <1>3. \A q : back(q) # {} => back(q) = old
    BY <1>1, <1>2
  <1>4. \A q \in db.pantry : q \in rows <=> back(q) # {}
    BY <1>2 DEF CreditedRows
  <1>5. rows \subseteq db.pantry
    BY DEF CreditedRows
  <1>6. ASSUME NEW q \in rows PROVE Credit(p, q) = more(q)
    <2>1. back(q) = seen[p].content
      BY <1>3, <1>4, <1>5
    <2>2. Credit(p, q) = [q EXCEPT !.amount = q.amount + Added((CHOOSE c \in seen[p].content : TRUE).amount)]
      BY DEF Credit
    <2> HIDE DEF back
    <2> QED
      BY <2>1, <2>2, SameWords, Zenon
  <1>7. Restocked(r, db) = {IF back(q) = {} THEN q ELSE more(q) : q \in db.pantry}
    BY DEF Restocked
  <1> HIDE DEF back, more, rows
  <1>8. Restocked(r, db) = (db.pantry \ rows) \cup {Credit(p, q) : q \in rows}
    BY <1>4, <1>5, <1>6, <1>7
  <1>9. CreditInRange(p) => \A q \in Restocked(r, db) \ db.pantry : InRange(q.amount)
    BY <1>8 DEF CreditInRange, rows
  <1>10. ASSUME Stockable(db), ~ CreditInRange(p)
         PROVE  \E q \in Restocked(r, db) \ db.pantry : ~ InRange(q.amount)
    <2>1. PICK q \in rows : ~ InRange(Credit(p, q).amount)
      BY <1>10 DEF CreditInRange, rows
    <2>2. Credit(p, q) \in Restocked(r, db)
      BY <1>8
    <2>3. Credit(p, q) \notin db.pantry
      BY <1>10, <2>1 DEF Stockable
    <2> QED
      BY <2>1, <2>2, <2>3
  <1> QED
    BY <1>8, <1>9, <1>10 DEF rows

\* Nor does it break a reference.
LEMMA RestockedReferences ==
  ASSUME NEW s \in Store, NEW r, ReferencesHold(s)
  PROVE  ReferencesHold(Holding(s.lists, s.sharing, s.content, s.history, Restocked(r, s)))
  <1> DEFINE t == Holding(s.lists, s.sharing, s.content, s.history, Restocked(r, s))
  <1>1. /\ t.lists = s.lists /\ t.sharing = s.sharing /\ t.content = s.content
        /\ t.history = s.history /\ t.pantry = Restocked(r, s)
    BY HoldingTables
  <1> HIDE DEF t
  <1>2. /\ \A d \in Restocked(r, s) : \E q \in s.pantry : d.item = q.item /\ d.list = q.list
        /\ \A q \in s.pantry : \E d \in Restocked(r, s) : d.item = q.item
    <2>1. ASSUME NEW d \in Restocked(r, s)
          PROVE  \E q \in s.pantry : d.item = q.item /\ d.list = q.list
      <3>1. PICK q \in s.pantry :
              /\ d.item = q.item /\ d.list = q.list
              /\ Back(r, s, q) = {} => d = q
              /\ Back(r, s, q) # {} =>
                   d.amount = q.amount + Added((CHOOSE c \in Back(r, s, q) : TRUE).amount)
        BY RestockedRows, Zenon
      <3> QED
        BY <3>1
    <2>2. \A q \in s.pantry : \E d \in Restocked(r, s) : d.item = q.item
      BY RestockedRows, Zenon
    <2> QED
      BY <2>1, <2>2
  <1>3. ListIds(t) = ListIds(s) /\ PantryItems(t) = PantryItems(s)
    BY <1>1, <1>2 DEF ListIds, PantryItems
  <1>4. ReferencesHold(t)
    BY <1>1, <1>2, <1>3 DEF ReferencesHold
  <1> QED
    BY <1>4 DEF t

LEMMA DeleteItemEnds ==
  ASSUME NEW p \in Workers, Busy(p), DeleteItem(p)
  PROVE  Ended(p)
  <1> DEFINE r == req[p]
             old == Service!Item(r, db)
             read == [Empty EXCEPT !.content = old]
             back == Restocked(r, db)
             kept == db.content \ old
  <1>1. r.op = "delete_item" /\ r.op \in Operations /\ r.op \in Writing
    BY DEF DeleteItem, Operations, Writing
  <1>2. /\ db \in Store /\ ReferencesHold(db) /\ Keyed(db) /\ Stockable(db)
        /\ pc[p] \notin Later => View(p) = db
        /\ pc[p] \notin Reusing => seen[p] = Empty
    BY <1>1, Starting
  <1>3. \A i : Outcome(p, i) = Holding(db.lists, db.sharing, kept, db.history, back)
    BY <1>1, <1>2, ItemEffects DEF Outcome
  <1>4. \A i : Service!Fresh(r, db, i)
    BY <1>1 DEF Service!Fresh
  <1>5. \A s : ItemRows(s, p) = Service!Item(r, s)
    BY DEF ItemRows, Service!Item
  <1>6. Outcome(p, 1).pantry = back
    <2> HIDE DEF kept, back
    <2> QED
      BY <1>3, HoldingTables
  <1>7. CASE CheckList(p, TRUE, "begin")
    BY <1>1, <1>7, CheckListEnds, EntranceLabels
  <1>8. CASE Begin(p, "read_item")
    BY <1>8, BeginEnds, EntranceLabels
  <1>9. CASE pc[p] = "read_item" /\ Select(p, [Empty EXCEPT !.content = ItemRows(db, p)], "credit_pantry")
    <2>1. pc[p] \notin Checking \cup Listing \cup Later \cup Reusing \cup {"upsert_history", "commit"}
      BY <1>9 DEF Checking, Listing, Later, Reusing
    <2>2. seen[p] = Empty /\ read \in Store /\ Select(p, read, "credit_pantry")
      BY <1>2, <1>5, <1>9, <2>1, FoundType DEF Busy
    <2>3. seen'[p] = read /\ pc'[p] = "credit_pantry" /\ UNCHANGED <<db, req>>
      BY <2>2, OnlyRead DEF Select, Goto, Busy, TypeOK
    <2>4. Fetched(p)'
      BY <2>3 DEF Fetched, Reusing
    <2>5. "credit_pantry" \in Reusing \ Later
      BY DEF Reusing, Later
    <2> QED
      BY <2>1, <2>2, <2>4, <2>5, RightStays, SelectEnds
  <1>10. CASE /\ pc[p] = "credit_pantry"
              /\ Execute(p, CreditPantry(p), CreditInRange(p), "delete_item") /\ UNCHANGED next
    <2> DEFINE gone == CreditedRows(p)
               new == {Credit(p, q) : q \in gone}
    <2>1. pc[p] \notin Checking \cup Listing \cup Later \cup {"upsert_history", "commit"}
      BY <1>10 DEF Checking, Listing, Later
    <2>2. seen[p] = read
      BY <1>10 DEF Busy, ServiceInv, Running, Fetched
    <2>3. View(p) = db /\ seen[p].content = old
      BY <1>2, <2>1, <2>2 DEF Empty
    <2>4. /\ back = (db.pantry \ gone) \cup new
          /\ CreditInRange(p) => \A q \in back \ db.pantry : InRange(q.amount)
          /\ ~ CreditInRange(p) => \E q \in back \ db.pantry : ~ InRange(q.amount)
      BY <1>2, <2>3, CreditRows DEF Busy
    <2>5. CreditPantry(p) = OnPantry(gone, new)
      BY DEF CreditPantry
    <2>6. Apply(View(p), CreditPantry(p))
            = Holding(db.lists, db.sharing, db.content, db.history, back)
      <3>1. db = Holding(db.lists, db.sharing, db.content, db.history, db.pantry)
        BY <1>2, StoreTables
      <3> HIDE DEF gone, new, back
      <3>2. Apply(Holding(db.lists, db.sharing, db.content, db.history, db.pantry), OnPantry(gone, new))
              = Holding(db.lists, db.sharing, db.content, db.history, back)
        BY <2>4, NextPantry
      <3> QED
        BY <2>3, <2>5, <3>1, <3>2
    <2>7. CASE CreditInRange(p)
      <3>1. Execute(p, CreditPantry(p), TRUE, "delete_item")
        BY <1>10, <2>7 DEF Execute
      <3>2. ReferencesHold(Apply(View(p), CreditPantry(p)))
        BY <1>2, <2>6, RestockedReferences
      <3>3. /\ Frame(p) /\ pc'[p] = "delete_item" /\ UNCHANGED db /\ seen'[p] = read
            /\ View(p)' = Apply(View(p), CreditPantry(p))
        BY <1>10, <2>2, <3>1, <3>2, Executed, SequencesStay DEF Busy
      <3>4. Stage(p)'
        BY <2>4, <2>6, <2>7, <3>3 DEF Stage, Later, Frame
      <3>5. Fetched(p)'
        BY <3>3 DEF Fetched, Reusing, Frame
      <3>6. "delete_item" \in Later
        BY DEF Later
      <3> QED
        BY <1>10, <2>1, <3>1, <3>2, <3>4, <3>5, <3>6, StatementEnds
    <2>8. CASE ~ CreditInRange(p)
      <3>1. Respond(p, "Internal") /\ UNCHANGED <<db, req, seen>>
        BY <1>10, <2>8 DEF Execute
      <3>2. ~ Service!Possible(r, db, Outcome(p, 1))
        BY <1>6, <2>4, <2>8, SameWords DEF Service!Possible
      <3>3. "Internal" \in Service!Refusals(r, db)
        BY <3>2, OneId, SameWords DEF Service!Refusals, Answers, Outcome
      <3> QED
        BY <1>10, <3>1, <3>3, Refuses, SequencesStay DEF Busy
    <2> QED
      BY <2>7, <2>8
  <1>11. CASE pc[p] = "delete_item" /\ Execute(p, DeleteItemRow(p), TRUE, "commit") /\ UNCHANGED next
    <2>1. /\ View(p) = Holding(db.lists, db.sharing, db.content, db.history, back)
          /\ \A q \in back \ db.pantry : InRange(q.amount)
      BY <1>11 DEF Busy, ServiceInv, Running, Stage
    <2>2. seen[p] = read
      BY <1>11 DEF Busy, ServiceInv, Running, Fetched
    <2>3. DeleteItemRow(p) = OnContent(old, {})
      <3>1. View(p).content = db.content
        BY <2>1, HoldingTables
      <3>2. ItemRows(View(p), p) = old
        BY <1>5, <3>1 DEF Service!Item
      <3> QED
        BY <3>2 DEF DeleteItemRow
    <2>4. kept = (db.content \ old) \cup {}
      OBVIOUS
    <2>5. Apply(View(p), DeleteItemRow(p)) = Outcome(p, 1)
      <3>1. Outcome(p, 1) = Holding(db.lists, db.sharing, kept, db.history, back)
        BY <1>3
      <3> HIDE DEF old, kept, back
      <3>2. Apply(Holding(db.lists, db.sharing, db.content, db.history, back), OnContent(old, {}))
              = Holding(db.lists, db.sharing, kept, db.history, back)
        BY <2>4, NextContent
      <3> QED
        BY <2>1, <2>3, <3>1, <3>2
    <2>6. pc[p] \notin Checking \cup Listing
      BY <1>11 DEF Checking, Listing
    <2>7. \A q \in Outcome(p, 1).pantry \ db.pantry : InRange(q.amount)
      BY <1>6, <2>1
    <2> QED
      BY <1>1, <1>4, <1>11, <2>2, <2>5, <2>6, <2>7, OneId, LastStatementEnds
  <1>12. CASE Commit(p)
    BY <1>1, <1>12, CommitEnds DEF Transactions
  <1> QED
    BY <1>7, <1>8, <1>9, <1>10, <1>11, <1>12 DEF DeleteItem

\* Fewer rows refer to no more.
LEMMA FewerReferences ==
  ASSUME NEW s, NEW t, ReferencesHold(s), t.lists = s.lists, t.pantry = s.pantry,
         t.sharing \subseteq s.sharing, t.content \subseteq s.content,
         t.history \subseteq s.history
  PROVE  ReferencesHold(t)
  <1>1. ListIds(t) = ListIds(s) /\ PantryItems(t) = PantryItems(s)
    BY DEF ListIds, PantryItems
  <1> QED
    BY <1>1 DEF ReferencesHold

LEMMA DeleteListEnds ==
  ASSUME NEW p \in Workers, Busy(p), DeleteList(p)
  PROVE  Ended(p)
  <1> DEFINE r == req[p]
             lists == {l \in db.lists : l.id # r.list}
             shares == {t \in db.sharing : t.list # r.list}
             items == {c \in db.content : c.list # r.list}
             names == {h \in db.history : h.list # r.list}
  <1>1. r.op = "delete_list" /\ r.op \in Operations /\ r.op \in Owning
    BY DEF DeleteList, Operations, Owning
  <1>2. /\ db \in Store /\ ReferencesHold(db)
        /\ pc[p] \notin Later => View(p) = db
        /\ pc[p] \notin Reusing => seen[p] = Empty
    BY <1>1, Starting
  <1>3. \A i : Outcome(p, i) = Holding(lists, shares, items, names, db.pantry)
    <2> TAKE i
    <2>1. Service!Effect(r, db, i) = Holding(lists, shares, items, names, db.pantry)
      <3>1. Service!Effect(r, db, i) = Service!Deleted(r, db)
        BY <1>1 DEF Service!Effect
      <3>2. \A l, t, c, h : [db EXCEPT !.lists = l, !.sharing = t, !.content = c, !.history = h]
                              = Holding(l, t, c, h, db.pantry)
        BY <1>2, FourTables, Zenon
      <3>3. Service!Deleted(r, db)
              = [db EXCEPT !.lists = lists, !.sharing = shares, !.content = items,
                           !.history = names]
        BY Zenon DEF Service!Deleted
      <3> QED
        BY <3>1, <3>2, <3>3, Zenon
    <2> QED
      BY <2>1, Zenon DEF Outcome
  <1>4. Service!Fresh(r, db, 1)
    BY <1>1 DEF Service!Fresh
  <1>5. \A i : /\ Outcome(p, i).sharing = shares /\ Outcome(p, i).content = items
               /\ Outcome(p, i).history = names /\ Outcome(p, i).pantry = db.pantry
    <2> HIDE DEF lists, shares, items, names
    <2> QED
      BY <1>3, HoldingTables
  <1>6. CASE IsOwner(p, "begin")
    BY <1>1, <1>6, IsOwnerEnds
  <1>7. CASE Begin(p, "delete_sharing")
    BY <1>7, BeginEnds, EntranceLabels
  <1>8. CASE pc[p] = "delete_sharing" /\ Execute(p, DeleteSharing(p), TRUE, "delete_contents")
             /\ UNCHANGED next
    <2> DEFINE old == OfList(db.sharing, r.list)
    <2>1. pc[p] \notin Checking \cup Listing \cup {"upsert_history", "commit"}
      BY <1>8 DEF Checking, Listing
    <2>2. View(p) = db /\ seen[p] = Empty
      BY <1>2, <1>8 DEF Later, Reusing
    <2>3. DeleteSharing(p) = OnSharing(old, {}) /\ shares = (db.sharing \ old) \cup {}
      BY <2>2 DEF DeleteSharing, OfList
    <2>4. Apply(View(p), DeleteSharing(p))
            = Holding(db.lists, shares, db.content, db.history, db.pantry)
      <3>1. db = Holding(db.lists, db.sharing, db.content, db.history, db.pantry)
        BY <1>2, StoreTables
      <3> HIDE DEF old, shares
      <3>2. Apply(Holding(db.lists, db.sharing, db.content, db.history, db.pantry), OnSharing(old, {}))
              = Holding(db.lists, shares, db.content, db.history, db.pantry)
        BY <2>3, NextSharing
      <3> QED
        BY <2>2, <2>3, <3>1, <3>2
    <2>5. ReferencesHold(Apply(View(p), DeleteSharing(p)))
      BY <1>2, <2>4, FewerReferences, HoldingTables
    <2>6. /\ Frame(p) /\ pc'[p] = "delete_contents" /\ UNCHANGED db /\ seen'[p] = Empty
          /\ View(p)' = Apply(View(p), DeleteSharing(p))
      BY <1>8, <2>2, <2>5, Executed, SequencesStay DEF Busy
    <2>7. Outcome(p, 0)' = Outcome(p, 0)
      BY <2>6 DEF Outcome, Frame
    <2>8. View(p)' = Holding(db.lists, Outcome(p, 0).sharing, db.content, db.history, db.pantry)
      BY <1>5, <2>4, <2>6
    <2>9. Stage(p)' /\ Fetched(p)'
      BY <2>6, <2>7, <2>8 DEF Stage, Later, Fetched, Reusing
    <2> QED
      BY <1>8, <2>1, <2>5, <2>9, StatementEnds DEF Later
  <1>9. CASE pc[p] = "delete_contents" /\ Execute(p, DeleteContents(p), TRUE, "delete_history")
             /\ UNCHANGED next
    <2> DEFINE old == OfList(db.content, r.list)
    <2>1. pc[p] \notin Checking \cup Listing \cup {"upsert_history", "commit"}
      BY <1>9 DEF Checking, Listing
    <2>2. View(p) = Holding(db.lists, shares, db.content, db.history, db.pantry)
      BY <1>5, <1>9 DEF Busy, ServiceInv, Running, Stage
    <2>3. seen[p] = Empty
      BY <1>2, <1>9 DEF Reusing
    <2>4. DeleteContents(p) = OnContent(old, {}) /\ items = (db.content \ old) \cup {}
      <3>1. View(p).content = db.content
        BY <2>2, HoldingTables
      <3> QED
        BY <3>1 DEF DeleteContents, OfList
    <2>5. Apply(View(p), DeleteContents(p))
            = Holding(db.lists, shares, items, db.history, db.pantry)
      <3> HIDE DEF old, shares, items
      <3>1. Apply(Holding(db.lists, shares, db.content, db.history, db.pantry), OnContent(old, {}))
              = Holding(db.lists, shares, items, db.history, db.pantry)
        BY <2>4, NextContent
      <3> QED
        BY <2>2, <2>4, <3>1
    <2>6. ReferencesHold(Apply(View(p), DeleteContents(p)))
      BY <1>2, <2>5, FewerReferences, HoldingTables
    <2>7. /\ Frame(p) /\ pc'[p] = "delete_history" /\ UNCHANGED db /\ seen'[p] = Empty
          /\ View(p)' = Apply(View(p), DeleteContents(p))
      BY <1>9, <2>3, <2>6, Executed, SequencesStay DEF Busy
    <2>8. Outcome(p, 0)' = Outcome(p, 0)
      BY <2>7 DEF Outcome, Frame
    <2>9. View(p)' = Holding(db.lists, Outcome(p, 0).sharing, Outcome(p, 0).content, db.history,
                             db.pantry)
      BY <1>5, <2>5, <2>7
    <2>10. Stage(p)' /\ Fetched(p)'
      BY <2>7, <2>8, <2>9 DEF Stage, Later, Fetched, Reusing
    <2> QED
      BY <1>9, <2>1, <2>6, <2>10, StatementEnds DEF Later
  <1>10. CASE pc[p] = "delete_history" /\ Execute(p, DeleteHistory(p), TRUE, "delete_list")
              /\ UNCHANGED next
    <2> DEFINE old == OfList(db.history, r.list)
    <2>1. pc[p] \notin Checking \cup Listing \cup {"upsert_history", "commit"}
      BY <1>10 DEF Checking, Listing
    <2>2. View(p) = Holding(db.lists, shares, items, db.history, db.pantry)
      BY <1>5, <1>10 DEF Busy, ServiceInv, Running, Stage
    <2>3. seen[p] = Empty
      BY <1>2, <1>10 DEF Reusing
    <2>4. DeleteHistory(p) = OnHistory(old, {}) /\ names = (db.history \ old) \cup {}
      <3>1. View(p).history = db.history
        BY <2>2, HoldingTables
      <3> QED
        BY <3>1 DEF DeleteHistory, OfList
    <2>5. Apply(View(p), DeleteHistory(p)) = Holding(db.lists, shares, items, names, db.pantry)
      <3> HIDE DEF old, shares, items, names
      <3>1. Apply(Holding(db.lists, shares, items, db.history, db.pantry), OnHistory(old, {}))
              = Holding(db.lists, shares, items, names, db.pantry)
        BY <2>4, NextHistory
      <3> QED
        BY <2>2, <2>4, <3>1
    <2>6. ReferencesHold(Apply(View(p), DeleteHistory(p)))
      BY <1>2, <2>5, FewerReferences, HoldingTables
    <2>7. /\ Frame(p) /\ pc'[p] = "delete_list" /\ UNCHANGED db /\ seen'[p] = Empty
          /\ View(p)' = Apply(View(p), DeleteHistory(p))
      BY <1>10, <2>3, <2>6, Executed, SequencesStay DEF Busy
    <2>8. Outcome(p, 0)' = Outcome(p, 0)
      BY <2>7 DEF Outcome, Frame
    <2>9. View(p)' = Holding(db.lists, Outcome(p, 0).sharing, Outcome(p, 0).content,
                             Outcome(p, 0).history, db.pantry)
      BY <1>5, <2>5, <2>7
    <2>10. Stage(p)' /\ Fetched(p)'
      BY <2>7, <2>8, <2>9 DEF Stage, Later, Fetched, Reusing
    <2> QED
      BY <1>10, <2>1, <2>6, <2>10, StatementEnds DEF Later
  <1>11. CASE pc[p] = "delete_list" /\ Execute(p, DeleteListRow(p), TRUE, "commit")
              /\ UNCHANGED next
    <2> DEFINE old == {l \in db.lists : l.id = r.list}
    <2>1. View(p) = Holding(db.lists, shares, items, names, db.pantry)
      BY <1>5, <1>11 DEF Busy, ServiceInv, Running, Stage
    <2>2. seen[p] = Empty
      BY <1>2, <1>11 DEF Reusing
    <2>3. DeleteListRow(p) = OnLists(old, {}) /\ lists = (db.lists \ old) \cup {}
      <3>1. View(p).lists = db.lists
        BY <2>1, HoldingTables
      <3> QED
        BY <3>1 DEF DeleteListRow
    <2>4. Apply(View(p), DeleteListRow(p)) = Outcome(p, 1)
      <3>1. Outcome(p, 1) = Holding(lists, shares, items, names, db.pantry)
        BY <1>3
      <3> HIDE DEF old, lists, shares, items, names
      <3>2. Apply(Holding(db.lists, shares, items, names, db.pantry), OnLists(old, {}))
              = Holding(lists, shares, items, names, db.pantry)
        BY <2>3, NextLists
      <3> QED
        BY <2>1, <2>3, <3>1, <3>2
    <2>5. pc[p] \notin Checking \cup Listing
      BY <1>11 DEF Checking, Listing
    <2>6. \A q \in Outcome(p, 1).pantry \ db.pantry : InRange(q.amount)
      BY <1>5
    <2> QED
      BY <1>1, <1>4, <1>11, <2>2, <2>4, <2>5, <2>6, OneId, LastStatementEnds
  <1>12. CASE Commit(p)
    BY <1>1, <1>12, CommitEnds DEF Transactions
  <1> QED
    BY <1>6, <1>7, <1>8, <1>9, <1>10, <1>11, <1>12 DEF DeleteList

\* UPDATE lists SET pub, for one flag or the other.
LEMMA SetPubEnds ==
  ASSUME NEW p \in Workers, Busy(p), NEW flag \in BOOLEAN,
         req[p].op = IF flag THEN "set_public" ELSE "remove_public",
         pc[p] = "set_pub", Autocommit(p, SetPub(p, flag), TRUE), UNCHANGED next
  PROVE  Ended(p)
  <1> DEFINE r == req[p]
             old == {l \in db.lists : l.id = r.list}
             new == {[l EXCEPT !.pub = flag] : l \in old}
             lists == {IF l.id = r.list THEN [l EXCEPT !.pub = flag] ELSE l : l \in db.lists}
  <1>1. /\ r.op \in {"set_public", "remove_public"} /\ r.op \in Operations
        /\ r.op \in Changing \ {"delete_item"} /\ r.op # "refill_pantry"
        /\ (r.op = "set_public") = flag
    BY DEF Operations, Changing
  <1>2. db \in Store /\ seen[p] = Empty
    BY <1>1, Starting DEF Reusing
  <1>3. Outcome(p, 1) = Holding(lists, db.sharing, db.content, db.history, db.pantry)
    <2>1. Service!Effect(r, db, 1) = Service!Published(r, db, flag)
      BY <1>1 DEF Service!Effect
    <2> QED
      BY <1>2, <2>1, StoreTables, Zenon DEF Service!Published, Outcome
  <1>4. lists = (db.lists \ old) \cup new
    OBVIOUS
  <1>5. SetPub(p, flag) = OnLists(old, new)
    BY DEF SetPub
  <1> HIDE DEF old, new, lists, r
  <1>6. Apply(db, SetPub(p, flag)) = Outcome(p, 1)
    <2>1. db = Holding(db.lists, db.sharing, db.content, db.history, db.pantry)
      BY <1>2, StoreTables
    <2>2. Apply(Holding(db.lists, db.sharing, db.content, db.history, db.pantry), OnLists(old, new))
            = Holding(lists, db.sharing, db.content, db.history, db.pantry)
      BY <1>4, NextLists
    <2> QED
      BY <1>3, <1>5, <2>1, <2>2
  <1>7. TRUE /\ ReferencesHold(Outcome(p, 1)) <=> Service!Possible(r, db, Outcome(p, 1))
    BY <1>1, <1>3, HoldingTables, PantryLeft
  <1>8. Service!Fresh(r, db, 1) /\ Counted(r, db, 1, next')
    BY <1>1 DEF Service!Fresh, Counted
  <1>9. pc[p] \notin Checking \cup Listing
    BY DEF Checking, Listing
  <1>10. seen[p].lists = {}
    BY <1>2 DEF Empty
  <1>11. next'.list >= next.list /\ next'.content >= next.content /\ next'.pantry >= next.pantry
    BY SequencesStay DEF Busy
  <1> QED
    BY <1>1, <1>2, <1>6, <1>7, <1>8, <1>9, <1>10, <1>11, OneId, AutocommitEnds DEF r

LEMMA SetPublicEnds ==
  ASSUME NEW p \in Workers, Busy(p), SetPublic(p) \/ RemovePublic(p)
  PROVE  Ended(p)
  <1>1. req[p].op \in Owning
    BY DEF SetPublic, RemovePublic, Owning
  <1>2. CASE IsOwner(p, "begin")
    BY <1>1, <1>2, IsOwnerEnds
  <1>3. CASE Begin(p, "set_pub")
    BY <1>3, BeginEnds, EntranceLabels
  <1>4. CASE /\ req[p].op = "set_public" /\ pc[p] = "set_pub"
             /\ Autocommit(p, SetPub(p, TRUE), TRUE) /\ UNCHANGED next
    BY <1>4, SetPubEnds
  <1>5. CASE /\ req[p].op = "remove_public" /\ pc[p] = "set_pub"
             /\ Autocommit(p, SetPub(p, FALSE), TRUE) /\ UNCHANGED next
    BY <1>5, SetPubEnds
  <1> QED
    BY <1>2, <1>3, <1>4, <1>5 DEF SetPublic, RemovePublic

\* A SELECT of a handler that reads no more than once.
LEMMA OneSelectEnds ==
  ASSUME NEW p \in Workers, Busy(p), NEW found \in Store, SelectLast(p, found),
         req[p].op \in Operations \ Changing, pc[p] \notin Reusing,
         Service!Allowed(req[p], db), found = Service!Found(req[p], db)
  PROVE  Ended(p)
  <1>1. seen[p] = Empty
    BY Starting
  <1>2. Both(seen[p], found) = Service!Found(req[p], db)
    BY <1>1, OnlyRead
  <1> QED
    BY <1>2, SelectLastEnds

LEMMA GetPublicListEnds ==
  ASSUME NEW p \in Workers, Busy(p), GetPublicList(p)
  PROVE  Ended(p)
  <1> DEFINE l == req[p].list
             rows == {r \in db.lists : r.id = l}
             items == [Empty EXCEPT !.content = OfList(db.content, l)]
  <1>1. req[p].op = "get_public_list" /\ req[p].op \in Operations \ Changing
    BY DEF GetPublicList, Operations, Changing
  <1>2. Keyed(db)
    BY <1>1, Starting
  <1>3. Service!Allowed(req[p], db) <=> \E r \in db.lists : r.id = l /\ r.pub
    <2>1. Needed(req[p].op) = "public"
      BY <1>1 DEF Needed, Owning, Writing, Reading
    <2> QED
      BY <1>1, <2>1, SameWords, SameStores DEF Service!Allowed, Rights
  <1>4. CASE pc[p] = "select_pub"
    <2>1. UNCHANGED <<db, req, seen, next>>
      BY <1>4 DEF GetPublicList
    <2>2. CASE rows = {} /\ Respond(p, "Internal")
      <3>1. l \notin ListIds(db)
        BY <2>2 DEF ListIds
      <3>2. "Internal" \in Service!Refusals(req[p], db)
        BY <1>1, <3>1, SameWords, SameStores DEF Service!Refusals, Answers
      <3> QED
        BY <2>1, <2>2, <3>2, Refuses, SequencesStay DEF Busy
    <2>3. CASE (\E r \in rows : ~ r.pub) /\ Respond(p, "NotFound")
      <3>1. l \in ListIds(db)
        BY <2>3 DEF ListIds
      <3>2. ~ Service!Allowed(req[p], db)
        BY <1>2, <1>3, <2>3 DEF Keyed
      <3>3. "NotFound" \in Service!Refusals(req[p], db)
        BY <1>1, <3>1, <3>2, SameWords, SameStores DEF Service!Refusals, Answers
      <3> QED
        BY <2>1, <2>3, <3>3, Refuses, SequencesStay DEF Busy
    <2>4. CASE (\E r \in rows : r.pub) /\ Goto(p, "select_public_content") /\ UNCHANGED tx
      <3>1. Service!Allowed(req[p], db)
        BY <1>3, <2>4
      <3> QED
        BY <1>4, <2>1, <2>4, <3>1, Enters, EntranceLabels DEF Later, Reusing
    <2> QED
      BY <1>4, <2>2, <2>3, <2>4 DEF GetPublicList
  <1>5. CASE pc[p] = "select_public_content" /\ SelectLast(p, items)
    <2>1. Service!Allowed(req[p], db)
      BY <1>5, RightStays DEF Checking, Listing
    <2>2. items = Service!Found(req[p], db)
      BY <1>1, SameWords, SameStores DEF Service!Found
    <2>3. items \in Store
      BY FoundType DEF Busy
    <2> QED
      BY <1>1, <1>5, <2>1, <2>2, <2>3, OneSelectEnds DEF Reusing
  <1> QED
    BY <1>4, <1>5 DEF GetPublicList

LEMMA GetSharesEnds ==
  ASSUME NEW p \in Workers, Busy(p), GetShares(p)
  PROVE  Ended(p)
  <1> DEFINE shares == [Empty EXCEPT !.sharing = OfList(db.sharing, req[p].list)]
  <1>1. /\ req[p].op = "get_shares" /\ req[p].op \in Operations \ Changing
        /\ req[p].op \in Writing
    BY DEF GetShares, Operations, Changing, Writing
  <1>2. CASE CheckList(p, TRUE, "select_shares")
    BY <1>1, <1>2, CheckListEnds, EntranceLabels
  <1>3. CASE pc[p] = "select_shares" /\ SelectLast(p, shares)
    <2>1. Service!Allowed(req[p], db)
      BY <1>3, RightStays DEF Checking, Listing
    <2>2. shares = Service!Found(req[p], db)
      BY <1>1, SameWords, SameStores DEF Service!Found
    <2>3. shares \in Store
      BY FoundType DEF Busy
    <2> QED
      BY <1>1, <1>3, <2>1, <2>2, <2>3, OneSelectEnds DEF Reusing
  <1> QED
    BY <1>2, <1>3 DEF GetShares

LEMMA GetPantryEnds ==
  ASSUME NEW p \in Workers, Busy(p), GetPantry(p)
  PROVE  Ended(p)
  <1> DEFINE rows == [Empty EXCEPT !.pantry = OfList(db.pantry, req[p].list)]
  <1>1. /\ req[p].op = "get_pantry" /\ req[p].op \in Operations \ Changing
        /\ req[p].op \in Reading
    BY DEF GetPantry, Operations, Changing, Reading
  <1>2. CASE CheckList(p, FALSE, "select_pantry")
    BY <1>1, <1>2, CheckListEnds, EntranceLabels
  <1>3. CASE pc[p] = "select_pantry" /\ SelectLast(p, rows)
    <2>1. Service!Allowed(req[p], db)
      BY <1>3, RightStays DEF Checking, Listing
    <2>2. rows = Service!Found(req[p], db)
      BY <1>1, SameWords, SameStores DEF Service!Found
    <2>3. rows \in Store
      BY FoundType DEF Busy
    <2> QED
      BY <1>1, <1>3, <2>1, <2>2, <2>3, OneSelectEnds DEF Reusing
  <1> QED
    BY <1>2, <1>3 DEF GetPantry

LEMMA ShareListEnds ==
  ASSUME NEW p \in Workers, Busy(p), ShareList(p)
  PROVE  Ended(p)
  <1> DEFINE r == req[p]
             row == [list |-> r.list, shared |-> r.with, readonly |-> r.readonly]
             old == ShareRows(r.with, r.list)
             new == IF old = {} THEN {row} ELSE old
             shares == IF old = {} THEN db.sharing \cup {row} ELSE db.sharing
  <1>1. /\ r.op = "share_list" /\ r.op \in Operations /\ r.op \in Writing
        /\ r.op \in Changing \ {"delete_item"} /\ r.op # "refill_pantry"
    BY DEF ShareList, Operations, Writing, Changing
  <1>2. CASE CheckList(p, TRUE, "begin")
    BY <1>1, <1>2, CheckListEnds, EntranceLabels
  <1>3. CASE Begin(p, "insert_sharing")
    BY <1>3, BeginEnds, EntranceLabels
  <1>4. CASE pc[p] = "insert_sharing" /\ Autocommit(p, InsertSharing(p), TRUE) /\ UNCHANGED next
    <2>1. db \in Store /\ seen[p] = Empty
      BY <1>1, <1>4, Starting DEF Reusing
    <2>2. db = Holding(db.lists, db.sharing, db.content, db.history, db.pantry)
      BY <2>1, StoreTables
    <2>3. Outcome(p, 1) = Holding(db.lists, shares, db.content, db.history, db.pantry)
      <3>1. Service!Effect(r, db, 1) = Service!Shared(r, db)
        BY <1>1 DEF Service!Effect
      <3>2. old = {} <=> ~ Service!SharedWith(db, r.with, r.list)
        BY SameStores DEF ShareRows, SharedWith
      <3>3. CASE old = {}
        <4>1. Service!Shared(r, db) = [db EXCEPT !.sharing = db.sharing \cup {row}]
          BY <3>2, <3>3, Zenon DEF Service!Shared
        <4>2. shares = db.sharing \cup {row}
          BY <3>3
        <4> HIDE DEF shares
        <4> QED
          BY <2>1, <3>1, <4>1, <4>2, StoreTables, Zenon DEF Outcome
      <3>4. CASE old # {}
        <4>1. Service!Shared(r, db) = db
          BY <3>2, <3>4, Zenon DEF Service!Shared
        <4>2. shares = db.sharing
          BY <3>4
        <4> HIDE DEF shares
        <4> QED
          BY <2>2, <3>1, <4>1, <4>2, Zenon DEF Outcome
      <3> QED
        BY <3>3, <3>4
    <2>4. shares = (db.sharing \ old) \cup new
      BY DEF ShareRows
    <2>5. InsertSharing(p) = OnSharing(old, new)
      BY DEF InsertSharing
    <2> HIDE DEF old, new, shares, r
    <2>6. Apply(db, InsertSharing(p)) = Outcome(p, 1)
      <3>1. Apply(Holding(db.lists, db.sharing, db.content, db.history, db.pantry), OnSharing(old, new))
              = Holding(db.lists, shares, db.content, db.history, db.pantry)
        BY <2>4, NextSharing
      <3> QED
        BY <2>2, <2>3, <2>5, <3>1
    <2>7. TRUE /\ ReferencesHold(Outcome(p, 1)) <=> Service!Possible(r, db, Outcome(p, 1))
      BY <1>1, <2>3, HoldingTables, PantryLeft
    <2>8. Service!Fresh(r, db, 1) /\ Counted(r, db, 1, next')
      BY <1>1 DEF Service!Fresh, Counted
    <2>9. pc[p] \notin Checking \cup Listing
      BY <1>4 DEF Checking, Listing
    <2>10. seen[p].lists = {}
      BY <2>1 DEF Empty
    <2>11. next'.list >= next.list /\ next'.content >= next.content /\ next'.pantry >= next.pantry
      BY <1>4, SequencesStay DEF Busy
    <2> QED
      BY <1>1, <1>4, <2>1, <2>6, <2>7, <2>8, <2>9, <2>10, <2>11, OneId, AutocommitEnds DEF r
  <1> QED
    BY <1>2, <1>3, <1>4 DEF ShareList

LEMMA UnshareEnds ==
  ASSUME NEW p \in Workers, Busy(p), Unshare(p)
  PROVE  Ended(p)
  <1> DEFINE r == req[p]
             shares == {t \in db.sharing : ~ (t.list = r.list /\ t.shared = r.with)}
             names == {h \in db.history : ~ (h.list = r.list /\ h.creator = r.with)}
  <1>1. r.op = "unshare" /\ r.op \in Operations /\ r.op \in Owning
    BY DEF Unshare, Operations, Owning
  <1>2. /\ db \in Store /\ ReferencesHold(db)
        /\ pc[p] \notin Later => View(p) = db
        /\ pc[p] \notin Reusing => seen[p] = Empty
    BY <1>1, Starting
  <1>3. \A i : Outcome(p, i) = Holding(db.lists, shares, db.content, names, db.pantry)
    <2> TAKE i
    <2>1. Service!Effect(r, db, i) = Service!Unshared(r, db)
      BY <1>1 DEF Service!Effect
    <2>2. Service!Unshared(r, db) = [db EXCEPT !.sharing = shares, !.history = names]
      BY Zenon DEF Service!Unshared
    <2> HIDE DEF shares, names
    <2> QED
      BY <1>2, <2>1, <2>2, TwoTables, Zenon DEF Outcome
  <1>4. Service!Fresh(r, db, 1)
    BY <1>1 DEF Service!Fresh
  <1>5. \A i : Outcome(p, i).sharing = shares /\ Outcome(p, i).pantry = db.pantry
    <2> HIDE DEF shares, names
    <2> QED
      BY <1>3, HoldingTables
  <1>6. CASE IsOwner(p, "begin")
    BY <1>1, <1>6, IsOwnerEnds
  <1>7. CASE Begin(p, "delete_share")
    BY <1>7, BeginEnds, EntranceLabels
  <1>8. CASE pc[p] = "delete_share" /\ Execute(p, DeleteShare(p), TRUE, "delete_history_of")
             /\ UNCHANGED next
    <2> DEFINE old == {t \in db.sharing : t.list = r.list /\ t.shared = r.with}
    <2>1. pc[p] \notin Checking \cup Listing \cup {"upsert_history", "commit"}
      BY <1>8 DEF Checking, Listing
    <2>2. View(p) = db /\ seen[p] = Empty
      BY <1>2, <1>8 DEF Later, Reusing
    <2>3. DeleteShare(p) = OnSharing(old, {}) /\ shares = (db.sharing \ old) \cup {}
      BY <2>2 DEF DeleteShare
    <2>4. Apply(View(p), DeleteShare(p))
            = Holding(db.lists, shares, db.content, db.history, db.pantry)
      <3>1. db = Holding(db.lists, db.sharing, db.content, db.history, db.pantry)
        BY <1>2, StoreTables
      <3> HIDE DEF old, shares
      <3>2. Apply(Holding(db.lists, db.sharing, db.content, db.history, db.pantry), OnSharing(old, {}))
              = Holding(db.lists, shares, db.content, db.history, db.pantry)
        BY <2>3, NextSharing
      <3> QED
        BY <2>2, <2>3, <3>1, <3>2
    <2>5. ReferencesHold(Apply(View(p), DeleteShare(p)))
      BY <1>2, <2>4, FewerReferences, HoldingTables
    <2>6. /\ Frame(p) /\ pc'[p] = "delete_history_of" /\ UNCHANGED db /\ seen'[p] = Empty
          /\ View(p)' = Apply(View(p), DeleteShare(p))
      BY <1>8, <2>2, <2>5, Executed, SequencesStay DEF Busy
    <2>7. Outcome(p, 0)' = Outcome(p, 0)
      BY <2>6 DEF Outcome, Frame
    <2>8. View(p)' = Holding(db.lists, Outcome(p, 0).sharing, db.content, db.history, db.pantry)
      BY <1>5, <2>4, <2>6
    <2>9. Stage(p)' /\ Fetched(p)'
      BY <2>6, <2>7, <2>8 DEF Stage, Later, Fetched, Reusing
    <2> QED
      BY <1>8, <2>1, <2>5, <2>9, StatementEnds DEF Later
  <1>9. CASE pc[p] = "delete_history_of" /\ Execute(p, DeleteHistoryOf(p), TRUE, "commit")
             /\ UNCHANGED next
    <2> DEFINE old == {h \in db.history : h.list = r.list /\ h.creator = r.with}
    <2>1. View(p) = Holding(db.lists, shares, db.content, db.history, db.pantry)
      BY <1>5, <1>9 DEF Busy, ServiceInv, Running, Stage
    <2>2. seen[p] = Empty
      BY <1>2, <1>9 DEF Reusing
    <2>3. DeleteHistoryOf(p) = OnHistory(old, {}) /\ names = (db.history \ old) \cup {}
      <3>1. View(p).history = db.history
        BY <2>1, HoldingTables
      <3> QED
        BY <3>1 DEF DeleteHistoryOf
    <2>4. Apply(View(p), DeleteHistoryOf(p)) = Outcome(p, 1)
      <3>1. Outcome(p, 1) = Holding(db.lists, shares, db.content, names, db.pantry)
        BY <1>3
      <3> HIDE DEF old, shares, names
      <3>2. Apply(Holding(db.lists, shares, db.content, db.history, db.pantry), OnHistory(old, {}))
              = Holding(db.lists, shares, db.content, names, db.pantry)
        BY <2>3, NextHistory
      <3> QED
        BY <2>1, <2>3, <3>1, <3>2
    <2>5. pc[p] \notin Checking \cup Listing
      BY <1>9 DEF Checking, Listing
    <2>6. \A q \in Outcome(p, 1).pantry \ db.pantry : InRange(q.amount)
      BY <1>5
    <2> QED
      BY <1>1, <1>4, <1>9, <2>2, <2>4, <2>5, <2>6, OneId, LastStatementEnds
  <1>10. CASE Commit(p)
    BY <1>1, <1>10, CommitEnds DEF Transactions
  <1> QED
    BY <1>6, <1>7, <1>8, <1>9, <1>10 DEF Unshare

LEMMA DeleteSharesEnds ==
  ASSUME NEW p \in Workers, Busy(p), DeleteShares(p)
  PROVE  Ended(p)
  <1> DEFINE r == req[p]
             shares == {t \in db.sharing : t.list # r.list}
             names == {h \in db.history : h.list = r.list => h.creator = r.user}
  <1>1. r.op = "delete_shares" /\ r.op \in Operations /\ r.op \in Owning
    BY DEF DeleteShares, Operations, Owning
  <1>2. /\ db \in Store /\ ReferencesHold(db)
        /\ pc[p] \notin Later => View(p) = db
        /\ pc[p] \notin Reusing => seen[p] = Empty
    BY <1>1, Starting
  <1>3. \A i : Outcome(p, i) = Holding(db.lists, shares, db.content, names, db.pantry)
    <2> TAKE i
    <2>1. Service!Effect(r, db, i) = Service!UnsharedAll(r, db)
      BY <1>1 DEF Service!Effect
    <2>2. Service!UnsharedAll(r, db) = [db EXCEPT !.sharing = shares, !.history = names]
      BY Zenon DEF Service!UnsharedAll
    <2> HIDE DEF shares, names
    <2> QED
      BY <1>2, <2>1, <2>2, TwoTables, Zenon DEF Outcome
  <1>4. Service!Fresh(r, db, 1)
    BY <1>1 DEF Service!Fresh
  <1>5. \A i : Outcome(p, i).sharing = shares /\ Outcome(p, i).pantry = db.pantry
    <2> HIDE DEF shares, names
    <2> QED
      BY <1>3, HoldingTables
  <1>6. CASE IsOwner(p, "begin")
    BY <1>1, <1>6, IsOwnerEnds
  <1>7. CASE Begin(p, "delete_sharing")
    BY <1>7, BeginEnds, EntranceLabels
  <1>8. CASE pc[p] = "delete_sharing" /\ Execute(p, DeleteSharing(p), TRUE, "delete_history_others")
             /\ UNCHANGED next
    <2> DEFINE old == OfList(db.sharing, r.list)
    <2>1. pc[p] \notin Checking \cup Listing \cup {"upsert_history", "commit"}
      BY <1>8 DEF Checking, Listing
    <2>2. View(p) = db /\ seen[p] = Empty
      BY <1>2, <1>8 DEF Later, Reusing
    <2>3. DeleteSharing(p) = OnSharing(old, {}) /\ shares = (db.sharing \ old) \cup {}
      BY <2>2 DEF DeleteSharing, OfList
    <2>4. Apply(View(p), DeleteSharing(p))
            = Holding(db.lists, shares, db.content, db.history, db.pantry)
      <3>1. db = Holding(db.lists, db.sharing, db.content, db.history, db.pantry)
        BY <1>2, StoreTables
      <3> HIDE DEF old, shares
      <3>2. Apply(Holding(db.lists, db.sharing, db.content, db.history, db.pantry), OnSharing(old, {}))
              = Holding(db.lists, shares, db.content, db.history, db.pantry)
        BY <2>3, NextSharing
      <3> QED
        BY <2>2, <2>3, <3>1, <3>2
    <2>5. ReferencesHold(Apply(View(p), DeleteSharing(p)))
      BY <1>2, <2>4, FewerReferences, HoldingTables
    <2>6. /\ Frame(p) /\ pc'[p] = "delete_history_others" /\ UNCHANGED db /\ seen'[p] = Empty
          /\ View(p)' = Apply(View(p), DeleteSharing(p))
      BY <1>8, <2>2, <2>5, Executed, SequencesStay DEF Busy
    <2>7. Outcome(p, 0)' = Outcome(p, 0)
      BY <2>6 DEF Outcome, Frame
    <2>8. View(p)' = Holding(db.lists, Outcome(p, 0).sharing, db.content, db.history, db.pantry)
      BY <1>5, <2>4, <2>6
    <2>9. Stage(p)' /\ Fetched(p)'
      BY <2>6, <2>7, <2>8 DEF Stage, Later, Fetched, Reusing
    <2> QED
      BY <1>8, <2>1, <2>5, <2>9, StatementEnds DEF Later
  <1>9. CASE pc[p] = "delete_history_others" /\ Execute(p, DeleteHistoryOthers(p), TRUE, "commit")
             /\ UNCHANGED next
    <2> DEFINE old == {h \in db.history : h.list = r.list /\ h.creator # r.user}
    <2>1. View(p) = Holding(db.lists, shares, db.content, db.history, db.pantry)
      BY <1>5, <1>9 DEF Busy, ServiceInv, Running, Stage
    <2>2. seen[p] = Empty
      BY <1>2, <1>9 DEF Reusing
    <2>3. DeleteHistoryOthers(p) = OnHistory(old, {}) /\ names = (db.history \ old) \cup {}
      <3>1. View(p).history = db.history
        BY <2>1, HoldingTables
      <3> QED
        BY <3>1 DEF DeleteHistoryOthers
    <2>4. Apply(View(p), DeleteHistoryOthers(p)) = Outcome(p, 1)
      <3>1. Outcome(p, 1) = Holding(db.lists, shares, db.content, names, db.pantry)
        BY <1>3
      <3> HIDE DEF old, shares, names
      <3>2. Apply(Holding(db.lists, shares, db.content, db.history, db.pantry), OnHistory(old, {}))
              = Holding(db.lists, shares, db.content, names, db.pantry)
        BY <2>3, NextHistory
      <3> QED
        BY <2>1, <2>3, <3>1, <3>2
    <2>5. pc[p] \notin Checking \cup Listing
      BY <1>9 DEF Checking, Listing
    <2>6. \A q \in Outcome(p, 1).pantry \ db.pantry : InRange(q.amount)
      BY <1>5
    <2> QED
      BY <1>1, <1>4, <1>9, <2>2, <2>4, <2>5, <2>6, OneId, LastStatementEnds
  <1>10. CASE Commit(p)
    BY <1>1, <1>10, CommitEnds DEF Transactions
  <1> QED
    BY <1>6, <1>7, <1>8, <1>9, <1>10 DEF DeleteShares

LEMMA DeletePantryItemEnds ==
  ASSUME NEW p \in Workers, Busy(p), DeletePantryItem(p)
  PROVE  Ended(p)
  <1> DEFINE r == req[p]
             items == Unlinked(r, db)
             gone == Service!Stocked(r, db)
             rows == db.pantry \ gone
  <1>1. r.op = "delete_pantry_item" /\ r.op \in Operations /\ r.op \in Writing
    BY DEF DeletePantryItem, Operations, Writing
  <1>2. /\ db \in Store /\ ReferencesHold(db)
        /\ pc[p] \notin Later => View(p) = db
        /\ pc[p] \notin Reusing => seen[p] = Empty
    BY <1>1, Starting
  <1>3. \A i : Outcome(p, i) = Holding(db.lists, db.sharing, items, db.history, rows)
    <2> TAKE i
    <2>1. Service!Effect(r, db, i) = Service!PantryRemoved(r, db)
      BY <1>1 DEF Service!Effect
    <2>2. Service!PantryRemoved(r, db) = [db EXCEPT !.pantry = rows, !.content = items]
      BY SameWords, Zenon DEF Service!PantryRemoved, Unlinked
    <2> HIDE DEF items, rows
    <2> QED
      BY <1>2, <2>1, <2>2, ItemTables, Zenon DEF Outcome
  <1>4. Service!Fresh(r, db, 1)
    BY <1>1 DEF Service!Fresh
  <1>5. \A i : Outcome(p, i).content = items /\ Outcome(p, i).pantry = rows
    <2> HIDE DEF items, rows
    <2> QED
      BY <1>3, HoldingTables
  <1>6. CASE CheckList(p, TRUE, "begin")
    BY <1>1, <1>6, CheckListEnds, EntranceLabels
  <1>7. CASE Begin(p, "delete_refills")
    BY <1>7, BeginEnds, EntranceLabels
  <1>8. CASE pc[p] = "delete_refills" /\ Execute(p, DeleteRefills(p), TRUE, "delete_pantry")
             /\ UNCHANGED next
    <2> DEFINE old == {c \in OfList(db.content, r.list) :
                         c.from_pantry = r.item /\ c.from_pantry # NoItem}
    <2>1. pc[p] \notin Checking \cup Listing \cup {"upsert_history", "commit"}
      BY <1>8 DEF Checking, Listing
    <2>2. View(p) = db /\ seen[p] = Empty
      BY <1>2, <1>8 DEF Later, Reusing
    <2>3. DeleteRefills(p) = OnContent(old, {}) /\ items = (db.content \ old) \cup {}
      BY <2>2 DEF DeleteRefills, OfList, Unlinked
    <2>4. Apply(View(p), DeleteRefills(p))
            = Holding(db.lists, db.sharing, items, db.history, db.pantry)
      <3>1. db = Holding(db.lists, db.sharing, db.content, db.history, db.pantry)
        BY <1>2, StoreTables
      <3> HIDE DEF old, items
      <3>2. Apply(Holding(db.lists, db.sharing, db.content, db.history, db.pantry), OnContent(old, {}))
              = Holding(db.lists, db.sharing, items, db.history, db.pantry)
        BY <2>3, NextContent
      <3> QED
        BY <2>2, <2>3, <3>1, <3>2
    <2>5. ReferencesHold(Apply(View(p), DeleteRefills(p)))
      BY <1>2, <2>4, FewerReferences, HoldingTables DEF Unlinked
    <2>6. /\ Frame(p) /\ pc'[p] = "delete_pantry" /\ UNCHANGED db /\ seen'[p] = Empty
          /\ View(p)' = Apply(View(p), DeleteRefills(p))
      BY <1>8, <2>2, <2>5, Executed, SequencesStay DEF Busy
    <2>7. Outcome(p, 0)' = Outcome(p, 0)
      BY <2>6 DEF Outcome, Frame
    <2>8. View(p)' = Holding(db.lists, db.sharing, Outcome(p, 0).content, db.history, db.pantry)
      BY <1>5, <2>4, <2>6
    <2>9. Stage(p)' /\ Fetched(p)'
      BY <2>6, <2>7, <2>8 DEF Stage, Later, Fetched, Reusing
    <2> QED
      BY <1>8, <2>1, <2>5, <2>9, StatementEnds DEF Later
  <1>9. CASE pc[p] = "delete_pantry" /\ Execute(p, DeletePantryRow(p), TRUE, "commit")
             /\ UNCHANGED next
    <2>1. View(p) = Holding(db.lists, db.sharing, items, db.history, db.pantry)
      BY <1>5, <1>9 DEF Busy, ServiceInv, Running, Stage
    <2>2. seen[p] = Empty
      BY <1>2, <1>9 DEF Reusing
    <2>3. DeletePantryRow(p) = OnPantry(gone, {}) /\ rows = (db.pantry \ gone) \cup {}
      <3>1. View(p).pantry = db.pantry
        BY <2>1, HoldingTables
      <3> QED
        BY <3>1 DEF DeletePantryRow, PantryRowsAt, Service!Stocked
    <2>4. Apply(View(p), DeletePantryRow(p)) = Outcome(p, 1)
      <3>1. Outcome(p, 1) = Holding(db.lists, db.sharing, items, db.history, rows)
        BY <1>3
      <3> HIDE DEF gone, items, rows
      <3>2. Apply(Holding(db.lists, db.sharing, items, db.history, db.pantry), OnPantry(gone, {}))
              = Holding(db.lists, db.sharing, items, db.history, rows)
        BY <2>3, NextPantry
      <3> QED
        BY <2>1, <2>3, <3>1, <3>2
    <2>5. pc[p] \notin Checking \cup Listing
      BY <1>9 DEF Checking, Listing
    <2>6. \A q \in Outcome(p, 1).pantry \ db.pantry : InRange(q.amount)
      BY <1>5
    <2> QED
      BY <1>1, <1>4, <1>9, <2>2, <2>4, <2>5, <2>6, OneId, LastStatementEnds
  <1>10. CASE Commit(p)
    BY <1>1, <1>10, CommitEnds DEF Transactions
  <1> QED
    BY <1>6, <1>7, <1>8, <1>9, <1>10 DEF DeletePantryItem

LEMMA AddToPantryEnds ==
  ASSUME NEW p \in Workers, Busy(p), AddToPantry(p)
  PROVE  Ended(p)
  <1> DEFINE r == req[p]
             i == next.pantry
             row == [item |-> i, list |-> r.list, name |-> r.name, target |-> r.target,
                     amount |-> 0]
             rows == db.pantry \cup {row}
  <1>1. /\ r.op = "add_to_pantry" /\ r.op \in Operations /\ r.op \in Writing
        /\ r.op \in Changing \ {"delete_item"} /\ r.op # "refill_pantry"
    BY DEF AddToPantry, Operations, Writing, Changing
  <1>2. CASE CheckList(p, TRUE, "begin")
    BY <1>1, <1>2, CheckListEnds, EntranceLabels
  <1>3. CASE Begin(p, "insert_pantry")
    BY <1>3, BeginEnds, EntranceLabels
  <1>4. CASE /\ pc[p] = "insert_pantry" /\ Autocommit(p, InsertPantry(p), TRUE)
             /\ next' = [next EXCEPT !.pantry = @ + 1]
    <2>1. /\ db \in Store /\ next \in SequenceType /\ Numbered(db, next)
          /\ next.pantry > 0 /\ seen[p] = Empty /\ HasRoom(r)
      BY <1>1, <1>4, Starting DEF Reusing
    <2>2. next'.pantry = i + 1 /\ next'.list >= next.list /\ next'.content >= next.content
      BY <1>4, <2>1 DEF SequenceType
    <2>3. i \in RowIds /\ next'.pantry >= next.pantry
      BY <1>1, <2>1, <2>2, Bounded DEF HasRoom, SequenceType
    <2>4. Service!Fresh(r, db, i)
      BY <1>1, <2>1, SameStores DEF Service!Fresh, PantryItems, Numbered, Store, PantryRow, SequenceType
    <2>5. Counted(r, db, i, next')
      BY <1>1, <2>1, <2>2 DEF Counted, SequenceType
    <2>6. Outcome(p, i) = Holding(db.lists, db.sharing, db.content, db.history, rows)
      <3>1. Service!Effect(r, db, i) = Service!PantryAdded(r, db, i)
        BY <1>1 DEF Service!Effect
      <3>2. Service!PantryAdded(r, db, i) = [db EXCEPT !.pantry = rows]
        BY Zenon DEF Service!PantryAdded
      <3> HIDE DEF rows
      <3> QED
        BY <2>1, <3>1, <3>2, StoreTables, Zenon DEF Outcome
    <2>7. Apply(db, InsertPantry(p)) = Outcome(p, i)
      BY <2>6, Insertion DEF InsertPantry
    <2>8. TRUE /\ ReferencesHold(Outcome(p, i)) <=> Service!Possible(r, db, Outcome(p, i))
      <3>1. Outcome(p, i).pantry = rows
        <4> HIDE DEF rows
        <4> QED
          BY <2>6, HoldingTables
      <3>2. InRange(0)
        BY IntegerAssumption DEF InRange, MinInt
      <3>3. \A q \in Outcome(p, i).pantry \ db.pantry : InRange(q.amount)
        BY <3>1, <3>2
      <3> QED
        BY <1>1, <3>3, SameWords, SameStores DEF Service!Possible
    <2>9. pc[p] \notin Checking \cup Listing
      BY <1>4 DEF Checking, Listing
    <2>10. seen[p].lists = {}
      BY <2>1 DEF Empty
    <2> QED
      BY <1>1, <1>4, <2>1, <2>2, <2>3, <2>4, <2>5, <2>7, <2>8, <2>9, <2>10, AutocommitEnds
  <1> QED
    BY <1>2, <1>3, <1>4 DEF AddToPantry

LEMMA SetPantryItemEnds ==
  ASSUME NEW p \in Workers, Busy(p), SetPantryItem(p)
  PROVE  Ended(p)
  <1> DEFINE r == req[p]
             old == Service!Stocked(r, db)
             given(q) == [q EXCEPT !.amount = Service!Given(r.stock, @),
                                   !.target = Service!Given(r.target, @)]
             new == {given(q) : q \in old}
             rows == (db.pantry \ old) \cup new
  <1>1. /\ r.op = "set_pantry_item" /\ r.op \in Operations /\ r.op \in Writing
        /\ r.op \in Changing \ {"delete_item"} /\ r.op # "refill_pantry"
    BY DEF SetPantryItem, Operations, Writing, Changing
  <1>2. CASE CheckList(p, TRUE, "begin")
    BY <1>1, <1>2, CheckListEnds, EntranceLabels
  <1>3. CASE Begin(p, "update_pantry")
    BY <1>3, BeginEnds, EntranceLabels
  <1>4. CASE pc[p] = "update_pantry" /\ Autocommit(p, UpdatePantry(p), TRUE) /\ UNCHANGED next
    <2>1. /\ db \in Store /\ seen[p] = Empty /\ Stockable(db) /\ r \in Request /\ WellFormed(r)
      BY <1>1, <1>4, Starting DEF Reusing
    <2>2. db = Holding(db.lists, db.sharing, db.content, db.history, db.pantry)
      BY <2>1, StoreTables
    <2>3. Outcome(p, 1) = Holding(db.lists, db.sharing, db.content, db.history, rows)
      <3>1. Service!Effect(r, db, 1) = Service!PantryUpdated(r, db)
        BY <1>1 DEF Service!Effect
      <3>2. Service!PantryUpdated(r, db) = [db EXCEPT !.pantry = rows]
        BY Zenon DEF Service!PantryUpdated, Service!Swap
      <3> HIDE DEF rows
      <3> QED
        BY <2>1, <3>1, <3>2, StoreTables, Zenon DEF Outcome
    <2>4. UpdatePantry(p) = OnPantry(old, new)
      <3>1. PantryRowsAt(db, p) = old
        BY DEF PantryRowsAt, Service!Stocked
      <3> QED
        BY <3>1 DEF UpdatePantry, Service!Given
    <2>5. \A q \in rows \ db.pantry : InRange(q.amount)
      <3> SUFFICES ASSUME NEW q \in old PROVE InRange(given(q).amount)
        OBVIOUS
      <3>1. q \in db.pantry /\ q \in PantryRow /\ InRange(q.amount)
        BY <2>1 DEF Service!Stocked, Store, Stockable
      <3>2. given(q).amount = IF r.stock = NULL THEN q.amount ELSE r.stock
        BY <3>1 DEF PantryRow, Service!Given
      <3>3. r.stock # NULL => InRange(r.stock)
        BY <2>1 DEF WellFormed
      <3> QED
        BY <3>1, <3>2, <3>3
    <2>6. rows = (db.pantry \ old) \cup new
      OBVIOUS
    <2> HIDE DEF old, new, rows, r
    <2>7. Apply(db, UpdatePantry(p)) = Outcome(p, 1)
      <3>1. Apply(Holding(db.lists, db.sharing, db.content, db.history, db.pantry), OnPantry(old, new))
              = Holding(db.lists, db.sharing, db.content, db.history, rows)
        BY <2>6, NextPantry
      <3> QED
        BY <2>2, <2>3, <2>4, <3>1
    <2>8. TRUE /\ ReferencesHold(Outcome(p, 1)) <=> Service!Possible(r, db, Outcome(p, 1))
      <3>1. Outcome(p, 1).pantry = rows
        BY <2>3, HoldingTables
      <3> QED
        BY <1>1, <2>5, <3>1, SameWords, SameStores DEF Service!Possible
    <2>9. Service!Fresh(r, db, 1) /\ Counted(r, db, 1, next')
      BY <1>1 DEF Service!Fresh, Counted
    <2>10. pc[p] \notin Checking \cup Listing
      BY <1>4 DEF Checking, Listing
    <2>11. seen[p].lists = {}
      BY <2>1 DEF Empty
    <2>12. next'.list >= next.list /\ next'.content >= next.content /\ next'.pantry >= next.pantry
      BY <1>4, SequencesStay DEF Busy
    <2> QED
      BY <1>1, <1>4, <2>1, <2>7, <2>8, <2>9, <2>10, <2>11, <2>12, OneId, AutocommitEnds DEF r
  <1> QED
    BY <1>2, <1>3, <1>4 DEF SetPantryItem

LEMMA RefillPantryEnds ==
  ASSUME NEW p \in Workers, Busy(p), RefillPantry(p)
  PROVE  Ended(p)
  <1> DEFINE r == req[p]
             i == next.content
             lack == Service!Lacking(r, db)
             read == [Empty EXCEPT !.pantry = lack]
             new == Refills(r, db, i)
             items == db.content \cup new
  <1>1. /\ r.op = "refill_pantry" /\ r.op \in Operations /\ r.op \in Writing
        /\ r.op \in Changing \ {"delete_item"}
    BY DEF RefillPantry, Operations, Writing, Changing
  <1>2. Missing(p) = lack
    BY SameStores DEF Missing, Service!Lacking
  <1>3. CASE CheckList(p, TRUE, "begin")
    BY <1>1, <1>3, CheckListEnds, EntranceLabels
  <1>4. CASE Begin(p, "read_pantry")
    BY <1>4, BeginEnds, EntranceLabels
  <1>5. CASE pc[p] = "read_pantry" /\ Select(p, [Empty EXCEPT !.pantry = Missing(p)], "insert_refill")
    <2>1. pc[p] \notin Checking \cup Listing \cup Later \cup Reusing \cup {"upsert_history", "commit"}
      BY <1>5 DEF Checking, Listing, Later, Reusing
    <2>2. seen[p] = Empty /\ read \in Store /\ Select(p, read, "insert_refill")
      BY <1>1, <1>2, <1>5, <2>1, Starting, FoundType DEF Busy
    <2>3. seen'[p] = read /\ pc'[p] = "insert_refill" /\ UNCHANGED <<db, req>>
      BY <2>2, OnlyRead DEF Select, Goto, Busy, TypeOK
    <2>4. Fetched(p)'
      BY <2>3 DEF Fetched, Reusing
    <2>5. "insert_refill" \in Reusing \ Later
      BY DEF Reusing, Later
    <2> QED
      BY <2>1, <2>2, <2>4, <2>5, RightStays, SelectEnds
  <1>6. CASE /\ pc[p] = "insert_refill"
             /\ Autocommit(p, InsertRefill(p), \A q \in seen[p].pantry : InRange(q.target - q.amount))
             /\ next' = [next EXCEPT !.content = IF seen[p].pantry = {} THEN @ ELSE @ + next.pantry - 1]
    <2>1. /\ db \in Store /\ next \in SequenceType /\ Numbered(db, next)
          /\ next.content > 0 /\ next.pantry > 0 /\ HasRoom(r)
      BY <1>1, <1>6, Starting
    <2>2. seen[p] = read
      BY <1>6 DEF Busy, ServiceInv, Running, Fetched
    <2>3. seen[p].pantry = lack /\ seen[p].lists = {}
      BY <2>2 DEF Empty
    <2>4. /\ next'.content = IF lack = {} THEN i ELSE i + next.pantry - 1
          /\ next'.list = next.list /\ next'.pantry = next.pantry
      BY <1>6, <2>1, <2>3 DEF SequenceType
    <2>5. next'.list >= next.list /\ next'.content >= next.content /\ next'.pantry >= next.pantry
      BY <2>1, <2>4 DEF SequenceType
    <2>6. i \in RowIds
      BY <1>1, <2>1, Bounded DEF HasRoom, SequenceType
    <2>7. \A q \in lack : q \in db.pantry /\ q.item \in Nat \ {0} /\ q.item < next.pantry
      BY <2>1 DEF Service!Lacking, Service!OfList, Store, PantryRow, Numbered
    <2>8. Service!Fresh(r, db, i)
      BY <1>1, <2>1, <2>7 DEF Service!Fresh, Numbered, Store, ContentRow, SequenceType
    <2>9. Counted(r, db, i, next')
      BY <1>1, <2>1, <2>4, <2>7 DEF Counted, SequenceType
    <2>10. InsertRefill(p) = OnContent({}, new)
      BY <2>3 DEF InsertRefill, Refills, Refill
    <2>11. Outcome(p, i) = Holding(db.lists, db.sharing, items, db.history, db.pantry)
      <3>1. Service!Effect(r, db, i) = Service!Refilled(r, db, i)
        BY <1>1 DEF Service!Effect
      <3>2. Service!Refilled(r, db, i) = [db EXCEPT !.content = items]
        BY Zenon DEF Service!Refilled, Refills, Refill
      <3> HIDE DEF items
      <3> QED
        BY <2>1, <3>1, <3>2, StoreTables, Zenon DEF Outcome
    <2>12. Apply(db, InsertRefill(p)) = Outcome(p, i)
      <3> HIDE DEF new
      <3> QED
        BY <2>10, <2>11, Insertion
    <2>13. /\ \A q \in seen[p].pantry : InRange(q.target - q.amount)
           /\ ReferencesHold(Outcome(p, i))
           <=> Service!Possible(r, db, Outcome(p, i))
      <3>1. Outcome(p, i).pantry = db.pantry
        <4> HIDE DEF items
        <4> QED
          BY <2>11, HoldingTables
      <3> HIDE DEF lack
      <3>2. Service!Possible(r, db, Outcome(p, i)) <=>
              /\ ReferencesHold(Outcome(p, i))
              /\ \A q \in lack : InRange(q.target - q.amount)
        BY <1>1, <3>1, SameWords, SameStores DEF Service!Possible, lack
      <3> QED
        BY <2>3, <3>2
    <2>14. pc[p] \notin Checking \cup Listing
      BY <1>6 DEF Checking, Listing
    <2> DEFINE inRange == \A q \in seen[p].pantry : InRange(q.target - q.amount)
    <2>15. inRange /\ ReferencesHold(Outcome(p, i)) <=> Service!Possible(r, db, Outcome(p, i))
      BY <2>13
    <2>16. Autocommit(p, InsertRefill(p), inRange)
      BY <1>6
    <2> HIDE DEF inRange
    <2> QED
      BY <1>1, <2>3, <2>5, <2>6, <2>8, <2>9, <2>12, <2>14, <2>15, <2>16, AutocommitEnds
  <1> QED
    BY <1>3, <1>4, <1>5, <1>6 DEF RefillPantry

\* Two selections of lists make one, with the shares of the second.
Listed(lists, shares) == [Empty EXCEPT !.lists = lists, !.sharing = shares]
ListedFirst(lists) == [Empty EXCEPT !.lists = lists]

LEMMA TwoHalves ==
  ASSUME NEW a, NEW b, NEW c
  PROVE  Both(ListedFirst(a), Listed(b, c)) = Listed(a \cup b, c)
  <1>1. ASSUME NEW y PROVE [Empty EXCEPT !.lists = y] = Holding(y, {}, {}, {}, {})
    BY DEF Empty, Holding
  <1>2. ASSUME NEW y
        PROVE  [Empty EXCEPT !.lists = y, !.sharing = c] = Holding(y, c, {}, {}, {})
    <2> DEFINE h == Holding(y, {}, {}, {}, {})
    <2>1. [Empty EXCEPT !.lists = y] = h
      BY <1>1
    <2>2. [h EXCEPT !.sharing = c] = Holding(y, c, {}, {}, {})
      BY DEF Holding
    <2>3. [Empty EXCEPT !.lists = y, !.sharing = c] = [h EXCEPT !.sharing = c]
      BY <2>1, Zenon
    <2> QED
      BY <2>2, <2>3, Zenon
  <1> DEFINE f == Holding(a, {}, {}, {}, {})
             l == Holding(b, c, {}, {}, {})
  <1>3. /\ f.lists \cup l.lists = a \cup b /\ f.sharing \cup l.sharing = c
        /\ f.content \cup l.content = {} /\ f.history \cup l.history = {}
        /\ f.pantry \cup l.pantry = {}
    BY DEF Holding
  <1>4. Both(f, l) = Holding(a \cup b, c, {}, {}, {})
    BY <1>3, Zenon DEF Both, Holding
  <1> QED
    BY <1>1, <1>2, <1>4, Zenon DEF Listed, ListedFirst

LEMMA ListListsEnds ==
  ASSUME NEW p \in Workers, Busy(p), ListLists(p)
  PROVE  Ended(p)
  <1> DEFINE r == req[p]
             own == {l \in OwnedLists(db, r.user) : r.op = "search_list" => l.name \in Like(r.name)}
             lent == {l \in SharedLists(db, r.user) : r.op = "search_list" => l.name \in Like(r.name)}
             lists == {l \in OwnedLists(db, r.user) \cup SharedLists(db, r.user) :
                         r.op = "search_list" => l.name \in Like(r.name)}
             first == [Empty EXCEPT !.lists = own]
             shares(ls) == {t \in SharesOf(db, r.user) : \E l \in ls : l.id = t.list}
             last == [Empty EXCEPT !.lists = lent, !.sharing = shares(lent)]
  <1>1. r.op \in {"list_lists", "search_list"} /\ r.op \in Operations \ Changing
    BY DEF ListLists, Operations, Changing
  <1>2. Service!Allowed(r, db)
    BY <1>1, SameWords DEF Service!Allowed, Needed, Owning, Writing, Reading
  <1>3. db \in Store
    BY <1>1, Starting
  <1>4. CASE pc[p] = "select_owned" /\ Select(p, [Empty EXCEPT !.lists = Matching(p, OwnedLists(db, r.user))], "select_shared")
    <2>1. pc[p] \notin Later \cup Reusing \cup {"upsert_history", "commit"}
      BY <1>4 DEF Later, Reusing
    <2>2. Select(p, first, "select_shared")
      BY <1>4 DEF Matching
    <2>3. seen[p] = Empty
      BY <1>1, <2>1, Starting
    <2>4. first \in Store
      BY <1>3 DEF Empty, Store, OwnedLists
    <2>5. seen'[p] = first /\ pc'[p] = "select_shared" /\ UNCHANGED <<db, req>>
      BY <2>2, <2>3, <2>4, OnlyRead DEF Select, Goto, Busy, TypeOK
    <2>6. Fetched(p)'
      BY <2>5 DEF Fetched, Reusing
    <2>7. "select_shared" \in Reusing \ Later
      BY DEF Reusing, Later
    <2> QED
      BY <1>2, <2>1, <2>2, <2>6, <2>7, SelectEnds
  <1>5. CASE pc[p] = "select_shared" /\ SelectLast(p, last)
    <2>1. seen[p] = first
      BY <1>5 DEF Busy, ServiceInv, Running, Fetched
    <2>2. own \cup lent = lists
      OBVIOUS
    <2>3. shares(lent) = shares(lists)
      BY DEF SharesOf, SharedLists, OwnedLists, SharedWith
    <2>4. Service!Found(r, db) = [Empty EXCEPT !.lists = lists, !.sharing = shares(lists)]
      BY <1>1, SameWords, SameStores DEF Service!Found
    <2> DEFINE found == shares(lent)
    <2>5. Both(first, last) = [Empty EXCEPT !.lists = own \cup lent, !.sharing = found]
      <3>1. first = ListedFirst(own) /\ last = Listed(lent, found)
        BY Zenon DEF ListedFirst, Listed
      <3> HIDE DEF own, lent, found, first, last
      <3>2. Both(ListedFirst(own), Listed(lent, found)) = Listed(own \cup lent, found)
        BY TwoHalves
      <3> QED
        BY <3>1, <3>2, Zenon DEF Listed
    <2>6. Both(seen[p], last) = Service!Found(r, db)
      BY <2>1, <2>2, <2>3, <2>4, <2>5
    <2> QED
      BY <1>1, <1>2, <1>5, <2>6, SelectLastEnds
  <1>6. last = [Empty EXCEPT !.lists = Matching(p, SharedLists(db, r.user)),
                             !.sharing = {t \in SharesOf(db, r.user) :
                                            \E l \in Matching(p, SharedLists(db, r.user)) : l.id = t.list}]
    BY DEF Matching
  <1> QED
    BY <1>4, <1>5, <1>6 DEF ListLists

LEMMA HistorySearchEnds ==
  ASSUME NEW p \in Workers, Busy(p), HistorySearch(p)
  PROVE  Ended(p)
  <1> DEFINE names == [Empty EXCEPT !.history =
                         {h \in OfList(db.history, req[p].list) :
                            h.creator = req[p].user /\ h.name \in Like(req[p].name)}]
  <1>1. req[p].op = "history_search" /\ req[p].op \in Operations \ Changing
    BY DEF HistorySearch, Operations, Changing
  <1>2. Service!Allowed(req[p], db)
    BY <1>1, SameWords DEF Service!Allowed, Needed, Owning, Writing, Reading
  <1>3. db \in Store
    BY <1>1, Starting
  <1>4. pc[p] \notin Reusing /\ SelectLast(p, names)
    BY DEF HistorySearch, Reusing
  <1>5. names = Service!Found(req[p], db)
    BY <1>1, SameWords, SameStores DEF Service!Found
  <1>6. names \in Store
    BY <1>3 DEF Empty, Store, OfList
  <1> QED
    BY <1>1, <1>2, <1>4, <1>5, <1>6, OneSelectEnds

---------------------------------------------------------------------------
(***************************************************************************)
(* Every step of the server is one of the service, or none.                *)
(***************************************************************************)
LEMMA HandleEnds ==
  ASSUME NEW p \in Workers, Busy(p), NameGiven, Handle(p)
  PROVE  Ended(p)
  BY CreateListEnds, ReadListEnds, AddListEnds, UpdateItemEnds, DeleteItemEnds, DeleteListEnds,
     SetPublicEnds, GetPublicListEnds, GetSharesEnds, ShareListEnds, UnshareEnds, DeleteSharesEnds,
     GetPantryEnds, AddToPantryEnds, SetPantryItemEnds, DeletePantryItemEnds, RefillPantryEnds,
     ListListsEnds, HistorySearchEnds
  DEF Handle

\* A handler works for a request, and a request that was answered is over.
LEMMA HandlerWorks ==
  ASSUME NEW p \in Workers, Handle(p)
  PROVE  pc[p] \notin {"idle", "done"}
  <1> USE DEF IsOwner, CheckList, Begin, Commit
  <1>1. CASE CreateList(p) \/ ReadList(p) \/ AddList(p)
    BY <1>1 DEF CreateList, ReadList, AddList, At
  <1>6. CASE UpdateItem(p) \/ DeleteItem(p)
    BY <1>6 DEF UpdateItem, DeleteItem
  <1>2. CASE DeleteList(p) \/ SetPublic(p) \/ RemovePublic(p) \/ GetPublicList(p)
    BY <1>2 DEF DeleteList, SetPublic, RemovePublic, GetPublicList
  <1>3. CASE GetShares(p) \/ ShareList(p) \/ Unshare(p) \/ DeleteShares(p)
    BY <1>3 DEF GetShares, ShareList, Unshare, DeleteShares
  <1>4. CASE GetPantry(p) \/ AddToPantry(p) \/ SetPantryItem(p) \/ DeletePantryItem(p) \/ RefillPantry(p)
    BY <1>4 DEF GetPantry, AddToPantry, SetPantryItem, DeletePantryItem, RefillPantry
  <1>5. CASE ListLists(p) \/ HistorySearch(p)
    BY <1>5 DEF ListLists, HistorySearch
  <1> QED
    BY <1>1, <1>2, <1>3, <1>4, <1>5, <1>6 DEF Handle

\* The worker that just got a request has nothing behind it.
LEMMA ArriveStep ==
  ASSUME TypeOK, TypeOK', Serial', ServiceInv, NEW p \in Workers, Arrive(p)
  PROVE  ServiceInv' /\ \E r \in RequestSet : Service!Send(p, r)
  <1>1. PICK r \in RequestSet : /\ HasRoom(r)
                                /\ req' = [req EXCEPT ![p] = r]
                                /\ pc' = [pc EXCEPT ![p] = First(r.op)]
    BY DEF Arrive
  <1>2. pc[p] = "idle" /\ UNCHANGED <<db, tx, answer, seen, next>>
    BY DEF Arrive
  <1>3. /\ pc'[p] = First(r.op) /\ req'[p] = r
        /\ \A q \in Workers \ {p} : pc'[q] = pc[q] /\ req'[q] = req[q]
    BY <1>1 DEF TypeOK
  <1>4. First(r.op) \in {"is_owner", "count_names", "select_pub", "select_owned", "select_history"}
    BY DEF First
  <1>5. Running(p)'
    <2>1. answer[p] = "none" /\ tx[p] = NoChange /\ seen[p] = Empty
      BY <1>2, IdleRunning DEF ServiceInv
    <2>2. HasRoom(r)'
      BY <1>1, <1>2 DEF HasRoom
    <2> QED
      BY <1>2, <1>3, <1>4, <2>1, <2>2
      DEF Running, Waiting, Permitted, Stage, Fetched, Later, Reusing, Checking, Listing
  <1>6. ASSUME NEW q \in Workers \ {p} PROVE Running(q)' /\ pc[q] = "idle" /\ pc'[q] = "idle"
    <2>1. pc[q] = "idle" /\ pc'[q] = "idle"
      BY <1>3, <1>4 DEF Serial
    <2>2. answer[q] = "none" /\ tx[q] = NoChange /\ seen[q] = Empty
      BY <2>1, IdleRunning DEF ServiceInv
    <2> QED
      BY <1>2, <2>1, <2>2 DEF Running, Waiting, Permitted, Stage, Fetched, Later, Reusing
  <1>7. StoreInv'
    BY <1>2 DEF ServiceInv, StoreInv
  <1>8. Service!Send(p, r)
    <2>1. Calls[p] = Service!Free
      BY <1>2 DEF Calls, Service!Free
    <2>2. Calls'[p] = Service!Asked(r)
      BY <1>3, <1>4 DEF Calls, Service!Asked
    <2>3. \A q \in Workers \ {p} : Calls[q] = Calls'[q]
      BY <1>6 DEF Calls
    <2>4. Calls' = [Calls EXCEPT ![p] = Service!Asked(r)]
      <3>1. Calls = [q \in Workers |-> Calls[q]] /\ Calls' = [q \in Workers |-> Calls'[q]]
        BY DEF Calls
      <3> HIDE DEF Calls
      <3> QED
        BY <2>2, <2>3, <3>1
    <2> QED
      BY <1>2, <2>1, <2>4, Zenon DEF Service!Send
  <1> QED
    BY <1>5, <1>6, <1>7, <1>8 DEF ServiceInv

\* The client leaves, answered or not.
LEMMA LeaveStep ==
  ASSUME TypeOK, TypeOK', Serial, ServiceInv, NEW p \in Workers, pc[p] # "idle", Leave(p)
  PROVE  ServiceInv' /\ Service!Leave(p)
  <1>1. /\ pc'[p] = "idle" /\ answer'[p] = "none" /\ seen'[p] = Empty /\ tx'[p] = NoChange
        /\ UNCHANGED <<db, next>>
        /\ \A q \in Workers \ {p} : /\ pc'[q] = pc[q] /\ tx'[q] = tx[q]
                                    /\ answer'[q] = answer[q] /\ seen'[q] = seen[q]
    BY DEF Leave, TypeOK
  <1>2. Running(p)'
    BY <1>1 DEF Running, Waiting, Permitted, Stage, Fetched, Later, Reusing
  <1>3. ASSUME NEW q \in Workers \ {p} PROVE Running(q)' /\ pc[q] = "idle" /\ pc'[q] = "idle"
    <2>1. pc[q] = "idle" /\ pc'[q] = "idle"
      BY <1>1 DEF Serial
    <2>2. answer[q] = "none" /\ tx[q] = NoChange /\ seen[q] = Empty
      BY <2>1, IdleRunning DEF ServiceInv
    <2> QED
      BY <1>1, <2>1, <2>2 DEF Running, Waiting, Permitted, Stage, Fetched, Later, Reusing
  <1>4. StoreInv'
    BY <1>1 DEF ServiceInv, StoreInv
  <1>5. Service!Leave(p)
    <2>1. Calls[p].status \in {"sent", "answered"} /\ Service!Free.status = "free"
      BY DEF Calls, Service!Free
    <2>2. Calls[p] # Service!Free
      BY <2>1
    <2>3. Calls'[p] = Service!Free
      BY <1>1 DEF Calls, Service!Free
    <2>4. \A q \in Workers \ {p} : Calls[q] = Calls'[q]
      BY <1>3 DEF Calls
    <2>5. Calls' = [Calls EXCEPT ![p] = Service!Free]
      <3>1. Calls = [q \in Workers |-> Calls[q]] /\ Calls' = [q \in Workers |-> Calls'[q]]
        BY DEF Calls
      <3> HIDE DEF Calls
      <3> QED
        BY <2>3, <2>4, <3>1
    <2> QED
      BY <1>1, <2>2, <2>5, Zenon DEF Service!Leave
  <1> QED
    BY <1>2, <1>3, <1>4, <1>5 DEF ServiceInv

LEMMA InitService == Init => ServiceInv /\ Service!Init
  <1> SUFFICES ASSUME Init PROVE ServiceInv /\ Service!Init
    OBVIOUS
  <1>1. /\ db = InitialStore /\ \A p \in Workers : pc[p] = "idle"
        /\ \A p \in Workers : answer[p] = "none" /\ tx[p] = NoChange /\ seen[p] = Empty
        /\ next.list    = 1 + Cardinality(InitialStore.lists)
        /\ next.content = 1 + Cardinality(InitialStore.content)
        /\ next.pantry  = 1 + Cardinality(InitialStore.pantry)
    BY DEF Init
  <1>2. /\ Cardinality(InitialStore.lists) \in Nat /\ Cardinality(InitialStore.content) \in Nat
        /\ Cardinality(InitialStore.pantry) \in Nat
    BY StoreAssumption, FS_CardinalityType
  <1>3. StoreInv
    <2>1. Numbered(db, next) /\ next.list > 0 /\ next.content > 0
      BY <1>1, <1>2, StoreAssumption DEF Numbered
    <2> QED
      BY <1>1, <2>1, StoreAssumption DEF StoreInv, Keyed, Stockable
  <1>4. \A p \in Workers : Running(p)
    BY <1>1, IdleRunning
  <1>5. Calls = [p \in Workers |-> Service!Free]
    BY <1>1 DEF Calls, Service!Free
  <1> QED
    BY <1>1, <1>3, <1>4, <1>5, Zenon DEF ServiceInv, Service!Init

\* Every step of the server is one of the service, or none.
LEMMA NextService ==
  ASSUME TypeInv, TypeInv', Serial, Serial', ServiceInv, [Next]_vars
  PROVE  ServiceInv' /\ [Service!Next(RequestSet)]_(Service!service)
  <1>1. CASE UNCHANGED vars
    <2>1. UNCHANGED <<db, Calls>>
      BY <1>1 DEF vars, Calls, Seen
    <2>2. ServiceInv'
      BY <1>1 DEF vars, ServiceInv, StoreInv, Running, Waiting, Permitted, Stage, Fetched,
                  HasRoom, View, Outcome
    <2> QED
      BY <2>1, <2>2 DEF Service!service
  <1>2. CASE Next
    <2>1. PICK p \in Workers : Arrive(p) \/ Serve(p) \/ Cancel(p) \/ Fail(p)
      BY <1>2 DEF Next
    <2> USE DEF TypeInv
    <2>2. CASE Arrive(p)
      BY <2>2, ArriveStep, Zenon DEF Service!Next
    <2>3. CASE Deliver(p) \/ Cancel(p)
      <3>1. pc[p] # "idle" /\ Leave(p)
        BY <2>3 DEF Deliver, Cancel
      <3> QED
        BY <3>1, LeaveStep, Zenon DEF Service!Next
    <2>4. CASE Handle(p) \/ Fail(p) \/ Deadlock(p)
      <3>1. pc[p] \notin {"idle", "done"}
        <4>1. CASE Handle(p)
          BY <4>1, HandlerWorks
        <4>2. CASE Fail(p)
          BY <4>2 DEF Fail
        <4>3. CASE Deadlock(p)
          BY <4>3, DeadlockNever
        <4> QED
          BY <2>4, <4>1, <4>2, <4>3
      <3>2. Busy(p)
        BY <3>1 DEF Busy
      <3>3. Ended(p)
        BY <2>4, <3>2, HandleEnds, FailEnds, DeadlockNever
      <3>4. CASE Continued(p)
        BY <3>1, <3>3, <3>4, ContinuedStep DEF Ended, Service!service
      <3>5. CASE Refused(p)
        BY <3>1, <3>3, <3>5, RefusedStep, Zenon DEF Ended, Service!Next
      <3>6. CASE Served(p)
        BY <3>1, <3>3, <3>6, ServedStep, Zenon DEF Ended, Service!Next
      <3> QED
        BY <3>3, <3>4, <3>5, <3>6 DEF Ended
    <2> QED
      BY <2>1, <2>2, <2>3, <2>4 DEF Serve
  <1> QED
    BY <1>1, <1>2

---------------------------------------------------------------------------
(***************************************************************************)
(* What the service keeps true of what is stored, so that the server does  *)
(* too.                                                                    *)
(***************************************************************************)
Unique(s) == \A l, m \in s.lists : l.owner = m.owner /\ l.name = m.name => l = m

Members(s) == \A h \in s.history : Owns(s, h.creator, h.list) \/ SharedWith(s, h.creator, h.list)

\* What was a pantry row gains what an item of its own that is gone says.
Credited(s, t) ==
  \A q \in s.pantry, o \in t.pantry : q.item = o.item =>
    \/ o.amount = q.amount
    \/ \E c \in s.content \ t.content : c.from_pantry = q.item /\ o.amount = q.amount + Added(c.amount)

\* Requests about items and the pantry leave the other tables alone.
LEMMA ItemsAlone ==
  ASSUME NEW s \in Store, NEW r, NEW i
  PROVE  LET t == Service!Effect(r, s, i)
             items == {"add_list", "update_item", "refill_pantry"}
             stock == {"delete_item", "add_to_pantry", "set_pantry_item", "delete_pantry_item"}
         IN /\ r.op \in items \cup stock => t.lists = s.lists /\ t.sharing = s.sharing
            /\ r.op \in (items \cup stock) \ {"add_list"} => t.history = s.history
            /\ r.op = "add_list" =>
                 t.history = s.history \cup {[list |-> r.list, creator |-> r.user, name |-> r.name]}
            /\ r.op \in items => t.pantry = s.pantry
            /\ r.op = "delete_pantry_item" => t.pantry \subseteq s.pantry
  <1> DEFINE t == Service!Effect(r, s, i)
  <1>1. CASE r.op = "add_list"
    <2> DEFINE x == s.content \cup {[id |-> i, list |-> r.list, name |-> r.name,
                                     amount |-> r.amount, from_pantry |-> NoItem]}
               h == s.history \cup {[list |-> r.list, creator |-> r.user, name |-> r.name]}
    <2>1. t = Holding(s.lists, s.sharing, x, h, s.pantry)
      BY <1>1, ItemEffects
    <2> HIDE DEF t, x, h
    <2>2. t.lists = s.lists /\ t.sharing = s.sharing /\ t.history = h /\ t.pantry = s.pantry
      BY <2>1 DEF Holding
    <2> QED
      BY <1>1, <2>2 DEF t, h
  <1>2. CASE r.op = "update_item"
    <2> DEFINE x == (s.content \ Service!Item(r, s)) \cup
                      {[c EXCEPT !.name = Service!Given(r.name, @),
                                 !.amount = Service!Given(r.amount, @)] : c \in Service!Item(r, s)}
    <2>1. t = Holding(s.lists, s.sharing, x, s.history, s.pantry)
      BY <1>2, ItemEffects
    <2> HIDE DEF t, x
    <2>2. /\ t.lists = s.lists /\ t.sharing = s.sharing /\ t.history = s.history
          /\ t.pantry = s.pantry
      BY <2>1 DEF Holding
    <2> QED
      BY <1>2, <2>2 DEF t
  <1>3. CASE r.op = "delete_item"
    <2> DEFINE x == s.content \ Service!Item(r, s)
    <2>1. t = Holding(s.lists, s.sharing, x, s.history, Restocked(r, s))
      BY <1>3, ItemEffects
    <2> HIDE DEF t, x
    <2>2. t.lists = s.lists /\ t.sharing = s.sharing /\ t.history = s.history
      BY <2>1 DEF Holding
    <2> QED
      BY <1>3, <2>2 DEF t
  <1>4. CASE r.op = "add_to_pantry"
    <2> DEFINE y == s.pantry \cup {[item |-> i, list |-> r.list, name |-> r.name,
                                    target |-> r.target, amount |-> 0]}
    <2>1. t = Holding(s.lists, s.sharing, s.content, s.history, y)
      BY <1>4, PantryEffects
    <2> HIDE DEF t, y
    <2>2. t.lists = s.lists /\ t.sharing = s.sharing /\ t.history = s.history
      BY <2>1 DEF Holding
    <2> QED
      BY <1>4, <2>2 DEF t
  <1>5. CASE r.op = "set_pantry_item"
    <2> DEFINE y == (s.pantry \ Service!Stocked(r, s)) \cup
                      {[q EXCEPT !.amount = Service!Given(r.stock, @),
                                 !.target = Service!Given(r.target, @)] : q \in Service!Stocked(r, s)}
    <2>1. t = Holding(s.lists, s.sharing, s.content, s.history, y)
      BY <1>5, PantryEffects
    <2> HIDE DEF t, y
    <2>2. t.lists = s.lists /\ t.sharing = s.sharing /\ t.history = s.history
      BY <2>1 DEF Holding
    <2> QED
      BY <1>5, <2>2 DEF t
  <1>6. CASE r.op = "delete_pantry_item"
    <2> DEFINE x == Unlinked(r, s)
               y == s.pantry \ Service!Stocked(r, s)
    <2>1. t = Holding(s.lists, s.sharing, x, s.history, y)
      BY <1>6, PantryEffects
    <2>2. y \subseteq s.pantry
      OBVIOUS
    <2> HIDE DEF t, x, y
    <2>3. t.lists = s.lists /\ t.sharing = s.sharing /\ t.history = s.history /\ t.pantry = y
      BY <2>1 DEF Holding
    <2> QED
      BY <1>6, <2>2, <2>3 DEF t
  <1>7. CASE r.op = "refill_pantry"
    <2> DEFINE x == s.content \cup Refills(r, s, i)
    <2>1. t = Holding(s.lists, s.sharing, x, s.history, s.pantry)
      BY <1>7, PantryEffects
    <2> HIDE DEF t, x
    <2>2. /\ t.lists = s.lists /\ t.sharing = s.sharing /\ t.history = s.history
          /\ t.pantry = s.pantry
      BY <2>1 DEF Holding
    <2> QED
      BY <1>7, <2>2 DEF t
  <1> HIDE DEF t
  <1> QED
    BY <1>1, <1>2, <1>3, <1>4, <1>5, <1>6, <1>7 DEF t

\* Few requests touch the lists, and few the pantry.
LEMMA ListsStay ==
  ASSUME NEW s \in Store, NEW r, NEW i, r.op \notin {"create_list", "set_public", "remove_public"}
  PROVE  Service!Effect(r, s, i).lists \subseteq s.lists
  <1>1. CASE r.op \in {"delete_list", "unshare", "delete_shares"}
    BY <1>1, ListEffects DEF Holding
  <1>2. CASE r.op = "share_list"
    <2>1. CASE SharedWith(s, r.with, r.list)
      <3>1. Service!Effect(r, s, i) = s
        BY <1>2, <2>1, ListEffects, Zenon
      <3> QED
        BY <3>1
    <2>2. CASE ~ SharedWith(s, r.with, r.list)
      BY <1>2, <2>2, ListEffects DEF Holding
    <2> QED
      BY <2>1, <2>2
  <1>3. CASE r.op \in {"add_list", "update_item", "delete_item"}
    BY <1>3, ItemsAlone
  <1>4. CASE r.op \in {"add_to_pantry", "set_pantry_item", "delete_pantry_item", "refill_pantry"}
    BY <1>4, ItemsAlone
  <1>5. CASE r.op \notin Changing
    BY <1>5, NoEffect
  <1> QED
    BY <1>1, <1>2, <1>3, <1>4, <1>5 DEF Changing

LEMMA PantryStays ==
  ASSUME NEW s \in Store, NEW r, NEW i,
         r.op \notin {"delete_item", "add_to_pantry", "set_pantry_item"}
  PROVE  Service!Effect(r, s, i).pantry \subseteq s.pantry
  <1>1. CASE r.op \in {"create_list", "delete_list", "set_public", "remove_public", "unshare",
                       "delete_shares"}
    BY <1>1, ListEffects DEF Holding
  <1>2. CASE r.op = "share_list"
    <2>1. CASE SharedWith(s, r.with, r.list)
      <3>1. Service!Effect(r, s, i) = s
        BY <1>2, <2>1, ListEffects, Zenon
      <3> QED
        BY <3>1
    <2>2. CASE ~ SharedWith(s, r.with, r.list)
      BY <1>2, <2>2, ListEffects DEF Holding
    <2> QED
      BY <2>1, <2>2
  <1>3. CASE r.op \in {"add_list", "update_item"}
    BY <1>3, ItemsAlone
  <1>4. CASE r.op \in {"delete_pantry_item", "refill_pantry"}
    BY <1>4, ItemsAlone
  <1>5. CASE r.op \notin Changing
    BY <1>5, NoEffect
  <1> QED
    BY <1>1, <1>2, <1>3, <1>4, <1>5 DEF Changing

\* create_list asks for a name its owner has not given yet.
LEMMA EffectUnique ==
  ASSUME NEW s \in Store, NEW r, NEW i, Unique(s), Service!Allowed(r, s)
  PROVE  Unique(Service!Effect(r, s, i))
  <1> DEFINE t == Service!Effect(r, s, i)
  <1>1. CASE r.op = "create_list"
    <2>1. \A l \in s.lists : ~ (l.owner = r.user /\ l.name = r.name)
      BY <1>1 DEF Service!Allowed, Service!Taken
    <2> DEFINE new == [id |-> i, owner |-> r.user, name |-> r.name, pub |-> FALSE]
    <2>2. t = Holding(s.lists \cup {new}, s.sharing, s.content, s.history, s.pantry)
      BY <1>1, ListEffects
    <2>3. new.owner = r.user /\ new.name = r.name
      OBVIOUS
    <2> HIDE DEF t, new
    <2>4. t.lists = s.lists \cup {new}
      BY <2>2 DEF Holding
    <2>5. Unique(t)
      BY <2>1, <2>3, <2>4 DEF Unique
    <2> QED
      BY <2>5 DEF t
  <1>2. CASE r.op \in {"set_public", "remove_public"}
    <2> DEFINE row(l) == IF l.id = r.list THEN [l EXCEPT !.pub = (r.op = "set_public")] ELSE l
    <2>1. t = Holding({row(l) : l \in s.lists}, s.sharing, s.content, s.history, s.pantry)
      BY <1>2, ListEffects
    <2>2. \A l \in s.lists : row(l).owner = l.owner /\ row(l).name = l.name
      BY DEF Store, ListRow
    <2> HIDE DEF row, t
    <2>3. t.lists = {row(l) : l \in s.lists}
      BY <2>1 DEF Holding
    <2>4. Unique(t)
      BY <2>2, <2>3 DEF Unique
    <2> QED
      BY <2>4 DEF t
  <1>3. CASE r.op \notin {"create_list", "set_public", "remove_public"}
    <2>1. t.lists \subseteq s.lists
      BY <1>3, ListsStay
    <2> QED
      BY <2>1 DEF Unique
  <1> QED
    BY <1>1, <1>2, <1>3

\* A name enters the history of a list by a request of its owner or of an
\* account it is shared with, and whoever loses the list loses it.
LEMMA EffectMembers ==
  ASSUME NEW s \in Store, NEW r, NEW i, Members(s), Service!Allowed(r, s)
  PROVE  Members(Service!Effect(r, s, i))
  <1> DEFINE t == Service!Effect(r, s, i)
  <1>1. CASE r.op = "create_list"
    <2> DEFINE new == [id |-> i, owner |-> r.user, name |-> r.name, pub |-> FALSE]
    <2>1. t = Holding(s.lists \cup {new}, s.sharing, s.content, s.history, s.pantry)
      BY <1>1, ListEffects
    <2> HIDE DEF t, new
    <2>2. t.lists = s.lists \cup {new} /\ t.sharing = s.sharing /\ t.history = s.history
      BY <2>1 DEF Holding
    <2>3. Members(t)
      BY <2>2 DEF Members, Owns, SharedWith
    <2> QED
      BY <2>3 DEF t
  <1>2. CASE r.op = "delete_list"
    <2>1. /\ t.lists = {l \in s.lists : l.id # r.list}
          /\ t.sharing = {x \in s.sharing : x.list # r.list}
          /\ t.history = {h \in s.history : h.list # r.list}
      BY <1>2, ListEffects DEF Holding
    <2> HIDE DEF t
    <2>2. Members(t)
      BY <2>1 DEF Members, Owns, SharedWith
    <2> QED
      BY <2>2 DEF t
  <1>3. CASE r.op \in {"set_public", "remove_public"}
    <2> DEFINE row(l) == IF l.id = r.list THEN [l EXCEPT !.pub = (r.op = "set_public")] ELSE l
    <2>1. t = Holding({row(l) : l \in s.lists}, s.sharing, s.content, s.history, s.pantry)
      BY <1>3, ListEffects
    <2>2. \A l \in s.lists : row(l).owner = l.owner /\ row(l).id = l.id
      BY DEF Store, ListRow
    <2> HIDE DEF row, t
    <2>3. /\ t.lists = {row(l) : l \in s.lists}
          /\ t.sharing = s.sharing /\ t.history = s.history
      BY <2>1 DEF Holding
    <2>4. Members(t)
      BY <2>2, <2>3 DEF Members, Owns, SharedWith
    <2> QED
      BY <2>4 DEF t
  <1>4. CASE r.op = "share_list"
    <2>1. CASE SharedWith(s, r.with, r.list)
      <3>1. t = s
        BY <1>4, <2>1, ListEffects, Zenon
      <3> QED
        BY <3>1
    <2>2. CASE ~ SharedWith(s, r.with, r.list)
      <3>1. t.lists = s.lists /\ s.sharing \subseteq t.sharing /\ t.history = s.history
        BY <1>4, <2>2, ListEffects DEF Holding
      <3> HIDE DEF t
      <3>2. Members(t)
        BY <3>1 DEF Members, Owns, SharedWith
      <3> QED
        BY <3>2 DEF t
    <2> QED
      BY <2>1, <2>2
  <1>5. CASE r.op = "unshare"
    <2>1. /\ t.lists = s.lists
          /\ t.sharing = {x \in s.sharing : ~ (x.list = r.list /\ x.shared = r.with)}
          /\ t.history = {h \in s.history : ~ (h.list = r.list /\ h.creator = r.with)}
      BY <1>5, ListEffects DEF Holding
    <2> HIDE DEF t
    <2>2. Members(t)
      BY <2>1 DEF Members, Owns, SharedWith
    <2> QED
      BY <2>2 DEF t
  <1>6. CASE r.op = "delete_shares"
    <2>1. /\ t.lists = s.lists
          /\ t.sharing = {x \in s.sharing : x.list # r.list}
          /\ t.history = {h \in s.history : h.list = r.list => h.creator = r.user}
      BY <1>6, ListEffects DEF Holding
    <2>2. Owns(s, r.user, r.list)
      <3>1. Service!Needed(r.op) = "own"
        <4>1. Needed(r.op) = "own"
          BY <1>6 DEF Needed, Owning, Writing, Reading
        <4> QED
          BY <4>1, SameWords
      <3>2. "own" \in Rights(s, r.user, r.list)
        BY <3>1, SameStores DEF Service!Allowed
      <3> QED
        BY <3>2 DEF Rights
    <2> HIDE DEF t
    <2>3. Members(t)
      BY <2>1, <2>2 DEF Members, Owns, SharedWith
    <2> QED
      BY <2>3 DEF t
  <1>7. CASE r.op = "add_list"
    <2> DEFINE new == [list |-> r.list, creator |-> r.user, name |-> r.name]
    <2>1. /\ t.lists = s.lists /\ t.sharing = s.sharing
          /\ t.history = s.history \cup {new}
      BY <1>7, ItemsAlone
    <2>2. Owns(s, r.user, r.list) \/ SharedWith(s, r.user, r.list)
      BY <1>7, SameWords, SameStores
      DEF Service!Allowed, Needed, Owning, Writing, Rights, SharedToWrite, SharedWith
    <2>3. new.list = r.list /\ new.creator = r.user
      OBVIOUS
    <2> HIDE DEF t, new
    <2>4. Members(t)
      BY <2>1, <2>2, <2>3 DEF Members, Owns, SharedWith
    <2> QED
      BY <2>4 DEF t
  <1>8. CASE r.op \in {"update_item", "delete_item", "add_to_pantry", "set_pantry_item",
                       "delete_pantry_item", "refill_pantry"}
    <2>1. t.lists = s.lists /\ t.sharing = s.sharing /\ t.history = s.history
      BY <1>8, ItemsAlone
    <2> HIDE DEF t
    <2>2. Members(t)
      BY <2>1 DEF Members, Owns, SharedWith
    <2> QED
      BY <2>2 DEF t
  <1>9. CASE r.op \notin Changing
    BY <1>9, NoEffect
  <1> QED
    BY <1>1, <1>2, <1>3, <1>4, <1>5, <1>6, <1>7, <1>8, <1>9 DEF Changing

\* Removing an item credits its own pantry row and no other.
LEMMA EffectCredited ==
  ASSUME NEW s \in Store, NEW r, NEW i, Keyed(s), Service!Fresh(r, s, i),
         r.op # "set_pantry_item"
  PROVE  Credited(s, Service!Effect(r, s, i))
  <1> DEFINE t == Service!Effect(r, s, i)
  <1>1. CASE r.op = "delete_item"
    <2>1. t = Holding(s.lists, s.sharing, s.content \ Service!Item(r, s), s.history, Restocked(r, s))
      BY <1>1, ItemEffects
    <2> HIDE DEF t
    <2>2. t.content = s.content \ Service!Item(r, s) /\ t.pantry = Restocked(r, s)
      BY <2>1 DEF Holding
    <2>3. ASSUME NEW q \in s.pantry, NEW o \in t.pantry, q.item = o.item, o.amount # q.amount
          PROVE  \E c \in s.content \ t.content :
                   c.from_pantry = q.item /\ o.amount = q.amount + Added(c.amount)
      <3>1. PICK b \in s.pantry :
              /\ o.item = b.item /\ o.list = b.list
              /\ Back(r, s, b) = {} => o = b
              /\ Back(r, s, b) # {} =>
                   o.amount = b.amount + Added((CHOOSE c \in Back(r, s, b) : TRUE).amount)
        <4>1. \A u \in Restocked(r, s) : \E b \in s.pantry :
                /\ u.item = b.item /\ u.list = b.list
                /\ Back(r, s, b) = {} => u = b
                /\ Back(r, s, b) # {} =>
                     u.amount = b.amount + Added((CHOOSE c \in Back(r, s, b) : TRUE).amount)
          BY RestockedRows, Zenon
        <4> QED
          BY <2>2, <4>1, Zenon
      <3>2. b = q
        BY <2>3, <3>1 DEF Keyed
      <3>3. Back(r, s, q) # {}
        BY <2>3, <3>1, <3>2
      <3> DEFINE c == CHOOSE c \in Back(r, s, q) : TRUE
      <3>4. c \in Back(r, s, q) /\ o.amount = q.amount + Added(c.amount)
        BY <3>1, <3>2, <3>3
      <3> HIDE DEF c
      <3>5. c \in s.content \ t.content /\ c.from_pantry = q.item
        BY <2>2, <3>4 DEF Back, Service!Item
      <3> QED
        BY <3>4, <3>5
    <2>4. Credited(s, t)
      BY <2>3 DEF Credited
    <2> QED
      BY <2>4 DEF t
  <1>2. CASE r.op = "add_to_pantry"
    <2>1. \A q \in s.pantry : q.item # i
      BY <1>2, SameStores DEF Service!Fresh, PantryItems
    <2> DEFINE new == [item |-> i, list |-> r.list, name |-> r.name, target |-> r.target,
                       amount |-> 0]
    <2>2. t = Holding(s.lists, s.sharing, s.content, s.history, s.pantry \cup {new})
      BY <1>2, PantryEffects
    <2>3. new.item = i
      OBVIOUS
    <2> HIDE DEF t, new
    <2>4. t.pantry = s.pantry \cup {new}
      BY <2>2 DEF Holding
    <2>5. Credited(s, t)
      BY <2>1, <2>3, <2>4 DEF Credited, Keyed
    <2> QED
      BY <2>5 DEF t
  <1>3. CASE r.op \notin {"delete_item", "add_to_pantry"}
    <2>1. t.pantry \subseteq s.pantry
      BY <1>3, PantryStays
    <2> HIDE DEF t
    <2>2. Credited(s, t)
      BY <2>1 DEF Credited, Keyed
    <2> QED
      BY <2>2 DEF t
  <1> QED
    BY <1>1, <1>2, <1>3

---------------------------------------------------------------------------
(***************************************************************************)
(* The theorems.                                                           *)
(***************************************************************************)
\* A step changes what is stored only by serving a request.
LEMMA ServiceStep ==
  ASSUME [Service!Next(RequestSet)]_(Service!service)
  PROVE  \/ db' = db
         \/ \E p \in Workers, i \in RowIds :
              /\ Service!Allowed(req[p], db) /\ Service!Fresh(req[p], db, i)
              /\ db' = Service!Effect(req[p], db, i)
  <1>1. CASE UNCHANGED Service!service
    BY <1>1 DEF Service!service
  <1>2. CASE Service!Next(RequestSet)
    <2>1. PICK p \in Workers : \/ \E r \in RequestSet : Service!Send(p, r)
                               \/ \E i \in RowIds : Service!Perform(p, i)
                               \/ Service!Refuse(p)
                               \/ Service!Leave(p)
      BY <1>2, Zenon DEF Service!Next
    <2>2. CASE (\E r \in RequestSet : Service!Send(p, r)) \/ Service!Refuse(p) \/ Service!Leave(p)
      <3>1. UNCHANGED db
        BY <2>2, Zenon DEF Service!Send, Service!Refuse, Service!Leave
      <3> QED
        BY <3>1
    <2>3. ASSUME NEW i \in RowIds, Service!Perform(p, i)
          PROVE  /\ Service!Allowed(req[p], db) /\ Service!Fresh(req[p], db, i)
                 /\ db' = Service!Effect(req[p], db, i)
      <3>1. /\ Calls[p].status = "sent"
            /\ Service!Allowed(Calls[p].req, db) /\ Service!Fresh(Calls[p].req, db, i)
            /\ db' = Service!Effect(Calls[p].req, db, i)
        BY <2>3, Zenon DEF Service!Perform
      <3>2. pc[p] \notin {"idle", "done"}
        BY <3>1 DEF Calls
      <3>3. Calls[p].req = req[p]
        <4>1. Calls[p] = [status |-> "sent", req |-> req[p]]
          BY <3>2, Sent
        <4> HIDE DEF Calls
        <4> QED
          BY <4>1
      <3> QED
        BY <3>1, <3>3
    <2> QED
      BY <2>1, <2>2, <2>3
  <1> QED
    BY <1>1, <1>2

\* The types, and what a request in progress has done so far, stay as they are.
LEMMA ServiceStays ==
  ASSUME TypeInv, ServiceInv, Serial, Serial', [Next]_vars
  PROVE  TypeInv' /\ ServiceInv' /\ [Service!Next(RequestSet)]_(Service!service)
  BY NextTypeInv, NextService

\* A request takes effect at one instant, does exactly what ListService says
\* of it, or is refused for a reason and changes nothing: every handler, with
\* its checks, statements, transaction and failures, amounts to one step of
\* the service, as long as requests do not overlap inside the server.
THEOREM ServesLists == Spec /\ []Serial => Implements
  <1>1. Init => TypeInv /\ ServiceInv /\ Service!Init
    BY InitTypeInv, InitService
  <1>2. TypeInv /\ ServiceInv /\ Serial /\ Serial' /\ [Next]_vars =>
          TypeInv' /\ ServiceInv' /\ [Service!Next(RequestSet)]_(Service!service)
    BY ServiceStays
  <1> QED
    BY <1>1, <1>2, PTL DEF Spec, Implements

\* No user ever owns two lists of one name when requests do not overlap, if
\* none does at first: create_list refuses the second.
THEOREM NamesStayUnique == Spec /\ UniqueNames /\ []Serial => []UniqueNames
  <1> DEFINE Inv == TypeInv /\ ServiceInv /\ UniqueNames
  <1>1. Init /\ UniqueNames => Inv
    BY InitTypeInv, InitService
  <1>2. Inv /\ Serial /\ Serial' /\ [Next]_vars => Inv'
    <2> SUFFICES ASSUME Inv, Serial, Serial', [Next]_vars PROVE UniqueNames'
      BY ServiceStays
    <2>1. \/ db' = db
          \/ \E p \in Workers, i \in RowIds :
               /\ Service!Allowed(req[p], db) /\ Service!Fresh(req[p], db, i)
               /\ db' = Service!Effect(req[p], db, i)
      BY ServiceStays, ServiceStep
    <2>2. Unique(db) /\ db \in Store
      BY DEF UniqueNames, Unique, TypeInv, TypeOK
    <2>3. Unique(db')
      BY <2>1, <2>2, EffectUnique, Zenon
    <2> QED
      BY <2>3 DEF UniqueNames, Unique
  <1> QED
    BY <1>1, <1>2, PTL DEF Spec

\* The history of a list holds names of its members only when requests do not
\* overlap, if it does at first.
THEOREM HistoryStaysWithMembers == Spec /\ HistoryOfMembers /\ []Serial => []HistoryOfMembers
  <1> DEFINE Inv == TypeInv /\ ServiceInv /\ HistoryOfMembers
  <1>1. Init /\ HistoryOfMembers => Inv
    BY InitTypeInv, InitService
  <1>2. Inv /\ Serial /\ Serial' /\ [Next]_vars => Inv'
    <2> SUFFICES ASSUME Inv, Serial, Serial', [Next]_vars PROVE HistoryOfMembers'
      BY ServiceStays
    <2>1. \/ db' = db
          \/ \E p \in Workers, i \in RowIds :
               /\ Service!Allowed(req[p], db) /\ Service!Fresh(req[p], db, i)
               /\ db' = Service!Effect(req[p], db, i)
      BY ServiceStays, ServiceStep
    <2>2. Members(db) /\ db \in Store
      BY DEF HistoryOfMembers, Members, TypeInv, TypeOK
    <2>3. Members(db')
      BY <2>1, <2>2, EffectMembers, Zenon
    <2> QED
      BY <2>3 DEF HistoryOfMembers, Members
  <1> QED
    BY <1>1, <1>2, PTL DEF Spec

\* Removing an item puts its amount into its own pantry row, once, and nothing
\* else but set_pantry_item changes an amount, when requests do not overlap.
THEOREM CreditsOnce == Spec /\ []Serial => CreditedOnce
  <1> DEFINE Inv == TypeInv /\ ServiceInv
             Step == \A r \in db.pantry, t \in db'.pantry :
                       r.item = t.item /\ (\A p \in Workers : req[p].op # "set_pantry_item") =>
                         \/ t.amount = r.amount
                         \/ \E c \in db.content \ db'.content :
                              c.from_pantry = r.item /\ t.amount = r.amount + Added(c.amount)
  <1>1. Init => Inv
    BY InitTypeInv, InitService
  <1>2. Inv /\ Serial /\ Serial' /\ [Next]_vars => Inv'
    BY ServiceStays
  <1>3. Inv /\ Serial /\ Serial' /\ [Next]_vars => [Step]_vars
    <2> SUFFICES ASSUME Inv, Serial, Serial', [Next]_vars,
                        \A p \in Workers : req[p].op # "set_pantry_item"
                 PROVE  Credited(db, db')
      BY DEF Credited
    <2>1. \/ db' = db
          \/ \E p \in Workers, i \in RowIds :
               /\ Service!Allowed(req[p], db) /\ Service!Fresh(req[p], db, i)
               /\ db' = Service!Effect(req[p], db, i)
      BY ServiceStays, ServiceStep
    <2>2. Keyed(db) /\ db \in Store
      BY DEF ServiceInv, StoreInv, TypeInv, TypeOK
    <2>3. CASE db' = db
      BY <2>2, <2>3 DEF Credited, Keyed
    <2>4. CASE db' # db
      BY <2>1, <2>2, <2>4, EffectCredited, Zenon
    <2> QED
      BY <2>3, <2>4
  <1> QED
    BY <1>1, <1>2, <1>3, PTL DEF Spec, CreditedOnce

\* What is answered about the right to a list is true of the list.
LEMMA FoundHonest ==
  ASSUME NEW r, NEW l, Service!Allowed(r, db),
         l \in IF r.op = "read_list" THEN {r.list} ELSE ListIds(Service!Found(r, db)),
         \A t \in Service!Found(r, db).sharing : t.list = l => ~ t.readonly
  PROVE  "write" \in Rights(db, r.user, l)
  <1>1. Owns(db, r.user, l) \/ SharedWith(db, r.user, l)
    <2>1. CASE r.op = "read_list"
      <3>1. Service!Needed(r.op) = "read"
        BY <2>1, SameWords DEF Needed, Owning, Writing, Reading
      <3>2. "read" \in Rights(db, r.user, r.list)
        BY <3>1, SameStores DEF Service!Allowed
      <3> QED
        BY <2>1, <3>2 DEF Rights, SharedToWrite, SharedWith
    <2>2. CASE r.op \in {"list_lists", "search_list"}
      <3>1. Service!Found(r, db).lists \subseteq OwnedLists(db, r.user) \cup SharedLists(db, r.user)
        BY <2>2, SameStores, SameWords DEF Service!Found, Empty
      <3> QED
        BY <2>2, <3>1 DEF ListIds, OwnedLists, SharedLists, Owns
    <2>3. CASE r.op \notin {"read_list", "list_lists", "search_list"}
      <3>1. Service!Found(r, db).lists = {}
        BY <2>3, SameWords DEF Service!Found, Empty
      <3> QED
        BY <2>3, <3>1 DEF ListIds
    <2> QED
      BY <2>1, <2>2, <2>3
  <1>2. ASSUME NEW t \in db.sharing, t.list = l, t.shared = r.user
        PROVE  t \in Service!Found(r, db).sharing
    <2>1. CASE r.op = "read_list"
      <3>1. Service!Found(r, db).sharing = OfList(SharesOf(db, r.user), r.list)
        BY <2>1, SameStores, SameWords DEF Service!Found, Empty
      <3> QED
        BY <1>2, <2>1, <3>1 DEF OfList, SharesOf
    <2>2. CASE r.op \in {"list_lists", "search_list"}
      <3>1. Service!Found(r, db).sharing =
              {x \in SharesOf(db, r.user) : \E y \in Service!Found(r, db).lists : y.id = x.list}
        BY <2>2, SameStores, SameWords DEF Service!Found, Empty
      <3> QED
        BY <1>2, <2>2, <3>1 DEF ListIds, SharesOf
    <2>3. CASE r.op \notin {"read_list", "list_lists", "search_list"}
      <3>1. Service!Found(r, db).lists = {}
        BY <2>3, SameWords DEF Service!Found, Empty
      <3> QED
        BY <2>3, <3>1 DEF ListIds
    <2> QED
      BY <2>1, <2>2, <2>3
  <1>3. SharedWith(db, r.user, l) => SharedToWrite(db, r.user, l)
    BY <1>2 DEF SharedWith, SharedToWrite
  <1> QED
    BY <1>1, <1>3 DEF Rights

\* A reader who is told that a list is writable may write to it, when requests
\* do not overlap: the two SELECTs of list_lists and of read_list are of one
\* moment then.
THEOREM HonestWhenAlone == Spec /\ []Serial => []WritableIsHonest
  <1>1. Init => TypeInv /\ ServiceInv
    BY InitTypeInv, InitService
  <1>2. TypeInv /\ ServiceInv /\ Serial /\ Serial' /\ [Next]_vars => TypeInv' /\ ServiceInv'
    BY ServiceStays
  <1>3. ServiceInv => WritableIsHonest
    <2> SUFFICES ASSUME ServiceInv, NEW p \in Workers, answer[p] = "ok",
                        NEW l \in IF req[p].op = "read_list" THEN {req[p].list} ELSE ListIds(seen[p]),
                        \A r \in seen[p].sharing : r.list = l => ~ r.readonly
                 PROVE  "write" \in Rights(db, req[p].user, l)
      BY DEF WritableIsHonest
    <2>1. pc[p] = "done"
      BY DEF ServiceInv, Running, Waiting
    <2>2. req[p].op = "read_list" \/ seen[p].lists # {}
      BY DEF ListIds
    <2>3. Service!Allowed(req[p], db) /\ seen[p] = Service!Found(req[p], db)
      BY <2>1, <2>2 DEF ServiceInv, Running, Fetched
    <2> QED
      BY <2>3, FoundHonest
  <1> QED
    BY <1>1, <1>2, <1>3, PTL DEF Spec

\* A server with one worker is one where requests do not overlap.
COROLLARY AloneServesLists ==
  ASSUME \A p, q \in Workers : p = q
  PROVE  Spec => Implements
  <1>1. Serial
    BY DEF Serial
  <1> QED
    BY <1>1, ServesLists, PTL
=============================================================================

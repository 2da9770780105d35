----------------------------- MODULE LockProofs -----------------------------
(***************************************************************************)
(* What the row locks of PostgreSQL are worth, in every state of every     *)
(* instance of Server.                                                     *)
(*                                                                         *)
(* No row outlives what it refers to (NoOrphans).  PostgreSQL checks the   *)
(* references of a statement when it runs, against what its transaction    *)
(* sees; that they still hold when the transaction commits, after others   *)
(* have, is the work of the locks it holds.                                *)
(*                                                                         *)
(* No two transactions wait for each other's locks unless one of them      *)
(* removes a list or a pantry item (RingsNeedRemoval): all others write    *)
(* their tables in one order.                                              *)
(***************************************************************************)
EXTENDS AuthorityProofs

\* A new version of a row that the change d replaces refers to what a version
\* in store s refers to.
Grounded(s, d) ==
  /\ d.ins.sharing \cap d.del.sharing \subseteq s.sharing
  /\ d.ins.history \cap d.del.history \subseteq s.history
  /\ \A r \in d.ins.content :
       (\E o \in d.del.content : o.id = r.id) =>
         \E o \in d.del.content \cap s.content :
           o.id = r.id /\ o.list = r.list /\ o.from_pantry = r.from_pantry
  /\ \A r \in d.ins.pantry :
       (\E o \in d.del.pantry : o.item = r.item) =>
         \E o \in d.del.pantry \cap s.pantry : o.item = r.item /\ o.list = r.list

\* The change d replaces what it deletes of the rows that t has inserted.
Covered(t, d) ==
  /\ \A o \in t.ins.content \cap d.del.content : \E n \in d.ins.content : n.id = o.id
  /\ \A o \in t.ins.pantry \cap d.del.pantry : \E n \in d.ins.pantry : n.item = o.item

\* What an open transaction t of operation op has inserted before its statement
\* at label.
Inserted(t, op, label) ==
  /\ t.ins.lists = {} /\ t.ins.sharing = {}
  /\ t.ins.content # {} => op \in {"add_list", "update_item"}
  /\ t.ins.pantry # {} => op = "delete_item" /\ label \in {"delete_item", "commit"}
  /\ t.ins.history # {} => op = "add_list" /\ label = "commit"
  /\ op = "add_list" => t.del.content = {} /\ (label # "commit" => t.del.history = {})
  /\ op = "update_item" => \A r \in t.ins.content : \E o \in t.del.content : o.id = r.id

\* References hold in what everybody sees, and no two transactions conflict.
LockInv ==
  /\ ReferencesHold(db)
  /\ \A p \in Workers : /\ ReferencesHold(View(p))
                        /\ Grounded(db, tx[p])
                        /\ Inserted(tx[p], req[p].op, pc[p])
                        /\ \A q \in Workers \ {p} : ~ Conflict(tx[p], tx[q])

---------------------------------------------------------------------------
(***************************************************************************)
(* Conflicts.                                                              *)
(***************************************************************************)
\* They are mutual.
LEMMA ConflictSymmetric ==
  ASSUME NEW d, NEW e, Conflict(d, e)
  PROVE  Conflict(e, d)
  BY DEF Conflict

\* The empty change has none.
LEMMA NothingConflicts == \A e : ~ Conflict(NoChange, e)
  <1>1. Keys(Empty) = {} /\ References(Unmatched(Empty, Empty)) = {}
    BY DEF Keys, ListKeys, PantryKeys, References, Unmatched, Empty
  <1>2. ListKeys(Empty) = {} /\ PantryKeys(Empty) = {}
    BY DEF ListKeys, PantryKeys, Empty
  <1>3. Written(NoChange) = {} /\ Removed(NoChange) = {} /\ Referred(NoChange) = {}
    BY <1>1, <1>2 DEF Written, Removed, Referred, NoChange
  <1> QED
    BY <1>3 DEF Conflict

\* The keys of rows.
LEMMA KeysOfRows ==
  ASSUME NEW s
  PROVE  /\ \A r \in s.lists   : <<"lists", r.id>> \in Keys(s)
         /\ \A r \in s.pantry  : <<"pantry", r.item>> \in Keys(s)
         /\ \A r \in s.sharing : <<"sharing", r.list, r.shared>> \in Keys(s)
         /\ \A r \in s.content : <<"content", r.id>> \in Keys(s)
         /\ \A r \in s.history : <<"history", r.list, r.creator, r.name>> \in Keys(s)
  BY DEF Keys, ListKeys, PantryKeys

\* Two changes without conflict write no row of one key.
LEMMA KeysApart ==
  ASSUME NEW d, NEW e, ~ Conflict(d, e)
  PROVE  /\ \A r \in d.del.lists \cup d.ins.lists, t \in e.del.lists \cup e.ins.lists :
              r.id # t.id
         /\ \A r \in d.del.pantry \cup d.ins.pantry, t \in e.del.pantry \cup e.ins.pantry :
              r.item # t.item
         /\ \A r \in d.del.content \cup d.ins.content, t \in e.del.content \cup e.ins.content :
              r.id # t.id
         /\ (d.del.sharing \cup d.ins.sharing) \cap (e.del.sharing \cup e.ins.sharing) = {}
         /\ (d.del.history \cup d.ins.history) \cap (e.del.history \cup e.ins.history) = {}
  <1>1. Written(d) \cap Written(e) = {}
    BY DEF Conflict
  <1>2. \A x : /\ \A r \in x.del.lists \cup x.ins.lists : <<"lists", r.id>> \in Written(x)
               /\ \A r \in x.del.pantry \cup x.ins.pantry : <<"pantry", r.item>> \in Written(x)
               /\ \A r \in x.del.content \cup x.ins.content : <<"content", r.id>> \in Written(x)
               /\ \A r \in x.del.sharing \cup x.ins.sharing :
                    <<"sharing", r.list, r.shared>> \in Written(x)
               /\ \A r \in x.del.history \cup x.ins.history :
                    <<"history", r.list, r.creator, r.name>> \in Written(x)
    BY KeysOfRows DEF Written
  <1> QED
    BY <1>1, <1>2

\* A list or a pantry item is removed if no version of it is left.
LEMMA KeysRemoved ==
  ASSUME NEW d, NEW n
  PROVE  /\ n \in ListIds(d.del) /\ n \notin ListIds(d.ins) => <<"lists", n>> \in Removed(d)
         /\ n \in PantryItems(d.del) /\ n \notin PantryItems(d.ins) =>
              <<"pantry", n>> \in Removed(d)
  BY DEF Removed, ListKeys, PantryKeys, ListIds, PantryItems

---------------------------------------------------------------------------
(***************************************************************************)
(* A change followed by another one of the same transaction.               *)
(***************************************************************************)
\* It writes and removes what either does.
LEMMA ThenWritten ==
  ASSUME NEW t, NEW d
  PROVE  Written(Then(t, d)) \subseteq Written(t) \cup Written(d)
  <1>1. \A a, b : Keys(Both(a, b)) \subseteq Keys(a) \cup Keys(b)
    BY DEF Keys, ListKeys, PantryKeys, Both
  <1>2. \A a, b : Keys(Apply(a, b)) \subseteq Keys(a) \cup Keys(b.ins)
    BY DEF Keys, ListKeys, PantryKeys, Apply
  <1> QED
    BY <1>1, <1>2 DEF Written, Then

LEMMA ThenRemoved ==
  ASSUME NEW t, NEW d
  PROVE  Removed(Then(t, d)) \subseteq Removed(t) \cup Removed(d)
  <1> DEFINE Gone(s) == ListKeys(s) \cup PantryKeys(s)
  <1>1. Gone(Then(t, d).del) = Gone(t.del) \cup Gone(d.del)
    BY DEF Then, Both, ListKeys, PantryKeys
  <1>2. Gone(d.ins) \subseteq Gone(Then(t, d).ins)
    BY DEF Then, Apply, ListKeys, PantryKeys
  <1>3. Gone(t.ins) \subseteq Gone(Then(t, d).ins) \cup Gone(d.del)
    BY DEF Then, Apply, ListKeys, PantryKeys
  <1>4. \A x : Removed(x) = Gone(x.del) \ Gone(x.ins)
    BY DEF Removed
  <1> HIDE DEF Gone
  <1> QED
    BY <1>1, <1>2, <1>3, <1>4

\* It refers to what either does.
LEMMA ThenReferred ==
  ASSUME NEW t, NEW d, Covered(t, d)
  PROVE  Referred(Then(t, d)) \subseteq Referred(t) \cup Referred(d)
  <1> DEFINE Within(u, a, b) == /\ u.sharing \subseteq a.sharing \cup b.sharing
                                /\ u.content \subseteq a.content \cup b.content
                                /\ u.history \subseteq a.history \cup b.history
                                /\ u.pantry  \subseteq a.pantry  \cup b.pantry
             e == Then(t, d)
  <1>1. ASSUME NEW u, NEW a, NEW b, Within(u, a, b)
        PROVE  References(u) \subseteq References(a) \cup References(b)
    BY <1>1 DEF References
  <1>2. /\ e.ins.sharing = (t.ins.sharing \ d.del.sharing) \cup d.ins.sharing
        /\ e.ins.content = (t.ins.content \ d.del.content) \cup d.ins.content
        /\ e.ins.history = (t.ins.history \ d.del.history) \cup d.ins.history
        /\ e.ins.pantry  = (t.ins.pantry  \ d.del.pantry)  \cup d.ins.pantry
        /\ e.del.sharing = t.del.sharing \cup d.del.sharing
        /\ e.del.content = t.del.content \cup d.del.content
        /\ e.del.history = t.del.history \cup d.del.history
        /\ e.del.pantry  = t.del.pantry  \cup d.del.pantry
    BY DEF Then, Apply, Both
  <1> HIDE DEF e
  <1>3. Within(Unmatched(e.ins, e.del), Unmatched(t.ins, t.del), Unmatched(d.ins, d.del))
    BY <1>2 DEF Unmatched
  <1>4. Within(Unmatched(e.del, e.ins), Unmatched(t.del, t.ins), Unmatched(d.del, d.ins))
    BY <1>2 DEF Unmatched, Covered
  <1> HIDE DEF Within
  <1> QED
    BY <1>1, <1>3, <1>4 DEF Referred, e

\* So what has no conflict with either has none with both.
LEMMA ThenApart ==
  ASSUME NEW t, NEW d, NEW e, Covered(t, d), ~ Conflict(t, e), ~ Conflict(d, e)
  PROVE  ~ Conflict(Then(t, d), e)
  BY ThenWritten, ThenRemoved, ThenReferred DEF Conflict

---------------------------------------------------------------------------
(***************************************************************************)
(* Changes of two transactions.  The change e is stored while a            *)
(* transaction with the change t goes on.                                  *)
(***************************************************************************)
\* A list stays if both leave it, or one does and the other does not remove it.
LEMMA ListsKept ==
  ASSUME NEW s, NEW e, NEW t, ~ Conflict(e, t), NEW n,
         \/ n \in ListIds(Apply(s, e)) /\ n \in ListIds(Apply(s, t))
         \/ n \in ListIds(Apply(s, t)) /\ <<"lists", n>> \notin Removed(e)
         \/ n \in ListIds(Apply(s, e)) /\ <<"lists", n>> \notin Removed(t)
  PROVE  n \in ListIds(Apply(Apply(s, e), t))
  <1> DEFINE after == Apply(Apply(s, e), t)
  <1>1. \A r : r \in after.lists <=>
                 \/ /\ (r \in s.lists /\ r \notin e.del.lists) \/ r \in e.ins.lists
                    /\ r \notin t.del.lists
                 \/ r \in t.ins.lists
    BY DEF Apply
  <1>2. \A x, r : r \in Apply(s, x).lists <=>
                    (r \in s.lists /\ r \notin x.del.lists) \/ r \in x.ins.lists
    BY DEF Apply
  <1>3. ASSUME NEW x PROVE n \in ListIds(x) <=> \E r \in x.lists : r.id = n
    BY DEF ListIds
  <1>4. \A r \in e.del.lists \cup e.ins.lists, u \in t.del.lists \cup t.ins.lists : r.id # u.id
    BY KeysApart
  <1>5. CASE n \in ListIds(Apply(s, e)) /\ n \in ListIds(Apply(s, t))
    BY <1>1, <1>2, <1>3, <1>4, <1>5
  <1>6. CASE n \in ListIds(Apply(s, t)) /\ <<"lists", n>> \notin Removed(e)
    <2>1. n \in ListIds(e.del) => n \in ListIds(e.ins)
      BY <1>6, KeysRemoved
    <2> QED
      BY <1>1, <1>2, <1>3, <1>4, <1>6, <2>1
  <1>7. CASE n \in ListIds(Apply(s, e)) /\ <<"lists", n>> \notin Removed(t)
    <2>1. n \in ListIds(t.del) => n \in ListIds(t.ins)
      BY <1>7, KeysRemoved
    <2> QED
      BY <1>1, <1>2, <1>3, <1>4, <1>7, <2>1
  <1> QED
    BY <1>5, <1>6, <1>7

\* So does a pantry item.
LEMMA PantryKept ==
  ASSUME NEW s, NEW e, NEW t, ~ Conflict(e, t), NEW n,
         \/ n \in PantryItems(Apply(s, e)) /\ n \in PantryItems(Apply(s, t))
         \/ n \in PantryItems(Apply(s, t)) /\ <<"pantry", n>> \notin Removed(e)
         \/ n \in PantryItems(Apply(s, e)) /\ <<"pantry", n>> \notin Removed(t)
  PROVE  n \in PantryItems(Apply(Apply(s, e), t))
  <1> DEFINE after == Apply(Apply(s, e), t)
  <1>1. \A r : r \in after.pantry <=>
                 \/ /\ (r \in s.pantry /\ r \notin e.del.pantry) \/ r \in e.ins.pantry
                    /\ r \notin t.del.pantry
                 \/ r \in t.ins.pantry
    BY DEF Apply
  <1>2. \A x, r : r \in Apply(s, x).pantry <=>
                    (r \in s.pantry /\ r \notin x.del.pantry) \/ r \in x.ins.pantry
    BY DEF Apply
  <1>3. ASSUME NEW x PROVE n \in PantryItems(x) <=> \E r \in x.pantry : r.item = n
    BY DEF PantryItems
  <1>4. \A r \in e.del.pantry \cup e.ins.pantry, u \in t.del.pantry \cup t.ins.pantry :
          r.item # u.item
    BY KeysApart
  <1>5. CASE n \in PantryItems(Apply(s, e)) /\ n \in PantryItems(Apply(s, t))
    BY <1>1, <1>2, <1>3, <1>4, <1>5
  <1>6. CASE n \in PantryItems(Apply(s, t)) /\ <<"pantry", n>> \notin Removed(e)
    <2>1. n \in PantryItems(e.del) => n \in PantryItems(e.ins)
      BY <1>6, KeysRemoved
    <2> QED
      BY <1>1, <1>2, <1>3, <1>4, <1>6, <2>1
  <1>7. CASE n \in PantryItems(Apply(s, e)) /\ <<"pantry", n>> \notin Removed(t)
    <2>1. n \in PantryItems(t.del) => n \in PantryItems(t.ins)
      BY <1>7, KeysRemoved
    <2> QED
      BY <1>1, <1>2, <1>3, <1>4, <1>7, <2>1
  <1> QED
    BY <1>5, <1>6, <1>7

\* What the rows that a change inserts refer to: what it references, or what a
\* stored version of the row does.
LEMMA InsertedRefer ==
  ASSUME NEW s, NEW d, Grounded(s, d)
  PROVE  /\ \A r \in d.ins.sharing : <<"lists", r.list>> \in Referred(d) \/ r \in s.sharing
         /\ \A r \in d.ins.history : <<"lists", r.list>> \in Referred(d) \/ r \in s.history
         /\ \A r \in d.ins.content :
              \/ <<"lists", r.list>> \in Referred(d) /\ <<"pantry", r.from_pantry>> \in Referred(d)
              \/ \E o \in d.del.content \cap s.content :
                   o.list = r.list /\ o.from_pantry = r.from_pantry
         /\ \A r \in d.ins.pantry :
              \/ <<"lists", r.list>> \in Referred(d)
              \/ \E o \in d.del.pantry \cap s.pantry : o.list = r.list
  <1> DEFINE fresh == Unmatched(d.ins, d.del)
  <1>1. References(fresh) \subseteq Referred(d)
    BY DEF Referred
  <1>2. /\ \A r \in fresh.sharing \cup fresh.content \cup fresh.history \cup fresh.pantry :
              <<"lists", r.list>> \in References(fresh)
        /\ \A r \in fresh.content : <<"pantry", r.from_pantry>> \in References(fresh)
    BY DEF References
  <1>3. /\ \A r \in d.ins.sharing : r \in fresh.sharing \/ r \in d.del.sharing
        /\ \A r \in d.ins.history : r \in fresh.history \/ r \in d.del.history
        /\ \A r \in d.ins.content : r \in fresh.content \/ \E o \in d.del.content : o.id = r.id
        /\ \A r \in d.ins.pantry : r \in fresh.pantry \/ \E o \in d.del.pantry : o.item = r.item
    BY DEF Unmatched
  <1> HIDE DEF fresh
  <1> QED
    BY <1>1, <1>2, <1>3 DEF Grounded

\* The references of rows that either change has inserted hold after both.
LEMMA MergedReferences ==
  ASSUME NEW s, NEW e, NEW t, ~ Conflict(e, t), Grounded(s, e), Grounded(s, t),
         ReferencesHold(s), ReferencesHold(Apply(s, e)), ReferencesHold(Apply(s, t))
  PROVE  ReferencesHold(Apply(Apply(s, e), t))
  <1> DEFINE after == Apply(Apply(s, e), t)
             Lasts(n) == \/ n \in ListIds(Apply(s, e)) /\ n \in ListIds(Apply(s, t))
                         \/ n \in ListIds(Apply(s, t)) /\ <<"lists", n>> \notin Removed(e)
                         \/ n \in ListIds(Apply(s, e)) /\ <<"lists", n>> \notin Removed(t)
             Stays(n) == \/ n \in PantryItems(Apply(s, e)) /\ n \in PantryItems(Apply(s, t))
                         \/ n \in PantryItems(Apply(s, t)) /\ <<"pantry", n>> \notin Removed(e)
                         \/ n \in PantryItems(Apply(s, e)) /\ <<"pantry", n>> \notin Removed(t)
  <1>1. /\ \A n : Lasts(n) => n \in ListIds(after)
        /\ \A n : Stays(n) => n \in PantryItems(after)
    BY ListsKept, PantryKept
  <1>2. Referred(e) \cap Removed(t) = {} /\ Referred(t) \cap Removed(e) = {}
    BY DEF Conflict
  <1>3. ASSUME NEW r \in after.sharing PROVE Lasts(r.list) /\ r.shared \in Accounts
    <2>1. CASE r \in Apply(s, e).sharing /\ r \in Apply(s, t).sharing
      BY <2>1 DEF ReferencesHold
    <2>2. CASE r \in e.ins.sharing
      <3>1. r \in Apply(s, e).sharing
        BY <2>2 DEF Apply
      <3>2. r \in s.sharing => r \in Apply(s, t).sharing
        BY <2>2, KeysApart DEF Apply
      <3> QED
        BY <1>2, <2>2, <3>1, <3>2, InsertedRefer DEF ReferencesHold
    <2>3. CASE r \in t.ins.sharing
      <3>1. r \in Apply(s, t).sharing
        BY <2>3 DEF Apply
      <3>2. r \in s.sharing => r \in Apply(s, e).sharing
        BY <2>3, KeysApart DEF Apply
      <3> QED
        BY <1>2, <2>3, <3>1, <3>2, InsertedRefer DEF ReferencesHold
    <2> QED
      BY <2>1, <2>2, <2>3 DEF Apply
  <1>4. ASSUME NEW r \in after.history PROVE Lasts(r.list)
    <2>1. CASE r \in Apply(s, e).history /\ r \in Apply(s, t).history
      BY <2>1 DEF ReferencesHold
    <2>2. CASE r \in e.ins.history
      <3>1. r \in Apply(s, e).history
        BY <2>2 DEF Apply
      <3>2. r \in s.history => r \in Apply(s, t).history
        BY <2>2, KeysApart DEF Apply
      <3> QED
        BY <1>2, <2>2, <3>1, <3>2, InsertedRefer DEF ReferencesHold
    <2>3. CASE r \in t.ins.history
      <3>1. r \in Apply(s, t).history
        BY <2>3 DEF Apply
      <3>2. r \in s.history => r \in Apply(s, e).history
        BY <2>3, KeysApart DEF Apply
      <3> QED
        BY <1>2, <2>3, <3>1, <3>2, InsertedRefer DEF ReferencesHold
    <2> QED
      BY <2>1, <2>2, <2>3 DEF Apply
  <1>5. ASSUME NEW r \in after.content
        PROVE  Lasts(r.list) /\ (r.from_pantry = NoItem \/ Stays(r.from_pantry))
    <2>1. CASE r \in Apply(s, e).content /\ r \in Apply(s, t).content
      BY <2>1 DEF ReferencesHold
    <2>2. CASE r \in e.ins.content
      <3>1. r \in Apply(s, e).content
        BY <2>2 DEF Apply
      <3>2. \A o \in e.del.content \cap s.content : o \in Apply(s, t).content
        BY KeysApart DEF Apply
      <3> QED
        BY <1>2, <2>2, <3>1, <3>2, InsertedRefer DEF ReferencesHold
    <2>3. CASE r \in t.ins.content
      <3>1. r \in Apply(s, t).content
        BY <2>3 DEF Apply
      <3>2. \A o \in t.del.content \cap s.content : o \in Apply(s, e).content
        BY KeysApart DEF Apply
      <3> QED
        BY <1>2, <2>3, <3>1, <3>2, InsertedRefer DEF ReferencesHold
    <2> QED
      BY <2>1, <2>2, <2>3 DEF Apply
  <1>6. ASSUME NEW r \in after.pantry PROVE Lasts(r.list)
    <2>1. CASE r \in Apply(s, e).pantry /\ r \in Apply(s, t).pantry
      BY <2>1 DEF ReferencesHold
    <2>2. CASE r \in e.ins.pantry
      <3>1. r \in Apply(s, e).pantry
        BY <2>2 DEF Apply
      <3>2. \A o \in e.del.pantry \cap s.pantry : o \in Apply(s, t).pantry
        BY KeysApart DEF Apply
      <3> QED
        BY <1>2, <2>2, <3>1, <3>2, InsertedRefer DEF ReferencesHold
    <2>3. CASE r \in t.ins.pantry
      <3>1. r \in Apply(s, t).pantry
        BY <2>3 DEF Apply
      <3>2. \A o \in t.del.pantry \cap s.pantry : o \in Apply(s, e).pantry
        BY KeysApart DEF Apply
      <3> QED
        BY <1>2, <2>3, <3>1, <3>2, InsertedRefer DEF ReferencesHold
    <2> QED
      BY <2>1, <2>2, <2>3 DEF Apply
  <1> HIDE DEF after, Lasts, Stays
  <1>7. ReferencesHold(after)
    BY <1>1, <1>3, <1>4, <1>5, <1>6 DEF ReferencesHold
  <1> QED
    BY <1>7 DEF after

\* The versions that a transaction replaces stay in the store.
LEMMA StaysGrounded ==
  ASSUME NEW s, NEW e, NEW t, ~ Conflict(e, t), Grounded(s, t)
  PROVE  Grounded(Apply(s, e), t)
  <1>1. /\ \A r \in t.del.sharing \cap s.sharing : r \in Apply(s, e).sharing
        /\ \A r \in t.del.history \cap s.history : r \in Apply(s, e).history
        /\ \A r \in t.del.content \cap s.content : r \in Apply(s, e).content
        /\ \A r \in t.del.pantry \cap s.pantry : r \in Apply(s, e).pantry
    BY KeysApart DEF Apply
  <1> QED
    BY <1>1 DEF Grounded

---------------------------------------------------------------------------
(***************************************************************************)
(* What a step may do with its transaction, and with the store.            *)
(***************************************************************************)
\* A statement of the transaction of p with change d.
Extends(p, d) ==
  /\ UNCHANGED db /\ tx'[p] = Then(tx[p], d)
  /\ ~ Blocked(p, d)
  /\ ReferencesHold(Apply(View(p), d))
  /\ Covered(tx[p], d) /\ Grounded(db, Then(tx[p], d))

\* The change d is stored.
Stores(p, d) ==
  /\ db' = Apply(db, d) /\ tx'[p] = NoChange
  /\ ~ Blocked(p, d)
  /\ ReferencesHold(Apply(db, d))
  /\ Grounded(db, d)

Locking(p) ==
  /\ \A q \in Workers \ {p} : tx'[q] = tx[q] /\ pc'[q] = pc[q] /\ req'[q] = req[q]
  /\ Inserted(tx'[p], req'[p].op, pc'[p])
  /\ \/ UNCHANGED db /\ tx'[p] \in {tx[p], NoChange}
     \/ \E d : Extends(p, d) \/ Stores(p, d)

\* The empty change is grounded, and inserts nothing.
LEMMA NothingGrounded ==
  /\ \A s : Grounded(s, NoChange)
  /\ \A op, label : Inserted(NoChange, op, label)
  /\ \A s : ReferencesHold(s) => ReferencesHold(Apply(s, NoChange))
  <1>1. \A s : Grounded(s, NoChange)
    BY DEF Grounded, NoChange, Empty
  <1>2. \A op, label : Inserted(NoChange, op, label)
    BY DEF Inserted, NoChange, Empty
  <1>3. ASSUME NEW s, ReferencesHold(s) PROVE ReferencesHold(Apply(s, NoChange))
    <2>1. /\ ListIds(Apply(s, NoChange)) = ListIds(s)
          /\ PantryItems(Apply(s, NoChange)) = PantryItems(s)
      BY DEF ListIds, PantryItems, Apply, NoChange, Empty
    <2>2. /\ \A r : r \in Apply(s, NoChange).sharing <=> r \in s.sharing
          /\ \A r : r \in Apply(s, NoChange).content <=> r \in s.content
          /\ \A r : r \in Apply(s, NoChange).history <=> r \in s.history
          /\ \A r : r \in Apply(s, NoChange).pantry <=> r \in s.pantry
      BY DEF Apply, NoChange, Empty
    <2> QED
      BY <1>3, <2>1, <2>2 DEF ReferencesHold
  <1> QED
    BY <1>1, <1>2, <1>3

\* Such a step keeps the invariant.
LEMMA LockingKeeps ==
  ASSUME LockInv, NEW p \in Workers, Locking(p)
  PROVE  LockInv'
  <1>1. \A q \in Workers \ {p} : tx'[q] = tx[q] /\ pc'[q] = pc[q] /\ req'[q] = req[q]
    BY DEF Locking
  <1>2. \A q \in Workers : Inserted(tx'[q], req'[q].op, pc'[q])
    BY <1>1 DEF Locking, LockInv
  <1>3. CASE UNCHANGED db /\ tx'[p] = tx[p]
    <2>1. \A q \in Workers : tx'[q] = tx[q]
      BY <1>1, <1>3
    <2> QED
      BY <1>2, <1>3, <2>1 DEF LockInv, View
  <1>4. CASE UNCHANGED db /\ tx'[p] = NoChange
    <2>1. ReferencesHold(Apply(db', tx'[p])) /\ Grounded(db', tx'[p])
      BY <1>4, NothingGrounded DEF LockInv
    <2>2. \A q \in Workers \ {p} : ReferencesHold(Apply(db', tx'[q])) /\ Grounded(db', tx'[q])
      BY <1>1, <1>4 DEF LockInv, View
    <2>3. \A q \in Workers : \A u \in Workers \ {q} : ~ Conflict(tx'[q], tx'[u])
      BY <1>1, <1>4, NothingConflicts, ConflictSymmetric DEF LockInv
    <2> QED
      BY <1>2, <1>4, <2>1, <2>2, <2>3 DEF LockInv, View
  <1>5. ASSUME NEW d, Extends(p, d) PROVE LockInv'
    <2>1. /\ db' = db /\ tx'[p] = Then(tx[p], d) /\ Covered(tx[p], d)
          /\ Grounded(db, tx'[p])
      BY <1>5 DEF Extends
    <2>2. ReferencesHold(Apply(db', tx'[p]))
      BY <1>5, <2>1, ThenApplied DEF Extends, View
    <2>3. \A q \in Workers \ {p} : ReferencesHold(Apply(db', tx'[q])) /\ Grounded(db', tx'[q])
      BY <1>1, <2>1 DEF LockInv, View
    <2>4. ASSUME NEW q \in Workers \ {p} PROVE ~ Conflict(tx'[p], tx'[q])
      <3>1. ~ Conflict(tx[p], tx[q]) /\ ~ Conflict(d, tx[q])
        BY <1>5 DEF LockInv, Extends, Blocked
      <3> QED
        BY <1>1, <2>1, <3>1, ThenApart
    <2>5. \A q \in Workers : \A u \in Workers \ {q} : ~ Conflict(tx'[q], tx'[u])
      BY <1>1, <2>4, ConflictSymmetric DEF LockInv
    <2> QED
      BY <1>2, <2>1, <2>2, <2>3, <2>5 DEF LockInv, View
  <1>6. ASSUME NEW d, Stores(p, d) PROVE LockInv'
    <2>1. db' = Apply(db, d) /\ tx'[p] = NoChange /\ ReferencesHold(db')
      BY <1>6 DEF Stores
    <2>2. ReferencesHold(Apply(db', tx'[p])) /\ Grounded(db', tx'[p])
      BY <2>1, NothingGrounded
    <2>3. ASSUME NEW q \in Workers \ {p}
          PROVE  ReferencesHold(Apply(db', tx'[q])) /\ Grounded(db', tx'[q])
      <3>1. ~ Conflict(d, tx[q]) /\ Grounded(db, d) /\ ReferencesHold(Apply(db, d))
        BY <1>6 DEF Stores, Blocked
      <3>2. Grounded(db, tx[q]) /\ ReferencesHold(Apply(db, tx[q])) /\ ReferencesHold(db)
        BY DEF LockInv, View
      <3> QED
        BY <1>1, <2>1, <3>1, <3>2, MergedReferences, StaysGrounded
    <2>4. \A q \in Workers : \A u \in Workers \ {q} : ~ Conflict(tx'[q], tx'[u])
      BY <1>1, <2>1, NothingConflicts, ConflictSymmetric DEF LockInv
    <2> QED
      BY <1>2, <2>1, <2>2, <2>3, <2>4 DEF LockInv, View
  <1> QED
    BY <1>3, <1>4, <1>5, <1>6 DEF Locking

---------------------------------------------------------------------------
(***************************************************************************)
(* The steps that handlers are made of.                                    *)
(***************************************************************************)
\* Steps that run no statement that writes.
LEMMA QuietLocking ==
  ASSUME TypeOK, LockInv, NEW p \in Workers, UNCHANGED <<db, req>>,
         NEW label, pc' = [pc EXCEPT ![p] = label],
         \/ UNCHANGED tx /\ pc[p] \notin {"delete_item", "commit"}
         \/ tx' = [tx EXCEPT ![p] = NoChange]
  PROVE  Locking(p)
  <1>1. pc'[p] = label /\ tx'[p] \in {tx[p], NoChange}
        /\ \A q \in Workers \ {p} : tx'[q] = tx[q] /\ pc'[q] = pc[q] /\ req'[q] = req[q]
    BY DEF TypeOK
  <1>2. CASE tx'[p] = NoChange
    BY <1>1, <1>2, NothingGrounded DEF Locking
  <1>3. CASE UNCHANGED tx /\ pc[p] \notin {"delete_item", "commit"}
    <2>1. Inserted(tx[p], req[p].op, pc[p])
      BY DEF LockInv
    <2>2. Inserted(tx[p], req[p].op, label)
      BY <1>3, <2>1 DEF Inserted
    <2> QED
      BY <1>1, <1>3, <2>2 DEF Locking
  <1> QED
    BY <1>2, <1>3 DEF TypeOK

\* The checks, taking a connection and reading.
LEMMA ReadsLocking ==
  ASSUME TypeOK, LockInv, NEW p \in Workers, NEW label, NEW write, NEW found,
         \/ IsOwner(p, label) \/ CheckList(p, write, label) \/ Begin(p, label)
         \/ Select(p, found, label) /\ pc[p] \notin {"delete_item", "commit"}
         \/ SelectLast(p, found)
  PROVE  Locking(p)
  <1>1. /\ UNCHANGED <<db, req>> /\ \E l : pc' = [pc EXCEPT ![p] = l]
        /\ \/ UNCHANGED tx /\ pc[p] \notin {"delete_item", "commit"}
           \/ tx' = [tx EXCEPT ![p] = NoChange]
    <2>1. CASE IsOwner(p, label) \/ CheckList(p, write, label)
      BY <2>1 DEF IsOwner, CheckList, Goto, Respond
    <2>2. CASE Begin(p, label)
      BY <2>2 DEF Begin, Goto
    <2>3. CASE Select(p, found, label) /\ pc[p] \notin {"delete_item", "commit"}
      BY <2>3 DEF Select, Goto
    <2>4. CASE SelectLast(p, found)
      BY <2>4 DEF SelectLast, Respond
    <2> QED
      BY <2>1, <2>2, <2>3, <2>4
  <1> QED
    BY <1>1, QuietLocking

\* A statement of a transaction.
LEMMA ExecuteLocking ==
  ASSUME TypeOK, LockInv, NEW p \in Workers, NEW d, NEW inRange, NEW label,
         Execute(p, d, inRange, label), Covered(tx[p], d), Grounded(db, Then(tx[p], d)),
         Inserted(Then(tx[p], d), req[p].op, label)
  PROVE  Locking(p)
  <1>1. UNCHANGED <<db, req>> /\ ~ Blocked(p, d)
    BY DEF Execute
  <1>2. CASE inRange /\ ReferencesHold(Apply(View(p), d))
    <2>1. /\ tx'[p] = Then(tx[p], d) /\ pc'[p] = label
          /\ \A q \in Workers \ {p} : tx'[q] = tx[q] /\ pc'[q] = pc[q]
      BY <1>2 DEF Execute, Goto, TypeOK
    <2> QED
      BY <1>1, <1>2, <2>1 DEF Locking, Extends
  <1>3. CASE ~ (inRange /\ ReferencesHold(Apply(View(p), d)))
    <2>1. tx' = [tx EXCEPT ![p] = NoChange] /\ pc' = [pc EXCEPT ![p] = "done"]
      BY <1>3 DEF Execute, Respond
    <2> QED
      BY <1>1, <2>1, QuietLocking
  <1> QED
    BY <1>2, <1>3

\* A statement that only deletes.
LEMMA DeletionLocking ==
  ASSUME TypeOK, LockInv, NEW p \in Workers, NEW d, NEW inRange, NEW label,
         Execute(p, d, inRange, label), d.ins = Empty,
         req[p].op \notin {"add_list", "update_item"},
         req[p].op = "delete_item" => d.del.pantry = {} /\ label = "commit"
  PROVE  Locking(p)
  <1>1. Inserted(tx[p], req[p].op, pc[p]) /\ Grounded(db, tx[p])
    BY DEF LockInv
  <1>2. /\ Then(tx[p], d).ins.lists = {} /\ Then(tx[p], d).ins.sharing = {}
        /\ Then(tx[p], d).ins.content = {} /\ Then(tx[p], d).ins.history = {}
        /\ tx[p].ins.content = {}
        /\ Then(tx[p], d).ins.pantry = tx[p].ins.pantry \ d.del.pantry
        /\ Then(tx[p], d).del.pantry = tx[p].del.pantry \cup d.del.pantry
    BY <1>1 DEF Inserted, Then, Apply, Both, Empty
  <1>3. req[p].op # "delete_item" => tx[p].ins.pantry = {}
    BY <1>1 DEF Inserted
  <1>4. Covered(tx[p], d)
    BY <1>2, <1>3 DEF Covered
  <1>5. Grounded(db, Then(tx[p], d))
    BY <1>1, <1>2, <1>3 DEF Grounded
  <1>6. Inserted(Then(tx[p], d), req[p].op, label)
    BY <1>2, <1>3 DEF Inserted
  <1> QED
    BY <1>4, <1>5, <1>6, ExecuteLocking

\* A statement that commits by itself, and a commit.
LEMMA AutocommitLocking ==
  ASSUME TypeOK, LockInv, NEW p \in Workers, NEW d, NEW inRange,
         Autocommit(p, d, inRange), Grounded(db, d)
  PROVE  Locking(p)
  <1>1. /\ UNCHANGED req /\ ~ Blocked(p, d) /\ tx' = [tx EXCEPT ![p] = NoChange]
        /\ pc' = [pc EXCEPT ![p] = "done"]
        /\ \/ UNCHANGED db
           \/ db' = Apply(db, d) /\ ReferencesHold(Apply(db, d))
    <2>1. UNCHANGED req /\ ~ Blocked(p, d)
      BY DEF Autocommit
    <2>2. CASE inRange /\ ReferencesHold(Apply(db, d))
      <3>1. db' = Apply(db, d) /\ Committed(p)
        BY <2>2 DEF Autocommit
      <3> QED
        BY <2>1, <2>2, <3>1 DEF Committed, Respond
    <2>3. CASE ~ (inRange /\ ReferencesHold(Apply(db, d)))
      <3>1. UNCHANGED db /\ Respond(p, "Internal")
        BY <2>3 DEF Autocommit
      <3> QED
        BY <2>1, <3>1 DEF Respond
    <2> QED
      BY <2>2, <2>3
  <1>2. CASE UNCHANGED db
    BY <1>1, <1>2, QuietLocking
  <1>3. CASE db' = Apply(db, d) /\ ReferencesHold(Apply(db, d))
    <2>1. /\ tx'[p] = NoChange
          /\ \A q \in Workers \ {p} : tx'[q] = tx[q] /\ pc'[q] = pc[q] /\ req'[q] = req[q]
      BY <1>1 DEF TypeOK
    <2> QED
      BY <1>1, <1>3, <2>1, NothingGrounded DEF Locking, Stores
  <1> QED
    BY <1>1, <1>2, <1>3

LEMMA CommitLocking ==
  ASSUME TypeOK, LockInv, NEW p \in Workers, Commit(p)
  PROVE  Locking(p)
  <1>1. /\ UNCHANGED req /\ db' = Apply(db, tx[p]) /\ tx' = [tx EXCEPT ![p] = NoChange]
        /\ pc' = [pc EXCEPT ![p] = "done"]
    BY DEF Commit, Committed, Respond, View
  <1>2. /\ tx'[p] = NoChange
        /\ \A q \in Workers \ {p} : tx'[q] = tx[q] /\ pc'[q] = pc[q] /\ req'[q] = req[q]
    BY <1>1 DEF TypeOK
  <1>3. /\ ~ Blocked(p, tx[p]) /\ Grounded(db, tx[p]) /\ ReferencesHold(Apply(db, tx[p]))
    BY DEF LockInv, Blocked, View
  <1> QED
    BY <1>1, <1>2, <1>3, NothingGrounded DEF Locking, Stores

---------------------------------------------------------------------------
(***************************************************************************)
(* The statements.                                                         *)
(***************************************************************************)
\* Those that only delete.
LEMMA Deletions ==
  ASSUME NEW p \in Workers
  PROVE  /\ DeleteItemRow(p).ins = Empty   /\ DeleteItemRow(p).del.pantry = {}
         /\ DeleteSharing(p).ins = Empty   /\ DeleteContents(p).ins = Empty
         /\ DeleteHistory(p).ins = Empty   /\ DeleteListRow(p).ins = Empty
         /\ DeleteShare(p).ins = Empty     /\ DeleteHistoryOf(p).ins = Empty
         /\ DeleteHistoryOthers(p).ins = Empty
         /\ DeleteRefills(p).ins = Empty   /\ DeletePantryRow(p).ins = Empty
  <1>1. ASSUME NEW D
        PROVE  /\ OnLists(D, {}).ins = Empty   /\ OnSharing(D, {}).ins = Empty
               /\ OnContent(D, {}).ins = Empty /\ OnHistory(D, {}).ins = Empty
               /\ OnPantry(D, {}).ins = Empty  /\ OnContent(D, {}).del.pantry = {}
    BY DEF OnLists, OnSharing, OnContent, OnHistory, OnPantry, Empty
  <1> QED
    BY <1>1 DEF DeleteItemRow, DeleteSharing, DeleteContents, DeleteHistory, DeleteListRow,
       DeleteShare, DeleteHistoryOf, DeleteHistoryOthers, DeleteRefills, DeletePantryRow

\* Those that the pool commits: they replace what is stored.
LEMMA PoolGrounded ==
  ASSUME TypeOK, NEW p \in Workers
  PROVE  /\ Grounded(db, InsertList(p)) /\ Grounded(db, InsertSharing(p))
         /\ Grounded(db, InsertPantry(p)) /\ Grounded(db, UpdatePantry(p))
         /\ Grounded(db, InsertRefill(p))
         /\ Grounded(db, SetPub(p, TRUE)) /\ Grounded(db, SetPub(p, FALSE))
  <1>1. ASSUME NEW D, NEW I PROVE Grounded(db, OnLists(D, I))
    BY DEF Grounded, OnLists, Empty
  <1>2. ASSUME NEW D, NEW I, D \subseteq db.sharing PROVE Grounded(db, OnSharing(D, I))
    BY <1>2 DEF Grounded, OnSharing, Empty
  <1>3. ASSUME NEW I PROVE Grounded(db, OnContent({}, I)) /\ Grounded(db, OnPantry({}, I))
    BY DEF Grounded, OnContent, OnPantry, Empty
  <1>4. Grounded(db, UpdatePantry(p))
    <2> DEFINE coalesce(x, old) == IF x = NULL THEN old ELSE x
               updated(r) == [r EXCEPT !.amount = coalesce(req[p].stock, @),
                                       !.target = coalesce(req[p].target, @)]
               rows == PantryRowsAt(db, p)
               new == {updated(r) : r \in rows}
    <2>1. ASSUME NEW r \in rows
          PROVE  r \in db.pantry /\ updated(r).list = r.list /\ updated(r).item = r.item
      BY DEF PantryRowsAt, TypeOK, Store, PantryRow
    <2>2. UpdatePantry(p) = OnPantry(rows, new)
      BY DEF UpdatePantry
    <2> HIDE DEF rows, updated
    <2>3. \A t \in new : \E r \in rows : r \in db.pantry /\ r.item = t.item /\ r.list = t.list
      BY <2>1
    <2> HIDE DEF new
    <2> QED
      BY <2>2, <2>3 DEF Grounded, OnPantry, Empty
  <1>5. Grounded(db, InsertSharing(p))
    BY <1>2 DEF InsertSharing, ShareRows
  <1> QED
    BY <1>1, <1>3, <1>4, <1>5 DEF InsertList, InsertPantry, InsertRefill, SetPub

---------------------------------------------------------------------------
(***************************************************************************)
(* The handlers.                                                           *)
(***************************************************************************)
\* add_list inserts its item, then the name into the history.
LEMMA AddListLocking ==
  ASSUME TypeOK, LockInv, NEW p \in Workers, AddList(p)
  PROVE  Locking(p)
  <1>1. req[p].op = "add_list" /\ Inserted(tx[p], "add_list", pc[p]) /\ Grounded(db, tx[p])
    BY DEF AddList, LockInv
  <1>2. CASE CheckList(p, TRUE, "begin") \/ Begin(p, "insert_content")
    BY <1>2, ReadsLocking
  <1>3. CASE Commit(p)
    BY <1>3, CommitLocking
  <1>4. CASE /\ pc[p] = "insert_content"
             /\ Execute(p, InsertContent(p), TRUE, "upsert_history")
    <2> DEFINE d == InsertContent(p)
    <2>1. /\ d.del = Empty
          /\ d.ins.lists = {} /\ d.ins.sharing = {} /\ d.ins.history = {} /\ d.ins.pantry = {}
      BY DEF InsertContent, OnContent, Empty
    <2> HIDE DEF d
    <2>2. /\ Then(tx[p], d).ins.lists = {} /\ Then(tx[p], d).ins.sharing = {}
          /\ Then(tx[p], d).ins.history = {} /\ Then(tx[p], d).ins.pantry = {}
          /\ Then(tx[p], d).del.content = {} /\ Then(tx[p], d).del.history = {}
      BY <1>1, <1>4, <2>1 DEF Inserted, Then, Apply, Both, Empty
    <2>3. Covered(tx[p], d) /\ Grounded(db, Then(tx[p], d))
            /\ Inserted(Then(tx[p], d), "add_list", "upsert_history")
      BY <2>1, <2>2 DEF Covered, Grounded, Inserted, Empty
    <2> QED
      BY <1>1, <1>4, <2>3, ExecuteLocking DEF d
  <1>5. CASE /\ pc[p] = "upsert_history"
             /\ Execute(p, UpsertHistory(p), TRUE, "commit")
    <2> DEFINE d == UpsertHistory(p)
    <2>1. /\ d.ins.lists = {} /\ d.ins.sharing = {} /\ d.ins.content = {} /\ d.ins.pantry = {}
          /\ d.del.sharing = {} /\ d.del.content = {} /\ d.del.pantry = {}
          /\ d.del.history \subseteq View(p).history
          /\ d.del.history = View(p).history \cap d.ins.history
      BY DEF UpsertHistory, OnHistory, Empty
    <2> HIDE DEF d
    <2>2. View(p).history \subseteq db.history \cup tx[p].ins.history
      BY DEF View, Apply
    <2>3. tx[p].ins.history = {} /\ tx[p].ins.pantry = {} /\ tx[p].ins.sharing = {}
            /\ tx[p].ins.lists = {} /\ tx[p].del.content = {} /\ tx[p].del.history = {}
      BY <1>1, <1>5 DEF Inserted
    <2>4. /\ Then(tx[p], d).ins.lists = {} /\ Then(tx[p], d).ins.sharing = {}
          /\ Then(tx[p], d).ins.pantry = {} /\ Then(tx[p], d).del.content = {}
          /\ Then(tx[p], d).ins.history = d.ins.history
          /\ Then(tx[p], d).del.history = tx[p].del.history \cup d.del.history
      BY <2>1, <2>3 DEF Then, Apply, Both
    <2>5. Inserted(Then(tx[p], d), "add_list", "commit") /\ Covered(tx[p], d)
      BY <2>1, <2>4 DEF Inserted, Covered
    <2>6. Grounded(db, Then(tx[p], d))
      BY <2>1, <2>2, <2>3, <2>4 DEF Grounded
    <2> QED
      BY <1>1, <1>5, <2>5, <2>6, ExecuteLocking DEF d
  <1> QED
    BY <1>2, <1>3, <1>4, <1>5 DEF AddList

\* An UPDATE of update_item replaces the item as it sees it.
LEMMA UpdateItemLocking ==
  ASSUME TypeOK, LockInv, NEW p \in Workers, UpdateItem(p)
  PROVE  Locking(p)
  <1>1. /\ req[p].op = "update_item" /\ Inserted(tx[p], "update_item", pc[p])
        /\ Grounded(db, tx[p])
    BY DEF UpdateItem, LockInv
  <1>2. ASSUME NEW label, CheckList(p, TRUE, label) \/ Begin(p, label)
        PROVE  Locking(p)
    BY <1>2, ReadsLocking
  <1>3. CASE Commit(p)
    BY <1>3, CommitLocking
  <1>4. ASSUME NEW d, NEW label, Execute(p, d, TRUE, label),
               pc[p] \in {"update_name", "update_amount"},
               d.del = [Empty EXCEPT !.content = ItemRows(View(p), p)],
               d.ins.lists = {}, d.ins.sharing = {}, d.ins.history = {}, d.ins.pantry = {},
               \A n \in d.ins.content : \E o \in d.del.content :
                 o.id = n.id /\ o.list = n.list /\ o.from_pantry = n.from_pantry,
               \A o \in d.del.content : \E n \in d.ins.content : n.id = o.id
        PROVE  Locking(p)
    <2>1. /\ tx[p].ins.pantry = {} /\ tx[p].ins.sharing = {} /\ tx[p].ins.lists = {}
          /\ tx[p].ins.history = {}
          /\ \A r \in tx[p].ins.content : \E o \in tx[p].del.content : o.id = r.id
      BY <1>1 DEF Inserted
    <2>2. /\ Then(tx[p], d).ins.lists = {} /\ Then(tx[p], d).ins.sharing = {}
          /\ Then(tx[p], d).ins.pantry = {} /\ Then(tx[p], d).ins.history = {}
          /\ Then(tx[p], d).ins.content =
               (tx[p].ins.content \ d.del.content) \cup d.ins.content
          /\ Then(tx[p], d).del.content = tx[p].del.content \cup d.del.content
      BY <1>4, <2>1 DEF Then, Apply, Both
    <2>3. d.del.content \subseteq db.content \cup tx[p].ins.content /\ d.del.pantry = {}
      BY <1>4 DEF ItemRows, View, Apply, Empty
    <2>4. \A r \in tx[p].ins.content :
            \E o \in tx[p].del.content \cap db.content :
              o.id = r.id /\ o.list = r.list /\ o.from_pantry = r.from_pantry
      BY <1>1, <2>1 DEF Grounded
    <2>5. \A r \in d.ins.content :
            \E o \in Then(tx[p], d).del.content \cap db.content :
              o.id = r.id /\ o.list = r.list /\ o.from_pantry = r.from_pantry
      <3> TAKE r \in d.ins.content
      <3>1. PICK o \in d.del.content :
              o.id = r.id /\ o.list = r.list /\ o.from_pantry = r.from_pantry
        BY <1>4
      <3>2. CASE o \in db.content
        BY <2>2, <3>1, <3>2
      <3>3. CASE o \in tx[p].ins.content
        BY <2>2, <2>4, <3>1, <3>3
      <3> QED
        BY <2>3, <3>2, <3>3
    <2>6. Covered(tx[p], d)
      BY <1>4, <2>1 DEF Covered
    <2>7. Grounded(db, Then(tx[p], d))
      BY <2>2, <2>4, <2>5 DEF Grounded
    <2>8. Inserted(Then(tx[p], d), "update_item", label)
      BY <2>2, <2>4, <2>5 DEF Inserted
    <2> QED
      BY <1>1, <1>4, <2>6, <2>7, <2>8, ExecuteLocking
  <1>5. ItemRows(View(p), p) \subseteq ContentRow
    <2>1. View(p).content \subseteq ContentRow
      BY DEF View, Apply, TypeOK, Store, Change
    <2> QED
      BY <2>1 DEF ItemRows
  <1>6. ASSUME NEW label, pc[p] = "update_name", Execute(p, UpdateName(p), TRUE, label)
        PROVE  Locking(p)
    <2> DEFINE rows == ItemRows(View(p), p)
               updated(c) == [c EXCEPT !.name = req[p].name]
               new == {updated(c) : c \in rows}
    <2>1. ASSUME NEW c \in rows
          PROVE  /\ updated(c).id = c.id /\ updated(c).list = c.list
                 /\ updated(c).from_pantry = c.from_pantry
      BY <1>5 DEF ContentRow
    <2>2. UpdateName(p) = OnContent(rows, new)
      BY DEF UpdateName
    <2> HIDE DEF rows, updated
    <2>3. /\ \A n \in new : \E o \in rows :
               o.id = n.id /\ o.list = n.list /\ o.from_pantry = n.from_pantry
          /\ \A o \in rows : \E n \in new : n.id = o.id
      BY <2>1
    <2> HIDE DEF new
    <2>4. /\ UpdateName(p).del = [Empty EXCEPT !.content = rows]
          /\ UpdateName(p).del.content = rows /\ UpdateName(p).ins.content = new
          /\ UpdateName(p).ins.lists = {} /\ UpdateName(p).ins.sharing = {}
          /\ UpdateName(p).ins.history = {} /\ UpdateName(p).ins.pantry = {}
      BY <2>2 DEF OnContent, Empty
    <2>5. /\ \A n \in UpdateName(p).ins.content : \E o \in UpdateName(p).del.content :
               o.id = n.id /\ o.list = n.list /\ o.from_pantry = n.from_pantry
          /\ \A o \in UpdateName(p).del.content : \E n \in UpdateName(p).ins.content : n.id = o.id
      BY <2>3, <2>4
    <2>6. /\ UpdateName(p).del = [Empty EXCEPT !.content = ItemRows(View(p), p)]
          /\ pc[p] \in {"update_name", "update_amount"}
      BY <1>6, <2>4 DEF rows
    <2> QED
      BY <1>4, <1>6, <2>4, <2>5, <2>6
  <1>7. ASSUME NEW label, pc[p] = "update_amount", Execute(p, UpdateAmount(p), TRUE, label)
        PROVE  Locking(p)
    <2> DEFINE rows == ItemRows(View(p), p)
               updated(c) == [c EXCEPT !.amount = req[p].amount]
               new == {updated(c) : c \in rows}
    <2>1. ASSUME NEW c \in rows
          PROVE  /\ updated(c).id = c.id /\ updated(c).list = c.list
                 /\ updated(c).from_pantry = c.from_pantry
      BY <1>5 DEF ContentRow
    <2>2. UpdateAmount(p) = OnContent(rows, new)
      BY DEF UpdateAmount
    <2> HIDE DEF rows, updated
    <2>3. /\ \A n \in new : \E o \in rows :
               o.id = n.id /\ o.list = n.list /\ o.from_pantry = n.from_pantry
          /\ \A o \in rows : \E n \in new : n.id = o.id
      BY <2>1
    <2> HIDE DEF new
    <2>4. /\ UpdateAmount(p).del = [Empty EXCEPT !.content = rows]
          /\ UpdateAmount(p).del.content = rows /\ UpdateAmount(p).ins.content = new
          /\ UpdateAmount(p).ins.lists = {} /\ UpdateAmount(p).ins.sharing = {}
          /\ UpdateAmount(p).ins.history = {} /\ UpdateAmount(p).ins.pantry = {}
      BY <2>2 DEF OnContent, Empty
    <2>5. /\ \A n \in UpdateAmount(p).ins.content : \E o \in UpdateAmount(p).del.content :
               o.id = n.id /\ o.list = n.list /\ o.from_pantry = n.from_pantry
          /\ \A o \in UpdateAmount(p).del.content : \E n \in UpdateAmount(p).ins.content : n.id = o.id
      BY <2>3, <2>4
    <2>6. /\ UpdateAmount(p).del = [Empty EXCEPT !.content = ItemRows(View(p), p)]
          /\ pc[p] \in {"update_name", "update_amount"}
      BY <1>7, <2>4 DEF rows
    <2> QED
      BY <1>4, <1>7, <2>4, <2>5, <2>6
  <1> QED
    BY <1>2, <1>3, <1>6, <1>7 DEF UpdateItem

\* delete_item replaces the pantry row of the item, then deletes the item.
LEMMA DeleteItemLocking ==
  ASSUME TypeOK, LockInv, NEW p \in Workers, DeleteItem(p)
  PROVE  Locking(p)
  <1>1. /\ req[p].op = "delete_item" /\ Inserted(tx[p], "delete_item", pc[p])
        /\ Grounded(db, tx[p])
    BY DEF DeleteItem, LockInv
  <1>2. CASE CheckList(p, TRUE, "begin") \/ Begin(p, "read_item")
    BY <1>2, ReadsLocking
  <1>3. CASE /\ pc[p] = "read_item"
             /\ Select(p, [Empty EXCEPT !.content = ItemRows(db, p)], "credit_pantry")
    BY <1>3, ReadsLocking
  <1>4. CASE Commit(p)
    BY <1>4, CommitLocking
  <1>5. CASE Execute(p, DeleteItemRow(p), TRUE, "commit")
    BY <1>1, <1>5, DeletionLocking, Deletions
  <1>6. CASE /\ pc[p] = "credit_pantry"
             /\ Execute(p, CreditPantry(p), CreditInRange(p), "delete_item")
    <2> DEFINE d == CreditPantry(p)
               rows == CreditedRows(p)
               new == {Credit(p, r) : r \in rows}
    <2>1. /\ tx[p].ins.pantry = {} /\ tx[p].ins.sharing = {} /\ tx[p].ins.lists = {}
          /\ tx[p].ins.history = {} /\ tx[p].ins.content = {}
      BY <1>1, <1>6 DEF Inserted
    <2>2. rows \subseteq db.pantry
      BY <2>1 DEF CreditedRows, View, Apply
    <2>3. ASSUME NEW r \in rows PROVE Credit(p, r).item = r.item /\ Credit(p, r).list = r.list
      BY <2>2 DEF Credit, TypeOK, Store, PantryRow
    <2>4. d = OnPantry(rows, new)
      BY DEF CreditPantry
    <2> HIDE DEF d, rows
    <2>5. \A n \in new : \E o \in rows : o.item = n.item /\ o.list = n.list
      BY <2>3
    <2> HIDE DEF new
    <2>6. /\ d.del.pantry = rows /\ d.ins.pantry = new /\ d.del.content = {}
          /\ d.ins.lists = {} /\ d.ins.sharing = {} /\ d.ins.content = {}
          /\ d.ins.history = {}
      BY <2>4 DEF OnPantry, Empty
    <2>7. /\ Then(tx[p], d).ins.lists = {} /\ Then(tx[p], d).ins.sharing = {}
          /\ Then(tx[p], d).ins.content = {} /\ Then(tx[p], d).ins.history = {}
          /\ Then(tx[p], d).ins.pantry = new
          /\ Then(tx[p], d).del.pantry = tx[p].del.pantry \cup rows
      BY <2>1, <2>6 DEF Then, Apply, Both
    <2>8. Covered(tx[p], d) /\ Inserted(Then(tx[p], d), "delete_item", "delete_item")
      BY <2>1, <2>7 DEF Covered, Inserted
    <2>9. Grounded(db, Then(tx[p], d))
      BY <2>2, <2>5, <2>7 DEF Grounded
    <2> QED
      BY <1>1, <1>6, <2>8, <2>9, ExecuteLocking DEF d
  <1> QED
    BY <1>2, <1>3, <1>4, <1>5, <1>6 DEF DeleteItem

\* The other handlers write by one statement of the pool, or only delete.
LEMMA PoolHandlersLocking ==
  ASSUME TypeOK, LockInv, NEW p \in Workers,
         \/ CreateList(p) \/ SetPublic(p) \/ RemovePublic(p) \/ ShareList(p)
         \/ AddToPantry(p) \/ SetPantryItem(p) \/ RefillPantry(p)
  PROVE  Locking(p)
  <1>1. CASE CreateList(p)
    <2>1. CASE At(p, "create_list", "count_names")
      <3>1. /\ UNCHANGED <<db, req>> /\ \E l : pc' = [pc EXCEPT ![p] = l]
            /\ \/ UNCHANGED tx /\ pc[p] \notin {"delete_item", "commit"}
               \/ tx' = [tx EXCEPT ![p] = NoChange]
        BY <1>1, <2>1 DEF CreateList, At, Goto, Respond
      <3> QED
        BY <3>1, QuietLocking
    <2>2. CASE Autocommit(p, InsertList(p), TRUE)
      BY <2>2, AutocommitLocking, PoolGrounded
    <2> QED
      BY <1>1, <2>1, <2>2 DEF CreateList
  <1>2. CASE SetPublic(p)
    BY <1>2, ReadsLocking, AutocommitLocking, PoolGrounded DEF SetPublic
  <1>3. CASE RemovePublic(p)
    BY <1>3, ReadsLocking, AutocommitLocking, PoolGrounded DEF RemovePublic
  <1>4. CASE ShareList(p)
    BY <1>4, ReadsLocking, AutocommitLocking, PoolGrounded DEF ShareList
  <1>5. CASE AddToPantry(p)
    BY <1>5, ReadsLocking, AutocommitLocking, PoolGrounded DEF AddToPantry
  <1>6. CASE SetPantryItem(p)
    BY <1>6, ReadsLocking, AutocommitLocking, PoolGrounded DEF SetPantryItem
  <1>7. CASE RefillPantry(p)
    BY <1>7, ReadsLocking, AutocommitLocking, PoolGrounded DEF RefillPantry
  <1> QED
    BY <1>1, <1>2, <1>3, <1>4, <1>5, <1>6, <1>7

LEMMA DeletionHandlersLocking ==
  ASSUME TypeOK, LockInv, NEW p \in Workers,
         DeleteList(p) \/ Unshare(p) \/ DeleteShares(p) \/ DeletePantryItem(p)
  PROVE  Locking(p)
  <1>1. CASE \E label : IsOwner(p, label) \/ CheckList(p, TRUE, label) \/ Begin(p, label)
    BY <1>1, ReadsLocking
  <1>2. CASE Commit(p)
    BY <1>2, CommitLocking
  <1>3. ASSUME NEW d, NEW label, d.ins = Empty, Execute(p, d, TRUE, label) PROVE Locking(p)
    <2>1. req[p].op \notin {"add_list", "update_item", "delete_item"}
      BY DEF DeleteList, Unshare, DeleteShares, DeletePantryItem
    <2> QED
      BY <1>3, <2>1, DeletionLocking
  <1>4. ASSUME DeleteList(p) PROVE Locking(p)
    BY <1>1, <1>2, <1>3, <1>4, Deletions DEF DeleteList
  <1>5. ASSUME Unshare(p) PROVE Locking(p)
    BY <1>1, <1>2, <1>3, <1>5, Deletions DEF Unshare
  <1>6. ASSUME DeleteShares(p) PROVE Locking(p)
    BY <1>1, <1>2, <1>3, <1>6, Deletions DEF DeleteShares
  <1>7. ASSUME DeletePantryItem(p) PROVE Locking(p)
    BY <1>1, <1>2, <1>3, <1>7, Deletions DEF DeletePantryItem
  <1> QED
    BY <1>4, <1>5, <1>6, <1>7

\* And the rest only read.
LEMMA ReadingHandlersLocking ==
  ASSUME TypeOK, LockInv, NEW p \in Workers,
         \/ ReadList(p) \/ GetPublicList(p) \/ GetShares(p) \/ GetPantry(p)
         \/ ListLists(p) \/ HistorySearch(p)
  PROVE  Locking(p)
  <1>1. CASE ReadList(p) \/ GetShares(p) \/ GetPantry(p)
    BY <1>1, ReadsLocking DEF ReadList, GetShares, GetPantry
  <1>2. CASE GetPublicList(p)
    <2>1. CASE pc[p] = "select_pub"
      <3>1. /\ UNCHANGED <<db, req>> /\ \E l : pc' = [pc EXCEPT ![p] = l]
            /\ \/ UNCHANGED tx /\ pc[p] \notin {"delete_item", "commit"}
               \/ tx' = [tx EXCEPT ![p] = NoChange]
        BY <1>2, <2>1 DEF GetPublicList, Goto, Respond
      <3> QED
        BY <3>1, QuietLocking
    <2>2. CASE pc[p] = "select_public_content"
      BY <1>2, <2>2, ReadsLocking DEF GetPublicList
    <2> QED
      BY <1>2, <2>1, <2>2 DEF GetPublicList
  <1>3. CASE ListLists(p)
    BY <1>3, ReadsLocking DEF ListLists
  <1>4. CASE HistorySearch(p)
    BY <1>4, ReadsLocking DEF HistorySearch
  <1> QED
    BY <1>1, <1>2, <1>3, <1>4

\* Requests that arrive or leave, and failures.
LEMMA OthersLocking ==
  ASSUME TypeOK, AuthorityInv, LockInv, NEW p \in Workers,
         Arrive(p) \/ Deliver(p) \/ Cancel(p) \/ Deadlock(p) \/ Fail(p)
  PROVE  Locking(p)
  <1>1. CASE Deadlock(p) \/ Fail(p)
    <2>1. /\ UNCHANGED <<db, req>> /\ \E l : pc' = [pc EXCEPT ![p] = l]
          /\ \/ UNCHANGED tx /\ pc[p] \notin {"delete_item", "commit"}
             \/ tx' = [tx EXCEPT ![p] = NoChange]
      BY <1>1 DEF Deadlock, Fail, Goto, Respond
    <2> QED
      BY <2>1, QuietLocking
  <1>2. CASE Arrive(p) \/ Leave(p)
    <2>1. /\ UNCHANGED db /\ tx'[p] = NoChange
          /\ \A q \in Workers \ {p} : tx'[q] = tx[q] /\ pc'[q] = pc[q] /\ req'[q] = req[q]
      BY <1>2 DEF Arrive, Leave, AuthorityInv, OwnList, TypeOK
    <2> QED
      BY <2>1, NothingGrounded DEF Locking
  <1> QED
    BY <1>1, <1>2 DEF Deliver, Cancel

---------------------------------------------------------------------------
(***************************************************************************)
(* The invariant.                                                          *)
(***************************************************************************)
\* It holds at the start: the references of the store hold.
LEMMA InitLocks == Init => LockInv
  <1> SUFFICES ASSUME Init PROVE LockInv
    OBVIOUS
  <1>1. ReferencesHold(db) /\ \A q \in Workers : tx[q] = NoChange
    BY StoreAssumption DEF Init
  <1> QED
    BY <1>1, NothingGrounded, NothingConflicts DEF LockInv, View

\* Every step of a worker is one of these.
LEMMA NextLocking ==
  ASSUME TypeOK, AuthorityInv, LockInv, NEW p \in Workers,
         Arrive(p) \/ Serve(p) \/ Cancel(p) \/ Fail(p)
  PROVE  Locking(p)
  BY AddListLocking, UpdateItemLocking, DeleteItemLocking, PoolHandlersLocking,
     DeletionHandlersLocking, ReadingHandlersLocking, OthersLocking DEF Serve, Handle

\* Every step keeps it.
LEMMA NextLocks ==
  ASSUME TypeInv, AuthorityInv, LockInv, [Next]_vars
  PROVE  LockInv'
  <1>1. TypeOK
    BY DEF TypeInv
  <1>2. CASE UNCHANGED vars
    BY <1>2 DEF vars, LockInv, View
  <1>3. CASE Next
    <2>1. PICK p \in Workers : Arrive(p) \/ Serve(p) \/ Cancel(p) \/ Fail(p)
      BY <1>3 DEF Next
    <2>2. Locking(p)
      BY <1>1, <2>1, NextLocking
    <2> QED
      BY <2>2, LockingKeeps
  <1> QED
    BY <1>2, <1>3

\* No row outlives what it refers to, and an item that a refill made belongs to
\* the list of its pantry item: ReferencesHold and Homes.
THEOREM NoRowIsOrphaned == Spec => []NoOrphans
  <1> DEFINE Inv == TypeInv /\ AuthorityInv /\ LockInv
  <1>1. Init => Inv
    BY InitTypeInv, InitAuthority, InitLocks
  <1>2. Inv /\ [Next]_vars => Inv'
    BY NextTypeInv, NextAuthority, NextLocks
  <1>3. Inv => NoOrphans
    <2> SUFFICES ASSUME Inv PROVE NoOrphans
      OBVIOUS
    <2>1. ASSUME NEW c \in db.content, c.from_pantry # NoItem
          PROVE  \E r \in db.pantry : r.item = c.from_pantry /\ r.list = c.list
      <3>1. PICK r \in db.pantry : r.item = c.from_pantry
        BY <2>1 DEF LockInv, ReferencesHold, PantryItems
      <3>2. r \in Pantries /\ c \in Contents
        BY DEF Pantries, Contents
      <3> QED
        BY <3>1, <3>2 DEF AuthorityInv, Homes
    <2> QED
      BY <2>1 DEF LockInv, ReferencesHold, NoOrphans
  <1> QED
    BY <1>1, <1>2, <1>3, PTL DEF Spec

---------------------------------------------------------------------------
(***************************************************************************)
(* Who can wait for whom.                                                  *)
(***************************************************************************)
\* The operations that remove a list or a pantry item, and the statements that do.
Removals == {"delete_list", "delete_pantry_item"}
Removers == {"delete_list", "delete_pantry"}

\* The table that the statement at a label writes.
Target(label) ==
  CASE label \in {"insert_content", "update_name", "update_amount", "delete_item",
                  "delete_contents", "delete_refills", "insert_refill"} -> "content"
    [] label \in {"upsert_history", "delete_history", "delete_history_of",
                  "delete_history_others"}                              -> "history"
    [] label \in {"credit_pantry", "insert_pantry", "update_pantry"}    -> "pantry"
    [] label \in {"delete_sharing", "delete_share", "insert_sharing"}   -> "sharing"
    [] OTHER                                                            -> "lists"

\* The tables that a transaction has written before its statement at a label,
\* other than the last, in any other operation.
Held(label) ==
  CASE label \in {"upsert_history", "update_amount"}              -> {"content"}
    [] label = "delete_item"                                      -> {"pantry"}
    [] label \in {"delete_history_of", "delete_history_others"}   -> {"sharing"}
    [] OTHER                                                      -> {}

\* What the open transaction t of request r has done before its statement at
\* label: only update_item writes a table it has written before, and then the
\* same item.
Ordered(t, r, label) ==
  r.op \notin Removals =>
    /\ label \notin Removers
    /\ label # "commit" =>
         /\ Removed(t) = {}
         /\ \A k \in Written(t) : k[1] \in Held(label)
         /\ label = "update_amount" => Written(t) \subseteq {<<"content", r.item>>}

OrderInv == \A p \in Workers : Ordered(tx[p], req[p], pc[p])

\* What the changes of one table write.
LEMMA OneTable ==
  ASSUME NEW D, NEW I
  PROVE  /\ \A k \in Written(OnLists(D, I))   : k[1] = "lists"
         /\ \A k \in Written(OnSharing(D, I)) : k[1] = "sharing"
         /\ \A k \in Written(OnContent(D, I)) : k[1] = "content"
         /\ \A k \in Written(OnHistory(D, I)) : k[1] = "history"
         /\ \A k \in Written(OnPantry(D, I))  : k[1] = "pantry"
         /\ \A k \in Written(OnContent(D, I)) :
              \E r \in D \cup I : k = <<"content", r.id>>
         /\ Removed(OnSharing(D, I)) = {}
         /\ Removed(OnContent(D, I)) = {}
         /\ Removed(OnHistory(D, I)) = {}
         /\ (\A o \in D : \E n \in I : n.id = o.id)     => Removed(OnLists(D, I)) = {}
         /\ (\A o \in D : \E n \in I : n.item = o.item) => Removed(OnPantry(D, I)) = {}
  <1>1. /\ \A k \in Written(OnLists(D, I))   : \E r : k = <<"lists", r>>
        /\ \A k \in Written(OnSharing(D, I)) : \E r, u : k = <<"sharing", r, u>>
        /\ \A k \in Written(OnContent(D, I)) : \E r \in D \cup I : k = <<"content", r.id>>
        /\ \A k \in Written(OnHistory(D, I)) : \E r, u, n : k = <<"history", r, u, n>>
        /\ \A k \in Written(OnPantry(D, I))  : \E r : k = <<"pantry", r>>
    BY DEF Written, Keys, ListKeys, PantryKeys, OnLists, OnSharing, OnContent, OnHistory,
       OnPantry, Empty
  <1>2. /\ Removed(OnSharing(D, I)) = {}
        /\ Removed(OnContent(D, I)) = {}
        /\ Removed(OnHistory(D, I)) = {}
    BY DEF Removed, ListKeys, PantryKeys, OnSharing, OnContent, OnHistory, Empty
  <1>3. (\A o \in D : \E n \in I : n.id = o.id) => Removed(OnLists(D, I)) = {}
    BY DEF Removed, ListKeys, PantryKeys, OnLists, Empty
  <1>4. (\A o \in D : \E n \in I : n.item = o.item) => Removed(OnPantry(D, I)) = {}
    BY DEF Removed, ListKeys, PantryKeys, OnPantry, Empty
  <1> QED
    BY <1>1, <1>2, <1>3, <1>4

\* An UPDATE of update_item writes its item.
LEMMA ItemWritten ==
  ASSUME TypeOK, NEW p \in Workers
  PROVE  /\ Written(UpdateName(p)) \subseteq {<<"content", req[p].item>>}
         /\ Written(UpdateAmount(p)) \subseteq {<<"content", req[p].item>>}
  <1> DEFINE rows == ItemRows(View(p), p)
  <1>1. rows \subseteq ContentRow /\ \A r \in rows : r.id = req[p].item
    <2>1. View(p).content \subseteq ContentRow
      BY DEF View, Apply, TypeOK, Store, Change
    <2> QED
      BY <2>1 DEF ItemRows
  <1> DEFINE named(r) == [r EXCEPT !.name = req[p].name]
             measured(r) == [r EXCEPT !.amount = req[p].amount]
  <1>2. /\ UpdateName(p) = OnContent(rows, {named(r) : r \in rows})
        /\ UpdateAmount(p) = OnContent(rows, {measured(r) : r \in rows})
    BY DEF UpdateName, UpdateAmount
  <1> HIDE DEF rows
  <1>3. \A r \in rows : named(r).id = r.id /\ measured(r).id = r.id
    BY <1>1 DEF ContentRow
  <1> HIDE DEF named, measured
  <1>4. /\ \A r \in rows \cup {named(o) : o \in rows} : r.id = req[p].item
        /\ \A r \in rows \cup {measured(o) : o \in rows} : r.id = req[p].item
    BY <1>1, <1>3
  <1>5. ASSUME NEW new, \A r \in rows \cup new : r.id = req[p].item
        PROVE  Written(OnContent(rows, new)) \subseteq {<<"content", req[p].item>>}
    BY <1>5, OneTable
  <1> QED
    BY <1>2, <1>4, <1>5

\* An empty transaction has done nothing.
LEMMA NothingOrdered ==
  /\ Written(NoChange) = {} /\ Removed(NoChange) = {}
  /\ \A r, label : label \notin Removers => Ordered(NoChange, r, label)
  <1>1. Written(NoChange) = {} /\ Removed(NoChange) = {}
    BY DEF Written, Removed, Keys, ListKeys, PantryKeys, NoChange, Empty
  <1> QED
    BY <1>1 DEF Ordered

\* The change of the next statement stays within its table, and removes nothing
\* that is referred to.
LEMMA PendingOrdered ==
  ASSUME TypeOK, NEW p \in Workers, pc[p] \notin Removers
  PROVE  /\ \A k \in Written(Pending(p)) : k[1] = Target(pc[p])
         /\ Removed(Pending(p)) = {}
         /\ pc[p] = "update_amount" => Written(Pending(p)) \subseteq {<<"content", req[p].item>>}
         /\ pc[p] = "commit" => Pending(p) = NoChange
  <1>1. /\ \A k \in Written(InsertContent(p)) : k[1] = "content"
        /\ \A k \in Written(UpdateName(p)) : k[1] = "content"
        /\ \A k \in Written(UpdateAmount(p)) : k[1] = "content"
        /\ \A k \in Written(DeleteItemRow(p)) : k[1] = "content"
        /\ \A k \in Written(DeleteContents(p)) : k[1] = "content"
        /\ \A k \in Written(DeleteRefills(p)) : k[1] = "content"
        /\ \A k \in Written(InsertRefill(p)) : k[1] = "content"
        /\ Removed(InsertContent(p)) = {} /\ Removed(UpdateName(p)) = {}
        /\ Removed(UpdateAmount(p)) = {}  /\ Removed(DeleteItemRow(p)) = {}
        /\ Removed(DeleteContents(p)) = {} /\ Removed(DeleteRefills(p)) = {}
        /\ Removed(InsertRefill(p)) = {}
    BY OneTable DEF InsertContent, UpdateName, UpdateAmount, DeleteItemRow, DeleteContents,
       DeleteRefills, InsertRefill
  <1>2. /\ \A k \in Written(UpsertHistory(p)) : k[1] = "history"
        /\ \A k \in Written(DeleteHistory(p)) : k[1] = "history"
        /\ \A k \in Written(DeleteHistoryOf(p)) : k[1] = "history"
        /\ \A k \in Written(DeleteHistoryOthers(p)) : k[1] = "history"
        /\ Removed(UpsertHistory(p)) = {}   /\ Removed(DeleteHistory(p)) = {}
        /\ Removed(DeleteHistoryOf(p)) = {} /\ Removed(DeleteHistoryOthers(p)) = {}
    BY OneTable DEF UpsertHistory, DeleteHistory, DeleteHistoryOf, DeleteHistoryOthers
  <1>3. /\ \A k \in Written(DeleteSharing(p)) : k[1] = "sharing"
        /\ \A k \in Written(DeleteShare(p)) : k[1] = "sharing"
        /\ \A k \in Written(InsertSharing(p)) : k[1] = "sharing"
        /\ Removed(DeleteSharing(p)) = {} /\ Removed(DeleteShare(p)) = {}
        /\ Removed(InsertSharing(p)) = {}
    BY OneTable DEF DeleteSharing, DeleteShare, InsertSharing
  <1>4. /\ \A k \in Written(InsertPantry(p)) : k[1] = "pantry"
        /\ Removed(InsertPantry(p)) = {}
    BY OneTable DEF InsertPantry
  <1>5. /\ \A k \in Written(UpdatePantry(p)) : k[1] = "pantry"
        /\ Removed(UpdatePantry(p)) = {}
    <2> DEFINE coalesce(x, old) == IF x = NULL THEN old ELSE x
               updated(r) == [r EXCEPT !.amount = coalesce(req[p].stock, @),
                                       !.target = coalesce(req[p].target, @)]
               rows == PantryRowsAt(db, p)
               new == {updated(r) : r \in rows}
    <2>1. ASSUME NEW r \in rows PROVE updated(r).item = r.item
      BY DEF PantryRowsAt, TypeOK, Store, PantryRow
    <2>2. UpdatePantry(p) = OnPantry(rows, new)
      BY DEF UpdatePantry
    <2> HIDE DEF rows, updated
    <2>3. \A o \in rows : \E n \in new : n.item = o.item
      BY <2>1
    <2> HIDE DEF new
    <2> QED
      BY <2>2, <2>3, OneTable
  <1>6. /\ \A k \in Written(CreditPantry(p)) : k[1] = "pantry"
        /\ Removed(CreditPantry(p)) = {}
    <2>1. View(p).pantry \subseteq PantryRow
      BY DEF View, Apply, TypeOK, Store, Change
    <2>2. ASSUME NEW r \in CreditedRows(p) PROVE Credit(p, r).item = r.item
      BY <2>1 DEF CreditedRows, Credit, PantryRow
    <2> DEFINE rows == CreditedRows(p)
               new == {Credit(p, r) : r \in rows}
    <2>3. CreditPantry(p) = OnPantry(rows, new)
      BY DEF CreditPantry
    <2>4. \A o \in rows : \E n \in new : n.item = o.item
      BY <2>2
    <2> HIDE DEF rows, new
    <2> QED
      BY <2>3, <2>4, OneTable
  <1>7. ASSUME NEW flag
        PROVE  /\ \A k \in Written(SetPub(p, flag)) : k[1] = "lists"
               /\ Removed(SetPub(p, flag)) = {}
    <2> DEFINE rows == {r \in db.lists : r.id = req[p].list}
               updated(r) == [r EXCEPT !.pub = flag]
               new == {updated(r) : r \in rows}
    <2>1. ASSUME NEW r \in rows PROVE updated(r).id = r.id
      BY DEF TypeOK, Store, ListRow
    <2>2. SetPub(p, flag) = OnLists(rows, new)
      BY DEF SetPub
    <2> HIDE DEF rows, updated
    <2>3. \A o \in rows : \E n \in new : n.id = o.id
      BY <2>1
    <2> HIDE DEF new
    <2> QED
      BY <2>2, <2>3, OneTable
  <1>8. Written(UpdateAmount(p)) \subseteq {<<"content", req[p].item>>}
    BY ItemWritten
  <1> DEFINE Fits(d, table) == (\A k \in Written(d) : k[1] = table) /\ Removed(d) = {}
  <1>9. Fits(Pending(p), Target(pc[p]))
    <2>1. Fits(NoChange, Target(pc[p]))
      BY NothingOrdered
    <2>2. /\ Fits(InsertContent(p), "content")  /\ Fits(UpdateName(p), "content")
          /\ Fits(UpdateAmount(p), "content")   /\ Fits(DeleteItemRow(p), "content")
          /\ Fits(DeleteContents(p), "content") /\ Fits(DeleteRefills(p), "content")
          /\ Fits(InsertRefill(p), "content")   /\ Fits(UpsertHistory(p), "history")
          /\ Fits(DeleteHistory(p), "history")  /\ Fits(DeleteHistoryOf(p), "history")
          /\ Fits(DeleteHistoryOthers(p), "history")
          /\ Fits(DeleteSharing(p), "sharing")  /\ Fits(DeleteShare(p), "sharing")
          /\ Fits(InsertSharing(p), "sharing")  /\ Fits(InsertPantry(p), "pantry")
          /\ Fits(UpdatePantry(p), "pantry")    /\ Fits(CreditPantry(p), "pantry")
          /\ Fits(SetPub(p, req[p].op = "set_public"), "lists")
      BY <1>1, <1>2, <1>3, <1>4, <1>5, <1>6, <1>7
    <2> HIDE DEF Fits
    <2> QED
      BY <2>1, <2>2 DEF Pending, Target, Removers
  <1>10. (pc[p] = "update_amount" => Pending(p) = UpdateAmount(p))
         /\ (pc[p] = "commit" => Pending(p) = NoChange)
    BY DEF Pending
  <1> QED
    BY <1>8, <1>9, <1>10

---------------------------------------------------------------------------
(***************************************************************************)
(* Steps keep the order.                                                   *)
(***************************************************************************)
\* Steps that run no statement that writes.
LEMMA QuietOrder ==
  ASSUME TypeOK, OrderInv, NEW p \in Workers, UNCHANGED req,
         NEW label, pc' = [pc EXCEPT ![p] = label],
         req[p].op \notin Removals => label \notin Removers,
         \/ UNCHANGED tx /\ pc[p] # "commit" /\ Held(pc[p]) = {}
         \/ tx' = [tx EXCEPT ![p] = NoChange]
  PROVE  Ordered(tx'[p], req'[p], pc'[p])
  <1>1. pc'[p] = label /\ req'[p] = req[p] /\ Ordered(tx[p], req[p], pc[p])
    BY DEF TypeOK, OrderInv
  <1>2. CASE tx' = [tx EXCEPT ![p] = NoChange]
    <2>1. tx'[p] = NoChange
      BY <1>2 DEF TypeOK
    <2> QED
      BY <1>1, <2>1, NothingOrdered DEF Ordered
  <1>3. CASE UNCHANGED tx /\ pc[p] # "commit" /\ Held(pc[p]) = {}
    BY <1>1, <1>3 DEF Ordered
  <1> QED
    BY <1>2, <1>3

\* The checks, taking a connection and reading.
LEMMA ReadsOrder ==
  ASSUME TypeOK, OrderInv, NEW p \in Workers, NEW label,
         req[p].op \notin Removals => label \notin Removers,
         \/ IsOwner(p, label) \/ Begin(p, label)
         \/ \E write : CheckList(p, write, label)
         \/ pc[p] # "commit" /\ Held(pc[p]) = {} /\ \E found : Select(p, found, label)
  PROVE  Ordered(tx'[p], req'[p], pc'[p])
  <1>1. /\ UNCHANGED req
        /\ \E l : pc' = [pc EXCEPT ![p] = l] /\ l \in {label, "check_shared", "done"}
        /\ \/ UNCHANGED tx /\ pc[p] # "commit" /\ Held(pc[p]) = {}
           \/ tx' = [tx EXCEPT ![p] = NoChange]
    <2>1. CASE IsOwner(p, label) \/ \E write : CheckList(p, write, label)
      BY <2>1 DEF IsOwner, CheckList, Goto, Respond, Held
    <2>2. CASE Begin(p, label)
      BY <2>2 DEF Begin, Goto, Held
    <2>3. CASE /\ pc[p] # "commit" /\ Held(pc[p]) = {}
               /\ \E found : Select(p, found, label)
      BY <2>3 DEF Select, Goto
    <2> QED
      BY <2>1, <2>2, <2>3
  <1>2. "check_shared" \notin Removers /\ "done" \notin Removers
    BY DEF Removers
  <1> QED
    BY <1>1, <1>2, QuietOrder

\* The last statement of a handler.
LEMMA LastOrder ==
  ASSUME TypeOK, OrderInv, NEW p \in Workers,
         \/ Commit(p) \/ \E found : SelectLast(p, found)
         \/ \E d, inRange : Autocommit(p, d, inRange)
  PROVE  Ordered(tx'[p], req'[p], pc'[p])
  <1>1. /\ UNCHANGED req /\ pc' = [pc EXCEPT ![p] = "done"]
        /\ tx' = [tx EXCEPT ![p] = NoChange]
    BY DEF Autocommit, Commit, SelectLast, Committed, Respond
  <1>2. "done" \notin Removers
    BY DEF Removers
  <1> QED
    BY <1>1, <1>2, QuietOrder

\* A statement of a transaction: the last one, or the first one that writes.
LEMMA ExecuteOrder ==
  ASSUME TypeOK, OrderInv, NEW p \in Workers, NEW inRange, NEW label,
         NEW d, d = Pending(p), Execute(p, d, inRange, label), req[p].op \notin Removals,
         \/ label = "commit"
         \/ /\ pc[p] # "commit" /\ Held(pc[p]) = {} /\ Held(label) = {Target(pc[p])}
            /\ label \notin Removers
            /\ label = "update_amount" => Written(d) \subseteq {<<"content", req[p].item>>}
  PROVE  Ordered(tx'[p], req'[p], pc'[p])
  <1>1. UNCHANGED req /\ Ordered(tx[p], req[p], pc[p])
    BY DEF Execute, OrderInv
  <1>2. CASE pc' = [pc EXCEPT ![p] = "done"] /\ tx' = [tx EXCEPT ![p] = NoChange]
    <2>1. "done" \notin Removers
      BY DEF Removers
    <2> QED
      BY <1>1, <1>2, <2>1, QuietOrder
  <1>3. CASE tx' = [tx EXCEPT ![p] = Then(@, d)] /\ pc' = [pc EXCEPT ![p] = label]
    <2>1. tx'[p] = Then(tx[p], d) /\ pc'[p] = label /\ req'[p] = req[p]
      BY <1>1, <1>3 DEF TypeOK
    <2>2. CASE label = "commit"
      BY <2>1, <2>2 DEF Ordered, Removers
    <2>3. CASE label # "commit"
      <3>1. Written(tx[p]) = {} /\ Removed(tx[p]) = {} /\ pc[p] \notin Removers
        BY <1>1, <2>3 DEF Ordered
      <3>2. Written(Then(tx[p], d)) \subseteq Written(d) /\ Removed(Then(tx[p], d)) \subseteq Removed(d)
        BY <3>1, ThenWritten, ThenRemoved
      <3>3. (\A k \in Written(d) : k[1] = Target(pc[p])) /\ Removed(d) = {}
        BY <3>1, PendingOrdered
      <3> QED
        BY <2>1, <2>3, <3>2, <3>3 DEF Ordered
    <2> QED
      BY <2>2, <2>3
  <1> QED
    BY <1>2, <1>3 DEF Execute, Goto, Respond

\* Statements that remove no list or pantry item, and those before which nothing
\* is written.
LEMMA LabelsInOrder ==
  /\ "begin" \notin Removers          /\ "commit" \notin Removers
  /\ "insert_content" \notin Removers /\ "select_content" \notin Removers
  /\ "update_name" \notin Removers    /\ "update_amount" \notin Removers
  /\ "read_item" \notin Removers      /\ "credit_pantry" \notin Removers
  /\ "delete_sharing" \notin Removers /\ "delete_share" \notin Removers
  /\ "set_pub" \notin Removers        /\ "insert_sharing" \notin Removers
  /\ "insert_pantry" \notin Removers  /\ "update_pantry" \notin Removers
  /\ "read_pantry" \notin Removers    /\ "insert_refill" \notin Removers
  /\ "select_readonly" \notin Removers /\ "select_shares" \notin Removers
  /\ "select_pantry" \notin Removers  /\ "select_shared" \notin Removers
  /\ Held("select_content") = {} /\ Held("select_owned") = {}
  /\ Held("read_item") = {} /\ Held("read_pantry") = {}
  /\ "select_content" # "commit" /\ "select_owned" # "commit"
  /\ "read_item" # "commit" /\ "read_pantry" # "commit"
  BY DEF Removers, Held

\* The handlers.
LEMMA HandleOrder ==
  ASSUME TypeOK, OrderInv, NEW p \in Workers, Handle(p), UNCHANGED req
  PROVE  Ordered(tx'[p], req'[p], pc'[p])
  <1>1. CASE req[p].op \in Removals
    BY <1>1 DEF Ordered
  <1> SUFFICES ASSUME req[p].op \notin Removals PROVE Ordered(tx'[p], req'[p], pc'[p])
    BY <1>1
  <1>2. CASE CreateList(p)
    <2>1. CASE At(p, "create_list", "count_names")
      <3>1. /\ \E l \in {"insert_list", "done"} : pc' = [pc EXCEPT ![p] = l]
            /\ UNCHANGED tx \/ tx' = [tx EXCEPT ![p] = NoChange]
            /\ pc[p] # "commit" /\ Held(pc[p]) = {}
        BY <1>2, <2>1 DEF CreateList, At, Goto, Respond, Held
      <3>2. "insert_list" \notin Removers /\ "done" \notin Removers
        BY DEF Removers
      <3> QED
        BY <3>1, <3>2, QuietOrder
    <2>2. CASE Autocommit(p, InsertList(p), TRUE)
      BY <2>2, LastOrder
    <2> QED
      BY <1>2, <2>1, <2>2 DEF CreateList
  <1>3. CASE ReadList(p) \/ GetShares(p) \/ GetPantry(p) \/ ListLists(p) \/ HistorySearch(p)
    <2>1. CASE ReadList(p)
      BY <2>1, ReadsOrder, LastOrder, LabelsInOrder DEF ReadList
    <2>2. CASE GetShares(p) \/ GetPantry(p)
      BY <2>2, ReadsOrder, LastOrder, LabelsInOrder DEF GetShares, GetPantry
    <2>3. CASE ListLists(p) \/ HistorySearch(p)
      BY <2>3, ReadsOrder, LastOrder, LabelsInOrder DEF ListLists, HistorySearch
    <2> QED
      BY <1>3, <2>1, <2>2, <2>3
  <1>4. CASE GetPublicList(p)
    <2>1. CASE pc[p] = "select_pub"
      <3>1. /\ \E l \in {"select_public_content", "done"} : pc' = [pc EXCEPT ![p] = l]
            /\ UNCHANGED tx \/ tx' = [tx EXCEPT ![p] = NoChange]
            /\ pc[p] # "commit" /\ Held(pc[p]) = {}
        BY <1>4, <2>1 DEF GetPublicList, Goto, Respond, Held
      <3>2. "select_public_content" \notin Removers /\ "done" \notin Removers
        BY DEF Removers
      <3> QED
        BY <3>1, <3>2, QuietOrder
    <2>2. CASE pc[p] = "select_public_content"
      BY <1>4, <2>2, LastOrder DEF GetPublicList
    <2> QED
      BY <1>4, <2>1, <2>2 DEF GetPublicList
  <1>5. CASE SetPublic(p) \/ RemovePublic(p) \/ ShareList(p) \/ AddToPantry(p) \/ SetPantryItem(p)
    BY <1>5, ReadsOrder, LastOrder, LabelsInOrder
       DEF SetPublic, RemovePublic, ShareList, AddToPantry, SetPantryItem
  <1>6. CASE RefillPantry(p)
    <2>1. CASE CheckList(p, TRUE, "begin") \/ Begin(p, "read_pantry")
      BY <2>1, ReadsOrder, LabelsInOrder
    <2>2. CASE pc[p] = "read_pantry" /\ Select(p, [Empty EXCEPT !.pantry = Missing(p)], "insert_refill")
      BY <2>2, ReadsOrder, LabelsInOrder
    <2> QED
      BY <1>6, <2>1, <2>2, LastOrder DEF RefillPantry
  <1>7. CASE AddList(p)
    <2>1. CASE CheckList(p, TRUE, "begin") \/ Begin(p, "insert_content")
      BY <2>1, ReadsOrder, LabelsInOrder
    <2>2. CASE pc[p] = "insert_content" /\ Execute(p, InsertContent(p), TRUE, "upsert_history")
      BY <2>2, ExecuteOrder DEF Pending, Held, Target, Removers
    <2>3. CASE pc[p] = "upsert_history" /\ Execute(p, UpsertHistory(p), TRUE, "commit")
      BY <2>3, ExecuteOrder DEF Pending
    <2> QED
      BY <1>7, <2>1, <2>2, <2>3, LastOrder DEF AddList
  <1>8. CASE UpdateItem(p)
    <2> DEFINE rest == IF req[p].amount = NULL THEN "commit" ELSE "update_amount"
    <2>1. CASE CheckList(p, TRUE, "begin") \/ Begin(p, IF req[p].name = NULL THEN rest ELSE "update_name")
      BY <2>1, ReadsOrder, LabelsInOrder
    <2>2. CASE pc[p] = "update_name" /\ Execute(p, UpdateName(p), TRUE, rest)
      <3>1. Written(UpdateName(p)) \subseteq {<<"content", req[p].item>>}
        BY ItemWritten
      <3>2. rest \in {"commit", "update_amount"}
        OBVIOUS
      <3> HIDE DEF rest
      <3> QED
        BY <2>2, <3>1, <3>2, ExecuteOrder DEF Pending, Held, Target, Removers
    <2>3. CASE pc[p] = "update_amount" /\ Execute(p, UpdateAmount(p), TRUE, "commit")
      BY <2>3, ExecuteOrder DEF Pending
    <2> QED
      BY <1>8, <2>1, <2>2, <2>3, LastOrder DEF UpdateItem
  <1>9. CASE DeleteItem(p)
    <2>1. CASE CheckList(p, TRUE, "begin") \/ Begin(p, "read_item")
      BY <2>1, ReadsOrder, LabelsInOrder
    <2>2. CASE /\ pc[p] = "read_item"
               /\ Select(p, [Empty EXCEPT !.content = ItemRows(db, p)], "credit_pantry")
      BY <2>2, ReadsOrder, LabelsInOrder
    <2>3. CASE /\ pc[p] = "credit_pantry"
               /\ Execute(p, CreditPantry(p), CreditInRange(p), "delete_item")
      BY <2>3, ExecuteOrder DEF Pending, Held, Target, Removers
    <2>4. CASE pc[p] = "delete_item" /\ Execute(p, DeleteItemRow(p), TRUE, "commit")
      BY <2>4, ExecuteOrder DEF Pending
    <2> QED
      BY <1>9, <2>1, <2>2, <2>3, <2>4, LastOrder DEF DeleteItem
  <1>10. CASE Unshare(p) \/ DeleteShares(p)
    <2>1. CASE \/ IsOwner(p, "begin") \/ Begin(p, "delete_share")
               \/ Begin(p, "delete_sharing")
      BY <2>1, ReadsOrder, LabelsInOrder
    <2>2. CASE pc[p] = "delete_share" /\ Execute(p, DeleteShare(p), TRUE, "delete_history_of")
      BY <2>2, ExecuteOrder DEF Pending, Held, Target, Removers
    <2>3. CASE pc[p] = "delete_sharing" /\ Execute(p, DeleteSharing(p), TRUE, "delete_history_others")
      BY <2>3, ExecuteOrder DEF Pending, Held, Target, Removers
    <2>4. CASE \/ pc[p] = "delete_history_of" /\ Execute(p, DeleteHistoryOf(p), TRUE, "commit")
               \/ /\ pc[p] = "delete_history_others"
                  /\ Execute(p, DeleteHistoryOthers(p), TRUE, "commit")
      BY <2>4, ExecuteOrder DEF Pending
    <2> QED
      BY <1>10, <2>1, <2>2, <2>3, <2>4, LastOrder DEF Unshare, DeleteShares
  <1>11. ~ DeleteList(p) /\ ~ DeletePantryItem(p)
    BY DEF DeleteList, DeletePantryItem, Removals
  <1> QED
    BY <1>2, <1>3, <1>4, <1>5, <1>6, <1>7, <1>8, <1>9, <1>10, <1>11 DEF Handle

\* Requests that arrive or leave, and failures.
LEMMA OthersOrder ==
  ASSUME TypeOK, AuthorityInv, OrderInv, NEW p \in Workers,
         Arrive(p) \/ Deliver(p) \/ Cancel(p) \/ Deadlock(p) \/ Fail(p)
  PROVE  Ordered(tx'[p], req'[p], pc'[p])
  <1>1. CASE Deadlock(p) \/ Fail(p)
    <2>1. /\ UNCHANGED req
          /\ \E l : pc' = [pc EXCEPT ![p] = l] /\ l \in {"check_shared", "done"}
          /\ \/ UNCHANGED tx /\ pc[p] # "commit" /\ Held(pc[p]) = {}
             \/ tx' = [tx EXCEPT ![p] = NoChange]
      BY <1>1 DEF Deadlock, Fail, Goto, Respond, Held
    <2>2. "check_shared" \notin Removers /\ "done" \notin Removers
      BY DEF Removers
    <2> QED
      BY <2>1, <2>2, QuietOrder
  <1>2. CASE Arrive(p) \/ Leave(p)
    <2>1. tx'[p] = NoChange
      BY <1>2 DEF Arrive, Leave, AuthorityInv, OwnList, TypeOK
    <2>2. pc'[p] \notin Removers
      BY <1>2 DEF Arrive, Leave, TypeOK, First, Removers
    <2> QED
      BY <2>1, <2>2, NothingOrdered
  <1> QED
    BY <1>1, <1>2 DEF Deliver, Cancel

---------------------------------------------------------------------------
\* Two operations that remove nothing wait for each other only where both have
\* written the one item that both write next; but then they conflict already.
LEMMA NoRing ==
  ASSUME TypeOK, LockInv, OrderInv
  PROVE  RingsNeedRemoval
  <1> SUFFICES ASSUME NEW p \in Workers, NEW q \in Workers, p # q,
                      q \in WaitsFor(p), p \in WaitsFor(q),
                      req[p].op \notin Removals, req[q].op \notin Removals
               PROVE  FALSE
    BY DEF RingsNeedRemoval, Removals
  <1>1. ASSUME NEW u \in Workers, NEW v \in Workers, v \in WaitsFor(u), u \in WaitsFor(v),
               req[u].op \notin Removals, req[v].op \notin Removals
        PROVE  /\ Target(pc[u]) \in Held(pc[v])
               /\ Written(Pending(u)) \cap Written(tx[v]) # {}
    <2>1. Conflict(Pending(u), tx[v]) /\ Conflict(Pending(v), tx[u])
      BY <1>1 DEF WaitsFor
    <2>2. pc[u] \notin Removers /\ pc[v] \notin Removers
      BY <1>1 DEF OrderInv, Ordered
    <2>3. pc[v] # "commit"
      BY <2>1, <2>2, PendingOrdered, NothingConflicts
    <2>4. /\ Removed(tx[v]) = {}
          /\ \A k \in Written(tx[v]) : k[1] \in Held(pc[v])
      BY <1>1, <2>3 DEF OrderInv, Ordered
    <2>5. /\ \A k \in Written(Pending(u)) : k[1] = Target(pc[u])
          /\ Removed(Pending(u)) = {}
      BY <2>2, PendingOrdered
    <2>6. Written(Pending(u)) \cap Written(tx[v]) # {}
      BY <2>1, <2>4, <2>5 DEF Conflict
    <2> QED
      BY <2>4, <2>5, <2>6
  <1>2. Target(pc[p]) \in Held(pc[q]) /\ Target(pc[q]) \in Held(pc[p])
    BY <1>1
  <1>3. pc[p] = "update_amount" /\ pc[q] = "update_amount"
    BY <1>2 DEF Target, Held
  <1>4. /\ Written(Pending(p)) \subseteq {<<"content", req[p].item>>}
        /\ Written(tx[q]) \subseteq {<<"content", req[q].item>>}
        /\ Written(Pending(q)) \subseteq {<<"content", req[q].item>>}
        /\ Written(tx[p]) \subseteq {<<"content", req[p].item>>}
    BY <1>3, PendingOrdered DEF OrderInv, Ordered, Removers
  <1>5. Written(tx[p]) \cap Written(tx[q]) # {}
    BY <1>1, <1>4
  <1> QED
    BY <1>5 DEF LockInv, Conflict

---------------------------------------------------------------------------
\* The order is kept, from the start on.
LEMMA InitOrder == Init => OrderInv
  <1> SUFFICES ASSUME Init, NEW p \in Workers PROVE Ordered(tx[p], req[p], pc[p])
    BY DEF OrderInv
  <1>1. tx[p] = NoChange /\ pc[p] \notin Removers
    BY DEF Init, Removers
  <1> QED
    BY <1>1, NothingOrdered

LEMMA NextOrder ==
  ASSUME TypeInv, AuthorityInv, LockInv, OrderInv, [Next]_vars
  PROVE  OrderInv'
  <1>1. TypeOK
    BY DEF TypeInv
  <1>2. CASE UNCHANGED vars
    BY <1>2 DEF vars, OrderInv
  <1>3. CASE Next
    <2>1. PICK p \in Workers : Arrive(p) \/ Serve(p) \/ Cancel(p) \/ Fail(p)
      BY <1>3 DEF Next
    <2>2. \A q \in Workers \ {p} : tx'[q] = tx[q] /\ pc'[q] = pc[q] /\ req'[q] = req[q]
      BY <1>1, <2>1, NextLocking DEF Locking
    <2>3. Handle(p) => UNCHANGED req
      BY HandleMoves DEF Moved
    <2>4. Ordered(tx'[p], req'[p], pc'[p])
      BY <1>1, <2>1, <2>3, HandleOrder, OthersOrder DEF Serve
    <2> QED
      BY <2>2, <2>4 DEF OrderInv
  <1> QED
    BY <1>2, <1>3

\* Only transactions that remove a list or a pantry item take locks in an order
\* of their own: without one of them no two wait for each other.
THEOREM OthersWaitInOrder == Spec => []RingsNeedRemoval
  <1> DEFINE Inv == TypeInv /\ AuthorityInv /\ LockInv /\ OrderInv
  <1>1. Init => Inv
    BY InitTypeInv, InitAuthority, InitLocks, InitOrder
  <1>2. Inv /\ [Next]_vars => Inv'
    BY NextTypeInv, NextAuthority, NextLocks, NextOrder
  <1>3. Inv => RingsNeedRemoval
    BY NoRing DEF TypeInv
  <1> QED
    BY <1>1, <1>2, <1>3, PTL DEF Spec
===========================================================================

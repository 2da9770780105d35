------------------------------ MODULE Tables ------------------------------
(***************************************************************************)
(* The database schema of the KabaList server (api/sqlx/migrations) and    *)
(* the algebra of changes to it.                                           *)
(*                                                                         *)
(* A Store is one value of the five tables the list, share and pantry      *)
(* handlers use.  A Change is what statements have deleted from a Store    *)
(* and inserted into it; an UPDATE deletes the old version of a row and    *)
(* inserts the new one, as PostgreSQL does.  The row locks a transaction   *)
(* holds follow from its Change, so they are not kept a second time.       *)
(*                                                                         *)
(* Rows of `accounts' are never deleted by the server, so the table is the *)
(* constant Accounts.  history.last_used is read by no handler and left    *)
(* out.  An amount is free text: an integer, no text at all (NULL), or a   *)
(* text that does not read as an integer (Text).                           *)
(***************************************************************************)
EXTENDS Integers, FiniteSets

CONSTANTS Accounts,   \* account ids
          Names,      \* names of lists and of items
          NULL,       \* the SQL NULL
          Text        \* an amount that is not an integer

ASSUME NullAssumption == NULL \notin Int /\ NULL \notin Names
ASSUME TextAssumption == Text \notin Int /\ Text # NULL

Amount == Int \cup {NULL, Text}
NoItem == 0   \* lists_content.from_pantry IS NULL; SERIAL starts at 1

ListRow    == [id : Nat, owner : Accounts, name : Names, pub : BOOLEAN]
ShareRow   == [list : Nat, shared : Accounts, readonly : BOOLEAN]
ContentRow == [id : Nat, list : Nat, name : Names, amount : Amount,
               from_pantry : Nat]
HistoryRow == [list : Nat, creator : Accounts, name : Names]
PantryRow  == [item : Nat \ {0}, list : Nat, name : Names, target : Int, amount : Int]

Store == [lists   : SUBSET ListRow,    sharing : SUBSET ShareRow,
          content : SUBSET ContentRow, history : SUBSET HistoryRow,
          pantry  : SUBSET PantryRow]

Empty == [lists |-> {}, sharing |-> {}, content |-> {}, history |-> {},
          pantry |-> {}]

---------------------------------------------------------------------------
(***************************************************************************)
(* Foreign keys.  Every REFERENCES clause of the migrations, checked by    *)
(* PostgreSQL at the end of each statement.                                *)
(***************************************************************************)
ListIds(s) == {r.id : r \in s.lists}
PantryItems(s) == {r.item : r \in s.pantry}

\* Fault: lists_content.list is no REFERENCES lists.
ItemsWithoutList(s) ==
  /\ \A r \in s.sharing \cup s.history \cup s.pantry : r.list \in ListIds(s)
  /\ \A r \in s.content : r.from_pantry \in PantryItems(s) \cup {NoItem}

\* Fault: lists_content.from_pantry is no REFERENCES pantry_content.
ItemsWithoutPantry(s) ==
  \A r \in s.sharing \cup s.content \cup s.history \cup s.pantry : r.list \in ListIds(s)

ReferencesHold(s) ==
  /\ \A r \in s.sharing : r.list \in ListIds(s) /\ r.shared \in Accounts
  /\ \A r \in s.content : /\ r.list \in ListIds(s)
                          /\ r.from_pantry \in PantryItems(s) \cup {NoItem}
  /\ \A r \in s.history : r.list \in ListIds(s)
  /\ \A r \in s.pantry  : r.list \in ListIds(s)

---------------------------------------------------------------------------
(***************************************************************************)
(* Changes.                                                                *)
(***************************************************************************)
Change == [del : Store, ins : Store]
NoChange == [del |-> Empty, ins |-> Empty]

\* The rows D of one table replaced by the rows I.
OnLists(D, I)   == [del |-> [Empty EXCEPT !.lists = D],   ins |-> [Empty EXCEPT !.lists = I]]
OnSharing(D, I) == [del |-> [Empty EXCEPT !.sharing = D], ins |-> [Empty EXCEPT !.sharing = I]]
OnContent(D, I) == [del |-> [Empty EXCEPT !.content = D], ins |-> [Empty EXCEPT !.content = I]]
OnHistory(D, I) == [del |-> [Empty EXCEPT !.history = D], ins |-> [Empty EXCEPT !.history = I]]
OnPantry(D, I)  == [del |-> [Empty EXCEPT !.pantry = D],  ins |-> [Empty EXCEPT !.pantry = I]]

\* The store s after the change d.
Apply(s, d) ==
  [lists   |-> (s.lists   \ d.del.lists)   \cup d.ins.lists,
   sharing |-> (s.sharing \ d.del.sharing) \cup d.ins.sharing,
   content |-> (s.content \ d.del.content) \cup d.ins.content,
   history |-> (s.history \ d.del.history) \cup d.ins.history,
   pantry  |-> (s.pantry  \ d.del.pantry)  \cup d.ins.pantry]

\* The rows of s and of t together.
Both(s, t) ==
  [lists   |-> s.lists   \cup t.lists,   sharing |-> s.sharing \cup t.sharing,
   content |-> s.content \cup t.content, history |-> s.history \cup t.history,
   pantry  |-> s.pantry  \cup t.pantry]

\* The change d followed by the change e of the same transaction.
Then(d, e) == [del |-> Both(d.del, e.del), ins |-> Apply(d.ins, e)]

---------------------------------------------------------------------------
(***************************************************************************)
(* Row locks.  A transaction holds the rows it has written (the primary    *)
(* key of a row it inserts included) until it ends, and shares the rows    *)
(* its own rows refer to: nobody else may write the former or remove the   *)
(* latter (FOR UPDATE and FOR KEY SHARE).                                  *)
(***************************************************************************)
ListKeys(s)   == {<<"lists", r.id>> : r \in s.lists}
PantryKeys(s) == {<<"pantry", r.item>> : r \in s.pantry}

Keys(s) ==
  UNION {ListKeys(s), PantryKeys(s),
         {<<"sharing", r.list, r.shared>> : r \in s.sharing},
         {<<"content", r.id>> : r \in s.content},
         {<<"history", r.list, r.creator, r.name>> : r \in s.history}}

Written(d) == Keys(d.del) \cup Keys(d.ins)

\* Only lists and pantry items are the target of a foreign key.
Removed(d) == (ListKeys(d.del) \cup PantryKeys(d.del))
                \ (ListKeys(d.ins) \cup PantryKeys(d.ins))

\* The rows the rows of s refer to.
References(s) ==
  {<<"lists", r.list>> : r \in s.sharing \cup s.content \cup s.history \cup s.pantry}
    \cup {<<"pantry", r.from_pantry>> : r \in s.content}

\* The rows of s that are no version of a row of t.  (A list row refers to
\* nothing that is ever removed.)
Unmatched(s, t) ==
  [lists   |-> {},
   sharing |-> s.sharing \ t.sharing,
   content |-> {r \in s.content : \A o \in t.content : o.id # r.id},
   history |-> s.history \ t.history,
   pantry  |-> {r \in s.pantry : \A o \in t.pantry : o.item # r.item}]

\* An inserted row holds the rows it refers to.  A deleted one makes whoever
\* checks for rows that refer to them wait.  An update changes no reference.
Referred(d) == References(Unmatched(d.ins, d.del))
                 \cup References(Unmatched(d.del, d.ins))

Conflict(d, e) == \/ Written(d) \cap Written(e) # {}
                  \/ Referred(d) \cap Removed(e) # {}
                  \/ Referred(e) \cap Removed(d) # {}
===========================================================================

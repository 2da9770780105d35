---------------------------- MODULE ServerProofs ---------------------------
(***************************************************************************)
(* Proofs about Server, for any number of workers, accounts, names and     *)
(* requests.                                                               *)
(***************************************************************************)
EXTENDS Server, FiniteSetTheorems, TLAPS

---------------------------------------------------------------------------
(***************************************************************************)
(* The control flow of the handlers: which statement a step leads to, and  *)
(* that the database changes only where a handler returns.                 *)
(***************************************************************************)
\* A step of a handler of p: the request stays, p goes to a statement of L or
\* answers, and it answers if the database changes.  What other workers have
\* seen and were granted stays.
Moved(p, L) ==
  /\ pc[p] # "done"
  /\ UNCHANGED req
  /\ \/ UNCHANGED answer /\ \E l \in L : pc' = [pc EXCEPT ![p] = l]
     \/ /\ \E a \in Answers \ {"none"} : answer' = [answer EXCEPT ![p] = a]
        /\ pc' = [pc EXCEPT ![p] = "done"]
  /\ db' # db => pc' = [pc EXCEPT ![p] = "done"]
  /\ UNCHANGED seen \/ \E s : seen' = [seen EXCEPT ![p] = s]
  /\ UNCHANGED granted \/ \E g : granted' = [granted EXCEPT ![p] = g]

\* Taking a connection leads to the statement named.
LEMMA BeginMoves ==
  ASSUME NEW p \in Workers, NEW L, NEW label \in L, Begin(p, label)
  PROVE  Moved(p, L)
  BY DEF Begin, Moved, Goto

\* So does a statement of a transaction, or it returns with an error.
LEMMA ExecuteMoves ==
  ASSUME NEW p \in Workers, NEW L, NEW label \in L, NEW d, NEW inRange,
         pc[p] # "done", Execute(p, d, inRange, label)
  PROVE  Moved(p, L)
  BY DEF Execute, Moved, Goto, Respond, Answers

\* A statement of the pool that writes is the last one.
LEMMA AutocommitMoves ==
  ASSUME NEW p \in Workers, NEW L, NEW d, NEW inRange,
         pc[p] # "done", Autocommit(p, d, inRange)
  PROVE  Moved(p, L)
  BY DEF Autocommit, Committed, Moved, Respond, Answers

\* The commit is the last statement of its handler.
LEMMA CommitMoves ==
  ASSUME NEW p \in Workers, NEW L, Commit(p)
  PROVE  Moved(p, L)
  BY DEF Commit, Committed, Moved, Respond, Answers

\* A SELECT leads to the statement named, or is the last one.
LEMMA SelectMoves ==
  ASSUME NEW p \in Workers, NEW L, NEW label \in L, NEW rows,
         pc[p] # "done", Select(p, rows, label)
  PROVE  Moved(p, L)
  BY DEF Select, Moved, Goto

\* A SELECT whose rows are the answer.
LEMMA SelectLastMoves ==
  ASSUME NEW p \in Workers, NEW L, NEW rows, pc[p] # "done", SelectLast(p, rows)
  PROVE  Moved(p, L)
  BY DEF SelectLast, Moved, Respond, Answers

\* is_owner goes on to the handler's first statement or returns.
LEMMA IsOwnerMoves ==
  ASSUME NEW p \in Workers, NEW L, NEW label \in L, IsOwner(p, label)
  PROVE  Moved(p, L)
  BY DEF IsOwner, Moved, Goto, Respond, Answers, Witness

\* check_list does so too, after its second SELECT when there is need of it.
LEMMA CheckListMoves ==
  ASSUME NEW p \in Workers, NEW L, NEW label \in L, NEW write, "check_shared" \in L,
         CheckList(p, write, label)
  PROVE  Moved(p, L)
  BY DEF CheckList, Moved, Goto, Respond, Answers, Witness

\* A larger set of statements says less.
LEMMA MovedWider ==
  ASSUME NEW p, NEW L, NEW M, L \subseteq M, Moved(p, L)
  PROVE  Moved(p, M)
  BY DEF Moved

\* Where any handler but update_item may be.
Elsewhere == Labels \ {"update_name", "update_amount", "idle"}

\* The statements the handlers name are among those.
LEMMA ElsewhereLabels ==
  /\ "check_shared" \in Elsewhere /\ "begin" \in Elsewhere
  /\ "insert_list" \in Elsewhere /\ "select_content" \in Elsewhere
  /\ "select_readonly" \in Elsewhere /\ "select_public_content" \in Elsewhere
  /\ "select_shares" \in Elsewhere /\ "select_pantry" \in Elsewhere
  /\ "insert_content" \in Elsewhere /\ "upsert_history" \in Elsewhere
  /\ "read_item" \in Elsewhere /\ "credit_pantry" \in Elsewhere
  /\ "delete_item" \in Elsewhere /\ "delete_sharing" \in Elsewhere
  /\ "delete_contents" \in Elsewhere /\ "delete_history" \in Elsewhere
  /\ "delete_list" \in Elsewhere /\ "set_pub" \in Elsewhere
  /\ "insert_sharing" \in Elsewhere /\ "delete_share" \in Elsewhere
  /\ "delete_history_of" \in Elsewhere /\ "delete_history_others" \in Elsewhere
  /\ "insert_pantry" \in Elsewhere /\ "update_pantry" \in Elsewhere
  /\ "delete_refills" \in Elsewhere /\ "delete_pantry" \in Elsewhere
  /\ "read_pantry" \in Elsewhere /\ "insert_refill" \in Elsewhere
  /\ "commit" \in Elsewhere /\ "select_shared" \in Elsewhere
  BY DEF Elsewhere, Labels, Lookups, Statements

\* The handlers of list.rs, update_item apart.
LEMMA ListHandlersMove ==
  ASSUME NEW p \in Workers,
         \/ CreateList(p) \/ ReadList(p) \/ AddList(p) \/ DeleteItem(p)
         \/ DeleteList(p) \/ SetPublic(p) \/ RemovePublic(p) \/ GetPublicList(p)
  PROVE  Moved(p, Elsewhere)
  <1> USE ElsewhereLabels
  <1>1. CASE CreateList(p)
    <2>1. CASE At(p, "create_list", "count_names")
      BY <1>1, <2>1 DEF CreateList, At, Moved, Goto, Respond, Answers
    <2>2. CASE At(p, "create_list", "insert_list")
      BY <1>1, <2>2, AutocommitMoves
       DEF CreateList, At
    <2> QED
      BY <1>1, <2>1, <2>2 DEF CreateList
  <1>2. CASE ReadList(p)
    BY <1>2, SelectMoves, SelectLastMoves, CheckListMoves
       DEF ReadList
  <1>3. CASE AddList(p)
    <2>1. CASE CheckList(p, TRUE, "begin") \/ Begin(p, "insert_content") \/ Commit(p)
      BY <2>1, BeginMoves, CommitMoves, CheckListMoves
    <2>2. CASE pc[p] = "insert_content" /\ Execute(p, InsertContent(p), TRUE, "upsert_history")
      BY <2>2, ExecuteMoves
    <2>3. CASE pc[p] = "upsert_history" /\ Execute(p, UpsertHistory(p), TRUE, "commit")
      BY <2>3, ExecuteMoves
    <2> QED
      BY <1>3, <2>1, <2>2, <2>3 DEF AddList
  <1>4. CASE DeleteItem(p)
    BY <1>4, BeginMoves, ExecuteMoves, CommitMoves, SelectMoves, CheckListMoves
       DEF DeleteItem
  <1>5. CASE DeleteList(p)
    BY <1>5, BeginMoves, ExecuteMoves, CommitMoves, IsOwnerMoves
       DEF DeleteList
  <1>6. CASE SetPublic(p) \/ RemovePublic(p)
    <2>1. CASE SetPublic(p)
      BY <2>1, BeginMoves, AutocommitMoves, IsOwnerMoves DEF SetPublic
    <2>2. CASE RemovePublic(p)
      BY <2>2, BeginMoves, AutocommitMoves, IsOwnerMoves DEF RemovePublic
    <2> QED
      BY <1>6, <2>1, <2>2
  <1>7. CASE GetPublicList(p)
    <2>1. CASE pc[p] = "select_pub"
      BY <1>7, <2>1 DEF GetPublicList, Moved, Goto, Respond, Answers, Witness
    <2>2. CASE pc[p] = "select_public_content"
      BY <1>7, <2>2, SelectLastMoves
       DEF GetPublicList
    <2> QED
      BY <1>7, <2>1, <2>2 DEF GetPublicList
  <1> QED
    BY <1>1, <1>2, <1>3, <1>4, <1>5, <1>6, <1>7

\* update_item reaches the UPDATE of the name only when the body has one.
LEMMA UpdateItemMoves ==
  ASSUME NEW p \in Workers, UpdateItem(p)
  PROVE  \/ Moved(p, Labels \ {"update_name", "idle"})
         \/ req[p].name # NULL /\ Moved(p, {"update_name"})
  <1> DEFINE rest == IF req[p].amount = NULL THEN "commit" ELSE "update_amount"
             first == IF req[p].name = NULL THEN rest ELSE "update_name"
             L == Labels \ {"update_name", "idle"}
  <1>1. rest \in L /\ {"begin", "commit", "check_shared"} \subseteq L
    BY DEF Labels, Lookups, Statements
  <1>2. \/ CheckList(p, TRUE, "begin")
        \/ Begin(p, first)
        \/ pc[p] = "update_name" /\ Execute(p, UpdateName(p), TRUE, rest)
        \/ pc[p] = "update_amount" /\ Execute(p, UpdateAmount(p), TRUE, "commit")
        \/ Commit(p)
    BY DEF UpdateItem
  <1> HIDE DEF rest, first, L
  <1>3. CASE Begin(p, first)
    <2>1. CASE req[p].name = NULL
      <3>1. first = rest
        BY <2>1 DEF first
      <3> QED
        BY <1>1, <1>3, <3>1, BeginMoves DEF L
    <2>2. CASE req[p].name # NULL
      <3>1. first = "update_name"
        BY <2>2 DEF first
      <3>2. Begin(p, "update_name")
        BY <1>3, <3>1
      <3> QED
        BY <2>2, <3>2, BeginMoves
    <2> QED
      BY <2>1, <2>2
  <1>4. CASE \/ CheckList(p, TRUE, "begin")
             \/ pc[p] = "update_name" /\ Execute(p, UpdateName(p), TRUE, rest)
             \/ pc[p] = "update_amount" /\ Execute(p, UpdateAmount(p), TRUE, "commit")
             \/ Commit(p)
    <2>1. Moved(p, L)
      BY <1>1, <1>4, CheckListMoves, ExecuteMoves, CommitMoves
    <2> QED
      BY <2>1 DEF L
  <1> QED
    BY <1>2, <1>3, <1>4

\* The handlers of share.rs.
LEMMA ShareHandlersMove ==
  ASSUME NEW p \in Workers,
         GetShares(p) \/ ShareList(p) \/ Unshare(p) \/ DeleteShares(p)
  PROVE  Moved(p, Elsewhere)
  <1> USE ElsewhereLabels
  <1>1. CASE GetShares(p)
    BY <1>1, SelectLastMoves, CheckListMoves
       DEF GetShares
  <1>2. CASE ShareList(p)
    BY <1>2, BeginMoves, AutocommitMoves, CheckListMoves
       DEF ShareList
  <1>3. CASE Unshare(p)
    BY <1>3, BeginMoves, ExecuteMoves, CommitMoves, IsOwnerMoves
       DEF Unshare
  <1>4. CASE DeleteShares(p)
    BY <1>4, BeginMoves, ExecuteMoves, CommitMoves, IsOwnerMoves
       DEF DeleteShares
  <1> QED
    BY <1>1, <1>2, <1>3, <1>4

\* The handlers of pantry.rs.
LEMMA PantryHandlersMove ==
  ASSUME NEW p \in Workers,
         \/ GetPantry(p) \/ AddToPantry(p) \/ SetPantryItem(p)
         \/ DeletePantryItem(p) \/ RefillPantry(p)
  PROVE  Moved(p, Elsewhere)
  <1> USE ElsewhereLabels
  <1>1. CASE GetPantry(p)
    BY <1>1, SelectLastMoves, CheckListMoves
       DEF GetPantry
  <1>2. CASE AddToPantry(p)
    BY <1>2, BeginMoves, AutocommitMoves, CheckListMoves
       DEF AddToPantry
  <1>3. CASE SetPantryItem(p)
    BY <1>3, BeginMoves, AutocommitMoves, CheckListMoves
       DEF SetPantryItem
  <1>4. CASE DeletePantryItem(p)
    <2>1. CASE CheckList(p, TRUE, "begin") \/ Begin(p, "delete_refills") \/ Commit(p)
      BY <2>1, BeginMoves, CommitMoves, CheckListMoves
    <2>2. CASE pc[p] = "delete_refills" /\ Execute(p, DeleteRefills(p), TRUE, "delete_pantry")
      BY <2>2, ExecuteMoves
    <2>3. CASE pc[p] = "delete_pantry" /\ Execute(p, DeletePantryRow(p), TRUE, "commit")
      BY <2>3, ExecuteMoves
    <2> QED
      BY <1>4, <2>1, <2>2, <2>3 DEF DeletePantryItem
  <1>5. CASE RefillPantry(p)
    BY <1>5, BeginMoves, AutocommitMoves, SelectMoves, CheckListMoves
       DEF RefillPantry
  <1> QED
    BY <1>1, <1>2, <1>3, <1>4, <1>5

\* The handlers that search.
LEMMA SearchHandlersMove ==
  ASSUME NEW p \in Workers, ListLists(p) \/ HistorySearch(p)
  PROVE  Moved(p, Elsewhere)
  <1> USE ElsewhereLabels
  <1>1. CASE ListLists(p)
    BY <1>1, SelectMoves, SelectLastMoves DEF ListLists
  <1>2. CASE HistorySearch(p)
    BY <1>2, SelectLastMoves DEF HistorySearch
  <1> QED
    BY <1>1, <1>2

\* All handlers, and the failures of their connections.
LEMMA HandleMoves ==
  ASSUME NEW p \in Workers, Handle(p) \/ Fail(p)
  PROVE  \/ Moved(p, Labels \ {"update_name", "idle"})
         \/ req[p].name # NULL /\ Moved(p, {"update_name"})
  <1>1. Elsewhere \subseteq Labels \ {"update_name", "idle"}
    BY DEF Elsewhere
  <1>2. CASE Handle(p)
    <2>1. \/ Moved(p, Elsewhere)
          \/ UpdateItem(p)
      BY <1>2, ListHandlersMove, ShareHandlersMove, PantryHandlersMove,
         SearchHandlersMove DEF Handle
    <2> QED
      BY <1>1, <2>1, UpdateItemMoves, MovedWider
  <1>3. CASE Fail(p)
    BY <1>3 DEF Fail, Moved, Goto, Respond, Labels, Lookups, Answers
  <1> QED
    BY <1>2, <1>3

---------------------------------------------------------------------------
(***************************************************************************)
(* The algebra of changes keeps its types.                                 *)
(***************************************************************************)
\* The empty tables and the empty change are well typed.
LEMMA EmptyType == Empty \in Store /\ NoChange \in Change
  BY DEF Empty, Store, NoChange, Change

\* Applying a change to a store gives a store.
LEMMA ApplyType ==
  ASSUME NEW s \in Store, NEW d \in Change
  PROVE  Apply(s, d) \in Store
  BY DEF Apply, Store, Change

\* The rows of two stores together are a store.
LEMMA BothType ==
  ASSUME NEW s \in Store, NEW t \in Store
  PROVE  Both(s, t) \in Store
  BY DEF Both, Store

\* Two changes one after the other are a change.
LEMMA ThenType ==
  ASSUME NEW d \in Change, NEW e \in Change
  PROVE  Then(d, e) \in Change
  <1>1. d.del \in Store /\ d.ins \in Store /\ e.del \in Store
    BY DEF Change
  <1>2. Both(d.del, e.del) \in Store /\ Apply(d.ins, e) \in Store
    BY <1>1, BothType, ApplyType
  <1> QED
    BY <1>2 DEF Then, Change

\* Two changes of one transaction have the effect of one after the other.
LEMMA ThenApplied ==
  ASSUME NEW s, NEW t, NEW d
  PROVE  Apply(s, Then(t, d)) = Apply(Apply(s, t), d)
  BY DEF Apply, Then, Both

\* A change of one table is well typed when its rows are.
LEMMA ChangeType ==
  ASSUME NEW D, NEW I
  PROVE  /\ D \subseteq ListRow    /\ I \subseteq ListRow    => OnLists(D, I) \in Change
         /\ D \subseteq ShareRow   /\ I \subseteq ShareRow   => OnSharing(D, I) \in Change
         /\ D \subseteq ContentRow /\ I \subseteq ContentRow => OnContent(D, I) \in Change
         /\ D \subseteq HistoryRow /\ I \subseteq HistoryRow => OnHistory(D, I) \in Change
         /\ D \subseteq PantryRow  /\ I \subseteq PantryRow  => OnPantry(D, I) \in Change
  <1>1. D \subseteq ListRow /\ I \subseteq ListRow => OnLists(D, I) \in Change
    BY DEF OnLists, Empty, Change, Store
  <1>2. D \subseteq ShareRow /\ I \subseteq ShareRow => OnSharing(D, I) \in Change
    BY DEF OnSharing, Empty, Change, Store
  <1>3. D \subseteq ContentRow /\ I \subseteq ContentRow => OnContent(D, I) \in Change
    BY DEF OnContent, Empty, Change, Store
  <1>4. D \subseteq HistoryRow /\ I \subseteq HistoryRow => OnHistory(D, I) \in Change
    BY DEF OnHistory, Empty, Change, Store
  <1>5. D \subseteq PantryRow /\ I \subseteq PantryRow => OnPantry(D, I) \in Change
    BY DEF OnPantry, Empty, Change, Store
  <1> QED
    BY <1>1, <1>2, <1>3, <1>4, <1>5

---------------------------------------------------------------------------
(***************************************************************************)
(* The changes of the statements are well typed.                           *)
(***************************************************************************)
\* A request in progress is one of the requests clients send.
LEMMA RequestType ==
  ASSUME TypeOK, NEW p \in Workers, req[p].op \in Operations
  PROVE  /\ req[p] \in RequestSet
         /\ req[p] \in Request
         /\ WellFormed(req[p])
  <1>1. req[p] \in RequestSet \cup {Idle}
    BY DEF TypeOK
  <1>2. req[p] # Idle
    BY DEF Idle, Operations
  <1> QED
    BY <1>1, <1>2, RequestAssumption

\* What a statement sees is a store.
LEMMA ViewType ==
  ASSUME TypeOK, NEW p \in Workers
  PROVE  View(p) \in Store
  <1>1. db \in Store /\ tx[p] \in Change
    BY DEF TypeOK
  <1> QED
    BY <1>1, ApplyType DEF View

\* Statements that only delete.
LEMMA DeletesType ==
  ASSUME TypeOK, NEW p \in Workers
  PROVE  /\ DeleteItemRow(p) \in Change
         /\ DeleteSharing(p) \in Change
         /\ DeleteContents(p) \in Change
         /\ DeleteHistory(p) \in Change
         /\ DeleteListRow(p) \in Change
         /\ DeleteShare(p) \in Change
         /\ DeleteHistoryOf(p) \in Change
         /\ DeleteHistoryOthers(p) \in Change
         /\ DeleteRefills(p) \in Change
         /\ DeletePantryRow(p) \in Change
  <1>1. /\ View(p).lists \subseteq ListRow
        /\ View(p).sharing \subseteq ShareRow
        /\ View(p).content \subseteq ContentRow
        /\ View(p).history \subseteq HistoryRow
        /\ View(p).pantry \subseteq PantryRow
    BY ViewType DEF Store
  <1>2. DeleteItemRow(p) \in Change /\ DeleteContents(p) \in Change /\ DeleteRefills(p) \in Change
    BY <1>1, ChangeType DEF DeleteItemRow, ItemRows, DeleteContents, OfList, DeleteRefills
  <1>3. DeleteSharing(p) \in Change /\ DeleteShare(p) \in Change
    BY <1>1, ChangeType DEF DeleteSharing, OfList, DeleteShare
  <1>4. /\ DeleteHistory(p) \in Change
        /\ DeleteHistoryOf(p) \in Change
        /\ DeleteHistoryOthers(p) \in Change
    BY <1>1, ChangeType DEF DeleteHistory, OfList, DeleteHistoryOf, DeleteHistoryOthers
  <1>5. DeleteListRow(p) \in Change
    BY <1>1, ChangeType DEF DeleteListRow
  <1>6. DeletePantryRow(p) \in Change
    BY <1>1, ChangeType DEF DeletePantryRow, PantryRowsAt
  <1> QED
    BY <1>2, <1>3, <1>4, <1>5, <1>6

\* Statements that insert, under the conditions their handlers run them in.
LEMMA InsertsType ==
  ASSUME TypeOK, NEW p \in Workers, req[p].op \in Operations
  PROVE  /\ req[p].op = "create_list" => InsertList(p) \in Change
         /\ req[p].op = "add_list" => InsertContent(p) \in Change /\ UpsertHistory(p) \in Change
         /\ req[p].op = "add_to_pantry" => InsertPantry(p) \in Change
         /\ InsertSharing(p) \in Change
         /\ InsertRefill(p) \in Change
  <1>1. req[p] \in Request /\ WellFormed(req[p])
    BY RequestType
  <1>2. next \in [list : Nat, content : Nat, pantry : Nat \ {0}]
    BY DEF TypeOK
  <1>3. ASSUME req[p].op = "create_list" PROVE InsertList(p) \in Change
    <2>1. [id |-> next.list, owner |-> req[p].user, name |-> req[p].name,
           pub |-> FALSE] \in ListRow
      BY <1>1, <1>2, <1>3 DEF Request, WellFormed, ListRow
    <2> QED
      BY <2>1, ChangeType DEF InsertList
  <1>4. ASSUME req[p].op = "add_list"
        PROVE  InsertContent(p) \in Change /\ UpsertHistory(p) \in Change
    <2>1. [id |-> next.content, list |-> req[p].list, name |-> req[p].name,
           amount |-> req[p].amount, from_pantry |-> NoItem] \in ContentRow
      BY <1>1, <1>2, <1>4 DEF Request, WellFormed, ContentRow, NoItem
    <2>2. [list |-> req[p].list, creator |-> req[p].user, name |-> req[p].name]
            \in HistoryRow
      BY <1>1, <1>4 DEF Request, WellFormed, HistoryRow
    <2>3. InsertContent(p) \in Change
      BY <2>1, ChangeType DEF InsertContent
    <2>4. View(p).history \subseteq HistoryRow
      BY ViewType DEF Store
    <2>5. UpsertHistory(p) \in Change
      BY <2>2, <2>4, ChangeType DEF UpsertHistory
    <2> QED
      BY <2>3, <2>5
  <1>5. ASSUME req[p].op = "add_to_pantry" PROVE InsertPantry(p) \in Change
    <2>1. [item |-> next.pantry, list |-> req[p].list, name |-> req[p].name,
           target |-> req[p].target, amount |-> 0] \in PantryRow
      BY <1>1, <1>2, <1>5 DEF Request, WellFormed, PantryRow
    <2> QED
      BY <2>1, ChangeType DEF InsertPantry
  <1>6. InsertSharing(p) \in Change
    <2>1. [list |-> req[p].list, shared |-> req[p].with,
           readonly |-> req[p].readonly] \in ShareRow
      BY <1>1 DEF Request, ShareRow
    <2>2. ShareRows(req[p].with, req[p].list) \subseteq ShareRow
      BY DEF ShareRows, TypeOK, Store
    <2> QED
      BY <2>1, <2>2, ChangeType DEF InsertSharing
  <1>7. InsertRefill(p) \in Change
    <2>1. seen[p].pantry \subseteq PantryRow
      BY DEF TypeOK, Store
    <2>2. ASSUME NEW r \in PantryRow
          PROVE  [id |-> next.content + r.item - 1, list |-> r.list, name |-> r.name,
                  amount |-> r.target - r.amount, from_pantry |-> r.item] \in ContentRow
      <3>1. next.content \in Nat /\ r.item \in Nat \ {0} /\ r.target \in Int /\ r.amount \in Int
        BY <1>2 DEF PantryRow
      <3>2. next.content + r.item - 1 \in Nat /\ r.target - r.amount \in Int
        BY <3>1
      <3> QED
        BY <3>1, <3>2 DEF PantryRow, ContentRow, Amount
    <2> QED
      BY <2>1, <2>2, ChangeType DEF InsertRefill
  <1> QED
    BY <1>3, <1>4, <1>5, <1>6, <1>7

\* What the pantry gains from an item is an integer.
LEMMA AddedType ==
  ASSUME NEW a \in Amount
  PROVE  Added(a) \in Int
  BY DEF Added, Amount

\* Statements that update.
LEMMA UpdatesType ==
  ASSUME TypeOK, NEW p \in Workers, req[p].op \in Operations
  PROVE  /\ req[p].name # NULL => UpdateName(p) \in Change
         /\ UpdateAmount(p) \in Change
         /\ CreditPantry(p) \in Change
         /\ SetPub(p, TRUE) \in Change /\ SetPub(p, FALSE) \in Change
         /\ UpdatePantry(p) \in Change
  <1>1. req[p] \in Request
    BY RequestType
  <1>2. View(p).content \subseteq ContentRow /\ View(p).pantry \subseteq PantryRow
    BY ViewType DEF Store
  <1>3. ASSUME req[p].name # NULL PROVE UpdateName(p) \in Change
    <2>1. \A r \in ContentRow : [r EXCEPT !.name = req[p].name] \in ContentRow
      BY <1>1, <1>3 DEF Request, ContentRow
    <2> QED
      BY <1>2, <2>1, ChangeType DEF UpdateName, ItemRows
  <1>4. UpdateAmount(p) \in Change
    <2>1. \A r \in ContentRow : [r EXCEPT !.amount = req[p].amount] \in ContentRow
      BY <1>1 DEF Request, ContentRow
    <2> QED
      BY <1>2, <2>1, ChangeType DEF UpdateAmount, ItemRows
  <1>5. CreditPantry(p) \in Change
    <2>1. ASSUME NEW r \in CreditedRows(p) PROVE Credit(p, r) \in PantryRow
      <3>1. r \in PantryRow /\ seen[p].content # {} /\ seen[p].content \subseteq ContentRow
        BY <1>2 DEF CreditedRows, TypeOK, Store
      <3>2. PICK c : c = CHOOSE x \in seen[p].content : TRUE
        OBVIOUS
      <3>3. c \in ContentRow
        BY <3>1, <3>2
      <3>4. r.amount + Added(c.amount) \in Int
        BY <3>1, <3>3, AddedType DEF ContentRow, PantryRow
      <3>5. Credit(p, r) = [r EXCEPT !.amount = r.amount + Added(c.amount)]
        BY <3>2 DEF Credit
      <3> QED
        BY <3>1, <3>4, <3>5 DEF PantryRow
    <2> QED
      BY <1>2, <2>1, ChangeType DEF CreditPantry, CreditedRows
  <1>6. ASSUME NEW flag \in BOOLEAN PROVE SetPub(p, flag) \in Change
    <2>1. \A r \in ListRow : [r EXCEPT !.pub = flag] \in ListRow
      BY DEF ListRow
    <2>2. db.lists \subseteq ListRow
      BY DEF TypeOK, Store
    <2> QED
      BY <2>1, <2>2, ChangeType DEF SetPub
  <1>7. UpdatePantry(p) \in Change
    <2> DEFINE coalesce(x, old) == IF x = NULL THEN old ELSE x
               updated(r) == [r EXCEPT !.amount = coalesce(req[p].stock, @),
                                       !.target = coalesce(req[p].target, @)]
               rows == PantryRowsAt(db, p)
    <2>1. \A r \in PantryRow : updated(r) \in PantryRow
      BY <1>1 DEF Request, PantryRow
    <2>2. rows \subseteq PantryRow
      BY DEF TypeOK, Store, PantryRowsAt
    <2>3. UpdatePantry(p) = OnPantry(rows, {updated(r) : r \in rows})
      BY DEF UpdatePantry
    <2> HIDE DEF updated, rows
    <2>4. {updated(r) : r \in rows} \subseteq PantryRow
      BY <2>1, <2>2
    <2> QED
      BY <2>2, <2>3, <2>4, ChangeType
  <1> QED
    BY <1>3, <1>4, <1>5, <1>6, <1>7

---------------------------------------------------------------------------
(***************************************************************************)
(* The steps that handlers are made of keep the types.                     *)
(***************************************************************************)
SequenceType == [list : Nat, content : Nat, pantry : Nat \ {0}]

\* Moving to another statement.
LEMMA GotoType ==
  ASSUME TypeOK, NEW p \in Workers, NEW label \in Labels, Goto(p, label)
  PROVE  /\ pc' \in [Workers -> Labels]
         /\ answer' \in [Workers -> Answers]
  BY DEF TypeOK, Goto

\* Answering and rolling back.
LEMMA RespondType ==
  ASSUME TypeOK, NEW p \in Workers, NEW a \in Answers, Respond(p, a)
  PROVE  /\ pc' \in [Workers -> Labels]
         /\ answer' \in [Workers -> Answers]
         /\ tx' \in [Workers -> Change]
  <1>1. "done" \in Labels
    BY DEF Labels
  <1> QED
    BY <1>1, EmptyType DEF TypeOK, Respond

\* Recording the rights of the user.
LEMMA WitnessType ==
  ASSUME TypeOK, NEW p \in Workers, Witness(p)
  PROVE  granted' \in [Workers -> SUBSET {"own", "write", "read", "public"}]
  BY DEF TypeOK, Witness, Rights

\* A statement of a transaction.
LEMMA ExecuteType ==
  ASSUME TypeOK, NEW p \in Workers, NEW d \in Change, NEW inRange,
         NEW label \in Labels, Execute(p, d, inRange, label), next' \in SequenceType
  PROVE  TypeOK'
  <1>1. "Internal" \in Answers
    BY DEF Answers
  <1>2. CASE Respond(p, "Internal")
    BY <1>1, <1>2, RespondType DEF TypeOK, Execute, SequenceType
  <1>3. CASE tx' = [tx EXCEPT ![p] = Then(@, d)] /\ Goto(p, label)
    <2>1. tx[p] \in Change
      BY DEF TypeOK
    <2>2. Then(tx[p], d) \in Change
      BY <2>1, ThenType
    <2>3. tx' \in [Workers -> Change]
      BY <1>3, <2>2 DEF TypeOK
    <2> QED
      BY <1>3, <2>3, GotoType DEF TypeOK, Execute, SequenceType
  <1> QED
    BY <1>2, <1>3 DEF Execute

\* Answering after a commit.
LEMMA CommittedType ==
  ASSUME TypeOK, NEW p \in Workers, Committed(p)
  PROVE  /\ pc' \in [Workers -> Labels]
         /\ answer' \in [Workers -> Answers]
         /\ tx' \in [Workers -> Change]
  <1>1. "ok" \in Answers /\ "Internal" \in Answers
    BY DEF Answers
  <1> QED
    BY <1>1, RespondType DEF Committed

\* A statement of the pool.
LEMMA AutocommitType ==
  ASSUME TypeOK, NEW p \in Workers, NEW d \in Change, NEW inRange,
         Autocommit(p, d, inRange), next' \in SequenceType
  PROVE  TypeOK'
  <1>1. "Internal" \in Answers
    BY DEF Answers
  <1>2. CASE Respond(p, "Internal") /\ UNCHANGED db
    BY <1>1, <1>2, RespondType DEF TypeOK, Autocommit, SequenceType
  <1>3. CASE db' = Apply(db, d) /\ Committed(p)
    <2>1. db' \in Store
      BY <1>3, ApplyType DEF TypeOK
    <2> QED
      BY <1>3, <2>1, CommittedType DEF TypeOK, Autocommit, SequenceType
  <1> QED
    BY <1>2, <1>3 DEF Autocommit

\* Committing a transaction.
LEMMA CommitType ==
  ASSUME TypeOK, NEW p \in Workers, Commit(p)
  PROVE  TypeOK'
  <1>1. db' \in Store
    BY ViewType DEF Commit
  <1> QED
    BY <1>1, CommittedType DEF TypeOK, Commit

\* Taking a connection.
LEMMA BeginType ==
  ASSUME TypeOK, NEW p \in Workers, NEW label \in Labels, Begin(p, label)
  PROVE  TypeOK'
  BY GotoType DEF TypeOK, Begin

\* Reading rows, on the way and at the end.
LEMMA SelectType ==
  ASSUME TypeOK, NEW p \in Workers, NEW found \in Store, NEW label \in Labels,
         Select(p, found, label) \/ SelectLast(p, found)
  PROVE  TypeOK'
  <1>1. Both(seen[p], found) \in Store
    BY BothType DEF TypeOK
  <1>2. seen' \in [Workers -> Store]
    BY <1>1 DEF TypeOK, Select, SelectLast
  <1>3. "ok" \in Answers
    BY DEF Answers
  <1>4. CASE Select(p, found, label)
    BY <1>2, <1>4, GotoType DEF TypeOK, Select
  <1>5. CASE SelectLast(p, found)
    BY <1>2, <1>3, <1>5, RespondType DEF TypeOK, SelectLast
  <1> QED
    BY <1>4, <1>5

\* The permission checks.
LEMMA IsOwnerType ==
  ASSUME TypeOK, NEW p \in Workers, NEW label \in Labels, IsOwner(p, label)
  PROVE  TypeOK'
  <1>1. "NoSuchList" \in Answers
    BY DEF Answers
  <1>2. granted' \in [Workers -> SUBSET {"own", "write", "read", "public"}]
    BY WitnessType DEF IsOwner
  <1> QED
    BY <1>1, <1>2, GotoType, RespondType DEF TypeOK, IsOwner

\* check_list, with its second SELECT.
LEMMA CheckListType ==
  ASSUME TypeOK, NEW p \in Workers, NEW write, NEW label \in Labels,
         CheckList(p, write, label)
  PROVE  TypeOK'
  <1>1. "NoSuchList" \in Answers /\ "NotWritable" \in Answers /\ "check_shared" \in Labels
    BY DEF Answers, Labels, Lookups
  <1>2. granted' \in [Workers -> SUBSET {"own", "write", "read", "public"}]
    BY WitnessType DEF CheckList
  <1>3. UNCHANGED <<db, req, seen, next>>
    BY DEF CheckList
  <1>4. \/ \E l \in Labels : Goto(p, l) /\ UNCHANGED tx
        \/ \E a \in Answers : Respond(p, a)
    BY <1>1 DEF CheckList
  <1> QED
    BY <1>2, <1>3, <1>4, GotoType, RespondType DEF TypeOK

---------------------------------------------------------------------------
(***************************************************************************)
(* Every step keeps the types.                                             *)
(***************************************************************************)
\* The empty store and the sets of rows that handlers read are stores.
LEMMA FoundType ==
  ASSUME TypeOK, NEW p \in Workers
  PROVE  /\ [Empty EXCEPT !.content = OfList(db.content, req[p].list)] \in Store
         /\ [Empty EXCEPT !.content = ItemRows(db, p)] \in Store
         /\ [Empty EXCEPT !.sharing = OfList(db.sharing, req[p].list)] \in Store
         /\ [Empty EXCEPT !.sharing = ShareRows(req[p].user, req[p].list)] \in Store
         /\ [Empty EXCEPT !.pantry = OfList(db.pantry, req[p].list)] \in Store
         /\ [Empty EXCEPT !.pantry = Missing(p)] \in Store
  <1>1. /\ OfList(db.content, req[p].list) \subseteq ContentRow
        /\ ItemRows(db, p) \subseteq ContentRow
        /\ OfList(db.sharing, req[p].list) \subseteq ShareRow
        /\ ShareRows(req[p].user, req[p].list) \subseteq ShareRow
        /\ OfList(db.pantry, req[p].list) \subseteq PantryRow
        /\ Missing(p) \subseteq PantryRow
    BY DEF TypeOK, Store, OfList, ItemRows, ShareRows, Missing
  <1>2. /\ \A R \in SUBSET ContentRow : [Empty EXCEPT !.content = R] \in Store
        /\ \A R \in SUBSET ShareRow : [Empty EXCEPT !.sharing = R] \in Store
        /\ \A R \in SUBSET PantryRow : [Empty EXCEPT !.pantry = R] \in Store
    BY EmptyType DEF Store
  <1> QED
    BY <1>1, <1>2

\* The UPDATE of a name runs only when the request has one: without it the
\* types are no inductive invariant, since items have a name.
NameGiven == \A p \in Workers : pc[p] = "update_name" => req[p].name # NULL

\* The handlers of list.rs.
LEMMA ListHandlersType ==
  ASSUME TypeOK, NameGiven, NEW p \in Workers,
         \/ CreateList(p) \/ ReadList(p) \/ AddList(p) \/ UpdateItem(p) \/ DeleteItem(p)
         \/ DeleteList(p) \/ SetPublic(p) \/ RemovePublic(p) \/ GetPublicList(p)
  PROVE  TypeOK'
  <1> USE DEF Labels, Lookups, Statements
  <1>1. next \in SequenceType
    BY DEF TypeOK, SequenceType
  <1>2. CASE CreateList(p)
    <2>1. req[p].op \in Operations /\ req[p].op = "create_list"
      BY <1>2 DEF CreateList, At, Operations
    <2>2. CASE At(p, "create_list", "count_names")
      <3>1. "ListAlreadyExists" \in Answers
        BY DEF Answers
      <3>2. UNCHANGED <<db, req, seen, next, granted>>
        BY <1>2, <2>2 DEF CreateList, At
      <3>3. \/ Goto(p, "insert_list") /\ UNCHANGED tx
            \/ Respond(p, "ListAlreadyExists")
        BY <1>2, <2>2 DEF CreateList, At
      <3> QED
        BY <3>1, <3>2, <3>3, GotoType, RespondType DEF TypeOK
    <2>3. CASE At(p, "create_list", "insert_list")
      <3>1. next' \in SequenceType
        BY <1>1, <1>2, <2>3 DEF CreateList, At, SequenceType
      <3>2. Autocommit(p, InsertList(p), TRUE)
        BY <1>2, <2>3 DEF CreateList, At
      <3> QED
        BY <2>1, <3>1, <3>2, InsertsType, AutocommitType
    <2> QED
      BY <1>2, <2>2, <2>3 DEF CreateList
  <1>3. CASE ReadList(p)
    BY <1>3, CheckListType, SelectType, FoundType DEF ReadList
  <1>4. CASE AddList(p)
    <2>1. req[p].op \in Operations /\ req[p].op = "add_list"
      BY <1>4 DEF AddList, Operations
    <2>2. InsertContent(p) \in Change /\ UpsertHistory(p) \in Change
      BY <2>1, InsertsType
    <2>3. CASE CheckList(p, TRUE, "begin") \/ Begin(p, "insert_content") \/ Commit(p)
      BY <2>3, CheckListType, BeginType, CommitType
    <2>4. CASE /\ Execute(p, InsertContent(p), TRUE, "upsert_history")
               /\ next' = [next EXCEPT !.content = @ + 1]
      <3>1. next' \in SequenceType
        BY <1>1, <2>4 DEF SequenceType
      <3> QED
        BY <2>2, <2>4, <3>1, ExecuteType
    <2>5. CASE Execute(p, UpsertHistory(p), TRUE, "commit") /\ UNCHANGED next
      BY <1>1, <2>2, <2>5, ExecuteType
    <2> QED
      BY <1>4, <2>3, <2>4, <2>5 DEF AddList
  <1>5. CASE UpdateItem(p)
    <2> DEFINE rest == IF req[p].amount = NULL THEN "commit" ELSE "update_amount"
    <2>1. req[p].op \in Operations
      BY <1>5 DEF UpdateItem, Operations
    <2>2. rest \in Labels /\ (IF req[p].name = NULL THEN rest ELSE "update_name") \in Labels
      OBVIOUS
    <2>3. CASE CheckList(p, TRUE, "begin") \/ Commit(p)
      BY <2>3, CheckListType, CommitType
    <2>4. CASE Begin(p, IF req[p].name = NULL THEN rest ELSE "update_name")
      BY <2>2, <2>4, BeginType
    <2>5. CASE /\ pc[p] = "update_name"
               /\ Execute(p, UpdateName(p), TRUE, rest) /\ UNCHANGED next
      <3>1. UpdateName(p) \in Change
        BY <2>1, <2>5, UpdatesType DEF NameGiven
      <3> QED
        BY <1>1, <2>2, <2>5, <3>1, ExecuteType
    <2>6. CASE Execute(p, UpdateAmount(p), TRUE, "commit") /\ UNCHANGED next
      BY <1>1, <2>1, <2>6, UpdatesType, ExecuteType
    <2> QED
      BY <1>5, <2>3, <2>4, <2>5, <2>6 DEF UpdateItem
  <1>6. CASE DeleteItem(p)
    <2>1. req[p].op \in Operations
      BY <1>6 DEF DeleteItem, Operations
    <2>2. CASE CheckList(p, TRUE, "begin") \/ Begin(p, "read_item") \/ Commit(p)
      BY <2>2, CheckListType, BeginType, CommitType
    <2>3. CASE Select(p, [Empty EXCEPT !.content = ItemRows(db, p)], "credit_pantry")
      BY <2>3, SelectType, FoundType
    <2>4. CASE /\ Execute(p, CreditPantry(p), CreditInRange(p), "delete_item")
               /\ UNCHANGED next
      BY <1>1, <2>1, <2>4, UpdatesType, ExecuteType
    <2>5. CASE Execute(p, DeleteItemRow(p), TRUE, "commit") /\ UNCHANGED next
      BY <1>1, <2>5, DeletesType, ExecuteType
    <2> QED
      BY <1>6, <2>2, <2>3, <2>4, <2>5 DEF DeleteItem
  <1>7. CASE DeleteList(p)
    <2>1. CASE IsOwner(p, "begin") \/ Begin(p, "delete_sharing") \/ Commit(p)
      BY <2>1, IsOwnerType, BeginType, CommitType
    <2>2. CASE /\ UNCHANGED next
               /\ \/ Execute(p, DeleteSharing(p), TRUE, "delete_contents")
                  \/ Execute(p, DeleteContents(p), TRUE, "delete_history")
                  \/ Execute(p, DeleteHistory(p), TRUE, "delete_list")
                  \/ Execute(p, DeleteListRow(p), TRUE, "commit")
      BY <1>1, <2>2, DeletesType, ExecuteType
    <2> QED
      BY <1>7, <2>1, <2>2 DEF DeleteList
  <1>8. CASE SetPublic(p)
    <2>1. SetPub(p, TRUE) \in Change
      BY <1>8, UpdatesType DEF SetPublic, Operations
    <2> QED
      BY <1>1, <1>8, <2>1, IsOwnerType, BeginType, AutocommitType DEF SetPublic
  <1>9. CASE RemovePublic(p)
    <2>1. SetPub(p, FALSE) \in Change
      BY <1>9, UpdatesType DEF RemovePublic, Operations
    <2> QED
      BY <1>1, <1>9, <2>1, IsOwnerType, BeginType, AutocommitType DEF RemovePublic
  <1>10. CASE GetPublicList(p)
    <2>1. CASE pc[p] = "select_pub"
      <3>1. "Internal" \in Answers /\ "NotFound" \in Answers
        BY DEF Answers
      <3>2. UNCHANGED <<db, req, seen, next>> /\ Witness(p)
        BY <1>10, <2>1 DEF GetPublicList
      <3>3. \/ Goto(p, "select_public_content") /\ UNCHANGED tx
            \/ \E a \in Answers : Respond(p, a)
        BY <1>10, <2>1, <3>1 DEF GetPublicList
      <3> QED
        BY <3>2, <3>3, GotoType, RespondType, WitnessType DEF TypeOK
    <2>2. CASE SelectLast(p, [Empty EXCEPT !.content = OfList(db.content, req[p].list)])
      BY <2>2, SelectType, FoundType
    <2> QED
      BY <1>10, <2>1, <2>2 DEF GetPublicList
  <1> QED
    BY <1>2, <1>3, <1>4, <1>5, <1>6, <1>7, <1>8, <1>9, <1>10

\* The handlers of share.rs.
LEMMA ShareHandlersType ==
  ASSUME TypeOK, NEW p \in Workers,
         GetShares(p) \/ ShareList(p) \/ Unshare(p) \/ DeleteShares(p)
  PROVE  TypeOK'
  <1> USE DEF Labels, Lookups, Statements
  <1>1. next \in SequenceType
    BY DEF TypeOK, SequenceType
  <1>2. CASE GetShares(p)
    BY <1>2, CheckListType, SelectType, FoundType DEF GetShares
  <1>3. CASE ShareList(p)
    <2>1. InsertSharing(p) \in Change
      BY <1>3, InsertsType DEF ShareList, Operations
    <2> QED
      BY <1>1, <1>3, <2>1, CheckListType, BeginType, AutocommitType DEF ShareList
  <1>4. CASE Unshare(p)
    BY <1>1, <1>4, DeletesType, IsOwnerType, BeginType, ExecuteType, CommitType
       DEF Unshare
  <1>5. CASE DeleteShares(p)
    BY <1>1, <1>5, DeletesType, IsOwnerType, BeginType, ExecuteType, CommitType
       DEF DeleteShares
  <1> QED
    BY <1>2, <1>3, <1>4, <1>5

\* The handlers of pantry.rs.
LEMMA PantryHandlersType ==
  ASSUME TypeOK, NEW p \in Workers,
         \/ GetPantry(p) \/ AddToPantry(p) \/ SetPantryItem(p)
         \/ DeletePantryItem(p) \/ RefillPantry(p)
  PROVE  TypeOK'
  <1> USE DEF Labels, Lookups, Statements
  <1>1. next \in SequenceType
    BY DEF TypeOK, SequenceType
  <1>2. CASE GetPantry(p)
    BY <1>2, CheckListType, SelectType, FoundType DEF GetPantry
  <1>3. CASE AddToPantry(p)
    <2>1. req[p].op \in Operations /\ req[p].op = "add_to_pantry"
      BY <1>3 DEF AddToPantry, Operations
    <2>2. CASE Autocommit(p, InsertPantry(p), TRUE) /\ next' = [next EXCEPT !.pantry = @ + 1]
      <3>1. next' \in SequenceType
        BY <1>1, <2>2 DEF SequenceType
      <3> QED
        BY <2>1, <2>2, <3>1, InsertsType, AutocommitType
    <2> QED
      BY <1>3, <2>2, CheckListType, BeginType DEF AddToPantry
  <1>4. CASE SetPantryItem(p)
    <2>1. UpdatePantry(p) \in Change
      BY <1>4, UpdatesType DEF SetPantryItem, Operations
    <2> QED
      BY <1>1, <1>4, <2>1, CheckListType, BeginType, AutocommitType DEF SetPantryItem
  <1>5. CASE DeletePantryItem(p)
    <2>1. CASE \/ Execute(p, DeleteRefills(p), TRUE, "delete_pantry") /\ UNCHANGED next
               \/ Execute(p, DeletePantryRow(p), TRUE, "commit") /\ UNCHANGED next
      BY <1>1, <2>1, DeletesType, ExecuteType
    <2> QED
      BY <1>5, <2>1, CheckListType, BeginType, CommitType DEF DeletePantryItem
  <1>6. CASE RefillPantry(p)
    <2>1. CASE Select(p, [Empty EXCEPT !.pantry = Missing(p)], "insert_refill")
      BY <2>1, SelectType, FoundType
    <2>2. CASE pc[p] = "insert_refill"
      <3>1. next' \in SequenceType
        BY <1>1, <1>6, <2>2 DEF RefillPantry, SequenceType, CheckList, Begin
      <3>2. InsertRefill(p) \in Change
        BY <1>6, InsertsType DEF RefillPantry, Operations
      <3> QED
        BY <1>6, <2>2, <3>1, <3>2, AutocommitType DEF RefillPantry, CheckList, Begin
    <2> QED
      BY <1>6, <2>1, <2>2, CheckListType, BeginType DEF RefillPantry
  <1> QED
    BY <1>2, <1>3, <1>4, <1>5, <1>6

\* The handlers that search.
LEMMA SearchHandlersType ==
  ASSUME TypeOK, NEW p \in Workers, ListLists(p) \/ HistorySearch(p)
  PROVE  TypeOK'
  <1>1. "select_shared" \in Labels
    BY DEF Labels, Lookups
  <1> DEFINE owned == Matching(p, OwnedLists(db, req[p].user))
             lists == Matching(p, SharedLists(db, req[p].user))
             shares == {r \in SharesOf(db, req[p].user) : \E l \in lists : l.id = r.list}
             names == {r \in OfList(db.history, req[p].list) :
                         r.creator = req[p].user /\ r.name \in Like(req[p].name)}
  <1>2. owned \subseteq ListRow /\ lists \subseteq ListRow
    BY DEF TypeOK, Store, Matching, OwnedLists, SharedLists
  <1>3. shares \subseteq ShareRow /\ names \subseteq HistoryRow
    BY DEF TypeOK, Store, SharesOf, OfList
  <1> HIDE DEF owned, lists, shares, names
  <1>4. /\ [Empty EXCEPT !.lists = owned] \in Store
        /\ [Empty EXCEPT !.lists = lists, !.sharing = shares] \in Store
        /\ [Empty EXCEPT !.history = names] \in Store
    BY <1>2, <1>3 DEF Empty, Store
  <1>5. CASE ListLists(p)
    <2>1. \/ Select(p, [Empty EXCEPT !.lists = owned], "select_shared")
          \/ SelectLast(p, [Empty EXCEPT !.lists = lists, !.sharing = shares])
      BY <1>5 DEF ListLists, owned, lists, shares
    <2> QED
      BY <1>1, <1>4, <2>1, SelectType
  <1>6. CASE HistorySearch(p)
    <2>1. SelectLast(p, [Empty EXCEPT !.history = names])
      BY <1>6 DEF HistorySearch, names
    <2> QED
      BY <1>1, <1>4, <2>1, SelectType
  <1> QED
    BY <1>5, <1>6

\* Requests that arrive, leave, are cancelled, fail or lose a deadlock.
LEMMA ComingsAndGoingsType ==
  ASSUME TypeOK, NEW p \in Workers,
         Arrive(p) \/ Deliver(p) \/ Cancel(p) \/ Fail(p) \/ Deadlock(p)
  PROVE  TypeOK'
  <1>1. "none" \in Answers /\ "Internal" \in Answers /\ "check_shared" \in Labels
    BY DEF Answers, Labels, Lookups
  <1>2. CASE Arrive(p)
    <2>1. PICK r \in RequestSet : /\ req' = [req EXCEPT ![p] = r]
                                  /\ pc' = [pc EXCEPT ![p] = First(r.op)]
      BY <1>2 DEF Arrive
    <2>2. First(r.op) \in Labels
      BY DEF First, Labels, Lookups
    <2> QED
      BY <1>2, <2>1, <2>2 DEF Arrive, TypeOK
  <1>3. CASE Deliver(p) \/ Cancel(p)
    <2>1. Leave(p)
      BY <1>3 DEF Deliver, Cancel
    <2>2. "idle" \in Labels
      BY DEF Labels
    <2> QED
      BY <1>1, <2>1, <2>2, EmptyType DEF Leave, TypeOK
  <1>4. CASE Fail(p) \/ Deadlock(p)
    <2>1. UNCHANGED <<db, req, seen, next, granted>>
      BY <1>4 DEF Fail, Deadlock
    <2>2. \/ Goto(p, "check_shared") /\ UNCHANGED tx
          \/ Respond(p, "Internal")
      BY <1>4 DEF Fail, Deadlock
    <2> QED
      BY <1>1, <2>1, <2>2, GotoType, RespondType DEF TypeOK
  <1> QED
    BY <1>2, <1>3, <1>4

---------------------------------------------------------------------------
(***************************************************************************)
(* The invariant.                                                          *)
(***************************************************************************)
TypeInv == TypeOK /\ NameGiven

\* It holds at the start.
LEMMA InitTypeInv == Init => TypeInv
  <1> SUFFICES ASSUME Init PROVE TypeInv
    OBVIOUS
  <1>1. next \in SequenceType
    BY StoreAssumption, FS_CardinalityType DEF Init, SequenceType
  <1>2. "idle" \in Labels /\ "none" \in Answers
    BY DEF Labels, Answers
  <1> QED
    BY <1>1, <1>2, EmptyType, StoreAssumption
    DEF Init, TypeInv, TypeOK, NameGiven, SequenceType

\* Every step keeps it.
LEMMA NextTypeInv == TypeInv /\ [Next]_vars => TypeInv'
  <1> SUFFICES ASSUME TypeInv, [Next]_vars PROVE TypeInv'
    OBVIOUS
  <1> USE DEF TypeInv
  <1>1. CASE UNCHANGED vars
    BY <1>1 DEF vars, TypeOK, NameGiven
  <1>2. ASSUME NEW p \in Workers, Arrive(p) \/ Serve(p) \/ Cancel(p) \/ Fail(p)
        PROVE  TypeInv'
    <2>1. TypeOK'
      BY <1>2, ListHandlersType, ShareHandlersType, PantryHandlersType,
         SearchHandlersType, ComingsAndGoingsType DEF Serve, Handle
    <2>2. NameGiven'
      <3>1. CASE Handle(p) \/ Fail(p)
        BY <3>1, HandleMoves DEF Moved, NameGiven, TypeOK
      <3>2. CASE Arrive(p)
        BY <3>2 DEF Arrive, First, NameGiven, TypeOK
      <3>3. CASE Deliver(p) \/ Cancel(p)
        BY <3>3 DEF Deliver, Cancel, Leave, NameGiven, TypeOK
      <3>4. CASE Deadlock(p)
        BY <3>4 DEF Deadlock, Respond, NameGiven, TypeOK
      <3> QED
        BY <1>2, <3>1, <3>2, <3>3, <3>4 DEF Serve
    <2> QED
      BY <2>1, <2>2
  <1> QED
    BY <1>1, <1>2 DEF Next

\* All values keep their types: no row with a missing column and no answer,
\* statement or right the server does not know.
THEOREM TypeCorrect == Spec => []TypeOK
  <1>1. Spec => []TypeInv
    BY InitTypeInv, NextTypeInv, PTL DEF Spec
  <1> QED
    BY <1>1, PTL DEF TypeInv

\* A request changes the database in its last step or not at all, so what
\* fails, is cancelled or loses a deadlock before leaves nothing behind.
THEOREM Atomic == Spec => AllOrNothing
  <1>1. TypeInv /\ [Next]_vars =>
          (db' # db => \E p \in Workers : pc[p] # "done" /\ pc'[p] = "done")
    <2> SUFFICES ASSUME TypeInv, Next, db' # db
                 PROVE  \E p \in Workers : pc[p] # "done" /\ pc'[p] = "done"
      BY DEF vars
    <2>1. PICK p \in Workers : Arrive(p) \/ Serve(p) \/ Cancel(p) \/ Fail(p)
      BY DEF Next
    <2>2. Handle(p) \/ Fail(p)
      BY <2>1 DEF Serve, Arrive, Deliver, Cancel, Leave, Deadlock
    <2>3. pc[p] # "done" /\ pc' = [pc EXCEPT ![p] = "done"]
      BY <2>2, HandleMoves DEF Moved
    <2> QED
      BY <2>3 DEF TypeInv, TypeOK
  <1> QED
    BY <1>1, InitTypeInv, NextTypeInv, PTL DEF Spec, AllOrNothing
===========================================================================

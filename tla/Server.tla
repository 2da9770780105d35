------------------------------- MODULE Server -----------------------------
(***************************************************************************)
(* The KabaList API server: workers that serve the list, share and pantry  *)
(* routes over one PostgreSQL database, the failures they meet, and what   *)
(* must be true of it all.                                                 *)
(***************************************************************************)
EXTENDS SearchHandlers, ShareHandlers, PantryHandlers

CONSTANTS MaxLists, MaxItems, MaxPantry  \* bounds: no request that creates one
                                         \* arrives once so many ids are used

ASSUME BoundAssumption == MaxLists \in Nat /\ MaxItems \in Nat /\ MaxPantry \in Nat

Idle == [op |-> "idle"]

Init ==
  /\ db = InitialStore
  /\ tx = [p \in Workers |-> NoChange]
  /\ pc = [p \in Workers |-> "idle"]
  /\ req = [p \in Workers |-> Idle]
  /\ answer = [p \in Workers |-> "none"]
  /\ seen = [p \in Workers |-> Empty]
  /\ next = [list    |-> 1 + Cardinality(InitialStore.lists),
             content |-> 1 + Cardinality(InitialStore.content),
             pantry  |-> 1 + Cardinality(InitialStore.pantry)]
  /\ granted = [p \in Workers |-> {}]

---------------------------------------------------------------------------
(***************************************************************************)
(* Requests come and go.                                                   *)
(***************************************************************************)
\* The first statement of a handler.
First(op) == CASE op = "create_list"     -> "count_names"
               [] op = "get_public_list" -> "select_pub"
               [] op \in {"list_lists", "search_list"} -> "select_owned"
               [] op = "history_search"  -> "select_history"
               [] OTHER                  -> "is_owner"

HasRoom(r) ==
  /\ r.op = "create_list" => next.list <= MaxLists
  /\ r.op \in {"add_list", "refill_pantry"} => next.content <= MaxItems
  /\ r.op = "add_to_pantry" => next.pantry <= MaxPantry

Arrive(p) ==
  /\ pc[p] = "idle"
  /\ \E r \in RequestSet : /\ HasRoom(r)
                           /\ req' = [req EXCEPT ![p] = r]
                           /\ pc' = [pc EXCEPT ![p] = First(r.op)]
  /\ UNCHANGED <<db, tx, answer, seen, next, granted>>

\* The worker is free again; an open transaction is rolled back.
Leave(p) ==
  /\ pc' = [pc EXCEPT ![p] = "idle"]
  /\ req' = [req EXCEPT ![p] = Idle]
  /\ answer' = [answer EXCEPT ![p] = "none"]
  /\ seen' = [seen EXCEPT ![p] = Empty]
  /\ granted' = [granted EXCEPT ![p] = {}]
  /\ tx' = [tx EXCEPT ![p] = NoChange]
  /\ UNCHANGED <<db, next>>

Deliver(p) == pc[p] = "done" /\ Leave(p)

\* The client goes away and axum drops the handler at an await point.
Cancel(p) == Failures /\ pc[p] \notin {"idle", "done"} /\ Leave(p)

---------------------------------------------------------------------------
(***************************************************************************)
(* Failures.                                                               *)
(***************************************************************************)
\* sqlx returns an error: the connection broke, or the pool had none to give
\* in time.  check_list takes an error of is_owner for "not the owner".
Fail(p) ==
  /\ Failures /\ pc[p] \notin {"idle", "done"}
  /\ IF pc[p] = "is_owner" /\ req[p].op \in Reading \cup Writing
     THEN Goto(p, "check_shared") /\ UNCHANGED tx
     ELSE Respond(p, "Internal")
  /\ UNCHANGED <<db, req, seen, next, granted>>

\* The change the next statement of p makes, or would make.
Pending(p) ==
  CASE pc[p] = "insert_content"        -> InsertContent(p)
    [] pc[p] = "upsert_history"        -> UpsertHistory(p)
    [] pc[p] = "update_name"           -> UpdateName(p)
    [] pc[p] = "update_amount"         -> UpdateAmount(p)
    [] pc[p] = "credit_pantry"         -> CreditPantry(p)
    [] pc[p] = "delete_item"           -> DeleteItemRow(p)
    [] pc[p] = "delete_sharing"        -> DeleteSharing(p)
    [] pc[p] = "delete_contents"       -> DeleteContents(p)
    [] pc[p] = "delete_history"        -> DeleteHistory(p)
    [] pc[p] = "delete_list"           -> DeleteListRow(p)
    [] pc[p] = "set_pub"               -> SetPub(p, req[p].op = "set_public")
    [] pc[p] = "insert_sharing"        -> InsertSharing(p)
    [] pc[p] = "delete_share"          -> DeleteShare(p)
    [] pc[p] = "delete_history_of"     -> DeleteHistoryOf(p)
    [] pc[p] = "delete_history_others" -> DeleteHistoryOthers(p)
    [] pc[p] = "insert_pantry"         -> InsertPantry(p)
    [] pc[p] = "update_pantry"         -> UpdatePantry(p)
    [] pc[p] = "delete_refills"        -> DeleteRefills(p)
    [] pc[p] = "delete_pantry"         -> DeletePantryRow(p)
    [] pc[p] = "insert_refill"         -> InsertRefill(p)
    [] OTHER                           -> NoChange

WaitsFor(p) == {q \in Workers \ {p} : Conflict(Pending(p), tx[q])}

\* A set of transactions that wait for each other in a ring.
Ring(S) == \A p \in S : /\ WaitsFor(p) \cap S # {}
                        /\ \E q \in S : p \in WaitsFor(q)

\* PostgreSQL finds a deadlock and aborts one of its transactions, which has
\* changed what others wait for.
Deadlock(p) ==
  /\ tx[p] # NoChange
  /\ \E S \in SUBSET Workers : p \in S /\ Ring(S)
  /\ Respond(p, "Internal")
  /\ UNCHANGED <<db, req, seen, next, granted>>

---------------------------------------------------------------------------
Handle(p) ==
  \/ CreateList(p) \/ ReadList(p) \/ AddList(p) \/ UpdateItem(p) \/ DeleteItem(p)
  \/ DeleteList(p) \/ SetPublic(p) \/ RemovePublic(p) \/ GetPublicList(p)
  \/ GetShares(p) \/ ShareList(p) \/ Unshare(p) \/ DeleteShares(p)
  \/ GetPantry(p) \/ AddToPantry(p) \/ SetPantryItem(p) \/ DeletePantryItem(p)
  \/ RefillPantry(p) \/ ListLists(p) \/ HistorySearch(p)

Serve(p) == Deliver(p) \/ Handle(p) \/ Deadlock(p)

Next == \E p \in Workers : Arrive(p) \/ Serve(p) \/ Cancel(p) \/ Fail(p)

Spec == Init /\ [][Next]_vars

\* Row locks are granted and connections handed out in the order they were
\* asked for, so a request that can go on again and again does go on.
FairSpec == Spec /\ \A p \in Workers : SF_vars(Serve(p))
---------------------------------------------------------------------------
(***************************************************************************)
(* Types.                                                                  *)
(***************************************************************************)
TypeOK ==
  /\ db \in Store
  /\ tx \in [Workers -> Change]
  /\ pc \in [Workers -> Labels]
  /\ req \in [Workers -> RequestSet \cup {Idle}]
  /\ answer \in [Workers -> Answers]
  /\ seen \in [Workers -> Store]
  /\ next \in [list : Nat, content : Nat, pantry : Nat \ {0}]
  /\ granted \in [Workers -> SUBSET {"own", "write", "read", "public"}]

---------------------------------------------------------------------------
(***************************************************************************)
(* What the server promises whatever the interleaving.                     *)
(***************************************************************************)
\* Everything the store holds about list l.
Slice(s, l) == <<{r \in s.lists : r.id = l}, OfList(s.sharing, l),
                 OfList(s.content, l), OfList(s.history, l), OfList(s.pantry, l)>>

\* What is stored about a list changes only by a request on that very list,
\* of a user who had the right to it when the request was checked, or by the
\* creation of the list.  The check is a statement apart from the change
\* (check_list, then the transaction), and the item ids of a request may be
\* stale or belong to another list.
Authorised ==
  [][\A l \in ListIds(db) \cup ListIds(db') :
       Slice(db, l) # Slice(db', l) =>
         \E p \in Workers :
           /\ pc'[p] # pc[p]
           /\ \/ /\ req[p].op \in Owning \cup Writing
                 /\ req[p].list = l
                 /\ Needed(req[p].op) \in granted[p]
              \/ /\ req[p].op = "create_list"
                 /\ l \notin ListIds(db)
                 /\ Owns(db', req[p].user, l)]_vars

\* A request changes the database in one step, its last: whatever fails or is
\* cancelled before, or loses a deadlock, leaves nothing behind (the
\* transactions of the handlers with more than one write).
AllOrNothing ==
  [][db' # db => \E p \in Workers : pc[p] # "done" /\ pc'[p] = "done"]_vars

\* Rows of a list are shown only to a user who could read it when that was
\* checked, or to anyone if it was public then, and only rows of that list.
\* What is listed or found without a check is the user's own, or shared.
Disclosed ==
  \A p \in Workers : answer[p] = "ok" =>
    IF Needed(req[p].op) # "none"
    THEN /\ Needed(req[p].op) \in granted[p]
         /\ \A r \in seen[p].content \cup seen[p].sharing \cup seen[p].pantry :
              r.list = req[p].list
    ELSE /\ \A r \in seen[p].lists :
              \/ r.owner = req[p].user
              \/ \E t \in seen[p].sharing : t.list = r.id /\ t.shared = req[p].user
         /\ \A r \in seen[p].history : r.list = req[p].list /\ r.creator = req[p].user

\* No share changes between read-only and writable in place (ON CONFLICT DO
\* NOTHING of share_list): it takes an unshare, which is committed first.
SharesKeepRight ==
  [][\A r \in db.sharing, t \in db'.sharing :
       r.list = t.list /\ r.shared = t.shared => r = t]_vars

\* No row outlives what it refers to, and an item that a refill made belongs
\* to the list of its pantry item.  delete_list and delete_pantry_item remove
\* the referring rows by statements of their own, between which others insert;
\* the second half is no foreign key, since from_pantry refers to item alone.
NoOrphans ==
  /\ \A r \in db.sharing \cup db.content \cup db.history \cup db.pantry :
       r.list \in ListIds(db)
  /\ \A c \in db.content : c.from_pantry # NoItem =>
       \E r \in db.pantry : r.item = c.from_pantry /\ r.list = c.list

\* Two transactions wait for each other only if one of them removes a list or
\* a pantry item: delete_list takes the history before the list, add_list the
\* list before the history; delete_pantry_item takes items before the pantry
\* row, delete_item the other way round.  All others write their tables in one
\* order, so no user loses a deadlock to them.
RingsNeedRemoval ==
  \A p, q \in Workers :
    p # q /\ q \in WaitsFor(p) /\ p \in WaitsFor(q) =>
      {req[p].op, req[q].op} \cap {"delete_list", "delete_pantry_item"} # {}

\* Every request is answered, unless its client leaves: whoever waits for a
\* row or for a connection of the pool gets it.
Answered == \A p \in Workers : pc[p] \notin {"idle", "done"} ~> pc[p] \in {"idle", "done"}

---------------------------------------------------------------------------
(***************************************************************************)
(* What it promises when requests do not overlap (one worker).             *)
(***************************************************************************)
\* The history of a list holds names entered by its owner and by those it is
\* shared with, nobody else: unshare and delete_shares drop the rest.
HistoryOfMembers ==
  \A h \in db.history : Owns(db, h.creator, h.list) \/ SharedWith(db, h.creator, h.list)

\* No user owns two lists of one name: "list already exists" is the answer to
\* the second request for it.
UniqueNames ==
  \A r, t \in db.lists : r.owner = t.owner /\ r.name = t.name => r = t

\* Removing an item that a refill made puts its amount into the pantry, once:
\* a pantry row gains exactly what the removed item of its own says.
CreditedOnce ==
  [][\A r \in db.pantry, t \in db'.pantry :
       r.item = t.item /\ (\A p \in Workers : req[p].op # "set_pantry_item") =>
         \/ t.amount = r.amount
         \/ \E c \in db.content \ db'.content :
              c.from_pantry = r.item /\ t.amount = r.amount + Added(c.amount)]_vars

\* A reader who is told that a list is writable, on its page or in the list of
\* all lists, may write to it.
WritableIsHonest ==
  \A p \in Workers : answer[p] = "ok" =>
    \A l \in IF req[p].op = "read_list" THEN {req[p].list} ELSE ListIds(seen[p]) :
      (\A r \in seen[p].sharing : r.list = l => ~ r.readonly) =>
        "write" \in Rights(db, req[p].user, l)

\* NoSuchList, "no such list": the owner of a list is never told so of it.
NoSuchListMeansIt ==
  \A p \in Workers : answer[p] = "NoSuchList" => ~ Owns(db, req[p].user, req[p].list)

\* "List Deleted": deleting a list works when no connection fails.
DeletableLists ==
  \A p \in Workers : req[p].op = "delete_list" => answer[p] # "Internal"

\* "List Not Found": so says the public page of a list that does not exist,
\* when no connection fails.
MissingListIsNotFound ==
  \A p \in Workers :
    pc[p] = "done" /\ req[p].op = "get_public_list" => answer[p] # "Internal"
===========================================================================

-------------------------- MODULE AuthorityProofs --------------------------
(***************************************************************************)
(* Who may do what, however many requests overlap, in every instance of    *)
(* Server: nobody is shown anything but by a right to it (Disclosed), a    *)
(* share never turns from read-only to writable in place                   *)
(* (SharesKeepRight), and what is stored about a list changes only by a    *)
(* request on that list, of a user who had the right to it (Authorised).   *)
(*                                                                         *)
(* The hard part is delete_item: it credits the pantry row that the item   *)
(* names by its number alone, and the item is the one it read earlier.     *)
(***************************************************************************)
EXTENDS ServerProofs

\* The statements that run before a right to the list is established.
Entering == {"idle", "is_owner", "check_shared", "select_pub"}

\* The request of p needs no right, or its user had the one it needs.
Passed(p) == Needed(req[p].op) = "none" \/ Needed(req[p].op) \in granted[p]

Rows(s) == s.content \cup s.sharing \cup s.pantry

\* What p has seen: rows of the list of its request, or what is its user's own
\* or shared with its user.
Proper(p) ==
  IF Needed(req[p].op) # "none"
  THEN \A r \in Rows(seen[p]) : r.list = req[p].list
  ELSE /\ \A r \in seen[p].lists :
            \/ r.owner = req[p].user
            \/ \E t \in seen[p].sharing : t.list = r.id /\ t.shared = req[p].user
       /\ \A r \in seen[p].history : r.list = req[p].list /\ r.creator = req[p].user

\* Who is past the checks has passed them; nobody has seen anything else; and a
\* worker without an answer has shown nothing.
RightsInv ==
  \A p \in Workers :
    /\ pc[p] \notin Entering \cup {"done"} \/ answer[p] = "ok" => Passed(p)
    /\ pc[p] # "done" => answer[p] = "none"
    /\ pc[p] = "idle" => seen[p] = Empty
    /\ Proper(p)

---------------------------------------------------------------------------
(***************************************************************************)
(* The checks.                                                             *)
(***************************************************************************)
\* is_owner lets an owner pass, who has the right "own".
LEMMA IsOwnerPasses ==
  ASSUME TypeOK, NEW p \in Workers, NEW label, IsOwner(p, label),
         req[p].op \in Owning
  PROVE  \/ Passed(p)'
         \/ pc'[p] = "done" /\ answer'[p] = "NoSuchList"
  <1>1. CASE OwnerRows(req[p].user, req[p].list) # {}
    <2>1. Owns(db, req[p].user, req[p].list)
      BY <1>1 DEF OwnerRows, Owns
    <2>2. "own" \in granted'[p] /\ req' = req
      BY <2>1 DEF IsOwner, Witness, Rights, TypeOK
    <2>3. Needed(req[p].op) = "own"
      BY DEF Needed, Owning, Writing, Reading
    <2> QED
      BY <2>2, <2>3 DEF Passed
  <1>2. CASE OwnerRows(req[p].user, req[p].list) = {}
    BY <1>2 DEF IsOwner, Respond, TypeOK
  <1> QED
    BY <1>1, <1>2

\* check_list lets pass an owner, who has every right, or an account the list
\* is shared with, for writing if the operation writes.
LEMMA CheckListPasses ==
  ASSUME TypeOK, NEW p \in Workers, NEW label, NEW write \in BOOLEAN,
         CheckList(p, write, label),
         write => req[p].op \in Writing,
         ~ write => req[p].op \in Reading
  PROVE  \/ Passed(p)'
         \/ pc'[p] = "check_shared" /\ answer' = answer
         \/ pc'[p] = "done" /\ answer'[p] \in {"NoSuchList", "NotWritable"}
  <1> DEFINE right == IF write THEN "write" ELSE "read"
  <1>1. Needed(req[p].op) = right
    BY DEF Needed, Owning, Writing, Reading
  <1>2. ASSUME right \in Rights(db, req[p].user, req[p].list) PROVE Passed(p)'
    <2>1. right \in granted'[p] /\ req' = req
      BY <1>2 DEF CheckList, Witness, TypeOK
    <2> QED
      BY <1>1, <2>1 DEF Passed
  <1>3. CASE pc[p] = "is_owner"
    <2>1. CASE OwnerRows(req[p].user, req[p].list) # {}
      <3>1. Owns(db, req[p].user, req[p].list)
        BY <2>1 DEF OwnerRows, Owns
      <3> QED
        BY <1>2, <3>1 DEF Rights
    <2>2. CASE OwnerRows(req[p].user, req[p].list) = {}
      BY <1>3, <2>2 DEF CheckList, Goto, TypeOK
    <2> QED
      BY <2>1, <2>2
  <1>4. CASE pc[p] = "check_shared"
    <2>1. CASE \E r \in ShareRows(req[p].user, req[p].list) : ~ (r.readonly /\ write)
      <3>1. PICK r \in ShareRows(req[p].user, req[p].list) : ~ (r.readonly /\ write)
        BY <2>1
      <3>2. r \in db.sharing /\ r.list = req[p].list /\ r.shared = req[p].user
        BY DEF ShareRows
      <3>3. SharedWith(db, req[p].user, req[p].list)
        BY <3>2 DEF SharedWith
      <3>4. write => SharedToWrite(db, req[p].user, req[p].list)
        BY <3>1, <3>2 DEF SharedToWrite
      <3> QED
        BY <1>2, <3>3, <3>4 DEF Rights
    <2>2. CASE ~ \E r \in ShareRows(req[p].user, req[p].list) : ~ (r.readonly /\ write)
      BY <1>4, <2>2 DEF CheckList, Respond, TypeOK
    <2> QED
      BY <2>1, <2>2
  <1> QED
    BY <1>3, <1>4 DEF CheckList

\* The public page goes on when the list is public.
LEMMA PublicPasses ==
  ASSUME TypeOK, NEW p \in Workers, GetPublicList(p), pc[p] = "select_pub"
  PROVE  \/ Passed(p)'
         \/ pc'[p] = "done" /\ answer'[p] \in {"Internal", "NotFound"}
  <1>1. req[p].op = "get_public_list" /\ req' = req
    BY DEF GetPublicList
  <1>2. CASE \E r \in db.lists : r.id = req[p].list /\ r.pub
    <2>1. "public" \in granted'[p]
      BY <1>2 DEF GetPublicList, Witness, Rights, TypeOK
    <2> QED
      BY <1>1, <2>1 DEF Passed, Needed, Owning, Writing, Reading
  <1>3. CASE ~ \E r \in db.lists : r.id = req[p].list /\ r.pub
    BY <1>3 DEF GetPublicList, Respond, TypeOK
  <1> QED
    BY <1>2, <1>3

\* Every step of a handler is a check, or comes after it.
LEMMA HandlersCheck ==
  ASSUME NEW p \in Workers, Handle(p)
  PROVE  \/ UNCHANGED <<req, granted>> /\ pc[p] \notin Entering
         \/ req[p].op \in Owning /\ \E l : IsOwner(p, l)
         \/ req[p].op \in Writing /\ \E l : CheckList(p, TRUE, l)
         \/ req[p].op \in Reading /\ \E l : CheckList(p, FALSE, l)
         \/ Needed(req[p].op) = "none" /\ UNCHANGED req
         \/ GetPublicList(p) /\ pc[p] = "select_pub"
  <1> USE DEF Entering, Begin, Execute, Autocommit, Commit, Select, SelectLast
  <1>1. CASE CreateList(p) \/ ListLists(p) \/ HistorySearch(p)
    BY <1>1 DEF CreateList, ListLists, HistorySearch, At, Needed, Owning, Writing, Reading
  <1>2. CASE ReadList(p) \/ GetPantry(p)
    BY <1>2 DEF ReadList, GetPantry, Reading
  <1>3. CASE AddList(p) \/ UpdateItem(p) \/ DeleteItem(p)
    BY <1>3 DEF AddList, UpdateItem, DeleteItem, Writing
  <1>4. CASE DeleteList(p) \/ Unshare(p) \/ DeleteShares(p)
    BY <1>4 DEF DeleteList, Unshare, DeleteShares, Owning
  <1>5. CASE SetPublic(p) \/ RemovePublic(p)
    BY <1>5 DEF SetPublic, RemovePublic, Owning
  <1>6. CASE GetPublicList(p)
    BY <1>6 DEF GetPublicList
  <1>7. CASE GetShares(p) \/ ShareList(p) \/ AddToPantry(p) \/ SetPantryItem(p)
    BY <1>7 DEF GetShares, ShareList, AddToPantry, SetPantryItem, Writing
  <1>8. CASE DeletePantryItem(p) \/ RefillPantry(p)
    BY <1>8 DEF DeletePantryItem, RefillPantry, Writing
  <1> QED
    BY <1>1, <1>2, <1>3, <1>4, <1>5, <1>6, <1>7, <1>8 DEF Handle

---------------------------------------------------------------------------
(***************************************************************************)
(* What is read.                                                           *)
(***************************************************************************)
\* A SELECT adds rows of the list of the request.
LEMMA SelectReads ==
  ASSUME TypeOK, NEW p \in Workers, NEW found, NEW label,
         Select(p, found, label) \/ SelectLast(p, found),
         Needed(req[p].op) # "none",
         \A r \in Rows(found) : r.list = req[p].list,
         Proper(p)
  PROVE  Proper(p)'
  <1>1. seen'[p] = Both(seen[p], found) /\ req' = req
    BY DEF Select, SelectLast, TypeOK
  <1>2. Rows(seen'[p]) = Rows(seen[p]) \cup Rows(found)
    BY <1>1 DEF Both, Rows
  <1> QED
    BY <1>1, <1>2 DEF Proper

\* The rows that handlers read are of that list.
LEMMA FoundOfList ==
  ASSUME NEW p \in Workers
  PROVE  /\ \A r \in Rows([Empty EXCEPT !.content = OfList(db.content, req[p].list)]) :
              r.list = req[p].list
         /\ \A r \in Rows([Empty EXCEPT !.content = ItemRows(db, p)]) : r.list = req[p].list
         /\ \A r \in Rows([Empty EXCEPT !.sharing = OfList(db.sharing, req[p].list)]) :
              r.list = req[p].list
         /\ \A r \in Rows([Empty EXCEPT !.sharing = ShareRows(req[p].user, req[p].list)]) :
              r.list = req[p].list
         /\ \A r \in Rows([Empty EXCEPT !.pantry = OfList(db.pantry, req[p].list)]) :
              r.list = req[p].list
         /\ \A r \in Rows([Empty EXCEPT !.pantry = Missing(p)]) : r.list = req[p].list
  BY DEF Rows, Empty, OfList, ItemRows, ShareRows, Missing

\* list_lists and the searches find what is the caller's own or shared.
LEMMA SearchesRead ==
  ASSUME TypeOK, NEW p \in Workers, ListLists(p) \/ HistorySearch(p), Proper(p)
  PROVE  Proper(p)'
  <1>1. Needed(req[p].op) = "none"
    BY DEF ListLists, HistorySearch, Needed, Owning, Writing, Reading
  <1> DEFINE owned == Matching(p, OwnedLists(db, req[p].user))
             lists == Matching(p, SharedLists(db, req[p].user))
             shares == {r \in SharesOf(db, req[p].user) : \E l \in lists : l.id = r.list}
             names == {r \in OfList(db.history, req[p].list) :
                         r.creator = req[p].user /\ r.name \in Like(req[p].name)}
  <1>2. \A r \in owned : r.owner = req[p].user
    BY DEF Matching, OwnedLists
  <1>3. \A r \in lists : \E t \in shares : t.list = r.id /\ t.shared = req[p].user
    BY DEF Matching, SharedLists, SharesOf, SharedWith
  <1>4. \A r \in names : r.list = req[p].list /\ r.creator = req[p].user
    BY DEF OfList
  <1>5. \E found \in {[Empty EXCEPT !.lists = owned],
                      [Empty EXCEPT !.lists = lists, !.sharing = shares],
                      [Empty EXCEPT !.history = names]} :
          seen'[p] = Both(seen[p], found) /\ req' = req
    BY DEF ListLists, HistorySearch, Select, SelectLast, TypeOK
  <1> HIDE DEF owned, lists, shares, names
  <1> QED
    <2>1. PICK found \in {[Empty EXCEPT !.lists = owned],
                         [Empty EXCEPT !.lists = lists, !.sharing = shares],
                         [Empty EXCEPT !.history = names]} :
            seen'[p] = Both(seen[p], found) /\ req' = req
      BY <1>5
    <2>2. /\ seen'[p].lists = seen[p].lists \cup found.lists
          /\ seen'[p].sharing = seen[p].sharing \cup found.sharing
          /\ seen'[p].history = seen[p].history \cup found.history
      BY <2>1 DEF Both
    <2>3. \A r \in found.lists :
            r.owner = req[p].user
              \/ \E t \in found.sharing : t.list = r.id /\ t.shared = req[p].user
      BY <1>2, <1>3, <2>1 DEF Empty
    <2>4. \A r \in found.history : r.list = req[p].list /\ r.creator = req[p].user
      BY <1>4, <2>1 DEF Empty
    <2> QED
      BY <1>1, <2>1, <2>2, <2>3, <2>4 DEF Proper

\* No handler reads anything else.
LEMMA HandlersRead ==
  ASSUME TypeOK, NEW p \in Workers, Handle(p), Proper(p)
  PROVE  Proper(p)'
  <1> USE DEF Needed, Owning, Writing, Reading
  <1>1. CASE UNCHANGED <<seen, req>>
    BY <1>1 DEF Proper
  <1>2. CASE ReadList(p)
    BY <1>1, <1>2, SelectReads, FoundOfList DEF ReadList, CheckList
  <1>3. CASE DeleteItem(p)
    BY <1>1, <1>3, SelectReads, FoundOfList
    DEF DeleteItem, CheckList, Begin, Execute, Commit
  <1>4. CASE GetPublicList(p)
    BY <1>1, <1>4, SelectReads, FoundOfList DEF GetPublicList
  <1>5. CASE GetShares(p)
    BY <1>1, <1>5, SelectReads, FoundOfList DEF GetShares, CheckList
  <1>6. CASE GetPantry(p)
    BY <1>1, <1>6, SelectReads, FoundOfList DEF GetPantry, CheckList
  <1>7. CASE RefillPantry(p)
    BY <1>1, <1>7, SelectReads, FoundOfList DEF RefillPantry, CheckList, Begin, Autocommit
  <1>8. CASE CreateList(p) \/ AddList(p) \/ UpdateItem(p) \/ DeleteList(p)
    BY <1>1, <1>8 DEF CreateList, AddList, UpdateItem, DeleteList, CheckList, IsOwner,
       Begin, Execute, Autocommit, Commit
  <1>9. CASE \/ SetPublic(p) \/ RemovePublic(p) \/ ShareList(p) \/ Unshare(p)
             \/ DeleteShares(p)
    BY <1>1, <1>9 DEF SetPublic, RemovePublic, ShareList, Unshare, DeleteShares,
       CheckList, IsOwner, Begin, Execute, Autocommit, Commit
  <1>10. CASE AddToPantry(p) \/ SetPantryItem(p) \/ DeletePantryItem(p)
    BY <1>1, <1>10 DEF AddToPantry, SetPantryItem, DeletePantryItem,
       CheckList, Begin, Execute, Autocommit, Commit
  <1> QED
    BY <1>2, <1>3, <1>4, <1>5, <1>6, <1>7, <1>8, <1>9, <1>10, SearchesRead DEF Handle

---------------------------------------------------------------------------
(***************************************************************************)
(* The invariant.                                                          *)
(***************************************************************************)
\* It holds at the start: no worker has a request.
LEMMA InitRights == Init => RightsInv
  BY DEF Init, RightsInv, Entering, Proper, Idle, Empty, Needed, Owning, Writing, Reading

\* A step of a handler, or a failure, keeps it.
LEMMA HandleRights ==
  ASSUME TypeOK, TypeOK', RightsInv, NEW p \in Workers, Handle(p) \/ Fail(p)
  PROVE  RightsInv'
  <1>1. \/ Moved(p, Labels \ {"update_name", "idle"})
        \/ Moved(p, {"update_name"})
    BY HandleMoves
  <1>2. PICK l \in Labels \ {"idle"} :
          /\ pc' = [pc EXCEPT ![p] = l]
          /\ \/ UNCHANGED answer
             \/ l = "done" /\ \E a \in Answers : answer' = [answer EXCEPT ![p] = a]
    BY <1>1 DEF Moved, Labels, Statements
  <1>3. ASSUME NEW q \in Workers, q # p
        PROVE  /\ pc'[q] = pc[q] /\ answer'[q] = answer[q] /\ req'[q] = req[q]
               /\ seen'[q] = seen[q] /\ granted'[q] = granted[q]
    <2>1. UNCHANGED req /\ (UNCHANGED seen \/ \E s : seen' = [seen EXCEPT ![p] = s])
            /\ (UNCHANGED granted \/ \E g : granted' = [granted EXCEPT ![p] = g])
      BY <1>1 DEF Moved
    <2> QED
      BY <1>2, <1>3, <2>1 DEF TypeOK
  <1>4. \A q \in Workers \ {p} :
          /\ pc'[q] \notin Entering \cup {"done"} \/ answer'[q] = "ok" => Passed(q)'
          /\ pc'[q] # "done" => answer'[q] = "none"
          /\ pc'[q] = "idle" => seen'[q] = Empty
          /\ Proper(q)'
    BY <1>3 DEF RightsInv, Passed, Proper
  <1>5. pc[p] # "done" /\ answer[p] = "none"
    BY <1>1 DEF Moved, RightsInv
  <1>6. pc'[p] # "idle" /\ (pc'[p] # "done" => answer'[p] = "none")
    BY <1>2, <1>5 DEF TypeOK
  <1>7. Proper(p)'
    BY HandlersRead DEF RightsInv, Fail, Proper
  <1>8. pc'[p] \notin Entering \cup {"done"} \/ answer'[p] = "ok" => Passed(p)'
    <2>1. CASE Fail(p)
      BY <2>1, <1>6 DEF Fail, Goto, Respond, Entering, TypeOK
    <2>2. CASE UNCHANGED <<req, granted>> /\ pc[p] \notin Entering
      BY <2>2, <1>5 DEF RightsInv, Passed
    <2>3. CASE req[p].op \in Owning /\ \E k : IsOwner(p, k)
      BY <2>3, IsOwnerPasses
    <2>4. CASE \/ req[p].op \in Writing /\ \E k : CheckList(p, TRUE, k)
               \/ req[p].op \in Reading /\ \E k : CheckList(p, FALSE, k)
      <3>1. \/ Passed(p)'
            \/ pc'[p] = "check_shared" /\ answer' = answer
            \/ pc'[p] = "done" /\ answer'[p] \in {"NoSuchList", "NotWritable"}
        BY <2>4, CheckListPasses
      <3> QED
        BY <3>1, <1>5 DEF Entering
    <2>5. CASE Needed(req[p].op) = "none" /\ UNCHANGED req
      BY <2>5 DEF Passed
    <2>6. CASE GetPublicList(p) /\ pc[p] = "select_pub"
      BY <2>6, PublicPasses
    <2> QED
      BY <2>1, <2>2, <2>3, <2>4, <2>5, <2>6, HandlersCheck
  <1> QED
    BY <1>4, <1>6, <1>7, <1>8 DEF RightsInv

\* A request that arrives, leaves or loses a deadlock keeps it.
LEMMA OthersRights ==
  ASSUME TypeOK, RightsInv, NEW p \in Workers,
         Arrive(p) \/ Deliver(p) \/ Cancel(p) \/ Deadlock(p)
  PROVE  RightsInv'
  <1>1. CASE Arrive(p)
    <2>1. PICK r \in RequestSet : /\ req' = [req EXCEPT ![p] = r]
                                  /\ pc' = [pc EXCEPT ![p] = First(r.op)]
      BY <1>1 DEF Arrive
    <2>2. First(r.op) \in Entering \/ Needed(r.op) = "none"
      BY RequestAssumption DEF First, Entering, Needed, Owning, Writing, Reading
    <2>3. pc[p] = "idle" /\ UNCHANGED <<answer, seen, granted>>
      BY <1>1 DEF Arrive
    <2>4. answer[p] = "none" /\ seen[p] = Empty /\ First(r.op) \notin {"idle", "done"}
      BY <2>3 DEF RightsInv, First
    <2>5. /\ pc'[p] = First(r.op) /\ answer'[p] = "none" /\ req'[p] = r
          /\ seen'[p] = Empty
      BY <2>1, <2>3, <2>4 DEF TypeOK
    <2>6. ASSUME NEW q \in Workers, q # p
          PROVE  /\ pc'[q] = pc[q] /\ answer'[q] = answer[q] /\ req'[q] = req[q]
                 /\ seen'[q] = seen[q] /\ granted'[q] = granted[q]
      BY <2>1, <2>3, <2>6 DEF TypeOK
    <2>7. Proper(p)'
      BY <2>5 DEF Proper, Rows, Empty
    <2>8. \A q \in Workers \ {p} : Proper(q)'
      BY <2>6 DEF Proper, RightsInv
    <2> QED
      BY <2>2, <2>4, <2>5, <2>6, <2>7, <2>8 DEF RightsInv, Passed
  <1>2. CASE Deliver(p) \/ Cancel(p)
    <2>1. Leave(p)
      BY <1>2 DEF Deliver, Cancel
    <2>2. /\ pc'[p] = "idle" /\ answer'[p] = "none" /\ seen'[p] = Empty
          /\ \A q \in Workers \ {p} :
               /\ pc'[q] = pc[q] /\ answer'[q] = answer[q] /\ req'[q] = req[q]
               /\ seen'[q] = seen[q] /\ granted'[q] = granted[q]
      BY <2>1 DEF Leave, TypeOK
    <2>3. Proper(p)'
      BY <2>2 DEF Proper, Rows, Empty
    <2>4. \A q \in Workers \ {p} : Proper(q)'
      BY <2>2 DEF Proper, RightsInv
    <2> QED
      BY <2>2, <2>3, <2>4 DEF RightsInv, Passed, Entering
  <1>3. CASE Deadlock(p)
    BY <1>3 DEF Deadlock, Respond, TypeOK, RightsInv, Passed, Proper
  <1> QED
    BY <1>1, <1>2, <1>3

\* Rows are shown only to a user who could read the list when that was
\* checked, or to anyone if it was public then, and only rows of that list.
THEOREM NothingLeaks == Spec => []Disclosed
  <1> DEFINE Inv == TypeInv /\ RightsInv
  <1>1. Init => Inv
    BY InitTypeInv, InitRights
  <1>2. Inv /\ [Next]_vars => Inv'
    <2> SUFFICES ASSUME Inv, [Next]_vars PROVE RightsInv'
      BY NextTypeInv
    <2>1. TypeOK /\ TypeOK'
      BY NextTypeInv DEF TypeInv
    <2>2. CASE UNCHANGED vars
      BY <2>2 DEF vars, RightsInv, Passed, Proper
    <2>3. CASE Next
      BY <2>1, <2>3, HandleRights, OthersRights DEF Next, Serve
    <2> QED
      BY <2>2, <2>3
  <1>3. Inv => Disclosed
    BY DEF RightsInv, Disclosed, Passed, Proper, Rows
  <1> QED
    BY <1>1, <1>2, <1>3, PTL DEF Spec

---------------------------------------------------------------------------
(***************************************************************************)
(* Nobody's right changes but by losing it first (SharesKeepRight).        *)
(***************************************************************************)
\* An account has one row for a list, the primary key of list_sharing.
OneRow(rows) == \A r, t \in rows : r.list = t.list /\ r.shared = t.shared => r = t

\* No open transaction has inserted a share: share_list has none.
SharesInv == OneRow(db.sharing) /\ \A p \in Workers : tx[p].ins.sharing = {}

---------------------------------------------------------------------------
(***************************************************************************)
(* What a step may do to the shares.                                       *)
(***************************************************************************)
\* Shares are removed only, committed or not.
Fewer == /\ db'.sharing \subseteq db.sharing
         /\ \A q \in Workers : tx'[q].ins.sharing = {}

\* A share is added that was not there, or none.
OneMore(p) ==
  /\ UNCHANGED tx \/ tx' = [tx EXCEPT ![p] = NoChange]
  /\ \/ db'.sharing = db.sharing
     \/ \E new : /\ db'.sharing = db.sharing \cup {new}
                 /\ \A r \in db.sharing : ~ (r.list = new.list /\ r.shared = new.shared)

\* A step that leaves the database alone, and returns if it ends the transaction.
LEMMA AloneFewer ==
  ASSUME TypeOK, SharesInv, NEW p \in Workers, UNCHANGED db,
         UNCHANGED tx \/ tx' = [tx EXCEPT ![p] = NoChange]
  PROVE  Fewer
  <1>1. NoChange.ins.sharing = {}
    BY DEF NoChange, Empty
  <1> QED
    BY <1>1 DEF Fewer, SharesInv, TypeOK

\* A statement of a transaction that inserts no share.
LEMMA ExecuteFewer ==
  ASSUME TypeOK, SharesInv, NEW p \in Workers, NEW d, NEW inRange, NEW label,
         Execute(p, d, inRange, label), d.ins.sharing = {}
  PROVE  Fewer
  <1>1. CASE Respond(p, "Internal")
    BY <1>1, AloneFewer DEF Execute, Respond
  <1>2. CASE tx' = [tx EXCEPT ![p] = Then(@, d)]
    <2>1. Then(tx[p], d).ins.sharing = {}
      BY DEF Then, Apply, SharesInv
    <2> QED
      BY <1>2, <2>1 DEF Execute, Fewer, SharesInv, TypeOK
  <1> QED
    BY <1>1, <1>2 DEF Execute

\* A statement of the pool that inserts no share.
LEMMA AutocommitFewer ==
  ASSUME TypeOK, SharesInv, NEW p \in Workers, NEW d, NEW inRange,
         Autocommit(p, d, inRange), d.ins.sharing = {}
  PROVE  Fewer
  <1>1. NoChange.ins.sharing = {} /\ tx' = [tx EXCEPT ![p] = NoChange]
    BY DEF NoChange, Empty, Autocommit, Committed, Respond
  <1>2. db'.sharing \subseteq db.sharing
    BY DEF Autocommit, Apply
  <1> QED
    BY <1>1, <1>2 DEF Fewer, SharesInv, TypeOK

\* A commit: its transaction has inserted no share.
LEMMA CommitFewer ==
  ASSUME TypeOK, SharesInv, NEW p \in Workers, Commit(p)
  PROVE  Fewer
  <1>1. NoChange.ins.sharing = {} /\ tx' = [tx EXCEPT ![p] = NoChange]
    BY DEF NoChange, Empty, Commit, Committed, Respond
  <1>2. db'.sharing \subseteq db.sharing
    BY DEF Commit, View, Apply, SharesInv
  <1> QED
    BY <1>1, <1>2 DEF Fewer, SharesInv, TypeOK

\* The checks, the reads and taking a connection change nothing.
LEMMA ReadsFewer ==
  ASSUME TypeOK, SharesInv, NEW p \in Workers, NEW rows, NEW write, NEW label,
         \/ IsOwner(p, label) \/ CheckList(p, write, label) \/ Begin(p, label)
         \/ Select(p, rows, label) \/ SelectLast(p, rows)
  PROVE  Fewer
  <1>1. UNCHANGED db /\ (UNCHANGED tx \/ tx' = [tx EXCEPT ![p] = NoChange])
    BY DEF IsOwner, CheckList, Begin, Select, SelectLast, Respond
  <1> QED
    BY <1>1, AloneFewer

---------------------------------------------------------------------------
\* No statement but the one of share_list inserts a share.
LEMMA InsertsElsewhere ==
  ASSUME NEW D, NEW I
  PROVE  /\ OnLists(D, I).ins.sharing = {}   /\ OnContent(D, I).ins.sharing = {}
         /\ OnHistory(D, I).ins.sharing = {} /\ OnPantry(D, I).ins.sharing = {}
         /\ OnSharing(D, {}).ins.sharing = {}
  BY DEF OnLists, OnContent, OnHistory, OnPantry, OnSharing, Empty

\* The handlers of list.rs.
LEMMA ListHandlersFewer ==
  ASSUME TypeOK, SharesInv, NEW p \in Workers,
         \/ CreateList(p) \/ ReadList(p) \/ AddList(p) \/ UpdateItem(p) \/ DeleteItem(p)
         \/ DeleteList(p) \/ SetPublic(p) \/ RemovePublic(p) \/ GetPublicList(p)
  PROVE  Fewer
  <1>1. /\ InsertList(p).ins.sharing = {}    /\ InsertContent(p).ins.sharing = {}
        /\ UpsertHistory(p).ins.sharing = {} /\ UpdateName(p).ins.sharing = {}
        /\ UpdateAmount(p).ins.sharing = {}  /\ CreditPantry(p).ins.sharing = {}
        /\ DeleteItemRow(p).ins.sharing = {} /\ DeleteSharing(p).ins.sharing = {}
        /\ DeleteContents(p).ins.sharing = {} /\ DeleteHistory(p).ins.sharing = {}
        /\ DeleteListRow(p).ins.sharing = {}
        /\ SetPub(p, TRUE).ins.sharing = {}  /\ SetPub(p, FALSE).ins.sharing = {}
    BY InsertsElsewhere DEF InsertList, InsertContent, UpsertHistory, UpdateName,
       UpdateAmount, CreditPantry, DeleteItemRow, DeleteSharing, DeleteContents,
       DeleteHistory, DeleteListRow, SetPub
  <1>2. CASE CreateList(p)
    BY <1>1, <1>2, AutocommitFewer, AloneFewer DEF CreateList, Respond
  <1>3. CASE ReadList(p)
    BY <1>3, ReadsFewer DEF ReadList
  <1>4. CASE AddList(p)
    BY <1>1, <1>4, ReadsFewer, ExecuteFewer, CommitFewer DEF AddList
  <1>5. CASE UpdateItem(p)
    BY <1>1, <1>5, ReadsFewer, ExecuteFewer, CommitFewer DEF UpdateItem
  <1>6. CASE DeleteItem(p)
    BY <1>1, <1>6, ReadsFewer, ExecuteFewer, CommitFewer DEF DeleteItem
  <1>7. CASE DeleteList(p)
    BY <1>1, <1>7, ReadsFewer, ExecuteFewer, CommitFewer DEF DeleteList
  <1>8. CASE SetPublic(p)
    BY <1>1, <1>8, ReadsFewer, AutocommitFewer DEF SetPublic
  <1>9. CASE RemovePublic(p)
    BY <1>1, <1>9, ReadsFewer, AutocommitFewer DEF RemovePublic
  <1>10. CASE GetPublicList(p)
    BY <1>10, ReadsFewer, AloneFewer DEF GetPublicList, Respond
  <1> QED
    BY <1>2, <1>3, <1>4, <1>5, <1>6, <1>7, <1>8, <1>9, <1>10

\* The handlers of share.rs that take shares away or only read.
LEMMA UnshareFewer ==
  ASSUME TypeOK, SharesInv, NEW p \in Workers,
         GetShares(p) \/ Unshare(p) \/ DeleteShares(p)
  PROVE  Fewer
  <1>1. /\ DeleteShare(p).ins.sharing = {} /\ DeleteSharing(p).ins.sharing = {}
        /\ DeleteHistoryOf(p).ins.sharing = {} /\ DeleteHistoryOthers(p).ins.sharing = {}
    BY InsertsElsewhere DEF DeleteShare, DeleteSharing, DeleteHistoryOf, DeleteHistoryOthers
  <1>2. CASE GetShares(p)
    BY <1>2, ReadsFewer DEF GetShares
  <1>3. CASE Unshare(p)
    <2>1. CASE IsOwner(p, "begin") \/ Begin(p, "delete_share") \/ Commit(p)
      BY <2>1, ReadsFewer, CommitFewer
    <2>2. CASE \/ Execute(p, DeleteShare(p), TRUE, "delete_history_of")
               \/ Execute(p, DeleteHistoryOf(p), TRUE, "commit")
      BY <1>1, <2>2, ExecuteFewer
    <2> QED
      BY <1>3, <2>1, <2>2 DEF Unshare
  <1>4. CASE DeleteShares(p)
    BY <1>1, <1>4, ReadsFewer, ExecuteFewer, CommitFewer DEF DeleteShares
  <1> QED
    BY <1>2, <1>3, <1>4

\* The handlers of pantry.rs.
LEMMA PantryHandlersFewer ==
  ASSUME TypeOK, SharesInv, NEW p \in Workers,
         \/ GetPantry(p) \/ AddToPantry(p) \/ SetPantryItem(p)
         \/ DeletePantryItem(p) \/ RefillPantry(p)
  PROVE  Fewer
  <1>1. /\ InsertPantry(p).ins.sharing = {}  /\ DeleteRefills(p).ins.sharing = {}
        /\ DeletePantryRow(p).ins.sharing = {} /\ InsertRefill(p).ins.sharing = {}
        /\ UpdatePantry(p).ins.sharing = {}
    <2>1. InsertPantry(p).ins.sharing = {}
      BY InsertsElsewhere, Zenon DEF InsertPantry
    <2>2. DeleteRefills(p).ins.sharing = {}
      BY InsertsElsewhere, Zenon DEF DeleteRefills
    <2>3. DeletePantryRow(p).ins.sharing = {}
      BY InsertsElsewhere, Zenon DEF DeletePantryRow
    <2>4. InsertRefill(p).ins.sharing = {}
      BY InsertsElsewhere, Zenon DEF InsertRefill
    <2>5. UpdatePantry(p).ins.sharing = {}
      BY InsertsElsewhere, Zenon DEF UpdatePantry
    <2> QED
      BY <2>1, <2>2, <2>3, <2>4, <2>5
  <1>2. CASE GetPantry(p)
    BY <1>2, ReadsFewer DEF GetPantry
  <1>3. CASE AddToPantry(p)
    BY <1>1, <1>3, ReadsFewer, AutocommitFewer DEF AddToPantry
  <1>4. CASE SetPantryItem(p)
    BY <1>1, <1>4, ReadsFewer, AutocommitFewer DEF SetPantryItem
  <1>5. CASE DeletePantryItem(p)
    BY <1>1, <1>5, ReadsFewer, ExecuteFewer, CommitFewer DEF DeletePantryItem
  <1>6. CASE RefillPantry(p)
    BY <1>1, <1>6, ReadsFewer, AutocommitFewer DEF RefillPantry
  <1> QED
    BY <1>2, <1>3, <1>4, <1>5, <1>6

\* share_list adds a row when the account has none, and otherwise changes none.
LEMMA ShareListAdds ==
  ASSUME TypeOK, SharesInv, NEW p \in Workers, ShareList(p)
  PROVE  Fewer \/ OneMore(p)
  <1>1. CASE CheckList(p, TRUE, "begin") \/ Begin(p, "insert_sharing")
    BY <1>1, ReadsFewer
  <1>2. CASE Autocommit(p, InsertSharing(p), TRUE)
    <2> DEFINE old == ShareRows(req[p].with, req[p].list)
               new == [list |-> req[p].list, shared |-> req[p].with,
                       readonly |-> req[p].readonly]
    <2>1. tx' = [tx EXCEPT ![p] = NoChange]
      BY <1>2 DEF Autocommit, Committed, Respond
    <2>2. db' = db \/ db' = Apply(db, InsertSharing(p))
      BY <1>2 DEF Autocommit
    <2>3. /\ InsertSharing(p).del.sharing = old
          /\ InsertSharing(p).ins.sharing = IF old = {} THEN {new} ELSE old
      BY DEF InsertSharing, OnSharing, Empty
    <2>4. Apply(db, InsertSharing(p)).sharing
            = (db.sharing \ old) \cup (IF old = {} THEN {new} ELSE old)
      BY <2>3 DEF Apply
    <2>5. CASE old = {}
      <3>1. \A r \in db.sharing : ~ (r.list = new.list /\ r.shared = new.shared)
        BY <2>5 DEF ShareRows
      <3>2. db'.sharing = db.sharing \/ db'.sharing = db.sharing \cup {new}
        BY <2>2, <2>4, <2>5
      <3> QED
        BY <2>1, <3>1, <3>2 DEF OneMore
    <2>6. CASE old # {}
      <3>1. old \subseteq db.sharing
        BY DEF ShareRows
      <3>2. db'.sharing = db.sharing
        BY <2>2, <2>4, <2>6, <3>1
      <3> QED
        BY <2>1, <3>2 DEF OneMore
    <2> QED
      BY <2>5, <2>6
  <1> QED
    BY <1>1, <1>2 DEF ShareList

\* Requests that arrive, leave, fail or lose a deadlock change no share.
LEMMA OthersFewer ==
  ASSUME TypeOK, SharesInv, NEW p \in Workers,
         Arrive(p) \/ Deliver(p) \/ Cancel(p) \/ Fail(p) \/ Deadlock(p)
  PROVE  Fewer
  <1>1. UNCHANGED db /\ (UNCHANGED tx \/ tx' = [tx EXCEPT ![p] = NoChange])
    BY DEF Arrive, Deliver, Cancel, Leave, Fail, Deadlock, Respond
  <1> QED
    BY <1>1, AloneFewer

\* The handlers that search change none either.
LEMMA SearchHandlersFewer ==
  ASSUME TypeOK, SharesInv, NEW p \in Workers, ListLists(p) \/ HistorySearch(p)
  PROVE  Fewer
  BY ReadsFewer DEF ListLists, HistorySearch

---------------------------------------------------------------------------
\* Any step of Next takes shares away or adds one that was not there.
LEMMA NextShares ==
  ASSUME TypeOK, SharesInv, Next
  PROVE  Fewer \/ \E p \in Workers : OneMore(p)
  BY ListHandlersFewer, UnshareFewer, PantryHandlersFewer, ShareListAdds,
     SearchHandlersFewer, OthersFewer
  DEF Next, Serve, Handle

\* No share changes between read-only and writable in place: it takes an
\* unshare, which is committed first.
THEOREM SharesStay == Spec => SharesKeepRight
  <1> DEFINE Inv == TypeInv /\ SharesInv
             Kept == \A r \in db.sharing, t \in db'.sharing :
                       r.list = t.list /\ r.shared = t.shared => r = t
  <1>1. Init => Inv
    <2> SUFFICES ASSUME Init PROVE SharesInv
      BY InitTypeInv
    <2>1. NoChange.ins.sharing = {}
      BY DEF NoChange, Empty
    <2> QED
      BY <2>1, StoreAssumption DEF Init, SharesInv, OneRow
  <1>2. Inv /\ [Next]_vars => Inv' /\ Kept
    <2> SUFFICES ASSUME Inv, [Next]_vars PROVE SharesInv' /\ Kept
      BY NextTypeInv
    <2>1. CASE UNCHANGED vars
      BY <2>1 DEF vars, SharesInv, OneRow
    <2>2. CASE Fewer
      BY <2>2 DEF Fewer, SharesInv, OneRow
    <2>3. ASSUME NEW p \in Workers, OneMore(p) PROVE SharesInv' /\ Kept
      <3>1. \A q \in Workers : tx'[q].ins.sharing = {}
        BY <2>3 DEF OneMore, SharesInv, NoChange, Empty, TypeInv, TypeOK
      <3>2. OneRow(db'.sharing) /\ Kept
        BY <2>3 DEF OneMore, SharesInv, OneRow
      <3> QED
        BY <3>1, <3>2 DEF SharesInv
    <2> QED
      BY <2>1, <2>2, <2>3, NextShares DEF TypeInv
  <1> QED
    BY <1>1, <1>2, PTL DEF Spec, SharesKeepRight

---------------------------------------------------------------------------
(***************************************************************************)
(* Who changes what.                                                       *)
(***************************************************************************)

\* The rows of d are about list l.
About(d, l) ==
  /\ \A r \in d.del.lists   \cup d.ins.lists   : r.id = l
  /\ \A r \in d.del.sharing \cup d.ins.sharing : r.list = l
  /\ \A r \in d.del.content \cup d.ins.content : r.list = l
  /\ \A r \in d.del.history \cup d.ins.history : r.list = l
  /\ \A r \in d.del.pantry  \cup d.ins.pantry  : r.list = l

\* The pantry items, the items and the lists there are: committed, written by an
\* open transaction, or read before.
Pantries == db.pantry  \cup UNION {tx[q].ins.pantry  \cup seen[q].pantry  : q \in Workers}
Contents == db.content \cup UNION {tx[q].ins.content \cup seen[q].content : q \in Workers}
Lists    == db.lists   \cup UNION {tx[q].ins.lists : q \in Workers}

\* A number names pantry items of one list, for ever, and a restocked item is of
\* that list: no number is used twice.
Homes ==
  /\ \A r, t \in Pantries : r.item = t.item => r.list = t.list
  /\ \A c \in Contents, r \in Pantries : c.from_pantry = r.item => c.list = r.list
  /\ \A r \in Pantries : r.item < next.pantry
  /\ \A c \in Contents : c.from_pantry < next.pantry
  /\ \A r \in Lists : r.id < next.list

\* An open transaction has changed the list of its request.
OwnList == \A p \in Workers : /\ About(tx[p], req[p].list)
                              /\ pc[p] = "idle" => tx[p] = NoChange

AuthorityInv == RightsInv /\ Homes /\ OwnList

---------------------------------------------------------------------------
(***************************************************************************)
(* What a step of a handler may do.                                        *)
(***************************************************************************)
\* A pantry item of a number and list there were, or of the next number.
OldPantry(r) == \E t \in Pantries : t.item = r.item /\ t.list = r.list
NewPantry(p, r) ==
  r.item = next.pantry /\ r.list = req[p].list /\ next'.pantry = next.pantry + 1

\* An item as one there was, or restocked from a pantry item there is.
OldContent(c) ==
  \/ \E b \in Contents : b.from_pantry = c.from_pantry /\ b.list = c.list
  \/ \E r \in Pantries : r.item = c.from_pantry /\ r.list = c.list
  \/ c.from_pantry = NoItem

\* The change d is about the list of the request of p, and invents no numbers.
Tame(p, d) ==
  /\ About(d, req[p].list)
  /\ \A r \in d.ins.pantry : OldPantry(r)
  /\ \A c \in d.ins.content : OldContent(c)
  /\ \A r \in d.ins.lists : r.id \in Nat /\ r.id < next.list

\* The change d that p commits, after which the database is as it was but for d.
Authored(p, d) ==
  /\ db' = Apply(db, d)
  /\ \/ req[p].op \in Owning \cup Writing /\ About(d, req[p].list)
     \/ req[p].op = "create_list" /\ d = InsertList(p)

\* No sequence goes back.
Forward == /\ next'.list \in Nat /\ next'.list >= next.list
           /\ next'.pantry \in Nat /\ next'.pantry >= next.pantry

\* What p commits, has under way and has read.
Orderly(p) ==
  /\ UNCHANGED req /\ Forward
  /\ \A q \in Workers \ {p} : tx'[q] = tx[q] /\ seen'[q] = seen[q]
  /\ About(tx'[p], req[p].list)
  /\ \A r \in tx'[p].ins.pantry \cup seen'[p].pantry \cup db'.pantry :
       OldPantry(r) \/ NewPantry(p, r)
  /\ \A c \in tx'[p].ins.content \cup seen'[p].content \cup db'.content : OldContent(c)
  /\ \A r \in tx'[p].ins.lists \cup db'.lists : r.id < next'.list
  /\ db' = db \/ \E d : Authored(p, d)

---------------------------------------------------------------------------
(***************************************************************************)
(* Pantries and contents.                                                  *)
(***************************************************************************)
\* Whatever is stored, under way or read is one of them.
LEMMA Present ==
  ASSUME NEW q \in Workers
  PROVE  /\ db.pantry \subseteq Pantries /\ tx[q].ins.pantry \subseteq Pantries
         /\ seen[q].pantry \subseteq Pantries
         /\ db.content \subseteq Contents /\ tx[q].ins.content \subseteq Contents
         /\ seen[q].content \subseteq Contents
         /\ db.lists \subseteq Lists /\ tx[q].ins.lists \subseteq Lists
  BY DEF Pantries, Contents, Lists

\* Their types.
LEMMA PresentType ==
  ASSUME TypeOK
  PROVE  Pantries \subseteq PantryRow /\ Contents \subseteq ContentRow /\ Lists \subseteq ListRow
  <1>1. db.pantry \subseteq PantryRow /\ db.content \subseteq ContentRow
          /\ db.lists \subseteq ListRow
    BY DEF TypeOK, Store
  <1>2. ASSUME NEW q \in Workers
        PROVE  /\ tx[q].ins.pantry \subseteq PantryRow /\ seen[q].pantry \subseteq PantryRow
               /\ tx[q].ins.content \subseteq ContentRow /\ seen[q].content \subseteq ContentRow
               /\ tx[q].ins.lists \subseteq ListRow
    BY DEF TypeOK, Store, Change
  <1> QED
    BY <1>1, <1>2 DEF Pantries, Contents, Lists

\* They are their own predecessors.
LEMMA PresentIsOld ==
  /\ \A r \in Pantries : OldPantry(r)
  /\ \A c \in Contents : OldContent(c)
  BY DEF OldPantry, OldContent

\* The ids of the lists there are have been given out, and remain so.
LEMMA ListsGivenOut ==
  ASSUME TypeOK, AuthorityInv, Forward
  PROVE  /\ \A r \in Lists : r.id < next'.list
         /\ \A n \in Nat : n < next.list => n < next'.list
  <1>1. \A r \in Lists : r.id \in Nat /\ r.id < next.list
    BY PresentType DEF AuthorityInv, Homes, ListRow
  <1>2. \A n \in Nat : n < next.list => n < next'.list
    BY DEF Forward, TypeOK
  <1> QED
    BY <1>1, <1>2

\* What a statement sees is there.
LEMMA ViewPresent ==
  ASSUME NEW p \in Workers
  PROVE  View(p).pantry \subseteq Pantries /\ View(p).content \subseteq Contents
  BY Present DEF View, Apply

\* The empty change is about any list.
LEMMA NothingAbout == \A l : About(NoChange, l)
  BY DEF About, NoChange, Empty

\* A change followed by another one about the same list.
LEMMA ThenAbout ==
  ASSUME NEW d, NEW e, NEW l, About(d, l), About(e, l)
  PROVE  About(Then(d, e), l)
  BY DEF About, Then, Apply, Both

\* A change of one table is about the list of its rows.
LEMMA OneTableAbout ==
  ASSUME NEW D, NEW I, NEW l
  PROVE  /\ (\A r \in D \cup I : r.id = l)   => About(OnLists(D, I), l)
         /\ (\A r \in D \cup I : r.list = l) =>
              /\ About(OnSharing(D, I), l) /\ About(OnContent(D, I), l)
              /\ About(OnHistory(D, I), l) /\ About(OnPantry(D, I), l)
  <1>1. (\A r \in D \cup I : r.id = l) => About(OnLists(D, I), l)
    BY DEF About, OnLists, Empty
  <1>2. (\A r \in D \cup I : r.list = l) => About(OnSharing(D, I), l)
    BY DEF About, OnSharing, Empty
  <1>3. (\A r \in D \cup I : r.list = l) => About(OnContent(D, I), l)
    BY DEF About, OnContent, Empty
  <1>4. (\A r \in D \cup I : r.list = l) => About(OnHistory(D, I), l)
    BY DEF About, OnHistory, Empty
  <1>5. (\A r \in D \cup I : r.list = l) => About(OnPantry(D, I), l)
    BY DEF About, OnPantry, Empty
  <1> QED
    BY <1>1, <1>2, <1>3, <1>4, <1>5

\* The tables that a change of one table inserts nothing into.
LEMMA InsertsNothing ==
  ASSUME NEW D, NEW I
  PROVE  /\ OnLists(D, I).ins.pantry = {}   /\ OnLists(D, I).ins.content = {}
         /\ OnSharing(D, I).ins.pantry = {} /\ OnSharing(D, I).ins.content = {}
         /\ OnHistory(D, I).ins.pantry = {} /\ OnHistory(D, I).ins.content = {}
         /\ OnContent(D, I).ins.pantry = {} /\ OnPantry(D, I).ins.content = {}
         /\ OnSharing(D, I).ins.lists = {} /\ OnHistory(D, I).ins.lists = {}
         /\ OnContent(D, I).ins.lists = {} /\ OnPantry(D, I).ins.lists = {}
         /\ OnLists(D, I).ins.lists = I
         /\ OnContent(D, I).ins.content = I /\ OnPantry(D, I).ins.pantry = I
  BY DEF OnLists, OnSharing, OnHistory, OnContent, OnPantry, Empty

---------------------------------------------------------------------------
(***************************************************************************)
(* The statements.                                                         *)
(***************************************************************************)
\* Those that delete rows of the list of the request.
LEMMA DeletesTame ==
  ASSUME NEW p \in Workers
  PROVE  /\ Tame(p, DeleteItemRow(p))  /\ Tame(p, DeleteSharing(p))
         /\ Tame(p, DeleteContents(p)) /\ Tame(p, DeleteHistory(p))
         /\ Tame(p, DeleteListRow(p))  /\ Tame(p, DeleteShare(p))
         /\ Tame(p, DeleteHistoryOf(p)) /\ Tame(p, DeleteHistoryOthers(p))
         /\ Tame(p, DeleteRefills(p))  /\ Tame(p, DeletePantryRow(p))
  <1> DEFINE l == req[p].list
  <1>1. ASSUME NEW D, \A r \in D : r.list = l
        PROVE  /\ Tame(p, OnSharing(D, {})) /\ Tame(p, OnContent(D, {}))
               /\ Tame(p, OnHistory(D, {})) /\ Tame(p, OnPantry(D, {}))
    BY <1>1, OneTableAbout, InsertsNothing DEF Tame
  <1>2. ASSUME NEW D, \A r \in D : r.id = l PROVE Tame(p, OnLists(D, {}))
    BY <1>2, OneTableAbout, InsertsNothing DEF Tame
  <1>3. Tame(p, DeleteItemRow(p)) /\ Tame(p, DeleteContents(p)) /\ Tame(p, DeleteRefills(p))
    BY <1>1 DEF DeleteItemRow, ItemRows, DeleteContents, DeleteRefills, OfList
  <1>4. Tame(p, DeleteSharing(p)) /\ Tame(p, DeleteShare(p))
    BY <1>1 DEF DeleteSharing, DeleteShare, OfList
  <1>5. /\ Tame(p, DeleteHistory(p)) /\ Tame(p, DeleteHistoryOf(p))
        /\ Tame(p, DeleteHistoryOthers(p))
    BY <1>1 DEF DeleteHistory, DeleteHistoryOf, DeleteHistoryOthers, OfList
  <1>6. Tame(p, DeletePantryRow(p))
    BY <1>1 DEF DeletePantryRow, PantryRowsAt
  <1>7. Tame(p, DeleteListRow(p))
    BY <1>2 DEF DeleteListRow
  <1> QED
    BY <1>3, <1>4, <1>5, <1>6, <1>7

\* Those that insert a row for it.
LEMMA InsertsTame ==
  ASSUME NEW p \in Workers
  PROVE  Tame(p, InsertContent(p)) /\ Tame(p, UpsertHistory(p)) /\ Tame(p, InsertSharing(p))
  <1>1. Tame(p, InsertContent(p))
    <2> DEFINE row == [id |-> next.content, list |-> req[p].list, name |-> req[p].name,
                       amount |-> req[p].amount, from_pantry |-> NoItem]
    <2>1. row.list = req[p].list /\ OldContent(row)
      BY DEF OldContent
    <2>2. InsertContent(p) = OnContent({}, {row})
      BY DEF InsertContent
    <2> HIDE DEF row
    <2> QED
      BY <2>1, <2>2, OneTableAbout, InsertsNothing DEF Tame
  <1>2. Tame(p, UpsertHistory(p))
    <2> DEFINE row == [list |-> req[p].list, creator |-> req[p].user, name |-> req[p].name]
    <2>1. row.list = req[p].list
      OBVIOUS
    <2>2. UpsertHistory(p) = OnHistory(View(p).history \cap {row}, {row})
      BY DEF UpsertHistory
    <2> HIDE DEF row
    <2> QED
      BY <2>1, <2>2, OneTableAbout, InsertsNothing DEF Tame
  <1>3. Tame(p, InsertSharing(p))
    <2> DEFINE old == ShareRows(req[p].with, req[p].list)
               new == [list |-> req[p].list, shared |-> req[p].with,
                       readonly |-> req[p].readonly]
    <2>1. new.list = req[p].list /\ \A r \in old : r.list = req[p].list
      BY DEF ShareRows
    <2>2. InsertSharing(p) = OnSharing(old, IF old = {} THEN {new} ELSE old)
      BY DEF InsertSharing
    <2> HIDE DEF old, new
    <2> QED
      BY <2>1, <2>2, OneTableAbout, InsertsNothing DEF Tame
  <1> QED
    BY <1>1, <1>2, <1>3

\* Those that update its rows: a new version keeps its number and its list.
LEMMA UpdatesTame ==
  ASSUME TypeOK, AuthorityInv, NEW p \in Workers
  PROVE  /\ Tame(p, UpdateName(p)) /\ Tame(p, UpdateAmount(p)) /\ Tame(p, UpdatePantry(p))
         /\ Tame(p, SetPub(p, TRUE)) /\ Tame(p, SetPub(p, FALSE))
  <1>1. ASSUME NEW c \in ItemRows(View(p), p)
        PROVE  /\ c \in ContentRow /\ c \in Contents /\ c.list = req[p].list
    BY ViewPresent, PresentType DEF ItemRows
  <1>3. Tame(p, UpdateName(p))
    <2> DEFINE rows == ItemRows(View(p), p)
               updated(c) == [c EXCEPT !.name = req[p].name]
               new == {updated(c) : c \in rows}
    <2>1. ASSUME NEW c \in rows
          PROVE  updated(c).list = c.list /\ updated(c).from_pantry = c.from_pantry
      BY <1>1 DEF ContentRow
    <2>2. UpdateName(p) = OnContent(rows, new)
      BY DEF UpdateName
    <2>3. \A c \in rows : c \in Contents /\ c.list = req[p].list
      BY <1>1
    <2> HIDE DEF rows, updated
    <2>4. \A c \in rows \cup new : c.list = req[p].list
      BY <2>1, <2>3
    <2>5. \A c \in new : OldContent(c)
      BY <2>1, <2>3 DEF OldContent
    <2> HIDE DEF new
    <2> QED
      BY <2>2, <2>4, <2>5, OneTableAbout, InsertsNothing DEF Tame
  <1>4. Tame(p, UpdateAmount(p))
    <2> DEFINE rows == ItemRows(View(p), p)
               updated(c) == [c EXCEPT !.amount = req[p].amount]
               new == {updated(c) : c \in rows}
    <2>1. ASSUME NEW c \in rows
          PROVE  updated(c).list = c.list /\ updated(c).from_pantry = c.from_pantry
      BY <1>1 DEF ContentRow
    <2>2. UpdateAmount(p) = OnContent(rows, new)
      BY DEF UpdateAmount
    <2>3. \A c \in rows : c \in Contents /\ c.list = req[p].list
      BY <1>1
    <2> HIDE DEF rows, updated
    <2>4. \A c \in rows \cup new : c.list = req[p].list
      BY <2>1, <2>3
    <2>5. \A c \in new : OldContent(c)
      BY <2>1, <2>3 DEF OldContent
    <2> HIDE DEF new
    <2> QED
      BY <2>2, <2>4, <2>5, OneTableAbout, InsertsNothing DEF Tame
  <1>5. Tame(p, UpdatePantry(p))
    <2> DEFINE coalesce(x, old) == IF x = NULL THEN old ELSE x
               updated(r) == [r EXCEPT !.amount = coalesce(req[p].stock, @),
                                       !.target = coalesce(req[p].target, @)]
               rows == PantryRowsAt(db, p)
               new == {updated(r) : r \in rows}
    <2>1. ASSUME NEW r \in rows
          PROVE  r \in PantryRow /\ r \in Pantries /\ r.list = req[p].list
      BY Present, PresentType DEF PantryRowsAt
    <2>2. ASSUME NEW r \in rows PROVE updated(r).list = r.list /\ updated(r).item = r.item
      BY <2>1 DEF PantryRow
    <2>3. UpdatePantry(p) = OnPantry(rows, new)
      BY DEF UpdatePantry
    <2> HIDE DEF rows, updated
    <2>4. \A r \in rows \cup new : r.list = req[p].list
      BY <2>1, <2>2
    <2>5. \A r \in new : OldPantry(r)
      BY <2>1, <2>2 DEF OldPantry
    <2> HIDE DEF new
    <2> QED
      BY <2>3, <2>4, <2>5, OneTableAbout, InsertsNothing DEF Tame
  <1>6. ASSUME NEW flag PROVE Tame(p, SetPub(p, flag))
    <2> DEFINE rows == {r \in db.lists : r.id = req[p].list}
               new == {[r EXCEPT !.pub = flag] : r \in rows}
    <2>1. \A r \in rows \cup new : r.id = req[p].list
      BY DEF TypeOK, Store, ListRow
    <2>2. SetPub(p, flag) = OnLists(rows, new)
      BY DEF SetPub
    <2>3. \A r \in new : r.id \in Nat /\ r.id < next.list
      BY <2>1, Present DEF AuthorityInv, Homes, TypeOK, Store, ListRow
    <2> HIDE DEF rows, new
    <2> QED
      BY <2>1, <2>2, <2>3, OneTableAbout, InsertsNothing DEF Tame
  <1> QED
    BY <1>3, <1>4, <1>5, <1>6

\* The pantry row that delete_item credits is one of the list of the item, and
\* what a refill makes is of the list of the pantry.
LEMMA RestocksTame ==
  ASSUME TypeOK, AuthorityInv, NEW p \in Workers
  PROVE  /\ req[p].op = "delete_item" => Tame(p, CreditPantry(p))
         /\ req[p].op = "refill_pantry" => Tame(p, InsertRefill(p))
  <1>1. ASSUME req[p].op \in Writing
        PROVE  \A r \in seen[p].content \cup seen[p].pantry : r.list = req[p].list
    <2>1. Needed(req[p].op) = "write"
      BY <1>1 DEF Needed, Owning, Writing, Reading
    <2> QED
      BY <2>1 DEF AuthorityInv, RightsInv, Proper, Rows
  <1>2. ASSUME req[p].op = "delete_item" PROVE Tame(p, CreditPantry(p))
    <2> DEFINE rows == CreditedRows(p)
               new == {Credit(p, r) : r \in rows}
    <2>1. ASSUME NEW r \in rows
          PROVE  r \in PantryRow /\ r \in Pantries /\ r.list = req[p].list
      <3>1. r \in Pantries /\ \E c \in seen[p].content : c.from_pantry = r.item
        BY ViewPresent DEF CreditedRows
      <3>2. PICK c \in seen[p].content : c.from_pantry = r.item
        BY <3>1
      <3>3. c \in Contents /\ c.list = req[p].list
        BY <1>1, <1>2, Present DEF Writing
      <3> QED
        BY <3>1, <3>2, <3>3, PresentType DEF AuthorityInv, Homes
    <2>2. ASSUME NEW r \in rows PROVE Credit(p, r).list = r.list /\ Credit(p, r).item = r.item
      BY <2>1 DEF Credit, PantryRow
    <2>3. CreditPantry(p) = OnPantry(rows, new)
      BY DEF CreditPantry
    <2> HIDE DEF rows
    <2>4. \A r \in rows \cup new : r.list = req[p].list
      BY <2>1, <2>2
    <2>5. \A r \in new : OldPantry(r)
      BY <2>1, <2>2 DEF OldPantry
    <2> HIDE DEF new
    <2> QED
      BY <2>3, <2>4, <2>5, OneTableAbout, InsertsNothing DEF Tame
  <1>3. ASSUME req[p].op = "refill_pantry" PROVE Tame(p, InsertRefill(p))
    <2> DEFINE row(r) == [id |-> next.content + r.item - 1, list |-> r.list, name |-> r.name,
                          amount |-> r.target - r.amount, from_pantry |-> r.item]
               new == {row(r) : r \in seen[p].pantry}
    <2>1. ASSUME NEW r \in seen[p].pantry
          PROVE  row(r).list = req[p].list /\ OldContent(row(r))
      <3>1. r \in Pantries /\ r.list = req[p].list
        BY <1>1, <1>3, Present DEF Writing
      <3> QED
        BY <3>1 DEF OldContent
    <2>2. InsertRefill(p) = OnContent({}, new)
      BY DEF InsertRefill
    <2> HIDE DEF row
    <2>3. \A c \in new : c.list = req[p].list /\ OldContent(c)
      BY <2>1
    <2> HIDE DEF new
    <2> QED
      BY <2>2, <2>3, OneTableAbout, InsertsNothing DEF Tame
  <1> QED
    BY <1>2, <1>3

---------------------------------------------------------------------------
(***************************************************************************)
(* The steps that handlers are made of.                                    *)
(***************************************************************************)
\* Steps that change nothing that is stored or has been read.
LEMMA QuietOrderly ==
  ASSUME TypeOK, AuthorityInv, NEW p \in Workers, UNCHANGED <<db, req, seen, next>>,
         UNCHANGED tx \/ tx' = [tx EXCEPT ![p] = NoChange]
  PROVE  Orderly(p)
  <1>1. About(tx'[p], req[p].list)
    BY NothingAbout DEF AuthorityInv, OwnList, TypeOK
  <1>2. tx'[p].ins.pantry \subseteq tx[p].ins.pantry /\ tx'[p].ins.content \subseteq tx[p].ins.content
    BY DEF NoChange, Empty, TypeOK
  <1>3. /\ \A r \in tx'[p].ins.pantry \cup seen'[p].pantry \cup db'.pantry : OldPantry(r)
        /\ \A c \in tx'[p].ins.content \cup seen'[p].content \cup db'.content : OldContent(c)
    BY <1>2, Present, PresentIsOld
  <1>4. Forward
    BY DEF Forward, TypeOK
  <1>5. \A r \in tx'[p].ins.lists \cup db'.lists : r.id < next'.list
    <2>1. tx'[p].ins.lists \subseteq tx[p].ins.lists
      BY DEF NoChange, Empty, TypeOK
    <2> QED
      BY <1>4, <2>1, Present, ListsGivenOut
  <1> QED
    BY <1>1, <1>3, <1>4, <1>5 DEF Orderly, TypeOK

\* A SELECT of rows that are stored.
LEMMA SelectOrderly ==
  ASSUME TypeOK, AuthorityInv, NEW p \in Workers, NEW found, NEW label,
         Select(p, found, label) \/ SelectLast(p, found),
         found.pantry \subseteq db.pantry, found.content \subseteq db.content
  PROVE  Orderly(p)
  <1>1. /\ UNCHANGED <<db, req, next>> /\ seen' = [seen EXCEPT ![p] = Both(@, found)]
        /\ UNCHANGED tx \/ tx' = [tx EXCEPT ![p] = NoChange]
    BY DEF Select, SelectLast, Respond
  <1>2. About(tx'[p], req[p].list)
    BY <1>1, NothingAbout DEF AuthorityInv, OwnList, TypeOK
  <1>3. tx'[p].ins.pantry \subseteq tx[p].ins.pantry /\ tx'[p].ins.content \subseteq tx[p].ins.content
    BY <1>1 DEF NoChange, Empty, TypeOK
  <1>4. /\ seen'[p].pantry = seen[p].pantry \cup found.pantry
        /\ seen'[p].content = seen[p].content \cup found.content
    BY <1>1 DEF Both, TypeOK
  <1>5. /\ \A r \in tx'[p].ins.pantry \cup seen'[p].pantry \cup db'.pantry : OldPantry(r)
        /\ \A c \in tx'[p].ins.content \cup seen'[p].content \cup db'.content : OldContent(c)
    BY <1>1, <1>3, <1>4, Present, PresentIsOld
  <1>6. Forward
    BY <1>1 DEF Forward, TypeOK
  <1>7. \A r \in tx'[p].ins.lists \cup db'.lists : r.id < next'.list
    <2>1. tx'[p].ins.lists \subseteq tx[p].ins.lists
      BY <1>1 DEF NoChange, Empty, TypeOK
    <2> QED
      BY <1>1, <1>6, <2>1, Present, ListsGivenOut
  <1> QED
    BY <1>1, <1>2, <1>5, <1>6, <1>7 DEF Orderly, TypeOK

\* A statement of a transaction.
LEMMA ExecuteOrderly ==
  ASSUME TypeOK, AuthorityInv, NEW p \in Workers, NEW d, NEW inRange, NEW label,
         Execute(p, d, inRange, label), Tame(p, d), Forward
  PROVE  Orderly(p)
  <1>1. UNCHANGED <<db, req, seen>>
    BY DEF Execute
  <1>2. CASE tx' = [tx EXCEPT ![p] = NoChange]
    <2>1. tx'[p].ins.pantry = {} /\ tx'[p].ins.content = {} /\ About(tx'[p], req[p].list)
      BY <1>2, NothingAbout DEF NoChange, Empty, TypeOK
    <2>2. /\ \A r \in tx'[p].ins.pantry \cup seen'[p].pantry \cup db'.pantry : OldPantry(r)
          /\ \A c \in tx'[p].ins.content \cup seen'[p].content \cup db'.content : OldContent(c)
      BY <1>1, <2>1, Present, PresentIsOld
    <2>3. \A r \in tx'[p].ins.lists \cup db'.lists : r.id < next'.list
      <3>1. tx'[p].ins.lists = {}
        BY <1>2 DEF NoChange, Empty, TypeOK
      <3> QED
        BY <1>1, <3>1, Present, ListsGivenOut
    <2> QED
      BY <1>1, <1>2, <2>1, <2>2, <2>3 DEF Orderly, TypeOK
  <1>3. CASE tx' = [tx EXCEPT ![p] = Then(tx[p], d)]
    <2>1. tx'[p] = Then(tx[p], d)
      BY <1>3 DEF TypeOK
    <2>2. About(tx'[p], req[p].list)
      BY <2>1, ThenAbout DEF Tame, AuthorityInv, OwnList
    <2>3. /\ tx'[p].ins.pantry \subseteq tx[p].ins.pantry \cup d.ins.pantry
          /\ tx'[p].ins.content \subseteq tx[p].ins.content \cup d.ins.content
      BY <2>1 DEF Then, Apply
    <2>4. /\ \A r \in tx'[p].ins.pantry \cup seen'[p].pantry \cup db'.pantry : OldPantry(r)
          /\ \A c \in tx'[p].ins.content \cup seen'[p].content \cup db'.content : OldContent(c)
      BY <1>1, <2>3, Present, PresentIsOld DEF Tame
    <2>5. \A r \in tx'[p].ins.lists \cup db'.lists : r.id < next'.list
      <3>1. tx'[p].ins.lists \subseteq tx[p].ins.lists \cup d.ins.lists
        BY <2>1 DEF Then, Apply
      <3> QED
        BY <1>1, <3>1, Present, ListsGivenOut DEF Tame
    <2> QED
      BY <1>1, <1>3, <2>2, <2>4, <2>5 DEF Orderly, TypeOK
  <1> QED
    BY <1>2, <1>3 DEF Execute, Respond

\* A statement of the pool that changes the list of the request.
LEMMA AutocommitOrderly ==
  ASSUME TypeOK, AuthorityInv, NEW p \in Workers, NEW d, NEW inRange,
         Autocommit(p, d, inRange), Tame(p, d), Forward, req[p].op \in Owning \cup Writing
  PROVE  Orderly(p)
  <1>1. UNCHANGED <<req, seen>> /\ tx' = [tx EXCEPT ![p] = NoChange]
    BY DEF Autocommit, Committed, Respond
  <1>2. db' = db \/ db' = Apply(db, d)
    BY DEF Autocommit
  <1>3. tx'[p].ins.pantry = {} /\ tx'[p].ins.content = {} /\ About(tx'[p], req[p].list)
    BY <1>1, NothingAbout DEF NoChange, Empty, TypeOK
  <1>4. /\ db'.pantry \subseteq db.pantry \cup d.ins.pantry
        /\ db'.content \subseteq db.content \cup d.ins.content
    BY <1>2 DEF Apply
  <1>5. /\ \A r \in tx'[p].ins.pantry \cup seen'[p].pantry \cup db'.pantry : OldPantry(r)
        /\ \A c \in tx'[p].ins.content \cup seen'[p].content \cup db'.content : OldContent(c)
    BY <1>1, <1>3, <1>4, Present, PresentIsOld DEF Tame
  <1>6. db' = db \/ \E e : Authored(p, e)
    BY <1>2 DEF Authored, Tame
  <1>7. \A r \in tx'[p].ins.lists \cup db'.lists : r.id < next'.list
    <2>1. tx'[p].ins.lists = {} /\ db'.lists \subseteq db.lists \cup d.ins.lists
      BY <1>1, <1>2 DEF NoChange, Empty, Apply, TypeOK
    <2> QED
      BY <2>1, Present, ListsGivenOut DEF Tame
  <1> QED
    BY <1>1, <1>3, <1>5, <1>6, <1>7 DEF Orderly, TypeOK

\* A commit.
LEMMA CommitOrderly ==
  ASSUME TypeOK, AuthorityInv, NEW p \in Workers, Commit(p), req[p].op \in Owning \cup Writing
  PROVE  Orderly(p)
  <1>1. UNCHANGED <<req, seen, next>> /\ tx' = [tx EXCEPT ![p] = NoChange]
          /\ db' = Apply(db, tx[p])
    BY DEF Commit, Committed, Respond, View
  <1>2. tx'[p].ins.pantry = {} /\ tx'[p].ins.content = {} /\ About(tx'[p], req[p].list)
    BY <1>1, NothingAbout DEF NoChange, Empty, TypeOK
  <1>3. /\ db'.pantry \subseteq db.pantry \cup tx[p].ins.pantry
        /\ db'.content \subseteq db.content \cup tx[p].ins.content
    BY <1>1 DEF Apply
  <1>4. /\ \A r \in tx'[p].ins.pantry \cup seen'[p].pantry \cup db'.pantry : OldPantry(r)
        /\ \A c \in tx'[p].ins.content \cup seen'[p].content \cup db'.content : OldContent(c)
    BY <1>1, <1>2, <1>3, Present, PresentIsOld
  <1>5. Authored(p, tx[p])
    BY <1>1 DEF Authored, AuthorityInv, OwnList
  <1>6. Forward
    BY <1>1 DEF Forward, TypeOK
  <1>7. \A r \in tx'[p].ins.lists \cup db'.lists : r.id < next'.list
    <2>1. tx'[p].ins.lists = {} /\ db'.lists \subseteq db.lists \cup tx[p].ins.lists
      BY <1>1 DEF NoChange, Empty, Apply, TypeOK
    <2> QED
      BY <1>6, <2>1, Present, ListsGivenOut
  <1> QED
    BY <1>1, <1>2, <1>4, <1>5, <1>6, <1>7 DEF Orderly, TypeOK

\* The checks and taking a connection.
LEMMA ChecksOrderly ==
  ASSUME TypeOK, AuthorityInv, NEW p \in Workers, NEW write, NEW label,
         IsOwner(p, label) \/ CheckList(p, write, label) \/ Begin(p, label)
  PROVE  Orderly(p)
  <1>1. UNCHANGED <<db, req, seen, next>>
          /\ (UNCHANGED tx \/ tx' = [tx EXCEPT ![p] = NoChange])
    BY DEF IsOwner, CheckList, Begin, Respond
  <1> QED
    BY <1>1, QuietOrderly

---------------------------------------------------------------------------
(***************************************************************************)
(* The handlers.                                                           *)
(***************************************************************************)
\* The sequences that a handler leaves alone, or takes the next item from.
LEMMA SequencesForward ==
  ASSUME TypeOK, UNCHANGED next \/ \E n : next' = [next EXCEPT !.content = n]
  PROVE  Forward
  BY DEF Forward, TypeOK

\* The rows that handlers select are stored.
LEMMA FoundStored ==
  ASSUME NEW p \in Workers, NEW rows
  PROVE  /\ [Empty EXCEPT !.content = OfList(db.content, req[p].list)].content \subseteq db.content
         /\ [Empty EXCEPT !.content = ItemRows(db, p)].content \subseteq db.content
         /\ [Empty EXCEPT !.pantry = OfList(db.pantry, req[p].list)].pantry \subseteq db.pantry
         /\ [Empty EXCEPT !.pantry = Missing(p)].pantry \subseteq db.pantry
         /\ [Empty EXCEPT !.content = rows].pantry = {}
         /\ [Empty EXCEPT !.pantry = rows].content = {}
         /\ [Empty EXCEPT !.sharing = rows].pantry = {}
         /\ [Empty EXCEPT !.sharing = rows].content = {}
  BY DEF Empty, OfList, ItemRows, Missing

\* create_list takes the next id.
LEMMA CreateListOrderly ==
  ASSUME TypeOK, AuthorityInv, NEW p \in Workers, CreateList(p)
  PROVE  Orderly(p)
  <1>1. CASE At(p, "create_list", "count_names")
    <2>1. /\ UNCHANGED <<db, req, seen, next>>
          /\ UNCHANGED tx \/ tx' = [tx EXCEPT ![p] = NoChange]
      BY <1>1 DEF CreateList, At, Respond
    <2> QED
      BY <2>1, QuietOrderly
  <1>2. CASE At(p, "create_list", "insert_list")
    <2> DEFINE row == [id |-> next.list, owner |-> req[p].user, name |-> req[p].name,
                       pub |-> FALSE]
    <2>1. /\ UNCHANGED <<req, seen>> /\ tx' = [tx EXCEPT ![p] = NoChange]
          /\ db' = db \/ db' = Apply(db, InsertList(p))
          /\ next' = [next EXCEPT !.list = @ + 1]
          /\ req[p].op = "create_list"
      BY <1>2 DEF CreateList, At, Autocommit, Committed, Respond
    <2>2. tx'[p].ins = Empty /\ About(tx'[p], req[p].list)
      BY <2>1, NothingAbout DEF NoChange, TypeOK
    <2>3. InsertList(p) = OnLists({}, {row}) /\ row.id = next.list
      BY DEF InsertList
    <2> HIDE DEF row
    <2>4. /\ db'.pantry \subseteq db.pantry /\ db'.content \subseteq db.content
          /\ db'.lists \subseteq db.lists \cup {row}
      BY <2>1, <2>3 DEF Apply, OnLists, Empty
    <2>5. Forward /\ next'.list = next.list + 1 /\ next.list \in Nat
      BY <2>1 DEF Forward, TypeOK
    <2>6. /\ \A r \in tx'[p].ins.pantry \cup seen'[p].pantry \cup db'.pantry : OldPantry(r)
          /\ \A c \in tx'[p].ins.content \cup seen'[p].content \cup db'.content : OldContent(c)
      BY <2>1, <2>2, <2>4, Present, PresentIsOld DEF Empty
    <2>7. \A r \in tx'[p].ins.lists \cup db'.lists : r.id < next'.list
      <3>1. row.id < next'.list
        BY <2>3, <2>5
      <3> QED
        BY <2>2, <2>4, <2>5, <3>1, Present, ListsGivenOut DEF Empty
    <2>8. db' = db \/ \E d : Authored(p, d)
      BY <2>1 DEF Authored
    <2> QED
      BY <2>1, <2>2, <2>5, <2>6, <2>7, <2>8 DEF Orderly, TypeOK
  <1> QED
    BY <1>1, <1>2 DEF CreateList

\* add_to_pantry takes the next number.
LEMMA AddToPantryOrderly ==
  ASSUME TypeOK, AuthorityInv, NEW p \in Workers, AddToPantry(p)
  PROVE  Orderly(p)
  <1>1. CASE CheckList(p, TRUE, "begin") \/ Begin(p, "insert_pantry")
    BY <1>1, ChecksOrderly
  <1>2. CASE pc[p] = "insert_pantry"
    <2> DEFINE row == [item |-> next.pantry, list |-> req[p].list, name |-> req[p].name,
                       target |-> req[p].target, amount |-> 0]
    <2>1. /\ UNCHANGED <<req, seen>> /\ tx' = [tx EXCEPT ![p] = NoChange]
          /\ db' = db \/ db' = Apply(db, InsertPantry(p))
          /\ next' = [next EXCEPT !.pantry = @ + 1]
          /\ req[p].op = "add_to_pantry"
      BY <1>2 DEF AddToPantry, CheckList, Begin, Autocommit, Committed, Respond
    <2>2. tx'[p].ins = Empty /\ About(tx'[p], req[p].list)
      BY <2>1, NothingAbout DEF NoChange, TypeOK
    <2>3. InsertPantry(p) = OnPantry({}, {row}) /\ row.item = next.pantry /\ row.list = req[p].list
      BY DEF InsertPantry
    <2> HIDE DEF row
    <2>4. /\ db'.pantry \subseteq db.pantry \cup {row}
          /\ db'.content \subseteq db.content /\ db'.lists \subseteq db.lists
      BY <2>1, <2>3 DEF Apply, OnPantry, Empty
    <2>5. Forward /\ NewPantry(p, row)
      BY <2>1, <2>3 DEF Forward, NewPantry, TypeOK
    <2>6. /\ \A r \in tx'[p].ins.pantry \cup seen'[p].pantry \cup db'.pantry :
               OldPantry(r) \/ NewPantry(p, r)
          /\ \A c \in tx'[p].ins.content \cup seen'[p].content \cup db'.content : OldContent(c)
      BY <2>1, <2>2, <2>4, <2>5, Present, PresentIsOld DEF Empty
    <2>7. \A r \in tx'[p].ins.lists \cup db'.lists : r.id < next'.list
      BY <2>2, <2>4, <2>5, Present, ListsGivenOut DEF Empty
    <2>8. db' = db \/ \E d : Authored(p, d)
      BY <2>1, <2>3, OneTableAbout DEF Authored, Writing
    <2> QED
      BY <2>1, <2>2, <2>5, <2>6, <2>7, <2>8 DEF Orderly, TypeOK
  <1> QED
    BY <1>1, <1>2 DEF AddToPantry

\* The other handlers of list.rs.
LEMMA ListHandlersOrderly ==
  ASSUME TypeOK, AuthorityInv, NEW p \in Workers,
         \/ ReadList(p) \/ AddList(p) \/ UpdateItem(p) \/ DeleteItem(p)
         \/ DeleteList(p) \/ SetPublic(p) \/ RemovePublic(p) \/ GetPublicList(p)
  PROVE  Orderly(p)
  <1>1. CASE ReadList(p)
    BY <1>1, ChecksOrderly, SelectOrderly, FoundStored DEF ReadList
  <1>2. CASE AddList(p)
    <2>1. CASE CheckList(p, TRUE, "begin") \/ Begin(p, "insert_content")
      BY <2>1, ChecksOrderly
    <2>2. CASE Commit(p)
      BY <1>2, <2>2, CommitOrderly DEF AddList, Writing
    <2>3. CASE /\ Execute(p, InsertContent(p), TRUE, "upsert_history")
               /\ next' = [next EXCEPT !.content = @ + 1]
      BY <2>3, ExecuteOrderly, InsertsTame, SequencesForward
    <2>4. CASE Execute(p, UpsertHistory(p), TRUE, "commit") /\ UNCHANGED next
      BY <2>4, ExecuteOrderly, InsertsTame, SequencesForward
    <2> QED
      BY <1>2, <2>1, <2>2, <2>3, <2>4 DEF AddList
  <1>3. CASE UpdateItem(p)
    <2>1. CASE Commit(p)
      BY <1>3, <2>1, CommitOrderly DEF UpdateItem, Writing
    <2>2. CASE \E label : CheckList(p, TRUE, label) \/ Begin(p, label)
      BY <2>2, ChecksOrderly
    <2>3. CASE UNCHANGED next /\ \E label : \/ Execute(p, UpdateName(p), TRUE, label)
                                            \/ Execute(p, UpdateAmount(p), TRUE, label)
      BY <2>3, ExecuteOrderly, UpdatesTame, SequencesForward
    <2> QED
      BY <1>3, <2>1, <2>2, <2>3 DEF UpdateItem
  <1>4. CASE DeleteItem(p)
    <2>1. CASE CheckList(p, TRUE, "begin") \/ Begin(p, "read_item")
      BY <2>1, ChecksOrderly
    <2>2. CASE Commit(p)
      BY <1>4, <2>2, CommitOrderly DEF DeleteItem, Writing
    <2>3. CASE Select(p, [Empty EXCEPT !.content = ItemRows(db, p)], "credit_pantry")
      BY <2>3, SelectOrderly, FoundStored
    <2>4. CASE /\ Execute(p, CreditPantry(p), CreditInRange(p), "delete_item")
               /\ UNCHANGED next
      BY <1>4, <2>4, ExecuteOrderly, RestocksTame, SequencesForward DEF DeleteItem
    <2>5. CASE Execute(p, DeleteItemRow(p), TRUE, "commit") /\ UNCHANGED next
      BY <2>5, ExecuteOrderly, DeletesTame, SequencesForward
    <2> QED
      BY <1>4, <2>1, <2>2, <2>3, <2>4, <2>5 DEF DeleteItem
  <1>5. CASE DeleteList(p)
    <2>1. CASE IsOwner(p, "begin") \/ Begin(p, "delete_sharing")
      BY <2>1, ChecksOrderly
    <2>2. CASE Commit(p)
      BY <1>5, <2>2, CommitOrderly DEF DeleteList, Owning
    <2>3. CASE UNCHANGED next /\ \E label : \/ Execute(p, DeleteSharing(p), TRUE, label)
                                            \/ Execute(p, DeleteContents(p), TRUE, label)
                                            \/ Execute(p, DeleteHistory(p), TRUE, label)
                                            \/ Execute(p, DeleteListRow(p), TRUE, label)
      BY <2>3, ExecuteOrderly, DeletesTame, SequencesForward
    <2> QED
      BY <1>5, <2>1, <2>2, <2>3 DEF DeleteList
  <1>6. CASE SetPublic(p) \/ RemovePublic(p)
    <2>1. CASE IsOwner(p, "begin") \/ Begin(p, "set_pub")
      BY <2>1, ChecksOrderly
    <2>2. CASE /\ UNCHANGED next
               /\ \/ Autocommit(p, SetPub(p, TRUE), TRUE)
                  \/ Autocommit(p, SetPub(p, FALSE), TRUE)
      <3>1. req[p].op \in Owning
        BY <1>6 DEF SetPublic, RemovePublic, Owning
      <3> QED
        BY <2>2, <3>1, AutocommitOrderly, UpdatesTame, SequencesForward
    <2> QED
      BY <1>6, <2>1, <2>2 DEF SetPublic, RemovePublic
  <1>7. CASE GetPublicList(p)
    <2>1. CASE pc[p] = "select_pub"
      <3>1. /\ UNCHANGED <<db, req, seen, next>>
            /\ UNCHANGED tx \/ tx' = [tx EXCEPT ![p] = NoChange]
        BY <1>7, <2>1 DEF GetPublicList, Respond
      <3> QED
        BY <3>1, QuietOrderly
    <2>2. CASE SelectLast(p, [Empty EXCEPT !.content = OfList(db.content, req[p].list)])
      BY <2>2, SelectOrderly, FoundStored
    <2> QED
      BY <1>7, <2>1, <2>2 DEF GetPublicList
  <1> QED
    BY <1>1, <1>2, <1>3, <1>4, <1>5, <1>6, <1>7

\* The handlers of share.rs.
LEMMA ShareHandlersOrderly ==
  ASSUME TypeOK, AuthorityInv, NEW p \in Workers,
         GetShares(p) \/ ShareList(p) \/ Unshare(p) \/ DeleteShares(p)
  PROVE  Orderly(p)
  <1>1. CASE GetShares(p)
    BY <1>1, ChecksOrderly, SelectOrderly, FoundStored DEF GetShares
  <1>2. CASE ShareList(p)
    <2>1. CASE CheckList(p, TRUE, "begin") \/ Begin(p, "insert_sharing")
      BY <2>1, ChecksOrderly
    <2>2. CASE Autocommit(p, InsertSharing(p), TRUE) /\ UNCHANGED next
      BY <1>2, <2>2, AutocommitOrderly, InsertsTame, SequencesForward DEF ShareList, Writing
    <2> QED
      BY <1>2, <2>1, <2>2 DEF ShareList
  <1>3. CASE Unshare(p) \/ DeleteShares(p)
    <2>1. CASE \E label : IsOwner(p, label) \/ Begin(p, label)
      BY <2>1, ChecksOrderly
    <2>2. CASE Commit(p)
      BY <1>3, <2>2, CommitOrderly DEF Unshare, DeleteShares, Owning
    <2>3. CASE UNCHANGED next /\ \E label : \/ Execute(p, DeleteShare(p), TRUE, label)
                                            \/ Execute(p, DeleteHistoryOf(p), TRUE, label)
                                            \/ Execute(p, DeleteSharing(p), TRUE, label)
                                            \/ Execute(p, DeleteHistoryOthers(p), TRUE, label)
      BY <2>3, ExecuteOrderly, DeletesTame, SequencesForward
    <2>4. ASSUME Unshare(p) PROVE Orderly(p)
      BY <2>1, <2>2, <2>3, <2>4 DEF Unshare
    <2>5. ASSUME DeleteShares(p) PROVE Orderly(p)
      BY <2>1, <2>2, <2>3, <2>5 DEF DeleteShares
    <2> QED
      BY <1>3, <2>4, <2>5
  <1> QED
    BY <1>1, <1>2, <1>3

\* The other handlers of pantry.rs.
LEMMA PantryHandlersOrderly ==
  ASSUME TypeOK, AuthorityInv, NEW p \in Workers,
         GetPantry(p) \/ SetPantryItem(p) \/ DeletePantryItem(p) \/ RefillPantry(p)
  PROVE  Orderly(p)
  <1>1. CASE GetPantry(p)
    BY <1>1, ChecksOrderly, SelectOrderly, FoundStored DEF GetPantry
  <1>2. CASE SetPantryItem(p)
    <2>1. CASE CheckList(p, TRUE, "begin") \/ Begin(p, "update_pantry")
      BY <2>1, ChecksOrderly
    <2>2. CASE Autocommit(p, UpdatePantry(p), TRUE) /\ UNCHANGED next
      BY <1>2, <2>2, AutocommitOrderly, UpdatesTame, SequencesForward
      DEF SetPantryItem, Writing
    <2> QED
      BY <1>2, <2>1, <2>2 DEF SetPantryItem
  <1>3. CASE DeletePantryItem(p)
    <2>1. CASE CheckList(p, TRUE, "begin") \/ Begin(p, "delete_refills")
      BY <2>1, ChecksOrderly
    <2>2. CASE Commit(p)
      BY <1>3, <2>2, CommitOrderly DEF DeletePantryItem, Writing
    <2>3. CASE UNCHANGED next /\ \E label : \/ Execute(p, DeleteRefills(p), TRUE, label)
                                            \/ Execute(p, DeletePantryRow(p), TRUE, label)
      BY <2>3, ExecuteOrderly, DeletesTame, SequencesForward
    <2> QED
      BY <1>3, <2>1, <2>2, <2>3 DEF DeletePantryItem
  <1>4. CASE RefillPantry(p)
    <2>1. CASE CheckList(p, TRUE, "begin") \/ Begin(p, "read_pantry")
      BY <2>1, ChecksOrderly
    <2>2. CASE Select(p, [Empty EXCEPT !.pantry = Missing(p)], "insert_refill")
      BY <2>2, SelectOrderly, FoundStored
    <2>3. CASE \E inRange, n : /\ Autocommit(p, InsertRefill(p), inRange)
                               /\ next' = [next EXCEPT !.content = n]
      BY <1>4, <2>3, AutocommitOrderly, RestocksTame, SequencesForward
      DEF RefillPantry, Writing
    <2> QED
      BY <1>4, <2>1, <2>2, <2>3 DEF RefillPantry
  <1> QED
    BY <1>1, <1>2, <1>3, <1>4

\* Every handler, and the failures.
LEMMA HandleOrderly ==
  ASSUME TypeOK, AuthorityInv, NEW p \in Workers, Handle(p) \/ Fail(p) \/ Deadlock(p)
  PROVE  Orderly(p)
  <1>1. CASE Fail(p) \/ Deadlock(p)
    <2>1. /\ UNCHANGED <<db, req, seen, next>>
          /\ UNCHANGED tx \/ tx' = [tx EXCEPT ![p] = NoChange]
      BY <1>1 DEF Fail, Deadlock, Respond
    <2> QED
      BY <2>1, QuietOrderly
  <1>2. CASE ListLists(p) \/ HistorySearch(p)
    <2>1. \E rows, shares :
            \/ Select(p, [Empty EXCEPT !.lists = rows], "select_shared")
            \/ SelectLast(p, [Empty EXCEPT !.lists = rows, !.sharing = shares])
            \/ SelectLast(p, [Empty EXCEPT !.history = rows])
      BY <1>2 DEF ListLists, HistorySearch
    <2>2. ASSUME NEW rows, NEW shares
          PROVE  /\ [Empty EXCEPT !.lists = rows].pantry = {}
                 /\ [Empty EXCEPT !.lists = rows].content = {}
                 /\ [Empty EXCEPT !.lists = rows, !.sharing = shares].pantry = {}
                 /\ [Empty EXCEPT !.lists = rows, !.sharing = shares].content = {}
                 /\ [Empty EXCEPT !.history = rows].pantry = {}
                 /\ [Empty EXCEPT !.history = rows].content = {}
      BY DEF Empty
    <2> QED
      BY <2>1, <2>2, SelectOrderly
  <1> QED
    BY <1>1, <1>2, CreateListOrderly, AddToPantryOrderly, ListHandlersOrderly,
       ShareHandlersOrderly, PantryHandlersOrderly DEF Handle

---------------------------------------------------------------------------
(***************************************************************************)
(* The invariant.                                                          *)
(***************************************************************************)
\* It holds at the start: the references of the store hold, and the sequences
\* begin after its rows.
LEMMA InitAuthority == Init => AuthorityInv
  <1> SUFFICES ASSUME Init PROVE AuthorityInv
    OBVIOUS
  <1>1. /\ db = InitialStore /\ tx = [q \in Workers |-> NoChange]
        /\ seen = [q \in Workers |-> Empty]
        /\ next.list = 1 + Cardinality(InitialStore.lists)
        /\ next.pantry = 1 + Cardinality(InitialStore.pantry)
    BY DEF Init
  <1>2. Pantries = db.pantry /\ Contents = db.content /\ Lists = db.lists
    BY <1>1 DEF Pantries, Contents, Lists, NoChange, Empty
  <1>3. Cardinality(InitialStore.lists) \in Nat /\ Cardinality(InitialStore.pantry) \in Nat
    BY StoreAssumption, FS_CardinalityType
  <1>4. \A r \in db.pantry : r.item < next.pantry
    BY <1>1, <1>3, StoreAssumption
  <1>5. \A r \in db.lists : r.id < next.list
    BY <1>1, <1>3, StoreAssumption
  <1>6. \A c \in db.content : c.from_pantry < next.pantry
    <2> TAKE c \in db.content
    <2>1. CASE c.from_pantry = NoItem
      BY <1>1, <1>3, <2>1 DEF NoItem
    <2>2. CASE c.from_pantry \in PantryItems(db)
      BY <1>4, <2>2 DEF PantryItems
    <2> QED
      BY <1>1, <2>1, <2>2, StoreAssumption DEF ReferencesHold
  <1>7. Homes
    BY <1>1, <1>2, <1>4, <1>5, <1>6, StoreAssumption DEF Homes
  <1>8. OwnList
    BY <1>1, NothingAbout DEF OwnList
  <1> QED
    BY <1>7, <1>8, InitRights DEF AuthorityInv

\* An orderly step keeps the homes: what is new has the next number or one of
\* its own list.
LEMMA OrderlyHomes ==
  ASSUME TypeOK, AuthorityInv, NEW p \in Workers, Orderly(p), next' \in SequenceType
  PROVE  Homes'
  <1>1. ASSUME NEW r \in Pantries' PROVE OldPantry(r) \/ NewPantry(p, r)
    <2>1. CASE r \in db'.pantry \cup tx'[p].ins.pantry \cup seen'[p].pantry
      BY <2>1 DEF Orderly
    <2>2. ASSUME NEW q \in Workers \ {p}, r \in tx'[q].ins.pantry \cup seen'[q].pantry
          PROVE  OldPantry(r)
      <3>1. r \in tx[q].ins.pantry \cup seen[q].pantry
        BY <2>2 DEF Orderly
      <3> QED
        BY <3>1, Present, PresentIsOld
    <2> QED
      BY <2>1, <2>2 DEF Pantries
  <1>2. ASSUME NEW c \in Contents' PROVE OldContent(c)
    <2>1. CASE c \in db'.content \cup tx'[p].ins.content \cup seen'[p].content
      BY <2>1 DEF Orderly
    <2>2. ASSUME NEW q \in Workers \ {p}, c \in tx'[q].ins.content \cup seen'[q].content
          PROVE  OldContent(c)
      <3>1. c \in tx[q].ins.content \cup seen[q].content
        BY <2>2 DEF Orderly
      <3> QED
        BY <3>1, Present, PresentIsOld
    <2> QED
      BY <2>1, <2>2 DEF Contents
  <1>3. /\ next.pantry \in Nat \ {0} /\ next'.pantry \in Nat \ {0}
        /\ next'.pantry >= next.pantry
    BY DEF TypeOK, SequenceType, Orderly, Forward
  <1>4. \A r : OldPantry(r) => r.item \in Nat \ {0} /\ r.item < next.pantry
    BY PresentType DEF OldPantry, AuthorityInv, Homes, PantryRow
  <1>5. ASSUME NEW r, NEW t, OldPantry(r) \/ NewPantry(p, r), OldPantry(t) \/ NewPantry(p, t),
               r.item = t.item
        PROVE  r.list = t.list
    <2>1. CASE OldPantry(r) /\ OldPantry(t)
      BY <1>5, <2>1 DEF OldPantry, AuthorityInv, Homes
    <2>2. CASE NewPantry(p, r) /\ NewPantry(p, t)
      BY <2>2 DEF NewPantry
    <2>3. CASE \/ OldPantry(r) /\ NewPantry(p, t)
               \/ NewPantry(p, r) /\ OldPantry(t)
      BY <1>3, <1>4, <1>5, <2>3 DEF NewPantry
    <2> QED
      BY <1>5, <2>1, <2>2, <2>3
  <1>6. ASSUME NEW c, NEW r, OldContent(c), OldPantry(r) \/ NewPantry(p, r),
               c.from_pantry = r.item
        PROVE  c.list = r.list
    <2>1. r.item \in Nat \ {0}
      BY <1>3, <1>4, <1>6 DEF NewPantry
    <2>2. CASE c.from_pantry = NoItem
      BY <1>6, <2>1, <2>2 DEF NoItem
    <2>3. ASSUME NEW t \in Pantries, t.item = c.from_pantry, t.list = c.list
          PROVE  c.list = r.list
      BY <1>5, <1>6, <2>3, PresentIsOld
    <2>4. ASSUME NEW b \in Contents, b.from_pantry = c.from_pantry, b.list = c.list
          PROVE  c.list = r.list
      <3>1. b.from_pantry < next.pantry
        BY DEF AuthorityInv, Homes
      <3>2. OldPantry(r)
        BY <1>3, <1>6, <2>4, <3>1 DEF NewPantry
      <3> QED
        BY <1>6, <2>4, <3>2 DEF OldPantry, AuthorityInv, Homes
    <2> QED
      BY <1>6, <2>2, <2>3, <2>4 DEF OldContent
  <1>7. \A r : OldPantry(r) \/ NewPantry(p, r) => r.item < next'.pantry
    BY <1>3, <1>4 DEF NewPantry
  <1>8. ASSUME NEW c, OldContent(c) PROVE c.from_pantry < next'.pantry
    <2>1. CASE c.from_pantry = NoItem
      BY <1>3, <2>1 DEF NoItem
    <2>2. CASE \E t \in Pantries : t.item = c.from_pantry
      BY <1>7, <2>2, PresentIsOld
    <2>3. CASE \E b \in Contents : b.from_pantry = c.from_pantry
      <3>1. c.from_pantry \in Nat /\ c.from_pantry < next.pantry
        BY <2>3, PresentType DEF AuthorityInv, Homes, ContentRow
      <3> QED
        BY <1>3, <3>1
    <2> QED
      BY <1>8, <2>1, <2>2, <2>3 DEF OldContent
  <1>9. ASSUME NEW r \in Lists' PROVE r.id < next'.list
    <2>1. CASE r \in db'.lists \cup tx'[p].ins.lists
      BY <2>1 DEF Orderly
    <2>2. ASSUME NEW q \in Workers \ {p}, r \in tx'[q].ins.lists
          PROVE  r.id < next'.list
      <3>1. r \in tx[q].ins.lists
        BY <2>2 DEF Orderly
      <3> QED
        BY <3>1, Present, ListsGivenOut DEF Orderly
    <2> QED
      BY <2>1, <2>2 DEF Lists
  <1> QED
    BY <1>1, <1>2, <1>5, <1>6, <1>7, <1>8, <1>9 DEF Homes

\* A step of a handler, a failure or a lost deadlock keeps the invariant.
LEMMA HandleAuthority ==
  ASSUME TypeOK, TypeOK', AuthorityInv, NEW p \in Workers,
         Handle(p) \/ Fail(p) \/ Deadlock(p)
  PROVE  AuthorityInv'
  <1>1. Orderly(p)
    BY HandleOrderly
  <1>2. RightsInv'
    BY HandleRights, OthersRights DEF AuthorityInv
  <1>3. Homes'
    BY <1>1, OrderlyHomes DEF TypeOK, SequenceType
  <1>4. \E l \in Labels \ {"idle"} : pc' = [pc EXCEPT ![p] = l]
    BY HandleMoves DEF Moved, Deadlock, Respond, Labels, Statements
  <1>5. OwnList'
    <2>1. ASSUME NEW q \in Workers, q # p
          PROVE  About(tx'[q], req'[q].list) /\ (pc'[q] = "idle" => tx'[q] = NoChange)
      BY <1>1, <1>4, <2>1 DEF Orderly, AuthorityInv, OwnList, TypeOK
    <2>2. About(tx'[p], req'[p].list) /\ pc'[p] # "idle"
      BY <1>1, <1>4 DEF Orderly, TypeOK
    <2> QED
      BY <2>1, <2>2 DEF OwnList, About
  <1> QED
    BY <1>2, <1>3, <1>5 DEF AuthorityInv

\* A request that arrives or leaves keeps it: nothing is under way before, or
\* nothing afterwards.
LEMMA OthersAuthority ==
  ASSUME TypeOK, AuthorityInv, NEW p \in Workers, Arrive(p) \/ Deliver(p) \/ Cancel(p)
  PROVE  AuthorityInv'
  <1>1. RightsInv'
    BY OthersRights DEF AuthorityInv
  <1>2. /\ UNCHANGED <<db, next>> /\ tx'[p] = NoChange
        /\ \A q \in Workers \ {p} : tx'[q] = tx[q] /\ req'[q] = req[q] /\ pc'[q] = pc[q]
        /\ \A q \in Workers : /\ tx'[q] \in {tx[q], NoChange}
                              /\ seen'[q] \in {seen[q], Empty}
    <2>1. CASE Arrive(p)
      BY <2>1 DEF Arrive, AuthorityInv, OwnList, TypeOK
    <2>2. CASE Leave(p)
      BY <2>2 DEF Leave, TypeOK
    <2> QED
      BY <2>1, <2>2 DEF Deliver, Cancel
  <1>3. ASSUME NEW q \in Workers
        PROVE  /\ tx'[q].ins.pantry \subseteq tx[q].ins.pantry
               /\ tx'[q].ins.content \subseteq tx[q].ins.content
               /\ tx'[q].ins.lists \subseteq tx[q].ins.lists
               /\ seen'[q].pantry \subseteq seen[q].pantry
               /\ seen'[q].content \subseteq seen[q].content
    BY <1>2 DEF NoChange, Empty
  <1>4. Pantries' \subseteq Pantries /\ Contents' \subseteq Contents /\ Lists' \subseteq Lists
    BY <1>2, <1>3 DEF Pantries, Contents, Lists
  <1>5. Homes'
    BY <1>2, <1>4 DEF AuthorityInv, Homes
  <1>6. OwnList'
    <2>1. ASSUME NEW q \in Workers
          PROVE  About(tx'[q], req'[q].list) /\ (pc'[q] = "idle" => tx'[q] = NoChange)
      BY <1>2, NothingAbout DEF AuthorityInv, OwnList
    <2> QED
      BY <2>1 DEF OwnList, About
  <1> QED
    BY <1>1, <1>5, <1>6 DEF AuthorityInv

\* So does every step.
LEMMA NextAuthority == TypeInv /\ AuthorityInv /\ [Next]_vars => AuthorityInv'
  <1> SUFFICES ASSUME TypeInv, AuthorityInv, [Next]_vars PROVE AuthorityInv'
    OBVIOUS
  <1>1. TypeOK /\ TypeOK'
    BY NextTypeInv DEF TypeInv
  <1>2. CASE UNCHANGED vars
    BY <1>2 DEF vars, AuthorityInv, RightsInv, Passed, Proper, Homes, OwnList, About,
       Pantries, Contents, Lists
  <1>3. CASE Next
    BY <1>1, <1>3, HandleAuthority, OthersAuthority DEF Next, Serve
  <1> QED
    BY <1>2, <1>3

---------------------------------------------------------------------------
(***************************************************************************)
(* The action property.                                                    *)
(***************************************************************************)
\* A change about one list leaves what is stored about the others.
LEMMA OthersUntouched ==
  ASSUME NEW s, NEW d, NEW l, NEW m, About(d, m), l # m
  PROVE  Slice(Apply(s, d), l) = Slice(s, l)
  <1>1. {r \in Apply(s, d).lists : r.id = l} = {r \in s.lists : r.id = l}
    BY DEF About, Apply
  <1>2. OfList(Apply(s, d).sharing, l) = OfList(s.sharing, l)
    BY DEF About, Apply, OfList
  <1>3. OfList(Apply(s, d).content, l) = OfList(s.content, l)
    BY DEF About, Apply, OfList
  <1>4. OfList(Apply(s, d).history, l) = OfList(s.history, l)
    BY DEF About, Apply, OfList
  <1>5. OfList(Apply(s, d).pantry, l) = OfList(s.pantry, l)
    BY DEF About, Apply, OfList
  <1> QED
    BY <1>1, <1>2, <1>3, <1>4, <1>5 DEF Slice

\* Who changes the database is past the checks of its handler.
LEMMA WritersPassed ==
  ASSUME AuthorityInv, NEW p \in Workers, Handle(p), db' # db,
         req[p].op \in Owning \cup Writing
  PROVE  Needed(req[p].op) \in granted[p]
  <1>1. Needed(req[p].op) # "none"
    BY DEF Needed, Owning, Writing, Reading
  <1>2. pc[p] # "done"
    BY HandleMoves DEF Moved
  <1>3. pc[p] \notin Entering
    BY <1>1, HandlersCheck DEF IsOwner, CheckList, GetPublicList, Select, SelectLast
  <1> QED
    BY <1>1, <1>2, <1>3 DEF AuthorityInv, RightsInv, Passed

\* What a handler changes, its user had the right to.
LEMMA HandlersAuthorised ==
  ASSUME TypeOK, AuthorityInv, NEW p \in Workers, Handle(p), NEW l,
         Slice(db, l) # Slice(db', l)
  PROVE  /\ pc'[p] # pc[p]
         /\ \/ /\ req[p].op \in Owning \cup Writing
               /\ req[p].list = l
               /\ Needed(req[p].op) \in granted[p]
            \/ /\ req[p].op = "create_list"
               /\ l \notin ListIds(db)
               /\ Owns(db', req[p].user, l)
  <1>1. db' # db
    OBVIOUS
  <1>2. pc'[p] # pc[p]
    BY <1>1, HandleMoves DEF Moved, TypeOK
  <1>3. PICK d : Authored(p, d)
    BY <1>1, HandleOrderly DEF Orderly
  <1>4. CASE req[p].op \in Owning \cup Writing /\ About(d, req[p].list)
    BY <1>1, <1>2, <1>3, <1>4, OthersUntouched, WritersPassed DEF Authored
  <1>5. CASE req[p].op = "create_list" /\ d = InsertList(p)
    <2> DEFINE row == [id |-> next.list, owner |-> req[p].user, name |-> req[p].name,
                       pub |-> FALSE]
    <2>1. d = OnLists({}, {row}) /\ row.id = next.list /\ row.owner = req[p].user
      BY <1>5 DEF InsertList
    <2> HIDE DEF row
    <2>2. About(d, next.list)
      BY <2>1, OneTableAbout
    <2>3. l = next.list
      BY <1>3, <2>2, OthersUntouched DEF Authored
    <2>4. next.list \notin ListIds(db)
      <3>1. next.list \in Nat /\ \A r \in db.lists : r.id < next.list
        BY Present DEF AuthorityInv, Homes, TypeOK
      <3> QED
        BY <3>1 DEF ListIds
    <2>5. row \in db'.lists
      <3>1. d.ins.lists = {row}
        BY <2>1, InsertsNothing
      <3> QED
        BY <1>3, <3>1 DEF Authored, Apply
    <2> QED
      BY <1>2, <1>5, <2>1, <2>3, <2>4, <2>5 DEF Owns
  <1> QED
    BY <1>3, <1>4, <1>5 DEF Authored

\* What is stored about a list changes only by a request on that very list, of
\* a user who had the right to it when the request was checked, or by the
\* creation of the list.
THEOREM OnlyByRight == Spec => Authorised
  <1> DEFINE Inv == TypeInv /\ AuthorityInv
             Step == \A l \in ListIds(db) \cup ListIds(db') :
                       Slice(db, l) # Slice(db', l) =>
                         \E p \in Workers :
                           /\ pc'[p] # pc[p]
                           /\ \/ /\ req[p].op \in Owning \cup Writing
                                 /\ req[p].list = l
                                 /\ Needed(req[p].op) \in granted[p]
                              \/ /\ req[p].op = "create_list"
                                 /\ l \notin ListIds(db)
                                 /\ Owns(db', req[p].user, l)
  <1>1. Init => Inv
    BY InitTypeInv, InitAuthority
  <1>2. Inv /\ [Next]_vars => Inv'
    BY NextTypeInv, NextAuthority
  <1>3. Inv /\ [Next]_vars => [Step]_vars
    <2> SUFFICES ASSUME Inv, Next PROVE Step
      OBVIOUS
    <2>1. TypeOK /\ AuthorityInv
      BY DEF TypeInv
    <2>2. PICK p \in Workers : Arrive(p) \/ Serve(p) \/ Cancel(p) \/ Fail(p)
      BY DEF Next
    <2>3. CASE Handle(p)
      BY <2>1, <2>3, HandlersAuthorised
    <2>4. CASE Arrive(p) \/ Deadlock(p) \/ Deliver(p) \/ Cancel(p) \/ Fail(p)
      <3>1. db' = db
        BY <2>4 DEF Arrive, Deadlock, Deliver, Cancel, Leave, Fail
      <3> QED
        BY <3>1
    <2> QED
      BY <2>2, <2>3, <2>4 DEF Serve
  <1> QED
    BY <1>1, <1>2, <1>3, PTL DEF Spec, Authorised
===========================================================================

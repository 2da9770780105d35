------------------------------ MODULE ListPage ------------------------------
(***************************************************************************)
(* The page of one list in the web client (web/src/pages/home/list.rs and  *)
(* its modals), for the account Me.                                        *)
(*                                                                         *)
(* A click starts a job: a request that changes something, then the reads  *)
(* that bring the page up to date.  Jobs run side by side, each with a     *)
(* request under way in a slot of its own, and end in a message to the     *)
(* page.  The page goes on showing the rows of the list it was on before   *)
(* until those of the new one come in.                                     *)
(***************************************************************************)
EXTENDS Client

CONSTANTS Me,
          Links,          \* the lists Me has in the side bar or a bookmark of
          Slots,          \* callers that stand for the jobs of the page
          Blank,          \* the name that is the empty string
          TypedNames, TypedAmounts, TypedNumbers,  \* what users type, or leave
                          \* when they erase a field
          MaxClicks       \* bound: what users do before the model stops

ASSUME PageAssumption ==
  /\ Me \in Accounts /\ Links \subseteq Nat \ {0} /\ Slots \subseteq Callers /\ Blank \in Names
  /\ TypedNames \subseteq Names /\ TypedAmounts \subseteq Amount /\ TypedNumbers \subseteq Int
  /\ MaxClicks \in Nat

VARIABLES
  page,    \* the list of the URL, the rows shown, whether there was an error
  job,     \* job[c]: what the job in slot c still has to ask for, what it
           \* has got, and whether its page is still there
  blank,   \* forms of shown rows that are blank: validated, not drawn again
  clicks,
  quiet    \* auxiliary: since the list was chosen none of its jobs failed or
           \* overlapped, and nobody else changed anything

pageVars == <<page, job, blank, clicks, quiet>>

NoList == 0
ClosedPage == [list |-> NoList, items |-> {}, pantry |-> {}, error |-> FALSE]
NothingGot == [items |-> {}, pantry |-> {}, failed |-> FALSE]
NoJob == [after |-> <<>>, got |-> NothingGot, live |-> FALSE]

Live(c) == job[c].live
AtRest == \A c \in Slots : ~ Live(c)

PageInit ==
  /\ page = ClosedPage
  /\ job = [c \in Slots |-> NoJob]
  /\ blank = {} /\ clicks = 0 /\ quiet = TRUE

---------------------------------------------------------------------------
\* Fault: a removed item is not looked for in the pantry.
ReloadListOnly(op) ==
  CASE op \in {"set_pantry_item", "add_to_pantry"} -> <<"get_pantry">>
    [] op \in {"read_list", "get_pantry"}          -> <<>>
    [] OTHER                                       -> <<"read_list">>

\* What the callback of each button reads again after its request.
Reload(op) ==
  CASE op \in {"delete_item", "delete_pantry_item"} -> <<"read_list", "get_pantry">>
    [] op \in {"update_item", "add_list", "refill_pantry"} -> <<"read_list">>
    [] op \in {"set_pantry_item", "add_to_pantry"}  -> <<"get_pantry">>
    [] OTHER                                        -> <<>>

NewJob(op) == [after |-> Reload(op), got |-> NothingGot, live |-> TRUE]

\* The rows of items and of pantry items, as the user sees them.
Shown == {<<"item", r.id>> : r \in page.items} \cup {<<"pantry", r.item>> : r \in page.pantry}

Click == clicks < MaxClicks /\ clicks' = clicks + 1

---------------------------------------------------------------------------
(***************************************************************************)
(* Another list is chosen, or the first one: two reads, side by side.      *)
(* When the URL has no list any more the component is destroyed; its jobs  *)
(* run on, but nobody hears of them.                                       *)
(***************************************************************************)
Choose(l) ==
  /\ Click
  /\ l # page.list
  /\ \E c, d \in Slots :
       /\ c # d /\ call[c] = Free /\ call[d] = Free
       /\ call' = [call EXCEPT ![c] = Asked(Read(Me, l)), ![d] = Asked(Pantry(Me, l))]
       /\ job' = [job EXCEPT ![c] = NewJob("read_list"), ![d] = NewJob("get_pantry")]
  /\ page' = [page EXCEPT !.list = l]
  /\ blank' = {}
  /\ quiet' = AtRest
  /\ UNCHANGED <<store, next>>

Close ==
  /\ Click
  /\ page.list # NoList
  /\ page' = ClosedPage
  /\ job' = [c \in Slots |-> [job[c] EXCEPT !.live = FALSE]]
  /\ blank' = {} /\ quiet' = TRUE
  /\ UNCHANGED <<store, call, next>>

---------------------------------------------------------------------------
(***************************************************************************)
(* The buttons.  The list of a request is that of the URL; its item is one *)
(* of those shown.                                                         *)
(***************************************************************************)
\* An edit form starts with the values shown and is blank once it was validated.
ItemForm(i) ==
  IF <<"item", i.id>> \in blank THEN [name |-> Blank, amount |-> NULL]
  ELSE [name |-> i.name, amount |-> i.amount]

PantryForm(q) ==
  IF <<"pantry", q.item>> \in blank THEN [stock |-> {}, target |-> {}]
  ELSE [stock |-> {q.amount}, target |-> {q.target}]

\* What a form for something new holds when it is validated, whatever of it was
\* filled in; it is blank before and after.
AddItemForm == [name : {Blank} \cup TypedNames, amount : {NULL} \cup TypedAmounts]
AddPantryItemForm == [name : {Blank} \cup TypedNames, target : TypedNumbers]

Start(c, r) ==
  /\ Click
  /\ page.list # NoList
  /\ Send(c, r)
  /\ job' = [job EXCEPT ![c] = NewJob(r.op)]
  /\ quiet' = (quiet /\ AtRest)
  /\ UNCHANGED <<page, next>>

OnDelete(c) ==
  /\ \E i \in page.items : Start(c, DeleteItem(Me, page.list, i.id))
  /\ UNCHANGED blank

OnEditItem(c) ==
  \E i \in page.items :
    /\ \E n \in {ItemForm(i).name} \cup TypedNames,
          a \in {ItemForm(i).amount} \cup TypedAmounts :
         Start(c, UpdateItem(Me, page.list, i.id, n, a))
    /\ blank' = blank \cup {<<"item", i.id>>}

AddList(c) ==
  /\ \E f \in AddItemForm : Start(c, Add(Me, page.list, f.name, f.amount))
  /\ UNCHANGED blank

OnPantryDelete(c) ==
  /\ \E q \in page.pantry : Start(c, DeletePantryItem(Me, page.list, q.item))
  /\ UNCHANGED blank

OnEditPantryItem(c) ==
  \E q \in page.pantry :
    /\ \E n \in PantryForm(q).stock \cup TypedNumbers,
          t \in PantryForm(q).target \cup TypedNumbers :
         Start(c, EditPantryItem(Me, page.list, q.item, n, t))
    /\ blank' = blank \cup {<<"pantry", q.item>>}

\* "Expected number for target", "Target/Amount where not numbers": a form of the
\* pantry in which a number is missing, as in a blank one, or is none, is not
\* sent, and the page is drawn again.
NotANumber ==
  /\ Click
  /\ page.list # NoList
  /\ page' = [page EXCEPT !.error = TRUE]
  /\ blank' = {}
  /\ UNCHANGED <<store, call, next, job, quiet>>

OnRefill(c) == Start(c, RefillPantry(Me, page.list)) /\ UNCHANGED blank

AddPantry(c) ==
  /\ \E f \in AddPantryItemForm : Start(c, AddToPantry(Me, page.list, f.name, f.target))
  /\ UNCHANGED blank

---------------------------------------------------------------------------
(***************************************************************************)
(* Answers.                                                                *)
(***************************************************************************)
\* What the job in slot c has, with the answer that came in: a set of rows, or
\* none yet.
Got(c) ==
  LET r == call[c] IN
  IF ~ Succeeded(c) THEN [job[c].got EXCEPT !.failed = TRUE]
  ELSE CASE r.req.op = "read_list"  -> [job[c].got EXCEPT !.items = {r.rows.content}]
         [] r.req.op = "get_pantry" -> [job[c].got EXCEPT !.pantry = {r.rows.pantry}]
         [] OTHER                   -> job[c].got

\* A failed change is not followed by reads; a failed read is, by the other.
GoesOn(c) == job[c].after # <<>> /\ (Succeeded(c) \/ Asks(c, "read_list"))

AskAgain(c) ==
  /\ Answered(c) /\ GoesOn(c)
  /\ SendNext(c, Ask(Head(job[c].after), Me, call[c].req.list))
  /\ job' = [job EXCEPT ![c].after = Tail(@), ![c].got = Got(c)]
  /\ UNCHANGED <<page, blank, clicks, quiet, next>>

\* Fault: the edit forms do not take the values of the page again.
RedrawnKeepingForms == UNCHANGED blank

\* The page is drawn, and each form gets the values of its row (changed).
Redrawn == blank' = {}

Newest(got, shown) == IF got = {} THEN shown ELSE UNION got

\* update(): the rows that were got are shown, or there is an error.
Update(got) ==
  page' = IF got.failed THEN [page EXCEPT !.error = TRUE]
          ELSE [page EXCEPT !.items = Newest(got.items, @), !.pantry = Newest(got.pantry, @)]

Finish(c) ==
  /\ Answered(c) /\ ~ GoesOn(c)
  /\ Leave(c)
  /\ job' = [job EXCEPT ![c] = NoJob]
  /\ IF job[c].live THEN /\ Update(Got(c)) /\ Redrawn
                         /\ quiet' = (quiet /\ ~ Got(c).failed)
     ELSE UNCHANGED <<page, blank, quiet>>
  /\ UNCHANGED <<clicks, next>>

\* The server answers; what others than the page do to the lists it cannot know.
ServePage(c) ==
  /\ Serve(c)
  /\ quiet' = (quiet /\ (store' = store \/ Live(c)))
  /\ UNCHANGED <<page, job, blank, clicks>>

PageNext ==
  \/ Close \/ NotANumber
  \/ \E l \in Links : Choose(l)
  \/ \E c \in Slots :
       \/ OnDelete(c) \/ OnEditItem(c) \/ AddList(c) \/ OnPantryDelete(c)
       \/ OnEditPantryItem(c) \/ OnRefill(c) \/ AddPantry(c)
       \/ AskAgain(c) \/ Finish(c) \/ ServePage(c)

---------------------------------------------------------------------------
(***************************************************************************)
(* Properties.                                                             *)
(***************************************************************************)
Outcomes == [items : SUBSET SUBSET ContentRow, pantry : SUBSET SUBSET PantryRow,
             failed : BOOLEAN]
Todos == {<<>>, <<"read_list">>, <<"get_pantry">>, <<"read_list", "get_pantry">>}

PageTypeOK ==
  /\ page \in [list : Links \cup {NoList}, items : SUBSET ContentRow,
               pantry : SUBSET PantryRow, error : BOOLEAN]
  /\ job \in [Slots -> [after : Todos, got : Outcomes, live : BOOLEAN]]
  /\ \A c \in Slots : job[c] # NoJob => call[c] # Free
  /\ blank \subseteq Shown
  /\ clicks \in 0 .. MaxClicks /\ quiet \in BOOLEAN

\* What a page at rest shows is what is stored, if its user waited for each
\* answer and nobody else changed the list: every button reads again all that
\* its request may have changed (removing an item changes the pantry too).
AtRestItIsTrue ==
  quiet /\ AtRest /\ page.list # NoList =>
    page.items = OfList(store.content, page.list)
      /\ page.pantry = OfList(store.pantry, page.list)

\* r sends a field as it is in one of these rows, or as users type it.
EditOf(r, items) ==
  \E i \in items : /\ i.id = r.item
                   /\ r.name \in {i.name} \cup TypedNames
                   /\ r.amount \in {i.amount} \cup TypedAmounts

PantryEditOf(r, pantry) ==
  \E q \in pantry : /\ q.item = r.item
                    /\ r.stock \in {q.amount} \cup TypedNumbers
                    /\ r.target \in {q.target} \cup TypedNumbers

\* An edit form sends what is stored, but for the fields its user filled in, if
\* the user waits and nobody else changed the list: a form is blank from the
\* moment it is validated until its row is drawn again, and each job ends in that.
UntypedFieldsAreStored ==
  [][quiet' => \A c \in Slots :
       LET r == call'[c].req IN
       call'[c] # call[c] /\ call'[c].status = "sent" =>
         /\ r.op = "update_item" => EditOf(r, OfList(store.content, r.list))
         /\ r.op = "set_pantry_item" => PantryEditOf(r, OfList(store.pantry, r.list))]_<<call, quiet>>
=============================================================================

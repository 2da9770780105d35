--------------------------- MODULE HouseholdProofs --------------------------
(***************************************************************************)
(* The list page and the command line on the same lists, for any number of *)
(* accounts, lists, jobs, clicks and commands: what they show and what     *)
(* they send and change (TypeOK, AtRestItIsTrue, UntypedFieldsAreStored    *)
(* and OnlyChosen).                                                        *)
(***************************************************************************)
EXTENDS Household, ClientProofs

Job == [after : Todos, got : Outcomes, live : BOOLEAN]

\* A process that waits for something has a command, and a caller to wait with.
ShellInv ==
  /\ step \in {"none", "search", "read", "act"}
  /\ step = "none" <=> call[Shell] = Free
  /\ IF step = "none" THEN command = NoCommand
     ELSE /\ command \in Command /\ Parsed(command)
          /\ \E m \in Commands : m.do = command.do
  /\ step = "search" => command.list # NULL
  /\ step = "read" => command.item # NULL
  /\ typed \in 0 .. MaxCommands

TypeInv == ClientInv /\ PageTypeOK /\ ShellInv

---------------------------------------------------------------------------
LEMMA PageType ==
  ASSUME TypeInv
  PROVE  /\ page.list \in Links \cup {NoList} /\ page.list \in Nat
         /\ page.items \subseteq ContentRow /\ page.pantry \subseteq PantryRow
         /\ blank \subseteq Shown
  <1>1. /\ page \in [list : Links \cup {NoList}, items : SUBSET ContentRow,
                     pantry : SUBSET PantryRow, error : BOOLEAN]
        /\ blank \subseteq Shown
    BY Zenon DEF TypeInv, PageTypeOK
  <1>2. Links \subseteq Nat /\ NoList \in Nat
    BY PageAssumption DEF NoList
  <1> QED
    BY <1>1, <1>2

(***************************************************************************)
(* Jobs.                                                                   *)
(***************************************************************************)
\* The requests of the buttons.
Buttons == {"delete_item", "update_item", "add_list", "delete_pantry_item", "set_pantry_item",
            "refill_pantry", "add_to_pantry"}

LEMMA ReloadType ==
  ASSUME NEW op
  PROVE  Reload(op) \in Todos
  BY DEF Reload, Todos

LEMMA TodoSteps ==
  ASSUME NEW t \in Todos, t # <<>>
  PROVE  Head(t) \in {"read_list", "get_pantry"} /\ Tail(t) \in Todos
  <1>1. CASE t = <<"read_list">>
    BY <1>1 DEF Todos
  <1>2. CASE t = <<"get_pantry">>
    BY <1>2 DEF Todos
  <1>3. CASE t = <<"read_list", "get_pantry">>
    BY <1>3 DEF Todos
  <1> QED
    BY <1>1, <1>2, <1>3 DEF Todos

LEMMA NewJobType ==
  ASSUME NEW op
  PROVE  NewJob(op) \in Job /\ NoJob \in Job /\ NewJob(op).live
  BY ReloadType DEF NewJob, NoJob, NothingGot, Job, Outcomes, Todos

\* What a job gets are rows.
LEMMA GotType ==
  ASSUME TypeInv, NEW c \in Slots, Answered(c)
  PROVE  Got(c) \in Outcomes
  <1>1. c \in Callers /\ job[c].got \in Outcomes
    BY CallersAssumption DEF TypeInv, PageTypeOK
  <1>2. call[c].rows \in Store
    BY <1>1, CallKinds DEF TypeInv, ClientInv, Answered, AnsweredCall
  <1>3. call[c].rows.content \subseteq ContentRow /\ call[c].rows.pantry \subseteq PantryRow
    BY <1>2 DEF Store
  <1> DEFINE old == job[c].got
             items == {call[c].rows.content}
             pantry == {call[c].rows.pantry}
  <1>4. /\ old \in Outcomes /\ items \in SUBSET SUBSET ContentRow
        /\ pantry \in SUBSET SUBSET PantryRow
    BY <1>1, <1>3
  <1>5. Got(c) \in {[old EXCEPT !.failed = TRUE], [old EXCEPT !.items = items],
                   [old EXCEPT !.pantry = pantry], old}
    BY DEF Got
  <1> HIDE DEF old, items, pantry
  <1>6. [old EXCEPT !.failed = TRUE] \in Outcomes
    BY <1>4 DEF Outcomes
  <1>7. [old EXCEPT !.items = items] \in Outcomes
    BY <1>4 DEF Outcomes
  <1>8. [old EXCEPT !.pantry = pantry] \in Outcomes
    BY <1>4 DEF Outcomes
  <1> QED
    BY <1>4, <1>5, <1>6, <1>7, <1>8

\* A button is pressed: one request, about the list of the URL and a row that is
\* shown, with the values that are shown unless a form was validated before.
Pressed(c, r) ==
  /\ Start(c, r)
  /\ r \in Request /\ Complete(r) /\ r.list = page.list /\ r.op \in Buttons
  /\ r.op \in {"delete_item", "update_item"} => <<"item", r.item>> \in Shown
  /\ r.op \in {"delete_pantry_item", "set_pantry_item"} => <<"pantry", r.item>> \in Shown
  /\ r.op = "update_item" => blank # {} \/ EditOf(r, page.items)
  /\ r.op = "set_pantry_item" => blank # {} \/ PantryEditOf(r, page.pantry)
  /\ blank' \subseteq Shown

LEMMA ButtonsPress ==
  ASSUME TypeInv, NEW c \in Slots,
         \/ OnDelete(c) \/ OnEditItem(c) \/ AddList(c) \/ OnPantryDelete(c)
         \/ OnEditPantryItem(c) \/ OnRefill(c) \/ AddPantry(c)
  PROVE  \E r : Pressed(c, r)
  <1>1. /\ page.list \in Nat /\ page.items \subseteq ContentRow /\ page.pantry \subseteq PantryRow
        /\ blank \subseteq Shown /\ Me \in Accounts
    BY PageType, PageAssumption
  <1>2. /\ Blank \in Names /\ TypedNames \subseteq Names
        /\ TypedAmounts \subseteq Amount /\ TypedNumbers \subseteq Int
    BY PageAssumption
  <1>3. CASE OnDelete(c)
    <2>1. PICK i \in page.items : Start(c, DeleteItem(Me, page.list, i.id)) /\ UNCHANGED blank
      BY <1>3 DEF OnDelete
    <2> DEFINE r == DeleteItem(Me, page.list, i.id)
    <2>2. i.id \in Nat
      BY <1>1 DEF ContentRow
    <2>3. /\ r \in Request /\ Complete(r) /\ r.list = page.list /\ r.op = "delete_item"
          /\ r.item = i.id
      BY <1>1, <2>2 DEF DeleteItem, Ask, Request, Operations, Complete, Amount
    <2>4. <<"item", i.id>> \in Shown
      BY DEF Shown
    <2> HIDE DEF r
    <2>5. Pressed(c, r)
      BY <1>1, <1>2, <2>1, <2>3, <2>4 DEF Pressed, Buttons, r
    <2> QED
      BY <2>5
  <1>4. CASE OnEditItem(c)
    <2>0. PICK i \in page.items :
            /\ \E n \in {ItemForm(i).name} \cup TypedNames,
                  a \in {ItemForm(i).amount} \cup TypedAmounts :
                 Start(c, UpdateItem(Me, page.list, i.id, n, a))
            /\ blank' = blank \cup {<<"item", i.id>>}
      BY <1>4 DEF OnEditItem
    <2>1. PICK n \in {ItemForm(i).name} \cup TypedNames,
               a \in {ItemForm(i).amount} \cup TypedAmounts :
            Start(c, UpdateItem(Me, page.list, i.id, n, a))
      BY <2>0
    <2> DEFINE r == UpdateItem(Me, page.list, i.id, n, a)
    <2>2. i.id \in Nat /\ n \in Names /\ a \in Amount
      BY <1>1, <1>2 DEF ContentRow, ItemForm, Amount
    <2>3. /\ r \in Request /\ Complete(r) /\ r.list = page.list /\ r.op = "update_item"
          /\ r.item = i.id /\ r.name = n /\ r.amount = a
      BY <1>1, <2>2 DEF UpdateItem, Ask, Request, Operations, Complete, Amount
    <2>4. <<"item", i.id>> \in Shown
      BY DEF Shown
    <2>5. blank # {} \/ EditOf(r, page.items)
      BY <2>3 DEF ItemForm, EditOf
    <2> HIDE DEF r
    <2>6. Pressed(c, r)
      BY <1>1, <2>0, <2>1, <2>3, <2>4, <2>5 DEF Pressed, Buttons, r
    <2> QED
      BY <2>6
  <1>5. CASE AddList(c)
    <2>1. PICK f \in AddItemForm : Start(c, Add(Me, page.list, f.name, f.amount)) /\ UNCHANGED blank
      BY <1>5 DEF AddList
    <2> DEFINE r == Add(Me, page.list, f.name, f.amount)
    <2>2. f.name \in Names /\ f.amount \in Amount
      BY <1>2 DEF AddItemForm, Amount
    <2>3. /\ r \in Request /\ Complete(r) /\ r.list = page.list /\ r.op = "add_list"
      BY <1>1, <2>2, NullAssumption DEF Add, Ask, Request, Operations, Complete, NoItem
    <2> HIDE DEF r
    <2>4. Pressed(c, r)
      BY <1>1, <2>1, <2>2, <2>3 DEF Pressed, Buttons, r
    <2> QED
      BY <2>4
  <1>6. CASE OnPantryDelete(c)
    <2>1. PICK q \in page.pantry :
            Start(c, DeletePantryItem(Me, page.list, q.item)) /\ UNCHANGED blank
      BY <1>6 DEF OnPantryDelete
    <2> DEFINE r == DeletePantryItem(Me, page.list, q.item)
    <2>2. q.item \in Nat
      BY <1>1 DEF PantryRow
    <2>3. /\ r \in Request /\ Complete(r) /\ r.list = page.list /\ r.op = "delete_pantry_item"
          /\ r.item = q.item
      BY <1>1, <2>2 DEF DeletePantryItem, Ask, Request, Operations, Complete, Amount
    <2>4. <<"pantry", q.item>> \in Shown
      BY DEF Shown
    <2> HIDE DEF r
    <2>5. Pressed(c, r)
      BY <1>1, <1>2, <2>1, <2>3, <2>4 DEF Pressed, Buttons, r
    <2> QED
      BY <2>5
  <1>7. CASE OnEditPantryItem(c)
    <2>0. PICK q \in page.pantry :
            /\ \E n \in PantryForm(q).stock \cup TypedNumbers,
                  t \in PantryForm(q).target \cup TypedNumbers :
                 Start(c, EditPantryItem(Me, page.list, q.item, n, t))
            /\ blank' = blank \cup {<<"pantry", q.item>>}
      BY <1>7 DEF OnEditPantryItem
    <2>1. PICK n \in PantryForm(q).stock \cup TypedNumbers,
               t \in PantryForm(q).target \cup TypedNumbers :
            Start(c, EditPantryItem(Me, page.list, q.item, n, t))
      BY <2>0
    <2> DEFINE r == EditPantryItem(Me, page.list, q.item, n, t)
    <2>2. q.item \in Nat /\ n \in Int /\ t \in Int
      BY <1>1, <1>2 DEF PantryRow, PantryForm
    <2>3. /\ r \in Request /\ Complete(r) /\ r.list = page.list /\ r.op = "set_pantry_item"
          /\ r.item = q.item /\ r.stock = n /\ r.target = t
      BY <1>1, <2>2 DEF EditPantryItem, Ask, Request, Operations, Complete, Amount
    <2>4. <<"pantry", q.item>> \in Shown
      BY DEF Shown
    <2>5. blank # {} \/ PantryEditOf(r, page.pantry)
      BY <2>3 DEF PantryForm, PantryEditOf
    <2> HIDE DEF r
    <2>6. Pressed(c, r)
      BY <1>1, <2>0, <2>1, <2>3, <2>4, <2>5 DEF Pressed, Buttons, r
    <2> QED
      BY <2>6
  <1>8. CASE OnRefill(c)
    <2> DEFINE r == RefillPantry(Me, page.list)
    <2>1. Start(c, r) /\ UNCHANGED blank
      BY <1>8 DEF OnRefill
    <2>2. /\ r \in Request /\ Complete(r) /\ r.list = page.list /\ r.op = "refill_pantry"
      BY <1>1 DEF RefillPantry, Ask, Request, Operations, Complete, Amount, NoItem
    <2> HIDE DEF r
    <2>3. Pressed(c, r)
      BY <1>1, <1>2, <2>1, <2>2 DEF Pressed, Buttons
    <2> QED
      BY <2>3
  <1>9. CASE AddPantry(c)
    <2>1. PICK f \in AddPantryItemForm :
            Start(c, AddToPantry(Me, page.list, f.name, f.target)) /\ UNCHANGED blank
      BY <1>9 DEF AddPantry
    <2> DEFINE r == AddToPantry(Me, page.list, f.name, f.target)
    <2>2. f.name \in Names /\ f.target \in Int
      BY <1>2 DEF AddPantryItemForm
    <2>3. /\ r \in Request /\ Complete(r) /\ r.list = page.list /\ r.op = "add_to_pantry"
      BY <1>1, <2>2, NullAssumption DEF AddToPantry, Ask, Request, Operations, Complete, NoItem,
                                        Amount
    <2> HIDE DEF r
    <2>4. Pressed(c, r)
      BY <1>1, <2>1, <2>2, <2>3 DEF Pressed, Buttons, r
    <2> QED
      BY <2>4
  <1> QED
    BY <1>3, <1>4, <1>5, <1>6, <1>7, <1>8, <1>9

---------------------------------------------------------------------------
(***************************************************************************)
(* Types: TypeInv is an invariant.                                         *)
(***************************************************************************)
LEMMA ClickType ==
  ASSUME TypeInv, Click
  PROVE  clicks' \in 0 .. MaxClicks
  <1>1. clicks \in 0 .. MaxClicks
    BY Zenon DEF TypeInv, PageTypeOK
  <1> QED
    BY <1>1, PageAssumption DEF Click

LEMMA JobType ==
  ASSUME TypeInv
  PROVE  /\ CallsOK(call) /\ call \in [Callers -> {Free} \cup SentCall \cup AnsweredCall]
         /\ job \in [Slots -> Job] /\ \A e \in Slots : job[e] # NoJob => call[e] # Free
  BY Zenon DEF TypeInv, ClientInv, PageTypeOK, Job, CallsOK

LEMMA ChooseType ==
  ASSUME TypeInv, NEW l \in Links, Choose(l), UNCHANGED shellVars
  PROVE  /\ TypeInv' /\ UNCHANGED store
         /\ \E c, d \in Slots :
              /\ c # d
              /\ job' = [job EXCEPT ![c] = NewJob("read_list"), ![d] = NewJob("get_pantry")]
              /\ call'[c] = Asked(Read(Me, l)) /\ call'[d] = Asked(Pantry(Me, l))
              /\ \A e \in Callers \ {c, d} : call'[e] = call[e]
  <1>1. PICK c \in Slots, d \in Slots :
          /\ c # d
          /\ call' = [call EXCEPT ![c] = Asked(Read(Me, l)), ![d] = Asked(Pantry(Me, l))]
          /\ job' = [job EXCEPT ![c] = NewJob("read_list"), ![d] = NewJob("get_pantry")]
    BY DEF Choose
  <1> DEFINE k == [call EXCEPT ![c] = Asked(Read(Me, l))]
  <1>2. /\ Read(Me, l) \in Request /\ Complete(Read(Me, l))
        /\ Pantry(Me, l) \in Request /\ Complete(Pantry(Me, l))
    BY AskType, PageAssumption DEF Read, Pantry, Operations
  <1>3. /\ c \in Callers /\ d \in Callers /\ Slots \subseteq Callers
        /\ Shell \in Callers /\ Shell \notin {c, d}
    BY CallersAssumption
  <1>4. /\ CallsOK(call) /\ call \in [Callers -> {Free} \cup SentCall \cup AnsweredCall]
        /\ job \in [Slots -> Job] /\ \A e \in Slots : job[e] # NoJob => call[e] # Free
    BY JobType
  <1>5. CallsOK(k) /\ k[c] = Asked(Read(Me, l)) /\ Asked(Read(Me, l)) # Free
    BY <1>2, <1>3, <1>4, AskedCalls
  <1>6. k \in [Callers -> {Free} \cup SentCall \cup AnsweredCall]
          /\ call \in [Callers -> {Free} \cup SentCall \cup AnsweredCall]
    BY <1>4, <1>5 DEF CallsOK
  <1>7. call' = [k EXCEPT ![d] = Asked(Pantry(Me, l))]
    BY Zenon, <1>1
  <1>8. NewJob("read_list") \in Job /\ NewJob("get_pantry") \in Job
    BY NewJobType
  <1> HIDE DEF k
  <1>9. CallsOK(call') /\ call'[d] = Asked(Pantry(Me, l)) /\ Asked(Pantry(Me, l)) # Free
    <2>1. /\ CallsOK([k EXCEPT ![d] = Asked(Pantry(Me, l))])
          /\ [k EXCEPT ![d] = Asked(Pantry(Me, l))][d] = Asked(Pantry(Me, l))
          /\ Asked(Pantry(Me, l)) # Free
      BY <1>2, <1>3, <1>5, AskedCalls
    <2> QED
      BY Zenon, <1>7, <2>1
  <1>11. call'[c] = Asked(Read(Me, l)) /\ \A e \in Callers \ {c, d} : call'[e] = call[e]
    BY <1>1, <1>3, <1>5, <1>6, <1>7 DEF k
  <1>14. job' \in [Slots -> Job] /\ \A e \in Slots \ {c, d} : job'[e] = job[e]
    BY <1>1, <1>4, <1>8
  <1>10. \A e \in Slots : job'[e] # NoJob => call'[e] # Free
    BY <1>3, <1>4, <1>5, <1>9, <1>11, <1>14
  <1>12. PageTypeOK'
    <2>1. /\ page' \in [list : Links \cup {NoList}, items : SUBSET ContentRow,
                        pantry : SUBSET PantryRow, error : BOOLEAN]
      BY DEF Choose, TypeInv, PageTypeOK
    <2>2. clicks' \in 0 .. MaxClicks /\ quiet' \in BOOLEAN
      BY ClickType DEF Choose, AtRest
    <2>3. blank' \subseteq Shown'
      BY DEF Choose
    <2> QED
      BY <1>10, <1>14, <2>1, <2>2, <2>3 DEF PageTypeOK, Job
  <1>13. ShellInv'
    BY <1>3, <1>11 DEF ShellInv, shellVars, TypeInv
  <1>15. ClientInv' /\ UNCHANGED store
    BY <1>9 DEF ClientInv, TypeInv, Choose
  <1> QED
    BY <1>1, <1>9, <1>11, <1>12, <1>13, <1>15 DEF TypeInv

LEMMA CloseType ==
  ASSUME TypeInv, Close, UNCHANGED shellVars
  PROVE  TypeInv'
  <1>1. /\ page' \in [list : Links \cup {NoList}, items : SUBSET ContentRow,
                      pantry : SUBSET PantryRow, error : BOOLEAN]
    BY DEF Close, ClosedPage
  <1>2. clicks' \in 0 .. MaxClicks /\ quiet' \in BOOLEAN /\ blank' \subseteq Shown'
    BY ClickType DEF Close
  <1>3. job \in [Slots -> Job] /\ \A c \in Slots : job[c] # NoJob => call[c] # Free
    BY JobType
  <1>4. job' = [c \in Slots |-> [job[c] EXCEPT !.live = FALSE]] /\ UNCHANGED call
    BY DEF Close
  <1>5. \A c \in Slots : job'[c] \in Job /\ (job[c] = NoJob => job'[c] = NoJob)
    <2> SUFFICES ASSUME NEW c \in Slots
                 PROVE  job'[c] \in Job /\ (job[c] = NoJob => job'[c] = NoJob)
      OBVIOUS
    <2>1. job[c] \in Job /\ job'[c] = [job[c] EXCEPT !.live = FALSE]
      BY <1>3, <1>4
    <2>2. [job[c] EXCEPT !.live = FALSE] \in Job
      BY <2>1 DEF Job
    <2>3. CASE job[c] = NoJob
      <3>1. job[c].live = FALSE
        BY <2>3 DEF NoJob
      <3> QED
        BY <2>1, <2>2, <2>3, <3>1 DEF Job
    <2> QED
      BY <2>1, <2>2, <2>3
  <1>6. job' \in [Slots -> Job] /\ \A c \in Slots : job'[c] # NoJob => call'[c] # Free
    BY <1>3, <1>4, <1>5
  <1>7. PageTypeOK'
    BY <1>1, <1>2, <1>6 DEF PageTypeOK, Job
  <1> QED
    BY <1>7 DEF Close, TypeInv, ClientInv, ShellInv, shellVars

LEMMA NotANumberType ==
  ASSUME TypeInv, NotANumber, UNCHANGED shellVars
  PROVE  TypeInv'
  <1>1. /\ page' \in [list : Links \cup {NoList}, items : SUBSET ContentRow,
                      pantry : SUBSET PantryRow, error : BOOLEAN]
    BY DEF NotANumber, TypeInv, PageTypeOK
  <1>2. clicks' \in 0 .. MaxClicks /\ blank' \subseteq Shown'
    BY ClickType DEF NotANumber
  <1>3. quiet' \in BOOLEAN
    BY DEF NotANumber, TypeInv, PageTypeOK
  <1>4. PageTypeOK'
    BY <1>1, <1>2, <1>3 DEF PageTypeOK, NotANumber, TypeInv
  <1> QED
    BY <1>4 DEF NotANumber, TypeInv, ClientInv, ShellInv, shellVars

LEMMA PressedType ==
  ASSUME TypeInv, NEW c \in Slots, NEW r, Pressed(c, r), UNCHANGED shellVars
  PROVE  /\ TypeInv' /\ UNCHANGED store
         /\ call' = [call EXCEPT ![c] = Asked(r)]
         /\ call'[c] = Asked(r) /\ \A e \in Callers \ {c} : call'[e] = call[e]
  <1>1. c \in Callers /\ Slots \subseteq Callers \ {Shell} /\ Shell \in Callers /\ Shell # c
    BY CallersAssumption
  <1>2. r \in Request /\ Complete(r) /\ Send(c, r) /\ UNCHANGED next
    BY DEF Pressed, Start
  <1>3. ClientInv' /\ UNCHANGED store /\ call' = [call EXCEPT ![c] = Asked(r)]
    BY <1>1, <1>2, SendKeeps DEF TypeInv
  <1>4. /\ CallsOK(call) /\ call \in [Callers -> {Free} \cup SentCall \cup AnsweredCall]
        /\ job \in [Slots -> Job] /\ \A e \in Slots : job[e] # NoJob => call[e] # Free
    BY JobType
  <1>5. call \in [Callers -> {Free} \cup SentCall \cup AnsweredCall] /\ Asked(r) # Free
    BY <1>4 DEF CallsOK, Asked, Free
  <1>6. call'[c] = Asked(r) /\ \A e \in Callers \ {c} : call'[e] = call[e]
    BY <1>1, <1>3, <1>5
  <1>7. job' = [job EXCEPT ![c] = NewJob(r.op)]
    BY DEF Pressed, Start
  <1>8. job' \in [Slots -> Job] /\ \A e \in Slots : job'[e] # NoJob => call'[e] # Free
    BY <1>1, <1>4, <1>5, <1>6, <1>7, NewJobType
  <1>9. clicks' \in 0 .. MaxClicks /\ quiet' \in BOOLEAN /\ page' = page
    BY ClickType DEF Pressed, Start, AtRest, TypeInv, PageTypeOK
  <1>10. blank' \subseteq Shown'
    BY <1>9 DEF Pressed, Shown
  <1>11. PageTypeOK'
    BY <1>8, <1>9, <1>10 DEF PageTypeOK, TypeInv, Job
  <1>12. ShellInv'
    BY <1>1, <1>6 DEF ShellInv, shellVars, TypeInv
  <1> QED
    BY <1>3, <1>6, <1>11, <1>12 DEF TypeInv

LEMMA JobGoesOn ==
  ASSUME NEW j \in Job, NEW t \in Todos, NEW g \in Outcomes
  PROVE  [j EXCEPT !.after = t, !.got = g] = [after |-> t, got |-> g, live |-> j.live]
  <1> SUFFICES ASSUME NEW k, k = [j EXCEPT !.after = t, !.got = g]
               PROVE  k = [after |-> t, got |-> g, live |-> j.live]
    OBVIOUS
  <1> QED
    BY DEF Job

\* The next read of a job is about the same list.
LEMMA AskAgainType ==
  ASSUME TypeInv, NEW c \in Slots, AskAgain(c), UNCHANGED shellVars
  PROVE  /\ TypeInv' /\ UNCHANGED store
         /\ call'[c] = Asked(Ask(Head(job[c].after), Me, call[c].req.list))
         /\ \A e \in Callers \ {c} : call'[e] = call[e]
         /\ job' = [job EXCEPT ![c] = [after |-> Tail(job[c].after), got |-> Got(c),
                                       live |-> job[c].live]]
  <1> DEFINE r == Ask(Head(job[c].after), Me, call[c].req.list)
             x == [after |-> Tail(job[c].after), got |-> Got(c), live |-> job[c].live]
  <1>1. c \in Callers /\ Slots \subseteq Callers \ {Shell} /\ Shell \in Callers /\ Shell # c
    BY CallersAssumption
  <1>2. /\ CallsOK(call) /\ call \in [Callers -> {Free} \cup SentCall \cup AnsweredCall]
        /\ job \in [Slots -> Job] /\ \A e \in Slots : job[e] # NoJob => call[e] # Free
    BY JobType
  <1>3. job[c].after \in Todos /\ job[c].after # <<>> /\ job[c].live \in BOOLEAN /\ Answered(c)
    BY <1>2 DEF AskAgain, GoesOn, Job
  <1>4. Head(job[c].after) \in {"read_list", "get_pantry"} /\ Tail(job[c].after) \in Todos
    BY <1>3, TodoSteps
  <1>5. call[c].req.list \in Nat
    BY <1>1, <1>2, <1>3, CallKinds DEF Answered, Request
  <1>6. r \in Request /\ Complete(r)
    BY <1>4, <1>5, AskType, PageAssumption DEF Operations
  <1>7. ClientInv' /\ UNCHANGED store /\ call' = [call EXCEPT ![c] = Asked(r)]
    <2>1. SendNext(c, r) /\ UNCHANGED next
      BY DEF AskAgain
    <2> HIDE DEF r
    <2> QED
      BY <1>1, <1>6, <2>1, SendKeeps DEF TypeInv
  <1>8. call \in [Callers -> {Free} \cup SentCall \cup AnsweredCall] /\ Asked(r) # Free
    BY <1>2 DEF CallsOK, Asked, Free
  <1>9. call'[c] = Asked(r) /\ \A e \in Callers \ {c} : call'[e] = call[e]
    BY <1>1, <1>7, <1>8
  <1>10. x \in Job
    BY <1>3, <1>4, GotType DEF Job
  <1>11. job' = [job EXCEPT ![c] = x]
    <2> DEFINE y == [job[c] EXCEPT !.after = Tail(job[c].after), !.got = Got(c)]
    <2>1. job' = [job EXCEPT ![c] = y]
      BY <1>2 DEF AskAgain
    <2>2. job[c] \in Job /\ Got(c) \in Outcomes
      BY <1>2, <1>3, GotType
    <2>3. y = x
      BY <1>4, <2>2, JobGoesOn
    <2> HIDE DEF x, y
    <2> QED
      BY <2>1, <2>3
  <1> HIDE DEF r, x
  <1>12. job' \in [Slots -> Job] /\ \A e \in Slots : job'[e] # NoJob => call'[e] # Free
    BY <1>1, <1>2, <1>8, <1>9, <1>10, <1>11
  <1>13. PageTypeOK'
    BY <1>12 DEF PageTypeOK, TypeInv, Job, AskAgain, Shown
  <1>14. ShellInv'
    BY <1>1, <1>9 DEF ShellInv, shellVars, TypeInv
  <1> QED
    BY <1>7, <1>9, <1>11, <1>13, <1>14 DEF TypeInv, r, x

LEMMA FinishType ==
  ASSUME TypeInv, NEW c \in Slots, Finish(c), UNCHANGED shellVars
  PROVE  /\ TypeInv' /\ UNCHANGED store
         /\ call'[c] = Free /\ \A e \in Callers \ {c} : call'[e] = call[e]
         /\ job' = [job EXCEPT ![c] = NoJob]
  <1>1. c \in Callers /\ Slots \subseteq Callers \ {Shell} /\ Shell \in Callers /\ Shell # c
    BY CallersAssumption
  <1>2. /\ CallsOK(call) /\ call \in [Callers -> {Free} \cup SentCall \cup AnsweredCall]
        /\ job \in [Slots -> Job] /\ \A e \in Slots : job[e] # NoJob => call[e] # Free
    BY JobType
  <1>3. ClientInv' /\ UNCHANGED store /\ call' = [call EXCEPT ![c] = Free]
    BY <1>1, LeaveKeeps DEF TypeInv, Finish
  <1>4. call'[c] = Free /\ \A e \in Callers \ {c} : call'[e] = call[e]
    BY <1>1, <1>2, <1>3
  <1>5. job' = [job EXCEPT ![c] = NoJob] /\ NoJob \in Job
    BY NewJobType DEF Finish
  <1>6. job' \in [Slots -> Job] /\ \A e \in Slots : job'[e] # NoJob => call'[e] # Free
    BY <1>1, <1>2, <1>4, <1>5
  <1>7. page' \in [list : Links \cup {NoList}, items : SUBSET ContentRow,
                   pantry : SUBSET PantryRow, error : BOOLEAN] /\ quiet' \in BOOLEAN
    <2>1. /\ page \in [list : Links \cup {NoList}, items : SUBSET ContentRow,
                       pantry : SUBSET PantryRow, error : BOOLEAN] /\ quiet \in BOOLEAN
      BY Zenon DEF TypeInv, PageTypeOK
    <2>2. CASE ~ job[c].live
      BY <2>1, <2>2 DEF Finish
    <2>3. CASE job[c].live
      <3> DEFINE got == Got(c)
                 items == Newest(got.items, page.items)
                 pantry == Newest(got.pantry, page.pantry)
      <3>1. got \in Outcomes
        BY GotType DEF Finish
      <3>2. items \subseteq ContentRow /\ pantry \subseteq PantryRow
        BY <2>1, <3>1 DEF Newest, Outcomes
      <3>3. \/ page' = [page EXCEPT !.error = TRUE]
            \/ page' = [page EXCEPT !.items = items, !.pantry = pantry]
        BY <2>3 DEF Finish, Update
      <3>4. quiet' = (quiet /\ ~ got.failed)
        BY <2>3 DEF Finish
      <3> HIDE DEF got, items, pantry
      <3> QED
        BY <2>1, <3>1, <3>2, <3>3, <3>4
    <2> QED
      BY <2>2, <2>3
  <1>8. blank' \subseteq Shown'
    <2>1. CASE ~ job[c].live
      BY <2>1, PageType DEF Finish, Shown
    <2>2. CASE job[c].live
      BY <2>2 DEF Finish, Redrawn
    <2> QED
      BY <2>1, <2>2
  <1>9. PageTypeOK'
    BY <1>6, <1>7, <1>8 DEF PageTypeOK, TypeInv, Job, Finish
  <1>10. ShellInv'
    BY <1>1, <1>4 DEF ShellInv, shellVars, TypeInv
  <1> QED
    BY <1>3, <1>4, <1>5, <1>9, <1>10 DEF TypeInv

LEMMA ServePageType ==
  ASSUME TypeInv, NEW c \in Slots, ServePage(c), UNCHANGED shellVars
  PROVE  TypeInv'
  <1>1. c \in Callers /\ Slots \subseteq Callers \ {Shell} /\ Shell \in Callers /\ Shell # c
    BY CallersAssumption
  <1>2. /\ ClientInv' /\ \A d \in Callers \ {c} : call'[d] = call[d]
        /\ Answered(c)'
    BY <1>1, ServeKeeps DEF TypeInv, ServePage
  <1>3. \A d \in Slots : call[d] # Free => call'[d] # Free
    BY <1>1, <1>2 DEF Answered, Free
  <1>4. PageTypeOK'
    BY <1>3 DEF PageTypeOK, TypeInv, ServePage, Shown
  <1>5. ShellInv'
    BY <1>1, <1>2 DEF ShellInv, shellVars, TypeInv
  <1> QED
    BY <1>2, <1>4, <1>5 DEF TypeInv

\* What the request r changes is in ch: a row, or what is done to its list.
Aimed(r, ch) ==
  LET told(kinds) == \E do \in kinds : <<r.list, <<do, NoItem>>>> \in ch IN
  /\ r.op \in {"delete_item", "update_item"} => <<r.list, <<"item", r.item>>>> \in ch
  /\ r.op \in {"delete_pantry_item", "set_pantry_item"} => <<r.list, <<"pantry", r.item>>>> \in ch
  /\ r.op = "delete_list" => told({"delete"})
  /\ r.op \in {"set_public", "remove_public"} => told({"public set", "public remove"})
  /\ r.op \in {"unshare", "delete_shares"} => told({"share delete", "share delete all"})

LEMMA AimedAtMore ==
  ASSUME NEW r, NEW a, NEW b, a \subseteq b, Aimed(r, a)
  PROVE  Aimed(r, b)
  BY DEF Aimed

\* The request r changes nothing but what the command m does to the list l.
Does(m, l, r) == Aimed(r, {<<l, Aim(m)>>})

LEMMA DoesWhatIsAimed ==
  ASSUME NEW m, NEW r, NEW ch, Does(m, r.list, r), <<r.list, Aim(m)>> \in ch
  PROVE  Aimed(r, ch)
  BY AimedAtMore DEF Does

\* What a command sends is a request, about the list it found; an item command
\* sends one about the item it found, and any other does what it is for.
LEMMA SendsType ==
  ASSUME NEW m \in Command, Parsed(m), NEW l \in Nat, NEW i \in Nat, NEW a \in Accounts
  PROVE  /\ Sends(m, l, i, a) \in Request /\ Complete(Sends(m, l, i, a))
         /\ Sends(m, l, i, a).list = IF m.list = NULL THEN 0 ELSE l
         /\ m.list = NULL => Sends(m, l, i, a).op \in {"list_lists", "create_list"}
         /\ m.item # NULL => /\ Sends(m, l, i, a).op \in {"delete_item", "update_item"}
                             /\ Sends(m, l, i, a).item = i
         /\ m.item = NULL => Does(m, l, Sends(m, l, i, a))
  <1> DEFINE r == Sends(m, l, i, a)
  <1>1. /\ m.do \in Kinds /\ m.list \in Names \cup {NULL} /\ m.item \in Names \cup {NULL}
        /\ m.name \in Names \cup {NULL} /\ m.amount \in Amount /\ m.readonly \in BOOLEAN
        /\ m.id \in Nat /\ m.stock \in Int \cup {NULL} /\ m.target \in Int \cup {NULL}
    BY DEF Command
  <1>2. User \in Accounts
    BY CommandAssumption
  <1>3. \A op, n : LET q == Ask(op, User, n) IN
          /\ q.op = op /\ q.list = n
          /\ op \in Operations /\ n \in Nat => q \in Request
    BY <1>2 DEF Ask, Request, NoItem, Amount
  \* The methods that add nothing to Ask.
  <1>4. \A op \in Operations \ {"create_list", "search_list", "add_list", "add_to_pantry"}, n \in Nat :
          Complete(Ask(op, User, n))
    BY <1>2, AskType
  <1> DEFINE Right(q, op, n) == q \in Request /\ Complete(q) /\ q.op = op /\ q.list = n
  <1>5. /\ Right(Lists(User), "list_lists", 0) /\ Right(Read(User, l), "read_list", l)
        /\ Right(DeleteList(User, l), "delete_list", l)
        /\ Right(GetShares(User, l), "get_shares", l)
        /\ Right(DeleteShare(User, l), "delete_shares", l)
        /\ Right(SetPublic(User, l), "set_public", l)
        /\ Right(RemovePublic(User, l), "remove_public", l)
        /\ Right(Pantry(User, l), "get_pantry", l)
        /\ Right(RefillPantry(User, l), "refill_pantry", l)
    BY <1>3, <1>4 DEF Lists, Read, DeleteList, GetShares, DeleteShare, SetPublic, RemovePublic,
                      Pantry, RefillPantry, Operations
  \* Those that do.
  <1>6. /\ Right(SearchHistory(User, l, m.name), "history_search", l)
        /\ m.name # NULL => Right(CreateList(User, m.name), "create_list", 0)
        /\ m.name # NULL => Right(Add(User, l, m.name, m.amount), "add_list", l)
    <2>1. Right(SearchHistory(User, l, m.name), "history_search", l)
      BY <1>1, <1>2 DEF SearchHistory, Ask, Request, Complete, Operations, NoItem, Amount
    <2>2. m.name # NULL => Right(CreateList(User, m.name), "create_list", 0)
      BY <1>1, <1>2 DEF CreateList, Ask, Request, Complete, Operations, NoItem, Amount
    <2>3. m.name # NULL => Right(Add(User, l, m.name, m.amount), "add_list", l)
      BY <1>1, <1>2 DEF Add, Ask, Request, Complete, Operations, NoItem
    <2> QED
      BY <2>1, <2>2, <2>3
  <1>7. /\ Right(DeleteItem(User, l, i), "delete_item", l) /\ DeleteItem(User, l, i).item = i
        /\ LET q == UpdateItem(User, l, i, m.name, m.amount) IN
             Right(q, "update_item", l) /\ q.item = i
    <2>1. Right(DeleteItem(User, l, i), "delete_item", l) /\ DeleteItem(User, l, i).item = i
      BY <1>1, <1>2 DEF DeleteItem, Ask, Request, Complete, Operations, Amount
    <2>2. LET q == UpdateItem(User, l, i, m.name, m.amount) IN
            Right(q, "update_item", l) /\ q.item = i
      BY <1>1, <1>2 DEF UpdateItem, Ask, Request, Complete, Operations
    <2> QED
      BY <2>1, <2>2
  <1>8. /\ Right(Share(User, l, a, m.readonly), "share_list", l)
        /\ Right(UnshareWith(User, l, a), "unshare", l)
    <2>1. Right(Share(User, l, a, m.readonly), "share_list", l)
      BY <1>1, <1>2 DEF Share, Ask, Request, Complete, Operations, NoItem, Amount
    <2>2. Right(UnshareWith(User, l, a), "unshare", l)
      BY <1>1, <1>2 DEF UnshareWith, Ask, Request, Complete, Operations, NoItem, Amount
    <2> QED
      BY <2>1, <2>2
  <1>9. /\ m.name # NULL /\ m.target # NULL =>
             Right(AddToPantry(User, l, m.name, m.target), "add_to_pantry", l)
        /\ LET q == EditPantryItem(User, l, m.id, m.stock, m.target) IN
             Right(q, "set_pantry_item", l) /\ q.item = m.id
        /\ LET q == DeletePantryItem(User, l, m.id) IN
             Right(q, "delete_pantry_item", l) /\ q.item = m.id
    <2>1. m.name # NULL /\ m.target # NULL =>
            Right(AddToPantry(User, l, m.name, m.target), "add_to_pantry", l)
      BY <1>1, <1>2 DEF AddToPantry, Ask, Request, Complete, Operations, NoItem, Amount
    <2>2. LET q == EditPantryItem(User, l, m.id, m.stock, m.target) IN
            Right(q, "set_pantry_item", l) /\ q.item = m.id
      BY <1>1, <1>2 DEF EditPantryItem, Ask, Request, Complete, Operations, Amount
    <2>3. LET q == DeletePantryItem(User, l, m.id) IN
            Right(q, "delete_pantry_item", l) /\ q.item = m.id
      BY <1>1, <1>2 DEF DeletePantryItem, Ask, Request, Complete, Operations, Amount
    <2> QED
      BY <2>1, <2>2, <2>3
  <1> HIDE DEF Right
  <1>10. CASE m.do \in {"lists", "lists create"}
    <2>1. m.list = NULL /\ m.item = NULL /\ (m.do = "lists create" => m.name # NULL)
      BY <1>10 DEF Parsed
    <2>2. r = IF m.do = "lists" THEN Lists(User) ELSE CreateList(User, m.name)
      BY <1>10 DEF Sends
    <2> QED
      BY <2>1, <2>2, <1>5, <1>6, <1>10 DEF Right, Does, Aimed
  <1>11. CASE m.do \in {"item tick", "item update"}
    <2>1. m.list # NULL /\ m.item # NULL
      BY <1>11 DEF Parsed
    <2>2. r = IF m.do = "item tick" THEN DeleteItem(User, l, i)
              ELSE UpdateItem(User, l, i, m.name, m.amount)
      BY <1>11 DEF Sends, ItemAction
    <2> QED
      BY <2>1, <2>2, <1>7 DEF Right
  <1>12. CASE m.do \notin {"lists", "lists create", "item tick", "item update"}
    <2>1. /\ m.list # NULL /\ m.item = NULL /\ (m.do \in {"add", "pantry add"} => m.name # NULL)
          /\ m.do = "pantry add" => m.target # NULL
      BY <1>12 DEF Parsed
    <2>2. \E op : Right(r, op, l) /\ Does(m, l, r)
      <3>1. CASE m.do \in {"show", "delete", "add", "history"}
        BY <3>1, <2>1, <1>5, <1>6 DEF Sends, Right, Does, Aimed, Aim
      <3>2. CASE m.do \in {"share", "share add", "share delete", "share delete all"}
        BY <3>2, <1>5, <1>8 DEF Sends, ShareAction, Right, Does, Aimed, Aim
      <3>3. CASE m.do \in {"public set", "public remove"}
        BY <3>3, <1>5 DEF Sends, PublicAction, Right, Does, Aimed, Aim
      <3>4. CASE m.do \in {"pantry", "pantry add", "pantry refill"}
        <4>1. \E op \in {"get_pantry", "add_to_pantry", "refill_pantry"} :
                Right(r, op, l) /\ r.op = op
          BY <3>4, <2>1, <1>5, <1>9 DEF Sends, PantryAction, Right
        <4> QED
          BY <4>1 DEF Does, Aimed
      <3>5. CASE m.do \in {"pantry edit", "pantry delete"}
        <4>1. /\ r.op \in {"set_pantry_item", "delete_pantry_item"}
              /\ r.list = l /\ r.item = m.id /\ Right(r, r.op, l)
          BY <3>5, <1>9 DEF Sends, PantryAction, Right
        <4>2. Aim(m) = <<"pantry", r.item>>
          BY <3>5, <4>1 DEF Aim
        <4> QED
          BY <4>1, <4>2 DEF Does, Aimed
      <3> QED
        BY <3>1, <3>2, <3>3, <3>4, <3>5, <1>1, <1>12 DEF Kinds
    <2> QED
      BY <2>1, <2>2 DEF Right
  <1> QED
    BY <1>10, <1>11, <1>12

\* Only the accounts of a command change while it runs.
SameAim ==
  /\ command'.item = command.item /\ command'.list = command.list
  /\ Aim(command') = Aim(command)

\* The shell asks for something: why, and for what.
ShellAsks(r) ==
  /\ call' = [call EXCEPT ![Shell] = Asked(r)]
  /\ command'.do # NoCommand.do
  /\ \/ step = "none" /\ step' = "act" /\ command'.list = NULL
     \/ step = "none" /\ step' = "search" /\ command'.list # NULL
          /\ r = Search(User, command'.list)
     \/ /\ step = "search" /\ command.list # NULL
        /\ Succeeded(Shell) /\ Cardinality(Results) = 1 /\ \E l \in Results : r.list = l.id
        /\ step' = IF command.item = NULL THEN "act" ELSE "read"
        /\ IF step' = "read" THEN r.op = "read_list" ELSE Does(command, r.list, r)
     \/ /\ step = "read" /\ step' = "act" /\ Succeeded(Shell)
        /\ r.list = call[Shell].req.list /\ \E c \in Matches : r.item = c.id
        /\ r.op \in {"delete_item", "update_item"}
     \/ /\ step = "act" /\ step' = "act"
        /\ command.item = NULL /\ command.list # NULL /\ r.list = call[Shell].req.list
        /\ Does(command, r.list, r)
  /\ step # "none" => SameAim
  /\ step' = "act" /\ command'.list = NULL => r.op \in {"list_lists", "create_list"}

CommandOK(m) == m \in Command /\ Parsed(m) /\ \E n \in Commands : n.do = m.do

LEMMA ActType ==
  ASSUME TypeInv, step # "none", NEW l \in Nat, NEW i \in Nat, Act(l, i)
  PROVE  /\ \E a \in Accounts : SendNext(Shell, Sends(command, l, i, a))
         /\ step' = "act" /\ UNCHANGED <<typed, next>>
         /\ CommandOK(command') /\ SameAim
  <1>1. CommandOK(command)
    BY DEF TypeInv, ShellInv, CommandOK
  <1>2. CASE ~ ByAccount(command)
    BY <1>1, <1>2, CommandAssumption DEF Act, Go, SameAim
  <1>3. CASE ByAccount(command)
    <2> DEFINE tail == Tail(command.accounts)
               head == Head(command.accounts)
    <2>1. command.accounts \in Seq(Accounts) /\ command.accounts # <<>>
      BY <1>1, <1>3 DEF Act, Command, CommandOK
    <2>2. head \in Accounts /\ tail \in Seq(Accounts)
      BY <2>1
    <2>3. \E a \in Alike[head] : SendNext(Shell, Sends(command, l, i, a))
      BY <1>3 DEF Act
    <2>4. command' = [command EXCEPT !.accounts = tail] /\ step' = "act" /\ UNCHANGED <<typed, next>>
      BY <1>3 DEF Act
    <2> HIDE DEF tail, head
    <2>5. /\ command' \in Command /\ command'.do = command.do /\ command'.item = command.item
          /\ command'.list = command.list /\ command'.name = command.name
          /\ command'.target = command.target /\ command'.id = command.id
      BY <1>1, <2>2, <2>4 DEF Command, CommandOK
    <2>6. Parsed(command') /\ \E n \in Commands : n.do = command'.do
      BY <1>1, <2>5 DEF Parsed, CommandOK
    <2> QED
      BY <2>2, <2>3, <2>4, <2>5, <2>6, AlikeAssumption DEF CommandOK, SameAim, Aim
  <1> QED
    BY <1>2, <1>3

LEMMA ShellMoves ==
  ASSUME TypeInv, Type \/ OnSearch \/ OnRead \/ OnAct, UNCHANGED pageVars
  PROVE  /\ TypeInv' /\ UNCHANGED store /\ \A c \in Slots : call'[c] = call[c]
         /\ call'[Shell].status # "answered"
         /\ step' = "none" \/ \E r \in Request : ShellAsks(r)
  <1>1. /\ Slots \subseteq Callers \ {Shell} /\ Shell \in Callers /\ User \in Accounts
        /\ Commands \subseteq Command /\ \A m \in Commands : Parsed(m)
    BY CallersAssumption, CommandAssumption
  <1>2. /\ CallsOK(call) /\ call \in [Callers -> {Free} \cup SentCall \cup AnsweredCall]
    BY JobType
  <1>3. typed \in 0 .. MaxCommands
    BY DEF TypeInv, ShellInv
  <1>4. \A m \in Command : m.do # NoCommand.do
    BY DEF Command, Kinds, NoCommand
  <1>5. ASSUME ClientInv', ShellInv', UNCHANGED store, \A c \in Slots : call'[c] = call[c]
        PROVE  TypeInv'
    BY <1>1, <1>5 DEF TypeInv, PageTypeOK, Shown, pageVars
  <1>6. ASSUME Stop PROVE TypeInv' /\ UNCHANGED store /\ (\A c \in Slots : call'[c] = call[c])
                            /\ call'[Shell].status # "answered" /\ step' = "none"
    <2>1. ClientInv' /\ UNCHANGED store /\ call' = [call EXCEPT ![Shell] = Free]
      BY <1>1, <1>6, LeaveKeeps DEF Stop, TypeInv
    <2>2. call'[Shell] = Free /\ \A c \in Slots : call'[c] = call[c]
      BY <1>1, <1>2, <2>1
    <2>3. ShellInv'
      BY <1>3, <1>6, <2>2 DEF Stop, ShellInv
    <2> QED
      BY <1>5, <1>6, <2>1, <2>2, <2>3 DEF Stop, Free
  <1>7. ASSUME NEW r \in Request, Complete(r), Send(Shell, r) \/ SendNext(Shell, r),
               UNCHANGED next, step' \in {"search", "read", "act"}, CommandOK(command'),
               step' = "search" => command'.list # NULL, step' = "read" => command'.item # NULL,
               typed' \in 0 .. MaxCommands
        PROVE  /\ TypeInv' /\ UNCHANGED store /\ \A c \in Slots : call'[c] = call[c]
               /\ call'[Shell].status # "answered" /\ call' = [call EXCEPT ![Shell] = Asked(r)]
    <2>1. ClientInv' /\ UNCHANGED store /\ call' = [call EXCEPT ![Shell] = Asked(r)]
      BY <1>1, <1>7, SendKeeps DEF TypeInv
    <2>2. call'[Shell] = Asked(r) /\ \A c \in Slots : call'[c] = call[c]
      BY <1>1, <1>2, <2>1
    <2>3. Asked(r) # Free /\ Asked(r).status # "answered"
      BY DEF Asked, Free
    <2>4. ShellInv'
      BY <1>7, <2>2, <2>3 DEF ShellInv, CommandOK
    <2> QED
      BY <1>5, <2>1, <2>2, <2>3, <2>4
  <1>8. CASE Type
    <2>1. step = "none" /\ typed' = typed + 1 /\ typed < MaxCommands /\ UNCHANGED next
      BY <1>8 DEF Type
    <2>2. PICK m \in Commands :
            /\ command' = m
            /\ IF m.list = NULL
               THEN Send(Shell, Sends(m, 0, NoItem, User)) /\ step' = "act"
               ELSE Send(Shell, Search(User, m.list)) /\ step' = "search"
      BY <1>8 DEF Type
    <2>3. CommandOK(command') /\ typed' \in 0 .. MaxCommands /\ command'.do # NoCommand.do
      BY <1>1, <1>3, <1>4, <2>1, <2>2, CommandAssumption DEF CommandOK
    <2>4. CASE m.list = NULL
      <3> DEFINE r == Sends(m, 0, NoItem, User)
      <3>1. r \in Request /\ Complete(r) /\ r.op \in {"list_lists", "create_list"}
        BY <1>1, <2>2, <2>4, SendsType DEF NoItem
      <3>2. Send(Shell, r) /\ step' = "act"
        BY <2>2, <2>4
      <3> HIDE DEF r
      <3>3. /\ TypeInv' /\ UNCHANGED store /\ \A c \in Slots : call'[c] = call[c]
            /\ call'[Shell].status # "answered" /\ call' = [call EXCEPT ![Shell] = Asked(r)]
        BY <1>7, <2>1, <2>3, <3>1, <3>2
      <3>4. ShellAsks(r)
        BY <2>1, <2>2, <2>3, <2>4, <3>1, <3>2, <3>3 DEF ShellAsks
      <3> QED
        BY <3>1, <3>3, <3>4
    <2>5. CASE m.list # NULL
      <3> DEFINE r == Search(User, m.list)
      <3>1. r \in Request /\ Complete(r)
        BY <1>1, <2>2, <2>5 DEF Search, Ask, Request, Complete, Operations, NoItem, Amount, Command
      <3>2. Send(Shell, r) /\ step' = "search" /\ command'.list # NULL
        BY <2>2, <2>5
      <3> HIDE DEF r
      <3>3. /\ TypeInv' /\ UNCHANGED store /\ \A c \in Slots : call'[c] = call[c]
            /\ call'[Shell].status # "answered" /\ call' = [call EXCEPT ![Shell] = Asked(r)]
        BY <1>7, <2>1, <2>3, <3>1, <3>2
      <3>4. ShellAsks(r)
        BY <2>1, <2>2, <2>3, <2>5, <3>1, <3>2, <3>3 DEF ShellAsks, r
      <3> QED
        BY <3>1, <3>3, <3>4
    <2> QED
      BY <2>4, <2>5
  <1>9. ASSUME step # "none", NEW l \in Nat, NEW i \in Nat, Act(l, i)
        PROVE  /\ TypeInv' /\ UNCHANGED store /\ \A c \in Slots : call'[c] = call[c]
               /\ call'[Shell].status # "answered" /\ step' = "act"
               /\ \E r \in Request :
                    /\ call' = [call EXCEPT ![Shell] = Asked(r)] /\ command'.do # NoCommand.do
                    /\ SameAim
                    /\ IF command.list = NULL THEN r.op \in {"list_lists", "create_list"}
                       ELSE r.list = l
                    /\ IF command.item = NULL THEN Does(command, l, r)
                       ELSE r.op \in {"delete_item", "update_item"} /\ r.item = i
    <2>1. step' = "act" /\ UNCHANGED <<typed, next>> /\ CommandOK(command') /\ SameAim
      BY <1>9, ActType
    <2>2. PICK a \in Accounts : SendNext(Shell, Sends(command, l, i, a))
      BY <1>9, ActType
    <2>3. command \in Command /\ Parsed(command)
      BY <1>9 DEF TypeInv, ShellInv
    <2> DEFINE r == Sends(command, l, i, a)
    <2>4. /\ r \in Request /\ Complete(r)
          /\ IF command.list = NULL THEN r.op \in {"list_lists", "create_list"} ELSE r.list = l
          /\ IF command.item = NULL THEN Does(command, l, r)
             ELSE r.op \in {"delete_item", "update_item"} /\ r.item = i
      BY <1>9, <2>3, SendsType
    <2>5. SendNext(Shell, r)
      BY <2>2
    <2> HIDE DEF r
    <2>6. /\ TypeInv' /\ UNCHANGED store /\ \A c \in Slots : call'[c] = call[c]
          /\ call'[Shell].status # "answered" /\ call' = [call EXCEPT ![Shell] = Asked(r)]
      BY <1>3, <1>7, <2>1, <2>4, <2>5
    <2>7. command'.do # NoCommand.do
      BY <1>4, <2>1 DEF CommandOK
    <2> QED
      BY <2>1, <2>4, <2>6, <2>7
  <1>10. ASSUME Answered(Shell) PROVE /\ call[Shell].rows \in Store /\ call[Shell].req.list \in Nat
                                     /\ Results \subseteq ListRow /\ Matches \subseteq ContentRow
    <2>1. call[Shell] \in AnsweredCall
      BY <1>1, <1>2, <1>10, CallKinds DEF Answered
    <2>2. call[Shell].rows \in Store /\ call[Shell].req \in Request
      BY <2>1 DEF AnsweredCall
    <2> QED
      BY <2>2 DEF Results, Matches, Store, Request
  <1>11. CASE OnSearch
    <2>1. step = "search" /\ Answered(Shell) /\ command.list # NULL
      BY <1>11 DEF OnSearch, TypeInv, ShellInv
    <2>2. CASE Stop
      BY <1>6, <2>2
    <2>3. CASE ~ Stop
      <3>1. PICK l \in Results :
              IF command.item = NULL THEN Act(l.id, NoItem) ELSE Go(Read(User, l.id), "read")
        BY <1>11, <2>3 DEF OnSearch
      <3>2. Succeeded(Shell) /\ Cardinality(Results) = 1
        BY <1>11, <2>3 DEF OnSearch, FoundOne
      <3>3. l.id \in Nat /\ NoItem \in Nat
        BY <1>10, <2>1, <3>1 DEF ListRow, NoItem
      <3>4. CASE command.item = NULL
        <4>1. Act(l.id, NoItem)
          BY <3>1, <3>4
        <4>2. PICK r \in Request :
                /\ call' = [call EXCEPT ![Shell] = Asked(r)] /\ command'.do # NoCommand.do
                /\ SameAim /\ r.list = l.id /\ Does(command, r.list, r)
          BY <1>9, <2>1, <3>3, <3>4, <4>1
        <4>3. /\ TypeInv' /\ UNCHANGED store /\ \A c \in Slots : call'[c] = call[c]
              /\ call'[Shell].status # "answered" /\ step' = "act"
          BY <1>9, <2>1, <3>3, <4>1
        <4>4. ShellAsks(r)
          BY <2>1, <3>1, <3>2, <3>4, <4>2, <4>3 DEF ShellAsks, SameAim
        <4> QED
          BY <4>3, <4>4
      <3>5. CASE command.item # NULL
        <4> DEFINE r == Read(User, l.id)
        <4>1. r \in Request /\ Complete(r) /\ r.list = l.id /\ r.op = "read_list"
          BY <1>1, <3>3, AskType DEF Read, Ask, Operations
        <4>2. SendNext(Shell, r) /\ step' = "read" /\ UNCHANGED <<command, typed, next>>
          BY <3>1, <3>5 DEF Go
        <4>3. CommandOK(command')
          BY <2>1, <4>2 DEF TypeInv, ShellInv, CommandOK
        <4> HIDE DEF r
        <4>4. /\ TypeInv' /\ UNCHANGED store /\ \A c \in Slots : call'[c] = call[c]
              /\ call'[Shell].status # "answered" /\ call' = [call EXCEPT ![Shell] = Asked(r)]
          BY <1>3, <1>7, <3>5, <4>1, <4>2, <4>3
        <4>5. ShellAsks(r)
          BY <1>4, <2>1, <3>1, <3>2, <3>5, <4>1, <4>2, <4>3, <4>4
             DEF ShellAsks, SameAim, CommandOK
        <4> QED
          BY <4>1, <4>4, <4>5
      <3> QED
        BY <3>4, <3>5
    <2> QED
      BY <2>2, <2>3
  <1>12. CASE OnRead
    <2>1. step = "read" /\ Answered(Shell) /\ command.item # NULL
      BY <1>12 DEF OnRead, TypeInv, ShellInv
    <2>2. CASE Stop
      BY <1>6, <2>2
    <2>3. CASE ~ Stop
      <3>1. PICK c \in Matches : Act(call[Shell].req.list, c.id)
        BY <1>12, <2>3 DEF OnRead
      <3>2. Succeeded(Shell)
        BY <1>12, <2>3 DEF OnRead
      <3>3. call[Shell].req.list \in Nat /\ c.id \in Nat
        BY <1>10, <2>1, <3>1 DEF ContentRow
      <3>4. command.list # NULL
        BY <2>1 DEF TypeInv, ShellInv, Parsed
      <3>5. PICK r \in Request :
              /\ call' = [call EXCEPT ![Shell] = Asked(r)] /\ command'.do # NoCommand.do
              /\ SameAim /\ r.list = call[Shell].req.list
              /\ r.op \in {"delete_item", "update_item"} /\ r.item = c.id
        BY <1>9, <2>1, <3>1, <3>3, <3>4
      <3>6. /\ TypeInv' /\ UNCHANGED store /\ \A d \in Slots : call'[d] = call[d]
            /\ call'[Shell].status # "answered" /\ step' = "act"
        BY <1>9, <2>1, <3>1, <3>3
      <3>7. ShellAsks(r)
        BY <2>1, <3>1, <3>2, <3>4, <3>5, <3>6 DEF ShellAsks, SameAim
      <3> QED
        BY <3>6, <3>7
    <2> QED
      BY <2>2, <2>3
  <1>13. CASE OnAct
    <2>1. step = "act" /\ Answered(Shell)
      BY <1>13 DEF OnAct
    <2>2. CASE Stop
      BY <1>6, <2>2
    <2>3. CASE ~ Stop
      <3>1. Act(call[Shell].req.list, NoItem) /\ ByAccount(command)
        BY <1>13, <2>3 DEF OnAct
      <3>2. call[Shell].req.list \in Nat /\ NoItem \in Nat
        BY <1>10, <2>1 DEF NoItem
      <3>3. command.list # NULL /\ command.item = NULL
        BY <2>1, <3>1 DEF TypeInv, ShellInv, Parsed, ByAccount
      <3>4. PICK r \in Request :
              /\ call' = [call EXCEPT ![Shell] = Asked(r)] /\ command'.do # NoCommand.do
              /\ SameAim /\ r.list = call[Shell].req.list
              /\ Does(command, r.list, r)
        BY <1>9, <2>1, <3>1, <3>2, <3>3
      <3>5. /\ TypeInv' /\ UNCHANGED store /\ \A d \in Slots : call'[d] = call[d]
            /\ call'[Shell].status # "answered" /\ step' = "act"
        BY <1>9, <2>1, <3>1, <3>2
      <3>6. ShellAsks(r)
        BY <2>1, <3>3, <3>4, <3>5 DEF ShellAsks, SameAim
      <3> QED
        BY <3>5, <3>6
    <2> QED
      BY <2>2, <2>3
  <1> QED
    BY <1>8, <1>11, <1>12, <1>13

\* The steps of page and shell, one by one.
PageMoves(c) == (\E r : Pressed(c, r)) \/ AskAgain(c) \/ Finish(c) \/ ServePage(c)

LEMMA Moves ==
  ASSUME TypeInv, HouseholdNext
  PROVE  \/ /\ \/ Close \/ NotANumber \/ (\E l \in Links : Choose(l))
               \/ \E c \in Slots : PageMoves(c)
            /\ UNCHANGED shellVars /\ chosen' = chosen \cup Clicked
         \/ (Type \/ OnSearch \/ OnRead \/ OnAct) /\ UNCHANGED <<pageVars, chosen>>
         \/ ServeShell /\ chosen' = chosen \cup Meant
              /\ quiet' = (quiet /\ store' = store) /\ UNCHANGED <<page, job, blank, clicks>>
  BY ButtonsPress DEF HouseholdNext, PageNext, PageMoves

LEMMA ServeShellType ==
  ASSUME TypeInv, ServeShell, quiet' = (quiet /\ store' = store),
         UNCHANGED <<page, job, blank, clicks>>
  PROVE  TypeInv'
  <1>1. /\ Slots \subseteq Callers \ {Shell} /\ Shell \in Callers
    BY CallersAssumption
  <1>2. /\ ClientInv' /\ \A d \in Callers \ {Shell} : call'[d] = call[d]
        /\ Answered(Shell)' /\ call[Shell] \in SentCall
    BY <1>1, ServeKeeps DEF TypeInv, ServeShell
  <1>3. call'[Shell] # Free /\ call[Shell] # Free
    BY <1>2 DEF Answered, Free, SentCall
  <1>4. PageTypeOK'
    BY <1>1, <1>2 DEF PageTypeOK, TypeInv, Shown
  <1>5. ShellInv'
    BY <1>3 DEF ShellInv, shellVars, TypeInv, ServeShell
  <1> QED
    BY <1>2, <1>4, <1>5 DEF TypeInv

LEMMA TypeStep == TypeInv /\ [HouseholdNext]_vars => TypeInv'
  <1> SUFFICES ASSUME TypeInv, [HouseholdNext]_vars PROVE TypeInv'
    OBVIOUS
  <1>1. CASE UNCHANGED vars
    BY <1>1 DEF vars, pageVars, shellVars, TypeInv, ClientInv, PageTypeOK, ShellInv, Shown
  <1>2. CASE HouseholdNext
    <2>1. CASE Close /\ UNCHANGED shellVars
      BY <2>1, CloseType
    <2>2. CASE NotANumber /\ UNCHANGED shellVars
      BY <2>2, NotANumberType
    <2>3. CASE (\E l \in Links : Choose(l)) /\ UNCHANGED shellVars
      BY <2>3, ChooseType
    <2>4. ASSUME NEW c \in Slots, PageMoves(c), UNCHANGED shellVars PROVE TypeInv'
      BY <2>4, PressedType, AskAgainType, FinishType, ServePageType DEF PageMoves
    <2>5. CASE (Type \/ OnSearch \/ OnRead \/ OnAct) /\ UNCHANGED pageVars
      BY <2>5, ShellMoves
    <2>6. CASE ServeShell /\ quiet' = (quiet /\ store' = store)
                 /\ UNCHANGED <<page, job, blank, clicks>>
      BY <2>6, ServeShellType
    <2> QED
      BY <1>2, <2>1, <2>2, <2>3, <2>4, <2>5, <2>6, Moves
  <1> QED
    BY <1>1, <1>2

LEMMA TypeStart == HouseholdInit => TypeInv
  <1> SUFFICES ASSUME HouseholdInit PROVE TypeInv
    OBVIOUS
  <1>1. store = InitialStore /\ call = [c \in Callers |-> Free]
    BY DEF HouseholdInit, Init
  <1>2. store \in Store /\ ReferencesHold(store)
    BY <1>1, StoreAssumption
  <1>3. next \in Nat \ {0}
    <2>1. /\ Cardinality(InitialStore.lists) \in Nat /\ Cardinality(InitialStore.content) \in Nat
          /\ Cardinality(InitialStore.pantry) \in Nat
      BY StoreAssumption, FS_CardinalityType
    <2>2. next = 1 + Cardinality(InitialStore.lists) + Cardinality(InitialStore.content)
                   + Cardinality(InitialStore.pantry)
      BY DEF HouseholdInit
    <2> QED
      BY <2>1, <2>2
  <1>4. CallsOK(call)
    BY <1>1 DEF CallsOK
  <1>5. page = ClosedPage /\ job = [c \in Slots |-> NoJob] /\ blank = {} /\ clicks = 0 /\ quiet = TRUE
    BY DEF HouseholdInit, PageInit
  <1>6. page \in [list : Links \cup {NoList}, items : SUBSET ContentRow,
                  pantry : SUBSET PantryRow, error : BOOLEAN]
    BY <1>5 DEF ClosedPage
  <1>7. job \in [Slots -> Job] /\ \A c \in Slots : job[c] = NoJob
    BY <1>5, NewJobType
  <1>8. PageTypeOK
    BY <1>5, <1>6, <1>7, PageAssumption DEF PageTypeOK, Job
  <1>9. ShellInv
    BY <1>1, CommandAssumption DEF ShellInv, HouseholdInit, ShellInit
  <1> QED
    BY <1>2, <1>3, <1>4, <1>8, <1>9 DEF TypeInv, ClientInv

LEMMA TypesKept == Spec => []TypeInv
  BY TypeStart, TypeStep, PTL DEF Spec

\* The lists and what the page and the shell know of them have their types, the
\* foreign keys hold whatever is served, and a job has a request under way.
THEOREM TypeCorrect == Spec => []TypeOK
  <1>1. TypeInv => TypeOK
    <2> SUFFICES ASSUME TypeInv PROVE TypeOK
      OBVIOUS
    <2>1. command.do \in {"nothing"} \cup {m.do : m \in Commands}
      BY DEF TypeInv, ShellInv, NoCommand
    <2>2. ShellTypeOK
      BY <2>1 DEF TypeInv, ShellInv, ShellTypeOK
    <2> QED
      BY <2>2 DEF TypeOK, TypeInv, ClientInv
  <1> QED
    BY <1>1, TypesKept, PTL

---------------------------------------------------------------------------
(***************************************************************************)
(* Blank forms: there is a job on its way whose end draws them again.      *)
(***************************************************************************)
HasteInv == blank # {} => ~ AtRest

LEMMA HasteStep == TypeInv /\ HasteInv /\ [HouseholdNext]_vars => HasteInv'
  <1> SUFFICES ASSUME TypeInv, HasteInv, [HouseholdNext]_vars PROVE HasteInv'
    OBVIOUS
  <1>1. job \in [Slots -> Job]
    BY JobType
  <1>2. CASE UNCHANGED <<page, job, blank>>
    BY <1>2 DEF HasteInv, AtRest, Live
  <1>3. CASE blank' = {}
    BY <1>3 DEF HasteInv
  <1>4. ASSUME NEW c \in Slots, PageMoves(c), UNCHANGED shellVars PROVE HasteInv'
    <2>1. CASE \E r : Pressed(c, r)
      <3>1. PICK r : Pressed(c, r)
        BY <2>1
      <3>2. job' = [job EXCEPT ![c] = NewJob(r.op)] /\ NewJob(r.op).live
        BY <3>1, NewJobType DEF Pressed, Start
      <3>3. Live(c)'
        BY <1>1, <3>2 DEF Live
      <3> QED
        BY <3>3 DEF HasteInv, AtRest
    <2>2. CASE AskAgain(c)
      <3>1. job' = [job EXCEPT ![c] = [after |-> Tail(job[c].after), got |-> Got(c),
                                       live |-> job[c].live]]
        BY <1>4, <2>2, AskAgainType
      <3>2. \A d \in Slots : job'[d].live = job[d].live
        BY <1>1, <3>1
      <3>3. blank' = blank
        BY <2>2 DEF AskAgain
      <3> QED
        BY <3>2, <3>3 DEF HasteInv, AtRest, Live
    <2>3. CASE Finish(c) /\ ~ job[c].live
      <3>1. job' = [job EXCEPT ![c] = NoJob] /\ NoJob.live = FALSE /\ blank' = blank
        BY <2>3 DEF Finish, NoJob
      <3>2. \A d \in Slots : job'[d].live <=> job[d].live
        BY <1>1, <2>3, <3>1
      <3> QED
        BY <3>1, <3>2 DEF HasteInv, AtRest, Live
    <2>4. CASE Finish(c) /\ job[c].live
      BY <1>3, <2>4 DEF Finish, Redrawn
    <2>5. CASE ServePage(c)
      BY <1>2, <2>5 DEF ServePage
    <2> QED
      BY <1>4, <2>1, <2>2, <2>3, <2>4, <2>5 DEF PageMoves
  <1>5. CASE Close \/ NotANumber \/ \E l \in Links : Choose(l)
    BY <1>3, <1>5 DEF Close, NotANumber, Choose
  <1>6. CASE UNCHANGED vars
    BY <1>2, <1>6 DEF vars, pageVars
  <1>7. CASE HouseholdNext
    BY <1>2, <1>4, <1>5, <1>7, Moves DEF pageVars
  <1> QED
    BY <1>6, <1>7

\* What a step does to the call of a slot.
SlotSteps(c) ==
  LET r == call'[c].req IN
  \/ call'[c] = call[c]
  \/ call'[c] = Free
  \/ call[c] # Free /\ r = call[c].req /\ call'[c].status = "answered"
  \/ /\ call'[c] # call[c] /\ call'[c].status = "sent"
     /\ \/ Pressed(c, r) /\ chosen' = chosen \cup Clicked
        \/ r.op \in Reading

LEMMA SlotsStep ==
  ASSUME TypeInv, HouseholdNext, NEW c \in Slots
  PROVE  SlotSteps(c)
  <1>1. c \in Callers /\ Slots \subseteq Callers \ {Shell} /\ Shell \in Callers
    BY CallersAssumption
  <1> SUFFICES ASSUME call'[c] # call[c] PROVE SlotSteps(c)
    BY DEF SlotSteps
  <1>2. CASE Close \/ NotANumber
    BY <1>2 DEF Close, NotANumber
  <1>3. ASSUME NEW l \in Links, Choose(l), UNCHANGED shellVars PROVE SlotSteps(c)
    <2>1. PICK d \in Slots, e \in Slots :
             /\ call'[d] = Asked(Read(Me, l)) /\ call'[e] = Asked(Pantry(Me, l))
             /\ \A f \in Callers \ {d, e} : call'[f] = call[f]
      BY <1>3, ChooseType
    <2>2. c \in {d, e}
      BY <1>1, <2>1
    <2> QED
      BY <2>1, <2>2 DEF SlotSteps, Asked, Read, Pantry, Ask, Reading
  <1>4. ASSUME NEW d \in Slots, PageMoves(d), UNCHANGED shellVars, chosen' = chosen \cup Clicked
        PROVE  SlotSteps(c)
    <2>1. ASSUME NEW r, Pressed(d, r) PROVE SlotSteps(c)
      <3>1. call'[d] = Asked(r) /\ \A e \in Callers \ {d} : call'[e] = call[e]
        BY <1>4, <2>1, PressedType
      <3>2. c = d /\ call'[c].req = r /\ call'[c].status = "sent"
        BY <1>1, <3>1 DEF Asked
      <3> QED
        BY <1>4, <2>1, <3>2 DEF SlotSteps
    <2>2. CASE AskAgain(d)
      <3>1. /\ call'[d] = Asked(Ask(Head(job[d].after), Me, call[d].req.list))
            /\ \A e \in Callers \ {d} : call'[e] = call[e]
        BY <1>4, <2>2, AskAgainType
      <3>2. c = d
        BY <1>1, <3>1
      <3>3. Head(job[d].after) \in Reading
        BY <2>2, JobType, TodoSteps DEF AskAgain, GoesOn, Job, Reading
      <3> QED
        BY <3>1, <3>2, <3>3 DEF SlotSteps, Asked, Ask
    <2>3. CASE Finish(d)
      <3>1. call'[d] = Free /\ \A e \in Callers \ {d} : call'[e] = call[e]
        BY <1>4, <2>3, FinishType
      <3> QED
        BY <1>1, <3>1 DEF SlotSteps
    <2>4. CASE ServePage(d)
      <3>1. /\ Answered(d)' /\ call'[d].req = call[d].req /\ call[d] \in SentCall
            /\ \A e \in Callers \ {d} : call'[e] = call[e]
        BY <1>1, <2>4, ServeKeeps DEF ServePage, TypeInv
      <3>2. c = d
        BY <1>1, <3>1
      <3> QED
        BY <3>1, <3>2 DEF SlotSteps, Answered, SentCall, Free
    <2> QED
      BY <1>4, <2>1, <2>2, <2>3, <2>4 DEF PageMoves
  <1>5. CASE (Type \/ OnSearch \/ OnRead \/ OnAct) /\ UNCHANGED pageVars
    BY <1>5, ShellMoves
  <1>6. CASE ServeShell
    BY <1>1, <1>6, ServeKeeps DEF ServeShell, TypeInv
  <1> QED
    BY <1>2, <1>3, <1>4, <1>5, <1>6, Moves

---------------------------------------------------------------------------
(***************************************************************************)
(* What a page at rest shows.                                              *)
(***************************************************************************)
\* While a user waits, a job has the request of a button, or the first of its
\* reads, or the second with what the first one brought.
JobFits(c) ==
  LET op == call[c].req.op
      got == job[c].got
  IN /\ call[c].req.list = page.list
     /\ \/ op \in Buttons /\ job[c].after = Reload(op) /\ got = NothingGot
        \/ op = "read_list" /\ job[c].after \in {<<>>, <<"get_pantry">>} /\ got = NothingGot
        \/ op = "get_pantry" /\ job[c].after = <<>> /\ got.pantry = {}
             /\ (got.failed \/ got.items \subseteq {OfList(store.content, page.list)})

\* The rows that were found are still those of the list.
AnswerFits(c) ==
  Succeeded(c) =>
    /\ Asks(c, "read_list") => call[c].rows.content = OfList(store.content, page.list)
    /\ Asks(c, "get_pantry") => call[c].rows.pantry = OfList(store.pantry, page.list)

\* Only the two first reads of a page are side by side.
FirstReads(c) ==
  call[c].req.op \in Reading /\ job[c].after = <<>> /\ job[c].got = NothingGot

\* A job that ends with the rows op reads, or with an error.
Brings(c, op) ==
  /\ Live(c)
  /\ \/ job[c].got.failed \/ Asks(c, op)
     \/ job[c].after \in {<<op>>, <<"read_list", "get_pantry">>}
     \/ op = "read_list" /\ job[c].got.items # {}

QuietInv ==
  quiet =>
    /\ \A c \in Slots : Live(c) => JobFits(c) /\ AnswerFits(c)
    /\ \A c, d \in Slots : Live(c) /\ Live(d) /\ c # d => FirstReads(c)
    /\ page.list # NoList =>
         /\ \/ page.items = OfList(store.content, page.list)
            \/ \E c \in Slots : Brings(c, "read_list")
         /\ \/ page.pantry = OfList(store.pantry, page.list)
            \/ \E c \in Slots : Brings(c, "get_pantry")

\* What a job is like depends on the job, its call, the list and the store.
LEMMA SameJob ==
  ASSUME NEW c \in Slots, job'[c] = job[c], call'[c] = call[c], page'.list = page.list,
         UNCHANGED store
  PROVE  /\ Live(c)' <=> Live(c)
         /\ JobFits(c) => JobFits(c)'
         /\ AnswerFits(c) => AnswerFits(c)'
         /\ FirstReads(c) => FirstReads(c)'
         /\ \A op : Brings(c, op) => Brings(c, op)'
  <1>1. Live(c)' <=> Live(c)
    BY DEF Live
  <1>2. JobFits(c) => JobFits(c)'
    BY DEF JobFits
  <1>3. AnswerFits(c) => AnswerFits(c)'
    BY DEF AnswerFits, Succeeded, Answered, Asks
  <1>4. FirstReads(c) => FirstReads(c)'
    BY DEF FirstReads
  <1>5. ASSUME NEW op, Brings(c, op) PROVE Brings(c, op)'
    BY <1>5 DEF Brings, Live, Asks
  <1> QED
    BY <1>1, <1>2, <1>3, <1>4, <1>5

LEMMA QuietSame ==
  ASSUME QuietInv, quiet' => quiet, UNCHANGED <<store, job>>,
         page'.list = page.list, page'.items = page.items, page'.pantry = page.pantry,
         \A c \in Slots : call'[c] = call[c]
  PROVE  QuietInv'
  <1> SUFFICES ASSUME quiet, quiet'
               PROVE  QuietInv'
    BY DEF QuietInv
  <1>1. \A c \in Slots :
          /\ Live(c)' <=> Live(c)
          /\ JobFits(c) => JobFits(c)'
          /\ AnswerFits(c) => AnswerFits(c)'
          /\ FirstReads(c) => FirstReads(c)'
          /\ Brings(c, "read_list") => Brings(c, "read_list")'
          /\ Brings(c, "get_pantry") => Brings(c, "get_pantry")'
    BY SameJob
  <1> QED
    BY <1>1 DEF QuietInv

LEMMA QuietChoose ==
  ASSUME TypeInv, QuietInv, NEW l \in Links, Choose(l), UNCHANGED shellVars
  PROVE  QuietInv'
  <1> SUFFICES ASSUME AtRest PROVE QuietInv'
    BY DEF Choose, QuietInv
  <1>1. PICK c \in Slots, d \in Slots :
          /\ c # d
          /\ job' = [job EXCEPT ![c] = NewJob("read_list"), ![d] = NewJob("get_pantry")]
          /\ call'[c] = Asked(Read(Me, l)) /\ call'[d] = Asked(Pantry(Me, l))
    BY ChooseType
  <1>2. page'.list = l
    BY DEF Choose, TypeInv, PageTypeOK
  <1>3. job \in [Slots -> Job]
    BY JobType
  <1>4. job'[c] = NewJob("read_list") /\ job'[d] = NewJob("get_pantry")
          /\ \A e \in Slots \ {c, d} : job'[e] = job[e]
    BY <1>1, <1>3
  <1>5. \A e \in Slots : Live(e)' => e \in {c, d}
    BY <1>4 DEF AtRest, Live
  <1>6. /\ call'[c] # Free /\ call'[c].req.op = "read_list" /\ call'[c].req.list = l
        /\ call'[d] # Free /\ call'[d].req.op = "get_pantry" /\ call'[d].req.list = l
        /\ ~ Answered(c)' /\ ~ Answered(d)'
    BY <1>1 DEF Read, Pantry, Ask, Asked, Free, Answered
  <1>7. /\ job'[c].after = <<>> /\ job'[c].got = NothingGot /\ Live(c)'
        /\ job'[d].after = <<>> /\ job'[d].got = NothingGot /\ Live(d)'
    BY <1>4 DEF NewJob, Reload, Live
  <1>8. JobFits(c)' /\ JobFits(d)'
    BY <1>2, <1>6, <1>7 DEF JobFits, NothingGot
  <1>9. AnswerFits(c)' /\ AnswerFits(d)'
    BY <1>6 DEF AnswerFits, Succeeded
  <1>10. FirstReads(c)' /\ FirstReads(d)'
    BY <1>6, <1>7 DEF FirstReads, Reading
  <1>11. Brings(c, "read_list")' /\ Brings(d, "get_pantry")'
    BY <1>6, <1>7 DEF Brings, Asks
  <1> QED
    BY <1>5, <1>8, <1>9, <1>10, <1>11 DEF QuietInv

LEMMA QuietClose ==
  ASSUME TypeInv, Close
  PROVE  QuietInv'
  <1>1. job' = [c \in Slots |-> [job[c] EXCEPT !.live = FALSE]] /\ job \in [Slots -> Job]
    BY JobType DEF Close
  <1>2. ASSUME NEW c \in Slots PROVE ~ Live(c)'
    <2>1. job[c] \in Job /\ job'[c] = [job[c] EXCEPT !.live = FALSE]
      BY <1>1
    <2> QED
      BY <2>1 DEF Live, Job
  <1>3. page'.list = NoList
    BY DEF Close, ClosedPage
  <1> QED
    BY <1>2, <1>3 DEF QuietInv

LEMMA QuietPressed ==
  ASSUME TypeInv, QuietInv, NEW c \in Slots, NEW r, Pressed(c, r), UNCHANGED shellVars
  PROVE  QuietInv'
  <1> SUFFICES ASSUME quiet, AtRest PROVE QuietInv'
    BY DEF Pressed, Start, QuietInv
  <1>1. /\ UNCHANGED store /\ call'[c] = Asked(r)
    BY PressedType
  <1>2. job' = [job EXCEPT ![c] = NewJob(r.op)] /\ page' = page
          /\ r.list = page.list /\ r.op \in Buttons
    BY DEF Pressed, Start
  <1>3. job'[c] = NewJob(r.op) /\ \A e \in Slots \ {c} : job'[e] = job[e]
    BY <1>2, JobType
  <1>4. \A e \in Slots : Live(e)' => e = c
    BY <1>3 DEF AtRest, Live
  <1>5. JobFits(c)' /\ AnswerFits(c)'
    BY <1>1, <1>2, <1>3 DEF JobFits, AnswerFits, NewJob, Asked, Succeeded, Answered
  <1>6. page.list # NoList => /\ page.items = OfList(store.content, page.list)
                              /\ page.pantry = OfList(store.pantry, page.list)
    BY DEF QuietInv, AtRest, Brings
  <1> QED
    BY <1>1, <1>2, <1>4, <1>5, <1>6 DEF QuietInv

LEMMA QuietAskAgain ==
  ASSUME TypeInv, QuietInv, NEW c \in Slots, AskAgain(c), UNCHANGED shellVars
  PROVE  QuietInv'
  <1> DEFINE t == job[c].after
             op == call[c].req.op
  <1>1. /\ UNCHANGED <<store, page, quiet>>
        /\ call'[c] = Asked(Ask(Head(t), Me, call[c].req.list))
        /\ \A e \in Slots \ {c} : call'[e] = call[e]
        /\ job' = [job EXCEPT ![c] = [after |-> Tail(t), got |-> Got(c), live |-> job[c].live]]
    BY AskAgainType, CallersAssumption DEF AskAgain
  <1>2. /\ job'[c] = [after |-> Tail(t), got |-> Got(c), live |-> job[c].live]
        /\ \A e \in Slots \ {c} : job'[e] = job[e]
    BY <1>1, JobType
  <1> SUFFICES ASSUME quiet PROVE QuietInv'
    BY <1>1 DEF QuietInv
  <1>3. \A e \in Slots \ {c} :
          /\ Live(e)' <=> Live(e)
          /\ JobFits(e) => JobFits(e)'
          /\ AnswerFits(e) => AnswerFits(e)'
          /\ FirstReads(e) => FirstReads(e)'
          /\ Brings(e, "read_list") => Brings(e, "read_list")'
          /\ Brings(e, "get_pantry") => Brings(e, "get_pantry")'
    BY <1>1, <1>2, SameJob
  <1>4. Live(c)' <=> Live(c)
    BY <1>2 DEF Live
  <1>5. CASE ~ Live(c)
    <2>1. ~ Brings(c, "read_list") /\ ~ Brings(c, "get_pantry")
      BY <1>5 DEF Brings
    <2> QED
      BY <1>1, <1>3, <1>4, <1>5, <2>1 DEF QuietInv
  <1>6. CASE Live(c)
    <2>1. /\ Answered(c) /\ t # <<>> /\ (Succeeded(c) \/ op = "read_list")
          /\ call[c] # Free
      BY DEF AskAgain, GoesOn, Asks, Answered, Free
    <2>2. \A e \in Slots : Live(e) => e = c
      BY <1>6, <2>1 DEF QuietInv, FirstReads
    <2>3. JobFits(c) /\ AnswerFits(c)
      BY <1>6 DEF QuietInv
    <2>4. AnswerFits(c)'
      BY <1>1 DEF AnswerFits, Succeeded, Answered, Asked
    <2>5. /\ call'[c].req.op = Head(t) /\ call'[c].req.list = page.list /\ call'[c] # Free
          /\ job'[c].after = Tail(t) /\ job'[c].got = Got(c)
      <3>1. call[c].req.list = page.list
        BY <2>3 DEF JobFits
      <3>2. call'[c].req = Ask(Head(t), Me, page.list) /\ call'[c] # Free
        BY <1>1, <3>1 DEF Asked, Free
      <3> QED
        BY <1>2, <3>2 DEF Ask
    <2>6. CASE op \in Buttons
      <3>1. t = Reload(op) /\ job[c].got = NothingGot /\ Succeeded(c)
        BY <2>1, <2>3, <2>6 DEF JobFits, Buttons
      <3>2. Got(c) = NothingGot
        BY <2>6, <3>1 DEF Got, Buttons
      <3>3. /\ t \in {<<"read_list", "get_pantry">>, <<"read_list">>, <<"get_pantry">>}
        BY <2>6, <3>1 DEF Reload, Buttons
      <3>4. JobFits(c)'
        <4>1. \/ call'[c].req.op = "read_list" /\ job'[c].after \in {<<>>, <<"get_pantry">>}
              \/ call'[c].req.op = "get_pantry" /\ job'[c].after = <<>>
          <5>1. CASE t = <<"read_list", "get_pantry">>
            BY <2>5, <5>1
          <5>2. CASE t = <<"read_list">>
            BY <2>5, <5>2
          <5>3. CASE t = <<"get_pantry">>
            BY <2>5, <5>3
          <5> QED
            BY <3>3, <5>1, <5>2, <5>3
        <4>2. job'[c].got = NothingGot /\ NothingGot.pantry = {} /\ NothingGot.items = {}
          BY <2>5, <3>2 DEF NothingGot
        <4> QED
          BY <1>1, <2>5, <4>1, <4>2 DEF JobFits
      <3>5. \A x \in {"read_list", "get_pantry"} : Brings(c, x) => Brings(c, x)'
        <4>1. ~ job[c].got.failed /\ job[c].got.items = {}
          BY <3>1 DEF NothingGot
        <4>2. CASE t = <<"read_list", "get_pantry">>
          <5>1. call'[c].req.op = "read_list" /\ job'[c].after = <<"get_pantry">>
            BY <2>5, <4>2
          <5> QED
            BY <1>4, <1>6, <2>5, <5>1 DEF Brings, Asks
        <4>3. CASE t = <<"read_list">>
          <5>1. call'[c].req.op = "read_list"
            BY <2>5, <4>3
          <5>2. ~ Brings(c, "get_pantry")
            BY <2>6, <4>1, <4>3 DEF Brings, Asks, Buttons
          <5> QED
            BY <1>4, <1>6, <2>5, <5>1, <5>2 DEF Brings, Asks
        <4>4. CASE t = <<"get_pantry">>
          <5>1. call'[c].req.op = "get_pantry"
            BY <2>5, <4>4
          <5>2. ~ Brings(c, "read_list")
            BY <2>6, <4>1, <4>4 DEF Brings, Asks, Buttons
          <5> QED
            BY <1>4, <1>6, <2>5, <5>1, <5>2 DEF Brings, Asks
        <4> QED
          BY <3>3, <4>2, <4>3, <4>4
      <3> QED
        BY <1>1, <1>3, <1>4, <2>2, <2>4, <3>4, <3>5 DEF QuietInv
    <2>7. CASE op = "read_list"
      <3>1. t = <<"get_pantry">> /\ job[c].got = NothingGot
        BY <2>1, <2>3, <2>7 DEF JobFits, Buttons
      <3>2. /\ Got(c).pantry = {}
            /\ \/ Got(c).failed
               \/ Got(c).items = {OfList(store.content, page.list)}
        <4> DEFINE found == {call[c].rows.content}
        <4>1. job[c].got = NothingGot /\ call[c].req.op = "read_list" /\ NothingGot \in Outcomes
          BY <2>7, <3>1 DEF NothingGot, Outcomes
        <4>2. CASE ~ Succeeded(c)
          <5>1. Got(c) = [job[c].got EXCEPT !.failed = TRUE]
            BY <4>2, Zenon DEF Got
          <5> QED
            BY <4>1, <5>1 DEF Outcomes, NothingGot
        <4>3. CASE Succeeded(c)
          <5>1. found = {OfList(store.content, page.list)}
            BY <2>1, <2>3, <2>7, <4>3 DEF AnswerFits, Asks
          <5>2. Got(c) = [NothingGot EXCEPT !.items = found]
            BY <4>1, <4>3 DEF Got
          <5> HIDE DEF found
          <5>3. Got(c).items = found /\ Got(c).pantry = {}
            BY <4>1, <5>2 DEF Outcomes, NothingGot
          <5> QED
            BY <5>1, <5>3
        <4> QED
          BY <4>2, <4>3
      <3>3. call'[c].req.op = "get_pantry" /\ job'[c].after = <<>>
        BY <2>5, <3>1
      <3>4. JobFits(c)'
        BY <1>1, <2>5, <3>2, <3>3 DEF JobFits
      <3>5. Brings(c, "get_pantry")' /\ Brings(c, "read_list")'
        BY <1>4, <1>6, <2>5, <3>2, <3>3 DEF Brings, Asks
      <3> QED
        BY <1>1, <1>3, <1>4, <2>2, <2>4, <3>4, <3>5 DEF QuietInv
    <2> QED
      BY <2>1, <2>3, <2>6, <2>7 DEF JobFits
  <1> QED
    BY <1>5, <1>6

LEMMA QuietFinish ==
  ASSUME TypeInv, QuietInv, NEW c \in Slots, Finish(c), UNCHANGED shellVars
  PROVE  QuietInv'
  <1>1. /\ UNCHANGED store /\ job' = [job EXCEPT ![c] = NoJob]
        /\ \A e \in Slots \ {c} : call'[e] = call[e]
    BY FinishType, CallersAssumption
  <1>2. job'[c] = NoJob /\ \A e \in Slots \ {c} : job'[e] = job[e]
    BY <1>1, JobType
  <1>3. ~ Live(c)'
    BY <1>2 DEF Live, NoJob
  <1>4. CASE ~ Live(c)
    <2>1. UNCHANGED <<page, quiet>>
      BY <1>4 DEF Finish, Live
    <2>2. \A e \in Slots \ {c} :
            /\ Live(e)' <=> Live(e)
            /\ JobFits(e) => JobFits(e)'
            /\ AnswerFits(e) => AnswerFits(e)'
            /\ FirstReads(e) => FirstReads(e)'
            /\ Brings(e, "read_list") => Brings(e, "read_list")'
            /\ Brings(e, "get_pantry") => Brings(e, "get_pantry")'
      BY <1>1, <1>2, <2>1, SameJob
    <2>3. ~ Brings(c, "read_list") /\ ~ Brings(c, "get_pantry")
      BY <1>4 DEF Brings
    <2> QED
      BY <1>1, <1>3, <2>1, <2>2, <2>3 DEF QuietInv
  <1>5. CASE Live(c)
    <2> DEFINE got == Got(c)
               op == call[c].req.op
    <2>1. Update(got) /\ quiet' = (quiet /\ ~ got.failed)
      BY <1>5 DEF Finish, Live
    <2> SUFFICES ASSUME quiet, ~ got.failed PROVE QuietInv'
      BY <2>1 DEF QuietInv
    <2>2. JobFits(c) /\ AnswerFits(c) /\ job[c].got \in Outcomes
      BY <1>5, JobType DEF QuietInv, Job
    <2>3. Succeeded(c)
      <3>1. ~ Succeeded(c) => got = [job[c].got EXCEPT !.failed = TRUE]
        BY DEF Got
      <3> QED
        BY <2>2, <3>1 DEF Outcomes
    <2>4. job[c].after = <<>> /\ op \in Reading /\ call[c] # Free
      <3>1. job[c].after = <<>>
        BY <2>3 DEF Finish, GoesOn
      <3>2. op \notin Buttons
        BY <2>2, <3>1 DEF JobFits, Reload, Buttons
      <3> QED
        BY <2>2, <3>1, <3>2 DEF JobFits, Reading, Finish, Leave
    <2>5. page'.list = page.list
          /\ page'.items = Newest(got.items, page.items)
          /\ page'.pantry = Newest(got.pantry, page.pantry)
      <3>1. page' = [page EXCEPT !.items = Newest(got.items, @), !.pantry = Newest(got.pantry, @)]
        BY <2>1 DEF Update
      <3>2. page \in [list : Links \cup {NoList}, items : SUBSET ContentRow,
                      pantry : SUBSET PantryRow, error : BOOLEAN]
        BY Zenon DEF TypeInv, PageTypeOK
      <3> HIDE DEF got
      <3> QED
        BY <3>1, <3>2
    <2>6. \A e \in Slots \ {c} :
            /\ Live(e)' <=> Live(e)
            /\ JobFits(e) => JobFits(e)'
            /\ AnswerFits(e) => AnswerFits(e)'
            /\ FirstReads(e) => FirstReads(e)'
            /\ Brings(e, "read_list") => Brings(e, "read_list")'
            /\ Brings(e, "get_pantry") => Brings(e, "get_pantry")'
      BY <1>1, <1>2, <2>5, SameJob
    <2>7. /\ \A e \in Slots : Live(e)' => JobFits(e)' /\ AnswerFits(e)'
          /\ \A e, d \in Slots : Live(e)' /\ Live(d)' /\ e # d => FirstReads(e)'
      BY <1>3, <2>6 DEF QuietInv
    <2> DEFINE Items == OfList(store.content, page.list)
               Pantries == OfList(store.pantry, page.list)
    <2>8. CASE op = "read_list"
      <3>1. job[c].got = NothingGot /\ NothingGot \in Outcomes
        BY <2>2, <2>8 DEF JobFits, Buttons, NothingGot, Outcomes
      <3> DEFINE found == {call[c].rows.content}
      <3>2. got = [NothingGot EXCEPT !.items = found]
        BY <2>3, <2>8, <3>1 DEF Got
      <3>3. found = {Items}
        BY <2>2, <2>3, <2>4, <2>8 DEF AnswerFits, Asks
      <3> HIDE DEF got, found
      <3>4. got.items = found /\ got.pantry = {}
        BY <3>1, <3>2 DEF Outcomes, NothingGot
      <3> HIDE DEF Items
      <3>5. page'.items = Items /\ page'.pantry = page.pantry
        BY <2>5, <3>3, <3>4 DEF Newest
      <3>6. ~ Brings(c, "get_pantry")
        BY <2>4, <2>8, <3>1 DEF Brings, Asks, NothingGot
      <3> QED
        BY <1>1, <2>5, <2>6, <2>7, <3>5, <3>6 DEF QuietInv, Items
    <2>9. CASE op = "get_pantry"
      <3>1. /\ job[c].got.pantry = {}
            /\ job[c].got.failed \/ job[c].got.items \subseteq {Items}
        BY <2>2, <2>9 DEF JobFits, Buttons
      <3> DEFINE found == {call[c].rows.pantry}
      <3>2. got = [job[c].got EXCEPT !.pantry = found]
        BY <2>3, <2>9 DEF Got
      <3>3. found = {Pantries}
        BY <2>2, <2>3, <2>4, <2>9 DEF AnswerFits, Asks
      <3> HIDE DEF got, found
      <3>4. got.items = job[c].got.items /\ got.pantry = found /\ ~ job[c].got.failed
        BY <2>2, <3>2 DEF Outcomes
      <3> HIDE DEF Items, Pantries
      <3>5. page'.pantry = Pantries
        BY <2>5, <3>3, <3>4 DEF Newest
      <3>6. CASE job[c].got.items = {}
        <4>1. page'.items = page.items
          BY <2>5, <3>4, <3>6 DEF Newest
        <4>2. ~ Brings(c, "read_list")
          BY <2>4, <2>9, <3>4, <3>6 DEF Brings, Asks
        <4> QED
          BY <1>1, <2>5, <2>6, <2>7, <3>5, <4>1, <4>2 DEF QuietInv, Pantries
      <3>7. CASE job[c].got.items = {Items}
        <4>1. page'.items = Items
          BY <2>5, <3>4, <3>7 DEF Newest
        <4> QED
          BY <1>1, <2>5, <2>7, <3>5, <4>1 DEF QuietInv, Pantries, Items
      <3> QED
        BY <3>1, <3>4, <3>6, <3>7
    <2> QED
      BY <2>4, <2>8, <2>9 DEF Reading
  <1> QED
    BY <1>4, <1>5

\* Each button reads again all that its request may change.
LEMMA QuietServe ==
  ASSUME TypeInv, QuietInv, NEW c \in Slots, ServePage(c), UNCHANGED shellVars
  PROVE  QuietInv'
  <1> DEFINE r == call[c].req
  <1>1. /\ quiet' = (quiet /\ (store' = store \/ Live(c))) /\ UNCHANGED <<page, job>>
    BY DEF ServePage
  <1> SUFFICES ASSUME quiet, store' = store \/ Live(c) PROVE QuietInv'
    BY <1>1 DEF QuietInv
  <1>2. /\ call[c] \in SentCall /\ Answered(c)' /\ call'[c].req = r
        /\ \A e \in Slots \ {c} : call'[e] = call[e]
        /\ \/ UNCHANGED store /\ ~ Succeeded(c)'
           \/ \E i \in Nat \ {0} : /\ store' = Effect(r, store, i)
                                   /\ Succeeded(c)' => call'[c].rows = Found(r, store)
    BY ServeKeeps, CallersAssumption DEF ServePage, TypeInv
  <1>3. call[c] # Free /\ call'[c] # Free
    BY <1>2 DEF SentCall, Answered, Free
  <1>4. Live(c)' <=> Live(c)
    BY <1>1 DEF Live
  <1>5. \A x : Brings(c, x) <=> Brings(c, x)'
    BY <1>1, <1>2, <1>3 DEF Brings, Live, Asks
  <1>6. FirstReads(c) <=> FirstReads(c)'
    BY <1>1, <1>2 DEF FirstReads
  <1>7. CASE store' = store
    <2>1. \A e \in Slots \ {c} :
            /\ Live(e)' <=> Live(e)
            /\ JobFits(e) => JobFits(e)'
            /\ AnswerFits(e) => AnswerFits(e)'
            /\ FirstReads(e) => FirstReads(e)'
            /\ Brings(e, "read_list") => Brings(e, "read_list")'
            /\ Brings(e, "get_pantry") => Brings(e, "get_pantry")'
      BY <1>1, <1>2, <1>7, SameJob
    <2>2. JobFits(c) => JobFits(c)'
      BY <1>1, <1>2, <1>7 DEF JobFits
    <2>3. JobFits(c) => AnswerFits(c)'
      <3> SUFFICES ASSUME JobFits(c), Succeeded(c)' PROVE AnswerFits(c)'
        BY DEF AnswerFits
      <3>1. call'[c].rows = Found(r, store) /\ r.list = page.list
        BY <1>2 DEF JobFits
      <3> QED
        BY <1>1, <1>2, <1>7, <3>1, FoundRows DEF AnswerFits, Asks
    <2> QED
      BY <1>1, <1>4, <1>5, <1>6, <1>7, <2>1, <2>2, <2>3 DEF QuietInv
  <1>8. CASE store' # store
    <2>1. PICK i \in Nat \ {0} : store' = Effect(r, store, i)
      BY <1>2, <1>8
    <2>2. Live(c) /\ JobFits(c) /\ store \in Store
      BY <1>8 DEF QuietInv, TypeInv, ClientInv
    <2>3. r.op \notin Reading
      BY <1>8, <2>1 DEF Effect, Reading
    <2>4. r.op \in Buttons /\ job[c].after = Reload(r.op) /\ job[c].got = NothingGot
      BY <2>2, <2>3 DEF JobFits, Reading
    <2>5. \A e \in Slots : Live(e) => e = c
      BY <2>2, <2>3 DEF QuietInv, FirstReads
    <2>6. \A e \in Slots : Live(e)' => e = c
      BY <1>1, <2>5 DEF Live
    <2>7. JobFits(c)'
      BY <1>1, <1>2, <2>2, <2>4 DEF JobFits
    <2>8. AnswerFits(c)'
      BY <1>2, <2>3 DEF AnswerFits, Asks, Reading
    <2>9. CASE r.op \in ItemWriters
      <3>1. Brings(c, "read_list")'
        BY <1>4, <1>1, <2>2, <2>4, <2>9 DEF Brings, Reload, Buttons, ItemWriters
      <3>2. r.op \in PantryWriters => Brings(c, "get_pantry")'
        BY <1>4, <1>1, <2>2, <2>4 DEF Brings, Reload, PantryWriters
      <3>3. r.op \notin PantryWriters => store'.pantry = store.pantry
        BY <2>1, <2>2, PantryLeft
      <3> QED
        BY <1>1, <1>5, <2>2, <2>5, <2>6, <2>7, <2>8, <3>1, <3>2, <3>3 DEF QuietInv, Brings
    <2>10. CASE r.op \notin ItemWriters
      <3>1. store'.content = store.content
        BY <2>1, <2>2, <2>10, ItemsLeft
      <3>2. r.op \in PantryWriters => Brings(c, "get_pantry")'
        BY <1>4, <1>1, <2>2, <2>4 DEF Brings, Reload, PantryWriters
      <3>3. r.op \notin PantryWriters => store'.pantry = store.pantry
        BY <2>1, <2>2, PantryLeft
      <3>4. \A e \in Slots : Brings(e, "read_list") \/ Brings(e, "get_pantry") => e = c
        BY <2>5 DEF Brings
      <3> QED
        BY <1>1, <1>5, <2>6, <2>7, <2>8, <3>1, <3>2, <3>3, <3>4 DEF QuietInv
    <2> QED
      BY <2>9, <2>10
  <1> QED
    BY <1>7, <1>8

LEMMA QuietStep == TypeInv /\ QuietInv /\ [HouseholdNext]_vars => QuietInv'
  <1> SUFFICES ASSUME TypeInv, QuietInv, [HouseholdNext]_vars PROVE QuietInv'
    OBVIOUS
  <1>1. CASE UNCHANGED vars
    BY <1>1, QuietSame DEF vars, pageVars
  <1>2. CASE HouseholdNext
    <2>1. CASE Close
      BY <2>1, QuietClose
    <2>2. CASE NotANumber
      <3>1. page'.list = page.list /\ page'.items = page.items /\ page'.pantry = page.pantry
        BY <2>2 DEF NotANumber, TypeInv, PageTypeOK
      <3> QED
        BY <2>2, <3>1, QuietSame DEF NotANumber
    <2>3. CASE (\E l \in Links : Choose(l)) /\ UNCHANGED shellVars
      BY <2>3, QuietChoose
    <2>4. ASSUME NEW c \in Slots, PageMoves(c), UNCHANGED shellVars PROVE QuietInv'
      BY <2>4, QuietPressed, QuietAskAgain, QuietFinish, QuietServe DEF PageMoves
    <2>5. CASE (Type \/ OnSearch \/ OnRead \/ OnAct) /\ UNCHANGED pageVars
      BY <2>5, ShellMoves, QuietSame DEF pageVars
    <2>6. CASE ServeShell /\ quiet' = (quiet /\ store' = store)
                 /\ UNCHANGED <<page, job, blank, clicks>>
      <3>1. Shell \in Callers /\ Slots \subseteq Callers \ {Shell}
        BY CallersAssumption
      <3>2. \A c \in Slots : call'[c] = call[c]
        BY <2>6, <3>1, ServeKeeps DEF ServeShell, TypeInv
      <3>3. CASE store' = store
        BY <2>6, <3>2, <3>3, QuietSame
      <3>4. CASE store' # store
        BY <2>6, <3>4 DEF QuietInv
      <3> QED
        BY <3>3, <3>4
    <2> QED
      BY <1>2, <2>1, <2>2, <2>3, <2>4, <2>5, <2>6, Moves
  <1> QED
    BY <1>1, <1>2

LEMMA QuietStart == HouseholdInit => QuietInv
  BY DEF HouseholdInit, PageInit, QuietInv, Live, NoJob, ClosedPage

LEMMA QuietIsTrue == QuietInv => AtRestItIsTrue
  BY DEF QuietInv, AtRestItIsTrue, AtRest, Brings

\* A page at rest shows what is stored, if its user waited for each answer and
\* nobody else changed anything: what is not true on the page is on its way.
THEOREM PageIsTrue == Spec => []AtRestItIsTrue
  BY QuietStart, QuietIsTrue, QuietStep, TypesKept, PTL DEF Spec

\* An edit form sends what is stored, but for the fields its user filled in, if
\* the user waits: a page at rest shows what is stored, and no form that was
\* validated outlives the job it started.
THEOREM UntypedIsStored == Spec => UntypedFieldsAreStored
  <1>1. HouseholdInit => HasteInv
    BY DEF HouseholdInit, PageInit, HasteInv
  <1>2. TypeInv /\ HasteInv /\ QuietInv /\ [HouseholdNext]_vars =>
          [quiet' => \A c \in Slots :
             LET r == call'[c].req IN
             call'[c] # call[c] /\ call'[c].status = "sent" =>
               /\ r.op = "update_item" => EditOf(r, OfList(store.content, r.list))
               /\ r.op = "set_pantry_item" =>
                    PantryEditOf(r, OfList(store.pantry, r.list))]_<<call, quiet>>
    <2> SUFFICES ASSUME TypeInv, HasteInv, QuietInv, HouseholdNext, quiet', NEW c \in Slots,
                        call'[c] # call[c], call'[c].status = "sent",
                        call'[c].req.op \in {"update_item", "set_pantry_item"}
                 PROVE  LET r == call'[c].req IN
                        /\ r.op = "update_item" => EditOf(r, OfList(store.content, r.list))
                        /\ r.op = "set_pantry_item" =>
                             PantryEditOf(r, OfList(store.pantry, r.list))
      BY DEF vars, pageVars
    <2> DEFINE r == call'[c].req
    <2>1. Pressed(c, r)
      <3>1. SlotSteps(c)
        BY SlotsStep
      <3> QED
        BY <3>1 DEF SlotSteps, Free, Reading
    <2>2. quiet /\ AtRest /\ page.list # NoList /\ r.list = page.list
      BY <2>1 DEF Pressed, Start
    <2>3. /\ page.items = OfList(store.content, r.list)
          /\ page.pantry = OfList(store.pantry, r.list)
      BY <2>2, QuietIsTrue DEF AtRestItIsTrue
    <2>4. blank = {}
      BY <2>2 DEF HasteInv
    <2> QED
      BY <2>1, <2>3, <2>4 DEF Pressed
  <1> QED
    BY <1>1, <1>2, HasteStep, QuietStart, QuietStep, TypesKept, PTL DEF Spec, UntypedFieldsAreStored

---------------------------------------------------------------------------
(***************************************************************************)
(* What users meant.                                                       *)
(***************************************************************************)
PageChosen ==
  \A c \in Slots : call[c] # Free =>
    call[c].req.op \in Buttons \cup Reading /\ Aimed(call[c].req, chosen)

ShellChosen ==
  LET r == call[Shell].req
      toldOf(l) == <<l, Aim(command)>> \in chosen
  IN
  /\ step = "search" =>
       /\ r.op = "search_list" /\ r.user = User
       /\ Succeeded(Shell) /\ Cardinality(Results) = 1 => \A l \in Results : toldOf(l.id)
  /\ step = "read" =>
       /\ r.op = "read_list" /\ toldOf(r.list)
       /\ Succeeded(Shell) => \A c \in Matches : <<r.list, <<"item", c.id>>>> \in chosen
  /\ step = "act" =>
       /\ Aimed(r, chosen)
       /\ command.list # NULL /\ command.item = NULL => toldOf(r.list)

ChosenInv == PageChosen /\ ShellChosen

LEMMA PageChosenStep ==
  ASSUME TypeInv, PageChosen, HouseholdNext
  PROVE  PageChosen'
  <1>1. chosen \subseteq chosen'
    BY Moves
  <1> DEFINE Good(r, ch) == r.op \in Buttons \cup Reading /\ Aimed(r, ch)
  <1>2. PageChosen <=> \A c \in Slots : call[c] # Free => Good(call[c].req, chosen)
    BY DEF PageChosen
  <1>3. PageChosen' <=> \A c \in Slots : call'[c] # Free => Good(call'[c].req, chosen')
    BY DEF PageChosen
  <1>4. \A r : Good(r, chosen) => Good(r, chosen')
    BY <1>1, AimedAtMore
  <1>5. \A r, ch : r.op \in Reading => Good(r, ch)
    BY DEF Reading, Aimed
  <1>6. ASSUME NEW c \in Slots, NEW r, Pressed(c, r), call'[c] # call[c],
               call'[c].status = "sent", call'[c].req = r, chosen' = chosen \cup Clicked
        PROVE  Good(r, chosen')
    <2>1. /\ r.list = page.list /\ r.op \in Buttons
          /\ r.op \in {"delete_item", "update_item"} => <<"item", r.item>> \in Shown
          /\ r.op \in {"delete_pantry_item", "set_pantry_item"} => <<"pantry", r.item>> \in Shown
      BY <1>6 DEF Pressed
    <2>2. RowOf(r) \in Shown => <<page.list, RowOf(r)>> \in Clicked
      BY <1>6 DEF Clicked
    <2>3. /\ r.op \in {"delete_item", "update_item"} => RowOf(r) = <<"item", r.item>>
          /\ r.op \in {"delete_pantry_item", "set_pantry_item"} => RowOf(r) = <<"pantry", r.item>>
      BY DEF RowOf
    <2> QED
      BY <1>6, <2>1, <2>2, <2>3 DEF Aimed, Buttons
  <1> HIDE DEF Good
  <1> SUFFICES ASSUME NEW c \in Slots, call'[c] # Free PROVE Good(call'[c].req, chosen')
    BY <1>3
  <1>7. SlotSteps(c)
    BY SlotsStep
  <1> QED
    BY <1>2, <1>4, <1>5, <1>6, <1>7 DEF SlotSteps

LEMMA PageLeavesShell ==
  ASSUME TypeInv, UNCHANGED shellVars,
         \/ Close \/ NotANumber \/ \E l \in Links : Choose(l)
         \/ \E c \in Slots : PageMoves(c)
  PROVE  call'[Shell] = call[Shell]
  <1>1. Shell \in Callers /\ Slots \subseteq Callers \ {Shell}
    BY CallersAssumption
  <1>2. CASE Close \/ NotANumber
    BY <1>2 DEF Close, NotANumber
  <1>3. CASE \E l \in Links : Choose(l)
    BY <1>1, <1>3, ChooseType
  <1>4. ASSUME NEW c \in Slots, PageMoves(c) PROVE call'[Shell] = call[Shell]
    <2>1. ASSUME NEW r, Pressed(c, r) PROVE call'[Shell] = call[Shell]
      BY <1>1, <2>1, PressedType
    <2>2. CASE AskAgain(c)
      BY <1>1, <2>2, AskAgainType
    <2>3. CASE Finish(c)
      BY <1>1, <2>3, FinishType
    <2>4. CASE ServePage(c)
      BY <1>1, <2>4, ServeKeeps DEF ServePage, TypeInv
    <2> QED
      BY <1>4, <2>1, <2>2, <2>3, <2>4 DEF PageMoves
  <1> QED
    BY <1>2, <1>3, <1>4

LEMMA ShellChosenStep ==
  ASSUME TypeInv, ShellChosen, HouseholdNext
  PROVE  ShellChosen'
  <1>0. Shell \in Callers
    BY CallersAssumption
  <1>1. chosen \subseteq chosen'
    BY Moves
  <1>2. CASE call'[Shell] = call[Shell] /\ UNCHANGED shellVars
    <2>1. Succeeded(Shell)' <=> Succeeded(Shell)
      BY <1>2 DEF Succeeded, Answered
    <2>2. Results' = Results /\ Matches' = Matches
      BY <1>2 DEF Results, Matches, shellVars
    <2>3. Aimed(call[Shell].req, chosen) => Aimed(call'[Shell].req, chosen')
      BY <1>1, <1>2, AimedAtMore
    <2> QED
      BY <1>1, <1>2, <2>1, <2>2, <2>3 DEF ShellChosen, shellVars
  <1>3. CASE (Type \/ OnSearch \/ OnRead \/ OnAct) /\ UNCHANGED <<pageVars, chosen>>
    <2>1. CASE step' = "none"
      BY <2>1 DEF ShellChosen
    <2>2. ASSUME NEW r \in Request, ShellAsks(r) PROVE ShellChosen'
      <3>1. call'[Shell].req = r /\ ~ Succeeded(Shell)'
        <4>1. call'[Shell] = Asked(r)
          BY <1>0, <2>2, JobType DEF ShellAsks
        <4> QED
          BY <4>1 DEF Asked, Succeeded, Answered
      <3>2. CASE step = "none" /\ step' = "act" /\ command'.list = NULL
        BY <2>2, <3>1, <3>2 DEF ShellAsks, ShellChosen, Aimed
      <3>3. CASE step = "none" /\ step' = "search" /\ r = Search(User, command'.list)
        BY <3>1, <3>3 DEF ShellChosen, Search, Ask
      <3>4. CASE /\ step = "search" /\ Succeeded(Shell) /\ Cardinality(Results) = 1
                 /\ \E l \in Results : r.list = l.id
                 /\ step' = IF command.item = NULL THEN "act" ELSE "read"
                 /\ IF step' = "read" THEN r.op = "read_list"
                    ELSE Does(command, r.list, r)
        <4>1. SameAim /\ UNCHANGED chosen
          BY <1>3, <2>2, <3>4 DEF ShellAsks
        <4>2. <<r.list, Aim(command)>> \in chosen
          BY <3>4 DEF ShellChosen
        <4>3. step' = "act" => Aimed(r, chosen)
          BY <3>4, <4>2, DoesWhatIsAimed
        <4> QED
          BY <3>1, <3>4, <4>1, <4>2, <4>3 DEF ShellChosen, SameAim
      <3>5. CASE /\ step = "read" /\ step' = "act" /\ Succeeded(Shell)
                 /\ r.list = call[Shell].req.list /\ \E c \in Matches : r.item = c.id
                 /\ r.op \in {"delete_item", "update_item"}
        <4>1. SameAim /\ UNCHANGED chosen
          BY <1>3, <2>2, <3>5 DEF ShellAsks
        <4>2. <<r.list, <<"item", r.item>>>> \in chosen
          BY <3>5 DEF ShellChosen
        <4>3. Aimed(r, chosen)
          BY <3>5, <4>2 DEF Aimed
        <4>4. command.item # NULL
          BY <3>5 DEF TypeInv, ShellInv
        <4> QED
          BY <3>1, <3>5, <4>1, <4>3, <4>4 DEF ShellChosen, SameAim
      <3>6. CASE /\ step = "act" /\ step' = "act"
                 /\ command.item = NULL /\ command.list # NULL /\ r.list = call[Shell].req.list
                 /\ Does(command, r.list, r)
        <4>1. SameAim /\ UNCHANGED chosen
          BY <1>3, <2>2, <3>6 DEF ShellAsks
        <4>2. <<r.list, Aim(command)>> \in chosen
          BY <3>6 DEF ShellChosen
        <4>3. Aimed(r, chosen)
          BY <3>6, <4>2, DoesWhatIsAimed
        <4> QED
          BY <3>1, <3>6, <4>1, <4>2, <4>3 DEF ShellChosen, SameAim
      <3> QED
        BY <2>2, <3>2, <3>3, <3>4, <3>5, <3>6 DEF ShellAsks
    <2> QED
      BY <1>3, <2>1, <2>2, ShellMoves
  <1>4. CASE ServeShell /\ chosen' = chosen \cup Meant
    <2> DEFINE r == call[Shell].req
    <2>1. UNCHANGED shellVars /\ call'[Shell].req = r
      BY <1>0, <1>4, ServeKeeps DEF ServeShell, TypeInv
    <2>2. Succeeded(Shell)' => call'[Shell].rows = Found(r, store)
      BY <1>0, <1>4, ServeKeeps DEF ServeShell, TypeInv
    <2>3. CASE step = "search"
      <3> DEFINE lists == {l \in OwnedLists(store, User) \cup SharedLists(store, User) :
                             l.name \in Like(r.name)}
      <3>1. r.op = "search_list" /\ r.user = User
        BY <2>3 DEF ShellChosen
      <3>2. Succeeded(Shell)' => Results' = lists
        BY <2>2, <3>1, FoundRows DEF Results
      <3>3. Cardinality(lists) = 1 => Meant = {<<l.id, Aim(command)>> : l \in lists}
        BY <2>3 DEF Meant
      <3> HIDE DEF lists
      <3> QED
        BY <1>4, <2>1, <2>3, <3>1, <3>2, <3>3 DEF ShellChosen, shellVars
    <2>4. CASE step = "read"
      <3> DEFINE found == {x \in OfList(store.content, r.list) : x.name \in Like(command.item)}
      <3>1. r.op = "read_list" /\ <<r.list, Aim(command)>> \in chosen
        BY <2>4 DEF ShellChosen
      <3>2. Succeeded(Shell)' => Matches' = found
        BY <2>1, <2>2, <3>1, FoundRows DEF Matches, shellVars
      <3>3. Meant = {<<r.list, <<"item", c.id>>>> : c \in found}
        BY <2>4, <3>1 DEF Meant
      <3> HIDE DEF found
      <3> QED
        BY <1>4, <2>1, <2>4, <3>1, <3>2, <3>3 DEF ShellChosen, shellVars
    <2>5. CASE step \notin {"search", "read"}
      BY <1>1, <2>1, <2>5, AimedAtMore DEF ShellChosen, shellVars
    <2> QED
      BY <2>3, <2>4, <2>5
  <1> QED
    BY <1>2, <1>3, <1>4, Moves, PageLeavesShell

LEMMA ChosenStep == TypeInv /\ ChosenInv /\ [HouseholdNext]_vars => ChosenInv'
  <1> SUFFICES ASSUME TypeInv, ChosenInv, [HouseholdNext]_vars PROVE ChosenInv'
    OBVIOUS
  <1>1. CASE UNCHANGED vars
    BY <1>1 DEF vars, shellVars, ChosenInv, PageChosen, ShellChosen, Succeeded, Answered, Results,
                Matches
  <1>2. CASE HouseholdNext
    BY <1>2, PageChosenStep, ShellChosenStep DEF ChosenInv
  <1> QED
    BY <1>1, <1>2

\* What goes when a request is served that is about what was chosen.
ChosenGoes(s, t) ==
  LET meant(l, kind, n) == <<l, <<kind, n>>>> \in chosen
      told(l, kinds) == \E do \in kinds : meant(l, do, NoItem)
  IN
  /\ \A c \in s.content \ t.content :
       \/ meant(c.list, "item", c.id) \/ told(c.list, {"delete"})
       \/ c.from_pantry # NoItem /\ meant(c.list, "pantry", c.from_pantry)
  /\ \A q \in s.pantry \ t.pantry :
       \/ meant(q.list, "pantry", q.item)
       \/ \E c \in s.content \ t.content : c.from_pantry = q.item
  /\ \A l \in s.lists \ t.lists :
       IF l.id \in ListIds(t) THEN told(l.id, {"public set", "public remove"})
       ELSE told(l.id, {"delete"})
  /\ \A x \in s.sharing \ t.sharing :
       told(x.list, {"share delete", "share delete all", "delete"})

LEMMA AimedGoes ==
  ASSUME NEW s \in Store, NEW r, NEW i, Aimed(r, chosen)
  PROVE  ChosenGoes(s, Effect(r, s, i))
  <1> DEFINE t == Effect(r, s, i)
             meant(l, kind, n) == <<l, <<kind, n>>>> \in chosen
             told(l, kinds) == \E do \in kinds : meant(l, do, NoItem)
  <1>1. ASSUME NEW c \in s.content \ t.content
        PROVE  \/ meant(c.list, "item", c.id) \/ told(c.list, {"delete"})
               \/ c.from_pantry # NoItem /\ meant(c.list, "pantry", c.from_pantry)
    <2>1. c.list = r.list
      BY <1>1, ItemsGone
    <2>2. CASE r.op = "delete_list"
      BY <2>1, <2>2 DEF Aimed
    <2>3. CASE r.op \in {"update_item", "delete_item"} /\ c.id = r.item
      BY <2>1, <2>3 DEF Aimed
    <2>4. CASE r.op = "delete_pantry_item" /\ c.from_pantry = r.item /\ c.from_pantry # NoItem
      BY <2>1, <2>4 DEF Aimed
    <2> QED
      BY <1>1, <2>2, <2>3, <2>4, ItemsGone
  <1>2. ASSUME NEW q \in s.pantry \ t.pantry
        PROVE  \/ meant(q.list, "pantry", q.item)
               \/ \E c \in s.content \ t.content : c.from_pantry = q.item
    <2>1. CASE r.op \in {"set_pantry_item", "delete_pantry_item"} /\ q.list = r.list
                 /\ q.item = r.item
      BY <2>1 DEF Aimed
    <2> QED
      BY <1>2, <2>1, PantryGone
  <1>3. ASSUME NEW l \in s.lists \ t.lists
        PROVE  IF l.id \in ListIds(t) THEN told(l.id, {"public set", "public remove"})
               ELSE told(l.id, {"delete"})
    BY <1>3, ListsGone DEF Aimed
  <1>4. ASSUME NEW x \in s.sharing \ t.sharing
        PROVE  told(x.list, {"share delete", "share delete all", "delete"})
    <2>1. r.op \in {"delete_list", "unshare", "delete_shares"} /\ x.list = r.list
      BY <1>4, SharesGone
    <2> QED
      BY <2>1 DEF Aimed
  <1> HIDE DEF t
  <1> QED
    BY <1>1, <1>2, <1>3, <1>4 DEF ChosenGoes, t

LEMMA ChosenServed ==
  ASSUME TypeInv, ChosenInv, NEW c \in Callers, Serve(c)
  PROVE  ChosenGoes(store, store')
  <1> DEFINE r == call[c].req
  <1>1. store \in Store
    BY DEF TypeInv, ClientInv
  <1>2. call[c] # Free /\ (store' = store \/ \E i \in Nat \ {0} : store' = Effect(r, store, i))
    BY ServeKeeps DEF TypeInv, SentCall, Free
  <1>3. CASE store' = store
    BY <1>3 DEF ChosenGoes
  <1>4. ASSUME NEW i, store' = Effect(r, store, i) PROVE ChosenGoes(store, store')
    <2>1. CASE c \in Slots
      BY <1>1, <1>2, <1>4, <2>1, AimedGoes DEF ChosenInv, PageChosen
    <2>2. CASE c = Shell
      <3>1. step \in {"search", "read", "act"}
        BY <1>2, <2>2 DEF TypeInv, ShellInv
      <3>2. Aimed(r, chosen)
        BY <2>2, <3>1 DEF ChosenInv, ShellChosen, Aimed
      <3> QED
        BY <1>1, <1>4, <3>2, AimedGoes
    <2> QED
      BY <2>1, <2>2, CallersAssumption
  <1> QED
    BY <1>2, <1>3, <1>4

\* Nothing is lost or changed that nobody meant: each request under way is about
\* what its user chose, however the answers it goes by came about.
THEOREM NothingElseGoes == Spec => OnlyChosen
  <1>1. HouseholdInit => ChosenInv
    <2> SUFFICES ASSUME HouseholdInit PROVE ChosenInv
      OBVIOUS
    <2>1. step = "none" /\ \A c \in Slots : call[c] = Free
      BY CallersAssumption DEF HouseholdInit, Init, ShellInit
    <2> QED
      BY <2>1 DEF ChosenInv, PageChosen, ShellChosen
  <1>2. TypeInv /\ ChosenInv /\ [HouseholdNext]_vars => [ChosenGoes(store, store')]_vars
    <2> SUFFICES ASSUME TypeInv, ChosenInv, HouseholdNext PROVE ChosenGoes(store, store')
      OBVIOUS
    <2>1. CASE store' = store
      BY <2>1 DEF ChosenGoes
    <2>2. ASSUME NEW c \in Callers, Serve(c) PROVE ChosenGoes(store, store')
      BY <2>2, ChosenServed
    <2>3. Slots \subseteq Callers /\ Shell \in Callers
      BY CallersAssumption
    <2>4. CASE Close \/ NotANumber
      BY <2>1, <2>4 DEF Close, NotANumber
    <2>5. CASE (\E l \in Links : Choose(l)) /\ UNCHANGED shellVars
      BY <2>1, <2>5, ChooseType
    <2>6. ASSUME NEW c \in Slots, PageMoves(c), UNCHANGED shellVars
          PROVE  ChosenGoes(store, store')
      BY <2>1, <2>2, <2>3, <2>6, PressedType, AskAgainType, FinishType DEF PageMoves, ServePage
    <2>7. CASE (Type \/ OnSearch \/ OnRead \/ OnAct) /\ UNCHANGED pageVars
      BY <2>1, <2>7, ShellMoves
    <2>8. CASE ServeShell
      BY <2>2, <2>3, <2>8 DEF ServeShell
    <2> QED
      BY <2>4, <2>5, <2>6, <2>7, <2>8, Moves
  <1>3. [ChosenGoes(store, store')]_vars =>
          [LET meant(l, kind, n) == <<l, <<kind, n>>>> \in chosen
               told(l, kinds) == \E do \in kinds : meant(l, do, NoItem)
           IN
           /\ \A c \in store.content \ store'.content :
                \/ meant(c.list, "item", c.id) \/ told(c.list, {"delete"})
                \/ c.from_pantry # NoItem /\ meant(c.list, "pantry", c.from_pantry)
           /\ \A q \in store.pantry \ store'.pantry :
                \/ meant(q.list, "pantry", q.item)
                \/ \E c \in store.content \ store'.content : c.from_pantry = q.item
           /\ \A l \in store.lists \ store'.lists :
                IF l.id \in ListIds(store') THEN told(l.id, {"public set", "public remove"})
                ELSE told(l.id, {"delete"})
           /\ \A t \in store.sharing \ store'.sharing :
                told(t.list, {"share delete", "share delete all", "delete"})]_vars
    BY DEF ChosenGoes
  <1> QED
    BY <1>1, <1>2, <1>3, ChosenStep, TypesKept, PTL DEF Spec, OnlyChosen

=============================================================================

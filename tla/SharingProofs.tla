---------------------------- MODULE SharingProofs ---------------------------
(***************************************************************************)
(* What the side bar and the sharing dialog show and do, for any number of *)
(* accounts, lists, jobs and clicks: the types, the side bar is true at    *)
(* rest, an update ends in the shares that were shown, and the dialog      *)
(* takes a list from nobody without a click.                               *)
(***************************************************************************)
EXTENDS SharingDialog, ClientProofs

---------------------------------------------------------------------------
(***************************************************************************)
(* Types.                                                                  *)
(***************************************************************************)
DialogRequest ==
  {r \in Request : r.user = Me /\ r.op \in {"get_shares", "share_list", "unshare"}}

HomeRecord == [entered : BOOLEAN, lists : SUBSET ListRow, selected : Links \cup {NoList},
               public : BOOLEAN, error : BOOLEAN]
HomeOK == home \in HomeRecord

ErrandsOK ==
  /\ errand \in [HomeSlots -> {Nothing, "show", "lists", "leave", "toggled"}]
  /\ \A c \in HomeSlots : errand[c] = Nothing <=> call[c] = Free

\* Nobody has two marks.
MarksOK ==
  /\ dialog \in [there : BOOLEAN, shares : SUBSET ShareInfo, updates : SUBSET ShareInfo,
                 deleted : SUBSET Accounts]
  /\ \A u, v \in dialog.updates : u.shared = v.shared => u = v
  /\ \A u \in dialog.updates : u.shared \notin dialog.deleted
  /\ clicked \subseteq Accounts /\ marked \subseteq Nat \X Accounts

\* A job has something under way or still to do.
JobsOK ==
  /\ job \in [ShareSlots -> [live : BOOLEAN, todo : Seq(DialogRequest)]]
  /\ \A c \in ShareSlots : job[c] # NoJob => call[c] # Free \/ Todo(c) # <<>>
  /\ \A c \in ShareSlots : call[c] # Free => call[c].req \in DialogRequest

FlagsOK == clicks \in 0 .. MaxClicks /\ current \in BOOLEAN /\ quiet \in BOOLEAN
             /\ others \in 0 .. MaxOthers

TypeInv ==
  /\ ClientInv /\ HomeOK /\ ErrandsOK /\ MarksOK /\ JobsOK /\ FlagsOK
  /\ dialog.there <=> Selected(home) # {}

\* The slots of Home and those of the dialog.
LEMMA Slots ==
  /\ HomeSlots \subseteq Callers /\ ShareSlots \subseteq Callers
  /\ \A c \in HomeSlots : c \notin ShareSlots
  BY SlotsAssumption

\* The requests of a dialog.
LEMMA DialogRequests ==
  ASSUME NEW l \in Nat, NEW a \in Accounts, NEW b \in BOOLEAN
  PROVE  /\ GetShares(Me, l) \in DialogRequest /\ Share(Me, l, a, b) \in DialogRequest
         /\ UnshareWith(Me, l, a) \in DialogRequest
         /\ GetShares(Me, l).op = "get_shares"
         /\ LET r == Share(Me, l, a, b) IN
              r.op = "share_list" /\ r.list = l /\ r.with = a /\ r.readonly = b
         /\ LET r == UnshareWith(Me, l, a) IN r.op = "unshare" /\ r.list = l /\ r.with = a
  <1>1. Me \in Accounts
    BY HomeAssumption
  <1>2. GetShares(Me, l) \in DialogRequest /\ GetShares(Me, l).op = "get_shares"
    BY <1>1, AskType DEF DialogRequest, GetShares, Ask, Operations
  <1>3. LET r == Share(Me, l, a, b) IN
          /\ r \in DialogRequest
          /\ r.op = "share_list" /\ r.list = l /\ r.with = a /\ r.readonly = b
    BY <1>1 DEF DialogRequest, Share, Ask, Request, Operations, NoItem, Amount
  <1>4. LET r == UnshareWith(Me, l, a) IN
          r \in DialogRequest /\ r.op = "unshare" /\ r.list = l /\ r.with = a
    BY <1>1 DEF DialogRequest, UnshareWith, Ask, Request, Operations, NoItem, Amount
  <1> QED
    BY <1>2, <1>3, <1>4

\* They are sent whole.
LEMMA DialogRequestType ==
  ASSUME NEW r \in DialogRequest
  PROVE  r \in Request /\ Complete(r)
  BY DEF DialogRequest, Complete

---------------------------------------------------------------------------
(***************************************************************************)
(* Home.                                                                   *)
(***************************************************************************)
\* Drawing changes a box.
LEMMA DrawnType ==
  ASSUME NEW h \in HomeRecord
  PROVE  /\ Drawn(h) \in HomeRecord /\ Selected(Drawn(h)) = Selected(h)
         /\ Drawn(h).lists = h.lists /\ Drawn(h).selected = h.selected
         /\ Drawn(h).entered = h.entered
  <1>1. (\E l \in Owned(h) : l.pub) \in BOOLEAN
    OBVIOUS
  <1> DEFINE box == \E l \in Owned(h) : l.pub
  <1>2. Drawn(h) = [h EXCEPT !.public = box]
    BY DEF Drawn
  <1> HIDE DEF box
  <1>3. box \in BOOLEAN
    BY <1>1 DEF box
  <1>4. /\ Drawn(h) \in HomeRecord /\ Drawn(h).lists = h.lists
        /\ Drawn(h).selected = h.selected /\ Drawn(h).entered = h.entered
    BY <1>2, <1>3 DEF HomeRecord
  <1> QED
    BY <1>4 DEF Selected

\* The slots of Home are not those of the dialog.
OwnCalls == \A c \in ShareSlots : call'[c] = call[c]

\* An errand goes on.
LEMMA ErrandType ==
  ASSUME TypeInv, NEW c \in HomeSlots, NEW r \in Request, Complete(r),
         NEW then \in {"show", "lists", "leave", "toggled"},
         Send(c, r) \/ SendNext(c, r), errand' = [errand EXCEPT ![c] = then], UNCHANGED next
  PROVE  ClientInv' /\ ErrandsOK' /\ OwnCalls /\ UNCHANGED store
  <1>1. c \in Callers /\ c \notin ShareSlots
    BY Slots
  <1>2. ClientInv' /\ UNCHANGED store /\ call' = [call EXCEPT ![c] = Asked(r)]
    BY <1>1, SendKeeps DEF TypeInv
  <1>3. call \in [Callers -> {Free} \cup SentCall \cup AnsweredCall]
    BY DEF TypeInv, ClientInv, CallsOK
  <1>4. call'[c] # Free /\ \A d \in Callers \ {c} : call'[d] = call[d]
    BY <1>1, <1>2, <1>3 DEF Asked, Free
  <1>5. OwnCalls
    BY <1>1, <1>4, Slots DEF OwnCalls
  <1>6. ErrandsOK'
    BY <1>4, Slots DEF TypeInv, ErrandsOK, Nothing
  <1> QED
    BY <1>2, <1>5, <1>6

\* An errand ends.
LEMMA ErrandEnds ==
  ASSUME TypeInv, NEW c \in HomeSlots, Leave(c), errand' = [errand EXCEPT ![c] = Nothing],
         UNCHANGED next
  PROVE  ClientInv' /\ ErrandsOK' /\ OwnCalls /\ UNCHANGED store
  <1>1. c \in Callers /\ c \notin ShareSlots
    BY Slots
  <1>2. ClientInv' /\ UNCHANGED store /\ call' = [call EXCEPT ![c] = Free]
    BY <1>1, LeaveKeeps DEF TypeInv
  <1>3. call \in [Callers -> {Free} \cup SentCall \cup AnsweredCall]
    BY DEF TypeInv, ClientInv, CallsOK
  <1>4. call'[c] = Free /\ \A d \in Callers \ {c} : call'[d] = call[d]
    BY <1>1, <1>2, <1>3
  <1>5. OwnCalls
    BY <1>1, <1>4, Slots DEF OwnCalls
  <1>6. ErrandsOK'
    BY <1>4, Slots DEF TypeInv, ErrandsOK, Nothing
  <1> QED
    BY <1>2, <1>5, <1>6

\* Home's requests.
LEMMA HomeRequests ==
  ASSUME NEW n \in Names
  PROVE  CreateList(Me, n) \in Request /\ Complete(CreateList(Me, n))
  <1>1. Ask("create_list", Me, 0) \in Request /\ Ask("create_list", Me, 0).op = "create_list"
    <2>1. Me \in Accounts /\ 0 \in Nat /\ "create_list" \in Operations
      BY HomeAssumption DEF Operations
    <2> QED
      BY <2>1, AskType DEF Ask
  <1> QED
    BY <1>1, NullAssumption DEF CreateList, Complete, Request

LEMMA SelectedRequests ==
  ASSUME NEW l \in Nat
  PROVE  \A r \in {Lists(Me), DeleteList(Me, l), SetPublic(Me, l), RemovePublic(Me, l)} :
           r \in Request /\ Complete(r)
  <1>1. Me \in Accounts /\ 0 \in Nat
    BY HomeAssumption
  <1> QED
    BY <1>1, AskType DEF Operations, Lists, DeleteList, SetPublic, RemovePublic

\* The types of Home.
HomeTyped ==
  /\ ClientInv /\ HomeOK /\ ErrandsOK
  /\ clicks \in 0 .. MaxClicks /\ current \in BOOLEAN

\* The selected list is a number.
LEMMA SelectedType ==
  ASSUME NEW h \in HomeRecord
  PROVE  h.selected \in Nat
  <1>1. h.selected \in Links \/ h.selected = 0
    BY DEF HomeRecord, NoList
  <1>2. h.selected \in Links => h.selected \in Nat
    BY HomeAssumption
  <1> QED
    BY <1>1, <1>2

\* A click is counted.
LEMMA ClickType ==
  ASSUME TypeInv, Click
  PROVE  clicks' \in 0 .. MaxClicks /\ home.entered
  BY HomeAssumption DEF TypeInv, FlagsOK, Click

\* Steps that only change what is on the screen.
LEMMA DrawingType ==
  ASSUME TypeInv, home' \in HomeRecord, clicks' \in 0 .. MaxClicks,
         UNCHANGED <<store, call, next, errand, current>>
  PROVE  HomeTyped' /\ OwnCalls /\ UNCHANGED store
  BY DEF TypeInv, HomeTyped, FlagsOK, HomeOK, ErrandsOK, OwnCalls, ClientInv, ReferencesHold,
         CallsOK, ListIds, PantryItems

\* A click that sends a request.
LEMMA RunType ==
  ASSUME TypeInv, NEW c \in HomeSlots, NEW r \in Request, Complete(r),
         NEW then \in {"show", "lists", "leave", "toggled"}, Click, Run(c, r, then),
         UNCHANGED home
  PROVE  HomeTyped' /\ OwnCalls /\ UNCHANGED store
  <1>1. ClientInv' /\ ErrandsOK' /\ OwnCalls /\ UNCHANGED store
    BY ErrandType DEF Run
  <1>2. clicks' \in 0 .. MaxClicks
    BY ClickType
  <1>3. current' = (current /\ AtHome)
    BY DEF Run
  <1>4. current' \in BOOLEAN
    BY <1>3
  <1> QED
    BY <1>1, <1>2, <1>4 DEF HomeTyped, TypeInv, HomeOK

\* What Home does keeps its types, and does not touch the requests of the dialog.
LEMMA HomeType ==
  ASSUME TypeInv, HomeNext
  PROVE  HomeTyped' /\ OwnCalls /\ UNCHANGED <<store, next>>
  <1>0. home \in HomeRecord /\ home.selected \in Nat /\ 0 \in Nat /\ Links \subseteq Nat
    BY SelectedType, HomeAssumption DEF TypeInv, HomeOK
  <1>1. CASE TogglePublic
    <2>1. home' \in HomeRecord
      BY <1>0, <1>1 DEF TogglePublic, HomeRecord
    <2> QED
      BY <1>1, <2>1, ClickType, DrawingType DEF TogglePublic
  <1>2. CASE DismissError
    <2>1. [home EXCEPT !.error = FALSE] \in HomeRecord
      BY <1>0 DEF HomeRecord
    <2>2. home' \in HomeRecord /\ clicks' \in 0 .. MaxClicks
      BY <1>2, <2>1, DrawnType DEF DismissError, TypeInv, FlagsOK
    <2> QED
      BY <1>2, <2>2, DrawingType DEF DismissError
  <1>3. ASSUME NEW l \in Links, Select(l) PROVE HomeTyped' /\ OwnCalls /\ UNCHANGED <<store, next>>
    <2>1. [home EXCEPT !.selected = l] \in HomeRecord
      BY <1>0 DEF HomeRecord
    <2>2. home' \in HomeRecord
      BY <1>3, <2>1, DrawnType DEF Select
    <2> QED
      BY <1>3, <2>2, ClickType, DrawingType DEF Select
  <1>4. ASSUME NEW c \in HomeSlots, Enter(c) PROVE HomeTyped' /\ OwnCalls /\ UNCHANGED <<store, next>>
    <2>1. PICK l \in Links \cup {NoList} : home' = [home EXCEPT !.entered = TRUE, !.selected = l]
      BY <1>4 DEF Enter
    <2>2. home' \in HomeRecord
      BY <1>0, <2>1 DEF HomeRecord
    <2>3. Lists(Me) \in Request /\ Complete(Lists(Me))
      <3>1. Me \in Accounts /\ "list_lists" \in Operations
        BY HomeAssumption DEF Operations
      <3> QED
        BY <1>0, <3>1, AskType DEF Lists
    <2>4. ClientInv' /\ ErrandsOK' /\ OwnCalls /\ UNCHANGED store
      BY <1>4, <2>3, ErrandType DEF Enter
    <2> QED
      BY <1>4, <2>2, <2>4 DEF Enter, HomeTyped, HomeOK, TypeInv, FlagsOK
  <1>5. ASSUME NEW c \in HomeSlots, OnNewList(c) PROVE HomeTyped' /\ OwnCalls /\ UNCHANGED <<store, next>>
    <2>1. PICK n \in NewNames : Run(c, CreateList(Me, n), "lists")
      BY <1>5 DEF OnNewList
    <2>2. n \in Names
      BY HomeAssumption
    <2>3. CreateList(Me, n) \in Request /\ Complete(CreateList(Me, n))
      BY <1>0, <2>2, HomeRequests
    <2> QED
      BY <1>5, <2>1, <2>3, RunType DEF OnNewList, Run
  <1>6. ASSUME NEW c \in HomeSlots, OnDeleteList(c)
        PROVE  HomeTyped' /\ OwnCalls /\ UNCHANGED <<store, next>>
    <2>1. DeleteList(Me, home.selected) \in Request /\ Complete(DeleteList(Me, home.selected))
      BY <1>0, SelectedRequests
    <2> QED
      BY <1>6, <2>1, RunType DEF OnDeleteList, Run
  <1>7. ASSUME NEW c \in HomeSlots, UpdateVisibility(c)
        PROVE  HomeTyped' /\ OwnCalls /\ UNCHANGED <<store, next>>
    <2> DEFINE r == IF home.public THEN SetPublic(Me, home.selected)
                    ELSE RemovePublic(Me, home.selected)
    <2>1. r \in Request /\ Complete(r)
      BY <1>0, SelectedRequests
    <2>2. Run(c, r, "toggled") /\ Click /\ UNCHANGED home
      BY <1>7 DEF UpdateVisibility
    <2> HIDE DEF r
    <2> QED
      BY <2>1, <2>2, RunType DEF Run
  <1>8. ASSUME NEW c \in HomeSlots, AskForLists(c)
        PROVE  HomeTyped' /\ OwnCalls /\ UNCHANGED <<store, next>>
    <2>1. Lists(Me) \in Request /\ Complete(Lists(Me))
      BY <1>0, SelectedRequests
    <2>2. ClientInv' /\ ErrandsOK' /\ OwnCalls /\ UNCHANGED store
      BY <1>8, <2>1, ErrandType DEF AskForLists
    <2>3. [home EXCEPT !.selected = NoList] \in HomeRecord
      BY <1>0 DEF HomeRecord
    <2>4. home' \in HomeRecord
      BY <1>0, <1>8, <2>3, DrawnType DEF AskForLists
    <2> QED
      BY <1>8, <2>2, <2>4 DEF AskForLists, HomeTyped, HomeOK, TypeInv, FlagsOK
  <1>9. ASSUME NEW c \in HomeSlots, ShowLists(c)
        PROVE  HomeTyped' /\ OwnCalls /\ UNCHANGED <<store, next>>
    <2>1. ClientInv' /\ ErrandsOK' /\ OwnCalls /\ UNCHANGED store
      BY <1>9, ErrandEnds DEF ShowLists
    <2>2. ASSUME Succeeded(c) PROVE [home EXCEPT !.lists = call[c].rows.lists] \in HomeRecord
      <3>1. call[c].rows \in Store
        BY <2>2, Slots, CallKinds DEF Succeeded, Answered, TypeInv, ClientInv, AnsweredCall
      <3> QED
        BY <1>0, <3>1 DEF HomeRecord, Store
    <2>3. [home EXCEPT !.error = TRUE] \in HomeRecord
      BY <1>0 DEF HomeRecord
    <2>4. home' \in HomeRecord /\ current' \in BOOLEAN
      BY <1>0, <1>9, <2>2, <2>3, DrawnType DEF ShowLists, TypeInv, FlagsOK
    <2> QED
      BY <1>9, <2>1, <2>4 DEF ShowLists, HomeTyped, HomeOK, TypeInv, FlagsOK
  <1> QED
    BY <1>1, <1>2, <1>3, <1>4, <1>5, <1>6, <1>7, <1>8, <1>9 DEF HomeNext

---------------------------------------------------------------------------
(***************************************************************************)
(* The dialog.                                                             *)
(***************************************************************************)
\* A job that has nothing to do and nobody hears of is none.
LEMMA NoJobType ==
  ASSUME NEW j \in [live : BOOLEAN, todo : Seq(DialogRequest)]
  PROVE  j.live = FALSE /\ j.todo = <<>> <=> j = NoJob
  BY DEF NoJob

\* New jobs have something to do.
LEMMA SpawnType ==
  ASSUME JobsOK, NEW todos \in SUBSET Seq(DialogRequest), Spawn(todos), <<>> \notin todos, OwnCalls
  PROVE  JobsOK'
  <1>1. PICK slot \in [todos -> Spare] :
           job' = [c \in ShareSlots |->
                 IF \E t \in todos : slot[t] = c
                 THEN [live |-> TRUE, todo |-> CHOOSE t \in todos : slot[t] = c]
                 ELSE job[c]]
    BY DEF Spawn
  <1>2. ASSUME NEW c \in ShareSlots
        PROVE  \/ \E t \in todos : job'[c] = [live |-> TRUE, todo |-> t]
               \/ job'[c] = job[c]
    <2>1. CASE \E t \in todos : slot[t] = c
      <3> DEFINE new == CHOOSE t \in todos : slot[t] = c
      <3>1. new \in todos
        BY <2>1
      <3>2. job'[c] = [live |-> TRUE, todo |-> new]
        BY <1>1, <2>1
      <3> HIDE DEF new
      <3> QED
        BY <3>1, <3>2
    <2>2. CASE ~ \E t \in todos : slot[t] = c
      BY <1>1, <2>2
    <2> QED
      BY <2>1, <2>2
  <1>3. \A t \in todos : t \in Seq(DialogRequest) /\ t # <<>>
    OBVIOUS
  <1>4. DOMAIN job' = ShareSlots /\ \E f : job' = [c \in ShareSlots |-> f[c]]
    <2>1. job' = [c \in ShareSlots |-> job'[c]]
      BY <1>1
    <2> QED
      BY <2>1
  <1>5. ASSUME NEW c \in ShareSlots
        PROVE  job'[c] \in [live : BOOLEAN, todo : Seq(DialogRequest)]
    <2>1. job[c] \in [live : BOOLEAN, todo : Seq(DialogRequest)]
      BY DEF JobsOK
    <2>2. ASSUME NEW t \in todos
          PROVE  [live |-> TRUE, todo |-> t] \in [live : BOOLEAN, todo : Seq(DialogRequest)]
      BY <1>3
    <2> QED
      BY <1>2, <2>1, <2>2
  <1>6. job' \in [ShareSlots -> [live : BOOLEAN, todo : Seq(DialogRequest)]]
    BY <1>4, <1>5
  <1>7. ASSUME NEW c \in ShareSlots, job'[c] # NoJob PROVE call'[c] # Free \/ job'[c].todo # <<>>
    <2>1. ASSUME NEW t \in todos, job'[c] = [live |-> TRUE, todo |-> t] PROVE job'[c].todo # <<>>
      <3>1. job'[c].todo = t
        BY <2>1
      <3> QED
        BY <1>3, <3>1
    <2>2. job'[c] = job[c] => call'[c] # Free \/ job'[c].todo # <<>>
      BY <1>7 DEF JobsOK, OwnCalls, Todo
    <2> QED
      BY <1>2, <2>1, <2>2
  <1> QED
    BY <1>6, <1>7 DEF JobsOK, OwnCalls, Todo

LEMMA ShareInfoType ==
  ASSUME NEW s \in Store, NEW l
  PROVE  SharesIn(s.sharing) \subseteq ShareInfo /\ SharesIn(OfList(s.sharing, l)) \subseteq ShareInfo
  BY DEF SharesIn, ShareInfo, Store, ShareRow, OfList

\* The marks of a dialog that is not drawn again stay.
MarksKept == UNCHANGED <<dialog, clicked, marked>>

LEMMA MarksStay ==
  ASSUME TypeInv, MarksKept
  PROVE  MarksOK'
  BY DEF TypeInv, MarksOK, MarksKept

\* A dialog that comes up, goes away or follows the selection.
LEMMA FollowType ==
  ASSUME TypeInv, Follow, home' \in HomeRecord, OwnCalls
  PROVE  MarksOK' /\ JobsOK' /\ quiet' \in BOOLEAN /\ (dialog.there <=> Selected(home) # {})'
  <1> DEFINE here == Selected(home') # {}
  <1>0. dialog \in [there : BOOLEAN, shares : SUBSET ShareInfo, updates : SUBSET ShareInfo,
                    deleted : SUBSET Accounts]
    BY DEF TypeInv, MarksOK
  <1>1. CASE here /\ dialog.there /\ UNCHANGED dialogVars
    <2>1. MarksOK' /\ quiet' \in BOOLEAN
      BY <1>1, MarksStay DEF MarksKept, dialogVars, TypeInv, FlagsOK
    <2>2. JobsOK'
      BY <1>1 DEF dialogVars, TypeInv, JobsOK, OwnCalls, Todo
    <2> QED
      BY <1>1, <2>1, <2>2 DEF dialogVars
  <1>2. CASE /\ here
             /\ Spawn({<<GetShares(Me, home'.selected)>>})
             /\ dialog' = [dialog EXCEPT !.there = TRUE]
             /\ quiet' = (Settled /\ Unmarked(dialog))
             /\ UNCHANGED <<clicked, marked>>
    <2>1. MarksOK' /\ dialog'.there = TRUE
      BY <1>0, <1>2 DEF TypeInv, MarksOK
    <2> DEFINE t == <<GetShares(Me, home'.selected)>>
    <2>2. GetShares(Me, home'.selected) \in DialogRequest
      BY SelectedType, DialogRequests, HomeAssumption
    <2>3. {t} \in SUBSET Seq(DialogRequest) /\ <<>> \notin {t}
      BY <2>2
    <2>4. Spawn({t})
      BY <1>2
    <2> HIDE DEF t
    <2>5. JobsOK'
      BY <2>3, <2>4, SpawnType DEF TypeInv
    <2>6. quiet' \in BOOLEAN
      BY <1>2
    <2> QED
      BY <1>2, <2>1, <2>5, <2>6
  <1>3. CASE /\ ~ here
             /\ job' = [c \in ShareSlots |-> [job[c] EXCEPT !.live = FALSE]]
             /\ dialog' = NoDialog /\ quiet' = FALSE
             /\ clicked' = {} /\ UNCHANGED marked
    <2>1. MarksOK' /\ dialog'.there = FALSE
      BY <1>3 DEF NoDialog, MarksOK, TypeInv
    <2>2. ASSUME NEW c \in ShareSlots
          PROVE  /\ job'[c] \in [live : BOOLEAN, todo : Seq(DialogRequest)]
                 /\ job'[c].live = FALSE /\ job'[c].todo = job[c].todo
      BY <1>3 DEF TypeInv, JobsOK
    <2>3. ASSUME NEW c \in ShareSlots, job'[c] # NoJob
          PROVE  call'[c] # Free \/ job'[c].todo # <<>>
      <3>1. job[c] = NoJob => job'[c] = NoJob
        BY <2>2, NoJobType DEF NoJob
      <3> QED
        BY <2>2, <2>3, <3>1 DEF TypeInv, JobsOK, OwnCalls, Todo
    <2>4. job' \in [ShareSlots -> [live : BOOLEAN, todo : Seq(DialogRequest)]]
      BY <1>3, <2>2
    <2>5. JobsOK'
      BY <2>3, <2>4 DEF TypeInv, JobsOK, OwnCalls, Todo
    <2> QED
      BY <1>3, <2>1, <2>5
  <1> QED
    BY <1>1, <1>2, <1>3 DEF Follow

LEMMA HomeStepType ==
  ASSUME TypeInv, HomeStep, UNCHANGED others
  PROVE  TypeInv'
  <1>1. HomeTyped' /\ OwnCalls
    BY HomeType DEF HomeStep
  <1>2. MarksOK' /\ JobsOK' /\ quiet' \in BOOLEAN /\ (dialog.there <=> Selected(home) # {})'
    BY <1>1, FollowType DEF HomeStep, HomeTyped, HomeOK
  <1> QED
    BY <1>1, <1>2 DEF TypeInv, HomeTyped, FlagsOK

\* The rows of the dialog.
LEMMA ShownType ==
  ASSUME TypeInv, NEW i \in Shown
  PROVE  /\ i \in ShareInfo /\ i.shared \notin dialog.deleted
         /\ \E x \in dialog.shares : x.shared = i.shared
  BY DEF Shown, Row, TypeInv, MarksOK

\* Clicks that mark.
LEMMA MarkType ==
  ASSUME TypeInv, NEW a \in Accounts, NEW updates \in SUBSET ShareInfo,
         NEW deleted \in SUBSET Accounts, Mark(a, updates, deleted), UNCHANGED others,
         \A u, v \in updates : u.shared = v.shared => u = v,
         \A u \in updates : u.shared \notin deleted
  PROVE  TypeInv'
  <1>1. MarksOK' /\ dialog'.there = dialog.there
    BY DEF TypeInv, MarksOK, Mark
  <1>2. clicks' \in 0 .. MaxClicks
    BY ClickType DEF Mark
  <1>3. UNCHANGED <<store, call, next, home, errand, current, job, others>>
    BY DEF Mark, homeVars
  <1>4. ClientInv'
    BY <1>3 DEF TypeInv, ClientInv, ReferencesHold, CallsOK, ListIds, PantryItems
  <1>5. HomeOK' /\ ErrandsOK' /\ JobsOK'
    BY <1>3 DEF TypeInv, HomeOK, ErrandsOK, JobsOK, Todo
  <1>6. quiet' \in BOOLEAN
    BY DEF Mark
  <1> QED
    BY <1>1, <1>2, <1>3, <1>4, <1>5, <1>6 DEF TypeInv, FlagsOK

LEMMA ClickOnRowType ==
  ASSUME TypeInv, NEW i \in Shown, Delete(i) \/ SetWriteReadonly(i), UNCHANGED others
  PROVE  TypeInv'
  <1>1. i \in ShareInfo /\ i.shared \in Accounts /\ i.shared \notin dialog.deleted
    BY ShownType DEF ShareInfo
  <1>2. /\ dialog.updates \subseteq ShareInfo /\ dialog.deleted \subseteq Accounts
        /\ \A u, v \in dialog.updates : u.shared = v.shared => u = v
        /\ \A u \in dialog.updates : u.shared \notin dialog.deleted
    BY DEF TypeInv, MarksOK
  <1> DEFINE kept == dialog.updates \ Row(dialog.updates, i.shared)
  <1>3. kept \subseteq dialog.updates /\ \A u \in kept : u.shared # i.shared
    BY DEF Row
  <1>4. CASE Delete(i)
    <2>1. Mark(i.shared, kept, dialog.deleted \cup {i.shared})
      BY <1>4 DEF Delete
    <2> HIDE DEF kept
    <2> QED
      BY <1>1, <1>2, <1>3, <2>1, MarkType
  <1>5. CASE SetWriteReadonly(i)
    <2> DEFINE other == [i EXCEPT !.readonly = ~ @]
    <2>1. other \in ShareInfo /\ other.shared = i.shared
      BY <1>1 DEF ShareInfo
    <2>2. Mark(i.shared, kept \cup {other}, dialog.deleted)
      BY <1>5 DEF SetWriteReadonly
    <2> HIDE DEF kept, other
    <2> QED
      BY <1>1, <1>2, <1>3, <2>1, <2>2, MarkType
  <1> QED
    BY <1>4, <1>5

\* Marks that are dropped.
LEMMA ClearType ==
  ASSUME TypeInv, dialog' = [dialog EXCEPT !.deleted = {}, !.updates = {}], clicked' = {},
         marked' \in SUBSET (Nat \X Accounts)
  PROVE  MarksOK' /\ dialog'.there = dialog.there
  BY DEF TypeInv, MarksOK

LEMMA CancelType ==
  ASSUME TypeInv, Cancel, UNCHANGED others
  PROVE  TypeInv'
  <1>1. UNCHANGED <<store, call, next, home, errand, current, clicks, job, quiet, marked>>
    BY DEF Cancel, homeVars
  <1>2. MarksOK' /\ dialog'.there = dialog.there
    BY <1>1, ClearType DEF Cancel, Clear, TypeInv, MarksOK
  <1>3. ClientInv'
    BY <1>1 DEF TypeInv, ClientInv, ReferencesHold, CallsOK, ListIds, PantryItems
  <1>4. HomeOK' /\ ErrandsOK' /\ JobsOK'
    BY <1>1 DEF TypeInv, HomeOK, ErrandsOK, JobsOK, Todo
  <1> QED
    BY <1>1, <1>2, <1>3, <1>4 DEF TypeInv, FlagsOK

\* Two requests, one after the other.
LEMMA TwoRequests ==
  ASSUME NEW r1 \in DialogRequest, NEW r2 \in DialogRequest
  PROVE  <<r1, r2>> \in Seq(DialogRequest) /\ <<r1, r2>> # <<>>
  OBVIOUS

\* Clicks that start jobs.
LEMMA StartType ==
  ASSUME TypeInv, NEW todos \in SUBSET Seq(DialogRequest), Spawn(todos), <<>> \notin todos, Click,
         MarksOK', dialog'.there = dialog.there, quiet' \in BOOLEAN,
         UNCHANGED <<store, call, next, homeVars, others>>
  PROVE  TypeInv'
  <1>1. UNCHANGED <<home, errand, current>>
    BY DEF homeVars
  <1>2. ClientInv'
    BY DEF TypeInv, ClientInv, ReferencesHold, CallsOK, ListIds, PantryItems
  <1>3. HomeOK' /\ ErrandsOK'
    BY <1>1 DEF TypeInv, HomeOK, ErrandsOK
  <1>4. JobsOK'
    BY SpawnType DEF OwnCalls, TypeInv
  <1>5. clicks' \in 0 .. MaxClicks
    BY ClickType
  <1> QED
    BY <1>1, <1>2, <1>3, <1>4, <1>5 DEF TypeInv, FlagsOK

\* The requests of an update.
Removals == {<<UnshareWith(Me, home.selected, a), GetShares(Me, home.selected)>> :
               a \in dialog.deleted}
Changes == {UnshareThenShare(u) : u \in dialog.updates \ dialog.shares}

LEMMA CommitType ==
  ASSUME TypeInv, Commit, UNCHANGED others
  PROVE  TypeInv'
  <1>1. home.selected \in Nat
    BY SelectedType DEF TypeInv, HomeOK
  <1>2. /\ dialog.updates \subseteq ShareInfo /\ dialog.deleted \subseteq Accounts
        /\ clicked \subseteq Accounts /\ marked \subseteq Nat \X Accounts
    BY DEF TypeInv, MarksOK
  <1>3. Removals \cup Changes \in SUBSET Seq(DialogRequest) /\ <<>> \notin Removals \cup Changes
    <2>1. ASSUME NEW t \in Removals PROVE t \in Seq(DialogRequest) /\ t # <<>>
      <3>1. PICK a \in dialog.deleted :
              t = <<UnshareWith(Me, home.selected, a), GetShares(Me, home.selected)>>
        BY <2>1 DEF Removals
      <3>2. UnshareWith(Me, home.selected, a) \in DialogRequest
              /\ GetShares(Me, home.selected) \in DialogRequest
        BY <1>1, <1>2, DialogRequests
      <3> QED
        BY <3>1, <3>2
    <2>2. ASSUME NEW t \in Changes PROVE t \in Seq(DialogRequest) /\ t # <<>>
      <3>1. PICK u \in dialog.updates : t = UnshareThenShare(u)
        BY <2>2 DEF Changes
      <3>2. u.shared \in Accounts /\ u.readonly \in BOOLEAN
        BY <1>2 DEF ShareInfo
      <3>3. /\ UnshareWith(Me, home.selected, u.shared) \in DialogRequest
            /\ Share(Me, home.selected, u.shared, u.readonly) \in DialogRequest
            /\ GetShares(Me, home.selected) \in DialogRequest
        BY <1>1, <3>2, DialogRequests
      <3> QED
        BY <3>1, <3>3 DEF UnshareThenShare
    <2> QED
      BY <2>1, <2>2
  <1>4. Spawn(Removals \cup Changes)
    BY DEF Commit, Removals, Changes
  <1>5. marked' \in SUBSET (Nat \X Accounts)
    BY <1>1, <1>2 DEF Commit
  <1>6. MarksOK' /\ dialog'.there = dialog.there
    BY <1>5, ClearType DEF Commit
  <1>7. quiet' \in BOOLEAN
    BY DEF Commit
  <1> QED
    BY <1>3, <1>4, <1>6, <1>7, StartType DEF Commit

LEMMA AddShareType ==
  ASSUME TypeInv, AddShare, UNCHANGED others
  PROVE  TypeInv'
  <1>1. home.selected \in Nat
    BY SelectedType DEF TypeInv, HomeOK
  <1>2. PICK a \in Accounts :
          Spawn({<<Share(Me, home.selected, a, FALSE), GetShares(Me, home.selected)>>})
    BY AlikeAssumption DEF AddShare
  <1> DEFINE t == <<Share(Me, home.selected, a, FALSE), GetShares(Me, home.selected)>>
  <1>3. Share(Me, home.selected, a, FALSE) \in DialogRequest
          /\ GetShares(Me, home.selected) \in DialogRequest
    BY <1>1, DialogRequests
  <1>4. t \in Seq(DialogRequest) /\ t # <<>>
    BY <1>3, TwoRequests
  <1>5. Spawn({t})
    BY <1>2
  <1> HIDE DEF t
  <1>6. MarksOK' /\ dialog'.there = dialog.there
    BY MarksStay DEF AddShare, MarksKept
  <1>7. quiet' \in BOOLEAN
    BY DEF AddShare
  <1>8. {t} \in SUBSET Seq(DialogRequest) /\ <<>> \notin {t}
    BY <1>4
  <1> QED
    BY <1>8, <1>5, <1>6, <1>7, StartType DEF AddShare

\* A job sends what it had to do next.
LEMMA AskNextType ==
  ASSUME TypeInv, NEW c \in ShareSlots, AskNext(c), UNCHANGED others
  PROVE  TypeInv'
  <1> DEFINE r == Head(Todo(c))
  <1>0. c \in Callers /\ c \notin HomeSlots
    BY Slots
  <1>1. Todo(c) \in Seq(DialogRequest) /\ Todo(c) # <<>>
    BY DEF TypeInv, JobsOK, Todo, AskNext
  <1>2. r \in DialogRequest /\ Tail(Todo(c)) \in Seq(DialogRequest)
    BY <1>1, HeadTailProperties
  <1>3. (Send(c, r) \/ SendNext(c, r)) /\ UNCHANGED <<next, home, errand, current, clicks>>
    BY DEF AskNext, homeVars
  <1>4. /\ job' = [job EXCEPT ![c].todo = Tail(Todo(c))] /\ UNCHANGED <<dialog, clicked, marked>>
        /\ quiet' \in BOOLEAN
    BY DEF AskNext, Todo, TypeInv, FlagsOK
  <1> HIDE DEF r
  <1>5. ClientInv' /\ UNCHANGED store /\ call' = [call EXCEPT ![c] = Asked(r)]
    BY <1>0, <1>2, <1>3, SendKeeps, DialogRequestType DEF TypeInv
  <1>6. call \in [Callers -> {Free} \cup SentCall \cup AnsweredCall]
    BY DEF TypeInv, ClientInv, CallsOK
  <1>7. call'[c] # Free /\ call'[c].req = r /\ \A d \in Callers \ {c} : call'[d] = call[d]
    BY <1>0, <1>5, <1>6 DEF Asked, Free
  <1>8. HomeOK' /\ ErrandsOK'
    BY <1>0, <1>3, <1>7, Slots DEF TypeInv, HomeOK, ErrandsOK
  <1>9. JobsOK'
    <2>1. job' \in [ShareSlots -> [live : BOOLEAN, todo : Seq(DialogRequest)]]
      BY <1>2, <1>4 DEF TypeInv, JobsOK
    <2>2. \A d \in ShareSlots \ {c} : job'[d] = job[d]
      BY <1>4 DEF TypeInv, JobsOK
    <2> QED
      BY <1>2, <1>7, <2>1, <2>2, Slots DEF TypeInv, JobsOK, Todo
  <1>10. MarksOK'
    BY <1>4, MarksStay DEF MarksKept
  <1> QED
    BY <1>3, <1>4, <1>5, <1>8, <1>9, <1>10 DEF TypeInv, FlagsOK

\* The shares that came.
LEMMA SetSharesType ==
  ASSUME TypeInv, NEW c \in ShareSlots, SetShares(c), UNCHANGED <<clicked, marked>>
  PROVE  MarksOK' /\ dialog'.there = dialog.there /\ quiet' \in BOOLEAN
  <1>1. ASSUME NEW infos \in SUBSET ShareInfo, dialog' = [dialog EXCEPT !.shares = infos]
        PROVE  MarksOK' /\ dialog'.there = dialog.there
    BY <1>1 DEF TypeInv, MarksOK
  <1>2. ASSUME Succeeded(c) PROVE SharesIn(call[c].rows.sharing) \subseteq ShareInfo
    <2>1. call[c].rows \in Store
      BY <1>2, Slots, CallKinds DEF Succeeded, Answered, TypeInv, ClientInv, AnsweredCall
    <2> QED
      BY <2>1, ShareInfoType
  <1> QED
    BY <1>1, <1>2 DEF SetShares, TypeInv, FlagsOK

LEMMA FinishType ==
  ASSUME TypeInv, NEW c \in ShareSlots, Finish(c), UNCHANGED others
  PROVE  TypeInv'
  <1>0. c \in Callers /\ c \notin HomeSlots
    BY Slots
  <1>1. UNCHANGED <<next, home, errand, current, clicks, clicked, marked>>
    BY DEF Finish, homeVars
  <1>2. ClientInv' /\ UNCHANGED store /\ call' = [call EXCEPT ![c] = Free]
    BY <1>0, <1>1, LeaveKeeps DEF Finish, TypeInv
  <1>3. call \in [Callers -> {Free} \cup SentCall \cup AnsweredCall]
    BY DEF TypeInv, ClientInv, CallsOK
  <1>4. call'[c] = Free /\ \A d \in Callers \ {c} : call'[d] = call[d]
    BY <1>0, <1>2, <1>3
  <1>5. HomeOK' /\ ErrandsOK'
    BY <1>0, <1>1, <1>4, Slots DEF TypeInv, HomeOK, ErrandsOK
  <1>6. job' = [job EXCEPT ![c] = NoJob]
    BY DEF Finish
  <1>7. JobsOK'
    <2>1. NoJob \in [live : BOOLEAN, todo : Seq(DialogRequest)]
      BY DEF NoJob
    <2>2. job' \in [ShareSlots -> [live : BOOLEAN, todo : Seq(DialogRequest)]]
      BY <1>6, <2>1 DEF TypeInv, JobsOK
    <2>3. job'[c] = NoJob /\ \A d \in ShareSlots \ {c} : job'[d] = job[d]
      BY <1>6 DEF TypeInv, JobsOK
    <2> QED
      BY <1>4, <2>2, <2>3, Slots DEF TypeInv, JobsOK, Todo
  <1>8. MarksOK' /\ dialog'.there = dialog.there /\ quiet' \in BOOLEAN
    <2>1. CASE UNCHANGED <<dialog, quiet>>
      BY <1>1, <2>1, MarksStay DEF MarksKept, TypeInv, FlagsOK
    <2>2. CASE SetShares(c)
      BY <1>1, <2>2, SetSharesType
    <2>3. CASE quiet' = FALSE /\ UNCHANGED dialog
      BY <1>1, <2>3, MarksStay DEF MarksKept
    <2> QED
      BY <2>1, <2>2, <2>3 DEF Finish
  <1> QED
    BY <1>1, <1>2, <1>5, <1>7, <1>8 DEF TypeInv, FlagsOK

\* The server answers.
LEMMA ServedType ==
  ASSUME TypeInv, NEW c \in Callers, Serve(c),
         UNCHANGED <<homeVars, clicks, dialog, job, clicked, marked, others>>, quiet' \in BOOLEAN
  PROVE  TypeInv'
  <1>1. UNCHANGED <<home, errand, current>>
    BY DEF homeVars
  <1>2. /\ ClientInv' /\ \A d \in Callers \ {c} : call'[d] = call[d]
        /\ call[c] \in SentCall /\ Answered(c)' /\ call'[c].req = call[c].req
    BY ServeKeeps DEF TypeInv
  <1>3. call[c] # Free /\ call'[c] # Free
    BY <1>2 DEF SentCall, Answered, Free
  <1>4. HomeOK' /\ ErrandsOK'
    BY <1>1, <1>2, <1>3, Slots DEF TypeInv, HomeOK, ErrandsOK
  <1>5. JobsOK'
    BY <1>2, <1>3, Slots DEF TypeInv, JobsOK, Todo
  <1>6. MarksOK'
    BY MarksStay DEF MarksKept
  <1> QED
    BY <1>1, <1>2, <1>4, <1>5, <1>6 DEF TypeInv, FlagsOK

\* Somebody else changes nothing but the stored lists.
LEMMA SomebodyElseType ==
  ASSUME TypeInv, SomebodyElse
  PROVE  TypeInv'
  <1>1. PICK r \in OthersRequests :
          /\ Possible(r, store, Effect(r, store, next))
          /\ store' = Effect(r, store, next) /\ next' = next + IdsUsed(r)
    BY DEF SomebodyElse
  <1>2. r \in Request /\ Complete(r)
    BY OthersAssumption DEF WellFormed, Complete
  <1>3. store' \in Store /\ ReferencesHold(store') /\ next' \in Nat \ {0}
    BY <1>1, <1>2, EffectType DEF TypeInv, ClientInv, Possible, IdsUsed
  <1>4. UNCHANGED <<call, home, errand, clicks, dialog, job, clicked, marked>>
    BY DEF SomebodyElse
  <1>5. quiet' \in BOOLEAN /\ current' \in BOOLEAN /\ others' \in 0 .. MaxOthers
    BY OthersAssumption DEF SomebodyElse, TypeInv, FlagsOK
  <1>6. ClientInv'
    BY <1>3, <1>4 DEF TypeInv, ClientInv, CallsOK, ReferencesHold, ListIds, PantryItems
  <1>7. HomeOK' /\ ErrandsOK' /\ JobsOK' /\ MarksOK'
    BY <1>4 DEF TypeInv, HomeOK, ErrandsOK, JobsOK, MarksOK, Todo
  <1> QED
    BY <1>4, <1>5, <1>6, <1>7 DEF TypeInv, FlagsOK

LEMMA TypeInitially ==
  ASSUME SharingInit
  PROVE  TypeInv
  <1>1. next \in Nat \ {0}
    BY StoreAssumption, FS_CardinalityType DEF SharingInit
  <1>2. store = InitialStore /\ call = [c \in Callers |-> Free]
    BY DEF SharingInit, Init
  <1>3. ClientInv
    <2>1. CallsOK(call)
      BY <1>2 DEF CallsOK
    <2> QED
      BY <1>1, <1>2, <2>1, StoreAssumption DEF ClientInv
  <1>4. home = [entered |-> FALSE, lists |-> {}, selected |-> NoList, public |-> FALSE,
                error |-> FALSE]
    BY DEF SharingInit, HomeInit
  <1>5. HomeOK /\ Selected(home) = {}
    BY <1>4 DEF HomeOK, HomeRecord, Selected
  <1>6. ErrandsOK
    BY <1>2, Slots DEF SharingInit, HomeInit, ErrandsOK
  <1>7. MarksOK /\ dialog.there = FALSE
    BY DEF SharingInit, DialogInit, NoDialog, MarksOK
  <1>8. JobsOK
    <2>1. NoJob \in [live : BOOLEAN, todo : Seq(DialogRequest)]
      BY DEF NoJob
    <2> QED
      BY <1>2, <2>1, Slots DEF SharingInit, DialogInit, JobsOK
  <1>9. FlagsOK
    <2>1. clicks = 0 /\ others = 0 /\ current = FALSE /\ quiet = FALSE
      BY DEF SharingInit, HomeInit, DialogInit
    <2>2. MaxClicks \in Nat
      BY HomeAssumption
    <2>3. MaxOthers \in Nat
      BY OthersAssumption
    <2>4. clicks \in 0 .. MaxClicks /\ others \in 0 .. MaxOthers
      BY <2>1, <2>2, <2>3
    <2>5. current \in BOOLEAN /\ quiet \in BOOLEAN
      BY <2>1
    <2> QED
      BY <2>4, <2>5 DEF FlagsOK
  <1> QED
    BY <1>3, <1>5, <1>6, <1>7, <1>8, <1>9 DEF TypeInv

\* Every step keeps the types.
LEMMA TypeStep ==
  ASSUME TypeInv, [SharingNext]_vars
  PROVE  TypeInv'
  <1>1. CASE UNCHANGED vars
    <2>1. UNCHANGED <<store, call, next, home, errand, current, clicks, dialog, job, quiet,
                      clicked, marked, others>>
      BY <1>1 DEF vars, homeVars, dialogVars
    <2>2. ClientInv'
      BY <2>1 DEF TypeInv, ClientInv, ReferencesHold, CallsOK, ListIds, PantryItems
    <2> QED
      BY <2>1, <2>2 DEF TypeInv, HomeOK, ErrandsOK, JobsOK, MarksOK, FlagsOK, Todo
  <1>2. CASE HomeStep /\ UNCHANGED others
    BY <1>2, HomeStepType
  <1>3. CASE HomeServed /\ UNCHANGED others
    <2>1. PICK c \in HomeSlots : ServeHome(c)
      BY <1>3 DEF HomeServed
    <2>2. quiet' \in BOOLEAN /\ UNCHANGED <<dialog, job, clicked, marked>>
      BY <1>3 DEF HomeServed
    <2> QED
      BY <1>3, <2>1, <2>2, ServedType, Slots DEF ServeHome, homeVars
  <1>4. ASSUME NEW c \in ShareSlots, ServeDialog(c), UNCHANGED others PROVE TypeInv'
    <2>1. quiet' \in BOOLEAN
      BY <1>4 DEF ServeDialog
    <2> QED
      BY <1>4, <2>1, ServedType, Slots DEF ServeDialog
  <1>5. CASE DialogNext /\ UNCHANGED others
    BY <1>4, <1>5, CancelType, CommitType, AddShareType, ClickOnRowType, AskNextType, FinishType
       DEF DialogNext
  <1>6. CASE SomebodyElse
    BY <1>6, SomebodyElseType
  <1> QED
    BY <1>1, <1>2, <1>3, <1>5, <1>6 DEF SharingNext

LEMMA TypesStay == Spec => []TypeInv
  <1> QED
    BY TypeInitially, TypeStep, PTL DEF Spec

\* No mark, job or row of the dialog is of another kind than it shows, nobody is
\* both to lose the list and to get another right, a job that is there has
\* something under way or still to do, and the dialog is there just while the
\* side bar has the selected list (web/src/pages/home/modals/sharing.rs, sidebar.rs).
THEOREM TypeCorrect == Spec => []TypeOK
  <1>1. TypeInv => TypeOK
    <2> SUFFICES ASSUME TypeInv PROVE TypeOK
      OBVIOUS
    <2>1. HomeTypeOK
      BY DEF TypeInv, HomeOK, HomeRecord, ErrandsOK, FlagsOK, HomeTypeOK
    <2>2. \A c \in ShareSlots : job[c] = NoJob \/ call[c] # Free \/ Todo(c) # <<>>
      BY DEF TypeInv, JobsOK
    <2> QED
      BY <2>1, <2>2 DEF TypeInv, ClientInv, MarksOK, FlagsOK, TypeOK
  <1> QED
    BY <1>1, TypesStay, PTL

---------------------------------------------------------------------------
(***************************************************************************)
(* The side bar.                                                           *)
(***************************************************************************)
\* The primary keys of lists and list_sharing.
UniqueKeys(s) ==
  /\ \A k, l \in s.lists : k.id = l.id => k = l
  /\ \A t, u \in s.sharing : t.list = u.list /\ t.shared = u.shared => t = u

\* The service keeps them.
LEMMA KeysKept ==
  ASSUME NEW s \in Store, UniqueKeys(s), NEW r, NEW i, Fresh(r, s, i)
  PROVE  UniqueKeys(Effect(r, s, i))
  <1> DEFINE e == Effect(r, s, i)
  <1>0. UniqueKeys(s)
    OBVIOUS
  <1>1. CASE r.op = "create_list"
    <2> DEFINE l == [id |-> i, owner |-> r.user, name |-> r.name, pub |-> FALSE]
    <2>1. e.lists = s.lists \cup {l} /\ e.sharing = s.sharing /\ l.id = i
      BY <1>1 DEF Effect, Created, Store
    <2>2. \A k \in s.lists : k.id # i
      BY <1>1 DEF Fresh, ListIds
    <2> HIDE DEF e, l
    <2>3. UniqueKeys(e)
      BY <2>1, <2>2 DEF UniqueKeys
    <2> QED
      BY <2>3 DEF e
  <1>2. CASE r.op = "delete_list"
    <2>1. e.lists \subseteq s.lists /\ e.sharing \subseteq s.sharing
      BY <1>2 DEF Effect, Deleted, Store
    <2> HIDE DEF e
    <2>2. UniqueKeys(e)
      BY <2>1 DEF UniqueKeys
    <2> QED
      BY <2>2 DEF e
  <1>3. ASSUME NEW b \in BOOLEAN, e = Published(r, s, b) PROVE UniqueKeys(e)
    <2> DEFINE row(l) == IF l.id = r.list THEN [l EXCEPT !.pub = b] ELSE l
    <2>1. e.lists = {row(l) : l \in s.lists} /\ e.sharing = s.sharing
      BY <1>3 DEF Published, Store
    <2>2. \A l \in s.lists : row(l).id = l.id
      BY DEF Store, ListRow
    <2> HIDE DEF e, row
    <2>3. \A k, l \in e.lists : k.id = l.id => k = l
      BY <2>1, <2>2 DEF UniqueKeys
    <2> QED
      BY <2>1, <2>3 DEF UniqueKeys
  <1>4. CASE r.op = "share_list"
    <2>1. e = Shared(r, s)
      BY <1>4 DEF Effect
    <2>2. CASE SharedWith(s, r.with, r.list)
      <3>1. e = s
        BY <2>1, <2>2 DEF Shared
      <3> HIDE DEF e
      <3>2. UniqueKeys(e)
        BY <3>1
      <3> QED
        BY <3>2 DEF e
    <2>3. CASE ~ SharedWith(s, r.with, r.list)
      <3> DEFINE t == [list |-> r.list, shared |-> r.with, readonly |-> r.readonly]
      <3>1. e.lists = s.lists /\ e.sharing = s.sharing \cup {t}
        BY <2>1, <2>3 DEF Shared, Store
      <3>2. \A u \in s.sharing : ~ (u.list = t.list /\ u.shared = t.shared)
        BY <2>3 DEF SharedWith
      <3> HIDE DEF e, t
      <3>3. UniqueKeys(e)
        BY <3>1, <3>2 DEF UniqueKeys
      <3> QED
        BY <3>3 DEF e
    <2> QED
      BY <2>2, <2>3
  <1>5. CASE r.op \notin {"create_list", "delete_list", "set_public", "remove_public", "share_list"}
    <2>1. e.lists = s.lists
      <3>1. s.lists = Unshared(r, s).lists /\ s.lists = UnsharedAll(r, s).lists
        BY DEF Unshared, UnsharedAll, Store
      <3>2. s.lists = ItemAdded(r, s, i).lists /\ s.lists = ItemUpdated(r, s).lists
        BY DEF ItemAdded, ItemUpdated, Store
      <3>3. s.lists = ItemRemoved(r, s).lists /\ s.lists = PantryAdded(r, s, i).lists
        BY DEF ItemRemoved, PantryAdded, Store
      <3>4. s.lists = PantryUpdated(r, s).lists /\ s.lists = PantryRemoved(r, s).lists
              /\ s.lists = Refilled(r, s, i).lists
        BY DEF PantryUpdated, PantryRemoved, Refilled, Store
      <3> QED
        BY <1>5, <3>1, <3>2, <3>3, <3>4 DEF Effect
    <2>2. e.sharing \subseteq s.sharing
      <3>1. Unshared(r, s).sharing \subseteq s.sharing
              /\ UnsharedAll(r, s).sharing \subseteq s.sharing
        BY DEF Unshared, UnsharedAll, Store
      <3>2. s.sharing = ItemAdded(r, s, i).sharing /\ s.sharing = ItemUpdated(r, s).sharing
        BY DEF ItemAdded, ItemUpdated, Store
      <3>3. s.sharing = ItemRemoved(r, s).sharing /\ s.sharing = PantryAdded(r, s, i).sharing
        BY DEF ItemRemoved, PantryAdded, Store
      <3>4. s.sharing = PantryUpdated(r, s).sharing /\ s.sharing = PantryRemoved(r, s).sharing
              /\ s.sharing = Refilled(r, s, i).sharing
        BY DEF PantryUpdated, PantryRemoved, Refilled, Store
      <3> QED
        BY <1>5, <3>1, <3>2, <3>3, <3>4 DEF Effect
    <2> HIDE DEF e
    <2>3. UniqueKeys(e)
      BY <2>1, <2>2 DEF UniqueKeys
    <2> QED
      BY <2>3 DEF e
  <1>6. /\ r.op = "set_public" => e = Published(r, s, TRUE)
        /\ r.op = "remove_public" => e = Published(r, s, FALSE)
    BY DEF Effect
  <1>7. CASE r.op \in {"set_public", "remove_public"}
    BY <1>3, <1>6, <1>7
  <1> QED
    BY <1>1, <1>2, <1>4, <1>5, <1>7

\* A request that is served, or not.
LEMMA ServeEffect ==
  ASSUME NEW c \in Callers, Serve(c)
  PROVE  \/ UNCHANGED store
         \/ /\ Allowed(call[c].req, store) /\ Fresh(call[c].req, store, next)
            /\ store' = Effect(call[c].req, store, next)
  BY DEF Serve, Perform, Refuse

\* What a dialog asks for changes nothing but the shares of one account.
LEMMA DialogEffect ==
  ASSUME NEW s \in Store, NEW r \in DialogRequest, NEW i
  PROVE  LET e == Effect(r, s, i) IN
         /\ e.lists = s.lists
         /\ r.op = "get_shares" => e = s
         /\ r.op = "unshare" =>
              e.sharing = {t \in s.sharing : ~ (t.list = r.list /\ t.shared = r.with)}
         /\ r.op = "share_list" =>
              \/ SharedWith(s, r.with, r.list) /\ e = s
              \/ /\ ~ SharedWith(s, r.with, r.list)
                 /\ e.sharing = s.sharing \cup {[list |-> r.list, shared |-> r.with,
                                                 readonly |-> r.readonly]}
  <1>1. r.op \in {"get_shares", "share_list", "unshare"}
    BY DEF DialogRequest
  <1>2. CASE r.op = "get_shares"
    BY <1>2 DEF Effect
  <1>3. CASE r.op = "unshare"
    <2>1. Effect(r, s, i) = Unshared(r, s)
      BY <1>3 DEF Effect
    <2> QED
      BY <1>3, <2>1 DEF Unshared, Store
  <1>4. CASE r.op = "share_list"
    <2>1. Effect(r, s, i) = Shared(r, s)
      BY <1>4 DEF Effect
    <2> QED
      BY <1>4, <2>1 DEF Shared, Store
  <1> QED
    BY <1>1, <1>2, <1>3, <1>4

LEMMA OwnerOf ==
  ASSUME NEW s, UniqueKeys(s), NEW u, NEW l \in s.lists, Owns(s, u, l.id)
  PROVE  l.owner = u
  BY DEF Owns, UniqueKeys

\* Me owns or has already what the dialog shares with Me, and owns what it takes.
LEMMA DialogListsStay ==
  ASSUME NEW s \in Store, UniqueKeys(s), NEW r \in DialogRequest, NEW i, Allowed(r, s)
  PROVE  MyLists(Effect(r, s, i)) = MyLists(s)
  <1> DEFINE e == Effect(r, s, i)
  <1>1. e.lists = s.lists
    BY DialogEffect
  <1>2. r.user = Me /\ r.op \in {"get_shares", "share_list", "unshare"}
    BY DEF DialogRequest
  <1>3. CASE r.op = "get_shares"
    BY <1>3, DialogEffect
  <1>4. ASSUME NEW l \in s.lists, l.id # r.list PROVE SharedWith(e, Me, l.id) <=> SharedWith(s, Me, l.id)
    <2>1. CASE r.op = "get_shares"
      BY <2>1, DialogEffect
    <2>2. CASE r.op = "unshare"
      <3>1. e.sharing = {t \in s.sharing : ~ (t.list = r.list /\ t.shared = r.with)}
        BY <2>2, DialogEffect
      <3> HIDE DEF e
      <3> QED
        BY <1>4, <3>1 DEF SharedWith
    <2>3. CASE r.op = "share_list"
      <3>1. \/ e = s
            \/ e.sharing = s.sharing \cup {[list |-> r.list, shared |-> r.with,
                                            readonly |-> r.readonly]}
        BY <2>3, DialogEffect
      <3> HIDE DEF e
      <3> QED
        BY <1>4, <3>1 DEF SharedWith
    <2> QED
      BY <1>2, <2>1, <2>2, <2>3
  <1>5. ASSUME NEW l \in s.lists, l.id = r.list
        PROVE  l.owner = Me \/ (SharedWith(e, Me, l.id) <=> SharedWith(s, Me, l.id))
    <2>1. CASE r.op = "get_shares"
      BY <2>1, DialogEffect
    <2>2. CASE r.op = "unshare"
      <3>1. Needed(r.op) = "own"
        BY <2>2 DEF Needed, Owning, Writing, Reading
      <3>2. "own" \in Rights(s, Me, r.list)
        BY <1>2, <3>1 DEF Allowed
      <3>3. Owns(s, Me, r.list)
        BY <3>2 DEF Rights
      <3>4. Owns(s, Me, l.id)
        BY <1>5, <3>3
      <3>5. l.owner = Me
        BY <3>4, OwnerOf
      <3> QED
        BY <3>5
    <2>3. CASE r.op = "share_list"
      <3>1. Needed(r.op) = "write"
        BY <2>3 DEF Needed, Owning, Writing, Reading
      <3>2. "write" \in Rights(s, Me, r.list)
        BY <1>2, <3>1 DEF Allowed
      <3>3. Owns(s, Me, r.list) \/ SharedToWrite(s, Me, r.list)
        BY <3>2 DEF Rights
      <3>4. CASE Owns(s, Me, r.list)
        <4>1. l.owner = Me
          BY <1>5, <3>4, OwnerOf
        <4> QED
          BY <4>1
      <3>5. CASE SharedToWrite(s, Me, r.list)
        <4>1. SharedWith(s, Me, r.list)
          BY <3>5 DEF SharedToWrite, SharedWith
        <4>2. s.sharing \subseteq e.sharing
          BY <2>3, DialogEffect
        <4> HIDE DEF e
        <4> QED
          BY <1>5, <4>1, <4>2 DEF SharedWith
      <3> QED
        BY <3>3, <3>4, <3>5
    <2> QED
      BY <1>2, <2>1, <2>2, <2>3
  <1> HIDE DEF e
  <1>6. MyLists(e) = MyLists(s)
    BY <1>1, <1>4, <1>5 DEF MyLists, OwnedLists, SharedLists
  <1> QED
    BY <1>6 DEF e

\* Nothing goes on before Home is entered, and one errand at a time since the lists
\* were asked for; that is "show", and brings the lists there still are.
Entered == /\ ~ home.entered => AtHome
           /\ current => home.entered
OneErrand == current => \A c, d \in HomeSlots :
                          errand[c] # Nothing /\ errand[d] # Nothing => c = d
ShowAsks == \A c \in HomeSlots : errand[c] = "show" => call[c].req = Lists(Me)
ShowBrings == current => \A c \in HomeSlots :
                errand[c] = "show" /\ Succeeded(c) => call[c].rows.lists = MyLists(store)

ListsInv == Entered /\ OneErrand /\ ShowAsks /\ ShowBrings /\ SideBarIsTrue

\* Steps that leave Home and the lists Me has alone.
LEMMA HomeLeft ==
  ASSUME ListsInv, \A c \in HomeSlots : call'[c] = call[c], UNCHANGED <<home, errand>>,
         current' => current /\ MyLists(store') = MyLists(store)
  PROVE  ListsInv'
  <1>1. AtHome' <=> AtHome
    BY DEF AtHome
  <1>2. Entered' /\ OneErrand' /\ ShowAsks'
    BY <1>1 DEF ListsInv, Entered, OneErrand, ShowAsks
  <1>3. ShowBrings'
    BY DEF ListsInv, ShowBrings, Succeeded, Answered, MyLists
  <1>4. SideBarIsTrue'
    BY <1>1 DEF ListsInv, SideBarIsTrue, MyLists
  <1> QED
    BY <1>2, <1>3, <1>4 DEF ListsInv

\* The selection and the boxes have nothing to do with it.
LEMMA HomeDrawn ==
  ASSUME ListsInv, home'.lists = home.lists, home'.entered = home.entered,
         UNCHANGED <<store, call, errand, current>>
  PROVE  ListsInv'
  <1>1. AtHome' <=> AtHome
    BY DEF AtHome
  <1>2. Entered' /\ OneErrand' /\ ShowAsks'
    BY <1>1 DEF ListsInv, Entered, OneErrand, ShowAsks
  <1>3. ShowBrings'
    BY DEF ListsInv, ShowBrings, Succeeded, Answered, MyLists
  <1>4. SideBarIsTrue'
    BY <1>1 DEF ListsInv, SideBarIsTrue, MyLists
  <1> QED
    BY <1>2, <1>3, <1>4 DEF ListsInv

\* The slots after one of them has been given an errand, or has lost its own.
LEMMA SlotMoves ==
  ASSUME TypeInv, NEW c \in HomeSlots, NEW x, NEW y,
         call' = [call EXCEPT ![c] = x], errand' = [errand EXCEPT ![c] = y]
  PROVE  /\ call'[c] = x /\ errand'[c] = y
         /\ \A d \in HomeSlots \ {c} : call'[d] = call[d] /\ errand'[d] = errand[d]
  <1>1. call \in [Callers -> {Free} \cup SentCall \cup AnsweredCall]
    BY DEF TypeInv, ClientInv, CallsOK
  <1>2. errand \in [HomeSlots -> {Nothing, "show", "lists", "leave", "toggled"}]
    BY DEF TypeInv, ErrandsOK
  <1> QED
    BY <1>1, <1>2, Slots

\* A request is sent where no other errand is under way, or `current' is lost.
LEMMA ErrandStarts ==
  ASSUME TypeInv, ListsInv, NEW c \in HomeSlots, NEW r,
         NEW then \in {"show", "lists", "leave", "toggled"},
         call' = [call EXCEPT ![c] = Asked(r)], errand' = [errand EXCEPT ![c] = then],
         then = "show" => r = Lists(Me), UNCHANGED store, home'.entered,
         current' => \A d \in HomeSlots \ {c} : errand[d] = Nothing
  PROVE  ListsInv'
  <1>1. /\ call'[c] = Asked(r) /\ errand'[c] = then /\ then # Nothing
        /\ \A d \in HomeSlots \ {c} : call'[d] = call[d] /\ errand'[d] = errand[d]
    BY SlotMoves DEF Nothing
  <1>2. ~ AtHome'
    BY <1>1 DEF AtHome
  <1>3. Entered' /\ SideBarIsTrue'
    BY <1>2 DEF Entered, SideBarIsTrue
  <1>4. OneErrand'
    BY <1>1 DEF OneErrand
  <1>5. ShowAsks'
    BY <1>1 DEF ListsInv, ShowAsks, Asked
  <1>6. ~ Succeeded(c)'
    BY <1>1 DEF Succeeded, Answered, Asked
  <1>7. ShowBrings'
    BY <1>1, <1>6 DEF ShowBrings, Nothing
  <1> QED
    BY <1>3, <1>4, <1>5, <1>7 DEF ListsInv

\* Each click of Home.
LEMMA HomeListsKept ==
  ASSUME TypeInv, ListsInv, HomeNext
  PROVE  ListsInv'
  <1>0. home \in HomeRecord
    BY DEF TypeInv, HomeOK
  <1>1. CASE TogglePublic
    <2>1. home'.lists = home.lists /\ home'.entered = home.entered
      BY <1>0, <1>1 DEF TogglePublic, HomeRecord
    <2> QED
      BY <1>1, <2>1, HomeDrawn DEF TogglePublic
  <1>2. CASE DismissError
    <2> DEFINE h == [home EXCEPT !.error = FALSE]
    <2>1. h \in HomeRecord /\ h.lists = home.lists /\ h.entered = home.entered
      BY <1>0 DEF HomeRecord
    <2>2. home' = Drawn(h)
      BY <1>2 DEF DismissError
    <2> HIDE DEF h
    <2>3. home'.lists = home.lists /\ home'.entered = home.entered
      BY <2>1, <2>2, DrawnType
    <2> QED
      BY <1>2, <2>3, HomeDrawn DEF DismissError
  <1>3. ASSUME NEW l \in Links, Select(l) PROVE ListsInv'
    <2> DEFINE h == [home EXCEPT !.selected = l]
    <2>1. h \in HomeRecord /\ h.lists = home.lists /\ h.entered = home.entered
      BY <1>0 DEF HomeRecord
    <2>2. home' = Drawn(h)
      BY <1>3 DEF Select
    <2> HIDE DEF h
    <2>3. home'.lists = home.lists /\ home'.entered = home.entered
      BY <2>1, <2>2, DrawnType
    <2> QED
      BY <1>3, <2>3, HomeDrawn DEF Select
  <1>4. ASSUME NEW c \in HomeSlots, Enter(c) PROVE ListsInv'
    <2>1. /\ call' = [call EXCEPT ![c] = Asked(Lists(Me))] /\ UNCHANGED store
          /\ errand' = [errand EXCEPT ![c] = "show"]
      BY <1>4 DEF Enter, Send
    <2>2. home'.entered
      BY <1>0, <1>4 DEF Enter, HomeRecord
    <2>3. AtHome
      BY <1>4 DEF Enter, ListsInv, Entered
    <2> QED
      BY <2>1, <2>2, <2>3, ErrandStarts DEF AtHome
  <1>5. ASSUME NEW c \in HomeSlots, NEW r, NEW then \in {"lists", "leave", "toggled"},
               Click, Run(c, r, then), UNCHANGED home
        PROVE  ListsInv'
    <2>1. /\ call' = [call EXCEPT ![c] = Asked(r)] /\ UNCHANGED store
          /\ errand' = [errand EXCEPT ![c] = then]
      BY <1>5 DEF Run, Send
    <2>2. home'.entered
      BY <1>5 DEF Click
    <2>3. current' => AtHome
      BY <1>5 DEF Run
    <2> QED
      BY <2>1, <2>2, <2>3, ErrandStarts DEF AtHome
  <1>6. ASSUME NEW c \in HomeSlots, AskForLists(c) PROVE ListsInv'
    <2>1. /\ call' = [call EXCEPT ![c] = Asked(Lists(Me))] /\ UNCHANGED store
          /\ errand' = [errand EXCEPT ![c] = "show"]
      BY <1>6 DEF AskForLists, SendNext
    <2>2. errand[c] # Nothing
      BY <1>6 DEF AskForLists, Reloads, Nothing
    <2>3. home.entered
      BY <2>2 DEF ListsInv, Entered, AtHome
    <2>4. home'.entered
      <3> DEFINE h == [home EXCEPT !.selected = NoList]
      <3>1. h \in HomeRecord /\ h.entered = home.entered
        BY <1>0 DEF HomeRecord
      <3>2. home' = Drawn(h) \/ home' = home
        BY <1>6 DEF AskForLists
      <3> HIDE DEF h
      <3> QED
        BY <2>3, <3>1, <3>2, DrawnType
    <2>5. current' => \A d \in HomeSlots \ {c} : errand[d] = Nothing
      BY <1>6, <2>2 DEF AskForLists, ListsInv, OneErrand
    <2> QED
      BY <2>1, <2>4, <2>5, ErrandStarts
  <1>7. ASSUME NEW c \in HomeSlots, ShowLists(c) PROVE ListsInv'
    <2>1. call' = [call EXCEPT ![c] = Free] /\ errand' = [errand EXCEPT ![c] = Nothing]
            /\ UNCHANGED store
      BY <1>7 DEF ShowLists, Leave
    <2>2. /\ call'[c] = Free /\ errand'[c] = Nothing
          /\ \A d \in HomeSlots \ {c} : call'[d] = call[d] /\ errand'[d] = errand[d]
      BY <2>1, SlotMoves
    <2>3. errand[c] # Nothing
      <3>1. call[c] # Free
        BY <1>7 DEF ShowLists, Leave
      <3> QED
        BY <3>1 DEF TypeInv, ErrandsOK
    <2>4. home.entered
      BY <2>3 DEF ListsInv, Entered, AtHome
    <2>5. /\ home'.entered
          /\ \/ Succeeded(c) /\ errand[c] = "show" /\ home'.lists = call[c].rows.lists
                  /\ UNCHANGED current
             \/ current' = FALSE
      <3>1. CASE Succeeded(c) /\ errand[c] = "show" /\ UNCHANGED current
                   /\ home' = IF SameLists(home.lists, call[c].rows.lists) THEN home
                              ELSE Drawn([home EXCEPT !.lists = call[c].rows.lists])
        <4> DEFINE h == [home EXCEPT !.lists = call[c].rows.lists]
        <4>1. call[c].rows \in Store
          BY <3>1, Slots, CallKinds DEF Succeeded, Answered, TypeInv, ClientInv, AnsweredCall
        <4>2. h \in HomeRecord /\ h.entered = home.entered /\ h.lists = call[c].rows.lists
          BY <1>0, <4>1 DEF HomeRecord, Store
        <4>3. home' = Drawn(h) \/ (home' = home /\ home.lists = call[c].rows.lists)
          BY <3>1 DEF SameLists
        <4> HIDE DEF h
        <4>4. home'.entered /\ home'.lists = call[c].rows.lists
          BY <2>4, <4>2, <4>3, DrawnType
        <4> QED
          BY <3>1, <4>4
      <3>2. CASE home' = Drawn([home EXCEPT !.error = TRUE]) /\ current' = FALSE
        <4> DEFINE h == [home EXCEPT !.error = TRUE]
        <4>1. h \in HomeRecord /\ h.entered = home.entered
          BY <1>0 DEF HomeRecord
        <4>2. home' = Drawn(h)
          BY <3>2
        <4> HIDE DEF h
        <4> QED
          BY <2>4, <3>2, <4>1, <4>2, DrawnType
      <3> QED
        BY <1>7, <3>1, <3>2 DEF ShowLists
    <2>6. Entered'
      BY <2>5 DEF Entered
    <2>7. current' => current
      BY <2>5
    <2>8. OneErrand' /\ ShowAsks'
      BY <2>2, <2>7 DEF ListsInv, OneErrand, ShowAsks, Nothing
    <2>9. ShowBrings'
      BY <2>1, <2>2, <2>7 DEF ListsInv, ShowBrings, Succeeded, Answered, MyLists, Nothing
    <2>10. SideBarIsTrue'
      <3>1. current' => home'.lists = MyLists(store)
        BY <2>5 DEF ListsInv, ShowBrings
      <3> QED
        BY <2>1, <3>1 DEF SideBarIsTrue, MyLists
    <2> QED
      BY <2>6, <2>8, <2>9, <2>10 DEF ListsInv
  <1> QED
    BY <1>1, <1>2, <1>3, <1>4, <1>5, <1>6, <1>7 DEF HomeNext, OnNewList, OnDeleteList,
       UpdateVisibility

\* The lists that are answered are those there are; any other request belongs to an
\* errand that goes on, so that nothing is claimed yet.
LEMMA HomeServedLists ==
  ASSUME TypeInv, ListsInv, NEW c \in HomeSlots, ServeHome(c)
  PROVE  ListsInv'
  <1>1. c \in Callers
    BY Slots
  <1>2. Serve(c) /\ UNCHANGED <<home, errand, current>>
    BY DEF ServeHome
  <1>3. /\ \A d \in Callers \ {c} : call'[d] = call[d]
        /\ call[c] \in SentCall /\ call'[c].req = call[c].req
        /\ \/ UNCHANGED store /\ ~ Succeeded(c)'
           \/ \E i \in Nat \ {0} :
                /\ store' = Effect(call[c].req, store, i)
                /\ Succeeded(c)' => call'[c].rows = Found(call[c].req, store)
    BY <1>1, <1>2, ServeKeeps DEF TypeInv
  <1>4. errand[c] # Nothing
    BY <1>3 DEF TypeInv, ErrandsOK, SentCall, Free
  <1>5. ~ AtHome'
    BY <1>2, <1>4 DEF AtHome
  <1>6. Entered' /\ OneErrand' /\ SideBarIsTrue'
    BY <1>2, <1>5, <1>4 DEF ListsInv, Entered, OneErrand, SideBarIsTrue, AtHome
  <1>7. ShowAsks'
    BY <1>2, <1>3, Slots DEF ListsInv, ShowAsks
  <1>8. ASSUME current', NEW d \in HomeSlots, errand'[d] = "show", Succeeded(d)'
        PROVE  call'[d].rows.lists = MyLists(store')
    <2>1. d = c
      BY <1>2, <1>4, <1>8 DEF ListsInv, OneErrand, Nothing
    <2>2. call[c].req = Lists(Me)
      BY <1>2, <1>8, <2>1 DEF ListsInv, ShowAsks
    <2>3. Lists(Me).op = "list_lists" /\ Lists(Me).user = Me
      BY DEF Lists, Ask
    <2>4. store' = store
      BY <1>3, <2>2, <2>3 DEF Effect
    <2>5. call'[c].rows = Found(Lists(Me), store)
      BY <1>3, <1>8, <2>1, <2>2
    <2>6. Found(Lists(Me), store).lists = OwnedLists(store, Me) \cup SharedLists(store, Me)
      BY <2>3, FoundRows
    <2> QED
      BY <2>1, <2>4, <2>5, <2>6 DEF MyLists
  <1>9. ShowBrings'
    BY <1>8 DEF ShowBrings
  <1> QED
    BY <1>6, <1>7, <1>9 DEF ListsInv

\* What the dialog does and what it is served.
LEMMA DialogLeavesLists ==
  ASSUME TypeInv, UniqueKeys(store), ListsInv, DialogNext
  PROVE  ListsInv'
  <1>1. UNCHANGED <<home, errand, current>>
    BY DEF DialogNext, Cancel, Commit, AddShare, Delete, SetWriteReadonly, Mark, AskNext, Finish,
           ServeDialog, homeVars
  <1>2. CASE UNCHANGED <<store, call>>
    BY <1>1, <1>2, HomeLeft DEF MyLists
  <1>3. call \in [Callers -> {Free} \cup SentCall \cup AnsweredCall]
    BY DEF TypeInv, ClientInv, CallsOK
  <1>4. ASSUME NEW c \in ShareSlots, NEW x, call' = [call EXCEPT ![c] = x], UNCHANGED store
        PROVE  ListsInv'
    <2>1. \A d \in HomeSlots : call'[d] = call[d]
      BY <1>3, <1>4, Slots
    <2> QED
      BY <1>1, <1>4, <2>1, HomeLeft DEF MyLists
  <1>5. ASSUME NEW c \in ShareSlots, ServeDialog(c) PROVE ListsInv'
    <2>1. c \in Callers /\ Serve(c)
      BY <1>5, Slots DEF ServeDialog
    <2>2. /\ \A d \in Callers \ {c} : call'[d] = call[d]
          /\ call[c] \in SentCall
      BY <2>1, ServeKeeps DEF TypeInv
    <2>3. call[c].req \in DialogRequest
      BY <2>2 DEF TypeInv, JobsOK, SentCall, Free
    <2>4. MyLists(store') = MyLists(store)
      <3>1. CASE UNCHANGED store
        BY <3>1 DEF MyLists
      <3>2. CASE Allowed(call[c].req, store) /\ store' = Effect(call[c].req, store, next)
        BY <2>3, <3>2, DialogListsStay DEF TypeInv, ClientInv
      <3> QED
        BY <2>1, <3>1, <3>2, ServeEffect
    <2>5. \A d \in HomeSlots : call'[d] = call[d]
      BY <2>2, Slots
    <2> QED
      BY <1>1, <2>4, <2>5, HomeLeft
  <1>6. ASSUME NEW c \in ShareSlots, AskNext(c) \/ Finish(c) PROVE ListsInv'
    <2>1. \E x : call' = [call EXCEPT ![c] = x] /\ UNCHANGED store
      BY <1>6 DEF AskNext, Send, SendNext, Finish, Leave
    <2> QED
      BY <1>4, <2>1
  <1> QED
    BY <1>2, <1>5, <1>6 DEF DialogNext, Cancel, Commit, AddShare, Delete, SetWriteReadonly, Mark

LEMMA ListsInitially ==
  ASSUME SharingInit
  PROVE  UniqueKeys(store) /\ ListsInv
  <1>1. UniqueKeys(store)
    BY StoreAssumption DEF SharingInit, Init, UniqueKeys
  <1>2. current = FALSE /\ errand = [c \in HomeSlots |-> Nothing]
    BY DEF SharingInit, HomeInit
  <1> QED
    BY <1>1, <1>2 DEF ListsInv, Entered, OneErrand, ShowAsks, ShowBrings, SideBarIsTrue, AtHome,
       Nothing

\* The primary keys stay unique.
LEMMA KeysStep ==
  ASSUME TypeInv, UniqueKeys(store), [SharingNext]_vars
  PROVE  UniqueKeys(store')
  <1>1. CASE UNCHANGED store
    BY <1>1
  <1>2. ASSUME NEW r, Fresh(r, store, next), store' = Effect(r, store, next)
        PROVE  UniqueKeys(store')
    BY <1>2, KeysKept DEF TypeInv, ClientInv
  <1>3. ASSUME NEW c \in Callers, Serve(c) PROVE UniqueKeys(store')
    BY <1>1, <1>2, <1>3, ServeEffect
  <1>4. CASE HomeStep
    BY <1>1, <1>4, HomeType DEF HomeStep
  <1>5. CASE HomeServed
    BY <1>3, <1>5, Slots DEF HomeServed, ServeHome
  <1>6. CASE DialogNext
    <2>1. (\E c \in ShareSlots : Serve(c)) \/ UNCHANGED store
      BY <1>6 DEF DialogNext, Cancel, Commit, AddShare, Delete, SetWriteReadonly, Mark, AskNext,
         Finish, ServeDialog, Send, SendNext, Leave
    <2> QED
      BY <1>1, <1>3, <2>1, Slots
  <1>7. CASE SomebodyElse
    BY <1>2, <1>7 DEF SomebodyElse
  <1> QED
    BY <1>1, <1>4, <1>5, <1>6, <1>7 DEF SharingNext, vars

LEMMA ListsStep ==
  ASSUME TypeInv, UniqueKeys(store), ListsInv, [SharingNext]_vars
  PROVE  ListsInv'
  <1>1. CASE UNCHANGED vars
    BY <1>1, HomeLeft DEF vars, homeVars, MyLists
  <1>2. CASE HomeStep
    BY <1>2, HomeListsKept DEF HomeStep
  <1>3. CASE HomeServed
    BY <1>3, HomeServedLists DEF HomeServed
  <1>4. CASE DialogNext
    BY <1>4, DialogLeavesLists
  <1>5. CASE SomebodyElse
    BY <1>5, HomeLeft DEF SomebodyElse
  <1> QED
    BY <1>1, <1>2, <1>3, <1>4, <1>5 DEF SharingNext

LEMMA KeysStay == Spec => []UniqueKeys(store)
  <1>1. SharingInit => UniqueKeys(store)
    BY ListsInitially
  <1>2. TypeInv /\ UniqueKeys(store) /\ [SharingNext]_vars => UniqueKeys(store)'
    BY KeysStep
  <1> QED
    BY <1>1, <1>2, TypesStay, PTL DEF Spec

\* What the side bar shows at rest are the lists there are, with their visibility,
\* if the user waited for each answer and nobody else made, shared or removed one:
\* whatever Home changes it reads again, and the dialog changes none of the lists
\* Me has (web/src/pages/home/mod.rs, sidebar.rs).
THEOREM SideBarShowsLists == Spec => []SideBarIsTrue
  <1>1. SharingInit => ListsInv
    BY ListsInitially
  <1>2. TypeInv /\ UniqueKeys(store) /\ ListsInv /\ [SharingNext]_vars => ListsInv'
    BY ListsStep
  <1>3. ListsInv => SideBarIsTrue
    BY DEF ListsInv
  <1> QED
    BY <1>1, <1>2, <1>3, TypesStay, KeysStay, PTL DEF Spec

---------------------------------------------------------------------------
(***************************************************************************)
(* Slots.                                                                  *)
(***************************************************************************)
\* What a step leaves of the jobs in all slots but c.
OtherSlots(c) == \A d \in ShareSlots \ {c} : call'[d] = call[d] /\ job'[d] = job[d]

LEMMA AskNextMoves ==
  ASSUME TypeInv, NEW c \in ShareSlots, AskNext(c)
  PROVE  /\ OtherSlots(c) /\ UNCHANGED <<store, home, dialog, promised, clicked, marked>>
         /\ call'[c] # Free /\ call'[c].status = "sent" /\ call'[c].req = Head(Todo(c))
         /\ Todo(c) # <<>> /\ Todo(c)' = Tail(Todo(c)) /\ job'[c].live = job[c].live
         /\ (call[c] = Free /\ quiet' = quiet) \/ quiet' = (quiet /\ Succeeded(c))
  <1>0. c \in Callers /\ ShareSlots \subseteq Callers
    BY Slots
  <1>1. /\ call' = [call EXCEPT ![c] = Asked(Head(Todo(c)))]
        /\ job' = [job EXCEPT ![c].todo = Tail(@)]
        /\ UNCHANGED <<store, home, dialog, promised, clicked, marked>> /\ Todo(c) # <<>>
    BY DEF AskNext, Send, SendNext, homeVars
  <1>2. (call[c] = Free /\ quiet' = quiet) \/ quiet' = (quiet /\ Succeeded(c))
    BY DEF AskNext, Send
  <1>3. call \in [Callers -> {Free} \cup SentCall \cup AnsweredCall]
    BY DEF TypeInv, ClientInv, CallsOK
  <1>4. call'[c] = Asked(Head(Todo(c))) /\ \A d \in ShareSlots \ {c} : call'[d] = call[d]
    BY <1>0, <1>1, <1>3
  <1>5. job \in [ShareSlots -> [live : BOOLEAN, todo : Seq(DialogRequest)]]
    BY DEF TypeInv, JobsOK
  <1>6. /\ job'[c].todo = Tail(Todo(c)) /\ job'[c].live = job[c].live
        /\ \A d \in ShareSlots \ {c} : job'[d] = job[d]
    BY <1>1, <1>5 DEF Todo
  <1>7. call'[c] # Free /\ call'[c].status = "sent" /\ call'[c].req = Head(Todo(c))
    BY <1>4 DEF Asked, Free
  <1> QED
    BY <1>1, <1>2, <1>4, <1>6, <1>7 DEF OtherSlots, Todo

LEMMA FinishMoves ==
  ASSUME TypeInv, NEW c \in ShareSlots, Finish(c)
  PROVE  /\ OtherSlots(c) /\ UNCHANGED <<store, home, promised, clicked, marked>>
         /\ call'[c] = Free /\ job'[c] = NoJob
  <1>0. c \in Callers /\ ShareSlots \subseteq Callers
    BY Slots
  <1>1. /\ call' = [call EXCEPT ![c] = Free] /\ job' = [job EXCEPT ![c] = NoJob]
        /\ UNCHANGED <<store, home, promised, clicked, marked>>
    BY DEF Finish, Leave, homeVars
  <1>2. call \in [Callers -> {Free} \cup SentCall \cup AnsweredCall]
    BY DEF TypeInv, ClientInv, CallsOK
  <1>3. call'[c] = Free /\ \A d \in ShareSlots \ {c} : call'[d] = call[d]
    BY <1>0, <1>1, <1>2
  <1>4. job \in [ShareSlots -> [live : BOOLEAN, todo : Seq(DialogRequest)]]
    BY DEF TypeInv, JobsOK
  <1>5. job'[c] = NoJob /\ \A d \in ShareSlots \ {c} : job'[d] = job[d]
    BY <1>1, <1>4
  <1> QED
    BY <1>1, <1>3, <1>5 DEF OtherSlots

\* The jobs that start are those asked for, one in each slot.
LEMMA SpawnMoves ==
  ASSUME TypeInv, NEW todos, Spawn(todos)
  PROVE  /\ \A c \in ShareSlots :
              \/ call[c] = Free /\ job'[c].live /\ \E t \in todos : job'[c].todo = t
              \/ job'[c] = job[c]
         /\ Settled =>
              /\ \A c \in ShareSlots : job'[c].live =>
                   call[c] = Free /\ \E t \in todos : job'[c].todo = t
              /\ \A t \in todos : \E c \in ShareSlots : job'[c].live /\ job'[c].todo = t
              /\ \A c, d \in ShareSlots : job'[c].live /\ job'[d].live
                                            /\ job'[c].todo = job'[d].todo => c = d
  <1>1. PICK slot \in [todos -> Spare] :
          /\ \A s, t \in todos : slot[s] = slot[t] => s = t
          /\ job' = [c \in ShareSlots |->
                       IF \E t \in todos : slot[t] = c
                       THEN [live |-> TRUE, todo |-> CHOOSE t \in todos : slot[t] = c]
                       ELSE job[c]]
    BY DEF Spawn
  <1>2. \A t \in todos : slot[t] \in ShareSlots /\ call[slot[t]] = Free
    BY DEF Spare
  <1>3. ASSUME NEW t \in todos PROVE job'[slot[t]].live /\ job'[slot[t]].todo = t
    <2> DEFINE new == CHOOSE s \in todos : slot[s] = slot[t]
    <2>1. new \in todos /\ slot[new] = slot[t]
      OBVIOUS
    <2>2. job'[slot[t]] = [live |-> TRUE, todo |-> new]
      BY <1>1, <1>2
    <2> HIDE DEF new
    <2>3. new = t
      BY <1>1, <2>1
    <2> QED
      BY <2>2, <2>3
  <1>4. ASSUME NEW c \in ShareSlots PROVE (\E t \in todos : slot[t] = c) \/ job'[c] = job[c]
    BY <1>1
  <1>5. ASSUME NEW c \in ShareSlots
        PROVE  \/ call[c] = Free /\ job'[c].live /\ \E t \in todos : job'[c].todo = t
               \/ job'[c] = job[c]
    BY <1>2, <1>3, <1>4
  <1>6. ASSUME Settled, NEW c \in ShareSlots, job'[c].live PROVE \E t \in todos : slot[t] = c
    BY <1>4, <1>6 DEF Settled
  <1>7. ASSUME Settled, NEW c \in ShareSlots, NEW d \in ShareSlots, job'[c].live, job'[d].live,
               job'[c].todo = job'[d].todo
        PROVE  c = d
    <2>1. PICK s \in todos : slot[s] = c
      BY <1>6, <1>7
    <2>2. PICK t \in todos : slot[t] = d
      BY <1>6, <1>7
    <2>3. s = t
      BY <1>3, <1>7, <2>1, <2>2
    <2> QED
      BY <2>1, <2>2, <2>3
  <1> QED
    BY <1>2, <1>3, <1>5, <1>6, <1>7

---------------------------------------------------------------------------
(***************************************************************************)
(* Nobody loses the list without a click.                                  *)
(***************************************************************************)
\* A request that takes nothing from anybody who was not clicked on.
Harmless(r, marks) == r.op = "unshare" => <<r.list, r.with>> \in marks

\* What a job has sent or will send was marked before; what the dialog marks was
\* clicked on.
CallsMarked == \A c \in ShareSlots : call[c] # Free => Harmless(call[c].req, marked)
TodosMarked == \A c \in ShareSlots : \A i \in DOMAIN Todo(c) : Harmless(Todo(c)[i], marked)
MarksClicked ==
  dialog.deleted \subseteq clicked /\ \A u \in dialog.updates : u.shared \in clicked

MarkInv == CallsMarked /\ TodosMarked /\ MarksClicked

\* What was marked stays marked.
LEMMA MarkedKept ==
  ASSUME marked \subseteq marked'
  PROVE  \A r : Harmless(r, marked) => Harmless(r, marked')
  BY DEF Harmless

\* What comes first and what is left.
LEMMA HeadAndTail ==
  ASSUME NEW marks, NEW t \in Seq(DialogRequest), t # <<>>,
         \A i \in DOMAIN t : Harmless(t[i], marks)
  PROVE  Harmless(Head(t), marks) /\ \A i \in DOMAIN Tail(t) : Harmless(Tail(t)[i], marks)
  <1>1. Len(t) \in Nat /\ DOMAIN t = 1 .. Len(t) /\ Len(t) # 0
    BY EmptySeq, LenProperties
  <1>2. Head(t) = t[1] /\ 1 \in DOMAIN t
    BY <1>1, HeadTailProperties
  <1>3. /\ Tail(t) \in Seq(DialogRequest) /\ Len(Tail(t)) = Len(t) - 1
        /\ \A i \in 1 .. Len(Tail(t)) : Tail(t)[i] = t[i + 1]
    BY HeadTailProperties
  <1>4. DOMAIN Tail(t) = 1 .. Len(Tail(t))
    BY <1>3, LenProperties
  <1>5. ASSUME NEW i \in DOMAIN Tail(t) PROVE Harmless(Tail(t)[i], marks)
    <2>1. i + 1 \in DOMAIN t /\ Tail(t)[i] = t[i + 1]
      BY <1>1, <1>3, <1>4
    <2> QED
      BY <2>1
  <1> QED
    BY <1>2, <1>5

LEMMA BothHarmless ==
  ASSUME NEW marks, NEW x, NEW y, Harmless(x, marks), Harmless(y, marks)
  PROVE  \A i \in DOMAIN <<x, y>> : Harmless(<<x, y>>[i], marks)
  OBVIOUS

\* Jobs that start, of requests that were marked.
LEMMA SpawnMarked ==
  ASSUME TypeInv, MarkInv, NEW todos, Spawn(todos), marked \subseteq marked',
         \A t \in todos : \A i \in DOMAIN t : Harmless(t[i], marked')
  PROVE  TodosMarked'
  <1>1. ASSUME NEW c \in ShareSlots PROVE (\E t \in todos : job'[c].todo = t) \/ job'[c] = job[c]
    BY SpawnMoves
  <1>2. ASSUME NEW c \in ShareSlots, NEW i \in DOMAIN Todo(c)' PROVE Harmless(Todo(c)'[i], marked')
    BY <1>1, <1>2, MarkedKept DEF MarkInv, TodosMarked, Todo
  <1> QED
    BY <1>2 DEF TodosMarked, Todo

\* Steps that leave the dialog and its jobs alone, but for who asks.
LEMMA MarksLeft ==
  ASSUME MarkInv, UNCHANGED <<dialog, job, clicked, marked>>,
         \A c \in ShareSlots : call'[c] # Free => call[c] # Free /\ call'[c].req = call[c].req
  PROVE  MarkInv'
  <1>1. CallsMarked'
    BY DEF MarkInv, CallsMarked
  <1>2. TodosMarked' /\ MarksClicked'
    BY DEF MarkInv, TodosMarked, MarksClicked, Todo
  <1> QED
    BY <1>1, <1>2 DEF MarkInv

\* A dialog that comes up, goes away or follows the selection.
LEMMA HomeStepMarks ==
  ASSUME TypeInv, MarkInv, HomeStep
  PROVE  MarkInv'
  <1>0. OwnCalls /\ marked' = marked
    BY HomeType DEF HomeStep, Follow, dialogVars
  <1>1. CallsMarked'
    BY <1>0 DEF MarkInv, CallsMarked, OwnCalls
  <1>2. CASE UNCHANGED dialogVars
    BY <1>2, <1>0, MarksLeft DEF dialogVars, OwnCalls
  <1>3. CASE Spawn({<<GetShares(Me, home'.selected)>>})
               /\ dialog' = [dialog EXCEPT !.there = TRUE] /\ clicked' = clicked
    <2>1. \A i \in DOMAIN <<GetShares(Me, home'.selected)>> :
            Harmless(<<GetShares(Me, home'.selected)>>[i], marked')
      BY DEF Harmless, GetShares, Ask
    <2>2. TodosMarked'
      BY <1>0, <1>3, <2>1, SpawnMarked
    <2>3. MarksClicked'
      BY <1>3 DEF TypeInv, MarksOK, MarkInv, MarksClicked
    <2> QED
      BY <1>1, <2>2, <2>3 DEF MarkInv
  <1>4. CASE job' = [c \in ShareSlots |-> [job[c] EXCEPT !.live = FALSE]] /\ dialog' = NoDialog
    <2>1. MarksClicked'
      BY <1>4 DEF MarksClicked, NoDialog
    <2>2. \A c \in ShareSlots : job'[c].todo = job[c].todo
      BY <1>4 DEF TypeInv, JobsOK
    <2>3. TodosMarked'
      BY <1>0, <2>2 DEF MarkInv, TodosMarked, Todo
    <2> QED
      BY <1>1, <2>1, <2>3 DEF MarkInv
  <1> QED
    BY <1>2, <1>3, <1>4 DEF HomeStep, Follow

\* A click marks only the account it is on.
LEMMA ClickMarks ==
  ASSUME TypeInv, MarkInv, NEW i \in Shown, Delete(i) \/ SetWriteReadonly(i)
  PROVE  MarkInv'
  <1>0. i \in ShareInfo
    BY ShownType
  <1>1. UNCHANGED <<call, job, marked>> /\ clicked' = clicked \cup {i.shared}
    BY DEF Delete, SetWriteReadonly, Mark
  <1>2. MarksClicked'
    <2>1. CASE Delete(i)
      <3>1. /\ dialog'.updates \subseteq dialog.updates
            /\ dialog'.deleted = dialog.deleted \cup {i.shared}
        BY <2>1 DEF Delete, Mark, TypeInv, MarksOK
      <3> QED
        BY <1>1, <3>1 DEF MarkInv, MarksClicked
    <2>2. CASE SetWriteReadonly(i)
      <3> DEFINE other == [i EXCEPT !.readonly = ~ @]
      <3>1. other.shared = i.shared
        BY <1>0 DEF ShareInfo
      <3>2. /\ dialog'.updates \subseteq dialog.updates \cup {other}
            /\ dialog'.deleted = dialog.deleted
        BY <2>2 DEF SetWriteReadonly, Mark, TypeInv, MarksOK
      <3> HIDE DEF other
      <3> QED
        BY <1>1, <3>1, <3>2 DEF MarkInv, MarksClicked
    <2> QED
      BY <2>1, <2>2
  <1> QED
    BY <1>1, <1>2 DEF MarkInv, CallsMarked, TodosMarked, Todo

\* The marks become the requests of jobs.
LEMMA CommitMarks ==
  ASSUME TypeInv, MarkInv, Commit
  PROVE  MarkInv'
  <1>0. /\ home.selected \in Nat /\ dialog.updates \subseteq ShareInfo
        /\ dialog.deleted \subseteq Accounts
    BY SelectedType DEF TypeInv, HomeOK, MarksOK
  <1>1. /\ Spawn(Removals \cup Changes)
        /\ marked' = marked \cup {<<home.selected, a>> : a \in clicked} /\ UNCHANGED call
        /\ dialog' = [dialog EXCEPT !.deleted = {}, !.updates = {}]
    BY DEF Commit, Removals, Changes
  <1>2. ASSUME NEW a \in clicked
        PROVE  Harmless(UnshareWith(Me, home.selected, a), marked')
    <2>1. a \in Accounts
      BY DEF TypeInv, MarksOK
    <2>2. LET r == UnshareWith(Me, home.selected, a) IN r.list = home.selected /\ r.with = a
      BY DEF UnshareWith, Ask
    <2>3. <<home.selected, a>> \in marked'
      BY <1>1
    <2> QED
      BY <2>2, <2>3 DEF Harmless
  <1>3. /\ Harmless(GetShares(Me, home.selected), marked')
        /\ \A a, b : Harmless(Share(Me, home.selected, a, b), marked')
    BY DEF Harmless, GetShares, Share, Ask
  <1>4. ASSUME NEW t \in Removals PROVE \A i \in DOMAIN t : Harmless(t[i], marked')
    <2>1. PICK a \in dialog.deleted :
            t = <<UnshareWith(Me, home.selected, a), GetShares(Me, home.selected)>>
      BY <1>4 DEF Removals
    <2>2. Harmless(UnshareWith(Me, home.selected, a), marked')
      BY <1>2 DEF MarkInv, MarksClicked
    <2> QED
      BY <1>3, <2>1, <2>2
  <1>5. ASSUME NEW t \in Changes PROVE \A i \in DOMAIN t : Harmless(t[i], marked')
    <2>1. PICK u \in dialog.updates : t = UnshareThenShare(u)
      BY <1>5 DEF Changes
    <2>2. Harmless(UnshareWith(Me, home.selected, u.shared), marked')
      BY <1>2 DEF MarkInv, MarksClicked
    <2> QED
      BY <1>3, <2>1, <2>2 DEF UnshareThenShare
  <1>6. TodosMarked'
    <2>1. \A t \in Removals \cup Changes : \A i \in DOMAIN t : Harmless(t[i], marked')
      BY <1>4, <1>5
    <2> QED
      BY <1>1, <2>1, SpawnMarked
  <1>7. MarksClicked'
    <2>1. dialog'.deleted = {} /\ dialog'.updates = {}
      BY <1>1 DEF TypeInv, MarksOK
    <2> QED
      BY <2>1 DEF MarksClicked
  <1> QED
    BY <1>1, <1>6, <1>7, MarkedKept DEF MarkInv, CallsMarked

\* A share takes nothing from anybody.
LEMMA AddShareMarks ==
  ASSUME TypeInv, MarkInv, AddShare
  PROVE  MarkInv'
  <1>1. PICK a : Spawn({<<Share(Me, home.selected, a, FALSE), GetShares(Me, home.selected)>>})
    BY DEF AddShare
  <1>2. UNCHANGED <<call, dialog, clicked, marked>>
    BY DEF AddShare
  <1>3. Harmless(Share(Me, home.selected, a, FALSE), marked')
          /\ Harmless(GetShares(Me, home.selected), marked')
    BY DEF Harmless, Share, GetShares, Ask
  <1> DEFINE t == <<Share(Me, home.selected, a, FALSE), GetShares(Me, home.selected)>>
  <1>4. \A i \in DOMAIN t : Harmless(t[i], marked')
    BY <1>3, BothHarmless
  <1>5. Spawn({t})
    BY <1>1
  <1> HIDE DEF t
  <1>6. TodosMarked'
    BY <1>2, <1>4, <1>5, SpawnMarked
  <1> QED
    BY <1>2, <1>6 DEF MarkInv, CallsMarked, MarksClicked

\* A job sends what it had to do next.
LEMMA AskNextMarks ==
  ASSUME TypeInv, MarkInv, NEW c \in ShareSlots, AskNext(c)
  PROVE  MarkInv'
  <1>1. /\ OtherSlots(c) /\ UNCHANGED <<dialog, clicked, marked>> /\ Todo(c) # <<>>
        /\ call'[c].req = Head(Todo(c)) /\ Todo(c)' = Tail(Todo(c))
    BY AskNextMoves
  <1>2. /\ Harmless(Head(Todo(c)), marked)
        /\ \A i \in DOMAIN Tail(Todo(c)) : Harmless(Tail(Todo(c))[i], marked)
    BY <1>1, HeadAndTail DEF MarkInv, TodosMarked, TypeInv, JobsOK, Todo
  <1>3. CallsMarked'
    BY <1>1, <1>2 DEF OtherSlots, MarkInv, CallsMarked
  <1>4. TodosMarked'
    BY <1>1, <1>2 DEF OtherSlots, MarkInv, TodosMarked, Todo
  <1> QED
    BY <1>1, <1>3, <1>4 DEF MarkInv, MarksClicked

\* The shares that come carry no marks.
LEMMA FinishMarks ==
  ASSUME TypeInv, MarkInv, NEW c \in ShareSlots, Finish(c)
  PROVE  MarkInv'
  <1>1. /\ OtherSlots(c) /\ UNCHANGED <<clicked, marked>>
        /\ call'[c] = Free /\ job'[c] = NoJob
    BY FinishMoves
  <1>2. MarksClicked'
    <2>1. UNCHANGED dialog \/ \E infos : dialog' = [dialog EXCEPT !.shares = infos]
      BY DEF Finish, SetShares
    <2>2. dialog'.updates = dialog.updates /\ dialog'.deleted = dialog.deleted
      BY <2>1 DEF TypeInv, MarksOK
    <2> QED
      BY <1>1, <2>2 DEF MarkInv, MarksClicked
  <1>3. CallsMarked'
    BY <1>1 DEF OtherSlots, MarkInv, CallsMarked
  <1>4. TodosMarked'
    BY <1>1 DEF OtherSlots, MarkInv, TodosMarked, Todo, NoJob
  <1> QED
    BY <1>2, <1>3, <1>4 DEF MarkInv

\* Every step keeps the invariant.
LEMMA MarksStep ==
  ASSUME TypeInv, MarkInv, [SharingNext]_vars
  PROVE  MarkInv'
  <1>1. CASE UNCHANGED vars
    BY <1>1, MarksLeft DEF vars, dialogVars
  <1>2. CASE HomeStep
    BY <1>2, HomeStepMarks
  <1>3. ASSUME NEW c \in Callers, Serve(c), UNCHANGED <<dialog, job, clicked, marked>>
        PROVE  MarkInv'
    <2>1. /\ \A d \in Callers \ {c} : call'[d] = call[d]
          /\ call[c] # Free /\ call'[c].req = call[c].req
      BY <1>3, ServeKeeps DEF TypeInv, SentCall, Free
    <2> QED
      BY <1>3, <2>1, Slots, MarksLeft
  <1>4. CASE HomeServed
    BY <1>3, <1>4, Slots DEF HomeServed, ServeHome
  <1>5. CASE Cancel
    <2>1. MarksClicked'
      BY <1>5 DEF Cancel, Clear, TypeInv, MarksOK, MarksClicked
    <2> QED
      BY <1>5, <2>1 DEF Cancel, MarkInv, CallsMarked, TodosMarked, Todo
  <1>6. CASE DialogNext
    BY <1>3, <1>5, <1>6, Slots, CommitMarks, AddShareMarks, ClickMarks, AskNextMarks, FinishMarks
       DEF DialogNext, ServeDialog
  <1>7. CASE SomebodyElse
    BY <1>7, MarksLeft DEF SomebodyElse
  <1> QED
    BY <1>1, <1>2, <1>4, <1>6, <1>7 DEF SharingNext

\* What the dialog marks, what its jobs have still to do and what they have asked
\* for takes the list only from accounts that were clicked on.
THEOREM MarksAreClicks == Spec => []MarkInv
  <1>1. SharingInit => MarkInv
    BY Slots DEF SharingInit, Init, DialogInit, NoDialog, NoJob, MarkInv, CallsMarked, TodosMarked,
       MarksClicked, Todo
  <1>2. TypeInv /\ MarkInv /\ [SharingNext]_vars => MarkInv'
    BY MarksStep
  <1> QED
    BY <1>1, <1>2, TypesStay, PTL DEF Spec

\* No job of the dialog takes a list from an account that was not clicked on
\* since the last "Cancel", whatever was selected, failed or overlapped
\* (web/src/pages/home/modals/sharing.rs, Commit).
THEOREM NobodyElseLosesTheList == Spec => OnlyMarked
  <1>1. ASSUME TypeInv, MarkInv, NEW c \in ShareSlots, ServeDialog(c),
               NEW t \in store.sharing \ store'.sharing
        PROVE  <<t.list, t.shared>> \in marked
    <2>1. c \in Callers /\ Serve(c)
      BY <1>1, Slots DEF ServeDialog
    <2>2. call[c] # Free
      BY <1>1, <2>1, ServeKeeps DEF TypeInv, SentCall, Free
    <2>3. call[c].req \in DialogRequest /\ Harmless(call[c].req, marked)
      BY <1>1, <2>2 DEF TypeInv, JobsOK, MarkInv, CallsMarked
    <2>4. store' = Effect(call[c].req, store, next)
      BY <1>1, <2>1, ServeEffect
    <2>5. call[c].req.op = "unshare" /\ t.list = call[c].req.list /\ t.shared = call[c].req.with
      BY <1>1, <2>3, <2>4, SharesGone DEF DialogRequest, TypeInv, ClientInv
    <2> QED
      BY <2>3, <2>5 DEF Harmless
  <1>2. TypeInv /\ MarkInv =>
          [\A c \in ShareSlots : ServeDialog(c) =>
             \A t \in store.sharing \ store'.sharing :
                <<t.list, t.shared>> \in marked]_<<store, call>>
    BY <1>1
  <1> QED
    BY <1>2, TypesStay, MarksAreClicks, PTL DEF OnlyMarked

---------------------------------------------------------------------------
(***************************************************************************)
(* An update ends in the shares that were shown.                           *)
(***************************************************************************)
Taking(a) == UnshareWith(Me, home.selected, a)
Rereading == GetShares(Me, home.selected)

\* What is left to do for account a once the list has been taken from it.
LeftFor(a, todo) ==
  \/ Row(promised, a) = {} /\ todo = <<Rereading>>
  \/ \E i \in Row(promised, a) :
       Row(promised, a) = {i} /\ todo = <<Share(Me, home.selected, a, i.readonly), Rereading>>

\* How far the job of an account is; at last it reads the shares again.
Waits(c, a) ==
  call[c] = Free /\ Todo(c) # <<>> /\ Head(Todo(c)) = Taking(a) /\ LeftFor(a, Tail(Todo(c)))
Takes(c, a) == call[c] # Free /\ call[c].req = Taking(a) /\ LeftFor(a, Todo(c))
Gives(c, a) ==
  /\ call[c] # Free /\ Todo(c) = <<Rereading>>
  /\ \E i \in Row(promised, a) :
       Row(promised, a) = {i} /\ call[c].req = Share(Me, home.selected, a, i.readonly)
Reads(c) == call[c] # Free /\ call[c].req = Rereading /\ Todo(c) = <<>>

Busy(c, a) == job[c].live /\ (Waits(c, a) \/ Takes(c, a) \/ Gives(c, a))

\* Each account whose shares are not those promised has one job that is at it, and
\* what the job was told is so.
Working ==
  /\ promised \subseteq ShareInfo
  /\ \A c \in ShareSlots : job[c].live => Reads(c) \/ \E a \in Accounts : Busy(c, a)
  /\ \A a \in Accounts : Row(Stored, a) = Row(promised, a) \/ \E c \in ShareSlots : Busy(c, a)
OneJobEach == \A c, d \in ShareSlots, a \in Accounts : Busy(c, a) /\ Busy(d, a) => c = d
Heard ==
  \A c \in ShareSlots, a \in Accounts : job[c].live =>
    /\ Takes(c, a) /\ Succeeded(c) => Row(Stored, a) = {}
    /\ Gives(c, a) /\ call[c].status = "sent" => Row(Stored, a) = {}
    /\ Gives(c, a) /\ Succeeded(c) => Row(Stored, a) = Row(promised, a)

CommitInv == quiet /\ promised # NoPromise => Working /\ OneJobEach /\ Heard

\* The jobs of the other slots go on, for the other accounts.
LEMMA JobsLeft ==
  ASSUME NEW c \in ShareSlots, call'[c] = call[c], job'[c] = job[c],
         home'.selected = home.selected, promised' = promised, NEW a
  PROVE  /\ Waits(c, a)' <=> Waits(c, a)
         /\ Takes(c, a)' <=> Takes(c, a)
         /\ Gives(c, a)' <=> Gives(c, a)
         /\ Reads(c)' <=> Reads(c)
         /\ Busy(c, a)' <=> Busy(c, a)
         /\ Succeeded(c)' <=> Succeeded(c)
  <1>1. /\ Waits(c, a)' <=> Waits(c, a)
        /\ Takes(c, a)' <=> Takes(c, a)
        /\ Gives(c, a)' <=> Gives(c, a)
        /\ Reads(c)' <=> Reads(c)
    BY DEF Waits, Takes, Gives, Reads, LeftFor, Todo, Taking, Rereading
  <1>2. Busy(c, a)' <=> Busy(c, a)
    BY <1>1 DEF Busy
  <1>3. Succeeded(c)' <=> Succeeded(c)
    BY DEF Succeeded, Answered
  <1> QED
    BY <1>1, <1>2, <1>3

\* Steps that leave the jobs and the shares: a job nobody hears of may go on.
SlotLeft(c) == \/ ~ job[c].live /\ ~ job'[c].live
               \/ job'[c] = job[c] /\ call'[c] = call[c]

LEMMA CommitLeft ==
  ASSUME CommitInv, quiet' => quiet, promised' = promised, home'.selected = home.selected,
         \A c \in ShareSlots : SlotLeft(c),
         quiet' => Stored' = Stored
  PROVE  CommitInv'
  <1> SUFFICES ASSUME quiet', promised' # NoPromise
               PROVE  Working' /\ OneJobEach' /\ Heard'
    BY DEF CommitInv
  <1>1. Working /\ OneJobEach /\ Heard /\ Stored' = Stored
    BY DEF CommitInv
  <1>2. ASSUME NEW c \in ShareSlots, NEW a PROVE Busy(c, a)' <=> Busy(c, a)
    <2>1. CASE job'[c] = job[c] /\ call'[c] = call[c]
      BY <2>1, JobsLeft
    <2>2. CASE ~ job[c].live /\ ~ job'[c].live
      BY <2>2 DEF Busy
    <2> QED
      BY <2>1, <2>2 DEF SlotLeft
  <1>3. ASSUME NEW c \in ShareSlots, job'[c].live
        PROVE  /\ Reads(c)' <=> Reads(c)
               /\ call'[c] = call[c] /\ job[c].live
               /\ \A a : /\ Takes(c, a)' <=> Takes(c, a)
                         /\ Gives(c, a)' <=> Gives(c, a)
               /\ Succeeded(c)' <=> Succeeded(c)
    BY <1>3, JobsLeft DEF SlotLeft
  <1>4. Working'
    <2>1. \A c \in ShareSlots : job'[c].live => Reads(c)' \/ \E a \in Accounts : Busy(c, a)'
      BY <1>1, <1>2, <1>3 DEF Working
    <2>2. \A a \in Accounts : Row(Stored', a) = Row(promised', a)
                                \/ \E c \in ShareSlots : Busy(c, a)'
      BY <1>1, <1>2 DEF Working
    <2> QED
      BY <1>1, <2>1, <2>2 DEF Working, Row
  <1>5. OneJobEach'
    BY <1>1, <1>2 DEF OneJobEach
  <1>6. Heard'
    BY <1>1, <1>3 DEF Heard, Row
  <1> QED
    BY <1>4, <1>5, <1>6

\* What a job asks for tells which account it is for.
LEMMA RequestsDiffer ==
  ASSUME NEW a, NEW b, NEW r
  PROVE  /\ Taking(a) = Taking(b) => a = b
         /\ Taking(a).op = "unshare" /\ Taking(a).list = home.selected /\ Taking(a).with = a
         /\ Share(Me, home.selected, a, r).op = "share_list"
         /\ Share(Me, home.selected, a, r).list = home.selected
         /\ Share(Me, home.selected, a, r).with = a
         /\ Share(Me, home.selected, a, r).readonly = r
         /\ Rereading.op = "get_shares"
  <1>1. Taking(a).op = "unshare" /\ Taking(a).list = home.selected /\ Taking(a).with = a
    BY DEF Taking, UnshareWith, Ask
  <1>2. Taking(b).with = b
    BY DEF Taking, UnshareWith, Ask
  <1>3. Rereading.op = "get_shares"
    BY DEF Rereading, GetShares, Ask
  <1>4. LET q == Share(Me, home.selected, a, r) IN
        q.op = "share_list" /\ q.list = home.selected /\ q.with = a /\ q.readonly = r
    BY DEF Share, Ask
  <1> QED
    BY <1>1, <1>2, <1>3, <1>4

\* One after the other.
LEMMA Parts ==
  ASSUME NEW x, NEW y, NEW z
  PROVE  /\ Head(<<x>>) = x /\ Tail(<<x>>) = <<>> /\ <<x>> # <<>>
         /\ Head(<<x, y>>) = x /\ Tail(<<x, y>>) = <<y>> /\ <<x, y>> # <<>>
         /\ Head(<<x, y, z>>) = x /\ Tail(<<x, y, z>>) = <<y, z>> /\ <<x, y, z>> # <<>>
         /\ <<x>> # <<y, z>>
  OBVIOUS

\* A job is at the shares of one account.
LEMMA OneAccount ==
  ASSUME NEW c, NEW a, NEW b, Busy(c, a), Busy(c, b)
  PROVE  a = b
  <1>1. \/ Waits(c, a) /\ Waits(c, b)
        \/ (Takes(c, a) \/ Gives(c, a)) /\ (Takes(c, b) \/ Gives(c, b))
    BY DEF Busy, Waits, Takes, Gives
  <1>2. CASE Waits(c, a) /\ Waits(c, b)
    BY <1>2, RequestsDiffer DEF Waits
  <1>3. ASSUME NEW x, Takes(c, x) \/ Gives(c, x) PROVE call[c].req.with = x
    BY <1>3, RequestsDiffer DEF Takes, Gives
  <1>4. CASE (Takes(c, a) \/ Gives(c, a)) /\ (Takes(c, b) \/ Gives(c, b))
    <2>1. call[c].req.with = a /\ call[c].req.with = b
      BY <1>3, <1>4
    <2> QED
      BY <2>1
  <1> QED
    BY <1>1, <1>2, <1>4

\* A step of one job, that was at the shares of account a: those of the others
\* stay, and what is said of it and of a holds again.
LEMMA OneMoves ==
  ASSUME Working, OneJobEach, Heard, NEW c \in ShareSlots, OtherSlots(c),
         home'.selected = home.selected, promised' = promised, NEW a \in Accounts,
         \A b \in Accounts : Busy(c, b) => b = a,
         \A b \in Accounts \ {a} : Row(Stored', b) = Row(Stored, b),
         Row(Stored', a) # Row(Stored, a) => Busy(c, a),
         \A b \in Accounts : Busy(c, b)' => b = a /\ Busy(c, a),
         job'[c].live => Reads(c)' \/ Busy(c, a)',
         Busy(c, a) => Row(Stored', a) = Row(promised, a) \/ Busy(c, a)',
         job'[c].live =>
           /\ Takes(c, a)' /\ Succeeded(c)' => Row(Stored', a) = {}
           /\ Gives(c, a)' /\ call'[c].status = "sent" => Row(Stored', a) = {}
           /\ Gives(c, a)' /\ Succeeded(c)' => Row(Stored', a) = Row(promised, a)
  PROVE  Working' /\ OneJobEach' /\ Heard'
  <1>1. ASSUME NEW d \in ShareSlots \ {c}, NEW b
        PROVE  /\ Takes(d, b)' <=> Takes(d, b)
               /\ Gives(d, b)' <=> Gives(d, b)
               /\ Reads(d)' <=> Reads(d)
               /\ Busy(d, b)' <=> Busy(d, b)
               /\ Succeeded(d)' <=> Succeeded(d)
               /\ job'[d] = job[d] /\ call'[d] = call[d]
    BY JobsLeft DEF OtherSlots
  <1>2. Working'
    <2>1. \A d \in ShareSlots : job'[d].live => Reads(d)' \/ \E b \in Accounts : Busy(d, b)'
      BY <1>1 DEF Working
    <2>2. ASSUME NEW b \in Accounts
          PROVE  Row(Stored', b) = Row(promised, b) \/ \E d \in ShareSlots : Busy(d, b)'
      <3>1. CASE \E d \in ShareSlots \ {c} : Busy(d, b)
        BY <1>1, <3>1
      <3>2. CASE Busy(c, b)
        BY <3>2
      <3>3. CASE \A d \in ShareSlots : ~ Busy(d, b)
        <4>1. Row(Stored, b) = Row(promised, b)
          BY <3>3 DEF Working
        <4>2. Row(Stored', b) = Row(Stored, b)
          BY <3>3
        <4> QED
          BY <4>1, <4>2
      <3> QED
        BY <3>1, <3>2, <3>3
    <2>3. \A b : Row(promised', b) = Row(promised, b)
      BY DEF Row
    <2> QED
      BY <2>1, <2>2, <2>3 DEF Working, Row
  <1>3. OneJobEach'
    <2>1. ASSUME NEW d \in ShareSlots, NEW b \in Accounts, Busy(d, b)' PROVE Busy(d, b)
      BY <1>1, <2>1
    <2> QED
      BY <2>1 DEF OneJobEach
  <1>4. ASSUME NEW d \in ShareSlots, NEW b \in Accounts, job'[d].live
        PROVE  /\ Takes(d, b)' /\ Succeeded(d)' => Row(Stored', b) = {}
               /\ Gives(d, b)' /\ call'[d].status = "sent" => Row(Stored', b) = {}
               /\ Gives(d, b)' /\ Succeeded(d)' => Row(Stored', b) = Row(promised, b)
    <2>1. CASE d = c
      <3>1. Takes(d, b)' \/ Gives(d, b)' => b = a
        BY <1>4, <2>1 DEF Busy
      <3> QED
        BY <1>4, <2>1, <3>1
    <2>2. CASE d # c
      <3>1. Takes(d, b) \/ Gives(d, b) => Busy(d, b)
        BY <1>1, <1>4, <2>2 DEF Busy
      <3>2. Busy(d, b) => Row(Stored', b) = Row(Stored, b)
        BY <2>2 DEF OneJobEach
      <3> QED
        BY <1>1, <1>4, <2>2, <3>1, <3>2 DEF Heard
    <2> QED
      BY <2>1, <2>2
  <1>5. Heard'
    <2>1. \A b : Row(promised', b) = Row(promised, b)
      BY DEF Row
    <2> QED
      BY <1>4, <2>1 DEF Heard, Row
  <1> QED
    BY <1>2, <1>3, <1>5

\* A request under way tells the same afterwards.
LEMMA BusyThen ==
  ASSUME NEW c, NEW b, Busy(c, b)', call'[c] # Free
  PROVE  call'[c].req.with = b /\ call'[c].req.op \in {"unshare", "share_list"}
  <1>1. CASE Takes(c, b)'
    BY <1>1 DEF Takes, Taking, UnshareWith, Ask
  <1>2. CASE Gives(c, b)'
    BY <1>2 DEF Gives, Share, Ask
  <1> QED
    BY <1>1, <1>2 DEF Busy, Waits

\* The rows of a list after an unshare, and after a share.
InfosOf(rows, l) == SharesIn(OfList(rows, l))
Without(rows, l, a) == {t \in rows : ~ (t.list = l /\ t.shared = a)}
With(rows, l, a, right) == rows \cup {[list |-> l, shared |-> a, readonly |-> right]}

LEMMA RowsTaken ==
  ASSUME NEW rows, NEW l, NEW a
  PROVE  LET then == Without(rows, l, a) IN
         /\ Row(InfosOf(then, l), a) = {}
         /\ \A b : b # a => Row(InfosOf(then, l), b) = Row(InfosOf(rows, l), b)
  BY DEF Row, SharesIn, OfList, InfosOf, Without

LEMMA RowsGiven ==
  ASSUME NEW rows, NEW l, NEW a, NEW right
  PROVE  LET then == With(rows, l, a, right) IN
         /\ Row(InfosOf(rows, l), a) = {} =>
              Row(InfosOf(then, l), a) = {[shared |-> a, readonly |-> right]}
         /\ \A b : b # a => Row(InfosOf(then, l), b) = Row(InfosOf(rows, l), b)
  <1> DEFINE t == [list |-> l, shared |-> a, readonly |-> right]
             info == [shared |-> a, readonly |-> right]
             then == With(rows, l, a, right)
  <1>1. t.list = l /\ t.shared = a /\ [shared |-> t.shared, readonly |-> t.readonly] = info
          /\ info.shared = a
    OBVIOUS
  <1> HIDE DEF t
  <1>2. OfList(then, l) = OfList(rows, l) \cup {t}
    BY <1>1 DEF OfList, With, t
  <1>3. InfosOf(then, l) = InfosOf(rows, l) \cup {info}
    BY <1>1, <1>2 DEF SharesIn, InfosOf
  <1> HIDE DEF info, then
  <1>4. \A b : Row(InfosOf(then, l), b) =
               Row(InfosOf(rows, l), b) \cup (IF a = b THEN {info} ELSE {})
    BY <1>1, <1>3 DEF Row
  <1> QED
    BY <1>4 DEF info, then

LEMMA NotShared ==
  ASSUME NEW a, Row(Stored, a) = {}
  PROVE  ~ SharedWith(store, a, home.selected)
  <1> SUFFICES ASSUME NEW t \in store.sharing, t.list = home.selected, t.shared = a
               PROVE  FALSE
    BY DEF SharedWith
  <1> DEFINE info == [shared |-> t.shared, readonly |-> t.readonly]
  <1>1. info \in Stored
    BY DEF Stored, SharesIn, OfList
  <1>2. info.shared = a
    OBVIOUS
  <1> HIDE DEF info
  <1> QED
    BY <1>1, <1>2 DEF Row

\* What the jobs ask for takes and gives what was promised.
LEMMA TakenOrGiven ==
  ASSUME TypeInv, Working, Heard, NEW c \in ShareSlots, ServeDialog(c), job[c].live,
         NEW a \in Accounts, Takes(c, a) \/ Gives(c, a)
  PROVE  /\ \A b \in Accounts \ {a} : Row(Stored', b) = Row(Stored, b)
         /\ Takes(c, a) /\ Succeeded(c)' => Row(Stored', a) = {}
         /\ Gives(c, a) /\ Succeeded(c)' => Row(Stored', a) = Row(promised, a)
  <1> DEFINE r == call[c].req
  <1>0. c \in Callers /\ Serve(c) /\ UNCHANGED home
    BY Slots DEF ServeDialog, homeVars
  <1>1. /\ call[c] \in SentCall
        /\ \/ UNCHANGED store /\ ~ Succeeded(c)'
           \/ \E i \in Nat \ {0} : store' = Effect(call[c].req, store, i)
    BY <1>0, ServeKeeps DEF TypeInv
  <1>2. CASE UNCHANGED store /\ ~ Succeeded(c)'
    BY <1>0, <1>2 DEF Stored
  <1>3. ASSUME NEW i \in Nat \ {0}, store' = Effect(r, store, i)
        PROVE  /\ \A b \in Accounts \ {a} : Row(Stored', b) = Row(Stored, b)
               /\ Takes(c, a) => Row(Stored', a) = {}
               /\ Gives(c, a) => Row(Stored', a) = Row(promised, a)
    <2>1. r \in DialogRequest /\ store \in Store
      BY <1>1 DEF TypeInv, JobsOK, ClientInv, SentCall, Free
    <2>2. /\ r.op = "unshare" =>
               store'.sharing = {t \in store.sharing : ~ (t.list = r.list /\ t.shared = r.with)}
          /\ r.op = "share_list" =>
               \/ SharedWith(store, r.with, r.list) /\ store' = store
               \/ store'.sharing = store.sharing \cup
                    {[list |-> r.list, shared |-> r.with, readonly |-> r.readonly]}
      BY <1>3, <2>1, DialogEffect
    <2>3. CASE Takes(c, a)
      <3>1. r.op = "unshare" /\ r.list = home.selected /\ r.with = a
        BY <2>3, RequestsDiffer DEF Takes
      <3>2. ~ Gives(c, a)
        BY <3>1, RequestsDiffer DEF Gives
      <3>3. store'.sharing = Without(store.sharing, home.selected, a)
        BY <2>2, <3>1 DEF Without
      <3>4. /\ Row(InfosOf(store'.sharing, home.selected), a) = {}
            /\ \A b : b # a => Row(InfosOf(store'.sharing, home.selected), b) =
                               Row(InfosOf(store.sharing, home.selected), b)
        BY <3>3, RowsTaken
      <3>5. /\ Row(Stored', a) = {}
            /\ \A b : b # a => Row(Stored', b) = Row(Stored, b)
        BY <1>0, <3>4 DEF Stored, InfosOf
      <3> QED
        BY <3>2, <3>5
    <2>4. CASE Gives(c, a)
      <3>1. PICK x \in Row(promised, a) :
              Row(promised, a) = {x} /\ r = Share(Me, home.selected, a, x.readonly)
        BY <2>4 DEF Gives
      <3>2. r.op = "share_list" /\ r.list = home.selected /\ r.with = a
              /\ r.readonly = x.readonly
        BY <3>1, RequestsDiffer
      <3>3. ~ Takes(c, a)
        BY <3>2, RequestsDiffer DEF Takes
      <3>4. x = [shared |-> a, readonly |-> x.readonly]
        BY <3>1 DEF Row, Working, ShareInfo
      <3>5. Row(Stored, a) = {}
        BY <1>1, <2>4 DEF Heard, SentCall
      <3>6. store'.sharing = With(store.sharing, home.selected, a, x.readonly)
        BY <2>2, <3>2, <3>5, NotShared DEF With
      <3>7. Row(InfosOf(store.sharing, home.selected), a) = {}
        BY <3>5 DEF Stored, InfosOf
      <3>8. /\ Row(InfosOf(store'.sharing, home.selected), a) =
                 {[shared |-> a, readonly |-> x.readonly]}
            /\ \A b : b # a => Row(InfosOf(store'.sharing, home.selected), b) =
                               Row(InfosOf(store.sharing, home.selected), b)
        BY <3>6, <3>7, RowsGiven
      <3>9. /\ Row(Stored', a) = {x}
            /\ \A b : b # a => Row(Stored', b) = Row(Stored, b)
        BY <1>0, <3>4, <3>8 DEF Stored, InfosOf
      <3> QED
        BY <3>1, <3>3, <3>9
    <2> QED
      BY <2>3, <2>4
  <1> QED
    BY <1>1, <1>2, <1>3

\* The server answers a job.
LEMMA CommitServed ==
  ASSUME TypeInv, CommitInv, NEW c \in ShareSlots, ServeDialog(c)
  PROVE  CommitInv'
  <1>0. c \in Callers /\ Serve(c)
          /\ UNCHANGED <<home, job, promised>>
          /\ quiet' = (quiet /\ (job[c].live \/ store'.sharing = store.sharing))
    BY Slots DEF ServeDialog, homeVars
  <1>1. /\ \A d \in Callers \ {c} : call'[d] = call[d]
        /\ call[c] \in SentCall /\ Answered(c)' /\ call'[c].req = call[c].req
        /\ UNCHANGED store \/ \E i \in Nat \ {0} : store' = Effect(call[c].req, store, i)
    BY <1>0, ServeKeeps DEF TypeInv
  <1>2. CASE ~ job[c].live
    <2>1. \A d \in ShareSlots : SlotLeft(d)
      BY <1>0, <1>1, <1>2, Slots DEF SlotLeft
    <2>2. quiet' => Stored' = Stored
      BY <1>0, <1>2 DEF Stored
    <2>3. (quiet' => quiet) /\ promised' = promised /\ home'.selected = home.selected
      BY <1>0
    <2> QED
      BY <2>1, <2>2, <2>3, CommitLeft
  <1>3. CASE job[c].live
    <2> SUFFICES ASSUME quiet', promised' # NoPromise
                 PROVE  Working' /\ OneJobEach' /\ Heard'
      BY DEF CommitInv
    <2>1. Working /\ OneJobEach /\ Heard
      BY <1>0 DEF CommitInv
    <2>2. OtherSlots(c)
      BY <1>0, <1>1, Slots DEF OtherSlots
    <2>3. /\ call[c] # Free /\ call'[c] # Free /\ call'[c].status = "answered"
          /\ call[c].status = "sent" /\ ~ Succeeded(c)
      BY <1>1 DEF SentCall, Free, Answered, Succeeded
    <2>4. /\ \A b : (Takes(c, b)' <=> Takes(c, b)) /\ (Gives(c, b)' <=> Gives(c, b))
          /\ Reads(c)' <=> Reads(c)
      BY <1>0, <1>1, <2>3 DEF Takes, Gives, Reads, LeftFor, Todo, Taking, Rereading
    <2>5. \A b : (Busy(c, b)' <=> Busy(c, b)) /\ (Busy(c, b) => Takes(c, b) \/ Gives(c, b))
      BY <1>0, <2>3, <2>4 DEF Busy, Waits
    <2>6. CASE Reads(c)
      <3>1. call[c].req.op = "get_shares" /\ call[c].req \in DialogRequest
        BY <2>3, <2>6, RequestsDiffer DEF Reads, TypeInv, JobsOK
      <3>2. store' = store
        BY <1>1, <3>1, DialogEffect DEF TypeInv, ClientInv
      <3>3. Stored' = Stored
        BY <1>0, <3>2 DEF Stored
      <3>4. \A b : ~ Takes(c, b) /\ ~ Gives(c, b)
        BY <3>1, RequestsDiffer DEF Takes, Gives
      <3>5. \A b : ~ Busy(c, b) /\ ~ Busy(c, b)'
        BY <2>5, <3>4
      <3>6. Me \in Accounts
        BY HomeAssumption
      <3> QED
        BY <1>0, <2>1, <2>2, <2>4, <2>6, <3>3, <3>4, <3>5, <3>6, OneMoves
    <2>7. ASSUME NEW a \in Accounts, Busy(c, a) PROVE Working' /\ OneJobEach' /\ Heard'
      <3>1. Takes(c, a) \/ Gives(c, a)
        BY <2>5, <2>7
      <3>2. /\ \A b \in Accounts \ {a} : Row(Stored', b) = Row(Stored, b)
            /\ Takes(c, a) /\ Succeeded(c)' => Row(Stored', a) = {}
            /\ Gives(c, a) /\ Succeeded(c)' => Row(Stored', a) = Row(promised, a)
        BY <1>3, <2>1, <3>1, TakenOrGiven
      <3>3. \A b : Busy(c, b) => b = a
        BY <2>7, OneAccount
      <3>4. \A b \in Accounts : Busy(c, b)' => b = a /\ Busy(c, a)
        BY <2>5, <2>7, <3>3
      <3>5. Busy(c, a)'
        BY <2>5, <2>7
      <3> QED
        BY <1>0, <2>1, <2>2, <2>3, <2>4, <2>7, <3>2, <3>3, <3>4, <3>5, OneMoves
    <2> QED
      BY <1>3, <2>1, <2>6, <2>7 DEF Working
  <1> QED
    BY <1>2, <1>3

\* A job asks for the next thing.
LEMMA CommitAsks ==
  ASSUME TypeInv, CommitInv, NEW c \in ShareSlots, AskNext(c)
  PROVE  CommitInv'
  <1>1. /\ OtherSlots(c) /\ UNCHANGED <<store, home, promised>>
        /\ call'[c] # Free /\ call'[c].status = "sent" /\ call'[c].req = Head(Todo(c))
        /\ Todo(c) # <<>> /\ Todo(c)' = Tail(Todo(c)) /\ job'[c].live = job[c].live
        /\ (call[c] = Free /\ quiet' = quiet) \/ quiet' = (quiet /\ Succeeded(c))
    BY AskNextMoves
  <1>2. Stored' = Stored
    BY <1>1 DEF Stored
  <1>3. quiet' => quiet /\ (call[c] = Free \/ Succeeded(c))
    BY <1>1
  <1>4. CASE ~ job[c].live
    <2>1. \A d \in ShareSlots : SlotLeft(d)
      BY <1>1, <1>4 DEF OtherSlots, SlotLeft
    <2>2. promised' = promised /\ home'.selected = home.selected
      BY <1>1
    <2> QED
      BY <1>2, <1>3, <2>1, <2>2, CommitLeft
  <1>5. CASE job[c].live
    <2> SUFFICES ASSUME quiet', promised' # NoPromise
                 PROVE  Working' /\ OneJobEach' /\ Heard'
      BY DEF CommitInv
    <2>1. Working /\ OneJobEach /\ Heard /\ promised' = promised
      BY <1>1, <1>3 DEF CommitInv
    <2>2. ~ Succeeded(c)' /\ home'.selected = home.selected
      BY <1>1 DEF Succeeded, Answered
    <2>3. ~ Reads(c)
      BY <1>1 DEF Reads
    <2>4. PICK a \in Accounts : Busy(c, a)
      BY <1>5, <2>1, <2>3 DEF Working
    <2>5. \A b : Busy(c, b) => b = a
      BY <2>4, OneAccount
    <2>6. ASSUME NEW b, Busy(c, b)'
          PROVE  call'[c].req.with = b /\ call'[c].req.op \in {"unshare", "share_list"}
      BY <1>1, <2>6, BusyThen
    <2>7. ASSUME Head(Todo(c)) = Rereading, Todo(c) = <<Rereading>>,
                 Row(Stored, a) = Row(promised, a)
          PROVE  Working' /\ OneJobEach' /\ Heard'
      <3>1. call'[c].req = Rereading /\ Todo(c)' = <<>>
        BY <1>1, <2>7, Parts
      <3>2. Reads(c)'
        BY <1>1, <3>1 DEF Reads, Rereading
      <3>3. \A b : ~ Busy(c, b)'
        BY <2>6, <3>1, RequestsDiffer
      <3>4. ~ Takes(c, a)' /\ ~ Gives(c, a)'
        BY <1>1, <1>5, <3>3 DEF Busy
      <3> QED
        BY <1>1, <1>2, <2>1, <2>2, <2>4, <2>5, <2>7, <3>2, <3>3, <3>4, OneMoves
    <2>8. ASSUME Busy(c, a)', Gives(c, a)' => Row(Stored, a) = {},
                 call'[c].req.with = a
          PROVE  Working' /\ OneJobEach' /\ Heard'
      <3>1. \A b : Busy(c, b)' => b = a
        BY <2>6, <2>8
      <3> QED
        BY <1>1, <1>2, <2>1, <2>2, <2>4, <2>5, <2>8, <3>1, OneMoves
    <2>9. CASE Waits(c, a)
      <3>1. call'[c].req = Taking(a) /\ LeftFor(a, Tail(Todo(c)))
        BY <1>1, <2>9 DEF Waits
      <3>2. Takes(c, a)'
        BY <1>1, <2>1, <2>2, <3>1 DEF Takes, LeftFor, Taking, Rereading
      <3>3. call'[c].req.with = a /\ call'[c].req.op = "unshare"
        BY <3>1, RequestsDiffer
      <3>4. ~ Gives(c, a)'
        BY <3>3 DEF Gives, Share, Ask
      <3>5. Busy(c, a)'
        BY <1>1, <1>5, <3>2 DEF Busy
      <3> QED
        BY <2>8, <3>3, <3>4, <3>5
    <2>10. CASE Takes(c, a)
      <3>1. Succeeded(c) /\ Row(Stored, a) = {}
        BY <1>3, <1>5, <2>1, <2>10 DEF Takes, Heard
      <3>2. CASE Row(promised, a) = {} /\ Todo(c) = <<Rereading>>
        BY <2>7, <3>1, <3>2, Parts
      <3>3. ASSUME NEW i \in Row(promised, a), Row(promised, a) = {i},
                   Todo(c) = <<Share(Me, home.selected, a, i.readonly), Rereading>>
            PROVE  Working' /\ OneJobEach' /\ Heard'
        <4>1. call'[c].req = Share(Me, home.selected, a, i.readonly)
                /\ Todo(c)' = <<Rereading>>
          BY <1>1, <3>3, Parts
        <4>2. Gives(c, a)'
          <5>1. Row(promised', a) = {i} /\ i \in Row(promised', a)
            BY <2>1, <3>3 DEF Row
          <5>2. Todo(c)' = <<GetShares(Me, home'.selected)>>
                  /\ call'[c].req = Share(Me, home'.selected, a, i.readonly)
            BY <2>2, <4>1 DEF Rereading
          <5> QED
            BY <1>1, <5>1, <5>2 DEF Gives, Rereading
        <4>3. call'[c].req.with = a
          BY <4>1, RequestsDiffer
        <4>4. Busy(c, a)'
          BY <1>1, <1>5, <4>2 DEF Busy
        <4> QED
          BY <2>8, <3>1, <4>3, <4>4
      <3> QED
        BY <2>10, <3>2, <3>3 DEF Takes, LeftFor
    <2>11. CASE Gives(c, a)
      <3>1. Succeeded(c) /\ Todo(c) = <<Rereading>>
        BY <1>3, <2>11 DEF Gives
      <3>2. Row(Stored, a) = Row(promised, a)
        BY <1>5, <2>1, <2>11, <3>1 DEF Heard
      <3> QED
        BY <2>7, <3>1, <3>2, Parts
    <2> QED
      BY <2>4, <2>9, <2>10, <2>11 DEF Busy
  <1> QED
    BY <1>4, <1>5

\* A job ends after it has read the shares.
LEMMA CommitFinishes ==
  ASSUME TypeInv, CommitInv, NEW c \in ShareSlots, Finish(c)
  PROVE  CommitInv'
  <1>1. /\ OtherSlots(c) /\ UNCHANGED <<store, home, promised>>
        /\ call'[c] = Free /\ job'[c] = NoJob
    BY FinishMoves
  <1>2. Stored' = Stored
    BY <1>1 DEF Stored
  <1>3. promised' = promised /\ home'.selected = home.selected /\ job'[c].live = FALSE
    BY <1>1 DEF NoJob
  <1>4. \A b : ~ Busy(c, b)'
    BY <1>3 DEF Busy
  <1>5. CASE ~ job[c].live
    <2>1. \A d \in ShareSlots : SlotLeft(d)
      BY <1>1, <1>3, <1>5 DEF OtherSlots, SlotLeft
    <2>2. quiet' => quiet
      BY <1>5 DEF Finish
    <2> QED
      BY <1>2, <1>3, <2>1, <2>2, CommitLeft
  <1>6. CASE job[c].live
    <2> SUFFICES ASSUME quiet', promised' # NoPromise
                 PROVE  Working' /\ OneJobEach' /\ Heard'
      BY DEF CommitInv
    <2>1. Asks(c, "get_shares") /\ quiet
      BY <1>6 DEF Finish, SetShares
    <2>2. Working /\ OneJobEach /\ Heard
      BY <1>3, <2>1 DEF CommitInv
    <2>3. \A b : ~ Busy(c, b)
      BY <2>1, RequestsDiffer DEF Asks, Busy, Waits, Takes, Gives
    <2>4. Me \in Accounts
      BY HomeAssumption
    <2> QED
      BY <1>1, <1>2, <1>3, <1>4, <2>2, <2>3, <2>4, OneMoves
  <1> QED
    BY <1>5, <1>6

\* What is shown for an account: nothing if it is to lose the list, its mark if it has
\* one that is shown, and what the dialog knows.
LEMMA ShownRows ==
  ASSUME TypeInv, dialog.updates \subseteq Shown, NEW a
  PROVE  /\ a \in dialog.deleted => Row(Shown, a) = {}
         /\ \A u \in dialog.updates : u.shared = a => Row(Shown, a) = {u}
         /\ a \notin dialog.deleted /\ Row(dialog.updates, a) = {} =>
              Row(Shown, a) = Row(dialog.shares, a)
  <1>1. ASSUME NEW x \in Shown
        PROVE  /\ x.shared \notin dialog.deleted
               /\ x \in dialog.updates \/ (x \in dialog.shares /\ Row(dialog.updates, x.shared) = {})
    <2>1. x.shared \notin dialog.deleted
      BY ShownType
    <2>2. PICK i \in dialog.shares :
            x \in IF Row(dialog.updates, i.shared) # {} THEN Row(dialog.updates, i.shared) ELSE {i}
      BY DEF Shown
    <2> QED
      BY <2>1, <2>2 DEF Row
  <1>2. a \in dialog.deleted => Row(Shown, a) = {}
    BY <1>1 DEF Row
  <1>3. ASSUME NEW u \in dialog.updates, u.shared = a PROVE Row(Shown, a) = {u}
    <2>1. u \in Shown
      OBVIOUS
    <2>2. ASSUME NEW x \in Shown, x.shared = a PROVE x = u
      BY <1>1, <1>3, <2>2 DEF Row, TypeInv, MarksOK
    <2> QED
      BY <1>3, <2>1, <2>2 DEF Row
  <1>4. ASSUME a \notin dialog.deleted, Row(dialog.updates, a) = {}
        PROVE  Row(Shown, a) = Row(dialog.shares, a)
    <2>1. ASSUME NEW x \in dialog.shares, x.shared = a PROVE x \in Shown
      BY <1>4, <2>1 DEF Shown
    <2>2. ASSUME NEW x \in Shown, x.shared = a PROVE x \in dialog.shares
      BY <1>1, <1>4, <2>2 DEF Row
    <2> QED
      BY <2>1, <2>2 DEF Row
  <1> QED
    BY <1>2, <1>3, <1>4

\* Nobody has two rights.
LEMMA OneRight ==
  ASSUME TypeInv, UniqueKeys(store), NEW u \in Stored
  PROVE  Row(Stored, u.shared) = {u}
  <1>1. ASSUME NEW v \in Stored, v.shared = u.shared PROVE v = u
    <2>1. PICK t \in store.sharing : t.list = home.selected
              /\ u = [shared |-> t.shared, readonly |-> t.readonly]
      BY DEF Stored, SharesIn, OfList
    <2>2. PICK s \in store.sharing : s.list = home.selected
              /\ v = [shared |-> s.shared, readonly |-> s.readonly]
      BY DEF Stored, SharesIn, OfList
    <2>3. t.shared = s.shared
      BY <1>1, <2>1, <2>2
    <2>4. t = s
      BY <2>1, <2>2, <2>3 DEF UniqueKeys
    <2> QED
      BY <2>1, <2>2, <2>4
  <1> QED
    BY <1>1 DEF Row

\* An update promises what is shown, and starts a job for each account whose shares
\* are not so.
LEMMA CommitStarts ==
  ASSUME TypeInv, UniqueKeys(store), Commit, quiet', promised' # NoPromise
  PROVE  Working' /\ OneJobEach' /\ Heard'
  <1> DEFINE todos == Removals \cup Changes
  <1>1. /\ Settled /\ Truthful /\ promised' = Shown /\ UNCHANGED <<store, call, home>>
        /\ Spawn(todos)
    BY DEF Commit, Removals, Changes, homeVars
  <1>2. Stored' = Stored /\ home'.selected = home.selected /\ dialog.shares = Stored
          /\ dialog.updates \subseteq Shown
    BY <1>1 DEF Stored, Truthful
  <1>3. /\ dialog.updates \subseteq ShareInfo /\ dialog.deleted \subseteq Accounts
        /\ \A u, v \in dialog.updates : u.shared = v.shared => u = v
        /\ \A u \in dialog.updates : u.shared \notin dialog.deleted
    BY DEF TypeInv, MarksOK
  <1>4. /\ \A c \in ShareSlots : job'[c].live =>
              call[c] = Free /\ \E t \in todos : job'[c].todo = t
        /\ \A t \in todos : \E c \in ShareSlots : job'[c].live /\ job'[c].todo = t
        /\ \A c, d \in ShareSlots : job'[c].live /\ job'[d].live
                                      /\ job'[c].todo = job'[d].todo => c = d
    BY <1>1, SpawnMoves
  <1> DEFINE removal(a) == <<Taking(a), Rereading>>
             change(u) == <<Taking(u.shared), Share(Me, home.selected, u.shared, u.readonly),
                            Rereading>>
  <1>5. /\ Removals = {removal(a) : a \in dialog.deleted}
        /\ Changes = {change(u) : u \in dialog.updates \ dialog.shares}
    BY DEF Removals, Changes, UnshareThenShare, Taking, Rereading
  <1>6. ASSUME NEW c \in ShareSlots, job'[c].live, NEW a \in dialog.deleted,
               job'[c].todo = removal(a)
        PROVE  Busy(c, a)'
    <2>1. Row(promised', a) = {}
      BY <1>1, <1>2, ShownRows
    <2>2. job'[c].todo # <<>> /\ Head(job'[c].todo) = Taking(a) /\ Tail(job'[c].todo) = <<Rereading>>
      BY <1>6, Parts
    <2>3. Waits(c, a)'
      BY <1>1, <1>2, <1>4, <1>6, <2>1, <2>2 DEF Waits, LeftFor, Taking, Rereading, Todo
    <2> QED
      BY <1>6, <2>3 DEF Busy
  <1>7. ASSUME NEW c \in ShareSlots, job'[c].live, NEW u \in dialog.updates,
               job'[c].todo = change(u)
        PROVE  Busy(c, u.shared)'
    <2>1. Row(promised', u.shared) = {u}
      BY <1>1, <1>2, ShownRows
    <2>2. /\ job'[c].todo # <<>> /\ Head(job'[c].todo) = Taking(u.shared)
          /\ Tail(job'[c].todo) =
               <<Share(Me, home.selected, u.shared, u.readonly), Rereading>>
      BY <1>7, Parts
    <2>3. LeftFor(u.shared, Tail(Todo(c)))'
      <3>1. Tail(Todo(c)') = <<Share(Me, home'.selected, u.shared, u.readonly),
                               GetShares(Me, home'.selected)>>
        BY <1>2, <2>2 DEF Todo, Rereading
      <3> QED
        BY <2>1, <3>1 DEF LeftFor, Rereading
    <2>4. call'[c] = Free /\ Todo(c)' # <<>> /\ Head(Todo(c)') = UnshareWith(Me, home'.selected, u.shared)
      BY <1>1, <1>2, <1>4, <1>7, <2>2 DEF Taking, Todo
    <2>5. Waits(c, u.shared)'
      BY <2>3, <2>4 DEF Waits, Taking
    <2> QED
      BY <1>7, <2>5 DEF Busy
  <1>8. ASSUME NEW c \in ShareSlots, job'[c].live
        PROVE  \/ \E a \in dialog.deleted : job'[c].todo = removal(a)
               \/ \E u \in dialog.updates : job'[c].todo = change(u)
    BY <1>4, <1>5, <1>8
  <1> HIDE DEF todos
  <1>9. ASSUME NEW c \in ShareSlots, job'[c].live PROVE \E a \in Accounts : Busy(c, a)'
    BY <1>3, <1>6, <1>7, <1>8, <1>9 DEF ShareInfo
  <1>10. ASSUME NEW a \in Accounts
         PROVE  Row(Stored', a) = Row(promised', a) \/ \E c \in ShareSlots : Busy(c, a)'
    <2>1. CASE a \in dialog.deleted
      <3>1. removal(a) \in todos
        BY <1>5, <2>1 DEF todos
      <3>2. PICK c \in ShareSlots : job'[c].live /\ job'[c].todo = removal(a)
        BY <1>4, <3>1
      <3> QED
        BY <1>6, <2>1, <3>2
    <2>2. ASSUME NEW u \in dialog.updates \ dialog.shares, u.shared = a
          PROVE  \E c \in ShareSlots : Busy(c, a)'
      <3>1. change(u) \in todos
        BY <1>5 DEF todos
      <3>2. PICK c \in ShareSlots : job'[c].live /\ job'[c].todo = change(u)
        BY <1>4, <3>1
      <3> QED
        BY <1>7, <2>2, <3>2
    <2>3. ASSUME NEW u \in dialog.updates, u \in dialog.shares, u.shared = a
          PROVE  Row(Stored', a) = Row(promised', a)
      <3>1. Row(Shown, a) = {u}
        BY <1>2, <2>3, ShownRows
      <3>2. Row(Stored, a) = {u}
        BY <1>2, <2>3, OneRight
      <3> QED
        BY <1>1, <1>2, <3>1, <3>2
    <2>4. CASE a \notin dialog.deleted /\ Row(dialog.updates, a) = {}
      BY <1>1, <1>2, <2>4, ShownRows
    <2> QED
      BY <2>1, <2>2, <2>3, <2>4 DEF Row
  <1>11. promised' \subseteq ShareInfo
    BY <1>1, ShownType
  <1>12. Working'
    BY <1>9, <1>10, <1>11 DEF Working
  <1>13. ASSUME NEW c \in ShareSlots, NEW a, Busy(c, a)'
         PROVE  job'[c].live /\ Head(job'[c].todo) = Taking(a)
    <2>1. job'[c].live /\ call'[c] = Free
      BY <1>1, <1>4, <1>13 DEF Busy
    <2>2. Waits(c, a)'
      BY <1>13, <2>1 DEF Busy, Takes, Gives
    <2> QED
      BY <1>2, <2>1, <2>2 DEF Waits, Todo, Taking
  <1>14. ASSUME NEW c \in ShareSlots, NEW a \in Accounts, Busy(c, a)'
         PROVE  \/ a \in dialog.deleted /\ job'[c].todo = removal(a)
                \/ \E u \in dialog.updates : u.shared = a /\ job'[c].todo = change(u)
    <2>1. job'[c].live /\ Head(job'[c].todo) = Taking(a)
      BY <1>13, <1>14
    <2>2. ASSUME NEW b \in dialog.deleted, job'[c].todo = removal(b) PROVE b = a
      <3>1. Taking(b) = Taking(a)
        BY <2>1, <2>2, Parts
      <3> QED
        BY <3>1, RequestsDiffer
    <2>3. ASSUME NEW u \in dialog.updates, job'[c].todo = change(u) PROVE u.shared = a
      <3>1. Taking(u.shared) = Taking(a)
        BY <2>1, <2>3, Parts
      <3> QED
        BY <3>1, RequestsDiffer
    <2> QED
      BY <1>8, <2>1, <2>2, <2>3
  <1>15. OneJobEach'
    <2>1. ASSUME NEW c \in ShareSlots, NEW d \in ShareSlots, NEW a \in Accounts,
                 Busy(c, a)', Busy(d, a)'
          PROVE  c = d
      <3>1. job'[c].todo = job'[d].todo
        BY <1>3, <1>14, <2>1
      <3>2. job'[c].live /\ job'[d].live
        BY <1>13, <2>1
      <3> QED
        BY <1>4, <3>1, <3>2
    <2> QED
      BY <2>1 DEF OneJobEach
  <1>16. Heard'
    <2>1. \A c \in ShareSlots : job'[c].live => call'[c] = Free
      BY <1>1, <1>4
    <2> QED
      BY <2>1 DEF Heard, Takes, Gives
  <1> QED
    BY <1>12, <1>15, <1>16

\* Every step keeps it.
LEMMA CommitStep ==
  ASSUME TypeInv, UniqueKeys(store), CommitInv, [SharingNext]_vars
  PROVE  CommitInv'
  <1>1. ASSUME UNCHANGED <<home, job, promised>>, quiet' => quiet, quiet' => Stored' = Stored,
               \A c \in ShareSlots : call'[c] = call[c]
        PROVE  CommitInv'
    <2>1. \A c \in ShareSlots : SlotLeft(c)
      BY <1>1 DEF SlotLeft
    <2> QED
      BY <1>1, <2>1, CommitLeft
  <1>2. CASE UNCHANGED vars
    BY <1>1, <1>2 DEF vars, homeVars, dialogVars, Stored
  <1>3. CASE HomeStep
    <2>1. OwnCalls /\ UNCHANGED store
      BY <1>3, HomeType DEF HomeStep
    <2>2. CASE home'.selected = home.selected /\ UNCHANGED dialogVars
      <3>1. Stored' = Stored
        BY <2>1, <2>2 DEF Stored
      <3>2. quiet' = quiet /\ promised' = promised /\ job' = job
        BY <2>2 DEF dialogVars
      <3>3. \A c \in ShareSlots : SlotLeft(c)
        BY <2>1, <3>2 DEF OwnCalls, SlotLeft
      <3> QED
        BY <2>2, <3>1, <3>2, <3>3, CommitLeft
    <2>3. CASE promised' = NoPromise
      BY <2>3 DEF CommitInv
    <2> QED
      BY <1>3, <2>2, <2>3 DEF HomeStep, Follow
  <1>4. CASE HomeServed
    <2>1. PICK c \in HomeSlots : Serve(c) /\ UNCHANGED home
      BY <1>4 DEF HomeServed, ServeHome
    <2>2. \A d \in ShareSlots : call'[d] = call[d]
      BY <2>1, ServeKeeps, Slots DEF TypeInv
    <2>3. UNCHANGED <<home, job, promised>>
            /\ quiet' = (quiet /\ store'.sharing = store.sharing)
      BY <1>4, <2>1 DEF HomeServed
    <2>4. (quiet' => quiet) /\ (quiet' => Stored' = Stored)
      BY <2>3 DEF Stored
    <2> QED
      BY <1>1, <2>2, <2>3, <2>4
  <1>5. CASE SomebodyElse
    <2>1. UNCHANGED <<home, call, job, promised>>
            /\ quiet' = (quiet /\ store'.sharing = store.sharing)
      BY <1>5 DEF SomebodyElse
    <2>2. (quiet' => quiet) /\ (quiet' => Stored' = Stored)
      BY <2>1 DEF Stored
    <2> QED
      BY <1>1, <2>1, <2>2
  <1>6. ASSUME NEW i \in Shown, Delete(i) \/ SetWriteReadonly(i) PROVE CommitInv'
    <2>1. UNCHANGED <<home, store, call, job, promised>> /\ quiet' = (quiet /\ Settled)
      BY <1>6 DEF Delete, SetWriteReadonly, Mark, homeVars
    <2>2. (quiet' => quiet) /\ Stored' = Stored
      BY <2>1 DEF Stored
    <2> QED
      BY <1>1, <2>1, <2>2
  <1>7. CASE Cancel
    <2>1. UNCHANGED <<home, store, call, job, promised, quiet>>
      BY <1>7 DEF Cancel, homeVars
    <2> QED
      BY <1>1, <2>1 DEF Stored
  <1>8. CASE Commit
    BY <1>8, CommitStarts DEF CommitInv
  <1>9. CASE AddShare
    BY <1>9 DEF AddShare, CommitInv
  <1>10. CASE DialogNext
    BY <1>6, <1>7, <1>8, <1>9, <1>10, CommitAsks, CommitFinishes, CommitServed DEF DialogNext
  <1> QED
    BY <1>2, <1>3, <1>4, <1>5, <1>10 DEF SharingNext

LEMMA CommitsStay == Spec => []CommitInv
  <1>1. SharingInit => CommitInv
    BY DEF SharingInit, DialogInit, CommitInv
  <1>2. TypeInv /\ UniqueKeys(store) /\ CommitInv /\ [SharingNext]_vars => CommitInv'
    BY CommitStep
  <1> QED
    BY <1>1, <1>2, TypesStay, KeysStay, PTL DEF Spec

\* When all jobs of an "Update" are done, the list is shared with those the dialog
\* showed, with the rights it showed, if it knew the shares then and had no marks it
\* did not show, no job failed and nobody else shared the list: each account has one
\* job, and whatever the order in which the jobs are served, none undoes what another
\* has done (web/src/pages/home/modals/sharing.rs, Commit).
THEOREM UpdatesAreShown == Spec => []CommitIsShown
  <1>1. ASSUME TypeInv, CommitInv PROVE CommitIsShown
    <2> SUFFICES ASSUME quiet, Settled, promised # NoPromise PROVE Stored = promised
      BY DEF CommitIsShown
    <2>1. Working
      BY <1>1 DEF CommitInv
    <2>2. \A a \in Accounts : Row(Stored, a) = Row(promised, a)
      BY <2>1 DEF Working, Settled, Busy
    <2>3. Stored \subseteq ShareInfo
      BY <1>1, ShareInfoType DEF Stored, TypeInv, ClientInv
    <2>4. \A i \in ShareInfo : i.shared \in Accounts
      BY DEF ShareInfo
    <2> QED
      BY <2>1, <2>2, <2>3, <2>4 DEF Row, Working
  <1> QED
    BY <1>1, TypesStay, CommitsStay, PTL
=============================================================================

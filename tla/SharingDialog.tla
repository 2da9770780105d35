---------------------------- MODULE SharingDialog ---------------------------
(***************************************************************************)
(* The dialog "Update List Sharing" of the selected list                   *)
(* (web/src/pages/home/modals/sharing.rs).                                 *)
(*                                                                         *)
(* Clicks on its rows only mark accounts: to lose the list, or to get the  *)
(* other right.  "Update" turns the marks into jobs that run side by side, *)
(* one for each account; a change of right is an unshare and a share.      *)
(* Each job that went well reads the shares again.  The marks are kept     *)
(* when another list is selected, and when the dialog is closed by its     *)
(* cross; "Cancel" drops them.                                             *)
(***************************************************************************)
EXTENDS Home

CONSTANTS ShareSlots,      \* callers that stand for the jobs of the dialog
          OthersRequests,  \* what somebody else may do
          MaxOthers        \* bound: how often

ASSUME SlotsAssumption ==
  Callers = HomeSlots \cup ShareSlots /\ HomeSlots \cap ShareSlots = {}
ASSUME OthersAssumption ==
  OthersRequests \subseteq {r \in Request : WellFormed(r)} /\ MaxOthers \in Nat

VARIABLES
  dialog,    \* whether it is there, the shares it knows, and the marks
  job,       \* job[c]: the requests the job in slot c has still to send, and
             \* whether its dialog is still there
  quiet,     \* auxiliary: since the list was selected, without marks, no job
             \* failed or overlapped with a click, and nobody else shared it
  promised,  \* auxiliary: the shares shown at the last "Update", if the dialog
             \* was right about those there were
  clicked,   \* auxiliary: accounts clicked on since the last "Cancel"
  marked,    \* auxiliary: <<list, account>>, those clicked on at an "Update"
  others     \* the number of requests of somebody else

dialogVars == <<dialog, job, quiet, promised, clicked, marked>>
vars == <<store, call, next, homeVars, clicks, dialogVars, others>>

ShareInfo == [shared : Accounts, readonly : BOOLEAN]
SharesIn(rows) == {[shared |-> t.shared, readonly |-> t.readonly] : t \in rows}
Stored == SharesIn(OfList(store.sharing, home.selected))

NoDialog == [there |-> FALSE, shares |-> {}, updates |-> {}, deleted |-> {}]
NoJob == [live |-> FALSE, todo |-> <<>>]
NoPromise == NULL

DialogInit ==
  /\ dialog = NoDialog
  /\ job = [c \in ShareSlots |-> NoJob]
  /\ quiet = FALSE /\ promised = NoPromise /\ clicked = {} /\ marked = {}

Settled == \A c \in ShareSlots : ~ job[c].live
Unmarked(d) == d.updates = {} /\ d.deleted = {}

\* Slots without a job.
Spare == {c \in ShareSlots : job[c] = NoJob /\ call[c] = Free}

\* spawn_local: the jobs run side by side, one for each sequence of requests.
Spawn(todos) ==
  \E slot \in [todos -> Spare] :
    /\ \A s, t \in todos : slot[s] = slot[t] => s = t
    /\ job' = [c \in ShareSlots |->
                 IF \E t \in todos : slot[t] = c
                 THEN [live |-> TRUE, todo |-> CHOOSE t \in todos : slot[t] = c]
                 ELSE job[c]]

Row(infos, a) == {i \in infos : i.shared = a}

\* The rows of the dialog, with the marks.
Shown == UNION {IF Row(dialog.updates, i.shared) # {} THEN Row(dialog.updates, i.shared)
                ELSE {i} : i \in {x \in dialog.shares : x.shared \notin dialog.deleted}}

---------------------------------------------------------------------------
(***************************************************************************)
(* The dialog is there while the side bar has the selected list.  It asks  *)
(* for the shares when it comes up and when another list is selected; the  *)
(* jobs of one that goes away run on.                                      *)
(***************************************************************************)
Follow ==
  LET here == Selected(home') # {} IN
  \/ /\ here /\ dialog.there /\ home'.selected = home.selected
     /\ UNCHANGED dialogVars
  \/ /\ here /\ ~ (dialog.there /\ home'.selected = home.selected)
     /\ Spawn({<<GetShares(Me, home'.selected)>>})
     /\ dialog' = [dialog EXCEPT !.there = TRUE]
     /\ quiet' = (Settled /\ Unmarked(dialog)) /\ promised' = NoPromise
     /\ UNCHANGED <<clicked, marked>>
  \/ /\ ~ here
     /\ job' = [c \in ShareSlots |-> [job[c] EXCEPT !.live = FALSE]]
     /\ dialog' = NoDialog /\ quiet' = FALSE /\ promised' = NoPromise
     /\ clicked' = {} /\ UNCHANGED marked

HomeStep == HomeNext /\ Follow

---------------------------------------------------------------------------
(***************************************************************************)
(* Clicks.                                                                 *)
(***************************************************************************)
Mark(a, updates, deleted) ==
  /\ Click
  /\ dialog' = [dialog EXCEPT !.updates = updates, !.deleted = deleted]
  /\ clicked' = clicked \cup {a}
  /\ quiet' = (quiet /\ Settled)
  /\ UNCHANGED <<store, call, next, homeVars, job, promised, marked>>

\* Fault: a change of right that was marked stays.
DeleteKeepingUpdate(i) ==
  Mark(i.shared, dialog.updates, dialog.deleted \cup {i.shared})

Delete(i) ==
  Mark(i.shared, dialog.updates \ Row(dialog.updates, i.shared),
       dialog.deleted \cup {i.shared})

SetWriteReadonly(i) ==
  Mark(i.shared, (dialog.updates \ Row(dialog.updates, i.shared))
                   \cup {[i EXCEPT !.readonly = ~ @]}, dialog.deleted)

\* Fault: only the deletions are dropped.
ClearDeleted == dialog' = [dialog EXCEPT !.deleted = {}]

Clear == dialog' = [dialog EXCEPT !.deleted = {}, !.updates = {}]

Cancel ==
  /\ ~ Unmarked(dialog)
  /\ Clear
  /\ clicked' = {}
  /\ UNCHANGED <<store, call, next, homeVars, clicks, job, quiet, promised, marked>>

\* Fault: the share comes first.
ShareThenUnshare(u) ==
  <<Share(Me, home.selected, u.shared, u.readonly),
    UnshareWith(Me, home.selected, u.shared), GetShares(Me, home.selected)>>

\* The requests of a change of right.
UnshareThenShare(u) ==
  <<UnshareWith(Me, home.selected, u.shared),
    Share(Me, home.selected, u.shared, u.readonly), GetShares(Me, home.selected)>>

\* The dialog knows the shares there are, and shows all changes of rights; a mark
\* stays when its row goes away.
Truthful == dialog.shares = Stored /\ dialog.updates \subseteq Shown

\* An update that is what the dialog knows anyway needs no request.
Commit ==
  /\ Click
  /\ dialog.there
  /\ Spawn({<<UnshareWith(Me, home.selected, a), GetShares(Me, home.selected)>> :
              a \in dialog.deleted}
           \cup {UnshareThenShare(u) : u \in dialog.updates \ dialog.shares})
  /\ dialog' = [dialog EXCEPT !.deleted = {}, !.updates = {}]
  /\ quiet' = (quiet /\ Settled)
  /\ promised' = IF quiet /\ Truthful THEN Shown ELSE NoPromise
  /\ clicked' = {}
  /\ marked' = marked \cup {<<home.selected, a>> : a \in clicked}
  /\ UNCHANGED <<store, call, next, homeVars>>

\* The name that was typed is that of a, or a pattern that matches it.
AddShare ==
  /\ Click
  /\ dialog.there
  /\ \E typed \in Accounts : \E a \in Alike[typed] :
       Spawn({<<Share(Me, home.selected, a, FALSE), GetShares(Me, home.selected)>>})
  /\ quiet' = (quiet /\ Settled) /\ promised' = NoPromise
  /\ UNCHANGED <<store, call, next, homeVars, dialog, clicked, marked>>

---------------------------------------------------------------------------
(***************************************************************************)
(* Jobs.                                                                   *)
(***************************************************************************)
Todo(c) == job[c].todo

\* A failure ends a job, except that of the unshare before a share.
GoesOn(c) ==
  Todo(c) # <<>> /\ (Succeeded(c) \/ Head(Todo(c)).op = "share_list")

AskNext(c) ==
  /\ Todo(c) # <<>>
  /\ \/ Send(c, Head(Todo(c))) /\ UNCHANGED quiet
     \/ /\ GoesOn(c) /\ SendNext(c, Head(Todo(c)))
        /\ quiet' = (quiet /\ Succeeded(c))
  /\ job' = [job EXCEPT ![c].todo = Tail(@)]
  /\ UNCHANGED <<next, homeVars, clicks, dialog, promised, clicked, marked>>

\* SetShares: the shares that came, those whose account has a name that came
\* as well, or none.
SetShares(c) ==
  \/ Succeeded(c) /\ dialog' = [dialog EXCEPT !.shares = SharesIn(call[c].rows.sharing)]
       /\ UNCHANGED quiet
  \/ Failures /\ Succeeded(c) /\ quiet' = FALSE
       /\ \E some \in SUBSET SharesIn(call[c].rows.sharing) :
            dialog' = [dialog EXCEPT !.shares = some]
  \/ ~ Succeeded(c) /\ dialog' = [dialog EXCEPT !.shares = {}] /\ quiet' = FALSE

\* Nobody hears of a job that fails before it asks for the shares.
Finish(c) ==
  /\ Answered(c) /\ ~ GoesOn(c)
  /\ Leave(c)
  /\ job' = [job EXCEPT ![c] = NoJob]
  /\ IF ~ job[c].live THEN UNCHANGED <<dialog, quiet>>
     ELSE IF Asks(c, "get_shares") THEN SetShares(c)
     ELSE quiet' = FALSE /\ UNCHANGED dialog
  /\ UNCHANGED <<next, homeVars, clicks, promised, clicked, marked>>

ServeDialog(c) ==
  /\ Serve(c)
  /\ quiet' = (quiet /\ (job[c].live \/ store'.sharing = store.sharing))
  /\ UNCHANGED <<homeVars, clicks, dialog, job, promised, clicked, marked>>

\* Home's requests change the lists Me has, and with them the shares.
HomeServed ==
  /\ \E c \in HomeSlots : ServeHome(c)
  /\ quiet' = (quiet /\ store'.sharing = store.sharing)
  /\ UNCHANGED <<dialog, job, promised, clicked, marked>>

\* A request of another account is served.
SomebodyElse ==
  /\ others < MaxOthers
  /\ others' = others + 1
  /\ \E r \in OthersRequests :
       /\ Allowed(r, store) /\ Fresh(r, store, next)
       /\ Possible(r, store, Effect(r, store, next))
       /\ store' = Effect(r, store, next) /\ next' = next + IdsUsed(r)
  /\ quiet' = (quiet /\ store'.sharing = store.sharing)
  /\ current' = (current /\ MyLists(store') = MyLists(store))
  /\ UNCHANGED <<call, home, errand, clicks, dialog, job, promised, clicked, marked>>

DialogNext ==
  \/ Cancel \/ Commit \/ AddShare
  \/ \E i \in Shown : Delete(i) \/ SetWriteReadonly(i)
  \/ \E c \in ShareSlots : AskNext(c) \/ Finish(c) \/ ServeDialog(c)

SharingNext == ((HomeStep \/ HomeServed \/ DialogNext) /\ UNCHANGED others) \/ SomebodyElse

SharingInit == Init /\ next = 1 + Cardinality(InitialStore.lists)
                 /\ HomeInit /\ DialogInit /\ others = 0

Spec == SharingInit /\ [][SharingNext]_vars

---------------------------------------------------------------------------
(***************************************************************************)
(* Properties.                                                             *)
(***************************************************************************)
TypeOK ==
  /\ store \in Store /\ ReferencesHold(store)
  /\ HomeTypeOK /\ others \in 0 .. MaxOthers
  /\ dialog \in [there : BOOLEAN, shares : SUBSET ShareInfo, updates : SUBSET ShareInfo,
                 deleted : SUBSET Accounts]
  /\ \A u, v \in dialog.updates : u.shared = v.shared => u = v
  /\ \A u \in dialog.updates : u.shared \notin dialog.deleted
  /\ dialog.there <=> Selected(home) # {}
  /\ \A c \in ShareSlots : \/ job[c].live \/ job[c] = NoJob \/ call[c] # Free
                           \/ Todo(c) # <<>>
  /\ quiet \in BOOLEAN /\ clicked \subseteq Accounts
  /\ marked \subseteq Nat \X Accounts

\* When all jobs of an "Update" are done, the list is shared with those the
\* dialog showed, with the rights it showed, if it knew the shares then and had
\* no marks it did not show or that were made on another list, no job failed and
\* nobody else shared the list: the jobs run in any order, and a share does
\* nothing where there is one.
CommitIsShown == quiet /\ Settled /\ promised # NoPromise => Stored = promised

\* No job of the dialog takes a list from an account that was not clicked on
\* since the last "Cancel", whatever was selected, failed or overlapped.
OnlyMarked ==
  [][\A c \in ShareSlots : ServeDialog(c) =>
       \A t \in store.sharing \ store'.sharing : <<t.list, t.shared>> \in marked]_<<store, call>>
=============================================================================

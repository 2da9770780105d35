-------------------------------- MODULE Home --------------------------------
(***************************************************************************)
(* The frame of the web client around the page of a list, for the account  *)
(* Me: the lists in the side bar, the selected one (that of the URL), and  *)
(* the dialogs for a new list, the visibility of a list and its deletion   *)
(* (web/src/pages/home/mod.rs, sidebar.rs, visibility.rs, new_list.rs).    *)
(*                                                                         *)
(* Each of them sends a request, and asks for all lists again.             *)
(***************************************************************************)
EXTENDS Client

CONSTANTS Me,
          HomeSlots,      \* callers that stand for what Home has under way
          Links,          \* lists Me has in the side bar or a bookmark of
          NewNames,       \* names for new lists
          MaxClicks       \* bound: what the user does before the model stops

ASSUME HomeAssumption ==
  /\ Me \in Accounts /\ HomeSlots \subseteq Callers
  /\ Links \subseteq Nat \ {0} /\ NewNames \subseteq Names /\ MaxClicks \in Nat

VARIABLES
  home,     \* the lists shown, the selected one, the box "Public List", and
            \* whether an error is shown
  errand,   \* errand[c]: what follows on the answer in slot c
  clicks,
  current   \* auxiliary: nobody else changed the lists Me has, and no two
            \* errands overlapped, since the lists were last asked for

homeVars == <<home, errand, current>>

NoList == 0
Nothing == "nothing"

HomeInit ==
  /\ home = [entered |-> FALSE, lists |-> {}, selected |-> NoList, public |-> FALSE,
             error |-> FALSE]
  /\ errand = [c \in HomeSlots |-> Nothing]
  /\ clicks = 0 /\ current = FALSE

AtHome == \A c \in HomeSlots : errand[c] = Nothing
Click == home.entered /\ clicks < MaxClicks /\ clicks' = clicks + 1

\* The rows of the selected list, if the side bar has it; the dialogs are there
\* only then, and the one of visibility for the owner only.
Selected(h) == {l \in h.lists : l.id = h.selected}
Owned(h) == {l \in Selected(h) : l.owner = Me}

\* Drawn again, the dialog of visibility takes its box from the list.
Drawn(h) == [h EXCEPT !.public = \E l \in Owned(h) : l.pub]

---------------------------------------------------------------------------
Run(c, r, then) ==
  /\ Send(c, r)
  /\ errand' = [errand EXCEPT ![c] = then]
  /\ current' = (current /\ AtHome)
  /\ UNCHANGED next

\* create(), on the URL of a list or of none.
Enter(c) ==
  /\ ~ home.entered
  /\ \E l \in Links \cup {NoList} : home' = [home EXCEPT !.entered = TRUE, !.selected = l]
  /\ Send(c, Lists(Me))
  /\ errand' = [errand EXCEPT ![c] = "show"]
  /\ current' = TRUE
  /\ UNCHANGED <<clicks, next>>

Select(l) ==
  /\ Click
  /\ l # home.selected
  /\ home' = Drawn([home EXCEPT !.selected = l])
  /\ UNCHANGED <<store, call, next, errand, current>>

OnNewList(c) ==
  /\ Click
  /\ \E n \in NewNames : Run(c, CreateList(Me, n), "lists")
  /\ UNCHANGED home

OnDeleteList(c) ==
  /\ Click
  /\ Owned(home) # {}
  /\ Run(c, DeleteList(Me, home.selected), "leave")
  /\ UNCHANGED home

TogglePublic ==
  /\ Click
  /\ Owned(home) # {}
  /\ home' = [home EXCEPT !.public = ~ @]
  /\ UNCHANGED <<store, call, next, errand, current>>

\* on_toggle follows whether it succeeds or not.
UpdateVisibility(c) ==
  /\ Click
  /\ Owned(home) # {}
  /\ Run(c, IF home.public THEN SetPublic(Me, home.selected)
            ELSE RemovePublic(Me, home.selected), "toggled")
  /\ UNCHANGED home

DismissError ==
  /\ home.error
  /\ home' = Drawn([home EXCEPT !.error = FALSE])
  /\ UNCHANGED <<store, call, next, errand, clicks, current>>

---------------------------------------------------------------------------
\* The lists are asked for once the list was made, deleted or toggled.
Reloads(c) == errand[c] = "toggled" \/ (errand[c] \in {"lists", "leave"} /\ Succeeded(c))

\* After a deletion the URL is that of no list, whichever is selected by now.
AskForLists(c) ==
  /\ Answered(c) /\ Reloads(c)
  /\ SendNext(c, Lists(Me))
  /\ errand' = [errand EXCEPT ![c] = "show"]
  /\ home' = IF errand[c] = "leave" THEN Drawn([home EXCEPT !.selected = NoList]) ELSE home
  /\ UNCHANGED <<next, clicks, current>>

\* Fault: only which lists there are is compared.
SameIds(rows, lists) == {l.id : l \in rows} = {l.id : l \in lists}

\* The comparison of SetLists.
SameLists(rows, lists) == rows = lists

\* SetLists draws only if there is something new; an error is drawn too.  The
\* names of the owners are asked for as well, and one failure is enough.
ShowLists(c) ==
  /\ Answered(c) /\ ~ Reloads(c)
  /\ Leave(c)
  /\ errand' = [errand EXCEPT ![c] = Nothing]
  /\ \/ /\ Succeeded(c) /\ errand[c] = "show"
        /\ home' = IF SameLists(home.lists, call[c].rows.lists) THEN home
                   ELSE Drawn([home EXCEPT !.lists = call[c].rows.lists])
        /\ UNCHANGED current
     \/ /\ ~ Succeeded(c) \/ Failures
        /\ home' = Drawn([home EXCEPT !.error = TRUE])
        /\ current' = FALSE
  /\ UNCHANGED <<next, clicks>>

MyLists(s) == OwnedLists(s, Me) \cup SharedLists(s, Me)

\* The server answers Home.
ServeHome(c) ==
  /\ Serve(c)
  /\ UNCHANGED <<home, errand, clicks, current>>

HomeNext ==
  \/ TogglePublic \/ DismissError
  \/ \E l \in Links : Select(l)
  \/ \E c \in HomeSlots :
       Enter(c) \/ OnNewList(c) \/ OnDeleteList(c) \/ UpdateVisibility(c)
         \/ AskForLists(c) \/ ShowLists(c)

---------------------------------------------------------------------------
HomeTypeOK ==
  /\ home \in [entered : BOOLEAN, lists : SUBSET ListRow, selected : Links \cup {NoList},
               public : BOOLEAN, error : BOOLEAN]
  /\ errand \in [HomeSlots -> {Nothing, "show", "lists", "leave", "toggled"}]
  /\ \A c \in HomeSlots : errand[c] = Nothing <=> call[c] = Free
  /\ clicks \in 0 .. MaxClicks /\ current \in BOOLEAN

\* At rest, the side bar shows the lists there are, with their visibility, if
\* the user waited for each answer and nobody else made, shared or removed one:
\* whatever Home changes it reads again.
SideBarIsTrue == current /\ AtHome => home.lists = MyLists(store)
=============================================================================

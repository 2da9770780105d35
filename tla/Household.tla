------------------------------ MODULE Household -----------------------------
(***************************************************************************)
(* The list page of one account and the command line of another, or of the *)
(* same one, on the same lists.                                            *)
(***************************************************************************)
EXTENDS ListPage, CommandLine

ASSUME CallersAssumption == Callers = Slots \cup {Shell} /\ Shell \notin Slots

VARIABLE chosen   \* auxiliary: <<list, aim>>, what users have meant to change

vars == <<store, call, next, pageVars, shellVars, chosen>>

HouseholdInit == Init /\ next = 1 + Cardinality(InitialStore.lists)
                          + Cardinality(InitialStore.content)
                          + Cardinality(InitialStore.pantry)
                   /\ PageInit /\ ShellInit /\ chosen = {}

\* The row a request is about, of the items or of the pantry.
RowOf(r) ==
  <<IF r.op \in {"set_pantry_item", "delete_pantry_item"} THEN "pantry" ELSE "item", r.item>>

\* By a click: the row that is shown, on the list of the URL, whichever list it
\* is shown from.
Clicked ==
  {<<page.list, row>> : row \in
     {x \in Shown : \E c \in Slots : call'[c] # call[c] /\ call'[c].status = "sent"
                                       /\ RowOf(call'[c].req) = x}}

\* What of a list a command is about: a row of its pantry, or what is done.
Aim(m) == IF m.do \in {"pantry edit", "pantry delete"} THEN <<"pantry", m.id>> ELSE <<m.do, NoItem>>

\* By a command: its list, if the name was a part of that of one list only
\* when the server looked, and the items that had the name they were given.
Meant ==
  LET r == call[Shell].req
      lists == {l \in OwnedLists(store, User) \cup SharedLists(store, User) :
                  l.name \in Like(r.name)}
  IN CASE step = "search" /\ Cardinality(lists) = 1 -> {<<l.id, Aim(command)>> : l \in lists}
       [] step = "read" /\ <<r.list, Aim(command)>> \in chosen ->
            {<<r.list, <<"item", c.id>>>> :
               c \in {x \in OfList(store.content, r.list) : x.name \in Like(command.item)}}
       [] OTHER -> {}

HouseholdNext ==
  \/ PageNext /\ UNCHANGED shellVars /\ chosen' = chosen \cup Clicked
  \/ (Type \/ OnSearch \/ OnRead \/ OnAct) /\ UNCHANGED <<pageVars, chosen>>
  \/ ServeShell /\ chosen' = chosen \cup Meant
       /\ quiet' = (quiet /\ store' = store) /\ UNCHANGED <<page, job, blank, clicks>>

Spec == HouseholdInit /\ [][HouseholdNext]_vars

---------------------------------------------------------------------------
TypeOK ==
  /\ store \in Store /\ ReferencesHold(store)
  /\ PageTypeOK /\ ShellTypeOK

\* Nothing is lost or changed that nobody meant: an item goes away or changes
\* only if its row was clicked on on the page of its own list, if a command
\* found it by its name on the only list of the name it was given, or with the
\* list or the pantry item it belongs to; a list or a share only if a command
\* that does so found that list.  Clicks are on what a page shows, which may be
\* of another list or long gone; commands go by what two earlier answers said.
OnlyChosen ==
  [][LET meant(l, kind, n) == <<l, <<kind, n>>>> \in chosen
         told(l, kinds) == \E do \in kinds : meant(l, do, NoItem)
     IN
     /\ \A c \in store.content \ store'.content :
          \/ meant(c.list, "item", c.id) \/ told(c.list, {"delete"})
          \/ c.from_pantry # NoItem /\ meant(c.list, "pantry", c.from_pantry)
     /\ \A q \in store.pantry \ store'.pantry :
          \/ meant(q.list, "pantry", q.item)
          \/ \E c \in store.content \ store'.content : c.from_pantry = q.item
     /\ \A l \in store.lists \ store'.lists :
          IF l.id \in ListIds(store') THEN told(l.id, {"public set", "public remove"})
          ELSE told(l.id, {"delete"})
     /\ \A t \in store.sharing \ store'.sharing :
          told(t.list, {"share delete", "share delete all", "delete"})]_vars
=============================================================================

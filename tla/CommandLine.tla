----------------------------- MODULE CommandLine ----------------------------
(***************************************************************************)
(* The command line client (cli/src/main.rs), run by the account User.     *)
(*                                                                         *)
(* A command names its list by a part of the name; it searches, and goes   *)
(* on only if it finds one list.  For an item it reads the list and looks  *)
(* for a part of the name again, and asks the user when several match.     *)
(* Then it sends its request, or several for several accounts.  Nothing is *)
(* locked between one request and the next.                                *)
(***************************************************************************)
EXTENDS Client

CONSTANTS User, Shell,   \* the account, and the caller that stands for the process
          Commands,      \* what users type
          MaxCommands    \* bound: how many commands

\* What can be typed: a command, and the arguments it takes.
Kinds ==
  {"lists", "lists create", "show", "delete", "add", "history", "item tick", "item update",
   "share", "share add", "share delete", "share delete all", "public set", "public remove",
   "pantry", "pantry add", "pantry edit", "pantry delete", "pantry refill"}

Command ==
  [do : Kinds, list : Names \cup {NULL}, item : Names \cup {NULL}, accounts : Seq(Accounts),
   name : Names \cup {NULL}, amount : Amount, readonly : BOOLEAN, id : Nat,
   stock : Int \cup {NULL}, target : Int \cup {NULL}]

\* The arguments that are not optional.
Parsed(m) ==
  /\ m.list = NULL <=> m.do \in {"lists", "lists create"}
  /\ m.item # NULL <=> m.do \in {"item tick", "item update"}
  /\ m.do \in {"add", "lists create", "pantry add"} => m.name # NULL
  /\ m.do = "pantry add" => m.target # NULL

ASSUME CommandAssumption ==
  /\ User \in Accounts /\ Shell \in Callers /\ MaxCommands \in Nat
  /\ Commands \subseteq Command /\ \A m \in Commands : Parsed(m)

VARIABLES
  command,  \* what was typed; accounts shrinks as they are dealt with
  step,     \* the request the process waits for
  typed     \* the number of commands typed

shellVars == <<command, step, typed>>

NoCommand == [do |-> "nothing"]

ShellInit == command = NoCommand /\ step = "none" /\ typed = 0

---------------------------------------------------------------------------
\* ItemAction, ShareAction, PublicAction and PantryAction: the request for the
\* list l, the item i, the account a.
ItemAction(m, l, i) ==
  CASE m.do = "item tick"   -> DeleteItem(User, l, i)
    [] m.do = "item update" -> UpdateItem(User, l, i, m.name, m.amount)

ShareAction(m, l, a) ==
  CASE m.do = "share"            -> GetShares(User, l)
    [] m.do = "share add"        -> Share(User, l, a, m.readonly)
    [] m.do = "share delete"     -> UnshareWith(User, l, a)
    [] m.do = "share delete all" -> DeleteShare(User, l)

PublicAction(m, l) ==
  CASE m.do = "public set"    -> SetPublic(User, l)
    [] m.do = "public remove" -> RemovePublic(User, l)

\* For the pantry, users type the number of an item.
PantryAction(m, l) ==
  CASE m.do = "pantry"        -> Pantry(User, l)
    [] m.do = "pantry add"    -> AddToPantry(User, l, m.name, m.target)
    [] m.do = "pantry edit"   -> EditPantryItem(User, l, m.id, m.stock, m.target)
    [] m.do = "pantry delete" -> DeletePantryItem(User, l, m.id)
    [] m.do = "pantry refill" -> RefillPantry(User, l)

\* ListAction, and the commands about no list.
Sends(m, l, i, a) ==
  CASE m.do = "show"         -> Read(User, l)
    [] m.do = "delete"       -> DeleteList(User, l)
    [] m.do = "add"          -> Add(User, l, m.name, m.amount)
    [] m.do = "history"      -> SearchHistory(User, l, m.name)
    [] m.do = "lists"        -> Lists(User)
    [] m.do = "lists create" -> CreateList(User, m.name)
    [] m.do \in {"item tick", "item update"} -> ItemAction(m, l, i)
    [] m.do \in {"share", "share add", "share delete", "share delete all"} -> ShareAction(m, l, a)
    [] m.do \in {"public set", "public remove"} -> PublicAction(m, l)
    [] OTHER                 -> PantryAction(m, l)

\* Share add and share delete look accounts up by their names.
ByAccount(m) == m.do \in {"share add", "share delete"}

\* lists and lists create are about no list.
Type ==
  /\ step = "none" /\ typed < MaxCommands
  /\ \E m \in Commands :
       /\ command' = m
       /\ IF m.list = NULL
          THEN Send(Shell, Sends(m, 0, NoItem, User)) /\ step' = "act"
          ELSE Send(Shell, Search(User, m.list)) /\ step' = "search"
  /\ typed' = typed + 1
  /\ UNCHANGED next

\* The process ends.
Stop == Leave(Shell) /\ step' = "none" /\ command' = NoCommand /\ UNCHANGED <<typed, next>>

Go(r, label) == SendNext(Shell, r) /\ step' = label /\ UNCHANGED <<command, typed, next>>

Results == call[Shell].rows.lists

\* Fault: any of several lists is taken.
FoundFirst == Succeeded(Shell) /\ Results # {}

\* "No such list", "Multiple matches".
FoundOne == Succeeded(Shell) /\ Cardinality(Results) = 1

\* The account of a name is looked up first; any that matches it may come.
Act(l, i) ==
  IF ~ ByAccount(command) THEN Go(Sends(command, l, i, User), "act")
  ELSE command.accounts # <<>> /\ \E a \in Alike[Head(command.accounts)] :
         /\ SendNext(Shell, Sends(command, l, i, a))
         /\ step' = "act"
         /\ command' = [command EXCEPT !.accounts = Tail(@)]
         /\ UNCHANGED <<typed, next>>

OnSearch ==
  /\ step = "search" /\ Answered(Shell)
  /\ \/ FoundOne /\ \E l \in Results :
          IF command.item = NULL THEN Act(l.id, NoItem) ELSE Go(Read(User, l.id), "read")
     \/ ~ FoundOne /\ Stop
     \/ ByAccount(command) /\ Stop    \* search_account fails, or no account is named

Matches == {c \in call[Shell].rows.content : c.name \in Like(command.item)}

\* items[0] or the one the user chooses.
OnRead ==
  /\ step = "read" /\ Answered(Shell)
  /\ IF Succeeded(Shell) /\ Matches # {}
     THEN \/ \E c \in Matches : Act(call[Shell].req.list, c.id)
          \/ Cardinality(Matches) > 1 /\ Stop
     ELSE Stop

\* share delete goes on with the next account, unless something fails.
OnAct ==
  /\ step = "act" /\ Answered(Shell)
  /\ IF Succeeded(Shell) /\ ByAccount(command) /\ command.accounts # <<>>
     THEN Act(call[Shell].req.list, NoItem) \/ Stop
     ELSE Stop

ServeShell == Serve(Shell) /\ UNCHANGED shellVars

ShellNext == Type \/ OnSearch \/ OnRead \/ OnAct \/ ServeShell

---------------------------------------------------------------------------
ShellTypeOK ==
  /\ command.do \in {"nothing"} \cup {m.do : m \in Commands}
  /\ step \in {"none", "search", "read", "act"}
  /\ step = "none" <=> call[Shell] = Free
  /\ typed \in 0 .. MaxCommands
=============================================================================

----------------------------- MODULE MCHousehold ----------------------------
(***************************************************************************)
(* A small instance of Household: ann's page and bob's shell, on bob's two *)
(* lists, teapot and tea; both are shared with ann, the first has an item  *)
(* and the second a pantry that wants a refill.                            *)
(***************************************************************************)
EXTENDS Household, TLC

CONSTANTS ann, bob, tea, teapot, p1, p2, p3, shell

Perms == Permutations(Slots)

\* tea is a part of teapot, and the empty name of both.
Parts == (Blank :> Names) @@ (tea :> {tea, teapot}) @@ (teapot :> {teapot})

Everybody == [a \in Accounts |-> {a}]

TwoLists ==
  [Empty EXCEPT
     !.lists = {[id |-> 1, owner |-> bob, name |-> teapot, pub |-> FALSE],
                [id |-> 2, owner |-> bob, name |-> tea, pub |-> FALSE]},
     !.sharing = {[list |-> 1, shared |-> ann, readonly |-> FALSE],
                  [list |-> 2, shared |-> ann, readonly |-> FALSE]},
     !.content = {[id |-> 1, list |-> 1, name |-> tea, amount |-> Text, from_pantry |-> NoItem]},
     !.pantry = {[item |-> 1, list |-> 2, name |-> tea, target |-> 1, amount |-> 0]}]

Cmd(do, list, item) ==
  [do |-> do, list |-> list, item |-> item, accounts |-> <<>>, name |-> teapot,
   amount |-> NULL, readonly |-> FALSE, id |-> 1, stock |-> NULL, target |-> 1]

\* tea is the name of one list and a part of that of the other.
ShellCommands ==
  {Cmd("item tick", teapot, tea), Cmd("delete", teapot, NULL), Cmd("delete", tea, NULL),
   [Cmd("share delete", teapot, NULL) EXCEPT !.accounts = <<ann, bob>>]}

ANames == {teapot}
NoAmounts == {}
ANumber == {1}
BothLists == {1, 2}

\* Whether the server can do what is asked does not depend on the new id.
SomeIds == {12}
=============================================================================

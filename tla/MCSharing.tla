------------------------------ MODULE MCSharing -----------------------------
(***************************************************************************)
(* A small instance of SharingDialog: ann manages her two lists, which are *)
(* shared with bob and carl; bob, who may, shares the first one as well.   *)
(***************************************************************************)
EXTENDS SharingDialog, TLC

CONSTANTS ann, bob, carl, tea, teapot, h1, s1, s2

Perms == Permutations(ShareSlots)

Parts == (tea :> {tea, teapot}) @@ (teapot :> {teapot})

\* Nobody's name is a pattern for another one's.
Everybody == [a \in Accounts |-> {a}]

SharedLists2 ==
  [Empty EXCEPT
     !.lists = {[id |-> 1, owner |-> ann, name |-> teapot, pub |-> FALSE],
                [id |-> 2, owner |-> ann, name |-> tea, pub |-> FALSE]},
     !.sharing = {[list |-> 1, shared |-> bob,  readonly |-> FALSE],
                  [list |-> 1, shared |-> carl, readonly |-> TRUE],
                  [list |-> 2, shared |-> bob,  readonly |-> TRUE]}]

BobsRequests == {Share(bob, 1, carl, FALSE)}

BothLists == {1, 2}
AName == {tea}

\* Whether the server can do what is asked does not depend on the new id.
SomeIds == {4}
=============================================================================

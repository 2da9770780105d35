--------------------------------- MODULE Api --------------------------------
(***************************************************************************)
(* The HTTP interface of the KabaList server: requests, answers, the right *)
(* each operation asks for and the meaning of the amounts.  The server     *)
(* (Requests and the handlers) and the service its clients see             *)
(* (ListService) share it.                                                 *)
(***************************************************************************)
EXTENDS Tables

CONSTANTS Containing,      \* Containing[n]: the names that have n as a part
          InitialStore,    \* what is in the database at the start
          Failures,        \* whether connections, to the database or to a client,
                           \* may fail
          MaxInt           \* largest PostgreSQL integer (2^31 - 1)

MinInt == -MaxInt - 1
InRange(n) == MinInt <= n /\ n <= MaxInt

Operations ==
  {"list_lists", "search_list", "history_search",
   "create_list", "read_list", "add_list", "update_item", "delete_item",
   "delete_list", "set_public", "remove_public", "get_public_list",
   "get_shares", "share_list", "unshare", "delete_shares",
   "get_pantry", "add_to_pantry", "set_pantry_item", "delete_pantry_item",
   "refill_pantry"}

\* A request: the operation, the account of the token, and the parameters
\* of the path and the body (those an operation does not have are ignored).
Request == [op : Operations, user : Accounts, list : Nat, item : Nat,
            name : Names \cup {NULL}, amount : Amount, with : Accounts,
            readonly : BOOLEAN, stock : Int \cup {NULL}, target : Int \cup {NULL}]

\* What the types of the request bodies make mandatory.
WellFormed(r) ==
  /\ r.op \in {"create_list", "search_list", "add_list", "add_to_pantry"} => r.name # NULL
  /\ r.op = "add_to_pantry" => r.target # NULL
  /\ \A n \in {r.stock, r.target} \ {NULL} : InRange(n)

\* The operations that check_list guards, and those that need write access.
Reading == {"read_list", "get_pantry"}
Writing == {"add_list", "update_item", "delete_item", "get_shares", "share_list",
            "add_to_pantry", "set_pantry_item", "delete_pantry_item",
            "refill_pantry"}
\* The operations that is_owner guards.
Owning  == {"delete_list", "set_public", "remove_public", "unshare",
            "delete_shares"}

\* The right an operation asks for, if it is about one list.
Needed(op) == CASE op \in Owning           -> "own"
                [] op \in Writing          -> "write"
                [] op \in Reading          -> "read"
                [] op = "get_public_list"  -> "public"
                [] OTHER                   -> "none"

Answers == {"none", "ok", "ListAlreadyExists", "NoSuchList", "NotWritable",
            "Internal", "NotFound"}

ASSUME ContainingAssumption ==
  Containing \in [Names -> SUBSET Names] /\ \A n \in Names : n \in Containing[n]
ASSUME StoreAssumption ==
  /\ InitialStore \in Store
  /\ ReferencesHold(InitialStore)
  /\ \A r, t \in InitialStore.lists : r.id = t.id => r = t
  /\ \A r, t \in InitialStore.sharing : r.list = t.list /\ r.shared = t.shared => r = t
  /\ \A r, t \in InitialStore.content : r.id = t.id => r = t
  /\ \A r, t \in InitialStore.pantry : r.item = t.item => r = t
  /\ \A r \in InitialStore.pantry : InRange(r.amount)
  /\ \A c \in InitialStore.content, r \in InitialStore.pantry :
       c.from_pantry = r.item => c.list = r.list
  /\ IsFiniteSet(InitialStore.lists)
  /\ IsFiniteSet(InitialStore.content)
  /\ IsFiniteSet(InitialStore.pantry)
  /\ \A r \in InitialStore.lists   : r.id   \in 1 .. Cardinality(InitialStore.lists)
  /\ \A r \in InitialStore.content : r.id   \in 1 .. Cardinality(InitialStore.content)
  /\ \A r \in InitialStore.pantry  : r.item \in 1 .. Cardinality(InitialStore.pantry)
ASSUME FailureAssumption == Failures \in BOOLEAN
ASSUME IntegerAssumption == MaxInt \in Nat \ {0}

---------------------------------------------------------------------------
(***************************************************************************)
(* Rights of user u on list l in store s.                              *)
(***************************************************************************)
Owns(s, u, l) == \E r \in s.lists : r.id = l /\ r.owner = u
SharedWith(s, u, l) == \E r \in s.sharing : r.list = l /\ r.shared = u
SharedToWrite(s, u, l) ==
  \E r \in s.sharing : r.list = l /\ r.shared = u /\ ~ r.readonly

Rights(s, u, l) ==
  {x \in {"own", "write", "read", "public"} :
     \/ Owns(s, u, l) /\ x \in {"own", "write", "read"}
     \/ SharedToWrite(s, u, l) /\ x \in {"write", "read"}
     \/ SharedWith(s, u, l) /\ x = "read"
     \/ (\E r \in s.lists : r.id = l /\ r.pub) /\ x = "public"}

---------------------------------------------------------------------------
\* Rows of list l.
OfList(rows, l) == {r \in rows : r.list = l}

\* The lists of user u, those shared with u, and the rows that say so.
OwnedLists(s, u) == {r \in s.lists : r.owner = u}
SharedLists(s, u) == {r \in s.lists : SharedWith(s, u, r.id)}
SharesOf(s, u) == {r \in s.sharing : r.shared = u}

\* name ILIKE '%' || part || '%', where a part left out is the empty one.
Like(part) == IF part = NULL THEN Names ELSE Containing[part]

\* convert_to_integer, and COALESCE(..., 0) around it.
Added(amount) ==
  IF amount \in {NULL, Text} THEN 0 ELSE IF InRange(amount) THEN amount ELSE 0
=============================================================================

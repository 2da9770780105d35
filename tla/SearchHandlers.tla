--------------------------- MODULE SearchHandlers -------------------------
(***************************************************************************)
(* The handlers that look for lists and names: list_lists of               *)
(* api/src/list.rs, search_list and history_search of api/src/main.rs.     *)
(* None of them checks a right: each SELECT is restricted to its user.     *)
(***************************************************************************)
EXTENDS Requests

\* The lists that p answers with: all of them, or those a name matches.
Matching(p, lists) ==
  {r \in lists : req[p].op = "search_list" => r.name \in Like(req[p].name)}

\* The two SELECTs of list_lists and of search_list: the caller's own lists,
\* then those shared with the caller, with the row that says how.
ListLists(p) ==
  /\ req[p].op \in {"list_lists", "search_list"}
  /\ \/ /\ pc[p] = "select_owned" /\ Connection
        /\ Select(p, [Empty EXCEPT !.lists = Matching(p, OwnedLists(db, req[p].user))],
                  "select_shared")
     \/ /\ pc[p] = "select_shared" /\ Connection
        /\ LET lists == Matching(p, SharedLists(db, req[p].user)) IN
           SelectLast(p, [Empty EXCEPT !.lists = lists,
                            !.sharing = {r \in SharesOf(db, req[p].user) :
                                           \E l \in lists : l.id = r.list}])

\* The names the caller has entered on a list.
HistorySearch(p) ==
  /\ req[p].op = "history_search"
  /\ pc[p] = "select_history" /\ Connection
  /\ SelectLast(p, [Empty EXCEPT !.history =
                      {r \in OfList(db.history, req[p].list) :
                         r.creator = req[p].user /\ r.name \in Like(req[p].name)}])
===========================================================================

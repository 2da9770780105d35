--------------------------- MODULE ShareHandlers --------------------------
(***************************************************************************)
(* The handlers of api/src/share.rs: who a list is shared with.            *)
(***************************************************************************)
EXTENDS ListHandlers

\* Fault: ON CONFLICT DO UPDATE SET readonly.
InsertSharingOver(p) ==
  OnSharing(ShareRows(req[p].with, req[p].list),
            {[list |-> req[p].list, shared |-> req[p].with,
              readonly |-> req[p].readonly]})

\* INSERT INTO list_sharing ... ON CONFLICT DO NOTHING.  A share that is
\* there is left as it is; the statement still waits for its key.
InsertSharing(p) ==
  LET old == ShareRows(req[p].with, req[p].list)
      new == [list |-> req[p].list, shared |-> req[p].with,
              readonly |-> req[p].readonly]
  IN OnSharing(old, IF old = {} THEN {new} ELSE old)

DeleteShare(p) ==
  OnSharing({r \in View(p).sharing : r.list = req[p].list /\ r.shared = req[p].with}, {})

\* Fault: the history of the caller is dropped, not that of the account.
DeleteHistoryOfCaller(p) ==
  OnHistory({r \in View(p).history : r.list = req[p].list /\ r.creator = req[p].user}, {})

\* DELETE FROM history WHERE list = $1 AND creator = $2
DeleteHistoryOf(p) ==
  OnHistory({r \in View(p).history : r.list = req[p].list /\ r.creator = req[p].with}, {})

\* DELETE FROM history WHERE list = $1 AND creator != $2
DeleteHistoryOthers(p) ==
  OnHistory({r \in View(p).history : r.list = req[p].list /\ r.creator # req[p].user}, {})

---------------------------------------------------------------------------
GetShares(p) ==
  /\ req[p].op = "get_shares"
  /\ \/ CheckList(p, TRUE, "select_shares")
     \/ /\ pc[p] = "select_shares" /\ Connection
        /\ SelectLast(p, [Empty EXCEPT !.sharing = OfList(db.sharing, req[p].list)])

ShareList(p) ==
  /\ req[p].op = "share_list"
  /\ \/ CheckList(p, TRUE, "begin")
     \/ Begin(p, "insert_sharing")
     \/ /\ pc[p] = "insert_sharing"
        /\ Autocommit(p, InsertSharing(p), TRUE)
        /\ UNCHANGED next

\* Fault: the first DELETE runs on the pool instead of the transaction.
UnshareInTwoCommits(p) ==
  /\ req[p].op = "unshare"
  /\ \/ IsOwner(p, "begin")
     \/ Begin(p, "delete_share")
     \/ /\ pc[p] = "delete_share" /\ ~ Blocked(p, DeleteShare(p))
        /\ db' = Apply(db, DeleteShare(p))
        /\ Goto(p, "delete_history_of")
        /\ UNCHANGED <<tx, req, seen, next, granted>>
     \/ /\ pc[p] = "delete_history_of"
        /\ Execute(p, DeleteHistoryOf(p), TRUE, "commit")
        /\ UNCHANGED next
     \/ Commit(p)

Unshare(p) ==
  /\ req[p].op = "unshare"
  /\ \/ IsOwner(p, "begin")
     \/ Begin(p, "delete_share")
     \/ /\ pc[p] = "delete_share"
        /\ Execute(p, DeleteShare(p), TRUE, "delete_history_of")
        /\ UNCHANGED next
     \/ /\ pc[p] = "delete_history_of"
        /\ Execute(p, DeleteHistoryOf(p), TRUE, "commit")
        /\ UNCHANGED next
     \/ Commit(p)

\* Fault: the history is deleted before the shares.
DeleteSharesLast(p) ==
  /\ req[p].op = "delete_shares"
  /\ \/ IsOwner(p, "begin")
     \/ Begin(p, "delete_history_others")
     \/ /\ pc[p] = "delete_history_others"
        /\ Execute(p, DeleteHistoryOthers(p), TRUE, "delete_sharing")
        /\ UNCHANGED next
     \/ /\ pc[p] = "delete_sharing"
        /\ Execute(p, DeleteSharing(p), TRUE, "commit")
        /\ UNCHANGED next
     \/ Commit(p)

DeleteShares(p) ==
  /\ req[p].op = "delete_shares"
  /\ \/ IsOwner(p, "begin")
     \/ Begin(p, "delete_sharing")
     \/ /\ pc[p] = "delete_sharing"
        /\ Execute(p, DeleteSharing(p), TRUE, "delete_history_others")
        /\ UNCHANGED next
     \/ /\ pc[p] = "delete_history_others"
        /\ Execute(p, DeleteHistoryOthers(p), TRUE, "commit")
        /\ UNCHANGED next
     \/ Commit(p)
===========================================================================

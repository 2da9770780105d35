# KabaList in TLA+

KabaList keeps shared shopping lists. This directory holds TLA+ models of its
API server and of its Rust clients, the TLC configurations that check them on
small instances, and theorems about them that TLAPS checks. Paths below are
relative to the repository.

## 1. The system

| Component | State it keeps | Operations | Modelled in |
|---|---|---|---|
| Schema (`api/sqlx/migrations`) | tables `accounts`, `lists`, `lists_content`, `list_sharing`, `history`, `pantry_content`, `registrations`, `password_reset`; foreign keys; `convert_to_integer` | SQL statements | `Tables` (lists), `Accounts` (the other three) |
| Plumbing and checks (`api/src/main.rs`) | pool of connections, router | `is_owner`, `check_list`, errors | `Requests`, `Server` |
| List routes (`api/src/list.rs`) | none of their own | `create_list`, `read_list`, `add_list`, `update_item`, `delete_item`, `delete_list`, `set_public`, `remove_public`, `get_public_list`, `list_lists` | `ListHandlers`, `SearchHandlers` |
| Share routes (`api/src/share.rs`) | none | `get_shares`, `share_list`, `unshare`, `delete_shares` | `ShareHandlers` |
| Pantry routes (`api/src/pantry.rs`) | none | `get_pantry`, `add_to_pantry`, `set_pantry_item`, `delete_pantry_item`, `refill_pantry` | `PantryHandlers` |
| Searches (`api/src/main.rs`) | none | `search_list`, `history_search`, `search_account` | `SearchHandlers`, `Accounts` |
| Account routes (`api/src/account.rs`) | none; tokens are signed, not stored | `login`, `register`, `recovery_info`, `recover_password`, `get_account_name`, the `User` extractor | `Accounts` |
| Administration tool (`admin/src/main.rs`) | none | new registration, new recovery | `Accounts` |
| Rust client (`client/src/lib.rs`) | the token | one method per request | `Client` |
| Web client: list page (`web/src/pages/home/list.rs` and its modals) | the list shown, its items and pantry, its forms | buttons, answers | `ListPage` |
| Web client: home and side bar | the lists, the selected one, dialogs | new list, visibility, deletion | `Home` |
| Web client: sharing dialog | the shares it knows, marks | mark, update, cancel, add | `SharingDialog` |
| Command line client (`cli/src/main.rs`) | none across runs | `list`, `lists` | `CommandLine` |
| Web login pages, CLI `account`, Flutter client, generated Dart client, configuration | | | no, see 6 |

**How they interact.** Clients send HTTP requests with a signed token; axum runs
one handler per request; a handler runs SQL statements on connections of one
pool, alone or in a transaction; PostgreSQL is the only state the handlers share.
Clients keep what the last answers said. Nothing tells them that it has changed.

**What is hard about it.**

- Every handler is a sequence of statements with an await point between each
  two, so handlers interleave at statement grain, at READ COMMITTED. The
  permission check is made of one or two statements of their own, before and
  outside the transaction with the change.
- Transactions take rows in different orders. A handler may be dropped at an
  await point when its client leaves, a connection may break, between a commit
  and its acknowledgement too. The pool has ten connections and a handler keeps
  one while it waits for a row.
- A front end runs a job per click, side by side with the others. Answers
  overtake each other and arrive after the user has gone to another list. One
  user action takes several requests, any of which may fail.
- The command line goes from a name to a list and from a name to an item by
  earlier answers, and nothing is locked in between.

**What makes each part correct.**

- Checks: nothing about a list changes or is shown but for someone who had the
  right to it; an answer says what is the case.
- List routes: items, shares and history belong to lists that exist; what fails
  changes nothing; a name is used once per owner; a list can be deleted.
- Share routes: rights change only by an unshare; whoever loses a list leaves no
  history behind.
- Pantry routes: what is restocked is credited once; an item never refers to a
  pantry row of another list or of none.
- All of them: every request is answered, and does what the service promises.
- Accounts: a name is one account; an invitation or a recovery is not lost, and
  nobody else's password changes.
- Clients: at rest they show what is stored; they change only what their user
  pointed at, whatever overlapped or failed.

## 2. Modules

    Tables                rows, foreign keys, changes, row locks
      Api                 requests, answers, rights
        Requests          workers, pool, statements, is_owner, check_list
          ListHandlers        list.rs
            SearchHandlers    list_lists, search_list, history_search
            ShareHandlers     share.rs
              PantryHandlers  pantry.rs
                Server        all of them, arrivals, failures, deadlocks, properties
                  Refinement    Server implements ListService
                    MCServer      instances for TLC
                  ServerProofs    where a step leads, types, all or nothing
                    AuthorityProofs who is shown what, who changes what
                      LockProofs      what the row locks are worth
                    ServiceProofs   the refinement, and what it gives
        ListService       the server as its clients see it
          Client          the requests the clients send
            ClientProofs    what the service does to a store and answers, calls
            ListPage, CommandLine
              Household       a page and a shell on the same lists
                MCHousehold
                HouseholdProofs types, what the page shows, what goes away
            Home
              SharingDialog   the dialog, the side bar, somebody else
                MCSharing
                SharingProofs   types, the side bar, updates, nobody else loses the list
    Accounts              account.rs, search_account, kb_admin
      MCAccounts
      AccountsProofs      names, invitations, recoveries, passwords

**Tables, Api.** A `Store` is the value of the five tables the list, share and
pantry handlers use; an account is never deleted, so `Accounts` is a constant
there. A `Change` is a pair of stores: the row versions deleted and those
inserted. `ReferencesHold` is the conjunction of the REFERENCES clauses. An amount
of an item is free text, of which the code asks one thing, whether it reads as an
integer: it is an integer, `NULL`, or `Text`.

Row locks follow from the change of a transaction. It holds the rows it has
written, the keys of rows it has inserted, and shares the rows that its inserted
rows refer to, until it ends. `Conflict(d, e)` says that one of two changes needs
a row the other one holds: both write it, or one refers to a row the other one
removes.

**Requests.** `Workers` are the requests in progress at once. Worker `p` is at the
statement `pc[p]` of request `req[p]`; `tx[p]` is what its open transaction has
changed, `seen[p]` the rows it has read and still needs, `answer[p]` what it
answers. Each await point of the code is a step boundary:

| Step | Code |
|---|---|
| `Begin` | `pool.begin()`; for a single writing statement, the pool handing out its connection, which the statement keeps while it waits for a row |
| `Execute` | `.execute(&mut *tx)`, or `fetch_one` of an INSERT: waits while another transaction holds a row, sees what is committed and what its own transaction wrote, fails when a value is out of range or a reference dangles |
| `Autocommit` | the same on `&state.0.pool` |
| `Commit` | `tx.commit()`, whose acknowledgement may be lost (`Committed`) |
| `Select`, `SelectLast` | `fetch`, `fetch_all`, `fetch_one` of a SELECT |
| `Respond` | `return Err(...)`, `?` or `OkResponse::ok(...)`; an open transaction is rolled back by its drop |

`IsOwner` and `CheckList` translate the two checks statement by statement, the
error of `is_owner` that `check_list` drops included. The variable `granted`
records which rights the user had when the checks looked. It is auxiliary: no
guard reads it, and it is computed from the tables, not from the answer of the
check, so that a wrong check cannot vouch for itself.

**ListHandlers, SearchHandlers, ShareHandlers, PantryHandlers.** One operator per
SQL statement gives its `Change`; one action per handler runs the statements in
the order of the code, each disjunct guarded by its label.

Two statements read before they lock and are two steps. The UPDATE of
`delete_item` finds the item by a subquery of its snapshot and then waits for the
pantry row; when it gets the row it takes its newest version but keeps what the
subqueries found. The INSERT ... SELECT of `refill_pantry` reads the pantry and
then waits for the rows its foreign keys refer to. Every other statement takes
effect in one step, at the moment all its rows are free: that it may lock its
first row and wait for its second is left out, as the rows of one statement here
belong to one list and are taken in one order.

**Server.** `Arrive` gives a free worker a request of `RequestSet`; `Deliver` ends
it; `Cancel` is axum dropping the handler at an await point; `Fail` an sqlx error
at any statement, running out of connections included; `Deadlock` PostgreSQL
aborting a transaction of a ring of waiting ones. `HasRoom` bounds the ids.

**ListService, Refinement.** `ListService` is what the server promises: `Effect`
says for each request what it does to the store, `Found` what it answers,
`Allowed` who may ask for it, `Refusals` for which reasons it is refused. A
request takes effect at one instant (`Perform`) or is refused and changes nothing
(`Refuse`); its answer may be lost. `Refinement` maps a worker to a call under way
(`Calls`), the database to the store, and states `Implements`: each step of
`Server` is a step of `ListService` or stutters. It holds of requests that do not
overlap inside the server, which is checked and proved. Of overlapping ones it
does not: the runs `names` and
the notes to `HistoryOfMembers` and `CreditedOnce` say where they differ from any
order of the same requests.

**Accounts.** The same grain as `Requests`: one SQL statement a step, a transaction
per request in `register` and `recover_password`. `tx[p]` holds the account rows
written and the registrations and resets deleted. A name stands for all its
spellings (CITEXT); the unique index on `accounts.name` makes a second INSERT of a
name wait for the first (`NameHeld`) and then fail. The search of an account is
by ILIKE and takes the name for a pattern: `Like[n]` are the names it matches.
`kb_admin` writes registrations and recoveries meanwhile. `Restart` stops the
server with all its requests; the key of the tokens is configuration, so tokens
outlive it. `issued` remembers every recovery there ever was; no guard reads it.

**Client.** One operator per method of `kabalist_client::Client` about lists: the
request it sends. A caller has one request under way at a time; a front end with
several jobs is several callers. `Alike` is ILIKE again, for the accounts a share
is made with.

**ListPage.** `page` is what `List` shows: the list of the URL, the rows, whether
there is an error. `job[c]` is a future in slot `c`: what it will ask for next,
what it has got. Each button is an action named after its callback, `AskAgain` the
next request of a future, `Finish` its message to `update()`. The rows shown
remain those of the old list until those of the new one come in, and a click
sends the id of a row shown with the list of the URL, as the code does. `blank`
are the edit forms that were validated and not drawn again: their fields are
empty. The forms for something new start empty and send whatever they hold
(`AddItemForm`, `AddPantryItemForm`), an empty name too. A pantry form whose
numbers are none, untouched or erased, is not sent (`NotANumber`).

**CommandLine.** `Type` is the user's command; `OnSearch`, `OnRead` and `OnAct` deal
with the answers of the search for the list, of the read for the item, and of the
change. `chosen` in `Household` is what users have pointed at: `Clicked` the row a
button was in, of the items or of the pantry, on the list of the URL; `Meant` what
a command meant, by what was stored when the server looked: the items it named, or
its list together with what it does to it (`Aim`), so that "share delete" is not
leave to delete the list. Commands are `Parsed`: they have the arguments that clap
requires. What is meant is compared as the code compares it: `delete_pantry_item`
removes the items that come from that pantry row, none of those that come from no
row (`from_pantry` is `NoItem`, NULL in the table).

**Home, SharingDialog.** `Home` is the frame: an errand is a request and then
`list_lists` again. `SharingDialog` comes up with the selected list (`Follow`) and
is asked for by each way of selecting one. `Commit` turns the marks into jobs:
`UnshareWith`, and for a change of right `Share` after it. The jobs run on when
their dialog has gone (`live`). `promised` is what the dialog showed at an
"Update", if the dialog was `Truthful`: it knew the shares there were, and showed
the account of each mark. `SomebodyElse` is another account that may share
the same list.

**Auxiliary variables** (`granted`, `issued`, `quiet`, `current`, `chosen`,
`promised`, `clicked`, `marked`) are read by no guard of a modelled operation.

**Definitions named after a fault** ("Fault: ..." in their comment) state a
plausible mistake in the definition that follows them. No specification uses
them; they show that a property would notice.

## 3. What the runs check

| Run | Instance | Distinct states | Shows |
|---|---|---|---|
| `sharing` | 2 workers, one list shared for writing and for reading, eleven requests, failures | 493 thousand | `TypeOK`, `Disclosed`, `NoOrphans`, `RingsNeedRemoval`, `Authorised`, `AllOrNothing`, `SharesKeepRight` |
| `pantry` | 2 workers, a pantry refilled, emptied and removed, also through another list's id, failures | 251 thousand | `NoOrphans`, `Authorised` |
| `alone` | 1 worker, an empty database, every route, failures | 647 thousand | `HistoryOfMembers`, `UniqueNames`, `WritableIsHonest`, `CreditedOnce`, `Implements` |
| `waiting` | 3 workers on 2 connections, two requests for one restocked item that can wait for each other in a ring, sent again and again, no failures, fairness, deadlock checked | 17.1 thousand | `Answered` |
| `accounts` | 2 workers, 2 invitations, 2 recoveries, 2 names of which one matches the other, failures, restarts | 494 thousand | `TypeOK`, `OneAccountPerName`, `InvitationsBecomeAccounts`, `RecoveriesBecomePasswords`, `PasswordsChangeByRecovery` |
| `page` | a page with 3 slots and 3 clicks, a shell with 1 command of 4, two lists | 956 thousand | `TypeOK`, `AtRestItIsTrue`, `OnlyChosen`, `UntypedFieldsAreStored` |
| `dialog` | side bar and sharing dialog, 2 jobs at once, 3 clicks, 1 request of somebody else, failures | 766 thousand | `TypeOK`, `SideBarIsTrue`, `CommitIsShown`, `OnlyMarked` |
| `names` | 2 workers | | `UniqueNames` is violated |
| `deletable` | 1 worker, no failures | | `DeletableLists` is violated |
| `nosuchlist` | 1 worker, failures | | `NoSuchListMeansIt` is violated |
| `nopage` | 1 worker, no failures | | `MissingListIsNotFound` is violated |
| `registered` | 2 workers, no failures | | `AccountsAreInvited` is violated |

**Bounds and why they are enough.** The server instances have three accounts, two
names and at most two lists. Two requests at once are enough for the interleavings
of the hazards: each is a matter of one request against another, and a third one
in a ring of waits would need a third order of tables, which no handler has. For
the pool they are not enough, as with two connections neither of them ever waits
for one: `waiting` has a third, and fewer requests to send. `MaxInt = 7` stands for
2^31 - 1, so that sums reach it. In `accounts` two requests share
an invitation, a name or a recovery; each of its invariants and step properties
is also proved for any number. In `page`, three clicks are: open a list, change
something, and go elsewhere, click again or click in haste; users type one name
and one number and do not erase the field of an edit form (`UntypedIsStored` is
proved for those who do); three slots let two reads of a list chosen anew run
beside an older job. In `dialog`, three clicks are two marks and an "Update", or
a mark, another list and an "Update". What comes later begins again from a state
of the same kind.

Symmetry is over workers, slots and jobs, in the runs without liveness. Deadlock
checking is off where a run ends because its ids, clicks or commands are used up
or stops at a counterexample; `waiting` has it on.

What the server's properties say:

- `Authorised`: whatever is stored about a list changes only by a request on that
  very list, of a user who had the right when it was checked. The check and the
  change are apart, so this is the most the code promises: a revocation between
  the two comes too late.
- `Disclosed`: rows are shown only of the list that was checked.
- `AllOrNothing`: the database changes in the last step of a request or not at
  all, so a failure, a cancellation or a lost deadlock leaves nothing half done.
- `NoOrphans`: the foreign keys hold between the statements of `delete_list` and
  `delete_pantry_item`, and a restocked item belongs to the list of its pantry
  row, which no foreign key says: `from_pantry` refers to `item` alone.
- `SharesKeepRight`: a share never turns from read-only to writable in place.
- `RingsNeedRemoval`: two requests wait for each other only if one of them is
  `delete_list` or `delete_pantry_item`.
- `Answered`: every request is answered. A request may wait for rows, in a ring
  too, while a third waits for the connections they keep; a handler that took a
  second connection with the first in hand would stop it. It rests on fairness:
  nobody takes a row again and again before a request in the queue for it.
- `HistoryOfMembers`, `UniqueNames`, `CreditedOnce`, `WritableIsHonest`,
  `Implements`: true when requests do not overlap. Of overlapping ones they are
  not: `names` shows it for `UniqueNames`; a second `delete_item` that waits for
  the pantry row credits it a second time; an `add_list` that was let through
  before an `unshare` writes its history row after it.
- `OneAccountPerName`, `InvitationsBecomeAccounts`, `RecoveriesBecomePasswords`,
  `PasswordsChangeByRecovery`: an invitation or a recovery goes away in the very
  step that makes the account or sets the password, and nothing else does either.

What the clients' properties say, and when:

- `AtRestItIsTrue`: a page without jobs shows what is stored, while `quiet` holds:
  its user waited for each answer, none failed, and nobody else changed anything.
  Every button reads again all that its request changes. Without `quiet` the page
  may well be wrong, and stays so until the next click: answers that overtake each
  other can even leave it on the rows of the list before.
- `OnlyChosen` needs no such condition. Whatever a page shows and however old a
  command's answers are, an item, a pantry item, a list or a share goes away only
  if a user pointed at it: by its row on the page of its own list, or by a command
  that does just this, and by a name that was that of one list when the server
  looked.
- `UntypedFieldsAreStored`: an edit form sends the whole row, so the fields its
  user did not touch have to be what is stored. A validated form is empty until the
  page is drawn again; while `quiet` holds, each job ends in that before the next
  click. A user who validates twice without waiting does send an empty name, and so
  may the form of a new item at the first click: nothing in the code keeps empty
  names out, and no property says so.
- `SideBarIsTrue`: the side bar at rest shows the lists there are, while `current`
  holds: nobody else changed them, and no errands overlapped.
- `CommitIsShown`: after an "Update" whose jobs all went well the list is shared as
  the dialog showed. `quiet` leaves out marks made on another list, failed jobs and
  jobs that overlap with clicks; `Truthful` leaves out an update of a dialog that
  did not know the shares or had marks it did not show. A mark stays when a late
  answer takes its row away, and the next update applies it: with six clicks in
  `dialog`, TLC finds the list shared with an account the dialog does not show.
- `OnlyMarked` needs no condition: no job takes the list from an account nobody
  clicked on since the last "Cancel".

What the violated ones show:

- `names`: `create_list` counts and inserts in two statements, and no UNIQUE
  constraint stands behind them.
- `deletable`: `delete_list` never deletes from `pantry_content`, whose `list`
  refers to `lists`; a list that has a pantry cannot be deleted.
- `nosuchlist`: `check_list` takes every error of `is_owner` for "not the owner"
  and tells the owner "no such list".
- `nopage`: the public page of a missing list is an internal error; the OpenAPI
  document says 404.
- `registered`: `register` looks for the registration without a lock and does not
  look at how many rows its DELETE removed; two overlapping requests with one
  registration make two accounts.

**Fairness.** `FairSpec` of `Server` asks strong fairness of each worker's `Serve`. A
step of a worker that waits for a row or a connection is enabled and disabled as
others take and release it, so weak fairness would let it wait for ever.
PostgreSQL queues the waiters of a row, and sqlx's pool the waiters of a
connection, in the order they came, so a waiter is passed over finitely often. No
fairness is asked of `Arrive`, `Cancel` or `Fail`. The clients are checked for
safety only: a browser has no duty to send the next request.

## 4. What is proved

TLAPS checks, for any number of workers, accounts, names, requests and
connections and any bounds, from the named assumptions on the constants. These
are the types of the schema and of the requests (an amount of the pantry, a
number in a request fits 32 bits: sqlx and serde refuse others), the primary and
unique keys of the initial store, that its references hold, and that the bounds
are numbers; every run checks those of the constants it gives.

- `ServerProofs!TypeCorrect`: `Spec => []TypeOK`. `TypeOK` alone is not inductive:
  the UPDATE of a name would write a row without one if it ran for a request
  without a name. `TypeInv` adds `NameGiven`, that a worker is at that UPDATE only
  if its request has a name. The lemmas go from the algebra of changes
  (`ApplyType`, `ThenType`), over the change of each statement (`DeletesType`,
  `InsertsType`, `UpdatesType`), over each kind of step (`ExecuteType`,
  `AutocommitType`, ...), to each handler.
- `Atomic`: `Spec => AllOrNothing`. The first lemmas of `ServerProofs` say of each
  handler where its steps may lead, and that the step that changes the database
  leads to the end (`HandleMoves`); the theorem follows.
- `AuthorityProofs!NothingLeaks`: `Spec => []Disclosed`. `Disclosed` speaks of a worker with an
  answer, and says nothing of one on its way there. `RightsInv` does: a worker
  past the statements of `Entering` has the right its operation needs in
  `granted`, none has an answer before it is done, a free one has read nothing,
  and what a worker has read is of the list of its request. The lemmas show that
  the two checks let nobody else pass (`IsOwnerPasses`, `CheckListPasses`), and of
  each handler that no other step leads out of `Entering`.
- `SharesStay`: `Spec => SharesKeepRight`. The step that could break it is a
  commit or an insert, so `SharesInv` says what is there when it comes: an
  account has one row for a list, and no open transaction has inserted a share.
  Each handler then only removes shares (`Fewer`), or is `share_list` and adds
  one for an account that has none (`OneMore`). That the stored shares start with
  one row for each list and account is the primary key of `list_sharing`, in
  `StoreAssumption`.
- `OnlyByRight`: `Spec => Authorised`. Most statements name the list they change;
  the UPDATE of `delete_item` that credits the pantry does not, it takes the row
  whose number the item names, and the item is as it was when it was read. So the
  invariant speaks of numbers (`Homes`): all pantry rows of one number, stored,
  under way or read, are of one list, and so is every item, stored, under way or
  read, that names it; no number is given out twice. `OwnList` adds that an open
  transaction has changed the list of its request only. A change that follows the
  rules is `Tame`, a step that makes one is `Orderly`; the lemmas go from the
  statements (`DeletesTame`, `UpdatesTame`, `RestocksTame`, ...) over the kinds of
  step to the handlers. `RightsInv` then says that whoever writes has passed the
  checks. `StoreAssumption` gives the start: `item` is UNIQUE in the schema, and an
  item of the initial store is of the list of its pantry row.
- `LockProofs!NoRowIsOrphaned`: `Spec => []NoOrphans`. PostgreSQL checks the references of a
  statement against what its transaction sees, when the statement runs; others
  commit before this transaction does. `LockInv` therefore says of every open
  transaction that the references hold in what it sees (`View`), and of every two
  that their locks do not conflict: no commit of the one then takes away what a
  row of the other refers to (`MergedReferences`). Two things are needed beside
  the locks. An UPDATE takes no lock on what its row refers to, so `Grounded`
  says that the version it replaces, which refers to the same rows, is stored.
  And the rows a transaction has inserted itself are no stored ones, so
  `Inserted` says which these can be at each statement. The half about items that
  come from a pantry row of their own list rests on `Homes` of the theorem above.
  The lemmas go from what locks do (`NothingConflicts`, `KeysApart`,
  `ThenReferred`, ...) over the kinds of step (`ExecuteLocking`,
  `DeletionLocking`, `AutocommitLocking`, `CommitLocking`) to the handlers.
- `OthersWaitInOrder`: `Spec => []RingsNeedRemoval`. `OrderInv` says, of every
  operation that removes no list and no pantry item, which table its transaction
  has written before each of its statements (`Held`), and that it has removed
  nothing others refer to. Two such transactions that wait for each other would
  each have to write next (`Target`) what the other one has written; the tables
  leave only two `update_item` of one item, both between their UPDATEs, and those
  have a conflict already, which `LockInv` excludes.
- `ServiceProofs!ServesLists`: `Spec /\ []Serial => Implements`, the refinement.
  `Serial` says that one worker at a time has a request; `AloneServesLists` is the
  case of a server with one worker, without that hypothesis. A step that ends a
  handler has to be the abstract request as a whole, so `ServiceInv` says what
  has become of it before: who got past the checks has the right (`Permitted`);
  the open transaction sees the abstract effect on the tables its handler has
  come to, in the order in which it writes them, and on no other (`Stage`); what
  has been read is what is stored (`Fetched`); and what is answered or given out
  is within the bounds (`Waiting`). `StoreInv` adds what each store on the way has:
  its references hold, its keys are keys, its ids are below those to come, its
  pantry fits 32 bits. Every step of a handler then goes on (`Continued`), answers
  with a reason that `Refusals` gives for this request and this store (`Refused`),
  or has done what the service does (`Served`): one lemma per handler and
  statement, over one per kind of step. That a lone request never meets a lock or
  a deadlock is part of it. The two uses of `CHOOSE` and the sets built row by row
  in `ListService` are shown to be what the SQL statements do (`Restocked`,
  `Refills`, `Updated`).
- `NamesStayUnique`, `HistoryStaysWithMembers`, `CreditsOnce`, `HonestWhenAlone`:
  the four properties the run `alone` checks beside the refinement, of requests
  that do not overlap. They follow from it: each is shown of the effects of
  `ListService`, and every step of the database is one of these. The first two
  are invariants that the initial store need not have (two lists of a name can
  be there already, as `names` shows), so they are proved to be kept.
- `AccountsProofs!TypeCorrect`: `Spec => []TypeOK` of `Accounts`.
- `NamesAreUnique`, `InvitationsAreKept`, `RecoveriesAreKept`, `PasswordsAreSafe`:
  the four properties of the run `accounts`. They rest on one inductive invariant,
  `AccountsInv`. What is committed is not enough, as it is made by transactions
  that other ones run beside. `Apart` speaks of uncommitted rows too: two
  transactions never write one account or one name, a row that is being written
  is the account of that id or nobody's. `Shape` says what a transaction has done
  at each of its statements: which registration or reset it has deleted, which
  account row it has written, and that the recovery it works for was issued for
  the account it has found. `IssuedOnce` says that a recovery names one account,
  for ever. Most steps write no account (`OwnStep`, `ResponseStep`, `ReadStep`);
  the five that do anything to a transaction, and the commit, have a lemma each.
  `OnlyCommits` then shows that rows go away and accounts change only when a
  transaction commits, and `Shape` says what that transaction was.
- `ClientProofs` has the lemmas the two proofs about the front ends share: the
  effect of each request on the store and what it answers (`SharesGone`, ...), and
  what a step of `Client` leaves alone. No result of it is a theorem of its own.
- `HouseholdProofs!TypeCorrect`: `Spec => []TypeOK` of `Household`, from `TypeInv`
  (`ClientInv`, `PageTypeOK`, `ShellInv`): a job or a command sends only what was
  shown or typed, so what it sends is a request of the service.
- `PageIsTrue`: `Spec => []AtRestItIsTrue`. The property speaks of a page without
  jobs, and `QuietInv` follows the jobs there: while `quiet` holds, a job is at a
  request it was started for and has got what it read before (`JobFits`); an
  answer it was given is what is stored now, as nobody else changes it
  (`AnswerFits`); only the two first reads of a list run side by side
  (`FirstReads`); and of each of the two tables the page shows what is stored or
  has a job that will end with its rows or an error (`Brings`). That each
  button reads again what it changes is what makes the last part survive the
  step that serves it (`QuietServe`).
- `UntypedIsStored`: `Spec => UntypedFieldsAreStored`, whatever users type or erase.
  A form is blank from its callback to the next drawing; `HasteInv` says that a job
  is on its way as long as one is. So the forms of a page at rest hold what the page
  shows, and that is what is stored, by `QuietInv`.
- `NothingElseGoes`: `Spec => OnlyChosen`. `ChosenInv` says of a page
  (`PageChosen`) and of a shell (`ShellChosen`) that a request which removes or
  changes something, waiting to be sent or on its way, does to that list what its
  user pointed at (`Aimed`): the row of the page, the items that search and read
  have found for the command, or what the command is for (`Does`). Of the service it
  needs that a request takes away no more than it names (`ItemsGone`, `PantryGone`,
  `ListsGone`, `SharesGone`). Ids are not given out twice, which makes an old answer
  harmless.
- `SharingProofs!TypeCorrect`: `Spec => []TypeOK` of `SharingDialog`, from `TypeInv`.
- `SideBarShowsLists`: `Spec => []SideBarIsTrue`. `ListsInv` says that home first
  asks for the lists (`Entered`), that while `current` holds there is one errand at
  a time (`OneErrand`), that each ends by asking for the lists (`ShowAsks`), and
  that the answer on its way is what is stored now (`ShowBrings`). Jobs of the
  sharing dialog run beside it: that they change no list this account can see is
  `DialogListsStay`, and rests on the primary keys of the store (`UniqueKeys`).
- `UpdatesAreShown`: `Spec => []CommitIsShown`, for any number of marked accounts
  whose jobs run side by side. `CommitInv` says that each account whose shares are
  not yet those promised has a job at it, and that a job is at one account or
  only reads (`Working`); that no two are at the same account (`OneJobEach`); and
  that what a job was answered is so (`Heard`). A job has still to ask for its
  first request (`Waits`), takes the old share away (`Takes`), gives the new one
  (`Gives`) or reads (`Reads`). `CommitStarts` is the "Update" of a truthful dialog;
  `TakenOrGiven` says what the service does to the shares of one account, `OneMoves`
  that the other jobs stay where they are. Without jobs, no account differs.
- `NobodyElseLosesTheList`: `Spec => OnlyMarked` of `SharingDialog`. `OnlyMarked`
  speaks of the step that serves a request, and that request was made up at an
  "Update" and sent two steps later or more. `MarkInv` follows it there: the
  marks of the dialog are on accounts that were clicked on (`MarksClicked`), and
  what a job has still to send (`TodosMarked`) or has under way (`CallsMarked`)
  takes the list from marked accounts only. It speaks of no list that is shown or
  selected, which is why it survives whatever Home and the server do between.
  Of the service it needs that the one request of a dialog that removes shares
  removes those of one account (`SharesGone`).

Every invariant and every step property of a passing run is proved, those of
`alone` for requests that do not overlap (`Serial`), as they are checked. Only
model-checked is liveness (`Answered`), as fairness and ENABLED are out of the
prover's reach. The theorems hold for any bounds on ids, clicks and commands.

## 5. Noticed while reading

Not about any property, and so not checked by a run:

- `cli/src/main.rs:398` prints "readonly" for a list shared for writing and
  "shared" for one shared read-only: the words are swapped.
- `web/src/pages/register.rs` and `recover.rs` record an error and a redirection
  that their views never show or follow.
- The rows of the page of another list can stay on the screen when answers
  overtake each other (see `AtRestItIsTrue`); a click on one of them asks for a row
  the list of the URL does not have, and changes nothing (`OnlyChosen`).

## 6. Not modelled

- The web pages for login, registration and recovery, and `account` of the command
  line: one form, one request of `Accounts`, one answer.
- The Flutter client (`flutter/lib/main.dart`), a second front end with the same
  requests. Its list page differs by a timer that reads the list every ten
  seconds while items are struck; nothing here speaks of it.
- The generated Dart client: generated from the OpenAPI document.
- Configuration: read at the start and constant, but for the key of the tokens,
  which outlives a restart (`Restart`).
- Passwords and signatures as such: a password is a value that is compared, a
  token is the account it names until it expires.
- Names: equality and ILIKE are what the code asks of them. `history.last_used`:
  written, read by no handler.
- The rendering of pages, tracing, CORS, the OpenAPI document and static files.
- PostgreSQL's own crash recovery: a committed change stays, and an open
  transaction is lost with its connection, which `Fail` covers.

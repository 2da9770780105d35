----------------------------- MODULE Refinement -----------------------------
(***************************************************************************)
(* The server implements the service its clients are written for, when     *)
(* requests do not overlap inside it: transactions, checks that are        *)
(* statements of their own, and failures between two statements are not to *)
(* be told from one step.                                                  *)
(***************************************************************************)
EXTENDS Server

\* What p is doing, as its client sees it.  The rows a handler has read for
\* its own use are not in its answer.
Seen(p) ==
  IF answer[p] = "ok" /\ req[p].op \notin {"delete_item", "refill_pantry"}
  THEN seen[p] ELSE Empty

Calls ==
  [p \in Workers |->
     CASE pc[p] = "idle" -> [status |-> "free"]
       [] pc[p] = "done" -> [status |-> "answered", req |-> req[p],
                             answer |-> answer[p], rows |-> Seen(p)]
       [] OTHER          -> [status |-> "sent", req |-> req[p]]]

\* Every id that a request within the bounds gives out, and one for those
\* that make nothing.
RowIds == 1 .. 1 + MaxLists + MaxItems + MaxPantry

Service == INSTANCE ListService WITH
  Callers <- Workers, Ids <- RowIds,
  store <- db, call <- Calls

\* A request takes effect at one instant, does exactly what the service says,
\* or is refused for a reason and changes nothing: every handler with its
\* checks, statements, commit and failures amounts to one step.
Implements == Service!Init /\ [][Service!Next(RequestSet)]_(Service!service)
=============================================================================

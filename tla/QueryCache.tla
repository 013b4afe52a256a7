----------------------------- MODULE QueryCache -----------------------------
(***************************************************************************)
(* One entry of the console's query cache, as the pages use it.  The cache *)
(* itself is the library @tanstack/react-query; what is said of it here is *)
(* what the pages rely on, with the settings of lib/query-client.ts: a     *)
(* load that fails is tried once more, an answer is fresh for 20 seconds,  *)
(* and nothing is loaded again because the window gets the focus.          *)
(*                                                                         *)
(* An entry holds the last answer, whether it is still fresh, whether the  *)
(* last load failed, and the load under way: "sent" until the server has   *)
(* read what it answers, then "answered" until the answer arrives.         *)
(***************************************************************************)

CONSTANT NoData      \* stands for the undefined data of a query never loaded

\* A query nobody has mounted yet.
EmptyEntry == [data |-> NoData, fresh |-> FALSE, failed |-> FALSE,
               load |-> "idle", answer |-> NoData, overtaken |-> FALSE]

Loading(e) == e.load # "idle"                       \* isFetching
FirstLoad(e) == Loading(e) /\ e.data = NoData       \* isLoading

\* Start a load; one that was under way is dropped with its answer.
Reload(e) == [e EXCEPT !.load = "sent", !.answer = NoData, !.overtaken = FALSE]

\* A component that uses the query mounts, or turns to this key.
Observe(e) ==
    IF ~Loading(e) /\ (e.data = NoData \/ ~e.fresh) THEN Reload(e) ELSE e

\* The cache of the tab holds the entries of the keys used so far.
EntryAt(cache, key) == IF key \in DOMAIN cache THEN cache[key] ELSE EmptyEntry
Use(cache, key) == [k \in DOMAIN cache \cup {key} |-> IF k = key THEN Observe(EntryAt(cache, key)) ELSE cache[k]]

\* invalidateQueries: a query in use is loaded again, in place of a load
\* under way.  A first load is joined instead of restarted, and the load of
\* a query that nothing uses goes on: both may bring what was read before
\* the invalidation, and count as fresh all the same (overtaken).
Invalidate(e, inUse) ==
    IF Loading(e) /\ (~inUse \/ e.data = NoData) THEN [e EXCEPT !.fresh = FALSE, !.overtaken = TRUE]
    ELSE IF inUse THEN [Reload(e) EXCEPT !.fresh = FALSE]
    ELSE [e EXCEPT !.fresh = FALSE]

\* The server reads value v for the load under way.
Answer(e, v) == [e EXCEPT !.load = "answered", !.answer = v]

\* The answer arrives and becomes the data.
Arrive(e) ==
    [e EXCEPT !.data = e.answer, !.fresh = TRUE, !.failed = FALSE, !.load = "idle", !.answer = NoData]

\* Both attempts failed; data of an earlier load stay.
Fail(e) == [e EXCEPT !.failed = TRUE, !.load = "idle", !.answer = NoData]

\* The 20 seconds pass.
Expire(e) == [e EXCEPT !.fresh = FALSE]

\* An entry whose data no load or invalidation leaves behind: an answer read
\* after the last invalidation that found it in use.
Settled(e) == e.data # NoData /\ ~Loading(e) /\ ~e.failed /\ ~e.overtaken

\* What a list page puts below its filters: the skeleton, the message that
\* there is nothing, or the rows.
ListView(e, empty) ==
    IF FirstLoad(e) THEN "skeleton" ELSE IF e.data = NoData \/ empty THEN "nothing" ELSE "rows"

\* What a page shows that has a screen of its own for a failed load.
DetailView(e) ==
    IF FirstLoad(e) THEN "skeleton" ELSE IF e.failed \/ e.data = NoData THEN "error" ELSE "item"
=============================================================================

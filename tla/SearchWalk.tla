----------------------------- MODULE SearchWalk -----------------------------
(***************************************************************************)
(* A client walks the result of a search page by page                      *)
(* (registry_client/src/pagination.rs over http.rs) while contracts come   *)
(* to match the search and cease to, and while the server answers from the *)
(* pages it keeps in its cache (api/src/search_postgres.rs).  A contract   *)
(* is its place in the order (created_at, id): the newest is the highest,  *)
(* and a page lists its rows in that order.                                *)
(***************************************************************************)
EXTENDS Naturals, FiniteSets, FiniteSetsExt, SequencesExt

CONSTANTS
    Newest,        \* the highest place
    PageSize,      \* PageLimits.page_size
    MaxPages,      \* PageLimits.max_pages
    MaxItems,      \* PageLimits.max_items
    MaxAttempts,   \* RetryPolicy.max_attempts
    MaxKept,       \* bound of the cache
    MaxChanges     \* bound of the writes

ASSUME SearchWalkAssumption ==
    /\ {Newest, PageSize, MaxPages, MaxItems, MaxAttempts} \subseteq Nat \ {0}
    /\ {MaxKept, MaxChanges} \subseteq Nat

Rows == 1..Newest
FirstPage == Newest + 1   \* the empty cursor: every row is below it
NoMore == 0               \* an answer without next_cursor

VARIABLES
    matching,   \* the rows that match the search
    kept,       \* the pages in the cache
    changes,    \* writes so far
    steady,     \* history: the rows that have matched since the walk began
    next,       \* Paginator.next
    seen,       \* Paginator.seen_cursors
    pages,      \* Paginator.pages_fetched
    items,      \* Paginator.items_emitted
    attempt,    \* of the request that is out; 0 when none is
    stop,       \* Paginator.stop_reason; "none" while the walk goes on
    given,      \* the pages the caller has got, each a set of rows
    lasting     \* history: the rows that matched when each page given was cut

serverVars == <<matching, kept, changes, steady>>
walkVars   == <<next, seen, pages, items, attempt, stop, given, lasting>>
searchVars == <<serverVars, walkVars>>

Limits == 1..PageSize
Pages == [from : 2..FirstPage, limit : Limits, rows : SUBSET Rows, next : 0..Newest, of : SUBSET Rows]
Resumable == {"MaxPages", "MaxItems", "Cancelled"}

SearchTypeOK ==
    /\ matching \subseteq Rows /\ changes \in 0..MaxChanges
    /\ kept \subseteq Pages /\ Cardinality(kept) <= MaxKept
    /\ next \in 0..FirstPage /\ seen \subseteq Rows
    /\ pages \in 0..MaxPages /\ items \in 0..MaxItems
    /\ attempt \in 0..MaxAttempts
    /\ stop \in Resumable \cup {"none", "Exhausted"}
    /\ given \in Seq(SUBSET Rows) /\ lasting \subseteq Rows
    /\ steady \subseteq matching

SearchInit ==
    /\ matching = Rows /\ kept = {} /\ changes = 0
    /\ next = FirstPage /\ seen = {} /\ pages = 0 /\ items = 0
    /\ attempt = 0 /\ stop = "none" /\ given = <<>>
    /\ lasting = Rows /\ steady = Rows

----------------------------------------------------------------------------
(* The server. *)

\* A page cut from the rows below a cursor; a further row is fetched with it
\* to tell whether there is a next page, which starts below the page's last.
CutFrom(below, from, limit) ==
    LET page == {r \in below : Cardinality({q \in below : q > r}) < limit}
    IN  [from |-> from, limit |-> limit, rows |-> page, of |-> matching,
         next |-> IF Cardinality(below) > limit THEN Min(page) ELSE NoMore]

\* Mutant: the keyset predicate lets the anchor itself through.
SearchInclusive(from, limit) == CutFrom({r \in matching : r <= from}, from, limit)

\* search, in cursor mode
SearchPage(from, limit) == CutFrom({r \in matching : r < from}, from, limit)

\* fulltext_search_handler: a kept page of this query answers it, old or not.
Answers(from, limit) ==
    LET hits == {p \in kept : p.from = from /\ p.limit = limit}
    IN  IF hits # {} THEN hits ELSE {SearchPage(from, limit)}

\* put_search; a page that finds no room, or no Redis, is not kept.
Keeps(page) ==
    kept' = IF Cardinality(kept) < MaxKept THEN kept \cup {page} ELSE kept

\* Another client asks for a page.
Browse(from, limit) ==
    /\ \E page \in Answers(from, limit) : Keeps(page)
    /\ UNCHANGED <<matching, changes, steady, walkVars>>

\* A kept page reaches its time to live.
Expire(page) ==
    /\ kept' = kept \ {page}
    /\ UNCHANGED <<matching, changes, steady, walkVars>>

\* A contract is published, deleted, or edited so that it matches or no longer
\* does.  No handler takes the pages of a search out of the cache.
Edit(r) ==
    /\ changes < MaxChanges
    /\ changes' = changes + 1
    /\ matching' = IF r \in matching THEN matching \ {r} ELSE matching \cup {r}
    /\ steady' = IF next = FirstPage /\ attempt = 0 THEN matching' ELSE steady \ {r}
    /\ UNCHANGED <<kept, walkVars>>

----------------------------------------------------------------------------
(* The client. *)

Limit == Min({PageSize, MaxItems - items})

AtBound == pages >= MaxPages \/ items >= MaxItems

\* next_page, at a bound
StopAtBound ==
    /\ stop = "none" /\ attempt = 0 /\ AtBound
    /\ stop' = IF pages >= MaxPages THEN "MaxPages" ELSE "MaxItems"
    /\ UNCHANGED <<serverVars, next, seen, pages, items, attempt, given, lasting>>

\* next_page asks for a page
AskPage ==
    /\ stop = "none" /\ attempt = 0 /\ ~AtBound
    /\ attempt' = 1
    /\ UNCHANGED <<serverVars, next, seen, pages, items, stop, given, lasting>>

\* An attempt fails, perhaps after the server has answered and kept the page.
\* The last failure goes to the caller, who may call next_page again.
AttemptFails ==
    /\ attempt > 0
    /\ \/ UNCHANGED kept
       \/ \E page \in Answers(next, Limit) : Keeps(page)
    /\ attempt' = IF attempt < MaxAttempts THEN attempt + 1 ELSE 0
    /\ UNCHANGED <<matching, changes, steady, next, seen, pages, items, stop, given, lasting>>

\* The page arrives, passes validate_continuation and is committed.  One whose
\* continuation was seen before would be refused and leave the walk as it is.
PageArrives ==
    /\ attempt > 0
    /\ \E page \in Answers(next, Limit) :
        /\ page.next \notin seen
        /\ Keeps(page)
        /\ next' = page.next
        /\ seen' = seen \cup ({page.next} \ {NoMore})
        /\ pages' = pages + 1
        /\ items' = items + Cardinality(page.rows)
        /\ stop' = IF page.next = NoMore THEN "Exhausted"
                   ELSE IF items' >= MaxItems THEN "MaxItems" ELSE "none"
        /\ given' = Append(given, page.rows)
        /\ lasting' = lasting \cap page.of
    /\ attempt' = 0
    /\ UNCHANGED <<matching, changes, steady>>

\* The caller cancels, before a request or while one is out.
Cancel ==
    /\ stop = "none"
    /\ stop' = "Cancelled" /\ attempt' = 0
    /\ UNCHANGED <<serverVars, next, seen, pages, items, given, lasting>>

\* A new paginator starts where one stopped (start_at).
Resume ==
    /\ stop \in Resumable
    /\ seen' = {next} \ {FirstPage}
    /\ pages' = 0 /\ items' = 0 /\ stop' = "none"
    /\ UNCHANGED <<serverVars, next, attempt, given, lasting>>

SearchNext ==
    \/ \E from \in 2..FirstPage, limit \in Limits : Browse(from, limit)
    \/ \E page \in kept : Expire(page)
    \/ \E r \in Rows : Edit(r)
    \/ StopAtBound \/ AskPage \/ AttemptFails \/ PageArrives \/ Cancel \/ Resume

SearchSpec == SearchInit /\ [][SearchNext]_searchVars

----------------------------------------------------------------------------
(* Properties. *)

\* Whatever is written during a walk, however many pages of it are asked for
\* twice, come from the cache or are followed by a stop and a new paginator: no
\* row comes twice or out of order, no page is refused as a loop, and a walk that
\* ends by itself has given every row that matched whenever one of its pages was
\* cut (pagination.rs:500).  A page from the cache may have been cut before the
\* walk began, so this is less than EveryRowReturned.
WalkIsFaithful ==
    /\ \A i, j \in DOMAIN given : i < j => \A r \in given[i], q \in given[j] : r > q
    /\ attempt > 0 => \A page \in Answers(next, Limit) : page.next \notin seen
    /\ stop = "Exhausted" => lasting \subseteq UNION Range(given)

\* "Every row that existed when the walk began is returned exactly once, even if
\* contracts are inserted or updated between page requests"
\* (docs/pagination.md:75-76), of rows that match all the time.
EveryRowReturned == stop = "Exhausted" => steady \subseteq UNION Range(given)
=============================================================================

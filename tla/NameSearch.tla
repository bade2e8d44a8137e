------------------------------- MODULE NameSearch -------------------------------
(***************************************************************************)
(* A client paging through Query/SearchRegistriesByName while the node     *)
(* commits blocks, fails to index some, crashes and restarts.              *)
(***************************************************************************)
EXTENDS NameIndex

CONSTANTS
    Matching,       \* the names that match the client's query under its mode
    Limit           \* the page limit, as sanitizePageRequest leaves it

ASSUME MatchingAssumption == Matching \subseteq Name
ASSUME LimitAssumption == Limit \in Nat \ {0}

VARIABLES
    start,          \* the page key of the next request; 0 is the beginning
    seen,           \* the ids of the pages received so far
    expected        \* history: the matching ids indexed at the first request

clientVars == <<start, seen, expected>>
searchVars == <<vars, clientVars>>

paging == start # 0

Matches(rows) == {id \in DOMAIN rows : rows[id] \in Matching}

\* The position of a match in id order.
Before(ids, id) == Cardinality({j \in ids : j < id})

\* The extra row that announces a next page is taken out of the page.
SearchNoExtraRow(rows, from) ==
    LET ids == {id \in Matches(rows) : id >= from}
        page == {id \in ids : Before(ids, id) < Limit - 1}
    IN  [page |-> page,
         next |-> IF page = ids THEN 0
                  ELSE CHOOSE id \in ids : Before(ids, id) = Limit - 1]

\* A lower bound that leaves out the key itself.
SearchKeyExcluded(rows, from) ==
    LET ids == {id \in Matches(rows) : id > from}
        page == {id \in ids : Before(ids, id) < Limit}
    IN  [page |-> page,
         next |-> IF page = ids THEN 0
                  ELSE CHOOSE id \in ids : Before(ids, id) = Limit]

\* A page of the matches from the key on, and the id of the first match after
\* it; 0 when the page is the last one.
Search(rows, from) ==
    LET ids == {id \in Matches(rows) : id >= from}
        page == {id \in ids : Before(ids, id) < Limit}
    IN  [page |-> page,
         next |-> IF page = ids THEN 0
                  ELSE CHOOSE id \in ids : Before(ids, id) = Limit]

\* ORDER BY id.
Ordered(ids) ==
    [n \in 1 .. Cardinality(ids) |-> CHOOSE id \in ids : Before(ids, id) = n - 1]

\* One request; a node without the index answers FailedPrecondition.  Readers
\* see the last committed rows, also while a block's commit is in progress.
SearchRegistriesByName ==
    LET result == Search(index, start)
    IN  /\ phase # "down" /\ enabled
        /\ seen' = (IF paging THEN seen ELSE <<>>) \o Ordered(result.page)
        /\ expected' = IF paging THEN expected ELSE Matches(index)
        /\ start' = result.next
        /\ UNCHANGED vars

SearchInit == Init /\ start = 0 /\ seen = <<>> /\ expected = {}

SearchNext == SearchRegistriesByName \/ (Next /\ UNCHANGED clientVars)

\* A node that is down is started again, and the client keeps asking for the next
\* page.
SearchSpec ==
    /\ SearchInit /\ [][SearchNext]_searchVars
    /\ WF_searchVars(StartAgain /\ UNCHANGED clientVars)
    /\ WF_searchVars(paging /\ SearchRegistriesByName)

-----------------------------------------------------------------------------
(***************************************************************************)
(* Properties                                                              *)
(***************************************************************************)

\* Pages never repeat or reorder a registry, even when the index grows behind or
\* ahead of the cursor between two requests, and a client that follows next_key to
\* the end has seen every match that was indexed when it began, crashes, restarts
\* and backfills in between notwithstanding (nameindex/store.go:215-264,
\* keeper/query.go:267-311).
PagesExact ==
    /\ \A n \in 1 .. Len(seen) - 1 : seen[n] < seen[n + 1]
    /\ \A id \in expected :
          (start = 0 \/ id < start) => \E n \in 1 .. Len(seen) : seen[n] = id

\* Paging comes to an end on a node that stays up (nameindex/store.go:221-223).
PagingEnds == <>[](phase # "down" /\ enabled) => []<>(~ paging)
=============================================================================

------------------------------- MODULE PagedRead -------------------------------
(***************************************************************************)
(* HydraClient.query and paged_rows (hindsight/client.py): a read that     *)
(* follows cursors page by page, each page a request that is retried.  The *)
(* node is external: it serves a page of an open cursor to whoever shows   *)
(* the query id it was opened under, as often as it is asked, and forgets  *)
(* its cursors when it restarts.                                           *)
(***************************************************************************)
EXTENDS Naturals, Sequences

CONSTANTS
    MaxTotal,    \* bound: rows of the largest result
    PageSize,    \* MAX_PAGE_SIZE, or the page size asked for
    MaxRetries,  \* ClientConfig.max_retries
    MaxRestarts  \* bound: restarts of the node

ASSUME PagedReadAssumption ==
    /\ MaxTotal \in Nat
    /\ PageSize \in Nat \ {0}
    /\ MaxRetries \in Nat
    /\ MaxRestarts \in Nat

VARIABLES
    total,     \* rows of the result; row i is the number i
    rowCap,    \* row_cap, NoCap if the caller gave none
    cursors,   \* <<query id, position>> of the cursors the node holds open
    lastId,    \* query ids the node has given out
    cursor,    \* the cursor the next request carries, FirstPage on the first page
    queryId,   \* the query_id it carries, NoQueryId on the first page
    attempt,   \* attempts of the request under way that failed
    out,       \* rows read so far
    result,    \* "reading", or how the read ended
    restarts

readVars == <<total, rowCap, cursors, lastId, cursor, queryId, attempt, out, result, restarts>>
nodeState == <<cursors, lastId, restarts>>
question == <<total, rowCap>>

NoCap == MaxTotal + 1
FirstPage == 0
NoQueryId == 0

\* The node can serve the request: a new query, or a cursor of that query.
Known == cursor = FirstPage \/ <<queryId, cursor>> \in cursors

\* The id under which it serves it.
ServedId == IF cursor = FirstPage THEN lastId + 1 ELSE queryId

\* Where the page ends that starts at the cursor.
PageEnds == IF total = 0 THEN {0} ELSE
    {e \in cursor + 1 .. cursor + PageSize : e <= total}

\* The node serves the page that ends at e; a cursor stays open if rows remain.
Serve(e) ==
    /\ Known
    /\ e \in PageEnds
    /\ cursors' = IF e < total THEN cursors \union {<<ServedId, e>>} ELSE cursors
    /\ lastId' = IF cursor = FirstPage THEN lastId + 1 ELSE lastId
    /\ UNCHANGED restarts

\* Mutant: the continuation sends its cursor and not the query id.
QueryIdDropped(id) == NoQueryId

\* query_id = res.get("query_id") or query_id.
QueryIdAfter(id) == id

\* Mutant: the cap is looked at before the cursor.
CapFirst(read, e) ==
    IF rowCap # NoCap /\ Len(read) >= rowCap THEN "truncated"
    ELSE IF e = total THEN "complete" ELSE "reading"

\* How the loop goes on after a page: cursor first, then the cap.
Verdict(read, e) ==
    IF e = total THEN "complete"
    ELSE IF rowCap # NoCap /\ Len(read) >= rowCap THEN "truncated"
    ELSE "reading"

\* Mutant: a page whose reply was lost once is skipped by the retry.
ReadOn(e) == IF attempt > 0 THEN out ELSE out \o [i \in 1 .. e - cursor |-> cursor + i]

\* Mutant: a page that had to be asked for again is added twice.
AddedTwice(e) ==
    LET page == [i \in 1 .. e - cursor |-> cursor + i]
    IN  IF attempt > 0 THEN out \o page \o page ELSE out \o page

\* The rows read once the page that ends at e has come in.
Extended(e) == out \o [i \in 1 .. e - cursor |-> cursor + i]

\* The reply arrives.
GetPage ==
    /\ result = "reading"
    /\ \E e \in PageEnds :
        /\ Serve(e)
        /\ LET read == Extended(e)
           IN  /\ result' = Verdict(read, e)
               /\ out' = IF result' = "truncated" THEN SubSeq(read, 1, rowCap) ELSE read
        /\ cursor' = e
        /\ queryId' = QueryIdAfter(ServedId)
        /\ attempt' = 0
    /\ UNCHANGED question

\* The attempt failed in a way that is retried, unless it was the last one.
Retry ==
    /\ IF attempt = MaxRetries
       THEN result' = "gave up" /\ UNCHANGED attempt
       ELSE attempt' = attempt + 1 /\ UNCHANGED result
    /\ UNCHANGED <<question, cursor, queryId, out>>

\* The node served the page and the reply was lost: a timeout, a reset.
LoseReply ==
    /\ result = "reading"
    /\ \E e \in PageEnds : Serve(e)
    /\ Retry

\* A status of RETRY_STATUSES, or no connection.
FailTransiently ==
    /\ result = "reading"
    /\ Retry
    /\ UNCHANGED nodeState

\* 400: the cursor does not belong to this query.  Surfaced at once.
Refuse ==
    /\ result = "reading"
    /\ ~Known
    /\ result' = "refused"
    /\ UNCHANGED <<nodeState, question, cursor, queryId, attempt, out>>

\* The connection closes inside the body of a reply: http.client raises
\* IncompleteRead, which is no OSError and passes both except clauses.
CutReply ==
    /\ result = "reading"
    /\ \E e \in PageEnds : Serve(e)
    /\ result' = "uncaught"
    /\ UNCHANGED <<question, cursor, queryId, attempt, out>>

Restart ==
    /\ restarts < MaxRestarts
    /\ restarts' = restarts + 1
    /\ cursors' = {}
    /\ UNCHANGED <<question, lastId, cursor, queryId, attempt, out, result>>

ReadInit ==
    /\ total \in 0 .. MaxTotal
    /\ rowCap \in 1 .. NoCap
    /\ cursors = {}
    /\ lastId = 0
    /\ cursor = FirstPage
    /\ queryId = NoQueryId
    /\ attempt = 0
    /\ out = <<>>
    /\ result = "reading"
    /\ restarts = 0

ReadNext ==
    \/ GetPage
    \/ LoseReply
    \/ FailTransiently
    \/ Refuse
    \/ CutReply
    \/ Restart

ReadSpec == ReadInit /\ [][ReadNext]_readVars

-----------------------------------------------------------------------------

ReadTypeOK ==
    /\ cursors \subseteq (1 .. lastId) \X (1 .. MaxTotal)
    /\ cursor \in 0 .. total
    /\ queryId \in 0 .. lastId
    /\ attempt \in 0 .. MaxRetries
    /\ Len(out) <= total

\* No row twice and none left out, however often a page was asked for again.
RowsInOrder == \A i \in 1 .. Len(out) : out[i] = i

\* fetch_all: `truncated' is the difference between "20,000" and "at least
\* 20,000".  A read that does not say truncated has every row, and one that
\* does has left a row out.
TruncatedIsExact ==
    /\ result = "complete" => Len(out) = total
    /\ result = "truncated" => Len(out) = rowCap /\ rowCap < total

\* paged_rows: with cursor and query_id echoed a result pages to exhaustion;
\* only a node that has forgotten its cursors refuses a continuation.
RefusedOnlyAfterRestart == result = "refused" => restarts > 0

\* The rows read are the first rows of the result, each once; the labels of the
\* read are exact; and a continuation is refused by a restarted node only.
ReadIsExact == ReadTypeOK /\ RowsInOrder /\ TruncatedIsExact /\ RefusedOnlyAfterRestart
=============================================================================

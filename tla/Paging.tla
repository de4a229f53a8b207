-------------------------------- MODULE Paging --------------------------------
(***************************************************************************)
(* The lists of the management API and a client that walks one to its end: *)
(* every list handler of handlers/manage.go and manage_more.go reads one   *)
(* page in one statement and counts the rows in another, and paginate of   *)
(* the SDK (sdk/src/core/pagination.ts) asks for page after page by offset *)
(* while rows arrive, change and leave the list.                           *)
(*                                                                         *)
(* A definition Name_Bug is Name with one plausible bug, kept beside it to *)
(* show that the properties notice; nothing refers to it.                  *)
(***************************************************************************)
EXTENDS Integers, FiniteSets, SequencesExt

CONSTANTS
  NULL,       \* SQL NULL, and the filter a request leaves out
  Tables,     \* the tables a run lists
  Ids,        \* rows, named in the order they are committed
  CreatedAt,  \* CreatedAt[i]: when the statement that inserts row i begins
  Inserted,   \* Inserted[t]: the rows table t is given, without their time
  Queries,    \* Queries[t]: the filters walks of table t ask for
  PageSizes,  \* the limits walks ask for
  MaxLimit,   \* maxListLimit
  Default,    \* defaultListLimit
  Retries,    \* DEFAULT_RETRIES of the SDK
  MaxItems,   \* MAX_COLLECTED_ITEMS of the SDK
  Walks       \* walks, each made once

\* The columns each statement filters on, when the request names them.
ListOrdersPaged       == {"business", "status"}
CountOrders           == {"business", "status"}
ListTransactionsPaged == {"business", "provider", "direction"}
CountTransactions     == {"business", "provider", "direction"}
ListAttemptsPaged     == {"business", "result", "trx"}
CountAttempts         == {"business", "result", "trx"}
ListMessagesPaged     == {"business", "status"}
CountMessages         == {"business", "status"}
ListDevicesPaged      == {"business"}
CountDevices          == {"business"}
ListBusinessesPaged   == {"status", "name"}
CountBusinesses       == {"status", "name"}
ListProvidersPaged    == {"business", "direction", "mode"}
CountProviders        == {"business", "direction", "mode"}

ListedBy ==
  [orders |-> ListOrdersPaged, transactions |-> ListTransactionsPaged,
   attempts |-> ListAttemptsPaged, messages |-> ListMessagesPaged,
   devices |-> ListDevicesPaged, businesses |-> ListBusinessesPaged,
   providers |-> ListProvidersPaged]
CountedBy ==
  [orders |-> CountOrders, transactions |-> CountTransactions,
   attempts |-> CountAttempts, messages |-> CountMessages,
   devices |-> CountDevices, businesses |-> CountBusinesses,
   providers |-> CountProviders]

\* What the program changes in a listed row, as <<column, from, to>>. The edit
\* of a template's direction or mode is left out: it takes a row off a list as
\* its deactivation does.
Changes ==
  [t \in DOMAIN ListedBy |->
     CASE t = "orders"    -> {"status"} \X {"pending"} \X {"paid", "expired"}
       [] t = "messages"  -> {"status"} \X {"pending"} \X {"parsed", "unmatched"}
       [] t = "businesses" -> {<<"status", "active", "suspended">>,
                               <<"status", "suspended", "active">>}
       [] t = "providers" -> {<<"active", "yes", "no">>}
       [] OTHER -> {}]

ASSUME PagingAssumption ==
  /\ Tables \subseteq DOMAIN ListedBy
  /\ Ids \subseteq Nat
  /\ PageSizes \subseteq Nat \ {0}
  /\ {MaxLimit, Default, MaxItems} \subseteq Nat \ {0}
  /\ Retries \in Nat
  /\ CreatedAt \in [Ids -> Nat]
  /\ NULL \notin Int
  /\ \A t \in Tables : NULL \notin Queries[t]

VARIABLES
  table,    \* the table that is listed
  rows,     \* rows[i]: the columns of row i, NULL: no row yet
  pc,       \* pc[w]: what walk w does next
  query,    \* query[w]: its filters, those it leaves out not in the domain
  size,     \* size[w]: the limit it asks for
  offset,   \* offset[w]: the offset it asks for
  tries,    \* tries[w]: attempts of the request in hand that failed
  page,     \* page[w]: the ids of the page in hand
  total,    \* total[w]: the total that came with it
  collected,  \* collected[w]: the items it has yielded
  listed,   \* history, listed[w][i]: how often w was given row i
  sent,     \* history: the requests w has sent, repeated ones included
  begun,    \* history: the rows w could list when it began
  arrived,  \* history: rows that came into the selection of w since
  left      \* history: rows that left it since

client  == <<pc, query, size, offset, tries, page, total, collected>>
history == <<begun, arrived, left>>
vars    == <<table, rows, client, listed, sent, history>>

Here(i) == rows[i] # NULL

\* LIMIT and OFFSET as getLimit and getOffset read them from the request.
getLimit_Unclamped(n) == IF n = NULL THEN Default ELSE n
getLimit(n) ==
  CASE n = NULL -> Default
    [] n # NULL /\ n < 1 -> 1
    [] n # NULL /\ n > MaxLimit -> MaxLimit
    [] OTHER -> n

\* A row passes the filters on some columns; a list of templates holds the
\* active ones that are global or of the business asked for, and no others.
Passes(row, q, columns) ==
  /\ \A c \in columns \cap DOMAIN q :
       q[c] = row[c] \/ (table = "providers" /\ c = "business" /\ row[c] = NULL)
  /\ table = "providers" =>
       /\ row["active"] = "yes"
       /\ "business" \in columns \ DOMAIN q => row["business"] = NULL

Selected(q)  == {i \in Ids : Here(i) /\ Passes(rows[i], q, ListedBy[table])}
CountedOf(q) == {i \in Ids : Here(i) /\ Passes(rows[i], q, CountedBy[table])}

\* ORDER BY created_at DESC; rows of one time come in any order.
Newest(i, j) == CreatedAt[i] >= CreatedAt[j]
InOrder(s) == \A m, n \in 1 .. Len(s) : m < n => Newest(s[m], s[n])
Pages(q, limit, from) ==
  {SubSeq(s, from + 1, Min({from + limit, Len(s)})) :
     s \in {t \in SetToSeqs(Selected(q)) : InOrder(t)}}

TypeOK ==
  /\ table \in Tables
  /\ pc \in [Walks -> {"idle", "page", "count", "collect", "done", "failed"}]
  /\ \A w \in Walks : query[w] = NULL <=> pc[w] = "idle"
  /\ size \in [Walks -> PageSizes \cup {NULL}]
  /\ offset \in [Walks -> 0 .. MaxItems]
  /\ tries \in [Walks -> 0 .. Retries]
  /\ \A w \in Walks : page[w] \in Seq(Ids) /\ Len(page[w]) <= MaxLimit
  /\ total \in [Walks -> Nat]
  /\ collected \in [Walks -> 0 .. MaxItems + 1]
  /\ listed \in [Walks -> [Ids -> Nat]]
  /\ sent \in [Walks -> Nat]

Init ==
  /\ table \in Tables
  /\ rows = [i \in Ids |-> NULL]
  /\ pc = [w \in Walks |-> "idle"]
  /\ query = [w \in Walks |-> NULL]
  /\ size = [w \in Walks |-> NULL]
  /\ offset = [w \in Walks |-> 0]
  /\ tries = [w \in Walks |-> 0]
  /\ page = [w \in Walks |-> <<>>]
  /\ total = [w \in Walks |-> 0]
  /\ collected = [w \in Walks |-> 0]
  /\ listed = [w \in Walks |-> [i \in Ids |-> 0]]
  /\ sent = [w \in Walks |-> 0]
  /\ begun = [w \in Walks |-> {}]
  /\ arrived = [w \in Walks |-> {}]
  /\ left = [w \in Walks |-> {}]

--------------------------------------------------------------------------------
\* The rest of the program.

Underway(w) == pc[w] \in {"page", "count", "collect"}

\* What a new state of the table does to the selections of walks under way.
Notice ==
  /\ arrived' = [w \in Walks |-> IF ~Underway(w) THEN arrived[w]
       ELSE arrived[w] \cup (Selected(query[w])' \ Selected(query[w]))]
  /\ left' = [w \in Walks |-> IF ~Underway(w) THEN left[w]
       ELSE left[w] \cup (Selected(query[w]) \ Selected(query[w])')]
  /\ UNCHANGED begun

\* A row is committed. Rows need not be committed in the order of their times.
Insert(i, columns) ==
  /\ ~Here(i) /\ \A j \in Ids : j < i => Here(j)
  /\ rows' = [rows EXCEPT ![i] = columns]
  /\ UNCHANGED <<table, client, listed, sent>>
  /\ Notice

Change(i, change) ==
  /\ Here(i)
  /\ rows[i][change[1]] = change[2]
  /\ rows' = [rows EXCEPT ![i][change[1]] = change[3]]
  /\ UNCHANGED <<table, client, listed, sent>>
  /\ Notice

--------------------------------------------------------------------------------
\* A walk, and the handler that serves its requests.

Start(w, q, n) ==
  /\ pc[w] = "idle"
  /\ pc' = [pc EXCEPT ![w] = "page"]
  /\ query' = [query EXCEPT ![w] = q]
  /\ size' = [size EXCEPT ![w] = n]
  /\ begun' = [begun EXCEPT ![w] = Selected(q)]
  /\ sent' = [sent EXCEPT ![w] = 1]
  /\ UNCHANGED <<table, rows, offset, tries, page, total, collected, listed, arrived, left>>

\* The first statement of a list handler.
ReadPage(w) ==
  /\ pc[w] = "page"
  /\ \E s \in Pages(query[w], getLimit(size[w]), offset[w]) : page' = [page EXCEPT ![w] = s]
  /\ pc' = [pc EXCEPT ![w] = "count"]
  /\ UNCHANGED <<table, rows, query, size, offset, tries, total, collected, listed, sent, history>>

\* The second, and the response.
CountRows(w) ==
  /\ pc[w] = "count"
  /\ total' = [total EXCEPT ![w] = Cardinality(CountedOf(query[w]))]
  /\ pc' = [pc EXCEPT ![w] = "collect"]
  /\ UNCHANGED <<table, rows, query, size, offset, tries, page, collected, listed, sent, history>>

\* The attempts of a request, this one included.
Tried_Uncounted(w) == tries[w]
Tried(w) == tries[w] + 1

\* Either statement fails, or the response is lost or late: the client asks for
\* the same page again, or gives up.
RequestFails(w) ==
  /\ pc[w] \in {"page", "count"}
  /\ \/ /\ tries[w] < Retries
        /\ tries' = [tries EXCEPT ![w] = Tried(w)]
        /\ sent' = [sent EXCEPT ![w] = @ + 1]
        /\ pc' = [pc EXCEPT ![w] = "page"]
     \/ /\ pc' = [pc EXCEPT ![w] = "failed"]
        /\ tries' = [tries EXCEPT ![w] = 0]
        /\ UNCHANGED sent
  /\ page' = [page EXCEPT ![w] = <<>>]
  /\ UNCHANGED <<table, rows, query, size, offset, total, collected, listed, history>>

\* The offset of the next page.
NextOffset_Unmoved(w) == offset[w]
NextOffset(w) == offset[w] + Len(page[w])

\* The items a walk has collected, those of the page in hand included.
Collected(w) == collected[w] + Len(page[w])

\* Too many of them: the walk throws as soon as it has yielded one too many,
\* and no more of the page.
Runaway_Unguarded(w) == FALSE
Runaway(w) == Collected(w) > MaxItems
Yielded(w) ==
  IF Runaway(w) THEN SubSeq(page[w], 1, MaxItems + 1 - collected[w]) ELSE page[w]

\* An empty page ends the walk, and so does a total that is reached.
Ended_ShortPage(w) == Len(page[w]) < size[w] \/ Collected(w) >= total[w]
Ended(w) == page[w] = <<>> \/ Collected(w) >= total[w]

\* paginate: the items of a page are yielded, and the walk throws, ends or asks
\* for the next page.
Collect(w) ==
  /\ pc[w] = "collect"
  /\ listed' = [listed EXCEPT ![w] =
       [i \in Ids |-> @[i] + Cardinality({n \in 1 .. Len(Yielded(w)) : Yielded(w)[n] = i})]]
  /\ collected' = [collected EXCEPT ![w] = @ + Len(Yielded(w))]
  /\ \/ /\ Runaway(w)
        /\ pc' = [pc EXCEPT ![w] = "failed"]
        /\ UNCHANGED <<offset, sent>>
     \/ /\ ~Runaway(w) /\ Ended(w)
        /\ offset' = [offset EXCEPT ![w] = NextOffset(w)]
        /\ pc' = [pc EXCEPT ![w] = "done"]
        /\ UNCHANGED sent
     \/ /\ ~Runaway(w) /\ ~Ended(w)
        /\ offset' = [offset EXCEPT ![w] = NextOffset(w)]
        /\ pc' = [pc EXCEPT ![w] = "page"]
        /\ sent' = [sent EXCEPT ![w] = @ + 1]
  /\ tries' = [tries EXCEPT ![w] = 0]
  /\ page' = [page EXCEPT ![w] = <<>>]
  /\ total' = [total EXCEPT ![w] = 0]
  /\ UNCHANGED <<table, rows, query, size, history>>

Walk(w) == ReadPage(w) \/ CountRows(w) \/ Collect(w)

Next ==
  \/ \E i \in Ids, columns \in Inserted[table] : Insert(i, columns)
  \/ \E i \in Ids, change \in Changes[table] : Change(i, change)
  \/ \E w \in Walks, q \in Queries[table], n \in PageSizes : Start(w, q, n)
  \/ \E w \in Walks : Walk(w) \/ RequestFails(w)

Spec == Init /\ [][Next]_vars

--------------------------------------------------------------------------------
\* Correctness.

\* Rows of one creation time have no order of their own.
Tied(i) == \E j \in Ids \ {i} : CreatedAt[i] = CreatedAt[j]

\* Rows that arrive push the others to later pages, never past the walk: what
\* was in the list when a walk began is listed by the time it ends, unless a
\* row has left the list meanwhile (paginate, and the two statements).
NothingSkipped ==
  \A w \in Walks : pc[w] = "done" /\ left[w] = {} =>
    \A i \in begun[w] : listed[w][i] > 0 \/ Tied(i)

\* No row is listed twice unless one arrived meanwhile: a request that is
\* repeated or answered late costs nothing.
RepeatsNeedArrivals ==
  \A w \in Walks, i \in Ids :
    listed[w][i] > 1 => arrived[w] # {} \/ Tied(i)

\* Rows that arrive or leave cannot keep a walk going: however many there are,
\* it sends no more requests than it may collect items, each with its retries
\* (the guard and the counters of paginate and requestWithRetry).
WalksAreBounded ==
  \A w \in Walks : sent[w] <= (Retries + 1) * (MaxItems + 1)
===============================================================================

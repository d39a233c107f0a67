----------------------------- MODULE QueryBuilder -----------------------------
(***************************************************************************)
(* The pagination of the query DSL's QueryBuilder (src/unnamed/part_010,   *)
(* common/query-dsl/query-builder.ts): paginate, skip and take set one     *)
(* PaginationSpec {page, limit}; toQuery turns it into TypeORM's           *)
(* skip((page - 1) * limit) and take(limit); getManyAndCount runs that     *)
(* query and answers the page, the limit, the total and totalPages.        *)
(*                                                                         *)
(* A caller chains any of the three calls, then builds the query.  What    *)
(* the caller asked for is kept beside the builder: the offset and the     *)
(* row count its last calls named.  Math.ceil(total / limit) with a zero   *)
(* limit is NaN (0 / 0) or Infinity, kept as the two strings.              *)
(***************************************************************************)
EXTENDS Naturals

CONSTANTS
    Counts,         \* arguments a caller passes to skip and take
    Pages,          \* page arguments of paginate
    Limits,         \* limit arguments of paginate
    Totals,         \* row counts the query may match
    NULL,
    MaxCalls        \* bound on builder calls

VARIABLES
    pagination,     \* this.pagination: NULL or [page, limit]
    asked,          \* the caller's request: [offset, count], NULL where unsaid
    built,          \* the last toQuery / getManyAndCount, with what was asked
    calls

qbVars == <<pagination, asked, built, calls>>

\* Callers pass positive sizes: a zero limit would make skip's page
\* Math.floor(count / 0) + 1, Infinity, which the model leaves out.
ASSUME 0 \notin Counts \cup Limits \cup Pages

\* The page size skip falls back on when nothing set one.
DefaultLimit == 10

\* paginate(page, limit): both fields replaced; the caller asked for the
\* rows of that page.
Paginate(page, limit) ==
    /\ calls < MaxCalls
    /\ pagination' = [page |-> page, limit |-> limit]
    /\ asked' = [offset |-> (page - 1) * limit, count |-> limit]
    /\ calls' = calls + 1
    /\ UNCHANGED built

\* skip(count): a page of the current limit (10 when none) that holds row
\* count, Math.floor(count / limit) + 1.
Skip(count) ==
    LET limit == IF pagination = NULL THEN DefaultLimit ELSE pagination.limit IN
    /\ calls < MaxCalls
    /\ pagination' = [page |-> count \div limit + 1, limit |-> limit]
    /\ asked' = [offset |-> count,
                 count |-> IF asked = NULL THEN NULL ELSE asked.count]
    /\ calls' = calls + 1
    /\ UNCHANGED built

\* take(count): sets the limit and keeps the page.
Take(count) ==
    /\ calls < MaxCalls
    /\ pagination' = IF pagination = NULL THEN [page |-> 1, limit |-> count]
                     ELSE [pagination EXCEPT !.limit = count]
    /\ asked' = [offset |-> IF asked = NULL THEN NULL ELSE asked.offset,
                 count |-> count]
    /\ calls' = calls + 1
    /\ UNCHANGED built

\* toQuery's pagination: skip and take of the TypeORM query, none without
\* a PaginationSpec.
QuerySkip == IF pagination = NULL THEN NULL ELSE (pagination.page - 1) * pagination.limit
QueryTake == IF pagination = NULL THEN NULL ELSE pagination.limit

\* The rows a query with that skip and take returns out of total.
DataLength(total) ==
    IF QueryTake = NULL THEN total
    ELSE LET rest == IF total > QuerySkip THEN total - QuerySkip ELSE 0
         IN  IF rest < QueryTake THEN rest ELSE QueryTake

CeilDiv(a, b) == (a + b - 1) \div b

\* getManyAndCount(): page = pagination?.page || 1, limit =
\* pagination?.limit || data.length, totalPages = Math.ceil(total / limit).
Meta(total) ==
    LET page == IF pagination = NULL \/ pagination.page = 0 THEN 1 ELSE pagination.page
        limit == IF pagination = NULL \/ pagination.limit = 0 THEN DataLength(total)
                 ELSE pagination.limit
    IN  [page |-> page, limit |-> limit, total |-> total,
         totalPages |-> CASE limit > 0 -> CeilDiv(total, limit)
                          [] total = 0 -> "NaN"
                          [] OTHER -> "Infinity"]

\* toQuery(), getMany(), getOne(), getCount() and getManyAndCount() all
\* build the query; getManyAndCount also answers its meta.
GetManyAndCount(total) ==
    /\ calls < MaxCalls
    /\ built' = [skip |-> QuerySkip, take |-> QueryTake, asked |-> asked,
                 meta |-> Meta(total)]
    /\ calls' = calls + 1
    /\ UNCHANGED <<pagination, asked>>

QBInit ==
    /\ pagination = NULL
    /\ asked = NULL
    /\ built = NULL
    /\ calls = 0

QBNext ==
    \/ \E p \in Pages, l \in Limits : Paginate(p, l)
    \/ \E n \in Counts : Skip(n) \/ Take(n)
    \/ \E t \in Totals : GetManyAndCount(t)

QBSpec == QBInit /\ [][QBNext]_qbVars

-----------------------------------------------------------------------------
(* Properties                                                              *)

\* The query pages as the caller asked: skip(n) makes it skip n rows and
\* take(m) makes it return at most m, whichever order they were chained
\* in (skip(20).take(10) in the builder's test), and a query nobody limited
\* is not limited.
SkipTakeHonoured ==
    built # NULL =>
        /\ built.asked # NULL /\ built.asked.offset # NULL =>
               built.skip = built.asked.offset
        /\ built.asked # NULL /\ built.asked.count # NULL =>
               built.take = built.asked.count
        /\ (built.asked = NULL \/ built.asked.count = NULL) => built.take = NULL

\* getManyAndCount's meta is a page count a client can loop over:
\* totalPages is a number, and the pages of that size cover the total.
TotalPagesCountable ==
    built # NULL =>
        /\ built.meta.totalPages \notin {"NaN", "Infinity"}
        /\ built.meta.totalPages * built.meta.limit >= built.meta.total
=============================================================================

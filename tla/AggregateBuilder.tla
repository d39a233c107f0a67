--------------------------- MODULE AggregateBuilder ---------------------------
(***************************************************************************)
(* The aggregation builder of the query DSL                                *)
(* (common/query-dsl/aggregate-builder.ts): a caller chains count, sum,    *)
(* avg, min, max, groupBy and having on one builder, then calls toQuery    *)
(* (or execute, which runs toQuery's query) any number of times.           *)
(*                                                                         *)
(* A property selector x => x.f is the field f it reads.  extractProperty  *)
(* applies it to an empty object, so what it yields is that object's f.    *)
(* toQuery's strings are kept as what they name: an aggregate expression   *)
(* is its function and the column it reads ("*" for none), a GROUP BY      *)
(* column is the property, and a HAVING clause is its property, operator   *)
(* and the index of its named parameter.                                   *)
(***************************************************************************)
EXTENDS Naturals, Sequences

CONSTANTS
    Fields,         \* properties of the entity a selector may read
    Aliases,        \* column aliases a caller passes instead of the default
    Values,         \* values compared in HAVING conditions
    Undefined,      \* JavaScript undefined
    NULL,
    MaxCalls        \* bound on the builder calls

VARIABLES
    aggregates,     \* this.aggregates: [fn, sel, property, alias] in call order
    groupByFields,  \* this.groupByFields: NULL or [sels, properties]
    havingConditions, \* this.havingConditions
    built,          \* the query the last toQuery returned, with the builder
                    \* state it was built from, or NULL
    calls           \* builder calls so far

aggVars == <<aggregates, groupByFields, havingConditions, built, calls>>

\* AggregateFunction, and the alias each method uses when none is passed.
DefaultAlias == [COUNT |-> "count", SUM |-> "sum", AVG |-> "avg",
                 MIN |-> "min", MAX |-> "max"]
AggregateFunctions == DOMAIN DefaultAlias

HavingOperators == {"EQUALS", "NOT_EQUALS", "GREATER_THAN",
                    "GREATER_THAN_OR_EQUAL", "LESS_THAN", "LESS_THAN_OR_EQUAL"}

\* The dummy entity {} as T: an object with no properties.
DummyEntity == << >>

\* extractProperty(selector) = selector(dummyEntity): the selector reads
\* field f of the dummy entity.
ExtractProperty(f) == IF f \in DOMAIN DummyEntity THEN DummyEntity[f] ELSE Undefined

\* count(selector?, alias), sum, avg, min and max(selector, alias): push one
\* aggregate spec.  Only count may be called without a selector.
AddAggregate(fn, sel, alias) ==
    /\ calls < MaxCalls
    /\ sel = NULL => fn = "COUNT"
    /\ aggregates' = Append(aggregates,
          [fn |-> fn, sel |-> sel, alias |-> alias,
           property |-> IF sel = NULL THEN Undefined ELSE ExtractProperty(sel)])
    /\ calls' = calls + 1
    /\ UNCHANGED <<groupByFields, havingConditions, built>>

\* groupBy(...selectors): replaces any earlier GROUP BY spec.
GroupBy(sels) ==
    /\ calls < MaxCalls
    /\ groupByFields' = [sels |-> sels,
                         properties |-> [i \in DOMAIN sels |-> ExtractProperty(sels[i])]]
    /\ calls' = calls + 1
    /\ UNCHANGED <<aggregates, havingConditions, built>>

\* having(condition): appended.
Having(cond) ==
    /\ calls < MaxCalls
    /\ havingConditions' = Append(havingConditions, cond)
    /\ calls' = calls + 1
    /\ UNCHANGED <<aggregates, groupByFields, built>>

\* toQuery's select expression of one aggregate: COUNT(field) or COUNT(*),
\* and FN(field) with field the '*' of a falsy property.
AggregateExpr(agg) ==
    [fn |-> agg.fn, column |-> IF agg.property = Undefined THEN "*" ELSE agg.property,
     alias |-> agg.alias]

\* The GROUP BY properties, none when groupBy was never called.
GroupProperties == IF groupByFields = NULL THEN << >> ELSE groupByFields.properties

\* toQuery(): the select list (aggregates, then the grouped columns), one
\* addGroupBy per property, and one andHaving per condition with its
\* parameter named having_<i>.
ToQuery ==
    [select |-> [i \in DOMAIN aggregates |-> AggregateExpr(aggregates[i])],
     columns |-> GroupProperties,
     groupBy |-> GroupProperties,
     having |-> [i \in DOMAIN havingConditions |->
                   [property |-> havingConditions[i].property,
                    operator |-> havingConditions[i].operator,
                    param |-> i - 1]]]

\* toQuery(), or execute() / executeOne(), which build the same query.
BuildQuery ==
    /\ calls < MaxCalls
    /\ built' = [query |-> ToQuery, aggregates |-> aggregates,
                  groupByFields |-> groupByFields]
    /\ calls' = calls + 1
    /\ UNCHANGED <<aggregates, groupByFields, havingConditions>>

AggInit ==
    /\ aggregates = << >>
    /\ groupByFields = NULL
    /\ havingConditions = << >>
    /\ built = NULL
    /\ calls = 0

Conditions == [property : Fields \cup Aliases, operator : HavingOperators,
               value : Values]

AggNext ==
    \/ \E fn \in AggregateFunctions, sel \in Fields \cup {NULL} :
          \E alias \in Aliases \cup {DefaultAlias[fn]} : AddAggregate(fn, sel, alias)
    \/ \E sels \in UNION {[1..n -> Fields] : n \in 1..2} : GroupBy(sels)
    \/ \E cond \in Conditions : Having(cond)
    \/ BuildQuery

AggSpec == AggInit /\ [][AggNext]_aggVars

-----------------------------------------------------------------------------
(* Properties                                                              *)

\* The built query computes what was asked for: each aggregate reads the
\* column its selector named (COUNT(*) when count had none), and the query
\* groups by the fields the groupBy selectors named, as the builder's tests
\* expect ('test.category' for x => x.category).
BuiltAsSelected ==
    built # NULL =>
        LET q == built.query
            asked == built.aggregates
        IN  /\ \A i \in DOMAIN q.select :
                  q.select[i].column = IF asked[i].sel = NULL THEN "*" ELSE asked[i].sel
            /\ built.groupByFields # NULL => q.groupBy = built.groupByFields.sels

\* Each aggregate of the built query comes back as a column of its own:
\* getRawMany keys a row by alias, so two aggregates with one alias lose one.
ColumnPerAggregate ==
    built # NULL =>
        \A i, j \in DOMAIN built.query.select :
            i # j => built.query.select[i].alias # built.query.select[j].alias
=============================================================================

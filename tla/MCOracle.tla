------------------------------ MODULE MCOracle ------------------------------
(***************************************************************************)
(* Model-checking instance of OracleService: two concurrent updates of two *)
(* pairs, timestamps one clock unit apart within a skew of one unit, feeds *)
(* listed in either order, signed by the oracle or by another key.         *)
(***************************************************************************)
EXTENDS OracleService

CONSTANTS p1, p2, u1, u2, oracle, intruder

MCPairs == {p1, p2}
MCUpdates == {u1, u2}

\* Signed by the oracle, both pairs in either order, timestamp 1 or 2.
SignedRequests ==
    [ts : {1, 2}, feeds : {<<p1, p2>>, <<p2, p1>>}, signer : {oracle}]

\* As SignedRequests, with the feeds always in the same order.
OrderedRequests == [ts : {1, 2}, feeds : {<<p1, p2>>}, signer : {oracle}]

\* One pair per update, signed by the oracle or by another key.
AnySignerRequests == [ts : {1, 2}, feeds : {<<p1>>}, signer : {oracle, intruder}]

AllRequests == SignedRequests \cup AnySignerRequests
=============================================================================

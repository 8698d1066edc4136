-------------------------- MODULE MCKeywordClusters --------------------------
EXTENDS KeywordClusters, TLC

CONSTANTS t1, t2, t3, stem, phrase, chart, us, a1, a2, a3

\* Three terms that share a word in pairs, and one that is a prefix of others.
MCWords == t1 :> {"habit", "tracker"} @@ t2 :> {"habit", "app"} @@ t3 :> {"planner"}
MCLength == stem :> 4 @@ phrase :> 7 @@ chart :> 8 @@ us :> 2 @@ t1 :> 13 @@ t2 :> 9 @@ t3 :> 7
MCTops == {{a1, a2}, {a1, a2, a3}, {a3}}
==============================================================================

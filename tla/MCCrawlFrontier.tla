--------------------------- MODULE MCCrawlFrontier ---------------------------
(***************************************************************************)
(* A prefix that earns its one child by exactly the threshold, worked by   *)
(* the lanes of two processes (two machines on the same store).            *)
(***************************************************************************)
EXTENDS CrawlFrontier, TLC

CONSTANTS r1, r2, l1, l2, x, y

MCTask == {"a", "ab"}
MCRoot == {"a"}
MCChildren == [t \in MCTask |-> IF t = "a" THEN {"ab"} ELSE {}]
MCDepth == [t \in MCTask |-> IF t = "ab" THEN 2 ELSE 1]
MCSuggest == ("a" :> {x, y}) @@ ("ab" :> {})
MCRunOf == (l1 :> r1) @@ (l2 :> r2)
MCServes == [l \in {l1, l2} |-> MCTask]
=============================================================================

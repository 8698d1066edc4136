--------------------------- MODULE MCConnectionSync ---------------------------
EXTENDS ConnectionSync

\* Search Ads, and the Play Console.
MCConnector == {[reviews |-> FALSE, google |-> FALSE], [reviews |-> TRUE, google |-> TRUE]}
=============================================================================

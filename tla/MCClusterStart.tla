---------------------------- MODULE MCClusterStart ----------------------------
EXTENDS ClusterStart

\* The first server is started, and restarted, without a seed; the second joins
\* it or the third, which joins the second.
Scripts == [s \in Servers |-> IF s = 1 THEN {NoServer} ELSE IF s = 2 THEN {1, 3, NoServer} ELSE {2}]
=============================================================================

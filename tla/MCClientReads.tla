---------------------------- MODULE MCClientReads ----------------------------
EXTENDS ClientReads, TLC

CONSTANTS k1, k2

\* One token that some of the instances leave without a range, and one not.
MCHash == k1 :> 14 @@ k2 :> 5
=============================================================================

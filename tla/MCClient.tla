------------------------------ MODULE MCClient ------------------------------
EXTENDS Client, TLC
CONSTANTS u1, t1, t2

\* The user may sign in twice.
MCTokenUser == t1 :> u1 @@ t2 :> u1
=============================================================================

------------------------------- MODULE MCRpc --------------------------------
EXTENDS SignatureWait
CONSTANTS waiter, other, none
MCLimitCount == [m \in Methods |-> 3]
=============================================================================

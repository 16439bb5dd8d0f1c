---------------------------- MODULE MCHolePunch ----------------------------
EXTENDS HolePunch

CONSTANTS a, t  \* device 1111 and device 2222
=============================================================================

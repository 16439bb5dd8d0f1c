---------------------------- MODULE MCP2pTransfer ----------------------------
EXTENDS P2pTransfer

CONSTANTS a, b, t  \* two peers that ask, and the one they ask for

Numbers == {1111, 1112, 2222}
OneEach == [p \in Peers |-> IF p = t THEN 2222 ELSE IF p = a THEN 1111 ELSE 1112]
=============================================================================

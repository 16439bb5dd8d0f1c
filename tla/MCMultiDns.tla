----------------------------- MODULE MCMultiDns -----------------------------
(* MultiDns for TLC. The threads of a call differ in the server they are     *)
(* given, so there is no symmetry to use.                                    *)
EXTENDS MultiDns

CONSTANTS b1, b2
OneBuf == {b1}
TwoBufs == {b1, b2}

MayFail == {TRUE, FALSE}
NeverFails == {TRUE}
=============================================================================

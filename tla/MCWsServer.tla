----------------------------- MODULE MCWsServer -----------------------------
EXTENDS WsServer

CONSTANTS c1, c2

\* A client that sends, stalls and leaves next to one that listens; and one
\* by itself that sends more and stays for more events.
MCLimits == {[clients |-> {c1, c2}, unruly |-> {c1}, events |-> 1, commands |-> 1],
             [clients |-> {c1}, unruly |-> {c1}, events |-> 2, commands |-> 2]}
=============================================================================

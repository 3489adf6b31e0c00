---- MODULE MCWorker ----
EXTENDS Worker

\* Intervals on and off, the shorter one on either stream.
MCFlags ==
  [initPub : KeyKinds, initPubStdin : BOOLEAN, wsKey : KeyKinds, wsKeyStdin : BOOLEAN,
   wsServerPort : {-1, 0, 1, 65536}, negative : BOOLEAN, badSearch : BOOLEAN,
   interval : {[stdout |-> 0, ws |-> 0], [stdout |-> 2, ws |-> 0], [stdout |-> 3, ws |-> 2],
               [stdout |-> 2, ws |-> 5]}]

NoLine == [init_pub |-> "unreadable", ws_key |-> "unreadable"]
MCHandshakes == [init_pub : KeyKinds, ws_key : KeyKinds] \cup {NoLine}
====

--------------------------- MODULE MCInteractive ---------------------------
EXTENDS Interactive

MCMachines == {<<"0">>, <<"0", "1">>}
MCMalformed == {"", "x", "-1"}

\* Texts of at most two parts, with a device that is not there.
MCRequests == {<<>>} \cup UNION {[1 .. n -> {"all", "select", "0", "1", "7", "x"}] : n \in 1 .. 2}
=============================================================================

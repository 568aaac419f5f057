---------------------------- MODULE MC_EthGetLogs ----------------------------
EXTENDS EthGetLogs

CONSTANTS x1, x2, t1, t2

MCLogAddrs == {x1, x2}
MCTopics == {t1, t2}

\* Addresses and topics are interchangeable.
Symmetry == Permutations(MCLogAddrs) \cup Permutations(MCTopics)
=============================================================================

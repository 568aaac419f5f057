---------------------------- MODULE MC_EthBlockApi ----------------------------
EXTENDS EthBlockApi

CONSTANTS x1

MCLogAddrs == {x1}
MCTopics == {}

\* Clients may send a negative number: std::stol accepts a sign.
MCNegativeParam == -2
=============================================================================

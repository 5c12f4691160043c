-------------------------------- MODULE MCTcp --------------------------------
(* The TCP server alone: constants for TLC.                                 *)
EXTENDS TcpServer

CONSTANTS c1, c2

MCClients == {c1, c2}

\* Both read their answers, so that none is left waiting for a reason of its own.
MCReaders == {c1, c2}
=============================================================================

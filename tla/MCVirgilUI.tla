------------------------------- MODULE MCVirgilUI -------------------------------
(* A small instance of VirgilUI for TLC.                                    *)
EXTENDS VirgilUI

CONSTANTS v1, c1, c2, c3, dlq1, dlq2, i1

TwoQueues == <<dlq1, dlq2>>
=============================================================================

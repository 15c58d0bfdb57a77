----------------------------- MODULE MCHubStop ------------------------------
(* HubStop with one connection: its cycles, the application, onConnect and *)
(* Stop are six threads over two locks.                                    *)
EXTENDS HubStop

CONSTANT c1

=============================================================================

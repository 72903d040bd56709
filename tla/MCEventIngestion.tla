--------------------------- MODULE MCEventIngestion ---------------------------
(***************************************************************************)
(* Two requests of one event, and at most one message of somebody else.    *)
(***************************************************************************)
EXTENDS EventIngestion, TLC

CONSTANTS r1, r2, e1

MCRequests == {r1, r2}
MCEvents == {e1}
MCEventOf == [r \in MCRequests |-> e1]
=============================================================================

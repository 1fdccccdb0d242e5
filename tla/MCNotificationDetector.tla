----------------------- MODULE MCNotificationDetector -----------------------
(***************************************************************************)
(* One DAO that stays connected and one that comes and goes; a proposal    *)
(* transaction of two rows, a proposal row without a hash, a payment of    *)
(* each DAO and a row that is no event.                                    *)
(***************************************************************************)
EXTENDS NotificationDetector

CONSTANTS d1, d2, t1, notx

Shape(d, k, t, z) == [dao |-> d, kind |-> k, tx |-> t, zero |-> z]

MCShapes == {Shape(d1, "proposal", t1, TRUE), Shape(d1, "proposal", t1, FALSE),
             Shape(d1, "proposal", notx, TRUE),
             Shape(d1, "payment", notx, FALSE), Shape(d2, "payment", notx, FALSE),
             Shape(d1, "other", notx, FALSE)}

(* In an instance one of the two tables is written: the cycle handles them *)
(* one after the other, each with its own cursor.                          *)
OneTable == rows' = << >> \/ swaps' = << >>
OneTableSpec == DetectorInit /\ [][DetectorNext /\ OneTable]_vars /\ WF_vars(Cycle)
=============================================================================

----------------------- MODULE AdmissionControllerMC -----------------------
(* Two permits per tenant; four calls of one tenant, so that two can wait,    *)
(* and two of another, which must not be affected.                            *)
EXTENDS AdmissionController
CONSTANTS a1, a2, a3, a4, b1, b2, A, B
MCTenantOf == [c \in Calls |-> IF c \in {b1, b2} THEN B ELSE A]

============================================================================

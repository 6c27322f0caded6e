----------------------------- MODULE AsyncLockMC -----------------------------
(* Four calls of the lock, three of them with an AbortSignal. *)
EXTENDS AsyncLock
CONSTANTS r1, r2, r3, r4
MCRequests == {r1, r2, r3, r4}
MCAbortable == {r2, r3, r4}

=============================================================================

---------------------------- MODULE EventStream ----------------------------
(***************************************************************************)
(* What AgentLoop.run() promises the reader of its event stream: content   *)
(* only while nothing has failed, at most one error, one done and nothing  *)
(* after it, a done only right after the final message or the error, and   *)
(* never before the first iteration_start. The reader may close the stream *)
(* at any time.                                                            *)
(***************************************************************************)
EXTENDS Naturals

VARIABLES last,     \* the kind of the last event
          starts,   \* iteration_start events so far
          errors,
          dones,
          closed

vars == <<last, starts, errors, dones, closed>>

Init == /\ last = "none"
        /\ starts = 0
        /\ errors = 0
        /\ dones = 0
        /\ closed = FALSE

\* Nothing terminal has been said: not an error, not a guardrail that ends the
\* run, not the final message. A tool result that a guardrail rewrites is not one.
Talking == /\ ~closed
           /\ last \in {"none", "iteration_start", "content", "result_blocked"}

Begin == /\ Talking
         /\ last' = "iteration_start"
         /\ starts' = starts + 1
         /\ UNCHANGED <<errors, dones, closed>>

Say(kind) == /\ Talking
             /\ last' = kind
             /\ UNCHANGED <<starts, errors, dones, closed>>

Fail == /\ ~closed
        /\ starts > 0
        /\ last \notin {"error", "done"}
        /\ last' = "error"
        /\ errors' = errors + 1
        /\ UNCHANGED <<starts, dones, closed>>

Finish == /\ ~closed
          /\ last \in {"message", "error"}
          /\ last' = "done"
          /\ dones' = dones + 1
          /\ UNCHANGED <<starts, errors, closed>>

Close == /\ ~closed
         /\ closed' = TRUE
         /\ UNCHANGED <<last, starts, errors, dones>>

Next == \/ Begin \/ Fail \/ Finish \/ Close
        \/ \E kind \in {"content", "result_blocked", "guardrail_blocked", "message"} : Say(kind)

Spec == Init /\ [][Next]_vars
=============================================================================

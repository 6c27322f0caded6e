------------------------------ MODULE Fallback ------------------------------
(***************************************************************************)
(* core/fallback-adapter.ts: chat() and stream() over a list of adapters,  *)
(* the failure count and the one-way switch behind an AsyncLock. The lock  *)
(* is its line: what module AsyncLock shows it to be, and the sections it  *)
(* protects do not await, so the head of the line runs its section whole.  *)
(***************************************************************************)
EXTENDS Naturals, Sequences, FiniteSets

CONSTANTS ChatCalls,         \* the chat() and stream() calls
          Adapters,      \* how many adapters are configured: 1, 2, ... in order
          Streamless,    \* those without stream()
          MaxFailures    \* maxFailures

ASSUME FallbackAssumption == /\ Adapters \in Nat \ {0} /\ MaxFailures \in Nat
                             /\ Streamless \subseteq 1..Adapters

VARIABLES current,       \* `currentIndex`, counted from 1
          failures,      \* `failureCount`
          line,          \* calls at `switchLock`, its owner first
          call,          \* what each call is doing
          failed         \* attempts that failed on each adapter, ever

fallbackVars == <<current, failures, line, call, failed>>

\* on: `adapterBefore`; try: `i`, counted from 1; good: the attempt returned.
Doing == [at : {"new", "asking", "queued", "back", "done"}, kind : {"chat", "stream"},
          on : 0..Adapters, try : 0..Adapters, good : BOOLEAN]

FallbackTypes == /\ current \in 1..Adapters
                 /\ failures \in Nat
                 /\ line \in Seq(ChatCalls)
                 /\ call \in [ChatCalls -> Doing]
                 /\ failed \in [1..Adapters -> Nat]

FallbackInit == /\ current = 1
                /\ failures = 0
                /\ line = <<>>
                /\ call = [c \in ChatCalls |->
                             [at |-> "new", kind |-> "chat", on |-> 0, try |-> 0, good |-> FALSE]]
                /\ failed = [a \in 1..Adapters |-> 0]

-----------------------------------------------------------------------------
\* handleSuccess(), handleFailure(): the call waits for the lock.
Report(c, now, ok) ==
  /\ call' = [call EXCEPT ![c] = [now EXCEPT !.at = "queued", !.good = ok]]
  /\ line' = Append(line, c)
  /\ failed' = IF ok THEN failed ELSE [failed EXCEPT ![now.on] = @ + 1]

Settle(c, now) == /\ call' = [call EXCEPT ![c] = [now EXCEPT !.at = "done"]]
                  /\ UNCHANGED <<line, failed>>

\* One turn of the loop: the adapter is the one that is current now; to one
\* that cannot stream the attempt is a failure, and alone it is the answer.
Attempt(c, kind, n) ==
  LET now == [at |-> "asking", kind |-> kind, on |-> current, try |-> n, good |-> FALSE]
  IN IF kind = "stream" /\ current \in Streamless
     THEN IF Adapters = 1 THEN Settle(c, now) ELSE Report(c, now, FALSE)
     ELSE /\ call' = [call EXCEPT ![c] = now]
          /\ UNCHANGED <<line, failed>>

Begin(c) == /\ call[c].at = "new"
            /\ \E kind \in {"chat", "stream"} : Attempt(c, kind, 1)
            /\ UNCHANGED <<current, failures>>

Succeed(c) == /\ call[c].at = "asking"
              /\ Report(c, call[c], TRUE)
              /\ UNCHANGED <<current, failures>>

Fail(c) == /\ call[c].at = "asking"
           /\ Report(c, call[c], FALSE)
           /\ UNCHANGED <<current, failures>>

\* The reader closes the stream: neither a success nor a failure is counted.
Close(c) == /\ call[c].at = "asking" /\ call[c].kind = "stream"
            /\ Settle(c, call[c])
            /\ UNCHANGED <<current, failures>>

\* Leave an adapter that failed often enough, unless it is the last.
Count == IF failures + 1 >= MaxFailures /\ current < Adapters
         THEN current' = current + 1 /\ failures' = 0
         ELSE failures' = failures + 1 /\ UNCHANGED current

\* Mutant: failures of an adapter that was left count as well.
SectionUnchecked ==
  /\ line # <<>>
  /\ IF call[Head(line)].good
     THEN failures' = 0 /\ UNCHANGED current
     ELSE Count
  /\ call' = [call EXCEPT ![Head(line)].at = "back"]
  /\ line' = Tail(line)
  /\ UNCHANGED failed

\* Mutant: the early return of a stale failure does not release the lock.
SectionHeld ==
  /\ line # <<>>
  /\ call[Head(line)].at = "queued"
  /\ call' = [call EXCEPT ![Head(line)].at = "back"]
  /\ LET c == call[Head(line)]
     IN IF ~c.good /\ c.on # current
        THEN UNCHANGED <<current, failures, line>>
        ELSE /\ line' = Tail(line)
             /\ IF c.good THEN failures' = 0 /\ UNCHANGED current ELSE Count
  /\ UNCHANGED failed

\* The section of the lock's owner. A failure counts only against the adapter
\* it came from; a success empties the count whichever adapter gave it.
Section ==
  /\ line # <<>>
  /\ LET c == call[Head(line)]
     IN \/ c.good /\ failures' = 0 /\ UNCHANGED current
        \/ ~c.good /\ c.on = current /\ Count
        \/ ~c.good /\ c.on # current /\ UNCHANGED <<current, failures>>
  /\ call' = [call EXCEPT ![Head(line)].at = "back"]
  /\ line' = Tail(line)
  /\ UNCHANGED failed

\* The call goes on after its section and looks at the current adapter again.
Again(c) == /\ current # call[c].on \/ current < Adapters
            /\ call[c].try < Adapters

Resume(c) ==
  /\ call[c].at = "back"
  /\ IF ~call[c].good /\ Again(c)
     THEN Attempt(c, call[c].kind, call[c].try + 1)
     ELSE Settle(c, call[c])
  /\ UNCHANGED <<current, failures>>

FallbackNext == \/ Section
                \/ \E c \in ChatCalls : Begin(c) \/ Succeed(c) \/ Fail(c) \/ Close(c) \/ Resume(c)

FallbackSpec == FallbackInit /\ [][FallbackNext]_fallbackVars

\* The adapters answer, and the event loop runs what is ready.
FallbackFairSpec == /\ FallbackSpec
                    /\ WF_fallbackVars(Section)
                    /\ \A c \in ChatCalls : /\ WF_fallbackVars(Succeed(c) \/ Fail(c))
                                            /\ WF_fallbackVars(Resume(c))

-----------------------------------------------------------------------------
(***************************************************************************)
(* Every switch is paid for: an adapter is left only after MaxFailures     *)
(* attempts failed on that adapter. Failures that were under way when      *)
(* another call switched are not charged to the adapter that came next     *)
(* (the stale check of handleFailure), so a burst of failures switches     *)
(* once. All failures ever are counted: that they are consecutive, as the  *)
(* documents have it, is not said, since the order in which outcomes are   *)
(* reported is that of the lock, and a late success of an adapter that was *)
(* left empties the count of the new one.                                  *)
(***************************************************************************)
SwitchPaid == \A a \in 1..Adapters : a < current => failed[a] >= MaxFailures

(***************************************************************************)
(* A call that was begun returns or throws, if the adapters answer: no     *)
(* path through the lock leaves it taken, and the loop is bounded.         *)
(***************************************************************************)
CallsSettle == \A c \in ChatCalls : call[c].at = "asking" ~> call[c].at = "done"

=============================================================================

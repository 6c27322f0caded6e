----------------------------- MODULE AgentLoop -----------------------------
(***************************************************************************)
(* core/agent-loop.ts and the modules run() is made of (the iteration      *)
(* coordinator, runner and lifecycle, the adapter caller, its streaming    *)
(* retry and back-off): one AgentLoop instance and the generators its      *)
(* run() returns. A generator is suspended at a yield, until its reader    *)
(* pulls or closes it, or at an await. An action runs it from one          *)
(* suspension to the next; abort(), dispose(), the external signal and the *)
(* other generators act in between. Awaits in a row with no effect between *)
(* them are one. An answer is its cost in tokens and its number of calls.  *)
(***************************************************************************)
EXTENDS Naturals, FiniteSets

CONSTANTS Runs,           \* the generators; each is opened at most once
          NoRun,
          MaxIterations,
          MaxRetries,     \* maxAdapterRetries
          MaxTokens,      \* maxTotalTokens
          MaxChunks,      \* maxStreamBytes, in chunks: a longer stream fails
          Streaming,
          MaxCost,        \* bound on the tokens of one answer
          MaxTools,       \* bound on the tool calls of one answer
          Overlap         \* TRUE: a run may be opened before the last is closed

ASSUME LoopAssumption == /\ NoRun \notin Runs
                         /\ MaxIterations \in Nat \ {0}
                         /\ {MaxRetries, MaxTokens, MaxChunks, MaxCost, MaxTools} \subseteq Nat
                         /\ {Streaming, Overlap} \subseteq BOOLEAN

VARIABLES status, aborted, handler, usage,  \* CoordinatorState and the AbortController
          signalled, listeners,             \* the external signal: fired, who listens
          pc, ctx,                          \* each generator: suspension, local state
          trace, spans,                     \* the trace manager: each run's trace, open spans
          out                               \* history: what each run told reader and hooks

loop == <<status, aborted, handler, usage>>
signal == <<signalled, listeners>>
traces == <<trace, spans>>
vars == <<loop, signal, pc, ctx, traces, out>>

Yields == {"preStart", "preError", "preDone", "warn", "started", "delta", "blocked",
           "message", "bail", "toolCall", "toolResult", "note", "stub", "done"}
\* Awaits at which code of the caller (a guardrail, a strict hook, an execution
\* strategy) can throw; for a tool's output guardrail that is a yield, toolResult or note.
Throws == {"inputGuard", "calling", "argGuard", "outputGuard", "executing"}
Points == Yields \cup Throws \cup {"new", "checked", "backoff", "top", "closed"}
Reasons == {"none", "end_turn", "max_iterations", "token_budget", "aborted", "error"}

\* A guardrail_blocked event about a tool's result, which does not end the run, is
\* a kind of its own.
Kinds == {"none", "iteration_start", "content", "result_blocked", "guardrail_blocked",
          "message", "error", "done"}
Contexts == [iteration : Nat, attempt : Nat, chunks : Nat, calls : Nat, next : Nat, open : Nat,
             spent : Nat, span : Nat, latch : {0, 1}, reason : Reasons]
Outputs == [last : Kinds, starts : Nat, number : Nat, errors : Nat, dones : Nat, ended : Nat,
            lateCalls : Nat, lateBatches : Nat]

TypeOK ==
  /\ status \in {"idle", "running", "completed", "errored", "disposed"}
  /\ {aborted, signalled} \subseteq BOOLEAN
  /\ handler \in Runs \cup {NoRun}
  /\ listeners \in SUBSET Runs
  /\ usage \in Nat
  /\ pc \in [Runs -> Points]
  /\ ctx \in [Runs -> Contexts]
  /\ trace \in [Runs -> {"none", "open", "completed", "error"}]
  /\ spans \in [Runs -> SUBSET (Nat \ {0})]
  /\ out \in [Runs -> Outputs]

\* What startRun allocates: counters, the iteration-span slot (0: none) and the
\* iterationEndFired latch (1: fired).
Fresh == [iteration |-> 0, attempt |-> 0, chunks |-> 0, calls |-> 0, next |-> 0,
          open |-> 0, spent |-> 0, span |-> 0,
          latch |-> 0, reason |-> "none"]

Silent == [last |-> "none", starts |-> 0, number |-> 0, errors |-> 0, dones |-> 0,
           ended |-> 0, lateCalls |-> 0, lateBatches |-> 0]

Init == /\ status = "idle" /\ aborted = FALSE /\ handler = NoRun /\ usage = 0
        /\ signalled = FALSE /\ listeners = {}
        /\ pc = [r \in Runs |-> "new"]
        /\ ctx = [r \in Runs |-> Fresh]
        /\ trace = [r \in Runs |-> "none"]
        /\ spans = [r \in Runs |-> {}]
        /\ out = [r \in Runs |-> Silent]

-----------------------------------------------------------------------------
One(b) == IF b THEN 1 ELSE 0

\* Counts what happens after an abort.
Late == One(aborted)

Goto(r, point, c) == /\ pc' = [pc EXCEPT ![r] = point]
                     /\ ctx' = [ctx EXCEPT ![r] = c]

\* Yield an event of this kind to the reader.
Told(o, kind) == [o EXCEPT !.last = kind, !.errors = @ + One(kind = "error"),
                           !.dones = @ + One(kind = "done")]

Report(r, o) == out' = [out EXCEPT ![r] = o]
Tell(r, kind) == Report(r, Told(out[r], kind))

Announced(o, n) == [o EXCEPT !.last = "iteration_start", !.starts = @ + 1, !.number = n]

\* Mutant: a finished run overwrites `disposed`.
SettleAlways(s) == status' = s

\* A finished run does not overwrite `disposed`.
Settle(s) == status' = IF status = "disposed" THEN status ELSE s

\* The checks of checkPreIteration, in their order.
PreStop(c, stop) == CASE stop -> "aborted"
                      [] ~stop /\ c.iteration + 1 > MaxIterations -> "max_iterations"
                      [] ~stop /\ c.iteration + 1 <= MaxIterations /\ c.spent > MaxTokens -> "token_budget"
                      [] OTHER -> "none"

\* checkPreIteration on context c: `late` is whether maxDurationMs has passed.
\* The iteration counter is bumped unless abort or deadline stopped it.
Check(r, c, abortedNow) ==
  \E late \in BOOLEAN :
    LET stop == abortedNow \/ late
        n == c.iteration + 1
        d == [c EXCEPT !.iteration = IF stop THEN @ ELSE n,
                       !.reason = PreStop(c, stop)]
    IN IF d.reason = "none" THEN Goto(r, "checked", d) /\ UNCHANGED out
                            ELSE Goto(r, "preStart", d) /\ Report(r, Announced(out[r], n))

\* run() throws: another run is in progress.
Refuse(r) == /\ pc[r] = "new"
             /\ status = "running"
             /\ Goto(r, "closed", Fresh)
             /\ UNCHANGED <<loop, signal, traces, out>>

\* run() up to its first yield: startRun, then the first check.
Start(r) == /\ pc[r] = "new"
            /\ status # "running"
            /\ Overlap \/ \A q \in Runs : pc[q] \in {"new", "closed"}
            /\ status' = "running"
            /\ aborted' = (aborted \/ signalled)
            /\ handler' = IF signalled THEN handler ELSE r
            /\ listeners' = IF signalled THEN listeners ELSE listeners \cup {r}
            /\ trace' = [trace EXCEPT ![r] = "open"]
            /\ Check(r, Fresh, aborted')
            /\ UNCHANGED <<usage, signalled, spans>>

\* The next turn of run()'s loop: stamp the usage, check again.
Top(r) == /\ pc[r] = "top"
          /\ usage' = ctx[r].spent
          /\ Check(r, ctx[r], aborted)
          /\ UNCHANGED <<status, aborted, handler, signal, traces>>

\* emitTerminal after its iteration_start: end the stale span, yield the error.
PreError(r) == /\ pc[r] = "preStart"
               /\ spans' = [spans EXCEPT ![r] = @ \ {ctx[r].span}]
               /\ Goto(r, "preError", [ctx[r] EXCEPT !.span = 0])
               /\ Tell(r, "error")
               /\ UNCHANGED <<loop, signal, trace>>

PreDone(r) == /\ pc[r] = "preError"
              /\ Settle("errored")
              /\ Goto(r, "preDone", ctx[r])
              /\ Tell(r, "done")
              /\ UNCHANGED <<aborted, handler, usage, signal, traces>>

\* startIteration yields a warning when it pruned the conversation.
Warn(r) == /\ pc[r] = "checked"
           /\ Goto(r, "warn", ctx[r])
           /\ Tell(r, "content")
           /\ UNCHANGED <<loop, signal, traces>>

\* Mutant: the last iteration's span is overwritten in the slot, not ended.
BeginLeaks(r) == /\ pc[r] \in {"checked", "warn"}
                 /\ LET n == ctx[r].iteration
                    IN /\ spans' = [spans EXCEPT ![r] = @ \cup {n}]
                       /\ Goto(r, "started", [ctx[r] EXCEPT !.span = n, !.latch = 0])
                       /\ Report(r, [Announced(out[r], n) EXCEPT !.ended = 0])
                 /\ UNCHANGED <<loop, signal, trace>>

\* startIteration: end the last iteration's span, open this one's, reset the latch.
Begin(r) == /\ pc[r] \in {"checked", "warn"}
            /\ LET n == ctx[r].iteration
               IN /\ spans' = [spans EXCEPT ![r] = (@ \ {ctx[r].span}) \cup {n}]
                  /\ Goto(r, "started", [ctx[r] EXCEPT !.span = n, !.latch = 0])
                  /\ Report(r, [Announced(out[r], n) EXCEPT !.ended = 0])
            /\ UNCHANGED <<loop, signal, trace>>

-----------------------------------------------------------------------------
\* runIteration up to its input guardrail and onBeforeChat hook.
GuardInput(r) == /\ pc[r] = "started"
                 /\ Goto(r, "inputGuard", ctx[r])
                 /\ UNCHANGED <<loop, signal, traces, out>>

\* A guardrail (input, tool arguments, final answer) blocks: bailGuardrail.
Block(r) == /\ pc[r] \in {"inputGuard", "argGuard", "outputGuard"}
            /\ aborted' = TRUE
            /\ Goto(r, "blocked", ctx[r])
            /\ Tell(r, "guardrail_blocked")
            /\ UNCHANGED <<status, handler, usage, signal, traces>>

\* Yield the error and wait; Terminate follows with the done event.
Bail(r, reason) == /\ Goto(r, "bail", [ctx[r] EXCEPT !.reason = reason])
                   /\ Tell(r, "error")
                   /\ UNCHANGED <<loop, signal, traces>>

BlockError(r) == pc[r] = "blocked" /\ Bail(r, "error")

\* An attempt at the model begins (also when the loop is aborted: call() checks
\* only before a retry).
Attempt(r, n) == /\ Goto(r, "calling", [ctx[r] EXCEPT !.attempt = n, !.chunks = 0])
                 /\ Report(r, [out[r] EXCEPT !.lateCalls = @ + Late])
                 /\ UNCHANGED <<loop, signal, traces>>

CallModel(r) == pc[r] = "inputGuard" /\ Attempt(r, 1)

Chunk(r) == /\ pc[r] = "calling"
            /\ Streaming /\ ctx[r].chunks < MaxChunks
            /\ Goto(r, "delta", [ctx[r] EXCEPT !.chunks = @ + 1])
            /\ Tell(r, "content")
            /\ UNCHANGED <<loop, signal, traces>>

Resume(r) == /\ pc[r] = "delta"
             /\ Goto(r, "calling", ctx[r])
             /\ UNCHANGED <<loop, signal, traces, out>>

\* Mutant: the error of a retried attempt reaches the reader.
RetryTells(r) == /\ pc[r] = "calling"
                 /\ ctx[r].attempt <= MaxRetries
                 /\ Goto(r, "backoff", ctx[r])
                 /\ Tell(r, "error")
                 /\ UNCHANGED <<loop, signal, traces>>

\* A retryable failure with retries left: the buffered error is swallowed.
Retry(r) == /\ pc[r] = "calling"
            /\ ctx[r].attempt <= MaxRetries
            /\ Goto(r, "backoff", ctx[r])
            /\ UNCHANGED <<loop, signal, traces, out>>

\* Mutant: the abort is not checked before a retry.
WakeUnchecked(r) == pc[r] = "backoff" /\ Attempt(r, ctx[r].attempt + 1)

\* Mutant: an abort clears the back-off's timer and leaves its promise pending.
WakeAbortedLost(r) == pc[r] = "backoff" /\ aborted /\ UNCHANGED vars

\* The back-off ends, by its timer or by the abort.
Wake(r) == pc[r] = "backoff" /\ ~aborted /\ Attempt(r, ctx[r].attempt + 1)

WakeAborted(r) == pc[r] = "backoff" /\ aborted /\ Bail(r, "aborted")

\* A failure that is not retried: its error is yielded once, by the stream
\* handler or by bailError.
Fail(r) == pc[r] = "calling" /\ Bail(r, "error")

\* The model answers. An abort meanwhile wins.
AnswerAborted(r) == /\ pc[r] = "calling" /\ aborted
                    /\ Bail(r, "aborted")

AnswerOverBudget(r, cost) ==
  /\ pc[r] = "calling" /\ ~aborted
  /\ ctx[r].spent + cost > MaxTokens
  /\ Goto(r, "message", [ctx[r] EXCEPT !.spent = @ + cost, !.reason = "token_budget"])
  /\ Tell(r, "message")
  /\ UNCHANGED <<loop, signal, traces>>

\* Within the budget: a final answer (n = 0), or n tool calls, pushed on the
\* conversation with n results to come.
Answer(r, cost, n) ==
  /\ pc[r] = "calling" /\ ~aborted
  /\ ctx[r].spent + cost <= MaxTokens
  /\ Goto(r, IF n = 0 THEN "outputGuard" ELSE "argGuard",
          [ctx[r] EXCEPT !.spent = @ + cost, !.calls = n, !.open = n, !.next = 1])
  /\ UNCHANGED <<loop, signal, traces, out>>

EndTurn(r) == /\ pc[r] = "outputGuard"
              /\ Goto(r, "message", [ctx[r] EXCEPT !.reason = "end_turn"])
              /\ Tell(r, "message")
              /\ UNCHANGED <<loop, signal, traces>>

BudgetError(r) == /\ pc[r] = "message" /\ ctx[r].reason = "token_budget"
                  /\ Bail(r, "token_budget")

\* After the last event of a bail generator: end the span, fire onIterationEnd
\* once, stamp usage and status, yield done.
Terminate(r) ==
  /\ pc[r] = "bail" \/ (pc[r] = "message" /\ ctx[r].reason = "end_turn")
  /\ spans' = [spans EXCEPT ![r] = @ \ {ctx[r].span}]
  /\ usage' = ctx[r].spent
  /\ Settle(IF ctx[r].reason = "end_turn" THEN "completed" ELSE "errored")
  /\ Goto(r, "done", [ctx[r] EXCEPT !.span = 0, !.latch = 1])
  /\ Report(r, [Told(out[r], "done") EXCEPT !.ended = @ + (1 - ctx[r].latch)])
  /\ UNCHANGED <<aborted, handler, signal, trace>>

-----------------------------------------------------------------------------
\* A tool call whose arguments pass is announced; the calls run after the last.
ToolCall(r) == /\ pc[r] = "argGuard"
               /\ Goto(r, "toolCall", ctx[r])
               /\ Tell(r, "content")
               /\ UNCHANGED <<loop, signal, traces>>

NextTool(r) == /\ pc[r] = "toolCall" /\ ctx[r].next < ctx[r].calls
               /\ Goto(r, "argGuard", [ctx[r] EXCEPT !.next = @ + 1])
               /\ UNCHANGED <<loop, signal, traces, out>>

Execute(r) == /\ pc[r] = "toolCall" /\ ctx[r].next = ctx[r].calls
              /\ Goto(r, "executing", ctx[r])
              /\ Report(r, [out[r] EXCEPT !.lateBatches = @ + Late])
              /\ UNCHANGED <<loop, signal, traces>>

\* The strategy returns a result for every call, in call order; the first is yielded.
Results(r) == /\ pc[r] = "executing"
              /\ Goto(r, "toolResult", [ctx[r] EXCEPT !.next = 1])
              /\ Tell(r, "content")
              /\ UNCHANGED <<loop, signal, traces>>

\* A result that does not serialise is reported by a warning.
Note(r) == /\ pc[r] = "toolResult"
           /\ Goto(r, "note", ctx[r])
           /\ Tell(r, "content")
           /\ UNCHANGED <<loop, signal, traces>>

\* A result that the output guardrail blocks is reported, and a stub is to be
\* pushed in its place: no bail, no abort.
BlockResult(r) == /\ pc[r] \in {"toolResult", "note"}
                  /\ Goto(r, "stub", ctx[r])
                  /\ Tell(r, "result_blocked")
                  /\ UNCHANGED <<loop, signal, traces>>

\* Where a result is ready to be pushed.
Pushing == {"toolResult", "note", "stub"}

\* Mutant: a result that was reported is not pushed.
PushNextSkips(r) ==
  /\ pc[r] \in Pushing /\ ctx[r].next < ctx[r].calls
  /\ Goto(r, "toolResult", [ctx[r] EXCEPT !.open = @ - One(pc[r] = "toolResult"), !.next = @ + 1])
  /\ Tell(r, "content")
  /\ UNCHANGED <<loop, signal, traces>>

\* Push the tool message and go on with the next result.
PushNext(r) == /\ pc[r] \in Pushing /\ ctx[r].next < ctx[r].calls
               /\ Goto(r, "toolResult", [ctx[r] EXCEPT !.open = @ - 1, !.next = @ + 1])
               /\ Tell(r, "content")
               /\ UNCHANGED <<loop, signal, traces>>

\* After the last: the abort check, or onIterationEnd and round again.
PushAborted(r) == /\ pc[r] \in Pushing /\ ctx[r].next = ctx[r].calls
                  /\ aborted
                  /\ Bail(r, "aborted")

PushLast(r) == /\ pc[r] \in Pushing /\ ctx[r].next = ctx[r].calls
               /\ ~aborted
               /\ Goto(r, "top", [ctx[r] EXCEPT !.open = @ - 1, !.latch = 1])
               /\ Report(r, [out[r] EXCEPT !.ended = @ + (1 - ctx[r].latch)])
               /\ UNCHANGED <<loop, signal, traces>>

-----------------------------------------------------------------------------
\* run()'s finally block: detach whatever handler the slot holds, end the leaked
\* span and the trace, and abort unless the final event was marked as emitted.
Finalize(r, final) ==
  /\ listeners' = listeners \ {handler}
  /\ handler' = NoRun
  /\ spans' = [spans EXCEPT ![r] = @ \ {ctx[r].span}]
  /\ trace' = [trace EXCEPT ![r] = IF final THEN "completed" ELSE "error"]
  /\ aborted' = (aborted \/ ~final)
  /\ Goto(r, "closed", Fresh)
  /\ UNCHANGED <<status, usage, signalled, out>>

\* The reader pulls past the done event.
Finish(r) == pc[r] \in {"done", "preDone"} /\ Finalize(r, TRUE)

\* The reader closes the stream at a yield, or the caller's code throws. Only
\* Terminate marks the final event as emitted before it yields it.
Close(r) == pc[r] \in Yields \cup Throws /\ Finalize(r, pc[r] = "done")

Abort == /\ aborted' = TRUE
         /\ UNCHANGED <<status, handler, usage, signal, pc, ctx, traces, out>>

\* The external signal fires, once: its listeners abort the loop unless disposed.
Signal == /\ ~signalled
          /\ signalled' = TRUE
          /\ listeners' = {}
          /\ aborted' = (aborted \/ (listeners # {} /\ status # "disposed"))
          /\ UNCHANGED <<status, handler, usage, pc, ctx, traces, out>>

\* Mutant: dispose() does not abort.
DisposeQuiet == /\ listeners' = listeners \ {handler}
                /\ handler' = NoRun
                /\ status' = "disposed"
                /\ UNCHANGED <<aborted, usage, signalled, pc, ctx, traces, out>>

Dispose == /\ listeners' = listeners \ {handler}
           /\ handler' = NoRun
           /\ aborted' = TRUE
           /\ status' = "disposed"
           /\ UNCHANGED <<usage, signalled, pc, ctx, traces, out>>

\* What the run does by itself or when its reader pulls.
Step(r) ==
  \/ Top(r) \/ PreError(r) \/ PreDone(r) \/ Warn(r) \/ Begin(r)
  \/ GuardInput(r) \/ Block(r) \/ BlockError(r) \/ CallModel(r) \/ Chunk(r) \/ Resume(r)
  \/ Retry(r) \/ Wake(r) \/ WakeAborted(r) \/ Fail(r)
  \/ AnswerAborted(r)
  \/ \E cost \in 0..MaxCost : \/ AnswerOverBudget(r, cost)
                              \/ \E n \in 0..MaxTools : Answer(r, cost, n)
  \/ EndTurn(r) \/ BudgetError(r) \/ Terminate(r)
  \/ ToolCall(r) \/ NextTool(r) \/ Execute(r) \/ Results(r)
  \/ Note(r) \/ BlockResult(r) \/ PushNext(r) \/ PushAborted(r) \/ PushLast(r) \/ Finish(r)

Next == \/ \E r \in Runs : Refuse(r) \/ Start(r) \/ Step(r) \/ Close(r)
        \/ Abort \/ Signal \/ Dispose

\* A reader that has opened a run pulls it or closes it, and the model, the
\* tools, the guardrails and the timers settle.
Fairness == \A r \in Runs : WF_vars(Step(r))

Spec == Init /\ [][Next]_vars /\ Fairness

-----------------------------------------------------------------------------
Working == Points \ {"new", "preStart", "preError", "preDone", "done", "closed"}

\* Each run keeps the promise of EventStream: one error at most, one done, last.
Stream(r) == INSTANCE EventStream WITH last <- out[r].last, starts <- out[r].starts,
               errors <- out[r].errors, dones <- out[r].dones, closed <- pc[r] = "closed"
Streams == /\ \A r \in Runs : Stream(r)!Init
           /\ [][\A r \in Runs : [Stream(r)!Next]_(Stream(r)!vars)]_vars

\* Whatever is opened, closed, aborted or disposed, no two runs of one loop are in
\* an iteration together: they share the abort controller, the usage and the slot.
OneWorking == \A q, r \in Runs : pc[q] \in Working /\ pc[r] \in Working => q = r

\* A run that said done said one error if it did not end its turn, none if it did;
\* failed attempts that were retried said none.
OneErrorPerFailedRun == \A r \in Runs : pc[r] \in {"done", "preDone"} =>
  out[r].errors = One(ctx[r].reason # "end_turn")

\* iteration_start events are numbered 1, 2, ..., the synthetic one included.
StartsNumbered == \A r \in Runs : out[r].number = out[r].starts

\* At most one iteration span of a run is open, the one in its slot; none, and no
\* trace, survives the run.
SpanLedger == \A r \in Runs :
  /\ spans[r] = {ctx[r].span} \ {0}
  /\ pc[r] = "closed" => trace[r] # "open"

\* onIterationEnd has fired exactly once when its iteration gives way to the
\* next one or to done.
EndHookOnce == \A r \in Runs :
  /\ out[r].ended <= 1
  /\ (pc[r] \in {"top", "done"} \/ (pc[r] = "checked" /\ ctx[r].span # 0)) => out[r].ended = 1

\* Spans, traces and the hook balance over all the ways an iteration ends.
IterationLedger == SpanLedger /\ EndHookOnce

\* After an abort a run begins at most one model call, the one it was about to make
\* when it last checked, and at most one batch of tools. (What it has begun runs on,
\* and an iteration that was checked before the abort still starts.)
AbortBounds == \A r \in Runs : out[r].lateCalls <= 1 /\ out[r].lateBatches <= 1

\* The model is called only with every earlier tool call answered in the
\* conversation, within its attempts, and within the token budget.
SoundCall == \A r \in Runs : pc[r] = "calling" =>
  /\ ctx[r].open = 0
  /\ ctx[r].attempt <= MaxRetries + 1
  /\ ctx[r].spent <= MaxTokens

\* Only opening another run takes a disposed loop out of `disposed`: a run in
\* flight never does.
DisposedUntilReopened == [][status = "disposed" /\ status' # "disposed" =>
  \E r \in Runs : pc[r] = "new" /\ pc'[r] # "new"]_vars

\* Every run that is opened comes to its end, aborted or not.
RunsEnd == \A r \in Runs : pc[r] # "new" ~> pc[r] = "closed"
=============================================================================

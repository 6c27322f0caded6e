----------------------------- MODULE Delegation -----------------------------
(***************************************************************************)
(* orchestration/orchestrator.ts, delegate() and the two ways to dispose,  *)
(* with orchestration/delegation-tracker.ts: the graph of who delegated to *)
(* whom, kept free of cycles and below a cap, and the lock per source. The *)
(* lock is the FIFO semaphore that AsyncLock is shown to implement.        *)
(***************************************************************************)
EXTENDS Naturals, Sequences, FiniteSets, SequencesExt, FiniteSetsExt

CONSTANTS Agents,       \* agent ids
          Tasks,        \* delegate() calls; each is made at most once
          From,         \* [Tasks -> Agents \cup {NoAgent}]: metadata.delegatedFrom
          NoAgent,      \* undefined
          NoLock,       \* undefined
          MaxAgents,    \* maxAgents
          MaxEdges      \* maxDelegationChainEntries

ASSUME DelegationAssumption == /\ IsFiniteSet(Agents)
                               /\ NoAgent \notin Agents
                               /\ From \in [Tasks -> Agents \cup {NoAgent}]
                               /\ NoLock \notin Tasks
                               /\ MaxAgents \in Nat
                               /\ MaxEdges \in Nat

VARIABLES agents,       \* `agents`: those registered
          chain,        \* `chain`: the edges <<source, target>> of every inner Set
          lock,         \* `locks`: the lock object of a source, named by its creator
          line,         \* calls that wait for a lock, oldest first
          phase,        \* how far each delegate() call is
          taken,        \* the lock object a call has acquired or waits for
          inflight,     \* `inflightDelegations`
          disposed,     \* `disposed`
          drain         \* how far drainAndDispose() is

vars == <<agents, chain, lock, line, phase, taken, inflight, disposed, drain>>

\* "granted": the lock is acquired, the section has not begun (a microtask).
\* "selecting": strategy.select() is awaited. "leaving": the section is over,
\* withLock() has not resumed to release (a microtask). "done": settled.
Phases == {"new", "waiting", "granted", "selecting", "leaving", "done"}

TypeOK == /\ agents \subseteq Agents
          /\ chain \subseteq Agents \X Agents
          /\ lock \in [Agents -> Tasks \cup {NoLock}]
          /\ line \in Seq(Tasks)
          /\ phase \in [Tasks -> Phases]
          /\ taken \in [Tasks -> Tasks \cup {NoLock}]
          /\ inflight \in Nat
          /\ disposed \in BOOLEAN
          /\ drain \in {"no", "polling", "done"}

Init == /\ agents = {}
        /\ chain = {}
        /\ lock = [a \in Agents |-> NoLock]
        /\ line = <<>>
        /\ phase = [d \in Tasks |-> "new"]
        /\ taken = [d \in Tasks |-> NoLock]
        /\ inflight = 0
        /\ disposed = FALSE
        /\ drain = "no"

Locked(d) == From[d] # NoAgent
Held(l) == \E e \in Tasks : taken[e] = l /\ phase[e] \in {"granted", "selecting", "leaving"}

-----------------------------------------------------------------------------
\* register(): the id must be free and there must be room.
Register(a) == /\ a \notin agents /\ Cardinality(agents) < MaxAgents
               /\ agents' = agents \cup {a}
               /\ UNCHANGED <<chain, lock, line, phase, taken, inflight, disposed, drain>>

\* unregister() and removeAgent(): the edges from and to the agent go, and the
\* next delegation from it gets a fresh lock, whoever is inside the old one.
Unregister(a) ==
  /\ a \in agents
  /\ agents' = agents \ {a}
  /\ chain' = {e \in chain : e[1] # a /\ e[2] # a}
  /\ lock' = [lock EXCEPT ![a] = NoLock]
  /\ UNCHANGED <<line, phase, taken, inflight, disposed, drain>>

\* dispose(): agents, chain and locks are cleared; running calls stay.
Clear == /\ agents' = {}
         /\ chain' = {}
         /\ lock' = [a \in Agents |-> NoLock]
         /\ UNCHANGED <<line, phase, taken, inflight>>

Dispose == Clear /\ UNCHANGED <<disposed, drain>>

-----------------------------------------------------------------------------
\* delegate() after drainAndDispose() began: it throws.
DelegateRefused(d) ==
  /\ phase[d] = "new" /\ disposed
  /\ phase' = [phase EXCEPT ![d] = "done"]
  /\ UNCHANGED <<agents, chain, lock, line, taken, inflight, disposed, drain>>

\* Mutant: delegations without a source are not counted.
DelegateUncounted(d) ==
  /\ phase[d] = "new" /\ ~disposed /\ ~Locked(d)
  /\ phase' = [phase EXCEPT ![d] = "selecting"]
  /\ UNCHANGED <<agents, chain, lock, line, taken, inflight, disposed, drain>>

\* No source: trackedDelegation() runs at once, without a lock.
DelegateUnlocked(d) ==
  /\ phase[d] = "new" /\ ~disposed /\ ~Locked(d)
  /\ inflight' = inflight + 1
  /\ phase' = [phase EXCEPT ![d] = "selecting"]
  /\ UNCHANGED <<agents, chain, lock, line, taken, disposed, drain>>

\* A source: getLock() finds its lock or creates one, and acquire() takes it if
\* it is free or joins the line.
DelegateLocked(d) ==
  LET l == IF lock[From[d]] = NoLock THEN d ELSE lock[From[d]] IN
  /\ phase[d] = "new" /\ ~disposed /\ Locked(d)
  /\ lock' = [lock EXCEPT ![From[d]] = l]
  /\ taken' = [taken EXCEPT ![d] = l]
  /\ \/ Held(l) /\ line' = Append(line, d) /\ phase' = [phase EXCEPT ![d] = "waiting"]
     \/ ~Held(l) /\ line' = line /\ phase' = [phase EXCEPT ![d] = "granted"]
  /\ UNCHANGED <<agents, chain, inflight, disposed, drain>>

\* withLock() resumes: the counter goes up only here, and select() is awaited.
Begin(d) == /\ phase[d] = "granted"
            /\ inflight' = inflight + 1
            /\ phase' = [phase EXCEPT ![d] = "selecting"]
            /\ UNCHANGED <<agents, chain, lock, line, taken, disposed, drain>>

\* Mutant: only the direct delegates of the target are looked at.
ReachesDirectly(t, s) == s = t \/ <<t, s>> \in chain

\* assertNoCycle(): the search visits the least set that holds the target and
\* every delegate of its members; it meets the source when each such set does.
Reaches(t, s) ==
  \A C \in SUBSET Agents :
    (t \in C /\ \A e \in chain : e[1] \in C => e[2] \in C) => s \in C

\* recordEdge(): a new edge needs room in the whole chain.
Room(s, t) == <<s, t>> \in chain \/ Cardinality(chain) < MaxEdges

\* The `finally` of trackedDelegation().
Settle(d) == /\ phase' = [phase EXCEPT ![d] = IF Locked(d) THEN "leaving" ELSE "done"]
             /\ inflight' = inflight - 1
             /\ UNCHANGED <<agents, lock, line, taken, disposed, drain>>

\* select() answers with an agent it was shown, registered now or not any more:
\* the edge is checked and recorded in the same segment.
Select(d, t) ==
  /\ phase[d] = "selecting"
  /\ chain' = IF Locked(d) /\ ~Reaches(t, From[d]) /\ Room(From[d], t)
                THEN chain \cup {<<From[d], t>>} ELSE chain
  /\ Settle(d)

\* select() finds nobody, or rejects.
SelectNobody(d) == phase[d] = "selecting" /\ Settle(d) /\ UNCHANGED chain

\* Mutant: the lock is handed to nobody.
LeaveSilently(d) ==
  /\ phase[d] = "leaving"
  /\ phase' = [phase EXCEPT ![d] = "done"]
  /\ taken' = [taken EXCEPT ![d] = NoLock]
  /\ UNCHANGED <<agents, chain, lock, line, inflight, disposed, drain>>

\* withLock() releases: the oldest call in line for this lock object owns it.
Leave(d) ==
  LET waits == {i \in DOMAIN line : taken[line[i]] = taken[d]} IN
  /\ phase[d] = "leaving"
  /\ \/ /\ waits = {}
        /\ phase' = [phase EXCEPT ![d] = "done"]
        /\ line' = line
     \/ \E i \in waits :
          /\ \A j \in waits : i <= j
          /\ phase' = [phase EXCEPT ![d] = "done", ![line[i]] = "granted"]
          /\ line' = RemoveFirst(line, line[i])
  /\ taken' = [taken EXCEPT ![d] = NoLock]
  /\ UNCHANGED <<agents, chain, lock, inflight, disposed, drain>>

-----------------------------------------------------------------------------
\* drainAndDispose(): new calls are refused from here on; with nothing counted
\* in flight it disposes at once, whatever was granted but has not begun.
Drain == /\ drain = "no"
         /\ disposed' = TRUE
         /\ \/ inflight > 0 /\ drain' = "polling"
               /\ UNCHANGED <<agents, chain, lock, line, phase, taken, inflight>>
            \/ inflight = 0 /\ drain' = "done" /\ Clear

\* A timer callback runs when no promise continuation is left to run.
Quiescent == \A d \in Tasks : phase[d] \notin {"granted", "leaving"}

\* The 50 ms timer finds nothing in flight.
Poll == /\ drain = "polling" /\ Quiescent /\ inflight = 0
        /\ drain' = "done" /\ Clear /\ UNCHANGED disposed

\* The deadline has passed: it disposes whatever is in flight.
Deadline == /\ drain = "polling" /\ Quiescent /\ inflight > 0
            /\ drain' = "done" /\ Clear /\ UNCHANGED disposed

Next == \/ \E a \in Agents : Register(a) \/ Unregister(a)
        \/ \E d \in Tasks :
             \/ DelegateRefused(d) \/ DelegateUnlocked(d) \/ DelegateLocked(d)
             \/ Begin(d) \/ SelectNobody(d) \/ Leave(d)
             \/ \E t \in Agents : Select(d, t)
        \/ Dispose \/ Drain \/ Poll \/ Deadline

\* The strategy answers, and the continuations that are ready and the timers run.
Fairness == /\ WF_vars(Poll \/ Deadline)
            /\ WF_vars(\E d \in Tasks : \/ Begin(d) \/ Leave(d) \/ SelectNobody(d)
                                        \/ \E t \in Agents : Select(d, t))

Spec == Init /\ [][Next]_vars
FairSpec == Spec /\ Fairness

-----------------------------------------------------------------------------
\* The chain never holds a cycle, of any length and however the delegations of
\* several sources interleave with each other and with unregister(): every set
\* of agents has a member that delegated to no member of the set.
Acyclic == \A S \in (SUBSET Agents) \ {{}} :
             \E a \in S : \A b \in S : <<a, b>> \notin chain

\* The cap holds for the edges of all sources together.
WithinCap == Cardinality(chain) <= MaxEdges

Running == {d \in Tasks : phase[d] = "selecting"}

\* `inflightDelegations` counts the delegations that are running, also after
\* the tracker has dropped their lock or dispose() has cleared it.
InflightExact == inflight = Cardinality(Running)

\* When the poll of drainAndDispose() finds nothing in flight, no delegation is
\* left that could still run: none waits for a lock or was granted one.
DrainWaits == [][Poll => \A d \in Tasks : phase[d] \in {"new", "done"}]_vars

\* The line empties: every delegation that waits for a lock gets it, also when
\* the tracker has dropped that lock or drainAndDispose() has come to its end.
LineEmpties == line # <<>> ~> line = <<>>
=============================================================================

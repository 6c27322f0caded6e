------------------------ MODULE OrchestrationProofs ------------------------
(***************************************************************************)
(* Orchestration, for any agents, calls and bounds. First the safety of    *)
(* delegate(): the chain stays free of cycles, the counter is exact, and   *)
(* the poll of drainAndDispose() leaves nobody behind. Then the agent pool:*)
(* who holds which agent, the ledger, the queue, the timers, dispose().    *)
(***************************************************************************)
EXTENDS Delegation, AgentPool, SeqLemmas, FiniteSetTheorems

Types == /\ agents \subseteq Agents
         /\ chain \subseteq Agents \X Agents
         /\ lock \in [Agents -> Tasks \cup {NoLock}]
         /\ phase \in [Tasks -> Phases]
         /\ taken \in [Tasks -> Tasks \cup {NoLock}]
         /\ disposed \in BOOLEAN
         /\ drain \in {"no", "polling", "done"}

\* The steps that change no delegation.
Aside == \/ \E a \in Agents : Register(a) \/ Unregister(a)
         \/ Dispose \/ Drain \/ Poll \/ Deadline
         \/ UNCHANGED vars

\* A new orchestrator is well typed.
LEMMA TypesInit == Init => Types
  BY DEF Init, Types, Phases

\* Every step keeps the types of all but the line and the counter.
LEMMA TypesStep == Types /\ [Next]_vars => Types'
<1> SUFFICES ASSUME Types, [Next]_vars PROVE Types'
  OBVIOUS
<1> USE DelegationAssumption DEF Types, Phases
<1>1. CASE \E a \in Agents : Register(a) \/ Unregister(a)
  BY <1>1 DEF Register, Unregister
<1>2. CASE Dispose \/ Drain \/ Poll \/ Deadline
  BY <1>2 DEF Dispose, Drain, Poll, Deadline, Clear
<1>3. ASSUME NEW d \in Tasks, DelegateRefused(d) \/ DelegateUnlocked(d) \/ Begin(d)
      PROVE  Types'
  BY <1>3 DEF DelegateRefused, DelegateUnlocked, Begin
<1>4. ASSUME NEW d \in Tasks, DelegateLocked(d) PROVE Types'
  <2> DEFINE l == IF lock[From[d]] = NoLock THEN d ELSE lock[From[d]]
  <2>1. From[d] \in Agents
    BY <1>4 DEF DelegateLocked, Locked
  <2>2. l \in Tasks
    BY <2>1
  <2>3. /\ lock' = [lock EXCEPT ![From[d]] = l] /\ taken' = [taken EXCEPT ![d] = l]
        /\ UNCHANGED <<agents, chain, disposed, drain>>
        /\ \/ phase' = [phase EXCEPT ![d] = "waiting"]
           \/ phase' = [phase EXCEPT ![d] = "granted"]
    BY <1>4 DEF DelegateLocked
  <2> HIDE DEF l
  <2> QED BY <2>2, <2>3
<1>5. ASSUME NEW d \in Tasks, NEW t \in Agents, Select(d, t) PROVE Types'
  <2>1. chain' \subseteq Agents \X Agents
    BY <1>5 DEF Select, Locked
  <2> QED BY <1>5, <2>1 DEF Select, Settle
<1>6. ASSUME NEW d \in Tasks, SelectNobody(d) PROVE Types'
  BY <1>6 DEF SelectNobody, Settle
<1>7. ASSUME NEW d \in Tasks, Leave(d) PROVE Types'
  BY <1>7 DEF Leave
<1>8. CASE UNCHANGED vars
  BY <1>8 DEF vars
<1> QED BY <1>1, <1>2, <1>3, <1>4, <1>5, <1>6, <1>7, <1>8 DEF Next

-----------------------------------------------------------------------------
\* A step takes edges out of the chain, or records one that passed both tests.
LEMMA ChainChanges ==
  ASSUME Types, [Next]_vars
  PROVE  \/ chain' \subseteq chain
         \/ \E s, t \in Agents : /\ chain' = chain \cup {<<s, t>>}
                                 /\ ~Reaches(t, s) /\ Room(s, t)
<1>1. CASE Aside
  BY <1>1 DEF Aside, Register, Unregister, Dispose, Drain, Poll, Deadline, Clear, vars
<1>2. ASSUME NEW d \in Tasks, NEW t \in Agents, Select(d, t)
      PROVE  \/ chain' = chain
             \/ /\ From[d] \in Agents /\ chain' = chain \cup {<<From[d], t>>}
                /\ ~Reaches(t, From[d]) /\ Room(From[d], t)
  BY <1>2, DelegationAssumption DEF Select, Locked
<1>3. ASSUME NEW d \in Tasks,
             \/ DelegateRefused(d) \/ DelegateUnlocked(d) \/ DelegateLocked(d)
             \/ Begin(d) \/ SelectNobody(d) \/ Leave(d)
      PROVE  chain' = chain
  BY <1>3 DEF DelegateRefused, DelegateUnlocked, DelegateLocked, Begin, SelectNobody, Leave
<1> QED BY <1>1, <1>2, <1>3 DEF Next, Aside

\* An edge to a target that does not reach its source closes no cycle. The test
\* found a set C that holds the target and all it leads to, and not the source:
\* the new edge leaves every set that meets C by a member of C, and no set that
\* misses C has both of its ends.
LEMMA EdgeKeepsAcyclic ==
  ASSUME Acyclic, NEW s \in Agents, NEW t \in Agents, ~Reaches(t, s),
         chain' = chain \cup {<<s, t>>}
  PROVE  Acyclic'
<1> SUFFICES ASSUME NEW S \in (SUBSET Agents) \ {{}}
             PROVE  \E a \in S : \A b \in S : <<a, b>> \notin chain'
  BY DEF Acyclic
<1>1. PICK C \in SUBSET Agents :
        t \in C /\ (\A e \in chain : e[1] \in C => e[2] \in C) /\ s \notin C
  BY DEF Reaches
<1>2. CASE S \cap C # {}
  <2>1. PICK a \in S \cap C : \A b \in S \cap C : <<a, b>> \notin chain
    BY <1>2 DEF Acyclic
  <2>2. ASSUME NEW b \in S, <<a, b>> \in chain' PROVE FALSE
    <3>1. a # s
      BY <1>1
    <3>2. <<a, b>> \in chain
      BY <3>1, <2>2
    <3>3. b \in C
      <4>1. <<a, b>>[1] \in C => <<a, b>>[2] \in C
        BY <3>2, <1>1
      <4> QED BY <4>1
    <3> QED BY <3>2, <3>3, <2>1
  <2> QED BY <2>1, <2>2
<1>3. CASE S \cap C = {}
  <2>1. PICK a \in S : \A b \in S : <<a, b>> \notin chain
    BY DEF Acyclic
  <2>2. t \notin S
    BY <1>1, <1>3
  <2> QED BY <2>1, <2>2
<1> QED BY <1>2, <1>3

\* A chain that loses edges stays acyclic.
LEMMA FewerKeepAcyclic == ASSUME Acyclic, chain' \subseteq chain PROVE Acyclic'
<1> SUFFICES ASSUME NEW S \in (SUBSET Agents) \ {{}}
             PROVE  \E a \in S : \A b \in S : <<a, b>> \notin chain'
  BY DEF Acyclic
<1>1. PICK a \in S : \A b \in S : <<a, b>> \notin chain
  BY DEF Acyclic
<1> QED BY <1>1

ChainInv == Types /\ Acyclic /\ WithinCap

\* The chain starts empty.
LEMMA ChainInit == Init => ChainInv
<1> SUFFICES ASSUME Init PROVE ChainInv
  OBVIOUS
<1>1. Acyclic
  <2> SUFFICES ASSUME NEW S \in (SUBSET Agents) \ {{}}
               PROVE  \E a \in S : \A b \in S : <<a, b>> \notin chain
    BY DEF Acyclic
  <2>1. \E a : a \in S
    OBVIOUS
  <2>2. chain = {}
    BY DEF Init
  <2> QED BY <2>1, <2>2
<1>2. WithinCap
  BY FS_EmptySet, DelegationAssumption DEF Init, WithinCap
<1> QED BY <1>1, <1>2, TypesInit DEF ChainInv

\* Every step keeps the chain acyclic and below its cap.
LEMMA ChainStep == ChainInv /\ [Next]_vars => ChainInv'
<1> SUFFICES ASSUME ChainInv, [Next]_vars PROVE ChainInv'
  OBVIOUS
<1>1. Types'
  BY TypesStep DEF ChainInv
<1>2. IsFiniteSet(chain)
  <2>1. IsFiniteSet(Agents \X Agents)
    BY FS_Product, DelegationAssumption
  <2> QED BY <2>1, FS_Subset DEF ChainInv, Types
<1>3. CASE chain' \subseteq chain
  <2>1. Cardinality(chain') <= Cardinality(chain) /\ Cardinality(chain') \in Nat
        /\ Cardinality(chain) \in Nat
    BY <1>2, <1>3, FS_Subset, FS_CardinalityType
  <2>2. WithinCap'
    BY <2>1, DelegationAssumption DEF ChainInv, WithinCap
  <2> QED BY <1>1, <1>3, <2>2, FewerKeepAcyclic DEF ChainInv
<1>4. ASSUME NEW s \in Agents, NEW t \in Agents, chain' = chain \cup {<<s, t>>},
             ~Reaches(t, s), Room(s, t)
      PROVE  ChainInv'
  <2>1. Acyclic'
    BY <1>4, EdgeKeepsAcyclic DEF ChainInv
  <2>2. CASE <<s, t>> \in chain
    <3>1. chain' = chain
      BY <1>4, <2>2
    <3> QED BY <1>1, <2>1, <3>1 DEF ChainInv, WithinCap
  <2>3. CASE <<s, t>> \notin chain
    <3>1. Cardinality(chain) < MaxEdges
      BY <1>4, <2>3 DEF Room
    <3>2. Cardinality(chain') = Cardinality(chain) + 1 /\ Cardinality(chain) \in Nat
      BY <1>2, <1>4, <2>3, FS_AddElement, FS_CardinalityType
    <3>3. WithinCap'
      BY <3>1, <3>2, DelegationAssumption DEF WithinCap
    <3> QED BY <1>1, <2>1, <3>3 DEF ChainInv
  <2> QED BY <2>2, <2>3
<1>5. Types
  BY DEF ChainInv
<1> QED BY <1>3, <1>4, <1>5, ChainChanges

\* The chain is free of cycles in every reachable state.
THEOREM DelegationAcyclic == Spec => []Acyclic
<1>1. ChainInv => Acyclic
  BY DEF ChainInv
<1> QED BY <1>1, ChainInit, ChainStep, PTL DEF Spec

\* The edges of all sources together keep to maxDelegationChainEntries.
THEOREM DelegationCap == Spec => []WithinCap
<1>1. ChainInv => WithinCap
  BY DEF ChainInv
<1> QED BY <1>1, ChainInit, ChainStep, PTL DEF Spec

-----------------------------------------------------------------------------
Waiting == {d \in Tasks : phase[d] = "waiting"}
Holder(e) == phase[e] \in {"granted", "selecting", "leaving"}
LockServed(d) == taken[d] # NoLock /\ Held(taken[d])

\* The line is the calls that wait, each once; a call that waits has a lock
\* object and shares it with a holder, so that somebody is left to serve it.
LineInv == /\ line \in Seq(Tasks) /\ IsInjective(line) /\ ToSet(line) = Waiting
           /\ \A d \in Tasks : ~Locked(d) => taken[d] = NoLock /\ phase[d] # "waiting"
           /\ \A d \in Waiting : LockServed(d)

CountInv == IsFiniteSet(Running) /\ InflightExact

DelegationInv == Types /\ LineInv /\ CountInv

\* Nobody waits and nobody runs at the start.
LEMMA DelegationInit == Init => DelegationInv
<1> SUFFICES ASSUME Init PROVE DelegationInv
  OBVIOUS
<1>1. Waiting = {} /\ Running = {}
  BY DEF Init, Waiting, Running
<1>2. LineInv
  BY <1>1, NoneLemma DEF Init, LineInv, LockServed
<1>3. CountInv
  BY <1>1, FS_EmptySet DEF Init, CountInv, InflightExact
<1> QED BY <1>2, <1>3, TypesInit DEF DelegationInv

\* A call that joins the line of a held lock finds its holder.
LEMMA JoinKeeps ==
  ASSUME DelegationInv, NEW d \in Tasks, DelegateLocked(d)
  PROVE  LineInv'
<1> DEFINE l == IF lock[From[d]] = NoLock THEN d ELSE lock[From[d]]
<1>1. /\ phase[d] = "new" /\ Locked(d) /\ taken' = [taken EXCEPT ![d] = l]
      /\ \/ Held(l) /\ line' = Append(line, d) /\ phase' = [phase EXCEPT ![d] = "waiting"]
         \/ ~Held(l) /\ line' = line /\ phase' = [phase EXCEPT ![d] = "granted"]
  BY DEF DelegateLocked
<1>2. l \in Tasks /\ l # NoLock
  BY <1>1, DelegationAssumption DEF Locked, DelegationInv, Types
<1>3. d \notin Waiting /\ d \notin ToSet(line)
  BY <1>1 DEF Waiting, DelegationInv, LineInv, LockServed
<1> HIDE DEF l
<1>4. \A e \in Tasks \ {d} : phase'[e] = phase[e] /\ taken'[e] = taken[e]
  BY <1>1 DEF DelegationInv, Types
<1>5. phase'[d] \in {"waiting", "granted"} /\ taken'[d] = l
  BY <1>1 DEF DelegationInv, Types
<1>6. \A k : Held(k) => Held(k)'
  BY <1>1, <1>4 DEF Held, LockServed
<1>7. \A e \in Waiting : LockServed(e)'
  BY <1>3, <1>4, <1>6 DEF DelegationInv, LineInv, Waiting, LockServed
<1>8. \A e \in Tasks : ~Locked(e) => taken'[e] = NoLock /\ phase'[e] # "waiting"
  BY <1>1, <1>4 DEF DelegationInv, LineInv, LockServed
<1>9. CASE Held(l) /\ line' = Append(line, d) /\ phase' = [phase EXCEPT ![d] = "waiting"]
  <2>1. Waiting' = Waiting \cup {d}
    BY <1>4, <1>9 DEF Waiting, DelegationInv, Types
  <2>2. /\ line' \in Seq(Tasks) /\ IsInjective(line') /\ ToSet(line') = Waiting'
    BY <1>9, <1>3, <2>1, PushLemma DEF DelegationInv, LineInv, LockServed
  <2>3. LockServed(d)'
    BY <1>2, <1>5, <1>6, <1>9 DEF LockServed
  <2>4. \A e \in Waiting' : LockServed(e)'
    BY <1>7, <2>1, <2>3
  <2> QED BY <1>8, <2>2, <2>4 DEF LineInv, Locked, LockServed
<1>10. CASE ~Held(l) /\ line' = line /\ phase' = [phase EXCEPT ![d] = "granted"]
  <2>1. Waiting' = Waiting
    BY <1>3, <1>4, <1>10 DEF Waiting, DelegationInv, Types
  <2> QED BY <1>7, <1>8, <1>10, <2>1 DEF LineInv, Locked, DelegationInv, LockServed
<1> QED BY <1>1, <1>9, <1>10

\* A holder that leaves hands its lock to the first that waits for it, or leaves
\* nobody who waits for it.
LEMMA LeaveKeeps ==
  ASSUME DelegationInv, NEW d \in Tasks, Leave(d)
  PROVE  LineInv' /\ Running' = Running
<1> DEFINE waits == {i \in DOMAIN line : taken[line[i]] = taken[d]}
<1>1. phase[d] = "leaving" /\ taken' = [taken EXCEPT ![d] = NoLock]
  BY DEF Leave
<1>2. DOMAIN line = 1..Len(line) /\ \A i \in DOMAIN line : line[i] \in Waiting
  BY DEF DelegationInv, LineInv, ToSet, LockServed
<1>3. d \notin Waiting
  BY <1>1 DEF Waiting
<1>4. \A e \in Tasks \ {d} : taken'[e] = taken[e]
  BY <1>1 DEF DelegationInv, Types
<1>5. CASE waits = {} /\ phase' = [phase EXCEPT ![d] = "done"] /\ line' = line
  <2>1. \A e \in Tasks \ {d} : phase'[e] = phase[e]
    BY <1>5 DEF DelegationInv, Types
  <2>2. phase'[d] = "done" /\ taken'[d] = NoLock
    BY <1>1, <1>5 DEF DelegationInv, Types
  <2>3. Waiting' = Waiting /\ Running' = Running
    BY <1>1, <2>1, <2>2 DEF Waiting, Running
  <2>4. \A e \in Waiting : taken[e] # taken[d]
    <3>1. \A e \in Waiting : \E i \in DOMAIN line : line[i] = e
      BY DEF DelegationInv, LineInv, ToSet, LockServed
    <3> QED BY <3>1, <1>5
  <2>5. \A e \in Waiting : LockServed(e)'
    <3> SUFFICES ASSUME NEW e \in Waiting PROVE LockServed(e)'
      OBVIOUS
    <3>1. e \in Tasks \ {d} /\ taken[e] # NoLock
      BY <1>3 DEF Waiting, DelegationInv, LineInv, LockServed
    <3>2. PICK h \in Tasks : taken[h] = taken[e] /\ Holder(h)
      BY DEF DelegationInv, LineInv, Held, Holder, LockServed
    <3>3. h # d
      BY <2>4, <3>2
    <3> QED BY <1>4, <2>1, <3>1, <3>2, <3>3 DEF Held, Holder, LockServed
  <2>6. \A e \in Tasks : ~Locked(e) => taken'[e] = NoLock /\ phase'[e] # "waiting"
    BY <1>4, <2>1, <2>2 DEF DelegationInv, LineInv, LockServed
  <2> QED BY <1>5, <2>3, <2>5, <2>6 DEF LineInv, Locked, DelegationInv, LockServed
<1>6. ASSUME NEW i \in waits,
             phase' = [phase EXCEPT ![d] = "done", ![line[i]] = "granted"],
             line' = RemoveFirst(line, line[i])
      PROVE  LineInv' /\ Running' = Running
  <2> DEFINE n == line[i]
  <2>1. n \in Waiting /\ n \in Tasks /\ n # d /\ phase[n] = "waiting"
    BY <1>2, <1>3 DEF Waiting
  <2>2. taken[n] = taken[d]
    OBVIOUS
  <2>3. phase' = [phase EXCEPT ![d] = "done", ![n] = "granted"] /\ line' = RemoveFirst(line, n)
    BY <1>6
  <2> HIDE DEF n
  <2>4. /\ \A e \in Tasks \ {d, n} : phase'[e] = phase[e]
        /\ phase'[d] = "done" /\ phase'[n] = "granted"
    BY <2>1, <2>3 DEF DelegationInv, Types
  <2>5. Waiting' = Waiting \ {n} /\ Running' = Running
    BY <1>1, <2>1, <2>4 DEF Waiting, Running
  <2>6. line' \in Seq(Tasks) /\ IsInjective(line') /\ ToSet(line') = Waiting'
    BY <2>3, <2>5, SpliceLemma DEF DelegationInv, LineInv, LockServed
  <2>7. taken'[n] = taken[n] /\ taken'[d] = NoLock
    BY <1>1, <1>4, <2>1 DEF DelegationInv, Types
  <2>8. \A e \in Waiting' : LockServed(e)'
    <3> SUFFICES ASSUME NEW e \in Waiting \ {n} PROVE LockServed(e)'
      BY <2>5
    <3>1. e \in Tasks \ {d} /\ taken[e] # NoLock
      BY <1>3 DEF Waiting, DelegationInv, LineInv, LockServed
    <3>2. PICK h \in Tasks : taken[h] = taken[e] /\ Holder(h)
      BY DEF DelegationInv, LineInv, Held, Holder, LockServed
    <3>3. CASE h = d
      BY <1>4, <2>1, <2>2, <2>4, <2>7, <3>1, <3>2, <3>3 DEF Held, LockServed
    <3>4. CASE h # d
      <4>1. h # n
        BY <2>1, <3>2 DEF Holder
      <4> QED BY <1>4, <2>4, <3>1, <3>2, <3>4, <4>1 DEF Held, Holder, LockServed
    <3> QED BY <3>3, <3>4
  <2>9. \A e \in Tasks : ~Locked(e) => taken'[e] = NoLock /\ phase'[e] # "waiting"
    BY <1>4, <2>4, <2>7 DEF DelegationInv, LineInv, LockServed
  <2> QED BY <2>5, <2>6, <2>8, <2>9 DEF LineInv, Locked, LockServed
<1> QED BY <1>5, <1>6 DEF Leave

\* A call that goes on without entering or leaving a line keeps the line: it holds
\* on to its lock, or it never had one.
LEMMA ProgressKeeps ==
  ASSUME DelegationInv, NEW d \in Tasks, UNCHANGED <<line, taken>>,
         NEW p \in {"done", "selecting", "leaving"}, phase' = [phase EXCEPT ![d] = p],
         phase[d] # "waiting",
         Holder(d) /\ Locked(d) => p # "done"
  PROVE  LineInv'
<1>1. /\ \A e \in Tasks \ {d} : phase'[e] = phase[e]
      /\ phase'[d] = p
  BY DEF DelegationInv, Types
<1>2. Waiting' = Waiting
  BY <1>1 DEF Waiting
<1>3. \A e \in Waiting : LockServed(e)'
  <2> SUFFICES ASSUME NEW e \in Waiting PROVE LockServed(e)'
    OBVIOUS
  <2>1. taken[e] # NoLock
    BY DEF DelegationInv, LineInv, LockServed
  <2>2. PICK h \in Tasks : taken[h] = taken[e] /\ Holder(h)
    BY DEF DelegationInv, LineInv, Held, Holder, LockServed
  <2>3. Locked(h)
    BY <2>1, <2>2 DEF DelegationInv, LineInv, LockServed
  <2>4. Holder(h)'
    BY <1>1, <2>2, <2>3 DEF Holder
  <2> QED BY <2>1, <2>2, <2>4 DEF Held, Holder, LockServed
<1>4. \A e \in Tasks : ~Locked(e) => taken[e] = NoLock /\ phase'[e] # "waiting"
  BY <1>1 DEF DelegationInv, LineInv, LockServed
<1> QED BY <1>2, <1>3, <1>4 DEF LineInv, Locked, Held, DelegationInv, LockServed

-----------------------------------------------------------------------------
\* The counter follows a step that takes d in, lets it out, or neither.
LEMMA CountKeeps ==
  ASSUME CountInv,
         \/ Running' = Running /\ inflight' = inflight
         \/ \E d \in Tasks \ Running : Running' = Running \cup {d} /\ inflight' = inflight + 1
         \/ \E d \in Running : Running' = Running \ {d} /\ inflight' = inflight - 1
  PROVE  CountInv'
<1>1. Cardinality(Running) \in Nat
  BY FS_CardinalityType DEF CountInv
<1>2. CASE Running' = Running /\ inflight' = inflight
  BY <1>2 DEF CountInv, InflightExact
<1>3. ASSUME NEW d \in Tasks \ Running,
             Running' = Running \cup {d}, inflight' = inflight + 1
      PROVE  CountInv'
  BY <1>1, <1>3, FS_AddElement DEF CountInv, InflightExact
<1>4. ASSUME NEW d \in Running, Running' = Running \ {d}, inflight' = inflight - 1
      PROVE  CountInv'
  BY <1>1, <1>4, FS_RemoveElement DEF CountInv, InflightExact
<1> QED BY <1>2, <1>3, <1>4

\* The `finally` of a delegation, whatever select() answered.
LEMMA SettleKeeps ==
  ASSUME DelegationInv, NEW d \in Tasks, phase[d] = "selecting", Settle(d)
  PROVE  LineInv' /\ CountInv'
<1>1. /\ UNCHANGED <<line, taken>> /\ inflight' = inflight - 1
      /\ phase' = [phase EXCEPT ![d] = IF Locked(d) THEN "leaving" ELSE "done"]
  BY DEF Settle
<1>2. LineInv'
  <2>1. CASE Locked(d)
    BY <1>1, <2>1, ProgressKeeps
  <2>2. CASE ~Locked(d)
    BY <1>1, <2>2, ProgressKeeps
  <2> QED BY <2>1, <2>2
<1>3. Running' = Running \ {d} /\ d \in Running
  BY <1>1 DEF Running, DelegationInv, Types
<1> QED BY <1>1, <1>2, <1>3, CountKeeps DEF DelegationInv

\* Every step keeps the line served and the counter exact.
LEMMA DelegationStep == DelegationInv /\ [Next]_vars => DelegationInv'
<1> SUFFICES ASSUME DelegationInv, [Next]_vars PROVE LineInv' /\ CountInv'
  BY TypesStep DEF DelegationInv
<1>1. CASE Aside
  <2>1. UNCHANGED <<line, phase, taken, inflight>>
    BY <1>1 DEF Aside, Register, Unregister, Dispose, Drain, Poll, Deadline, Clear, vars
  <2>2. Running' = Running /\ Waiting' = Waiting
    BY <2>1 DEF Running, Waiting
  <2>3. LineInv'
    BY <2>1, <2>2 DEF DelegationInv, LineInv, LockServed, Held, Locked
  <2> QED BY <2>1, <2>2, <2>3, CountKeeps DEF DelegationInv
<1>2. ASSUME NEW d \in Tasks, DelegateRefused(d) PROVE LineInv' /\ CountInv'
  <2>1. /\ phase[d] = "new" /\ phase' = [phase EXCEPT ![d] = "done"]
        /\ UNCHANGED <<line, taken, inflight>>
    BY <1>2 DEF DelegateRefused
  <2>2. Running' = Running
    BY <2>1 DEF Running, DelegationInv, Types
  <2>3. LineInv'
    BY <2>1, ProgressKeeps DEF Holder
  <2> QED BY <2>1, <2>2, <2>3, CountKeeps DEF DelegationInv
<1>3. ASSUME NEW d \in Tasks, DelegateUnlocked(d) \/ Begin(d) PROVE LineInv' /\ CountInv'
  <2>1. /\ phase[d] \in {"new", "granted"} /\ phase' = [phase EXCEPT ![d] = "selecting"]
        /\ UNCHANGED <<line, taken>> /\ inflight' = inflight + 1
    BY <1>3 DEF DelegateUnlocked, Begin
  <2>2. Running' = Running \cup {d} /\ d \notin Running
    BY <2>1 DEF Running, DelegationInv, Types
  <2>3. LineInv'
    BY <2>1, ProgressKeeps
  <2> QED BY <2>1, <2>2, <2>3, CountKeeps DEF DelegationInv
<1>4. ASSUME NEW d \in Tasks, DelegateLocked(d) PROVE LineInv' /\ CountInv'
  <2>1. /\ phase[d] = "new" /\ inflight' = inflight
        /\ \/ phase' = [phase EXCEPT ![d] = "waiting"]
           \/ phase' = [phase EXCEPT ![d] = "granted"]
    BY <1>4 DEF DelegateLocked
  <2>2. Running' = Running
    BY <2>1 DEF Running, DelegationInv, Types
  <2> QED BY <1>4, <2>1, <2>2, JoinKeeps, CountKeeps DEF DelegationInv
<1>5. ASSUME NEW d \in Tasks, SelectNobody(d) \/ \E t \in Agents : Select(d, t)
      PROVE  LineInv' /\ CountInv'
  BY <1>5, SettleKeeps DEF SelectNobody, Select
<1>6. ASSUME NEW d \in Tasks, Leave(d) PROVE LineInv' /\ CountInv'
  <2>1. inflight' = inflight
    BY <1>6 DEF Leave
  <2> QED BY <1>6, <2>1, LeaveKeeps, CountKeeps DEF DelegationInv
<1> QED BY <1>1, <1>2, <1>3, <1>4, <1>5, <1>6 DEF Next, Aside

\* The invariant holds in every reachable state.
THEOREM DelegationInvariance == Spec => []DelegationInv
  BY DelegationInit, DelegationStep, PTL DEF Spec

\* The state is well typed, the line and the counter included.
THEOREM DelegationTypeOK == Spec => []TypeOK
<1>1. DelegationInv => TypeOK
  BY FS_CardinalityType
  DEF DelegationInv, Types, LineInv, CountInv, InflightExact, TypeOK
<1> QED BY <1>1, DelegationInvariance, PTL

\* `inflightDelegations` counts exactly the delegations that are running.
THEOREM DelegationInflight == Spec => []InflightExact
<1>1. DelegationInv => InflightExact
  BY DEF DelegationInv, CountInv
<1> QED BY <1>1, DelegationInvariance, PTL

\* The poll of drainAndDispose() ends its wait with nobody left: what it counts
\* is nobody, nobody has been granted a lock when a timer runs, and whoever
\* waited would have a holder to wait for.
THEOREM DelegationDrain == Spec => DrainWaits
<1>1. DelegationInv /\ [Next]_vars
        => [Poll => \A d \in Tasks : phase[d] \in {"new", "done"}]_vars
  <2> SUFFICES ASSUME DelegationInv, Poll, NEW d \in Tasks
               PROVE  phase[d] \in {"new", "done"}
    OBVIOUS
  <2>1. Running = {}
    BY FS_EmptySet DEF Poll, DelegationInv, CountInv, InflightExact
  <2>2. \A e \in Tasks : ~Holder(e)
    BY <2>1 DEF Poll, Quiescent, Running, Holder
  <2>3. phase[d] # "waiting"
    BY <2>2 DEF DelegationInv, LineInv, LockServed, Held, Waiting, Holder
  <2> QED BY <2>2, <2>3 DEF DelegationInv, Types, Phases, Holder
<1> QED BY <1>1, DelegationInvariance, PTL DEF Spec, DrainWaits

-----------------------------------------------------------------------------
\* The pool. The states of an agent, and the agents that have left the map.
States == {"unborn", "idle", "active", "gone"}
Gone(e) == {a \in PooledAgents : e[a] = "gone"}

\* Agents are made in the order of their numbers.
InOrder == \E k \in 0..MaxCreated : Created(entries) = 1..k

\* The size keeps to its bound; until dispose() what left was counted, and disposed once.
PoolBalance ==
  /\ Cardinality(Live(entries)) <= Most
  /\ ~poolDisposed =>
       /\ Cardinality(Gone(entries)) = recycled
       /\ \A a \in PooledAgents : disposals[a] = IF entries[a] = "gone" THEN 1 ELSE 0

\* Whoever has been served remembers an agent.
HeldKnown == \A c \in Calls : call[c] \in {"holding", "returned"} => held[c] \in PooledAgents

\* An agent has one holder, with whom it is active, but for the stale ones.
Exclusive ==
  /\ \A c, d \in Holding : held[c] = held[d] => c = d \/ held[c] \in stale
  /\ ~poolDisposed => \A c \in Holding : held[c] \in stale \/ entries[held[c]] = "active"

\* What is left after the latch is on the list of what is still to be torn down.
Dismantled == /\ doomed \subseteq Created(entries)
              /\ ~poolDisposed => doomed = {}
              /\ poolDisposed => Live(entries) \subseteq doomed

PoolInv == /\ PoolTypes /\ PoolQueue /\ InOrder /\ PoolBalance
           /\ HeldKnown /\ Exclusive /\ IdleTimed /\ Dismantled

-----------------------------------------------------------------------------
\* The numbers of a pool are natural, its agents finitely many.
LEMMA PoolNumbers ==
  /\ MaxCreated \in Nat /\ MinSize \in Nat /\ MaxSize \in Nat /\ MaxPending \in Nat
  /\ Most \in Nat /\ MinSize <= Most /\ MaxSize <= Most
  /\ \A S : S \subseteq PooledAgents => IsFiniteSet(S) /\ Cardinality(S) \in Nat
<1>1. MaxCreated \in Nat /\ MinSize \in Nat /\ MaxSize \in Nat /\ MaxPending \in Nat
  BY PoolAssumption
<1>2. IsFiniteSet(PooledAgents)
  BY <1>1, FS_Interval DEF PooledAgents
<1>3. Most \in Nat /\ MinSize <= Most /\ MaxSize <= Most
  <2>1. \E x \in {MinSize, MaxSize} : \A y \in {MinSize, MaxSize} : x >= y
    BY <1>1
  <2> QED BY <1>1, <2>1 DEF Most, Max
<1> QED BY <1>1, <1>2, <1>3, FS_Subset, FS_CardinalityType

\* 1..k has k elements, and no other initial segment is the same.
LEMMA SegmentLemma ==
  ASSUME NEW k \in Nat
  PROVE  Cardinality(1..k) = k
<1>1. Cardinality(1..k) = IF 1 > k THEN 0 ELSE k - 1 + 1
  BY FS_Interval
<1> QED BY <1>1

\* The least number of a set of agents is one of them.
LEMMA MinLemma ==
  ASSUME NEW S \in SUBSET PooledAgents, S # {}
  PROVE  Min(S) \in S /\ \A a \in S : Min(S) <= a
<1>1. S \in SUBSET Nat
  BY PoolNumbers DEF PooledAgents
<1>2. \E a \in S : \A b \in S : a <= b
  BY <1>1, LeastLemma
<1> QED BY <1>2 DEF Min

\* createEntry in a loop: the next agents in their order, as many as fit under n.
LEMMA BornLemma ==
  ASSUME PoolTypes, InOrder, NEW n \in Nat, n <= Most,
         Cardinality(Live(entries)) <= Most
  PROVE  LET B == Born(entries, n)
             k == Cardinality(Created(entries))
         IN /\ B \subseteq PooledAgents /\ B \cap Created(entries) = {}
            /\ k \in Nat
            /\ \E m \in 0..MaxCreated : m <= k + n /\ Created(entries) \cup B = 1..m
            /\ Cardinality(Live(entries) \cup B) <= Most
<1> DEFINE B == Born(entries, n)
           L == Live(entries)
<1>1. PICK k \in 0..MaxCreated : Created(entries) = 1..k
  BY DEF InOrder
<1>2. MaxCreated \in Nat /\ Most \in Nat /\ k \in Nat
  BY PoolNumbers
<1>3. Cardinality(Created(entries)) = k
  BY <1>1, <1>2, SegmentLemma
<1>4. PICK l \in Nat : Cardinality(L) = l
  BY PoolNumbers DEF Live
<1>5. B = {a \in 1..MaxCreated : a > k /\ l + a - k <= n}
  BY <1>1, <1>2, <1>3, <1>4 DEF Born, PooledAgents
<1>6. PICK m \in k..MaxCreated : B = (k + 1)..m /\ (m = k \/ l + m - k <= n)
  <2>1. CASE l >= n
    <3>1. B = (k + 1)..k
      BY <1>2, <1>5, <2>1
    <3> QED BY <1>2, <3>1
  <2>2. CASE l < n /\ k + n - l <= MaxCreated
    <3>1. B = (k + 1)..(k + n - l) /\ k + n - l \in k..MaxCreated
      <4>1. k + n - l \in k..MaxCreated
        BY <1>2, <1>4, <2>2
      <4>2. \A x \in 1..MaxCreated : l + x - k <= n <=> x <= k + n - l
        BY <1>2, <1>4
      <4> QED BY <1>2, <1>4, <1>5, <4>1, <4>2
    <3> QED BY <1>2, <1>4, <3>1
  <2>3. CASE l < n /\ k + n - l > MaxCreated
    <3>1. B = (k + 1)..MaxCreated /\ MaxCreated \in k..MaxCreated
      BY <1>2, <1>5, <2>3
    <3>2. l + MaxCreated - k <= n
      BY <1>2, <2>3
    <3> QED BY <3>1, <3>2
  <2> QED BY <1>2, <2>1, <2>2, <2>3
<1>7. 1..k \cup B = 1..m /\ m \in 0..MaxCreated /\ m <= k + n
  BY <1>2, <1>4, <1>6
<1>8. Cardinality(L \cup B) <= Most
  <2>1. IsFiniteSet(B) /\ IsFiniteSet(L)
    BY <1>5, PoolNumbers DEF Live, PooledAgents
  <2>2. Cardinality(B) = m - k
    <3>1. Cardinality((k + 1)..m) = IF k + 1 > m THEN 0 ELSE m - (k + 1) + 1
      BY <1>2, FS_Interval
    <3> QED BY <1>2, <1>6, <3>1
  <2>3. Cardinality(L \cup B) = l + (m - k) - Cardinality(L \cap B)
    BY <1>4, <2>1, <2>2, FS_Union
  <2>4. L \cap B = {}
    BY <1>1, <1>2, <1>6 DEF Live, Created
  <2>5. Cardinality(L \cap B) = 0
    BY <2>4, FS_EmptySet
  <2> QED BY <1>2, <1>4, <1>6, <2>3, <2>5
<1>9. B \subseteq PooledAgents /\ B \cap Created(entries) = {}
  BY DEF Born
<1> QED BY <1>1, <1>2, <1>3, <1>7, <1>8, <1>9

-----------------------------------------------------------------------------
\* What a step does to the map keeps the ledger when the agents stay in their
\* order, within max, and each that leaves is counted.
LEMMA LedgerStep ==
  ASSUME PoolInv, PoolTypes', NEW G \in SUBSET PooledAgents,
         InOrder', Cardinality(Live(entries'))  <= Most,
         poolDisposed => poolDisposed',
         ~poolDisposed' => /\ Gone(entries') = Gone(entries) \cup G
                           /\ G \cap Gone(entries) = {}
                           /\ Recycle(G) \/ (G = {} /\ UNCHANGED <<recycled, disposals>>)
  PROVE  InOrder' /\ PoolBalance'
<1>1. SUFFICES ASSUME ~poolDisposed'
               PROVE  /\ Cardinality(Gone(entries')) = recycled'
                      /\ \A a \in PooledAgents :
                           disposals'[a] = IF entries'[a] = "gone" THEN 1 ELSE 0
  BY DEF PoolBalance
<1>2. ~poolDisposed
  BY <1>1
<1>3. /\ Cardinality(Gone(entries)) = recycled
      /\ \A a \in PooledAgents : disposals[a] = IF entries[a] = "gone" THEN 1 ELSE 0
  BY <1>2 DEF PoolInv, PoolBalance
<1>4. CASE Recycle(G)
  <2>1. IsFiniteSet(G) /\ IsFiniteSet(Gone(entries))
        /\ Cardinality(G) \in Nat /\ Cardinality(Gone(entries)) \in Nat
    BY PoolNumbers DEF Gone
  <2>2. Cardinality(Gone(entries) \cup G)
          = Cardinality(Gone(entries)) + Cardinality(G) - Cardinality(Gone(entries) \cap G)
    BY <2>1, FS_Union
  <2>3. Gone(entries) \cap G = {} /\ Gone(entries') = Gone(entries) \cup G
    BY <1>1
  <2>4. Cardinality(Gone(entries) \cap G) = 0
    BY <2>3, FS_EmptySet
  <2>5. Cardinality(Gone(entries')) = recycled'
    BY <1>3, <1>4, <2>1, <2>2, <2>3, <2>4 DEF Recycle
  <2>6. ASSUME NEW a \in PooledAgents
        PROVE  disposals'[a] = IF entries'[a] = "gone" THEN 1 ELSE 0
    <3>1. disposals'[a] = IF a \in G THEN disposals[a] + 1 ELSE disposals[a]
      BY <1>4 DEF Recycle
    <3>2. entries'[a] = "gone" <=> (entries[a] = "gone" \/ a \in G)
      BY <2>3 DEF Gone
    <3>3. a \in G => entries[a] # "gone"
      BY <2>3 DEF Gone
    <3> QED BY <1>3, <3>1, <3>2, <3>3
  <2> QED BY <2>5, <2>6
<1>5. CASE G = {} /\ UNCHANGED <<recycled, disposals>>
  <2>1. Gone(entries') = Gone(entries)
    BY <1>1, <1>5
  <2>2. \A a \in PooledAgents : entries'[a] = "gone" <=> entries[a] = "gone"
    BY <2>1 DEF Gone
  <2> QED BY <1>3, <1>5, <2>1, <2>2
<1> QED BY <1>1, <1>4, <1>5

\* warmUp and the scan: idle agents are made, the expired among the idle go.
LEMMA WarmLemma ==
  ASSUME PoolInv, NEW c \in Calls, Acquiring(c)
  PROVE  /\ Warm \subseteq PooledAgents /\ Warm \cap Created(entries) = {}
         /\ Warmed \in [PooledAgents -> States] /\ Scanned \in [PooledAgents -> States]
         /\ \E m \in 0..MaxCreated : /\ m < MaxCreated
                                     /\ Created(Warmed) = 1..m /\ Created(Scanned) = 1..m
         /\ Cardinality(Live(Warmed)) <= Most /\ Cardinality(Live(Scanned)) <= Most
         /\ \A a \in PooledAgents : Warmed[a] = IF a \in Warm THEN "idle" ELSE entries[a]
         /\ \A a \in PooledAgents : Scanned[a] = IF a \in Stale THEN "gone" ELSE Warmed[a]
         /\ Stale \subseteq PooledAgents /\ Fresh \subseteq PooledAgents
         /\ Stale \cap Fresh = {} /\ Stale \cup Fresh = Idle(entries) \cup Warm
<1> USE DEF PoolInv
<1>1. MaxCreated \in Nat /\ MinSize \in Nat /\ Most \in Nat /\ MinSize <= Most
  BY PoolNumbers
<1>2. Cardinality(Live(entries)) <= Most /\ PoolTypes /\ InOrder
  BY DEF PoolBalance
<1>3. PICK k \in 0..MaxCreated : Created(entries) = 1..k
  BY <1>2 DEF InOrder
<1>4. Cardinality(Created(entries)) = k /\ k + MinSize + 1 <= MaxCreated
  BY <1>1, <1>3, SegmentLemma DEF Acquiring, RoomFor
<1>5. /\ Warm \subseteq PooledAgents /\ Warm \cap Created(entries) = {}
      /\ \E m \in 0..MaxCreated : m < MaxCreated /\ Created(entries) \cup Warm = 1..m
      /\ Cardinality(Live(entries) \cup Warm) <= Most
  <2>1. CASE warmedUp
    <3>1. Warm = {}
      BY <2>1 DEF Warm
    <3>2. /\ Created(entries) \cup Warm = 1..k /\ k < MaxCreated
          /\ Live(entries) \cup Warm = Live(entries)
      BY <1>1, <1>3, <1>4, <3>1
    <3> QED BY <1>2, <3>1, <3>2
  <2>2. CASE ~warmedUp
    <3>1. Warm = Born(entries, MinSize)
      BY <2>2 DEF Warm
    <3>2. /\ Warm \subseteq PooledAgents /\ Warm \cap Created(entries) = {}
          /\ \E m \in 0..MaxCreated : m <= k + MinSize /\ Created(entries) \cup Warm = 1..m
          /\ Cardinality(Live(entries) \cup Warm) <= Most
      BY <1>1, <1>2, <1>4, <3>1, BornLemma
    <3>3. \A m \in 0..MaxCreated : m <= k + MinSize => m < MaxCreated
      BY <1>1, <1>4
    <3> QED BY <3>2, <3>3
  <2> QED BY <2>1, <2>2
<1>6. \A a \in PooledAgents : Warmed[a] = IF a \in Warm THEN "idle" ELSE entries[a]
  BY DEF Warmed, Put
<1>7. \A a \in PooledAgents : Scanned[a] = IF a \in Stale THEN "gone" ELSE Warmed[a]
  BY DEF Scanned, Put
<1>8. entries \in [PooledAgents -> States]
  BY <1>2 DEF PoolTypes, States
<1>9. Warmed \in [PooledAgents -> States]
  BY <1>8 DEF Warmed, Put, States
<1>10. Scanned \in [PooledAgents -> States]
  BY <1>9 DEF Scanned, Put, States
<1>11. Idle(Warmed) = Idle(entries) \cup Warm
  BY <1>5, <1>6, <1>8 DEF Idle, Created, States
<1>12. /\ Stale \subseteq PooledAgents /\ Fresh \subseteq PooledAgents
       /\ Stale \cap Fresh = {} /\ Stale \cup Fresh = Idle(entries) \cup Warm
  BY <1>11 DEF Stale, Fresh, Idle
<1>13. Created(Warmed) = Created(entries) \cup Warm /\ Live(Warmed) = Live(entries) \cup Warm
  BY <1>5, <1>6, <1>8 DEF Created, Live, States
<1>14. Created(Scanned) = Created(Warmed) /\ Live(Scanned) \subseteq Live(Warmed)
  BY <1>7, <1>9 DEF Created, Live, Stale, Idle
<1>15. Cardinality(Live(Warmed)) <= Most /\ Cardinality(Live(Scanned)) <= Most
  <2>1. IsFiniteSet(Live(Warmed)) /\ Cardinality(Live(Warmed)) \in Nat
        /\ Cardinality(Live(Scanned)) \in Nat
    BY PoolNumbers DEF Live
  <2>2. Cardinality(Live(Scanned)) <= Cardinality(Live(Warmed))
    BY <1>14, <2>1, FS_Subset
  <2>3. Cardinality(Live(Warmed)) <= Most
    BY <1>5, <1>13
  <2> QED BY <1>1, <2>1, <2>2, <2>3
<1>16. \E m \in 0..MaxCreated : /\ m < MaxCreated
                                /\ Created(Warmed) = 1..m /\ Created(Scanned) = 1..m
  BY <1>5, <1>13, <1>14
<1> QED BY <1>5, <1>6, <1>7, <1>9, <1>10, <1>12, <1>15, <1>16

-----------------------------------------------------------------------------
\* A step in which nobody is handed an agent, and none is taken from its holder,
\* keeps agents and holders one to one.
LEMMA KeepUse ==
  ASSUME PoolInv, stale \subseteq stale', poolDisposed => poolDisposed',
         \A d \in Calls : call'[d] \in {"holding", "returned"} =>
                             /\ held'[d] = held[d] /\ call[d] \in {"holding", "returned"}
                             /\ call'[d] = "holding" => call[d] = "holding",
         ~poolDisposed' =>
           \A d \in Holding : \/ call'[d] # "holding" \/ held[d] \in stale'
                              \/ entries[held[d]] = "active" => entries'[held[d]] = "active"
  PROVE  HeldKnown' /\ Exclusive'
  BY DEF PoolInv, HeldKnown, Exclusive, Holding

\* A step that makes an agent active for c, when it was not in use.
LEMMA HandUse ==
  ASSUME PoolInv, ~poolDisposed, NEW c \in Calls, NEW a \in PooledAgents, Hand(c, a),
         call[c] \in {"new", "waiting"}, entries[a] # "active", entries'[a] = "active",
         \A b \in PooledAgents : entries[b] = "active" => entries'[b] = "active",
         UNCHANGED stale
  PROVE  HeldKnown' /\ Exclusive'
<1>1. /\ call \in [Calls -> {"new", "waiting", "holding", "returned", "rejected"}]
      /\ held \in [Calls -> 0..MaxCreated]
  BY DEF PoolInv, PoolTypes
<1>2. /\ \A d \in Calls : d # c => call'[d] = call[d] /\ held'[d] = held[d]
      /\ call'[c] = "holding" /\ held'[c] = a
  BY <1>1 DEF Hand
<1>3. HeldKnown'
  BY <1>2 DEF PoolInv, HeldKnown
<1>4. \A d \in Holding : held[d] = a => held[d] \in stale
  BY DEF PoolInv, Exclusive
<1>5. \A d \in Holding' : d \in Calls /\ (d = c \/ (d \in Holding /\ held'[d] = held[d]))
  <2>1. ASSUME NEW d \in Calls, call'[d] = "holding", d # c
        PROVE  d \in Holding /\ held'[d] = held[d]
    BY <1>2, <2>1 DEF Holding
  <2> QED BY <2>1 DEF Holding
<1>6. \A d, e \in Holding' : held'[d] = held'[e] => d = e \/ held'[d] \in stale'
  <2>1. TAKE d, e \in Holding'
  <2>2. CASE d = c /\ e # c
    BY <1>2, <1>4, <1>5, <2>2
  <2>3. CASE d # c /\ e = c
    BY <1>2, <1>4, <1>5, <2>3
  <2>4. CASE d # c /\ e # c
    BY <1>5, <2>4 DEF PoolInv, Exclusive
  <2> QED BY <2>2, <2>3, <2>4
<1>7. \A d \in Holding' : held'[d] \in stale' \/ entries'[held'[d]] = "active"
  <2>1. TAKE d \in Holding'
  <2>2. CASE d = c
    BY <1>2, <2>2
  <2>3. CASE d # c
    <3>1. d \in Holding /\ held'[d] = held[d] /\ held[d] \in PooledAgents
      BY <1>5, <2>3 DEF PoolInv, HeldKnown, Holding
    <3>2. held[d] \in stale \/ entries[held[d]] = "active"
      BY <3>1 DEF PoolInv, Exclusive
    <3> QED BY <3>1, <3>2
  <2> QED BY <2>2, <2>3
<1> QED BY <1>3, <1>6, <1>7 DEF Exclusive

-----------------------------------------------------------------------------
\* acquire() that finds an idle agent.
LEMMA IdleKeeps ==
  ASSUME PoolInv, NEW c \in Calls, AcquireIdle(c), UNCHANGED stale
  PROVE  PoolInv'
<1> DEFINE a == Min(Fresh)
<1>1. Acquiring(c) /\ ~poolDisposed /\ poolDisposed' = poolDisposed /\ call[c] = "new"
  BY DEF AcquireIdle, Acquiring, teardown
<1>2. PoolTypes
  BY DEF PoolInv
<1>3. /\ Warm \subseteq PooledAgents /\ Warm \cap Created(entries) = {}
      /\ Scanned \in [PooledAgents -> States]
      /\ \E m \in 0..MaxCreated : Created(Scanned) = 1..m
      /\ Cardinality(Live(Scanned)) <= Most
      /\ \A b \in PooledAgents : Warmed[b] = IF b \in Warm THEN "idle" ELSE entries[b]
      /\ \A b \in PooledAgents : Scanned[b] = IF b \in Stale THEN "gone" ELSE Warmed[b]
      /\ Stale \subseteq PooledAgents /\ Fresh \subseteq PooledAgents
      /\ Stale \cap Fresh = {} /\ Stale \cup Fresh = Idle(entries) \cup Warm
  BY <1>1, WarmLemma
<1>4. a \in Fresh /\ a \in PooledAgents
  BY <1>3, MinLemma DEF AcquireIdle
<1>5. /\ entries' = Put(Scanned, {a}, "active")
      /\ timers' = (timers \cup Warm) \ (Stale \cup {a})
      /\ Hand(c, a) /\ Recycle(Stale)
      /\ UNCHANGED <<pendingQueue, doomed, old>>
  BY DEF AcquireIdle, teardown, clock
<1> HIDE DEF a
<1>6. \A b \in PooledAgents : entries'[b] = IF b = a THEN "active" ELSE Scanned[b]
  BY <1>5 DEF Put
<1>7. entries' \in [PooledAgents -> States]
  BY <1>3, <1>5 DEF Put, States
<1>8. PoolTypes'
  <2>1. /\ call' \in [Calls -> {"new", "waiting", "holding", "returned", "rejected"}]
        /\ held' \in [Calls -> 0..MaxCreated]
    BY <1>2, <1>4, <1>5, PoolNumbers DEF PoolTypes, Hand, PooledAgents
  <2>2. recycled' \in Nat /\ disposals' \in [PooledAgents -> Nat]
    BY <1>2, <1>3, <1>5, PoolNumbers DEF PoolTypes, Recycle
  <2>3. timers' \in SUBSET PooledAgents /\ warmedUp' \in BOOLEAN
    BY <1>2, <1>3, <1>5 DEF PoolTypes, AcquireIdle, Acquiring
  <2> QED BY <1>1, <1>2, <1>5, <1>7, <2>1, <2>2, <2>3 DEF PoolTypes, States
<1>9. /\ Created(entries') = Created(Scanned) /\ Live(entries') = Live(Scanned)
      /\ Gone(entries') = Gone(entries) \cup Stale
      /\ Stale \cap Gone(entries) = {}
      /\ Idle(entries') = (Idle(entries) \cup Warm) \ (Stale \cup {a})
  <2>1. Scanned[a] = "idle"
    BY <1>3, <1>4 DEF Fresh, Idle
  <2>2. \A b \in PooledAgents : entries[b] = "idle" => b \notin Warm
    BY <1>3 DEF Created
  <2>3. Created(entries') = Created(Scanned) /\ Live(entries') = Live(Scanned)
    BY <1>4, <1>6, <2>1 DEF Created, Live
  <2>4. \A b \in PooledAgents : b \in Stale => entries[b] = "idle" \/ b \in Warm
    BY <1>3 DEF Idle
  <2>5. Stale \cap Gone(entries) = {}
    BY <1>3, <2>4 DEF Gone, Created
  <2>6. Gone(entries') = Gone(entries) \cup Stale
    BY <1>3, <1>4, <1>6, <2>1 DEF Gone, Created
  <2>7. Idle(entries') = (Idle(entries) \cup Warm) \ (Stale \cup {a})
    BY <1>3, <1>4, <1>6 DEF Idle
  <2> QED BY <2>3, <2>5, <2>6, <2>7
<1>10. InOrder' /\ PoolBalance'
  <2>1. InOrder' /\ Cardinality(Live(entries')) <= Most
    BY <1>3, <1>9 DEF InOrder
  <2>2. Stale \in SUBSET PooledAgents
    BY <1>3
  <2> QED BY ONLY PoolInv, <1>1, <1>5, <1>8, <1>9, <2>1, <2>2, LedgerStep
<1>11. HeldKnown' /\ Exclusive'
  <2>1. entries[a] # "active" /\ entries'[a] = "active"
    BY <1>3, <1>4, <1>6 DEF Idle, Created
  <2>2. ASSUME NEW b \in PooledAgents, entries[b] = "active" PROVE entries'[b] = "active"
    BY <1>3, <1>4, <1>6, <2>2 DEF Idle, Created
  <2> QED BY <1>1, <1>4, <1>5, <2>1, <2>2, HandUse
<1>12. PoolQueue'
  <2>1. \A d \in Calls : call'[d] = "waiting" <=> call[d] = "waiting"
    BY <1>1, <1>2, <1>5 DEF Hand, PoolTypes
  <2> QED BY <1>1, <1>5, <2>1 DEF PoolInv, PoolQueue
<1>13. IdleTimed'
  BY <1>1, <1>5, <1>9 DEF PoolInv, IdleTimed
<1>14. Dismantled'
  BY <1>1, <1>5 DEF PoolInv, Dismantled, Created
<1> QED BY <1>8, <1>10, <1>11, <1>12, <1>13, <1>14 DEF PoolInv

\* The scan takes no agent in use, counts those it throws away and leaves the fresh ones.
LEMMA ScanLemma ==
  ASSUME PoolInv, NEW c \in Calls, Acquiring(c)
  PROVE  /\ Gone(Warmed) = Gone(entries) /\ Gone(Scanned) = Gone(entries) \cup Stale
         /\ Stale \cap Gone(entries) = {}
         /\ Idle(Warmed) = Idle(entries) \cup Warm /\ Idle(Scanned) = Fresh
         /\ \A b \in PooledAgents : entries[b] = "active" =>
                                      Warmed[b] = "active" /\ Scanned[b] = "active"
<1>1. /\ Warm \subseteq PooledAgents /\ Warm \cap Created(entries) = {}
      /\ \A b \in PooledAgents : Warmed[b] = IF b \in Warm THEN "idle" ELSE entries[b]
      /\ \A b \in PooledAgents : Scanned[b] = IF b \in Stale THEN "gone" ELSE Warmed[b]
      /\ Stale \subseteq PooledAgents /\ Fresh \subseteq PooledAgents
      /\ Stale \cap Fresh = {} /\ Stale \cup Fresh = Idle(entries) \cup Warm
  BY WarmLemma
<1>2. \A b \in PooledAgents : b \in Warm => entries[b] = "unborn"
  BY <1>1 DEF Created
<1>3. \A b \in PooledAgents : b \in Stale => entries[b] = "idle" \/ b \in Warm
  BY <1>1 DEF Idle
<1>4. Gone(Warmed) = Gone(entries) /\ Gone(Scanned) = Gone(entries) \cup Stale
  BY <1>1, <1>2 DEF Gone
<1>5. Stale \cap Gone(entries) = {}
  BY <1>1, <1>2, <1>3 DEF Gone
<1>6. Idle(Warmed) = Idle(entries) \cup Warm
  BY <1>1 DEF Idle
<1>7. Idle(Scanned) = Fresh
  BY <1>1, <1>6 DEF Idle
<1>8. ASSUME NEW b \in PooledAgents, entries[b] = "active"
      PROVE  Warmed[b] = "active" /\ Scanned[b] = "active"
  BY <1>1, <1>2, <1>3, <1>8
<1> QED BY <1>4, <1>5, <1>6, <1>7, <1>8

\* acquire() that makes an agent: the next one, below max.
LEMMA NewKeeps ==
  ASSUME PoolInv, NEW c \in Calls, AcquireNew(c), UNCHANGED stale
  PROVE  PoolInv'
<1> DEFINE a == Cardinality(Created(Scanned)) + 1
<1>1. Acquiring(c) /\ ~poolDisposed /\ poolDisposed' = poolDisposed /\ call[c] = "new"
  BY DEF AcquireNew, Acquiring, teardown
<1>2. PoolTypes
  BY DEF PoolInv
<1>3. /\ Warm \subseteq PooledAgents /\ Stale \subseteq PooledAgents
      /\ Scanned \in [PooledAgents -> States]
      /\ Stale \cup Fresh = Idle(entries) \cup Warm
  BY <1>1, WarmLemma
<1>4. PICK m \in 0..MaxCreated : m < MaxCreated /\ Created(Scanned) = 1..m
  BY <1>1, WarmLemma
<1>5. /\ a \in PooledAgents /\ Scanned[a] = "unborn"
      /\ 1..m \cup {a} = 1..(m + 1) /\ m + 1 \in 0..MaxCreated
  <2>1. m \in Nat /\ MaxCreated \in Nat
    BY PoolNumbers
  <2>2. a = m + 1
    BY <1>4, <2>1, SegmentLemma
  <2>3. a \in PooledAgents /\ a \notin 1..m
    BY <1>4, <2>1, <2>2 DEF PooledAgents
  <2>4. Scanned[a] = "unborn"
    BY <1>4, <2>3 DEF Created
  <2> QED BY <1>4, <2>1, <2>2, <2>3, <2>4
<1>6. /\ entries' = Put(Scanned, {a}, "active")
      /\ timers' = (timers \cup Warm) \ Stale
      /\ Hand(c, a) /\ Recycle(Stale) /\ Fresh = {}
      /\ Cardinality(Live(Scanned)) < MaxSize
      /\ UNCHANGED <<pendingQueue, doomed, old>>
  BY DEF AcquireNew, teardown, clock
<1> HIDE DEF a
<1>7. /\ Gone(Scanned) = Gone(entries) \cup Stale /\ Stale \cap Gone(entries) = {}
      /\ Idle(Scanned) = {}
      /\ \A b \in PooledAgents : entries[b] = "active" => Scanned[b] = "active"
  BY <1>1, <1>6, ScanLemma
<1>8. \A b \in PooledAgents : entries'[b] = IF b = a THEN "active" ELSE Scanned[b]
  BY <1>6 DEF Put
<1>9. entries' \in [PooledAgents -> States]
  BY <1>3, <1>6 DEF Put, States
<1>10. PoolTypes'
  <2>1. /\ call' \in [Calls -> {"new", "waiting", "holding", "returned", "rejected"}]
        /\ held' \in [Calls -> 0..MaxCreated]
    BY <1>2, <1>5, <1>6, PoolNumbers DEF PoolTypes, Hand, PooledAgents
  <2>2. recycled' \in Nat /\ disposals' \in [PooledAgents -> Nat]
    BY <1>2, <1>3, <1>6, PoolNumbers DEF PoolTypes, Recycle
  <2>3. timers' \in SUBSET PooledAgents /\ warmedUp' \in BOOLEAN
    BY <1>2, <1>3, <1>6 DEF PoolTypes, AcquireNew, Acquiring
  <2> QED BY <1>1, <1>2, <1>6, <1>9, <2>1, <2>2, <2>3 DEF PoolTypes, States
<1>11. /\ Created(entries') = Created(Scanned) \cup {a}
       /\ Live(entries') = Live(Scanned) \cup {a}
       /\ Gone(entries') = Gone(entries) \cup Stale
       /\ Idle(entries') = {}
  <2>1. Created(entries') = Created(Scanned) \cup {a} /\ Live(entries') = Live(Scanned) \cup {a}
    BY <1>5, <1>8 DEF Created, Live
  <2>2. Gone(entries') = Gone(Scanned)
    BY <1>5, <1>8 DEF Gone
  <2>3. Idle(entries') = Idle(Scanned)
    BY <1>5, <1>8 DEF Idle
  <2> QED BY <1>7, <2>1, <2>2, <2>3
<1>12. InOrder' /\ PoolBalance'
  <2>1. InOrder'
    BY <1>4, <1>5, <1>11 DEF InOrder
  <2>2. Cardinality(Live(entries')) <= Most
    <3>1. IsFiniteSet(Live(Scanned)) /\ Cardinality(Live(Scanned)) \in Nat
      BY PoolNumbers DEF Live
    <3>2. a \notin Live(Scanned)
      BY <1>5 DEF Live
    <3>3. Cardinality(Live(Scanned) \cup {a}) = Cardinality(Live(Scanned)) + 1
      BY <3>1, <3>2, FS_AddElement
    <3>4. Cardinality(Live(entries')) = Cardinality(Live(Scanned)) + 1
      BY <1>11, <3>3
    <3>5. Cardinality(Live(Scanned)) < MaxSize /\ MaxSize \in Nat /\ Most \in Nat
          /\ MaxSize <= Most
      BY <1>6, PoolNumbers
    <3> QED BY ONLY <3>1, <3>4, <3>5
  <2>3. Stale \in SUBSET PooledAgents
    BY <1>3
  <2> QED BY ONLY PoolInv, <1>1, <1>6, <1>7, <1>10, <1>11, <2>1, <2>2, <2>3, LedgerStep
<1>13. HeldKnown' /\ Exclusive'
  <2>1. entries[a] # "active" /\ entries'[a] = "active"
    BY <1>5, <1>7, <1>8
  <2>2. \A b \in PooledAgents : entries[b] = "active" => entries'[b] = "active"
    BY <1>7, <1>8
  <2> QED BY <1>1, <1>5, <1>6, <2>1, <2>2, HandUse
<1>14. PoolQueue'
  <2>1. \A d \in Calls : call'[d] = "waiting" <=> call[d] = "waiting"
    BY <1>1, <1>2, <1>6 DEF Hand, PoolTypes
  <2> QED BY <1>1, <1>6, <2>1 DEF PoolInv, PoolQueue
<1>15. IdleTimed'
  BY <1>1, <1>3, <1>6, <1>11 DEF PoolInv, IdleTimed
<1>16. Dismantled'
  BY <1>1, <1>6 DEF PoolInv, Dismantled, Created
<1> QED BY <1>10, <1>12, <1>13, <1>14, <1>15, <1>16 DEF PoolInv

\* acquire() that finds the pool exhausted, or whose factory() throws: the call is
\* refused, or joins the queue.
LEMMA ExhaustedKeeps ==
  ASSUME PoolInv, NEW c \in Calls, Exhausted(c) \/ CreateFails(c), UNCHANGED stale
  PROVE  PoolInv'
<1>1. Acquiring(c) /\ ~poolDisposed /\ poolDisposed' = poolDisposed /\ call[c] = "new"
  BY DEF Exhausted, CreateFails, Acquiring, teardown
<1>2. PoolTypes /\ PoolQueue
  BY DEF PoolInv
<1>3. /\ Warm \subseteq PooledAgents /\ Stale \subseteq PooledAgents
      /\ Scanned \in [PooledAgents -> States]
      /\ Stale \cup Fresh = Idle(entries) \cup Warm
      /\ \E m \in 0..MaxCreated : Created(Scanned) = 1..m
      /\ Cardinality(Live(Scanned)) <= Most
  BY <1>1, WarmLemma
<1>4. /\ entries' = Scanned /\ timers' = (timers \cup Warm) \ Stale
      /\ Recycle(Stale) /\ Fresh = {}
      /\ UNCHANGED <<held, doomed, old>>
  BY DEF Exhausted, CreateFails, teardown, clock, Reject
<1>5. /\ Gone(Scanned) = Gone(entries) \cup Stale /\ Stale \cap Gone(entries) = {}
      /\ Idle(Scanned) = {}
      /\ \A b \in PooledAgents : entries[b] = "active" => Scanned[b] = "active"
  BY <1>1, <1>4, ScanLemma
<1>6. \/ call' = [call EXCEPT ![c] = "rejected"] /\ pendingQueue' = pendingQueue
      \/ /\ call' = [call EXCEPT ![c] = "waiting"]
         /\ pendingQueue' = Append(pendingQueue, c) /\ Len(pendingQueue) < MaxPending
  BY DEF Exhausted, CreateFails, Reject
<1>7. PoolTypes' /\ PoolQueue'
  <2>1. recycled' \in Nat /\ disposals' \in [PooledAgents -> Nat]
    <3>1. Cardinality(Stale) \in Nat
      BY <1>3, PoolNumbers
    <3>2. /\ recycled' = recycled + Cardinality(Stale)
          /\ disposals' = [b \in PooledAgents |->
                             IF b \in Stale THEN disposals[b] + 1 ELSE disposals[b]]
      BY <1>4 DEF Recycle
    <3> QED BY <1>2, <3>1, <3>2 DEF PoolTypes
  <2>2. timers' \in SUBSET PooledAgents /\ warmedUp' \in BOOLEAN
    BY <1>2, <1>3, <1>4 DEF PoolTypes, Exhausted, CreateFails, Acquiring
  <2>3. call' \in [Calls -> {"new", "waiting", "holding", "returned", "rejected"}]
    BY <1>2, <1>6 DEF PoolTypes
  <2>4. pendingQueue' \in Seq(Calls) /\ PoolQueue'
    <3>1. CASE call' = [call EXCEPT ![c] = "rejected"] /\ pendingQueue' = pendingQueue
      <4>1. \A d \in Calls : call'[d] = "waiting" <=> call[d] = "waiting"
        BY <1>1, <1>2, <3>1 DEF PoolTypes
      <4> QED BY <1>1, <1>2, <3>1, <4>1 DEF PoolTypes, PoolQueue
    <3>2. CASE /\ call' = [call EXCEPT ![c] = "waiting"]
               /\ pendingQueue' = Append(pendingQueue, c) /\ Len(pendingQueue) < MaxPending
      <4>1. c \notin ToSet(pendingQueue) /\ pendingQueue \in Seq(Calls)
        BY <1>1, <1>2 DEF PoolQueue, PoolTypes
      <4>2. /\ pendingQueue' \in Seq(Calls) /\ IsInjective(pendingQueue')
            /\ ToSet(pendingQueue') = ToSet(pendingQueue) \cup {c}
        BY <1>2, <3>2, <4>1, PushLemma DEF PoolQueue
      <4>3. Len(pendingQueue') <= MaxPending
        <5>1. Len(pendingQueue') = Len(pendingQueue) + 1 /\ Len(pendingQueue) \in Nat
          BY <3>2, <4>1, AppendProperties, LenProperties
        <5> QED BY <3>2, <5>1, PoolNumbers
      <4>4. \A d \in Calls : call'[d] = "waiting" <=> (call[d] = "waiting" \/ d = c)
        BY <1>2, <3>2 DEF PoolTypes
      <4> QED BY <1>1, <1>2, <4>2, <4>3, <4>4 DEF PoolQueue
    <3> QED BY <1>6, <3>1, <3>2
  <2> QED BY <1>1, <1>2, <1>3, <1>4, <2>1, <2>2, <2>3, <2>4 DEF PoolTypes, States
<1>8. InOrder' /\ PoolBalance'
  <2>1. InOrder' /\ Cardinality(Live(entries')) <= Most
    BY <1>3, <1>4 DEF InOrder
  <2>2. Stale \in SUBSET PooledAgents /\ Gone(entries') = Gone(entries) \cup Stale
    BY <1>3, <1>4, <1>5
  <2> QED BY ONLY PoolInv, <1>1, <1>4, <1>5, <1>7, <2>1, <2>2, LedgerStep
<1>9. HeldKnown' /\ Exclusive'
  <2>1. \A d \in Calls : call'[d] \in {"holding", "returned"} => call'[d] = call[d]
    BY <1>2, <1>6 DEF PoolTypes
  <2>2. \A d \in Holding : held[d] \in PooledAgents
    BY DEF PoolInv, HeldKnown, Holding
  <2> QED BY <1>1, <1>4, <1>5, <2>1, <2>2, KeepUse
<1>10. IdleTimed'
  BY <1>1, <1>3, <1>4, <1>5 DEF PoolInv, IdleTimed
<1>11. Dismantled'
  BY <1>1, <1>4 DEF PoolInv, Dismantled, Created
<1> QED BY <1>7, <1>8, <1>9, <1>10, <1>11 DEF PoolInv

\* acquireAsync() with an aborted signal: the pool is warm, the call refused.
LEMMA AbortedKeeps ==
  ASSUME PoolInv, NEW c \in Calls, AcquireAborted(c), UNCHANGED stale
  PROVE  PoolInv'
<1>1. Acquiring(c) /\ ~poolDisposed /\ poolDisposed' = poolDisposed /\ call[c] = "new"
  BY DEF AcquireAborted, Acquiring, teardown
<1>2. PoolTypes /\ PoolQueue
  BY DEF PoolInv
<1>3. /\ Warm \subseteq PooledAgents /\ Warmed \in [PooledAgents -> States]
      /\ \E m \in 0..MaxCreated : Created(Warmed) = 1..m
      /\ Cardinality(Live(Warmed)) <= Most
  BY <1>1, WarmLemma
<1>4. /\ Gone(Warmed) = Gone(entries) /\ Idle(Warmed) = Idle(entries) \cup Warm
      /\ \A b \in PooledAgents : entries[b] = "active" => Warmed[b] = "active"
  BY <1>1, ScanLemma
<1>5. /\ entries' = Warmed /\ timers' = timers \cup Warm
      /\ call' = [call EXCEPT ![c] = "rejected"]
      /\ UNCHANGED <<held, doomed, old, pendingQueue, recycled, disposals>>
  BY DEF AcquireAborted, teardown, clock, Reject
<1>6. PoolTypes'
  <2>1. timers' \in SUBSET PooledAgents /\ warmedUp' \in BOOLEAN
    BY <1>2, <1>3, <1>5 DEF PoolTypes, AcquireAborted, Acquiring
  <2> QED BY <1>1, <1>2, <1>3, <1>5, <2>1 DEF PoolTypes, States
<1>7. PoolQueue'
  <2>1. \A d \in Calls : call'[d] = "waiting" <=> call[d] = "waiting"
    BY <1>1, <1>2, <1>5 DEF PoolTypes
  <2> QED BY <1>1, <1>2, <1>5, <2>1 DEF PoolQueue
<1>8. InOrder' /\ PoolBalance'
  <2>1. InOrder' /\ Cardinality(Live(entries')) <= Most
    BY <1>3, <1>5 DEF InOrder
  <2>2. {} \in SUBSET PooledAgents /\ Gone(entries') = Gone(entries) \cup {}
        /\ {} \cap Gone(entries) = {}
    BY <1>4, <1>5
  <2> QED BY ONLY PoolInv, <1>1, <1>5, <1>6, <2>1, <2>2, LedgerStep
<1>9. HeldKnown' /\ Exclusive'
  <2>1. \A d \in Calls : call'[d] \in {"holding", "returned"} => call'[d] = call[d]
    BY <1>2, <1>5 DEF PoolTypes
  <2>2. \A d \in Holding : held[d] \in PooledAgents
    BY DEF PoolInv, HeldKnown, Holding
  <2> QED BY <1>1, <1>4, <1>5, <2>1, <2>2, KeepUse
<1>10. IdleTimed'
  BY <1>1, <1>4, <1>5 DEF PoolInv, IdleTimed
<1>11. Dismantled'
  BY <1>1, <1>5 DEF PoolInv, Dismantled, Created
<1> QED BY <1>6, <1>7, <1>8, <1>9, <1>10, <1>11 DEF PoolInv

-----------------------------------------------------------------------------
\* A call that a disposed pool refuses.
LEMMA RefusedKeeps ==
  ASSUME PoolInv, NEW c \in Calls, AcquireRefused(c), UNCHANGED stale
  PROVE  PoolInv'
<1>1. /\ call[c] = "new" /\ poolDisposed /\ call' = [call EXCEPT ![c] = "rejected"]
      /\ UNCHANGED <<entries, timers, warmedUp, recycled, pendingQueue, poolDisposed, doomed,
                     old, held, disposals, stale>>
  BY DEF AcquireRefused, Reject, teardown, clock
<1>2. PoolTypes
  BY DEF PoolInv
<1>3. /\ \A d \in Calls : d # c => call'[d] = call[d]
      /\ call'[c] = "rejected" /\ PoolTypes'
  BY <1>1, <1>2 DEF PoolTypes
<1>4. InOrder' /\ PoolBalance' /\ IdleTimed' /\ Dismantled'
  BY <1>1 DEF PoolInv, InOrder, PoolBalance, IdleTimed, Dismantled
<1>5. HeldKnown' /\ Exclusive'
  BY <1>1, <1>3 DEF PoolInv, HeldKnown, Exclusive, Holding
<1>6. PoolQueue'
  BY <1>1, <1>3 DEF PoolInv, PoolQueue
<1> QED BY <1>3, <1>4, <1>5, <1>6 DEF PoolInv

\* A waiter gives up: it leaves the queue, the others keep their places.
LEMMA CancelKeeps ==
  ASSUME PoolInv, NEW c \in Calls, Cancel(c), UNCHANGED stale
  PROVE  PoolInv'
<1>1. /\ c \in ToSet(pendingQueue) /\ pendingQueue' = RemoveFirst(pendingQueue, c)
      /\ call' = [call EXCEPT ![c] = "rejected"]
      /\ UNCHANGED <<entries, timers, warmedUp, recycled, poolDisposed, doomed,
                     old, held, disposals, stale>>
  BY DEF Cancel, Reject, teardown, clock
<1>2. PoolTypes /\ PoolQueue
  BY DEF PoolInv
<1>3. call[c] = "waiting" /\ ~poolDisposed
  <2>1. ToSet(<<>>) = {}
    BY NoneLemma
  <2> QED BY <1>1, <1>2, <2>1 DEF PoolQueue
<1>4. /\ pendingQueue' \in Seq(Calls) /\ IsInjective(pendingQueue')
      /\ ToSet(pendingQueue') = ToSet(pendingQueue) \ {c}
      /\ Len(pendingQueue') = Len(pendingQueue) - 1 /\ Len(pendingQueue) \in Nat
  BY <1>1, <1>2, SpliceLemma, LenProperties DEF PoolQueue, PoolTypes
<1>5. /\ \A d \in Calls : d # c => call'[d] = call[d]
      /\ call'[c] = "rejected" /\ PoolTypes'
  BY <1>1, <1>2, <1>4 DEF PoolTypes
<1>6. InOrder' /\ PoolBalance' /\ IdleTimed' /\ Dismantled'
  BY <1>1 DEF PoolInv, InOrder, PoolBalance, IdleTimed, Dismantled
<1>7. HeldKnown' /\ Exclusive'
  BY <1>1, <1>5 DEF PoolInv, HeldKnown, Exclusive, Holding
<1>8. PoolQueue'
  <2>1. \A d \in Calls : call'[d] = "waiting" <=> (call[d] = "waiting" /\ d # c)
    BY <1>5
  <2>2. Len(pendingQueue') <= MaxPending
    BY <1>2, <1>4, PoolNumbers DEF PoolQueue
  <2> QED BY <1>1, <1>2, <1>3, <1>4, <2>1, <2>2 DEF PoolQueue
<1> QED BY <1>5, <1>6, <1>7, <1>8 DEF PoolInv

\* Idle agents that go, by their timer or by resize().
LEMMA IdleGoKeeps ==
  ASSUME PoolInv, ~poolDisposed, NEW S \in SUBSET Idle(entries),
         entries' = Put(entries, S, "gone"), timers' = timers \ S, Recycle(S),
         UNCHANGED <<warmedUp, pendingQueue, teardown, clock, callers, stale>>
  PROVE  PoolInv'
<1>1. /\ PoolTypes /\ S \in SUBSET PooledAgents
      /\ UNCHANGED <<warmedUp, pendingQueue, poolDisposed, doomed, old, call, held, stale>>
  BY DEF PoolInv, Idle, teardown, clock, callers
<1>2. \A b \in PooledAgents : entries'[b] = IF b \in S THEN "gone" ELSE entries[b]
  BY DEF Put
<1>3. PoolTypes'
  <2>1. Cardinality(S) \in Nat
    BY <1>1, PoolNumbers
  <2>2. recycled' \in Nat /\ disposals' \in [PooledAgents -> Nat]
    BY <1>1, <2>1 DEF PoolTypes, Recycle
  <2>3. entries' \in [PooledAgents -> States]
    BY <1>1 DEF PoolTypes, Put, States
  <2> QED BY <1>1, <2>2, <2>3 DEF PoolTypes, States
<1>4. /\ Created(entries') = Created(entries) /\ Live(entries') \subseteq Live(entries)
      /\ Gone(entries') = Gone(entries) \cup S /\ S \cap Gone(entries) = {}
      /\ Idle(entries') = Idle(entries) \ S
  BY <1>1, <1>2 DEF Created, Live, Gone, Idle
<1>5. InOrder' /\ PoolBalance'
  <2>1. InOrder'
    BY <1>4 DEF PoolInv, InOrder
  <2>2. Cardinality(Live(entries')) <= Most
    <3>1. Cardinality(Live(entries')) <= Cardinality(Live(entries))
      BY <1>4, FS_Subset, PoolNumbers DEF Live
    <3>2. /\ Cardinality(Live(entries')) \in Nat /\ Cardinality(Live(entries)) \in Nat
          /\ Most \in Nat
      BY PoolNumbers DEF Live
    <3>3. Cardinality(Live(entries)) <= Most
      BY DEF PoolInv, PoolBalance
    <3> QED BY ONLY <3>1, <3>2, <3>3
  <2> QED BY <1>1, <1>3, <1>4, <2>1, <2>2, LedgerStep
<1>6. HeldKnown' /\ Exclusive'
  <2>1. \A b \in PooledAgents : entries[b] = "active" => entries'[b] = "active"
    BY <1>2 DEF Idle
  <2>2. \A d \in Holding : held[d] \in PooledAgents
    BY DEF PoolInv, HeldKnown, Holding
  <2> QED BY <1>1, <2>1, <2>2, KeepUse
<1>7. PoolQueue' /\ IdleTimed' /\ Dismantled'
  BY <1>1, <1>4 DEF PoolInv, PoolQueue, IdleTimed, Dismantled
<1> QED BY <1>3, <1>5, <1>6, <1>7 DEF PoolInv

\* The lesser of two numbers.
LEMMA LesserLemma ==
  ASSUME NEW m \in Nat, NEW n \in Nat
  PROVE  Min({m, n}) \in Nat /\ Min({m, n}) <= m /\ Min({m, n}) <= n
<1>1. \E x \in {m, n} : \A y \in {m, n} : x <= y
  BY m <= n \/ n <= m
<1> QED BY <1>1 DEF Min

\* Idle agents are made, as many as fit under n; at most one call is refused.
LEMMA BirthKeeps ==
  ASSUME PoolInv, ~poolDisposed, NEW n \in Nat, n <= Most,
         entries' = Put(entries, Born(entries, n), "idle"),
         timers' = timers \cup Born(entries, n), warmedUp' \in BOOLEAN,
         \/ UNCHANGED call
         \/ \E c \in Calls : call[c] = "new" /\ call' = [call EXCEPT ![c] = "rejected"],
         UNCHANGED <<recycled, pendingQueue, poolDisposed, doomed, old, held, disposals, stale>>
  PROVE  PoolInv'
<1> DEFINE B == Born(entries, n)
<1>1. /\ ~poolDisposed /\ entries' = Put(entries, B, "idle") /\ timers' = timers \cup B
      /\ UNCHANGED <<recycled, pendingQueue, poolDisposed, doomed, old, held, disposals, stale>>
  OBVIOUS
<1>2. PoolTypes /\ PoolQueue /\ InOrder /\ Cardinality(Live(entries)) <= Most
  BY DEF PoolInv, PoolBalance
<1>3. /\ call' \in [Calls -> {"new", "waiting", "holding", "returned", "rejected"}]
      /\ \A d \in Calls : call'[d] = call[d] \/ (call[d] = "new" /\ call'[d] = "rejected")
  BY <1>2 DEF PoolTypes
<1>4. /\ B \subseteq PooledAgents /\ B \cap Created(entries) = {}
      /\ \E m \in 0..MaxCreated : Created(entries) \cup B = 1..m
      /\ Cardinality(Live(entries) \cup B) <= Most
  BY <1>2, BornLemma
<1> HIDE DEF B
<1>5. \A b \in PooledAgents : entries'[b] = IF b \in B THEN "idle" ELSE entries[b]
  BY <1>1 DEF Put
<1>6. PoolTypes'
  <2>1. entries' \in [PooledAgents -> States]
    BY <1>1, <1>2 DEF PoolTypes, Put, States
  <2> QED BY <1>1, <1>2, <1>3, <1>4, <2>1 DEF PoolTypes, States
<1>7. /\ Created(entries') = Created(entries) \cup B /\ Live(entries') = Live(entries) \cup B
      /\ Gone(entries') = Gone(entries) /\ Idle(entries') = Idle(entries) \cup B
  BY <1>4, <1>5 DEF Created, Live, Gone, Idle
<1>8. InOrder' /\ PoolBalance'
  <2>1. InOrder' /\ Cardinality(Live(entries')) <= Most
    BY <1>4, <1>7 DEF InOrder
  <2>2. {} \in SUBSET PooledAgents /\ Gone(entries') = Gone(entries) \cup {}
        /\ {} \cap Gone(entries) = {}
    BY <1>7
  <2> QED BY ONLY PoolInv, <1>1, <1>6, <2>1, <2>2, LedgerStep
<1>9. HeldKnown' /\ Exclusive'
  <2>1. \A b \in PooledAgents : entries[b] = "active" => entries'[b] = "active"
    BY <1>4, <1>5 DEF Created
  <2>2. \A d \in Holding : held[d] \in PooledAgents
    BY DEF PoolInv, HeldKnown, Holding
  <2>3. \A d \in Calls : call'[d] \in {"holding", "returned"} => call'[d] = call[d]
    BY <1>3
  <2> QED BY <1>1, <2>1, <2>2, <2>3, KeepUse
<1>10. PoolQueue'
  <2>1. \A d \in Calls : call'[d] = "waiting" <=> call[d] = "waiting"
    BY <1>3
  <2> QED BY <1>1, <1>2, <2>1 DEF PoolQueue
<1>11. IdleTimed' /\ Dismantled'
  BY <1>1, <1>7 DEF PoolInv, IdleTimed, Dismantled
<1> QED BY <1>6, <1>8, <1>9, <1>10, <1>11 DEF PoolInv

\* warmUp() that fails half-way: the agents made so far stay, the call is refused.
LEMMA WarmUpFailsKeeps ==
  ASSUME PoolInv, NEW c \in Calls, WarmUpFails(c), UNCHANGED stale
  PROVE  PoolInv'
<1>1. Cardinality(Live(entries)) \in Nat
  BY PoolNumbers DEF Live
<1>2. PICK n \in Cardinality(Live(entries))..(MinSize - 1) :
         /\ entries' = Put(entries, Born(entries, n), "idle")
         /\ timers' = timers \cup Born(entries, n)
  BY DEF WarmUpFails
<1>3. n \in Nat /\ n <= Most
  BY <1>1, PoolNumbers
<1>4. /\ ~poolDisposed /\ warmedUp' \in BOOLEAN /\ call[c] = "new"
      /\ call' = [call EXCEPT ![c] = "rejected"]
      /\ UNCHANGED <<recycled, pendingQueue, poolDisposed, doomed, old, held, disposals, stale>>
  BY DEF WarmUpFails, Acquiring, Reject, teardown, clock
<1> QED BY <1>2, <1>3, <1>4, BirthKeeps

\* resize() that makes idle agents.
LEMMA GrowKeeps ==
  ASSUME PoolInv, NEW target \in Targets, Grow(target), UNCHANGED stale
  PROVE  PoolInv'
<1>0. Cardinality(Live(entries)) \in Nat
  BY PoolNumbers DEF Live
<1>1. PICK n \in Cardinality(Live(entries))..Min({target, MaxSize}) :
         /\ entries' = Put(entries, Born(entries, n), "idle")
         /\ timers' = timers \cup Born(entries, n)
  BY DEF Grow
<1>2. n \in Nat /\ n <= Most
  <2>1. Min({target, MaxSize}) \in Nat /\ Min({target, MaxSize}) <= MaxSize
    BY PoolNumbers, PoolAssumption, LesserLemma
  <2> QED BY <1>0, <2>1, PoolNumbers
<1>3. /\ ~poolDisposed
      /\ UNCHANGED <<warmedUp, recycled, pendingQueue, poolDisposed, doomed, old, call, held,
                     disposals, stale>>
  BY DEF Grow, teardown, clock, callers
<1>4. warmedUp' \in BOOLEAN
  BY <1>3 DEF PoolInv, PoolTypes
<1> QED BY <1>1, <1>2, <1>3, <1>4, BirthKeeps

-----------------------------------------------------------------------------
\* dispose() tears down the oldest agent of S; the others of S are still to come.
LEMMA TearDownLemma ==
  ASSUME PoolInv, NEW S \in SUBSET Created(entries), S # {}, TearDown(S)
  PROVE  /\ entries' \in [PooledAgents -> States] /\ timers' \in SUBSET PooledAgents
         /\ disposals' \in [PooledAgents -> Nat] /\ doomed' \in SUBSET PooledAgents
         /\ Created(entries') = Created(entries) /\ doomed' \subseteq Created(entries)
         /\ Live(entries') \subseteq Live(entries)
         /\ Live(entries) \subseteq S => Live(entries') \subseteq doomed'
         /\ timers' \subseteq Idle(entries')
<1> DEFINE a == Min(S)
<1>1. PoolTypes /\ timers \subseteq Idle(entries) /\ S \in SUBSET PooledAgents
  BY DEF PoolInv, IdleTimed, Created
<1>2. a \in S /\ a \in PooledAgents
  BY <1>1, MinLemma
<1>3. /\ entries' = Put(entries, {a}, "gone") /\ timers' = timers \ {a}
      /\ disposals' = [disposals EXCEPT ![a] = @ + 1] /\ doomed' = S \ {a}
  BY DEF TearDown
<1> HIDE DEF a
<1>4. \A b \in PooledAgents : entries'[b] = IF b = a THEN "gone" ELSE entries[b]
  BY <1>3 DEF Put
<1>5. entries' \in [PooledAgents -> States]
  BY <1>1, <1>3 DEF PoolTypes, Put, States
<1>6. disposals' \in [PooledAgents -> Nat]
  BY <1>1, <1>2, <1>3 DEF PoolTypes
<1>7. /\ Created(entries') = Created(entries) /\ Live(entries') = Live(entries) \ {a}
      /\ Idle(entries') = Idle(entries) \ {a}
  BY <1>2, <1>4 DEF Created, Live, Idle
<1> QED BY <1>1, <1>3, <1>5, <1>6, <1>7 DEF PoolTypes

\* The size stays within max when agents only go.
LEMMA FewerLive ==
  ASSUME PoolInv, Live(entries') \subseteq Live(entries)
  PROVE  Cardinality(Live(entries')) <= Most
<1>1. Cardinality(Live(entries')) <= Cardinality(Live(entries))
  BY FS_Subset, PoolNumbers DEF Live
<1>2. /\ Cardinality(Live(entries')) \in Nat /\ Cardinality(Live(entries)) \in Nat
      /\ Most \in Nat
  BY PoolNumbers DEF Live
<1>3. Cardinality(Live(entries)) <= Most
  BY DEF PoolInv, PoolBalance
<1> QED BY ONLY <1>1, <1>2, <1>3

\* dispose(): the waiters are refused, the first agent is torn down.
LEMMA PoolDisposeKeeps ==
  ASSUME PoolInv, PoolDispose, UNCHANGED stale
  PROVE  PoolInv'
<1>1. /\ poolDisposed' = TRUE /\ ~poolDisposed /\ pendingQueue' = <<>>
      /\ call' = [c \in Calls |-> IF call[c] = "waiting" THEN "rejected" ELSE call[c]]
      /\ UNCHANGED <<warmedUp, recycled, old, held, stale>>
  BY DEF PoolDispose, clock
<1>2. PoolTypes /\ doomed = {} /\ timers \subseteq Idle(entries)
  BY <1>1 DEF PoolInv, Dismantled, IdleTimed
<1>3. /\ entries' \in [PooledAgents -> States] /\ timers' \in SUBSET PooledAgents
      /\ disposals' \in [PooledAgents -> Nat] /\ doomed' \in SUBSET PooledAgents
      /\ Created(entries') = Created(entries) /\ doomed' \subseteq Created(entries)
      /\ Live(entries') \subseteq Live(entries)
      /\ Live(entries') \subseteq doomed'
      /\ timers' \subseteq Idle(entries')
  <2>1. CASE Live(entries) = {}
    <3>1. UNCHANGED <<entries, timers, disposals, doomed>>
      BY <2>1 DEF PoolDispose
    <3> QED BY <1>2, <2>1, <3>1 DEF PoolTypes, States
  <2>2. CASE Live(entries) # {}
    <3>1. TearDown(Live(entries)) /\ Live(entries) \in SUBSET Created(entries)
      BY <2>2 DEF PoolDispose, Live, Created
    <3> QED BY <2>2, <3>1, TearDownLemma
  <2> QED BY <2>1, <2>2
<1>4. PoolTypes' /\ PoolQueue'
  <2>1. <<>> \in Seq(Calls) /\ ToSet(<<>>) = {} /\ IsInjective(<<>>) /\ Len(<<>>) = 0
    BY NoneLemma, EmptySeq
  <2>2. call' \in [Calls -> {"new", "waiting", "holding", "returned", "rejected"}]
    BY <1>1, <1>2 DEF PoolTypes
  <2>3. {c \in Calls : call'[c] = "waiting"} = {}
    BY <1>1
  <2>4. 0 <= MaxPending
    BY PoolNumbers
  <2> QED BY <1>1, <1>2, <1>3, <2>1, <2>2, <2>3, <2>4 DEF PoolTypes, PoolQueue, States
<1>5. InOrder' /\ PoolBalance'
  BY <1>1, <1>3, FewerLive DEF PoolInv, InOrder, PoolBalance
<1>6. HeldKnown' /\ Exclusive'
  <2>1. \A c \in Calls : call'[c] \in {"holding", "returned"} => call'[c] = call[c]
    BY <1>1
  <2> QED BY <1>1, <2>1, KeepUse
<1>7. IdleTimed' /\ Dismantled'
  BY <1>1, <1>3 DEF IdleTimed, Dismantled
<1> QED BY <1>4, <1>5, <1>6, <1>7 DEF PoolInv

\* dispose() goes on.
LEMMA DisposeNextKeeps ==
  ASSUME PoolInv, DisposeNext, UNCHANGED stale
  PROVE  PoolInv'
<1>1. /\ doomed # {} /\ TearDown(doomed)
      /\ UNCHANGED <<warmedUp, recycled, pendingQueue, poolDisposed, old, call, held, stale>>
  BY DEF DisposeNext, clock, callers
<1>2. /\ PoolTypes /\ poolDisposed /\ doomed \in SUBSET Created(entries)
      /\ Live(entries) \subseteq doomed
  BY <1>1 DEF PoolInv, Dismantled
<1>3. /\ entries' \in [PooledAgents -> States] /\ timers' \in SUBSET PooledAgents
      /\ disposals' \in [PooledAgents -> Nat] /\ doomed' \in SUBSET PooledAgents
      /\ Created(entries') = Created(entries) /\ doomed' \subseteq Created(entries)
      /\ Live(entries') \subseteq Live(entries)
      /\ Live(entries') \subseteq doomed'
      /\ timers' \subseteq Idle(entries')
  BY <1>1, <1>2, TearDownLemma
<1>4. PoolTypes' /\ PoolQueue'
  BY <1>1, <1>2, <1>3 DEF PoolInv, PoolTypes, PoolQueue, States
<1>5. InOrder' /\ PoolBalance'
  BY <1>1, <1>2, <1>3, FewerLive DEF PoolInv, InOrder, PoolBalance
<1>6. HeldKnown' /\ Exclusive'
  BY <1>1, <1>2, KeepUse
<1>7. IdleTimed' /\ Dismantled'
  BY <1>1, <1>2, <1>3 DEF IdleTimed, Dismantled
<1> QED BY <1>4, <1>5, <1>6, <1>7 DEF PoolInv

\* An agent passes maxAge.
LEMMA AgeKeeps ==
  ASSUME PoolInv, Age, UNCHANGED stale
  PROVE  PoolInv'
<1>1. /\ old < Cardinality(Created(entries)) /\ old' = old + 1
      /\ UNCHANGED <<entries, timers, warmedUp, recycled, pendingQueue, poolDisposed, doomed,
                     call, held, disposals, stale>>
  BY DEF Age, teardown, callers
<1>2. PICK k \in 0..MaxCreated : Created(entries) = 1..k
  BY DEF PoolInv, InOrder
<1>3. old' \in 0..MaxCreated
  <2>1. k \in Nat /\ MaxCreated \in Nat /\ old \in 0..MaxCreated
    BY PoolNumbers DEF PoolInv, PoolTypes
  <2>2. Cardinality(Created(entries)) = k
    BY <1>2, <2>1, SegmentLemma
  <2> QED BY <1>1, <2>1, <2>2
<1>4. PoolTypes'
  BY <1>1, <1>3 DEF PoolInv, PoolTypes
<1>5. PoolQueue' /\ InOrder' /\ PoolBalance' /\ IdleTimed' /\ Dismantled'
  BY <1>1 DEF PoolInv, PoolQueue, InOrder, PoolBalance, IdleTimed, Dismantled
<1>6. HeldKnown' /\ Exclusive'
  BY <1>1 DEF PoolInv, HeldKnown, Exclusive, Holding
<1> QED BY <1>4, <1>5, <1>6 DEF PoolInv

-----------------------------------------------------------------------------
\* Whoever else holds an agent that is released is known to hold a stale one.
LEMMA OthersStale ==
  ASSUME PoolInv, NEW c \in Calls, Release(c), entries[held[c]] = "active"
  PROVE  /\ stale \subseteq stale' /\ call[c] \in {"holding", "returned"}
         /\ stale' \in SUBSET PooledAgents
         /\ \A d \in Holding : d # c /\ held[d] = held[c] => held[d] \in stale'
<1>1. held[c] \in PooledAgents /\ call[c] \in {"holding", "returned"}
  BY DEF PoolInv, HeldKnown, Release
<1>2. CASE call[c] = "returned"
  <2>1. stale' = stale \cup {held[c]}
    BY <1>2 DEF Release
  <2> QED BY <1>1, <2>1 DEF PoolInv, PoolTypes
<1>3. CASE call[c] = "holding"
  <2>1. stale' = stale /\ c \in Holding
    BY <1>3 DEF Release, Holding
  <2> QED BY <1>1, <2>1 DEF PoolInv, PoolTypes, Exclusive
<1> QED BY <1>1, <1>2, <1>3

\* A release of an agent that is not in use changes nothing but the caller.
LEMMA NothingKeeps ==
  ASSUME PoolInv, NEW c \in Calls, Release(c), ReleaseNothing(c, held[c])
  PROVE  PoolInv'
<1>1. /\ call[c] \in {"holding", "returned"} /\ call' = [call EXCEPT ![c] = "returned"]
      /\ UNCHANGED <<entries, timers, warmedUp, recycled, pendingQueue, poolDisposed, doomed,
                     old, held, disposals, stale>>
  BY DEF ReleaseNothing, Release, teardown, clock
<1>2. /\ PoolTypes'
      /\ \A d \in Calls : d # c => call'[d] = call[d]
      /\ call'[c] = "returned"
  BY <1>1 DEF PoolInv, PoolTypes
<1>3. InOrder' /\ PoolBalance' /\ IdleTimed' /\ Dismantled'
  BY <1>1 DEF PoolInv, InOrder, PoolBalance, IdleTimed, Dismantled
<1>4. HeldKnown' /\ Exclusive'
  BY <1>1, <1>2 DEF PoolInv, HeldKnown, Exclusive, Holding
<1>5. PoolQueue'
  <2>1. \A d \in Calls : call'[d] = "waiting" <=> call[d] = "waiting"
    BY <1>1, <1>2
  <2> QED BY <1>1, <2>1 DEF PoolInv, PoolQueue
<1> QED BY <1>2, <1>3, <1>4, <1>5 DEF PoolInv

\* A release that hands the agent to the first waiter.
LEMMA HandOverKeeps ==
  ASSUME PoolInv, NEW c \in Calls, Release(c), ReleaseTo(c, held[c])
  PROVE  PoolInv'
<1> DEFINE a == held[c]
           w == Head(pendingQueue)
<1>1. /\ entries[a] = "active" /\ pendingQueue # <<>> /\ pendingQueue' = Tail(pendingQueue)
      /\ call' = [call EXCEPT ![c] = "returned", ![w] = "holding"]
      /\ held' = [held EXCEPT ![w] = a]
      /\ UNCHANGED <<entries, timers, warmedUp, recycled, poolDisposed, doomed, old, disposals>>
  BY DEF ReleaseTo, teardown, clock
<1>2. /\ stale \subseteq stale' /\ call[c] \in {"holding", "returned"}
      /\ stale' \in SUBSET PooledAgents
      /\ \A d \in Holding : d # c /\ held[d] = a => held[d] \in stale'
  BY <1>1, OthersStale
<1>3. PoolTypes /\ PoolQueue /\ ~poolDisposed /\ a \in PooledAgents
  BY <1>1, <1>2 DEF PoolInv, PoolQueue, HeldKnown
<1>4. /\ w \in Calls /\ w \in ToSet(pendingQueue)
      /\ pendingQueue' \in Seq(Calls) /\ IsInjective(pendingQueue')
      /\ ToSet(pendingQueue') = ToSet(pendingQueue) \ {w}
  BY <1>1, <1>3, ShiftLemma DEF PoolTypes, PoolQueue
<1>5. call[w] = "waiting" /\ w # c
  BY <1>2, <1>3, <1>4 DEF PoolQueue
<1> HIDE DEF a, w
<1>6. /\ call'[c] = "returned" /\ call'[w] = "holding" /\ held'[w] = a
      /\ \A d \in Calls : d # c /\ d # w => call'[d] = call[d]
      /\ \A d \in Calls : d # w => held'[d] = held[d]
  BY <1>1, <1>3, <1>4, <1>5 DEF PoolTypes
<1>7. PoolTypes'
  <2>1. call' \in [Calls -> {"new", "waiting", "holding", "returned", "rejected"}]
    BY <1>1, <1>3 DEF PoolTypes
  <2>2. held' \in [Calls -> 0..MaxCreated]
    <3>1. a \in 0..MaxCreated
      BY <1>3, PoolNumbers DEF PooledAgents
    <3> QED BY <1>1, <1>3, <3>1 DEF PoolTypes
  <2> QED BY <1>1, <1>2, <1>3, <1>4, <2>1, <2>2 DEF PoolTypes
<1>8. PoolQueue'
  <2>1. \A d \in Calls : call'[d] = "waiting" <=> (call[d] = "waiting" /\ d # w)
    BY <1>2, <1>5, <1>6
  <2>2. Len(pendingQueue') = Len(pendingQueue) - 1 /\ Len(pendingQueue) \in Nat
    BY <1>1, <1>3, HeadTailProperties, LenProperties DEF PoolTypes
  <2>3. Len(pendingQueue') <= MaxPending
    BY <1>3, <2>2, PoolNumbers DEF PoolQueue
  <2> QED BY <1>1, <1>3, <1>4, <2>1, <2>3 DEF PoolQueue
<1>9. InOrder' /\ PoolBalance' /\ IdleTimed' /\ Dismantled'
  BY <1>1 DEF PoolInv, InOrder, PoolBalance, IdleTimed, Dismantled
<1>10. HeldKnown' /\ Exclusive'
  <2>1. \A d \in Holding' : d = w \/ (d \in Holding /\ d # c /\ held'[d] = held[d])
    <3>1. ASSUME NEW d \in Calls, call'[d] = "holding", d # w
          PROVE  d \in Holding /\ d # c /\ held'[d] = held[d]
      BY <1>6, <3>1 DEF Holding
    <3> QED BY <3>1 DEF Holding
  <2>2. HeldKnown'
    BY <1>2, <1>3, <1>6 DEF PoolInv, HeldKnown
  <2>3. \A d \in Holding : held[d] = a /\ d # c => held[d] \in stale'
    BY <1>2 DEF a
  <2>4. ASSUME NEW d \in Holding', NEW f \in Holding', held'[d] = held'[f]
        PROVE  d = f \/ held'[d] \in stale'
    <3>1. CASE d = w /\ f # w
      BY <1>6, <2>1, <2>3, <2>4, <3>1
    <3>2. CASE d # w /\ f = w
      BY <1>6, <2>1, <2>3, <2>4, <3>2
    <3>3. CASE d # w /\ f # w
      BY <1>2, <2>1, <2>4, <3>3 DEF PoolInv, Exclusive
    <3> QED BY <3>1, <3>2, <3>3
  <2>5. ASSUME NEW d \in Holding' PROVE held'[d] \in stale' \/ entries'[held'[d]] = "active"
    <3>1. CASE d = w
      BY <1>1, <1>6, <3>1 DEF a
    <3>2. CASE d # w
      BY <1>1, <1>2, <1>3, <2>1, <3>2 DEF PoolInv, Exclusive
    <3> QED BY <3>1, <3>2
  <2> QED BY <2>2, <2>4, <2>5 DEF Exclusive
<1> QED BY <1>7, <1>8, <1>9, <1>10 DEF PoolInv

\* A release that makes the agent idle.
LEMMA MadeIdleKeeps ==
  ASSUME PoolInv, NEW c \in Calls, Release(c), ReleaseIdle(c, held[c])
  PROVE  PoolInv'
<1> DEFINE a == held[c]
<1>1. /\ entries[a] = "active" /\ entries' = Put(entries, {a}, "idle")
      /\ timers' = IF poolDisposed THEN timers ELSE timers \cup {a}
      /\ call' = [call EXCEPT ![c] = "returned"]
      /\ UNCHANGED <<pendingQueue, warmedUp, recycled, poolDisposed, doomed, old, held, disposals>>
  BY DEF ReleaseIdle, teardown, clock
<1>2. /\ stale \subseteq stale' /\ call[c] \in {"holding", "returned"}
      /\ stale' \in SUBSET PooledAgents
      /\ \A d \in Holding : d # c /\ held[d] = a => held[d] \in stale'
  BY <1>1, OthersStale
<1>3. PoolTypes /\ PoolQueue /\ a \in PooledAgents
  BY <1>2 DEF PoolInv, HeldKnown
<1>4. /\ call'[c] = "returned"
      /\ \A d \in Calls : d # c => call'[d] = call[d]
  BY <1>1, <1>3 DEF PoolTypes
<1>5. \A b \in PooledAgents : entries'[b] = IF b = a THEN "idle" ELSE entries[b]
  BY <1>1 DEF Put
<1>6. PoolTypes'
  <2>1. entries' \in [PooledAgents -> States]
    BY <1>1, <1>3 DEF PoolTypes, Put, States
  <2>2. call' \in [Calls -> {"new", "waiting", "holding", "returned", "rejected"}]
    BY <1>1, <1>3 DEF PoolTypes
  <2>3. timers' \in SUBSET PooledAgents
    BY <1>1, <1>3 DEF PoolTypes
  <2> QED BY <1>1, <1>2, <1>3, <2>1, <2>2, <2>3 DEF PoolTypes, States
<1>7. PoolQueue'
  <2>1. \A d \in Calls : call'[d] = "waiting" <=> call[d] = "waiting"
    BY <1>2, <1>4
  <2> QED BY <1>1, <1>3, <2>1 DEF PoolQueue
<1>8. /\ Created(entries') = Created(entries) /\ Live(entries') = Live(entries)
      /\ Gone(entries') = Gone(entries) /\ Idle(entries') = Idle(entries) \cup {a}
  BY <1>1, <1>3, <1>5 DEF Created, Live, Gone, Idle
<1>9. InOrder' /\ PoolBalance'
  <2>1. InOrder' /\ Cardinality(Live(entries')) <= Most
    BY <1>8 DEF PoolInv, InOrder, PoolBalance
  <2>2. {} \in SUBSET PooledAgents /\ Gone(entries') = Gone(entries) \cup {}
        /\ {} \cap Gone(entries) = {}
    BY <1>8
  <2> QED BY ONLY PoolInv, <1>1, <1>6, <2>1, <2>2, LedgerStep
<1>10. IdleTimed' /\ Dismantled'
  BY <1>1, <1>8 DEF PoolInv, IdleTimed, Dismantled
<1>11. HeldKnown' /\ Exclusive'
  <2>1. \A d \in Calls : /\ call'[d] \in {"holding", "returned"} =>
                              call[d] \in {"holding", "returned"}
                         /\ call'[d] = "holding" => call[d] = "holding" /\ d # c
    BY <1>2, <1>4
  <2>2. ASSUME NEW d \in Holding, call'[d] = "holding", held[d] \notin stale',
               entries[held[d]] = "active"
        PROVE  entries'[held[d]] = "active"
    <3>1. held[d] # a
      BY <1>2, <2>1, <2>2 DEF Holding
    <3>2. held[d] \in PooledAgents
      BY DEF PoolInv, HeldKnown, Holding
    <3> QED BY <1>5, <2>2, <3>1, <3>2
  <2> QED BY <1>1, <1>2, <2>1, <2>2, KeepUse
<1> QED BY <1>6, <1>7, <1>9, <1>10, <1>11 DEF PoolInv

\* A handout gives each of the waiters it serves an agent of its own.
LEMMA HandoutLemma ==
  ASSUME NEW e, NEW give \in Handouts(e)
  PROVE  \A i, j \in 1..Served(e) : give[i] = give[j] => i = j
<1> DEFINE n == Served(e)
<1>1. \A i \in 1..n : /\ give[i] \in Spare(e)
                      /\ {b \in Spare(e) : b < give[i]} = {give[k] : k \in 1..(i - 1)}
  BY DEF Handouts
<1>2. Spare(e) \subseteq Nat
  BY PoolNumbers DEF Spare, Idle, PooledAgents
<1>3. ASSUME NEW i \in 1..n, NEW j \in 1..n, i < j PROVE give[i] # give[j]
  <2>1. i \in 1..(j - 1)
    BY <1>3
  <2>2. give[i] \in {b \in Spare(e) : b < give[j]}
    BY <1>1, <2>1
  <2>3. give[i] \in Nat /\ give[j] \in Nat /\ give[i] < give[j]
    BY <1>1, <1>2, <2>2
  <2> QED BY <2>3
<1>4. TAKE i, j \in 1..n
<1>5. i < j \/ j < i \/ i = j
  OBVIOUS
<1> QED BY <1>3, <1>5

\* A release of an expired agent: it goes, the waiters get the idle agents.
LEMMA ExpiredKeeps ==
  ASSUME PoolInv, NEW c \in Calls, Release(c), ReleaseExpired(c, held[c])
  PROVE  PoolInv'
<1> DEFINE a == held[c]
           e == Put(entries, {a}, "gone")
           swept == IF pendingQueue = <<>> THEN {} ELSE Idle(e) \cap Expired
           n == Served(e)
           winners == {pendingQueue[i] : i \in 1..n}
<1>1. PICK give \in Handouts(e) :
        /\ entries' = Put(Put(e, swept, "gone"), {give[i] : i \in 1..n}, "active")
        /\ timers' = timers \ (swept \cup {give[i] : i \in 1..n})
        /\ Recycle({a} \cup swept)
        /\ pendingQueue' = SubSeq(pendingQueue, n + 1, Len(pendingQueue))
        /\ call' = [d \in Calls |-> IF d = c THEN "returned"
                                    ELSE IF d \in winners THEN "holding" ELSE call[d]]
        /\ held' = [d \in Calls |-> IF d \in winners
                                    THEN give[CHOOSE i \in 1..n : pendingQueue[i] = d]
                                    ELSE held[d]]
  BY DEF ReleaseExpired
<1>2. /\ entries[a] = "active"
      /\ UNCHANGED <<warmedUp, poolDisposed, doomed, old>>
  BY DEF ReleaseExpired, teardown, clock
<1> DEFINE granted == {give[i] : i \in 1..n}
<1>3. /\ stale \subseteq stale' /\ call[c] \in {"holding", "returned"}
      /\ stale' \in SUBSET PooledAgents
      /\ \A d \in Holding : d # c /\ held[d] = a => held[d] \in stale'
  BY <1>2, OthersStale
<1>4. PoolTypes /\ PoolQueue /\ a \in PooledAgents
  BY <1>3 DEF PoolInv, HeldKnown
<1>5. n \in Nat /\ n <= Len(pendingQueue) /\ Len(pendingQueue) \in Nat
  <2>1. Cardinality(Spare(e)) \in Nat
    BY PoolNumbers DEF Spare, Idle
  <2>2. Len(pendingQueue) \in Nat
    BY <1>4, LenProperties DEF PoolTypes
  <2> QED BY <2>1, <2>2, LesserLemma DEF Served
<1>6. \A b \in PooledAgents : e[b] = IF b = a THEN "gone" ELSE entries[b]
  BY DEF Put
<1>7. Idle(e) = Idle(entries) /\ a \notin Idle(entries)
  BY <1>2, <1>6 DEF Idle
<1>8. /\ swept \subseteq Idle(entries) /\ granted \subseteq Idle(entries)
      /\ swept \cap granted = {}
      /\ \A i \in 1..n : give[i] \in Idle(entries)
  <2>1. \A i \in 1..n : give[i] \in Spare(e)
    BY DEF Handouts
  <2> QED BY <1>7, <2>1 DEF Spare
<1>9. \A i, j \in 1..n : give[i] = give[j] => i = j
  BY HandoutLemma
<1> HIDE DEF a, e, swept, n, granted
<1>10. \A b \in PooledAgents : entries'[b] = IF b \in granted THEN "active"
                                             ELSE IF b \in swept \/ b = a THEN "gone"
                                             ELSE entries[b]
  BY <1>1, <1>6 DEF Put, granted
<1>11. /\ Created(entries') = Created(entries) /\ Live(entries') \subseteq Live(entries)
       /\ Gone(entries') = Gone(entries) \cup ({a} \cup swept)
       /\ ({a} \cup swept) \cap Gone(entries) = {}
       /\ Idle(entries') = Idle(entries) \ (swept \cup granted)
  <2>1. \A b \in PooledAgents : b \in granted \/ b \in swept => entries[b] = "idle"
    BY <1>8 DEF Idle
  <2>2. Created(entries') = Created(entries) /\ Live(entries') \subseteq Live(entries)
    BY <1>2, <1>4, <1>10, <2>1 DEF Created, Live
  <2>3. swept \subseteq PooledAgents /\ a \notin granted
    BY <1>7, <1>8 DEF Idle
  <2>4. Gone(entries') = Gone(entries) \cup ({a} \cup swept)
    BY <1>4, <1>8, <1>10, <2>1, <2>3 DEF Gone
  <2>5. ({a} \cup swept) \cap Gone(entries) = {}
    BY <1>2, <2>1 DEF Gone
  <2>6. Idle(entries') = Idle(entries) \ (swept \cup granted)
    BY <1>7, <1>10 DEF Idle
  <2> QED BY <2>2, <2>4, <2>5, <2>6
<1>12. /\ winners \subseteq ToSet(pendingQueue) /\ winners \subseteq Calls
       /\ c \notin winners /\ \A d \in winners : call[d] = "waiting"
       /\ winners # {} => ~poolDisposed
  <2>1. DOMAIN pendingQueue = 1..Len(pendingQueue)
    BY <1>4, LenProperties DEF PoolTypes
  <2>2. \A i \in 1..n : i \in 1..Len(pendingQueue)
    BY <1>5
  <2>3. winners \subseteq ToSet(pendingQueue)
    BY <2>1, <2>2 DEF ToSet
  <2>4. ToSet(<<>>) = {}
    BY NoneLemma
  <2> QED BY <1>3, <1>4, <2>3, <2>4 DEF PoolQueue
<1>13. /\ pendingQueue' \in Seq(Calls) /\ IsInjective(pendingQueue')
       /\ ToSet(pendingQueue') = ToSet(pendingQueue) \ winners
       /\ Len(pendingQueue') <= Len(pendingQueue) /\ Len(pendingQueue') \in Nat
  <2>1. n \in 0..Len(pendingQueue) /\ pendingQueue \in Seq(Calls) /\ IsInjective(pendingQueue)
    BY <1>4, <1>5 DEF PoolTypes, PoolQueue
  <2>2. LET r == SubSeq(pendingQueue, n + 1, Len(pendingQueue))
        IN /\ r \in Seq(Calls) /\ Len(r) <= Len(pendingQueue) /\ IsInjective(r)
           /\ ToSet(r) = ToSet(pendingQueue) \ {pendingQueue[i] : i \in 1..n}
    BY <2>1, DropLemma
  <2> QED BY <1>1, <2>2, LenProperties
<1>14. \A d \in winners : \E i \in 1..n : pendingQueue[i] = d /\ held'[d] = give[i]
  <2>1. TAKE d \in winners
  <2>2. \E i \in 1..n : pendingQueue[i] = d
    OBVIOUS
  <2>3. (CHOOSE i \in 1..n : pendingQueue[i] = d) \in 1..n
    BY <2>2
  <2>4. pendingQueue[CHOOSE i \in 1..n : pendingQueue[i] = d] = d
    BY <2>2
  <2>5. held'[d] = give[CHOOSE i \in 1..n : pendingQueue[i] = d]
    BY <1>1, <1>12
  <2> QED BY <2>3, <2>4, <2>5
<1>15. /\ call'[c] = "returned" /\ held'[c] = held[c]
       /\ \A d \in winners : call'[d] = "holding" /\ held'[d] \in granted
       /\ \A d \in Calls : d # c /\ d \notin winners => call'[d] = call[d] /\ held'[d] = held[d]
  <2>1. \A d \in winners : held'[d] \in granted
    BY <1>14 DEF granted
  <2> QED BY <1>1, <1>12, <2>1
<1> HIDE DEF winners
<1>16. PoolTypes'
  <2>1. entries' \in [PooledAgents -> States]
    <3>1. e \in [PooledAgents -> States]
      BY <1>4 DEF PoolTypes, Put, States, e
    <3> QED BY <1>1, <3>1 DEF Put, States
  <2>2. call' \in [Calls -> {"new", "waiting", "holding", "returned", "rejected"}]
    BY <1>1, <1>4 DEF PoolTypes
  <2>3. held' \in [Calls -> 0..MaxCreated]
    <3>1. PooledAgents \subseteq 0..MaxCreated
      BY PoolNumbers DEF PooledAgents
    <3>2. ASSUME NEW d \in Calls PROVE held'[d] \in 0..MaxCreated
      <4>1. CASE d \in winners
        BY <1>8, <1>15, <3>1, <4>1 DEF Idle
      <4>2. CASE d \notin winners
        BY <1>4, <1>15, <4>2 DEF PoolTypes
      <4> QED BY <4>1, <4>2
    <3>3. held' = [d \in Calls |-> held'[d]]
      BY <1>1
    <3> QED BY <3>2, <3>3
  <2>4. Cardinality({a} \cup swept) \in Nat
    BY <1>4, <1>8, PoolNumbers DEF Idle
  <2>5. recycled' \in Nat /\ disposals' \in [PooledAgents -> Nat]
    BY <1>1, <1>4, <2>4 DEF PoolTypes, Recycle
  <2>6. timers' \in SUBSET PooledAgents
    BY <1>1, <1>4 DEF PoolTypes
  <2> QED BY <1>2, <1>3, <1>4, <1>13, <2>1, <2>2, <2>3, <2>5, <2>6 DEF PoolTypes, States
<1>17. PoolQueue'
  <2>1. \A d \in Calls : call'[d] = "waiting" <=> (call[d] = "waiting" /\ d \notin winners)
    BY <1>3, <1>12, <1>15
  <2>2. Len(pendingQueue') <= MaxPending
    BY <1>4, <1>5, <1>13, PoolNumbers DEF PoolQueue
  <2>3. poolDisposed' => pendingQueue' = <<>>
    <3>1. ASSUME poolDisposed PROVE Len(pendingQueue') = 0
      <4>1. Len(pendingQueue) = 0
        BY <1>4, <3>1, EmptySeq DEF PoolQueue
      <4> QED BY <1>13, <4>1
    <3> QED BY <1>2, <1>13, <3>1, EmptySeq
  <2> QED BY <1>4, <1>13, <2>1, <2>2, <2>3 DEF PoolQueue
<1>18. InOrder' /\ PoolBalance'
  <2>1. InOrder' /\ Cardinality(Live(entries')) <= Most
    BY <1>11, FewerLive DEF PoolInv, InOrder
  <2>2. ({a} \cup swept) \in SUBSET PooledAgents
    BY <1>4, <1>8 DEF Idle
  <2> QED BY ONLY PoolInv, <1>1, <1>2, <1>11, <1>16, <2>1, <2>2, LedgerStep
<1>19. IdleTimed'
  <2>1. timers' = timers \ (swept \cup granted)
    BY <1>1 DEF granted
  <2> QED BY <1>2, <1>11, <2>1 DEF PoolInv, IdleTimed
<1>20. Dismantled'
  BY <1>2, <1>11 DEF PoolInv, Dismantled
<1>21. HeldKnown' /\ Exclusive'
  <2>1. \A d \in Holding' : \/ d \in winners /\ held'[d] \in granted
                            \/ d \in Holding /\ d # c /\ d \notin winners /\ held'[d] = held[d]
    <3>1. ASSUME NEW d \in Calls, call'[d] = "holding", d \notin winners
          PROVE  d \in Holding /\ d # c /\ held'[d] = held[d]
      BY <1>15, <3>1 DEF Holding
    <3> QED BY <1>15, <3>1 DEF Holding
  <2>2. HeldKnown'
    <3>1. ASSUME NEW d \in Calls, call'[d] \in {"holding", "returned"}
          PROVE  held'[d] \in PooledAgents
      <4>1. CASE d \in winners
        BY <1>8, <1>15, <4>1 DEF Idle
      <4>2. CASE d = c
        BY <1>4, <1>15, <4>2 DEF a
      <4>3. CASE d # c /\ d \notin winners
        BY <1>15, <3>1, <4>3 DEF PoolInv, HeldKnown
      <4> QED BY <4>1, <4>2, <4>3
    <3> QED BY <3>1 DEF HeldKnown
  <2>3. ASSUME NEW d \in Holding, NEW b \in granted, held[d] = b, ~poolDisposed
        PROVE  held[d] \in stale'
    <3>1. entries[b] # "active"
      BY <1>8, <2>3 DEF Idle
    <3> QED BY <1>3, <2>3, <3>1 DEF PoolInv, Exclusive
  <2>4. ASSUME NEW d \in Holding', NEW f \in Holding', held'[d] = held'[f]
        PROVE  d = f \/ held'[d] \in stale'
    <3>1. CASE d \in winners /\ f \in winners
      <4>1. PICK i \in 1..n : pendingQueue[i] = d /\ held'[d] = give[i]
        BY <1>14, <3>1
      <4>2. PICK j \in 1..n : pendingQueue[j] = f /\ held'[f] = give[j]
        BY <1>14, <3>1
      <4>3. i = j
        BY <1>9, <2>4, <4>1, <4>2
      <4> QED BY <4>1, <4>2, <4>3
    <3>2. CASE d \in winners /\ f \notin winners
      BY <1>12, <2>1, <2>3, <2>4, <3>2
    <3>3. CASE d \notin winners /\ f \in winners
      BY <1>12, <2>1, <2>3, <2>4, <3>3
    <3>4. CASE d \notin winners /\ f \notin winners
      <4>1. d \in Holding /\ f \in Holding /\ held[d] = held[f] /\ held'[d] = held[d]
        BY <2>1, <2>4, <3>4
      <4> QED BY <1>3, <4>1 DEF PoolInv, Exclusive
    <3> QED BY <3>1, <3>2, <3>3, <3>4
  <2>5. ASSUME ~poolDisposed', NEW d \in Holding'
        PROVE  held'[d] \in stale' \/ entries'[held'[d]] = "active"
    <3>1. CASE d \in winners
      BY <1>8, <1>10, <1>15, <3>1 DEF Idle
    <3>2. CASE d \notin winners
      <4>1. d \in Holding /\ d # c /\ held'[d] = held[d] /\ held[d] \in PooledAgents
        BY <2>1, <3>2 DEF PoolInv, HeldKnown, Holding
      <4>2. held[d] \in stale \/ entries[held[d]] = "active"
        BY <1>2, <2>5, <4>1 DEF PoolInv, Exclusive
      <4>3. CASE held[d] \in stale'
        BY <4>1, <4>3
      <4>4. CASE held[d] \notin stale'
        <5>1. held[d] # a /\ entries[held[d]] = "active"
          BY <1>3, <4>1, <4>2, <4>4
        <5>2. held[d] \notin swept /\ held[d] \notin granted
          BY <1>8, <5>1 DEF Idle
        <5> QED BY <1>10, <4>1, <5>1, <5>2
      <4> QED BY <4>3, <4>4
    <3> QED BY <3>1, <3>2
  <2> QED BY <2>2, <2>4, <2>5 DEF Exclusive
<1> QED BY <1>16, <1>17, <1>18, <1>19, <1>20, <1>21 DEF PoolInv

-----------------------------------------------------------------------------
\* A new pool.
LEMMA PoolStart == PoolInit => PoolInv
<1> SUFFICES ASSUME PoolInit PROVE PoolInv
  OBVIOUS
<1>1. <<>> \in Seq(Calls) /\ ToSet(<<>>) = {} /\ IsInjective(<<>>) /\ Len(<<>>) = 0
  BY NoneLemma, EmptySeq
<1>2. PoolTypes
  <2>1. 0 \in 0..MaxCreated /\ 0 \in Nat
    BY PoolNumbers
  <2>2. {warmedUp, poolDisposed} \subseteq BOOLEAN
    BY DEF PoolInit
  <2> QED BY <1>1, <2>1, <2>2 DEF PoolInit, PoolTypes
<1>3. \A b \in PooledAgents : entries[b] = "unborn"
  BY DEF PoolInit
<1>4. Created(entries) = {} /\ Live(entries) = {} /\ Gone(entries) = {} /\ Idle(entries) = {}
  BY <1>3 DEF Created, Live, Gone, Idle
<1>5. InOrder
  <2>1. 1..0 = {} /\ 0 \in 0..MaxCreated
    BY PoolNumbers
  <2> QED BY <1>4, <2>1 DEF InOrder
<1>6. PoolBalance
  BY <1>3, <1>4, FS_EmptySet, PoolNumbers DEF PoolInit, PoolBalance
<1>7. PoolQueue
  BY <1>1, PoolNumbers DEF PoolInit, PoolQueue
<1>8. HeldKnown /\ Exclusive /\ IdleTimed /\ Dismantled
  BY <1>4 DEF PoolInit, HeldKnown, Exclusive, Holding, IdleTimed, Dismantled
<1> QED BY <1>2, <1>5, <1>6, <1>7, <1>8 DEF PoolInv

\* Every step of the pool keeps its invariant.
LEMMA PoolStep == PoolInv /\ [PoolNext]_poolVars => PoolInv'
<1> SUFFICES ASSUME PoolInv, [PoolNext]_poolVars PROVE PoolInv'
  OBVIOUS
<1>1. ASSUME NEW c \in Calls, Release(c) PROVE PoolInv'
  BY <1>1, NothingKeeps, ExpiredKeeps, HandOverKeeps, MadeIdleKeeps DEF Release
<1>2. CASE Others /\ UNCHANGED stale
  <2>1. ASSUME NEW c \in Calls,
               \/ AcquireIdle(c) \/ AcquireNew(c) \/ Exhausted(c)
               \/ CreateFails(c) \/ WarmUpFails(c)
               \/ AcquireAborted(c) \/ AcquireRefused(c) \/ Cancel(c)
        PROVE  PoolInv'
    BY <1>2, <2>1, IdleKeeps, NewKeeps, ExhaustedKeeps, AbortedKeeps, RefusedKeeps,
       CancelKeeps, WarmUpFailsKeeps
  <2>2. ASSUME NEW a \in PooledAgents, IdleTimeout(a) PROVE PoolInv'
    <3>1. ~poolDisposed /\ {a} \in SUBSET Idle(entries)
      BY <2>2 DEF IdleTimeout, Idle
    <3> QED BY <1>2, <2>2, <3>1, IdleGoKeeps DEF IdleTimeout
  <2>3. ASSUME NEW target \in Targets, Trim(target) PROVE PoolInv'
    <3> DEFINE S == {a \in Idle(entries) : Cardinality({b \in Idle(entries) : b < a})
                                             < Cardinality(Live(entries)) - target}
    <3>1. /\ ~poolDisposed /\ entries' = Put(entries, S, "gone") /\ timers' = timers \ S
          /\ Recycle(S) /\ UNCHANGED <<warmedUp, pendingQueue, teardown, clock, callers>>
      BY <2>3 DEF Trim
    <3>2. S \in SUBSET Idle(entries)
      OBVIOUS
    <3> HIDE DEF S
    <3> QED BY <1>2, <3>1, <3>2, IdleGoKeeps
  <2>4. ASSUME NEW target \in Targets, Grow(target) PROVE PoolInv'
    BY <1>2, <2>4, GrowKeeps
  <2>5. CASE PoolDispose \/ DisposeNext \/ Age
    BY <1>2, <2>5, PoolDisposeKeeps, DisposeNextKeeps, AgeKeeps
  <2> QED BY <1>2, <2>1, <2>2, <2>3, <2>4, <2>5 DEF Others
<1>3. CASE UNCHANGED poolVars
  <2>1. UNCHANGED <<entries, timers, warmedUp, recycled, pendingQueue, poolDisposed, doomed,
                    old, call, held, disposals, stale>>
    BY <1>3 DEF poolVars, teardown, clock, callers
  <2> QED BY <2>1 DEF PoolInv, PoolTypes, PoolQueue, InOrder, PoolBalance, HeldKnown,
                      Exclusive, Holding, IdleTimed, Dismantled
<1> QED BY <1>1, <1>2, <1>3 DEF PoolNext

\* The invariant of the pool holds, whatever its sizes and its callers.
THEOREM PoolInvariance == PoolSpec => []PoolInv
  BY PoolStart, PoolStep, PTL DEF PoolSpec

\* An agent is in one caller's hands at most, active and never disposed there until
\* dispose(), but for agents that a former holder has released once more.
THEOREM PoolExclusive == PoolSpec => []ExclusiveAgent
<1>1. PoolInv => ExclusiveAgent
  <2> SUFFICES ASSUME PoolInv PROVE ExclusiveAgent
    OBVIOUS
  <2>1. ASSUME ~poolDisposed, NEW c \in Holding, held[c] \notin stale
        PROVE  entries[held[c]] = "active" /\ disposals[held[c]] = 0
    <3>1. held[c] \in PooledAgents /\ entries[held[c]] = "active"
      BY <2>1 DEF PoolInv, HeldKnown, Exclusive, Holding
    <3> QED BY <2>1, <3>1 DEF PoolInv, PoolBalance
  <2> QED BY <2>1 DEF PoolInv, Exclusive, ExclusiveAgent
<1> QED BY <1>1, PoolInvariance, PTL

\* The pool keeps to max, created agents are those held and those recycled, and each
\* waiting call is queued once, within the bound of the queue.
THEOREM PoolBooksBalance == PoolSpec => []PoolBooks
<1>1. PoolInv => PoolBooks
  <2> SUFFICES ASSUME PoolInv PROVE PoolBooks
    OBVIOUS
  <2>1. Cardinality(Created(entries)) = Cardinality(Live(entries)) + Cardinality(Gone(entries))
    <3>1. Created(entries) = Live(entries) \cup Gone(entries)
      BY DEF PoolInv, PoolTypes, Created, Live, Gone
    <3>2. Live(entries) \cap Gone(entries) = {}
      BY DEF Live, Gone
    <3>3. /\ IsFiniteSet(Live(entries)) /\ IsFiniteSet(Gone(entries))
          /\ Cardinality(Live(entries)) \in Nat /\ Cardinality(Gone(entries)) \in Nat
      BY PoolNumbers DEF Live, Gone
    <3>4. Cardinality(Live(entries) \cup Gone(entries))
            = Cardinality(Live(entries)) + Cardinality(Gone(entries))
                - Cardinality(Live(entries) \cap Gone(entries))
      BY <3>3, FS_Union
    <3>5. Cardinality(Live(entries) \cap Gone(entries)) = 0
      BY <3>2, FS_EmptySet
    <3> QED BY <3>1, <3>3, <3>4, <3>5
  <2>2. PoolLedger
    BY <2>1 DEF PoolInv, PoolBalance, PoolLedger
  <2> QED BY <2>2 DEF PoolInv, PoolBooks
<1> QED BY <1>1, PoolInvariance, PTL

\* Until dispose() the idle agents are the ones with a timer, and no timer outlives
\* the hand-off of its agent.
THEOREM PoolIdleTimed == PoolSpec => []IdleTimed
<1>1. PoolInv => IdleTimed
  BY DEF PoolInv
<1> QED BY <1>1, PoolInvariance, PTL

\* When dispose() is done, neither an agent nor a timer is left.
THEOREM PoolNothingLeft == PoolSpec => []NothingLeft
<1>1. PoolInv => NothingLeft
  BY DEF PoolInv, Dismantled, IdleTimed, NothingLeft, Live, Idle
<1> QED BY <1>1, PoolInvariance, PTL

=============================================================================

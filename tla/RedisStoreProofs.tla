-------------------------- MODULE RedisStoreProofs --------------------------
(***************************************************************************)
(* Theorems about RedisStore.tla, for any number of calls, entries and     *)
(* keys, however the calls share connections: a change that was reported   *)
(* as done is lost only with its entry or to a call that had no watch on   *)
(* the entry, a version is taken once, no entry is missing from the index  *)
(* and repair() deletes none that can be read, with the exceptions that    *)
(* the properties state.                                                   *)
(***************************************************************************)
EXTENDS RedisStore, TLAPS

\* The changes of entry i that are still to be found in it.
Live(i) == {o \in Changes : place[o] = i /\ pc[o] = "done" /\ o \notin dropped \cup clobbered}

\* A call whose watch, if it has one, is on and untouched.
Clean(o) == o \notin torn /\ Conn[o] \notin dirty

\* The ids whose entries were written once.
Known == {i \in Ids : content[i] # {}}

\* A call by id is about the id it was passed; one by key about an entry of its key, a
\* new one of its own or one that was written before.
PlaceOK == /\ \A o \in Writes \cup Updates \cup Deletes : place[o] = Target[o]
           /\ \A o \in ByKey : /\ KeyOf[place[o]] = KeyFor(o)
                               /\ place[o] = Target[o] \/ place[o] \in Known

\* What is stored, listed, deleted, read or changed was written once; what is to be made
\* was not.
OldIds == /\ stored \cup index \subseteq Known
          /\ \A o \in ByKey \cup Sweeps : listing[o] \subseteq Known
          /\ \A d \in Deletes : pc[d] = "deleted" => place[d] \in Known
          /\ \A u \in Updates : pc[u] = "read" => place[u] \in Known
          /\ \A o \in Changes : pc[o] = "done" => place[o] \in Known
NewIds == \A o \in Makers : pc[o] \notin Ended => Target[o] \notin Known

\* An update() that has its watch watches its entry, and if that was not touched it has
\* read all that is live in it. One that has not given up has an attempt left.
UpdateOK(u) == /\ pc[u] \in {"watched", "read"} /\ u \notin torn =>
                    Entry(place[u]) \in watched[Conn[u]]
               /\ pc[u] = "read" /\ Clean(u) =>
                    place[u] \in stored /\ Live(place[u]) \subseteq base[u]
               /\ pc[u] # "conflict" => attempt[u] < MaxRetries

\* The same of updateWithVersion() and the version, which is still the one it was
\* passed; but what it has read may miss changes of others than its like. A version
\* that was taken is past, unless one was taken without a watch.
Unwatched(k) == \E x \in torn \cap Swaps : KeyFor(x) = k /\ pc[x] \in {"done", "failed"}
SwapOK(s) == /\ pc[s] \in Watching /\ s \notin torn =>
                  Version(KeyFor(s)) \in watched[Conn[s]]
             /\ pc[s] \in {"versioned", "listed", "read"} /\ Clean(s) =>
                  version[KeyFor(s)] = expected[s]
             /\ pc[s] = "read" /\ Clean(s) => Live(place[s]) \cap Swaps \subseteq base[s]
             /\ pc[s] = "done" => expected[s] < version[KeyFor(s)] \/ Unwatched(KeyFor(s))

\* Between DEL and SREM, and after repair() has found it missing, an entry does not
\* come back but by a call without a watch on it.
GapOK == /\ revived \subseteq stored
         /\ \A d \in Deletes : pc[d] = "deleted" /\ place[d] \in stored => place[d] \in revived
         /\ \A m \in Sweeps : pc[m] = "missing" => listing[m] \cap stored \subseteq revived

StoreInv == /\ TypeOK /\ NoLostUpdate /\ IndexComplete /\ OnePerVersion
            /\ PlaceOK /\ OldIds /\ NewIds /\ GapOK
            /\ \A u \in Updates : UpdateOK(u)
            /\ \A s \in Swaps : SwapOK(s)

\* The empty store satisfies the invariant.
LEMMA StoreInit == Init => StoreInv
  BY StoreAssumption DEF Init, StoreInv, TypeOK, NoLostUpdate, IndexComplete, OnePerVersion,
    PlaceOK, OldIds, NewIds, GapOK, UpdateOK, SwapOK, Live, Clean, Known, Changes, Makers,
    ByKey, Calls, KeyFor, Phases, Ended, Watching

-----------------------------------------------------------------------------
\* What another call's step does to the watch of call p: it takes it away, or leaves it
\* as it is but may touch what is watched.
Steady(p) == p \notin torn' => /\ p \notin torn
                               /\ watched[Conn[p]] \subseteq watched'[Conn[p]]
                               /\ Conn[p] \notin dirty' => Conn[p] \notin dirty

\* A step that is of the calls of S alone.
StepOf(S) == /\ \A p \in Calls \ S : pc'[p] = pc[p]
             /\ \A u \in Updates \ S : attempt'[u] = attempt[u]
             /\ \A s \in Swaps \ S : expected'[s] = expected[s]
             /\ \A o \in Changes \ S : base'[o] = base[o]
             /\ \A o \in (Changes \cup Deletes) \ S : place'[o] = place[o]
             /\ \A o \in (ByKey \cup Sweeps) \ S : listing'[o] = listing[o]
             /\ \A p \in (Updates \cup Swaps) \ S : pc[p] \in Watching => Steady(p)
             /\ torn \ S \subseteq torn'
             /\ \A o \in S : pc[o] \notin Ended

\* The other calls' part of the invariant outlasts a step that marks the connections
\* that watch what it changes, and that takes no version back.
LEMMA OthersOK ==
  ASSUME StoreInv, TypeOK', NEW S \in SUBSET Calls, StepOf(S),
         \A u \in Updates \ S :
           pc[u] \in Watching /\ Clean(u)' /\ Entry(place[u]) \in watched[Conn[u]] =>
             /\ place[u] \in stored => place[u] \in stored'
             /\ Live(place[u])' \subseteq Live(place[u]),
         \A s \in Swaps \ S :
           pc[s] \in Watching /\ Clean(s)' /\ Version(KeyFor(s)) \in watched[Conn[s]] =>
             /\ version'[KeyFor(s)] = version[KeyFor(s)]
             /\ (Live(place[s]) \cap Swaps)' \subseteq Live(place[s]),
         \A k \in Keys : version[k] <= version'[k] \/ Unwatched(k)'
  PROVE  (\A u \in Updates \ S : UpdateOK(u)') /\ (\A s \in Swaps \ S : SwapOK(s)')
<1> USE DEF Calls, Changes, Makers, ByKey
<1>1. ASSUME NEW u \in Updates \ S PROVE UpdateOK(u)'
  <2>1. /\ pc'[u] = pc[u] /\ attempt'[u] = attempt[u] /\ base'[u] = base[u]
        /\ place'[u] = place[u]
        /\ pc[u] \in Watching => Steady(u)
    BY <1>1 DEF StepOf
  <2>2. UpdateOK(u)
    BY <1>1 DEF StoreInv
  <2>3. pc[u] \in {"watched", "read"} /\ u \notin torn' =>
          Entry(place[u]) \in watched[Conn[u]] /\ Entry(place[u]) \in watched'[Conn[u]]
    BY <2>1, <2>2 DEF UpdateOK, Steady, Watching
  <2>4. pc[u] = "read" /\ Clean(u)' => Clean(u)
    BY <2>1 DEF Clean, Steady, Watching
  <2>5. pc[u] = "read" /\ Clean(u)' => place[u] \in stored' /\ Live(place[u])' \subseteq base[u]
    BY <2>2, <2>3, <2>4, <1>1 DEF UpdateOK, Clean, Watching
  <2> QED BY <2>1, <2>2, <2>3, <2>5 DEF UpdateOK
<1>2. ASSUME NEW s \in Swaps \ S PROVE SwapOK(s)'
  <2>1. /\ pc'[s] = pc[s] /\ expected'[s] = expected[s] /\ base'[s] = base[s]
        /\ place'[s] = place[s]
        /\ pc[s] \in Watching => Steady(s)
    BY <1>2 DEF StepOf
  <2>2. SwapOK(s)
    BY <1>2 DEF StoreInv
  <2>3. pc[s] \in Watching /\ s \notin torn' =>
          /\ Version(KeyFor(s)) \in watched[Conn[s]]
          /\ Version(KeyFor(s)) \in watched'[Conn[s]]
    BY <2>1, <2>2 DEF SwapOK, Steady
  <2>4. pc[s] \in Watching /\ Clean(s)' => Clean(s)
    BY <2>1 DEF Clean, Steady
  <2>5. /\ pc[s] \in {"versioned", "listed", "read"} /\ Clean(s)' =>
             version'[KeyFor(s)] = expected[s]
        /\ pc[s] = "read" /\ Clean(s)' => (Live(place[s]) \cap Swaps)' \subseteq base[s]
    BY <2>2, <2>3, <2>4, <1>2 DEF SwapOK, Clean, Watching
  <2>6. pc[s] = "done" => expected[s] < version'[KeyFor(s)] \/ Unwatched(KeyFor(s))'
    <3>1. KeyFor(s) \in Keys /\ expected[s] \in Nat /\ version[KeyFor(s)] \in Nat
          /\ version'[KeyFor(s)] \in Nat
      BY <1>2, StoreAssumption DEF StoreInv, TypeOK, KeyFor
    <3>2. Unwatched(KeyFor(s)) => Unwatched(KeyFor(s))'
      BY <1>2 DEF Unwatched, StepOf, Ended, KeyFor
    <3> QED BY <2>2, <3>1, <3>2 DEF SwapOK
  <2> QED BY <2>1, <2>3, <2>5, <2>6 DEF SwapOK, KeyFor
<1> QED BY <1>1, <1>2

\* Own(o): what the call of a step must keep of the invariant itself.
Own(o) == /\ o \in Updates => UpdateOK(o)' /\ (pc'[o] = "read" => place'[o] \in Known')
          /\ o \in Swaps => SwapOK(o)'
          /\ o \in ByKey => /\ KeyOf[place'[o]] = KeyFor(o)
                            /\ place'[o] = Target[o] \/ place'[o] \in Known'
          /\ o \notin ByKey => UNCHANGED place
          /\ o \in ByKey \cup Sweeps => listing'[o] \subseteq Known'
          /\ o \in Deletes => (pc'[o] = "deleted" => place[o] \in Known' \ stored')
          /\ o \in Sweeps => (pc'[o] = "missing" => listing'[o] \cap stored' = {})

\* A step that changes nothing on the server but what the connection watches.
LEMMA QuietStep ==
  ASSUME StoreInv, TypeOK', NEW S \in SUBSET Calls, StepOf(S), UNCHANGED server,
         \A o \in S : Own(o), \A o \in S \cap Changes : pc'[o] # "done"
  PROVE  StoreInv'
<1> USE DEF Calls, Changes, Makers, ByKey
<1>a. /\ UNCHANGED <<stored, content, index, version, dropped, clobbered, revived, orphaned>>
      /\ TypeOK /\ NoLostUpdate /\ IndexComplete /\ OnePerVersion /\ PlaceOK /\ OldIds /\ NewIds
      /\ GapOK
  BY DEF server, history, StoreInv
<1>b. \A o \in Changes : pc'[o] = "done" <=> pc[o] = "done"
  BY DEF StepOf, Ended
<1>c. \A o \in Changes : pc[o] = "done" => place'[o] = place[o]
  BY DEF StepOf, Ended
<1>e. Known' = Known
  BY <1>a DEF Known
<1>f. \A k \in Keys : version[k] <= version'[k]
  BY <1>a DEF TypeOK
<1>1. (\A u \in Updates \ S : UpdateOK(u)') /\ (\A s \in Swaps \ S : SwapOK(s)')
  <2>1. ASSUME NEW o \in Changes \ S PROVE Live(place[o])' = Live(place[o])
    BY <1>a, <1>b, <1>c, <2>1 DEF Live, StepOf
  <2>2. \A k \in Keys : version'[k] = version[k]
    BY <1>a
  <2>3. \A s \in Swaps \ S : (Live(place[s]) \cap Swaps)' \subseteq Live(place[s])
    BY <2>1
  <2> QED BY <1>a, <1>f, <2>1, <2>2, <2>3, OthersOK
<1>2. (\A u \in Updates : UpdateOK(u)') /\ (\A s \in Swaps : SwapOK(s)')
  BY <1>1 DEF Own
<1>3. NoLostUpdate' /\ IndexComplete'
  BY <1>a, <1>b, <1>c DEF NoLostUpdate, IndexComplete
<1>4. OnePerVersion'
  <2> SUFFICES ASSUME NEW s \in Swaps, NEW t \in Swaps, pc'[s] = "done", pc'[t] = "done",
                      KeyFor(s) = KeyFor(t), expected'[s] = expected'[t], s # t
               PROVE  Unwatched(KeyFor(s))'
    BY DEF OnePerVersion, Unwatched, KeyFor
  <2>1. pc[s] = "done" /\ pc[t] = "done" /\ expected[s] = expected[t]
    BY <1>b DEF StepOf, Ended
  <2>2. Unwatched(KeyFor(s))
    BY <1>a, <2>1 DEF OnePerVersion, Unwatched
  <2> QED BY <2>2 DEF Unwatched, StepOf, Ended, KeyFor
<1>5. PlaceOK'
  BY <1>a, <1>e, StoreAssumption DEF PlaceOK, StepOf, Own, KeyFor
<1>6. OldIds'
  BY <1>a, <1>b, <1>c, <1>e, StoreAssumption DEF OldIds, StepOf, Own
<1>7. NewIds'
  BY <1>a, <1>e DEF NewIds, StepOf
<1>8. GapOK'
  BY <1>a, StoreAssumption DEF GapOK, StepOf, Own
<1> QED BY <1>2, <1>3, <1>4, <1>5, <1>6, <1>7, <1>8 DEF StoreInv

\* A step that takes away the entries of V, or ids from the index, and marks the
\* connections that watch those entries.
LEMMA GoneStep ==
  ASSUME StoreInv, TypeOK', NEW S \in SUBSET Calls, StepOf(S), NEW V \in SUBSET Ids,
         UNCHANGED <<content, version, clobbered, place>>,
         stored' = stored \ V, revived' = revived \ V, dropped' = dropped \cup Made(V),
         index' \subseteq index, stored' \subseteq index' \cup orphaned',
         \A u \in Updates \ S :
           pc[u] \in Watching /\ Clean(u)' /\ Entry(place[u]) \in watched[Conn[u]] =>
             place[u] \notin V \cap stored,
         \A o \in S : Own(o), \A o \in S \cap Changes : pc'[o] # "done"
  PROVE  StoreInv'
<1> USE DEF Calls, Changes, Makers, ByKey
<1>a. /\ TypeOK /\ NoLostUpdate /\ IndexComplete /\ OnePerVersion /\ PlaceOK /\ OldIds /\ NewIds
      /\ GapOK
  BY DEF StoreInv
<1>b. \A o \in Changes : pc'[o] = "done" <=> pc[o] = "done"
  BY DEF StepOf, Ended
<1>c. Known' = Known
  BY DEF Known
<1>d. \A k \in Keys : version[k] <= version'[k]
  BY <1>a DEF TypeOK
<1>1. (\A u \in Updates : UpdateOK(u)') /\ (\A s \in Swaps : SwapOK(s)')
  <2>1. ASSUME NEW o \in Changes PROVE Live(place[o])' \subseteq Live(place[o])
    BY <1>b, <2>1 DEF Live
  <2>2. \A k \in Keys : version'[k] = version[k]
    OBVIOUS
  <2>3. \A s \in Swaps \ S : (Live(place[s]) \cap Swaps)' \subseteq Live(place[s])
    BY <2>1
  <2>4. \A u \in Updates \ S :
          pc[u] \in Watching /\ Clean(u)' /\ Entry(place[u]) \in watched[Conn[u]] =>
            (place[u] \in stored => place[u] \in stored')
    OBVIOUS
  <2>5. (\A u \in Updates \ S : UpdateOK(u)') /\ (\A s \in Swaps \ S : SwapOK(s)')
    BY <1>d, <2>1, <2>2, <2>3, <2>4, OthersOK
  <2> QED BY <2>5 DEF Own
<1>2. NoLostUpdate' /\ IndexComplete'
  BY <1>a, <1>b DEF NoLostUpdate, IndexComplete, Made
<1>3. OnePerVersion'
  <2> SUFFICES ASSUME NEW s \in Swaps, NEW t \in Swaps, pc'[s] = "done", pc'[t] = "done",
                      KeyFor(s) = KeyFor(t), expected'[s] = expected'[t], s # t
               PROVE  Unwatched(KeyFor(s))'
    BY DEF OnePerVersion, Unwatched, KeyFor
  <2>1. pc[s] = "done" /\ pc[t] = "done" /\ expected[s] = expected[t]
    BY <1>b DEF StepOf, Ended
  <2>2. Unwatched(KeyFor(s))
    BY <1>a, <2>1 DEF OnePerVersion, Unwatched
  <2> QED BY <2>2 DEF Unwatched, StepOf, Ended, KeyFor
<1>4. PlaceOK'
  BY <1>a, <1>c, StoreAssumption DEF PlaceOK, StepOf, Own, KeyFor
<1>5. OldIds'
  BY <1>a, <1>b, <1>c, StoreAssumption DEF OldIds, StepOf, Own
<1>6. NewIds'
  BY <1>a, <1>c DEF NewIds, StepOf
<1>7. GapOK'
  BY <1>a, StoreAssumption DEF GapOK, StepOf, Own
<1> QED BY <1>1, <1>2, <1>3, <1>4, <1>5, <1>6, <1>7 DEF StoreInv

\* The batch of one of the four calls that write an entry.
Batch(o, carried, keys, lost) ==
  /\ Exec(o, carried, keys, lost)
  /\ carried = IF o \in Writes THEN {o} ELSE base[o] \cup {o}
  /\ Entry(place[o]) \in keys
  /\ pc[o] = IF o \in Writes THEN "new" ELSE "read"
  /\ lost \in {"failing", "failed"}
  /\ lost = "failing" => o \in Updates
  /\ IF o \in Swaps THEN /\ Version(KeyFor(o)) \in keys
                         /\ version' = [version EXCEPT ![KeyFor(o)] = expected[o] + 1]
                    ELSE UNCHANGED version

\* Such a batch overwrites nothing that is live, and its version is a new one, if its
\* watch, where it has one, is on.
LEMMA BatchStep ==
  ASSUME StoreInv, TypeOK', NEW o \in Changes, NEW carried, NEW keys, NEW lost,
         Batch(o, carried, keys, lost)
  PROVE  StoreInv'
<1> USE StoreAssumption DEF Calls, Changes, Makers, ByKey
<1>a. /\ TypeOK /\ NoLostUpdate /\ IndexComplete /\ OnePerVersion /\ PlaceOK /\ OldIds /\ NewIds
      /\ GapOK /\ (\A u \in Updates : UpdateOK(u)) /\ \A s \in Swaps : SwapOK(s)
  BY DEF StoreInv
<1> DEFINE i == place[o]
<1>b. /\ Conn[o] \notin dirty /\ stored' = stored \cup {i}
      /\ content' = [content EXCEPT ![i] = carried]
      /\ index' = index \cup {i} /\ orphaned' = orphaned \ {i}
      /\ watched' = [watched EXCEPT ![Conn[o]] = {}]
      /\ dirty' = dirty \cup (Watchers(keys) \ {Conn[o]})
      /\ torn' = torn \cup (Bared(Conn[o]) \ {o})
      /\ clobbered' = clobbered \cup Overwritten(o, carried)
      /\ revived' = IF Blind(o) /\ i \notin stored /\ content[i] # {}
                      THEN revived \cup {i} ELSE revived
      /\ UNCHANGED <<dropped, attempt, expected, place, base, listing>>
      /\ pc' = [pc EXCEPT ![o] = "done"] \/ pc' = [pc EXCEPT ![o] = lost]
  BY DEF Batch, Exec, Goto, locals
<1>c. /\ carried = IF o \in Writes THEN {o} ELSE base[o] \cup {o}
      /\ Entry(i) \in keys /\ pc[o] = IF o \in Writes THEN "new" ELSE "read"
      /\ lost \in {"failing", "failed"}
      /\ lost = "failing" => o \in Updates
      /\ o \in carried
  BY DEF Batch
<1>d. o \in Swaps => /\ Version(KeyFor(o)) \in keys
                     /\ version' = [version EXCEPT ![KeyFor(o)] = expected[o] + 1]
  BY DEF Batch
<1>e. o \notin Swaps => UNCHANGED version
  BY DEF Batch
<1>f. i \in Ids /\ Conn[o] \in Conns /\ pc[o] \notin Ended
  BY <1>a, <1>c DEF TypeOK, Ended
<1>g. Known' = Known \cup {i}
  BY <1>a, <1>b, <1>c, <1>f DEF Known, TypeOK
<1>1. \A p \in Changes : pc'[p] = "done" => pc[p] = "done" \/ p = o
  BY <1>a, <1>b DEF TypeOK
<1>2. /\ \A p \in Calls \ {o} : pc'[p] = pc[p]
      /\ pc'[o] \in {"done", "failed"} \/ o \in Updates
  BY <1>a, <1>b, <1>c DEF TypeOK
\* An entry that is made was unknown, and one that is changed with a watch is there.
<1>3. o \in Writes => i = Target[o] /\ i \notin Known
  BY <1>a, <1>f, <1>c DEF PlaceOK, NewIds
<1>4. o \in Updates \ torn => i \in stored /\ Live(i) \subseteq base[o]
  BY <1>a, <1>b, <1>c DEF UpdateOK, Clean
<1>5. ~Blind(o) => i \notin Known \/ i \in stored
  BY <1>3, <1>4 DEF Blind
\* Nothing that is live is lost.
<1>6. \A p \in Live(i) : p \in carried \/ p \in clobbered'
  <2> SUFFICES ASSUME NEW p \in Live(i), p \notin carried PROVE p \in clobbered'
    OBVIOUS
  <2>1. p \in Made({i}) /\ i \in Known
    BY <1>a DEF Live, Made, OldIds
  <2>2. o \notin Writes
    BY <1>3, <2>1
  <2>3. Blind(o)
    BY <1>4, <1>c, <2>2 DEF Blind
  <2>4. p \in Swaps => o \in Sets \cup torn
    <3> SUFFICES ASSUME p \in Swaps, o \in Swaps, o \notin torn PROVE FALSE
      BY <2>2, <2>3 DEF Blind
    <3> QED BY <1>a, <1>b, <1>c, <2>2 DEF SwapOK, Clean
  <2> QED BY <1>b, <2>1, <2>3, <2>4 DEF Overwritten
<1>7. NoLostUpdate'
  <2> SUFFICES ASSUME NEW p \in Changes, pc'[p] = "done", p \notin dropped' \cup clobbered'
               PROVE  place'[p] \in stored' /\ p \in content'[place'[p]]
    BY DEF NoLostUpdate
  <2>1. place'[p] = place[p] /\ place[p] \in Ids
    BY <1>a, <1>b DEF TypeOK
  <2>2. CASE p = o
    BY <1>a, <1>b, <1>c, <1>f, <2>2 DEF TypeOK
  <2>3. CASE p # o
    <3>1. pc[p] = "done" /\ p \notin dropped \cup clobbered
      BY <1>1, <1>b, <2>3
    <3>2. place[p] \in stored /\ p \in content[place[p]]
      BY <1>a, <3>1 DEF NoLostUpdate
    <3>3. place[p] = i => p \in carried
      BY <1>6, <3>1 DEF Live
    <3> QED BY <1>a, <1>b, <2>1, <3>2, <3>3 DEF TypeOK
  <2> QED BY <2>2, <2>3
<1>8. IndexComplete'
  BY <1>a, <1>b DEF IndexComplete
<1>9. PlaceOK'
  BY <1>a, <1>b, <1>g DEF PlaceOK, KeyFor
<1>10. OldIds'
  BY <1>a, <1>b, <1>c, <1>g, <1>1, <1>2 DEF OldIds
<1>11. NewIds'
  <2> SUFFICES ASSUME NEW p \in Makers, pc'[p] \notin Ended PROVE Target[p] \notin Known'
    BY DEF NewIds
  <2>1. p # o
    BY <1>2 DEF Ended
  <2>2. pc[p] \notin Ended /\ Target[p] \notin Known
    BY <1>a, <1>2, <2>1 DEF NewIds
  <2>3. Target[p] # i
    <3>1. i = Target[o] \/ i \in Known
      BY <1>a, <1>c DEF PlaceOK, OldIds
    <3>2. o \in Updates => i \in Known
      BY <1>a, <1>c DEF OldIds
    <3> QED BY <2>1, <2>2, <3>1, <3>2
  <2> QED BY <1>g, <2>2, <2>3
<1>12. GapOK'
  <2>1. revived \subseteq revived' /\ (i \in Known /\ i \notin stored => i \in revived')
    BY <1>b, <1>5 DEF Known
  <2>2. revived' \subseteq stored'
    BY <1>a, <1>b DEF GapOK
  <2>3. ASSUME NEW d \in Deletes, pc'[d] = "deleted", place'[d] \in stored'
        PROVE  place'[d] \in revived'
    <3>1. d # o /\ pc[d] = "deleted" /\ place'[d] = place[d] /\ place[d] \in Known
      BY <1>a, <1>2, <1>b, <2>3 DEF OldIds
    <3> QED BY <1>a, <1>b, <2>1, <2>3, <3>1 DEF GapOK
  <2>4. ASSUME NEW m \in Sweeps, pc'[m] = "missing"
        PROVE  listing'[m] \cap stored' \subseteq revived'
    <3>1. m # o /\ pc[m] = "missing" /\ listing'[m] = listing[m] /\ listing[m] \subseteq Known
      BY <1>a, <1>2, <1>b, <2>4 DEF OldIds
    <3> QED BY <1>a, <1>b, <2>1, <2>4, <3>1 DEF GapOK
  <2> QED BY <2>2, <2>3, <2>4 DEF GapOK
\* The other calls' watches on the same connection go, and those on another are touched.
<1>13. StepOf({o})
  <2>1. \A p \in (Updates \cup Swaps) \ {o} : pc[p] \in Watching => Steady(p)
    BY <1>a, <1>b, <1>f DEF Steady, Bared, TypeOK
  <2> QED BY <1>b, <1>2, <1>f, <2>1 DEF StepOf
<1>14. \A p \in (Updates \cup Swaps) \ {o} : pc[p] \in Watching /\ Clean(p)' =>
         watched[Conn[p]] \cap keys = {}
  BY <1>a, <1>b DEF Clean, Bared, Watchers, TypeOK
<1>15. \A k \in Keys : version[k] <= version'[k] \/ Unwatched(k)'
  <2>1. CASE o \in Swaps
    <3>1. o \in torn \/ version[KeyFor(o)] = expected[o]
      BY <1>a, <1>b, <1>c, <2>1 DEF SwapOK, Clean
    <3>2. o \in torn => Unwatched(KeyFor(o))'
      BY <1>b, <1>2, <2>1 DEF Unwatched, KeyFor
    <3>3. \A k \in Keys : /\ version[k] \in Nat /\ expected[o] \in Nat
                          /\ version'[k] = IF k = KeyFor(o) THEN expected[o] + 1 ELSE version[k]
      BY <1>a, <1>d, <2>1 DEF TypeOK
    <3> QED BY <3>1, <3>2, <3>3
  <2>2. CASE o \notin Swaps
    BY <1>a, <1>e, <2>2 DEF TypeOK
  <2> QED BY <2>1, <2>2
<1>16. (\A u \in Updates \ {o} : UpdateOK(u)') /\ (\A s \in Swaps \ {o} : SwapOK(s)')
  <2>1. ASSUME NEW u \in Updates \ {o}, pc[u] \in Watching, Clean(u)',
               Entry(place[u]) \in watched[Conn[u]]
        PROVE  /\ place[u] \in stored => place[u] \in stored'
               /\ Live(place[u])' \subseteq Live(place[u])
    BY <1>1, <1>14, <1>b, <1>c, <2>1 DEF Live
  <2>2. ASSUME NEW s \in Swaps \ {o}, pc[s] \in Watching, Clean(s)',
               Version(KeyFor(s)) \in watched[Conn[s]]
        PROVE  /\ version'[KeyFor(s)] = version[KeyFor(s)]
               /\ (Live(place[s]) \cap Swaps)' \subseteq Live(place[s])
    <3>1. o \in Swaps => KeyFor(s) # KeyFor(o)
      BY <1>14, <1>d, <2>2
    <3>2. o \in Swaps => place[s] # place[o]
      BY <1>a, <2>2, <3>1 DEF PlaceOK
    <3>3. version'[KeyFor(s)] = version[KeyFor(s)]
      BY <1>a, <1>d, <1>e, <2>2, <3>1 DEF TypeOK, KeyFor
    <3>4. (Live(place[s]) \cap Swaps)' \subseteq Live(place[s])
      BY <1>1, <1>b, <3>2 DEF Live
    <3> QED BY <3>3, <3>4
  <2>3. {o} \in SUBSET Calls
    OBVIOUS
  <2> QED BY <1>13, <1>15, <2>1, <2>2, <2>3, OthersOK
<1>17. o \in Updates => UpdateOK(o)'
  BY <1>a, <1>b, <1>c DEF UpdateOK, TypeOK
<1>18. o \in Swaps => SwapOK(o)'
  BY <1>a, <1>b, <1>c, <1>d, <1>2 DEF SwapOK, TypeOK, KeyFor, Watching
<1>19. OnePerVersion'
  <2> SUFFICES ASSUME NEW s \in Swaps, NEW t \in Swaps, pc'[s] = "done", pc'[t] = "done",
                      KeyFor(s) = KeyFor(t), expected[s] = expected[t], s # t
               PROVE  Unwatched(KeyFor(s))'
    BY <1>b DEF OnePerVersion, Unwatched, KeyFor
  <2>1. \A k : Unwatched(k) => Unwatched(k)'
    BY <1>b, <1>c, <1>2, <1>f DEF Unwatched, Ended, KeyFor
  <2>2. ASSUME s # o, t # o PROVE Unwatched(KeyFor(s))
    BY <1>a, <1>1, <2>2 DEF OnePerVersion, Unwatched
  <2>3. ASSUME o \in {s, t}, o \notin torn PROVE Unwatched(KeyFor(s))
    <3>1. version[KeyFor(o)] = expected[o]
      BY <1>a, <1>b, <1>c, <2>3 DEF SwapOK, Clean
    <3>2. ASSUME NEW x \in {s, t} \ {o} PROVE Unwatched(KeyFor(s))
      BY <1>a, <1>1, <2>3, <3>1, <3>2 DEF SwapOK, TypeOK
    <3> QED BY <3>2
  <2>4. ASSUME o \in {s, t}, o \in torn PROVE Unwatched(KeyFor(s))'
    BY <1>b, <2>4 DEF Unwatched, KeyFor
  <2> QED BY <2>1, <2>2, <2>3, <2>4
<1> QED BY <1>7, <1>8, <1>9, <1>10, <1>11, <1>12, <1>16, <1>17, <1>18, <1>19 DEF StoreInv

-----------------------------------------------------------------------------
\* The commands that change what a connection watches leave the other calls' watches,
\* or take them away.
LEMMA LinksSteady ==
  ASSUME TypeOK, NEW o \in Calls, NEW key,
         Watch(o, key) \/ Unwatch(o) \/ UNCHANGED links
  PROVE  /\ \A p \in (Updates \cup Swaps) \ {o} : pc[p] \in Watching => Steady(p)
         /\ torn \ {o} \subseteq torn'
  BY StoreAssumption DEF TypeOK, Watch, Unwatch, Bared, Steady, links, Calls, Changes, Makers,
    ByKey

\* A step of one call that changes nothing on the server.
LEMMA OneQuietStep ==
  ASSUME StoreInv, TypeOK', NEW o \in Calls, NEW key, NEW phase, pc[o] \notin Ended,
         Watch(o, key) \/ Unwatch(o) \/ UNCHANGED links,
         Goto(o, phase), o \in Changes => phase # "done", UNCHANGED server,
         UNCHANGED attempt \/ \E n : o \in Updates /\ attempt' = [attempt EXCEPT ![o] = n],
         UNCHANGED expected \/ \E n : o \in Swaps /\ expected' = [expected EXCEPT ![o] = n],
         UNCHANGED base \/ \E n : o \in Changes /\ base' = [base EXCEPT ![o] = n],
         UNCHANGED place \/ \E n : o \in ByKey /\ place' = [place EXCEPT ![o] = n],
         UNCHANGED listing \/ \E n : listing' = [listing EXCEPT ![o] = n],
         Own(o)
  PROVE  StoreInv'
<1> USE StoreAssumption DEF Calls, Changes, Makers, ByKey
<1>1. TypeOK
  BY DEF StoreInv
<1>2. StepOf({o})
  <2>1. /\ \A p \in (Updates \cup Swaps) \ {o} : pc[p] \in Watching => Steady(p)
        /\ torn \ {o} \subseteq torn'
    BY <1>1, LinksSteady
  <2>2. \A p \in Calls \ {o} : pc'[p] = pc[p]
    BY <1>1 DEF TypeOK, Goto
  <2>3. /\ \A u \in Updates \ {o} : attempt'[u] = attempt[u]
        /\ \A s \in Swaps \ {o} : expected'[s] = expected[s]
        /\ \A p \in Changes \ {o} : base'[p] = base[p]
        /\ \A p \in (Changes \cup Deletes) \ {o} : place'[p] = place[p]
        /\ \A p \in (ByKey \cup Sweeps) \ {o} : listing'[p] = listing[p]
    BY <1>1 DEF TypeOK
  <2> QED BY <2>1, <2>2, <2>3 DEF StepOf
<1>3. \A p \in {o} \cap Changes : pc'[p] # "done"
  BY <1>1 DEF TypeOK, Goto
<1>4. {o} \in SUBSET Calls /\ \A p \in {o} : Own(p)
  OBVIOUS
<1> QED BY <1>2, <1>3, <1>4, QuietStep

\* A batch keeps the types, whether it is executed or not.
LEMMA ExecTypes ==
  ASSUME TypeOK, NEW o \in Calls, NEW carried \in SUBSET Calls, NEW keys,
         NEW lost \in Phases, NEW phase \in Phases, version' \in [Keys -> Nat],
         (o \in Changes /\ Exec(o, carried, keys, lost)) \/ ExecNull(o, phase)
  PROVE  TypeOK'
<1> USE StoreAssumption DEF TypeOK, Goto, locals, Changes, Makers, ByKey, Calls
<1>1. CASE o \in Changes /\ Exec(o, carried, keys, lost)
  BY <1>1 DEF Exec, Bared, Watchers, Overwritten, Made, Phases, Ended, Watching
<1>2. CASE ExecNull(o, phase)
  BY <1>2 DEF ExecNull, Unwatch, Bared, server, history
<1> QED BY <1>1, <1>2

\* Every step keeps the types.
LEMMA TypeStep == ASSUME StoreInv, [Next]_vars PROVE TypeOK'
<1>a. TypeOK /\ \A u \in Updates : UpdateOK(u)
  BY DEF StoreInv
<1> USE <1>a, StoreAssumption DEF TypeOK, Goto, server, history, links, locals, Changes, Makers,
      ByKey, Calls, Phases, Ended, Watching
<1>1. ASSUME NEW w \in Writes, Write(w) PROVE TypeOK'
  <2>1. {w} \in SUBSET Calls /\ "failed" \in Phases /\ "void" \in Phases
    OBVIOUS
  <2>2. \/ Exec(w, {w}, {Entry(place[w])}, "failed") /\ UNCHANGED version
        \/ ExecNull(w, "void")
    BY <1>1 DEF Write
  <2>3. CASE Exec(w, {w}, {Entry(place[w])}, "failed") /\ UNCHANGED version
    BY <2>1, <2>3, ExecTypes
  <2>4. CASE ExecNull(w, "void")
    <3>1. UNCHANGED version
      BY <2>4 DEF ExecNull
    <3> QED BY <2>1, <2>4, <3>1, ExecTypes
  <2> QED BY <2>2, <2>3, <2>4
<1>2. ASSUME NEW d \in Deletes, Del(d) PROVE TypeOK'
  BY <1>2 DEF Del, Begin, Drop, Made, Watchers
<1>3. ASSUME NEW d \in Deletes, Srem(d) PROVE TypeOK'
  BY <1>3 DEF Srem
<1>4. ASSUME NEW u \in Updates, UpdateWatch(u) PROVE TypeOK'
  BY <1>4 DEF UpdateWatch, Begin, Watch, RedisKeys, Entry
<1>5. ASSUME NEW u \in Updates, UpdateGet(u) PROVE TypeOK'
  BY <1>5 DEF UpdateGet
<1>6. ASSUME NEW u \in Updates, UpdateExec(u) PROVE TypeOK'
  <2>1. base[u] \cup {u} \in SUBSET Calls /\ "failing" \in Phases /\ "aborted" \in Phases
    OBVIOUS
  <2>2. \/ Exec(u, base[u] \cup {u}, {Entry(place[u])}, "failing") /\ UNCHANGED version
        \/ ExecNull(u, "aborted")
        \/ Goto(u, "failing") /\ UNCHANGED <<server, links, locals>>
    BY <1>6 DEF UpdateExec
  <2>3. CASE Exec(u, base[u] \cup {u}, {Entry(place[u])}, "failing") /\ UNCHANGED version
    BY <2>1, <2>3, ExecTypes
  <2>4. CASE ExecNull(u, "aborted")
    <3>1. UNCHANGED version
      BY <2>4 DEF ExecNull
    <3> QED BY <2>1, <2>4, <3>1, ExecTypes
  <2>5. CASE Goto(u, "failing") /\ UNCHANGED <<server, links, locals>>
    BY <2>5
  <2> QED BY <2>2, <2>3, <2>4, <2>5
<1>7. ASSUME NEW u \in Updates, UpdateRetry(u) PROVE TypeOK'
  <2>1. attempt[u] \in Nat /\ attempt[u] < MaxRetries
    BY <1>7 DEF UpdateRetry, UpdateOK
  <2>2. attempt[u] + 1 \in 0..MaxRetries
    BY <2>1
  <2> QED BY <1>7, <2>2 DEF UpdateRetry, SafeUnwatch, Unwatch, Bared
<1>8. ASSUME NEW u \in Updates, UpdateFail(u) PROVE TypeOK'
  BY <1>8 DEF UpdateFail, SafeUnwatch, Unwatch, Bared
<1>9. ASSUME NEW s \in Swaps, SwapWatch(s) PROVE TypeOK'
  BY <1>9 DEF SwapWatch, Begin, Watch, RedisKeys, Version, KeyFor
<1>10. ASSUME NEW s \in Swaps, SwapAgain(s) PROVE TypeOK'
  BY <1>10 DEF SwapAgain, Watch, RedisKeys, Version, KeyFor
<1>11. ASSUME NEW s \in Swaps, SwapGet(s) PROVE TypeOK'
  BY <1>11 DEF SwapGet
<1>12. ASSUME NEW s \in Swaps, SwapRefuse(s) PROVE TypeOK'
  BY <1>12 DEF SwapRefuse, Unwatch, Bared
<1>13. ASSUME NEW o \in ByKey, FindIds(o) PROVE TypeOK'
  BY <1>13 DEF FindIds, Begin
<1>14. ASSUME NEW o \in ByKey, FindLatest(o) PROVE TypeOK'
  <2>1. /\ Goto(o, "read") /\ UNCHANGED <<server, links, attempt, expected, listing>>
        /\ \E i \in Ids, S \in SUBSET Calls : /\ place' = [place EXCEPT ![o] = i]
                                             /\ base' = [base EXCEPT ![o] = S]
    BY <1>14 DEF FindLatest
  <2> QED BY <2>1
<1>15. ASSUME NEW s \in Swaps, SwapExec(s) PROVE TypeOK'
  <2> DEFINE keys == {Entry(place[s]), Version(KeyFor(s))}
  <2>1. base[s] \cup {s} \in SUBSET Calls /\ "failed" \in Phases /\ "aborted" \in Phases
    OBVIOUS
  <2>2. \/ /\ Exec(s, base[s] \cup {s}, keys, "failed")
           /\ version' = [version EXCEPT ![KeyFor(s)] = expected[s] + 1]
        \/ ExecNull(s, "aborted")
    BY <1>15 DEF SwapExec
  <2>3. version' \in [Keys -> Nat]
    BY <2>2 DEF ExecNull
  <2>4. CASE Exec(s, base[s] \cup {s}, keys, "failed")
    <3> HIDE DEF keys
    <3> QED BY <2>1, <2>3, <2>4, ExecTypes
  <2>5. CASE ExecNull(s, "aborted")
    BY <2>1, <2>3, <2>5, ExecTypes
  <2> QED BY <2>2, <2>4, <2>5
<1>16. ASSUME NEW o \in Sets, SetExec(o) PROVE TypeOK'
  <2>1. base[o] \cup {o} \in SUBSET Calls /\ "failed" \in Phases /\ "void" \in Phases
    OBVIOUS
  <2>2. \/ Exec(o, base[o] \cup {o}, {Entry(place[o])}, "failed") /\ UNCHANGED version
        \/ ExecNull(o, "void")
    BY <1>16 DEF SetExec
  <2>3. CASE Exec(o, base[o] \cup {o}, {Entry(place[o])}, "failed") /\ UNCHANGED version
    BY <2>1, <2>3, ExecTypes
  <2>4. CASE ExecNull(o, "void")
    <3>1. UNCHANGED version
      BY <2>4 DEF ExecNull
    <3> QED BY <2>1, <2>4, <3>1, ExecTypes
  <2> QED BY <2>2, <2>3, <2>4
<1>17. ASSUME NEW o \in Calls, Throw(o) PROVE TypeOK'
  BY <1>17 DEF Throw
<1>18. ASSUME NEW m \in Sweeps, List(m) PROVE TypeOK'
  BY <1>18 DEF List, Begin
<1>19. ASSUME NEW m \in Sweeps, Choose(m) PROVE TypeOK'
  BY <1>19 DEF Choose
<1>20. ASSUME NEW m \in Sweeps, Sweep(m) PROVE TypeOK'
  <2>1. CASE ExecNull(m, "void")
    BY <2>1 DEF ExecNull, Unwatch, Bared
  <2>2. CASE Delete(m)
    <3>1. watched' \in [Conns -> SUBSET RedisKeys] /\ dirty' \in SUBSET Conns
          /\ torn' \in SUBSET (Updates \cup Swaps)
      BY <2>2 DEF Delete, Bared, Watchers
    <3>2. SweepEnd(m, listing[m]) /\ index' \subseteq index /\ UNCHANGED orphaned
      BY <2>2 DEF Delete
    <3> QED BY <3>1, <3>2 DEF SweepEnd, Made
  <2> QED BY <1>20, <2>1, <2>2 DEF Sweep
<1>21. ASSUME NEW m \in Sweeps, Clear(m) PROVE TypeOK'
  <2>1. /\ SweepEnd(m, listing[m]) /\ index' \subseteq index /\ UNCHANGED <<watched, torn>>
        /\ dirty' \subseteq Conns /\ orphaned' \subseteq orphaned \cup stored'
    BY <1>21 DEF Clear, Watchers
  <2> QED BY <2>1 DEF SweepEnd, Made
<1>22. ASSUME NEW i \in Ids, Expire(i) PROVE TypeOK'
  BY <1>22 DEF Expire, Drop, Watchers, Made
<1>23. ASSUME NEW c \in Conns, Reconnect(c) PROVE TypeOK'
  BY <1>23 DEF Reconnect, Bared
<1>24. CASE UNCHANGED vars
  BY <1>24 DEF vars
<1> QED BY <1>1, <1>2, <1>3, <1>4, <1>5, <1>6, <1>7, <1>8, <1>9, <1>10, <1>11, <1>12, <1>13,
    <1>14, <1>15, <1>16, <1>17, <1>18, <1>19, <1>20, <1>21, <1>22, <1>23, <1>24 DEF Next,
    UpdateStep, SwapStep

\* A batch that is not executed, as a watched key was touched.
LEMMA NullStep ==
  ASSUME StoreInv, TypeOK', NEW o \in Calls, NEW phase \in {"aborted", "void"},
         ExecNull(o, phase), pc[o] \notin Ended
  PROVE  StoreInv'
<1> USE StoreAssumption DEF Calls, Changes, Makers, ByKey
<1>1. /\ TypeOK /\ PlaceOK /\ OldIds /\ \A u \in Updates : UpdateOK(u)
  BY DEF StoreInv
<1>2. /\ Unwatch(o) /\ Goto(o, phase) /\ UNCHANGED server
      /\ UNCHANGED <<attempt, expected, place, base, listing>>
  BY DEF ExecNull, locals
<1>3. pc'[o] = phase /\ Known' = Known
  BY <1>1, <1>2 DEF Goto, TypeOK, server, Known
<1>4. Own(o)
  BY <1>1, <1>2, <1>3 DEF Own, UpdateOK, SwapOK, PlaceOK, OldIds, Ended, Watching
<1> QED BY <1>2, <1>4, OneQuietStep

\* Every step keeps the invariant.
LEMMA StoreStep == ASSUME StoreInv, [Next]_vars PROVE StoreInv'
<1>a. /\ TypeOK /\ NoLostUpdate /\ IndexComplete /\ OnePerVersion /\ PlaceOK /\ OldIds /\ NewIds
      /\ GapOK /\ (\A u \in Updates : UpdateOK(u)) /\ \A s \in Swaps : SwapOK(s)
  BY DEF StoreInv
<1>b. TypeOK'
  BY TypeStep
<1>c. UNCHANGED content => Known' = Known
  BY DEF Known
<1> USE StoreAssumption DEF Calls, Changes, Makers, ByKey
<1>1. ASSUME NEW w \in Writes, Write(w) PROVE StoreInv'
  <2>1. CASE Exec(w, {w}, {Entry(place[w])}, "failed") /\ UNCHANGED version
    <3>1. Batch(w, {w}, {Entry(place[w])}, "failed")
      BY <1>1, <2>1 DEF Batch, Write, Begin
    <3> QED BY <1>b, <3>1, BatchStep
  <2>2. CASE ExecNull(w, "void")
    <3>1. pc[w] \notin Ended
      BY <1>1 DEF Write, Begin, Ended
    <3> QED BY <1>b, <2>2, <3>1, NullStep
  <2> QED BY <1>1, <2>1, <2>2 DEF Write
<1>2. ASSUME NEW d \in Deletes, Del(d) PROVE StoreInv'
  <2>1. /\ pc[d] = "new" /\ content[place[d]] # {} /\ place[d] \in Ids
        /\ Goto(d, "deleted") /\ pc'[d] = "deleted"
    BY <1>a, <1>2 DEF Del, Begin, Goto, TypeOK
  <2>2. CASE Drop(place[d])
    <3>1. /\ stored' = stored \ {place[d]} /\ dropped' = dropped \cup Made({place[d]})
          /\ revived' = revived \ {place[d]}
          /\ dirty' = dirty \cup Watchers({Entry(place[d])})
          /\ UNCHANGED <<content, index, version, clobbered, orphaned, watched, torn>>
          /\ UNCHANGED <<attempt, expected, place, base, listing>>
      BY <2>2 DEF Drop, locals
    <3>2. StepOf({d})
      BY <1>a, <2>1, <3>1 DEF StepOf, Steady, Goto, TypeOK, Ended
    <3>3. \A u \in Updates \ {d} :
            pc[u] \in Watching /\ Clean(u)' /\ Entry(place[u]) \in watched[Conn[u]] =>
              place[u] \notin {place[d]} \cap stored
      BY <1>a, <3>1 DEF Clean, Watchers, TypeOK
    <3>4. Own(d)
      BY <1>c, <2>1, <3>1 DEF Own, Known
    <3>5. {d} \in SUBSET Calls /\ {place[d]} \in SUBSET Ids /\ index' \subseteq index
          /\ stored' \subseteq index' \cup orphaned'
      BY <1>a, <2>1, <3>1 DEF IndexComplete
    <3> QED BY <1>b, <3>1, <3>2, <3>3, <3>4, <3>5, GoneStep
  <2>3. CASE place[d] \notin stored /\ UNCHANGED <<server, links, locals>>
    <3>1. Own(d)
      BY <2>1, <2>3 DEF Own, Known, server, locals
    <3> QED BY <1>b, <2>1, <2>3, <3>1, OneQuietStep DEF locals, Ended
  <2> QED BY <1>2, <2>2, <2>3 DEF Del
<1>3. ASSUME NEW d \in Deletes, Srem(d) PROVE StoreInv'
  <2>1. /\ pc[d] = "deleted" /\ pc'[d] = "done" /\ Goto(d, "done") /\ place[d] \in Ids
        /\ index' = index \ {place[d]} /\ orphaned' = orphaned \cup ({place[d]} \cap revived)
        /\ UNCHANGED <<stored, content, version, dropped, clobbered, revived>>
        /\ UNCHANGED <<watched, dirty, torn, attempt, expected, place, base, listing>>
    BY <1>a, <1>3 DEF Srem, Goto, TypeOK, links, locals
  <2>2. StepOf({d})
    BY <1>a, <2>1 DEF StepOf, Steady, Goto, TypeOK, Ended
  <2>3. Own(d)
    BY <2>1 DEF Own
  <2>4. stored' \subseteq index' \cup orphaned'
    BY <1>a, <2>1 DEF IndexComplete, GapOK
  <2>5. Made({}) = {}
    BY DEF Made
  <2>6. {d} \in SUBSET Calls /\ index' \subseteq index /\ {} \in SUBSET Ids
        /\ stored' = stored \ {} /\ revived' = revived \ {} /\ dropped' = dropped \cup Made({})
    BY <2>1, <2>5
  <2> QED BY <1>b, <2>1, <2>2, <2>3, <2>4, <2>6, GoneStep
<1>4. ASSUME NEW u \in Updates, UpdateWatch(u) PROVE StoreInv'
  <2>1. /\ pc[u] \in {"new", "again"} /\ Goto(u, pc'[u]) /\ pc'[u] \in {"watched", "failed"}
        /\ Watch(u, Entry(place[u])) \/ (UNCHANGED links /\ pc'[u] = "failed")
        /\ UNCHANGED server /\ UNCHANGED <<attempt, expected, place, base, listing>>
    BY <1>a, <1>4 DEF UpdateWatch, Begin, Goto, TypeOK, locals
  <2>2. Own(u)
    BY <1>a, <2>1 DEF Own, UpdateOK, Watch, TypeOK
  <2> QED BY <1>b, <2>1, <2>2, OneQuietStep DEF Ended
<1>5. ASSUME NEW u \in Updates, UpdateGet(u) PROVE StoreInv'
  <2>1. /\ pc[u] = "watched" /\ UNCHANGED <<server, links, attempt, expected, place, listing>>
        /\ \/ Goto(u, "failing") /\ UNCHANGED base
           \/ /\ place[u] \in stored /\ base' = [base EXCEPT ![u] = content[place[u]]]
              /\ Goto(u, "read")
    BY <1>5 DEF UpdateGet
  <2>2. Goto(u, pc'[u]) /\ pc'[u] \in {"failing", "read"}
    BY <1>a, <2>1 DEF Goto, TypeOK
  <2>3. UpdateOK(u)'
    <3>1. Live(place[u])' \subseteq content[place[u]]
      BY <1>a, <2>1 DEF Live, NoLostUpdate, Goto, TypeOK, server, history
    <3> QED BY <1>a, <2>1, <2>2, <3>1 DEF UpdateOK, TypeOK, Goto, server, links, Clean
  <2>4. Own(u)
    BY <1>a, <1>c, <2>1, <2>2, <2>3 DEF Own, OldIds, server, Goto, TypeOK
  <2> QED BY <1>b, <2>1, <2>2, <2>4, OneQuietStep DEF Ended
<1>6. ASSUME NEW u \in Updates, UpdateExec(u) PROVE StoreInv'
  <2>1. pc[u] = "read"
    BY <1>6 DEF UpdateExec
  <2>2. CASE Exec(u, base[u] \cup {u}, {Entry(place[u])}, "failing") /\ UNCHANGED version
    <3>1. Batch(u, base[u] \cup {u}, {Entry(place[u])}, "failing")
      BY <2>1, <2>2 DEF Batch
    <3> QED BY <1>b, <3>1, BatchStep
  <2>3. CASE ExecNull(u, "aborted")
    BY <1>b, <2>1, <2>3, NullStep DEF Ended
  <2>4. CASE Goto(u, "failing") /\ UNCHANGED <<server, links, locals>>
    <3>1. Own(u)
      BY <1>a, <2>1, <2>4 DEF Own, UpdateOK, Goto, TypeOK, locals
    <3> QED BY <1>b, <2>1, <2>4, <3>1, OneQuietStep DEF Ended, locals
  <2> QED BY <1>6, <2>2, <2>3, <2>4 DEF UpdateExec
<1>7. ASSUME NEW u \in Updates, UpdateRetry(u) PROVE StoreInv'
  <2>1. /\ pc[u] = "aborted"
        /\ Unwatch(u) \/ UNCHANGED links
        /\ attempt' = [attempt EXCEPT ![u] = attempt[u] + 1]
        /\ Goto(u, pc'[u]) /\ pc'[u] = IF attempt[u] + 1 < MaxRetries THEN "again" ELSE "conflict"
        /\ UNCHANGED <<server, expected, place, base, listing>>
    BY <1>a, <1>7 DEF UpdateRetry, SafeUnwatch, Goto, TypeOK
  <2>2. Own(u)
    BY <1>a, <2>1 DEF Own, UpdateOK, TypeOK
  <2> QED BY <1>b, <2>1, <2>2, OneQuietStep DEF Ended
<1>8. ASSUME NEW u \in Updates, UpdateFail(u) PROVE StoreInv'
  <2>1. /\ pc[u] = "failing"
        /\ Unwatch(u) \/ UNCHANGED links
        /\ Goto(u, "failed") /\ pc'[u] = "failed" /\ UNCHANGED server
        /\ UNCHANGED <<attempt, expected, place, base, listing>>
    BY <1>a, <1>8 DEF UpdateFail, SafeUnwatch, Goto, TypeOK, locals
  <2>2. Own(u)
    BY <1>a, <2>1 DEF Own, UpdateOK
  <2> QED BY <1>b, <2>1, <2>2, OneQuietStep DEF Ended
<1>9. ASSUME NEW s \in Swaps, SwapWatch(s) PROVE StoreInv'
  <2>1. /\ pc[s] = "new" /\ Watch(s, Version(KeyFor(s)))
        /\ Goto(s, "watched") /\ pc'[s] = "watched" /\ UNCHANGED server
        /\ UNCHANGED <<attempt, place, base, listing>>
        /\ \E n : expected' = [expected EXCEPT ![s] = n]
    BY <1>a, <1>9 DEF SwapWatch, Begin, Goto, TypeOK
  <2>2. Own(s)
    BY <1>a, <1>c, <2>1 DEF Own, SwapOK, Watch, PlaceOK, OldIds, TypeOK, server, KeyFor
  <2> QED BY <1>b, <2>1, <2>2, OneQuietStep DEF Ended
<1>10. ASSUME NEW s \in Swaps, SwapAgain(s) PROVE StoreInv'
  <2>1. /\ pc[s] = "aborted" /\ Watch(s, Version(KeyFor(s)))
        /\ Goto(s, "watched") /\ pc'[s] = "watched" /\ UNCHANGED server
        /\ UNCHANGED <<attempt, expected, place, base, listing>>
    BY <1>a, <1>10 DEF SwapAgain, Goto, TypeOK, locals
  <2>2. Own(s)
    BY <1>a, <1>c, <2>1 DEF Own, SwapOK, Watch, PlaceOK, OldIds, TypeOK, server, KeyFor
  <2> QED BY <1>b, <2>1, <2>2, OneQuietStep DEF Ended
<1>11. ASSUME NEW s \in Swaps, SwapGet(s) PROVE StoreInv'
  <2>1. /\ pc[s] = "watched" /\ Goto(s, pc'[s]) /\ UNCHANGED server /\ UNCHANGED links
        /\ pc'[s] = IF version[KeyFor(s)] = expected[s] THEN "versioned" ELSE "refusing"
        /\ UNCHANGED <<attempt, expected, place, base, listing>>
    BY <1>a, <1>11 DEF SwapGet, Goto, TypeOK, locals
  <2>2. SwapOK(s)'
    BY <1>a, <2>1 DEF SwapOK, Clean, Watching, server, links, KeyFor
  <2>3. Own(s)
    BY <1>a, <1>c, <2>1, <2>2 DEF Own, PlaceOK, OldIds, server
  <2>4. pc'[s] # "done" /\ pc[s] \notin Ended
    BY <2>1 DEF Ended
  <2> QED BY <1>b, <2>1, <2>3, <2>4, OneQuietStep
<1>12. ASSUME NEW s \in Swaps, SwapRefuse(s) PROVE StoreInv'
  <2>1. /\ pc[s] = "refusing" /\ Unwatch(s) /\ Goto(s, "refused") /\ pc'[s] = "refused"
        /\ UNCHANGED server /\ UNCHANGED <<attempt, expected, place, base, listing>>
    BY <1>a, <1>12 DEF SwapRefuse, Goto, TypeOK, locals
  <2>2. Own(s)
    BY <1>a, <1>c, <2>1 DEF Own, SwapOK, Watching, PlaceOK, OldIds, server
  <2> QED BY <1>b, <2>1, <2>2, OneQuietStep DEF Ended
<1>13. ASSUME NEW o \in ByKey, FindIds(o) PROVE StoreInv'
  <2>1. /\ (pc[o] = "new" /\ o \in Sets) \/ pc[o] = "versioned"
        /\ Goto(o, "listed") /\ pc'[o] = "listed" /\ listing' = [listing EXCEPT ![o] = index]
        /\ UNCHANGED server /\ UNCHANGED links /\ UNCHANGED <<attempt, expected, place, base>>
    BY <1>a, <1>13 DEF FindIds, Begin, Goto, TypeOK
  <2>2. o \in Swaps => SwapOK(o)'
    BY <1>a, <2>1 DEF SwapOK, Clean, Watching, server, links, KeyFor
  <2>3. Own(o)
    BY <1>a, <1>c, <2>1, <2>2 DEF Own, PlaceOK, OldIds, TypeOK, server
  <2> QED BY <1>b, <2>1, <2>3, OneQuietStep DEF Ended
<1>14. ASSUME NEW o \in ByKey, FindLatest(o) PROVE StoreInv'
  <2>1. /\ pc[o] = "listed" /\ Goto(o, "read") /\ pc'[o] = "read"
        /\ UNCHANGED server /\ UNCHANGED links /\ UNCHANGED <<attempt, expected, listing>>
    BY <1>a, <1>14 DEF FindLatest, Goto, TypeOK
  \* An entry that was found, with all that is live in it, or a new one.
  <2>2. PICK i \in Ids, carried \in SUBSET Calls :
          /\ place' = [place EXCEPT ![o] = i] /\ base' = [base EXCEPT ![o] = carried]
          /\ \/ i \in Known \cap stored /\ KeyOf[i] = KeyFor(o) /\ carried = content[i]
             \/ i = Target[o] /\ carried = {}
    BY <1>a, <1>14 DEF FindLatest, OldIds, TypeOK
  <2>3. place'[o] = i /\ base'[o] = carried
    BY <1>a, <2>2 DEF TypeOK
  <2>4. \A p \in Changes : pc'[p] = "done" => pc[p] = "done" /\ place'[p] = place[p]
    BY <1>a, <2>1, <2>2 DEF TypeOK, Goto
  <2>5. \A p \in Changes : p \in Live(i)' => p \in carried
    <3>1. ASSUME NEW p \in Changes, p \in Live(i)'
          PROVE  i \in stored /\ i \in Known /\ p \in content[i]
      BY <1>a, <2>1, <2>4, <3>1 DEF Live, NoLostUpdate, OldIds, server, history
    <3>2. i \in Known => i # Target[o]
      BY <1>a, <2>1 DEF NewIds, Ended
    <3> QED BY <2>2, <3>1, <3>2
  <2>6. Live(place[o])' \subseteq carried
    BY <2>3, <2>5 DEF Live
  <2>7. o \in Swaps => SwapOK(o)'
    BY <1>a, <2>1, <2>3, <2>6 DEF SwapOK, Clean, Watching, server, links, KeyFor
  <2>8. KeyOf[place'[o]] = KeyFor(o) /\ (place'[o] = Target[o] \/ place'[o] \in Known')
    BY <1>c, <2>1, <2>2, <2>3 DEF KeyFor, server
  <2>9. Own(o)
    BY <1>a, <1>c, <2>1, <2>7, <2>8 DEF Own, OldIds, server
  <2> QED BY <1>b, <2>1, <2>2, <2>9, OneQuietStep DEF Ended
<1>15. ASSUME NEW s \in Swaps, SwapExec(s) PROVE StoreInv'
  <2>1. pc[s] = "read"
    BY <1>15 DEF SwapExec
  <2>2. CASE ExecNull(s, "aborted")
    BY <1>b, <2>1, <2>2, NullStep DEF Ended
  <2>3. CASE /\ Exec(s, base[s] \cup {s}, {Entry(place[s]), Version(KeyFor(s))}, "failed")
             /\ version' = [version EXCEPT ![KeyFor(s)] = expected[s] + 1]
    <3>1. Batch(s, base[s] \cup {s}, {Entry(place[s]), Version(KeyFor(s))}, "failed")
      BY <2>1, <2>3 DEF Batch
    <3> QED BY <1>b, <3>1, BatchStep
  <2> QED BY <1>15, <2>2, <2>3 DEF SwapExec
<1>16. ASSUME NEW o \in Sets, SetExec(o) PROVE StoreInv'
  <2>1. pc[o] = "read"
    BY <1>16 DEF SetExec
  <2>2. CASE ExecNull(o, "void")
    BY <1>b, <2>1, <2>2, NullStep DEF Ended
  <2>3. CASE Exec(o, base[o] \cup {o}, {Entry(place[o])}, "failed") /\ UNCHANGED version
    <3>1. Batch(o, base[o] \cup {o}, {Entry(place[o])}, "failed")
      BY <2>1, <2>3 DEF Batch
    <3> QED BY <1>b, <3>1, BatchStep
  <2> QED BY <1>16, <2>2, <2>3 DEF SetExec
<1>17. ASSUME NEW o \in Calls \ (Writes \cup Updates), Throw(o) PROVE StoreInv'
  <2>1. /\ pc[o] \notin Ended /\ Goto(o, "failed") /\ pc'[o] = "failed"
        /\ UNCHANGED server /\ UNCHANGED links
        /\ UNCHANGED <<attempt, expected, place, base, listing>>
    BY <1>a, <1>17 DEF Throw, Goto, TypeOK, locals
  <2>2. Own(o)
    BY <1>a, <1>c, <2>1 DEF Own, SwapOK, Watching, PlaceOK, OldIds, server
  <2> QED BY <1>b, <2>1, <2>2, OneQuietStep
<1>18. ASSUME NEW m \in Sweeps, List(m) PROVE StoreInv'
  <2>1. /\ pc[m] = "new" /\ Goto(m, "listed") /\ pc'[m] = "listed"
        /\ listing' = [listing EXCEPT ![m] = index] /\ listing'[m] = index
        /\ UNCHANGED server /\ UNCHANGED links /\ UNCHANGED <<attempt, expected, place, base>>
    BY <1>a, <1>18 DEF List, Begin, Goto, TypeOK
  <2>2. Own(m)
    BY <1>a, <1>c, <2>1 DEF Own, OldIds, server
  <2> QED BY <1>b, <2>1, <2>2, OneQuietStep DEF Ended
<1>19. ASSUME NEW m \in Sweeps, Choose(m) PROVE StoreInv'
  <2>1. /\ pc[m] = "listed" /\ Goto(m, pc'[m]) /\ UNCHANGED server /\ UNCHANGED links
        /\ UNCHANGED <<attempt, expected, place, base>>
    BY <1>a, <1>19 DEF Choose, Goto, TypeOK
  <2>2. PICK S \in SUBSET listing[m] :
          /\ listing' = [listing EXCEPT ![m] = S] /\ listing'[m] = S
          /\ pc'[m] = "missing" => S \cap stored = {}
    BY <1>a, <1>19 DEF Choose, Goto, TypeOK
  <2>3. Own(m)
    BY <1>a, <1>c, <1>19, <2>1, <2>2 DEF Own, OldIds, server
  <2> QED BY <1>b, <2>1, <2>2, <2>3, OneQuietStep DEF Ended
<1>20. ASSUME NEW m \in Sweeps, Sweep(m) PROVE StoreInv'
  <2>1. pc[m] \in {"chosen", "missing"}
    BY <1>20 DEF Sweep
  <2>2. CASE ExecNull(m, "void")
    BY <1>b, <2>1, <2>2, NullStep DEF Ended
  <2>3. CASE Delete(m)
    <3> DEFINE V == listing[m]
               touched == Watchers({Entry(i) : i \in V \cap stored}) \ {Conn[m]}
    <3>1. /\ index' = index \ V /\ stored' = stored \ V /\ dropped' = dropped \cup Made(V)
          /\ revived' = revived \ V /\ listing' = [listing EXCEPT ![m] = {}]
          /\ listing'[m] = {} /\ Goto(m, "done") /\ pc'[m] = "done" /\ V \in SUBSET Ids
          /\ UNCHANGED <<content, version, clobbered, attempt, expected, place, base, orphaned>>
      BY <1>a, <2>3 DEF Delete, SweepEnd, Goto, TypeOK
    <3>2. \/ /\ watched' = [watched EXCEPT ![Conn[m]] = {}]
             /\ dirty' = dirty \cup touched /\ torn' = torn \cup Bared(Conn[m])
          \/ V = {} /\ UNCHANGED links
      BY <2>3 DEF Delete
    <3>3. StepOf({m})
      <4>1. \A p \in Updates \cup Swaps : pc[p] \in Watching => Steady(p)
        BY <1>a, <3>2 DEF Steady, Bared, TypeOK, links
      <4> QED BY <1>a, <2>1, <3>1, <3>2, <4>1 DEF StepOf, Goto, TypeOK, Ended, links
    <3>4. \A u \in Updates \ {m} :
            pc[u] \in Watching /\ Clean(u)' /\ Entry(place[u]) \in watched[Conn[u]] =>
              place[u] \notin V \cap stored
      BY <1>a, <3>2 DEF Clean, Watchers, Bared, TypeOK
    <3>5. Own(m)
      BY <3>1 DEF Own
    <3>6. {m} \in SUBSET Calls /\ index' \subseteq index /\ stored' \subseteq index' \cup orphaned'
      BY <1>a, <3>1 DEF IndexComplete
    <3> QED BY <1>b, <3>1, <3>3, <3>4, <3>5, <3>6, GoneStep
  <2> QED BY <1>20, <2>2, <2>3 DEF Sweep
<1>21. ASSUME NEW m \in Sweeps, Clear(m) PROVE StoreInv'
  <2> DEFINE V == listing[m]
  <2>1. /\ stored' = stored \ V /\ dropped' = dropped \cup Made(V)
        /\ revived' = revived \ V /\ listing' = [listing EXCEPT ![m] = {}]
        /\ listing'[m] = {} /\ Goto(m, "done") /\ pc[m] = "listed" /\ pc'[m] = "done"
        /\ V \in SUBSET Ids /\ watched' = watched /\ torn' = torn
        /\ dirty' = dirty \cup Watchers({Entry(i) : i \in V \cap stored})
        /\ UNCHANGED <<content, version, clobbered, attempt, expected, place, base>>
    BY <1>a, <1>21 DEF Clear, SweepEnd, Goto, TypeOK
  <2>2. StepOf({m})
    BY <1>a, <2>1 DEF StepOf, Steady, Goto, TypeOK, Ended
  <2>3. \A u \in Updates \ {m} :
          pc[u] \in Watching /\ Clean(u)' /\ Entry(place[u]) \in watched[Conn[u]] =>
            place[u] \notin V \cap stored
    BY <1>a, <2>1 DEF Clean, Watchers, TypeOK
  <2>4. Own(m)
    BY <2>1 DEF Own
  <2>5. {m} \in SUBSET Calls /\ index' \subseteq index /\ stored' \subseteq index' \cup orphaned'
    BY <1>a, <1>21 DEF Clear, SweepEnd, IndexComplete
  <2> QED BY <1>b, <2>1, <2>2, <2>3, <2>4, <2>5, GoneStep
<1>22. ASSUME NEW i \in Ids, Expire(i) PROVE StoreInv'
  <2>1. /\ stored' = stored \ {i} /\ dropped' = dropped \cup Made({i})
        /\ revived' = revived \ {i} /\ dirty' = dirty \cup Watchers({Entry(i)})
        /\ UNCHANGED <<content, index, version, clobbered, orphaned, watched, torn, pc>>
        /\ UNCHANGED <<attempt, expected, place, base, listing>>
    BY <1>22 DEF Expire, Drop, locals
  <2>2. StepOf({})
    BY <1>a, <2>1 DEF StepOf, Steady
  <2>3. \A u \in Updates \ {} :
          pc[u] \in Watching /\ Clean(u)' /\ Entry(place[u]) \in watched[Conn[u]] =>
            place[u] \notin {i} \cap stored
    BY <1>a, <2>1 DEF Clean, Watchers, TypeOK
  <2>4. {} \in SUBSET Calls /\ {i} \in SUBSET Ids /\ index' \subseteq index
        /\ stored' \subseteq index' \cup orphaned'
    BY <1>a, <2>1 DEF IndexComplete
  <2> QED BY <1>b, <2>1, <2>2, <2>3, <2>4, GoneStep
<1>23. ASSUME NEW c \in Conns, Reconnect(c) PROVE StoreInv'
  <2>1. /\ watched' = [watched EXCEPT ![c] = {}] /\ dirty' = dirty \ {c}
        /\ torn' = torn \cup Bared(c) /\ UNCHANGED server /\ UNCHANGED pc
        /\ UNCHANGED <<attempt, expected, place, base, listing>>
    BY <1>23 DEF Reconnect, locals
  <2>2. StepOf({})
    BY <1>a, <2>1 DEF StepOf, Steady, Bared, TypeOK
  <2>3. {} \in SUBSET Calls
    OBVIOUS
  <2> QED BY <1>b, <2>1, <2>2, <2>3, QuietStep
<1>24. CASE UNCHANGED vars
  <2>1. StepOf({}) /\ UNCHANGED server /\ {} \in SUBSET Calls
    BY <1>24 DEF StepOf, Steady, vars, links, locals
  <2> QED BY <1>b, <2>1, QuietStep
<1> QED
  <2>1. Deletes \cup Swaps \cup Sets \cup Sweeps \subseteq Calls \ (Writes \cup Updates)
    OBVIOUS
  <2> QED BY <2>1, <1>1, <1>2, <1>3, <1>4, <1>5, <1>6, <1>7, <1>8, <1>9, <1>10, <1>11, <1>12,
    <1>13, <1>14, <1>15, <1>16, <1>17, <1>18, <1>19, <1>20, <1>21, <1>22, <1>23, <1>24
    DEF Next, UpdateStep, SwapStep

\* The invariant holds in every behaviour.
THEOREM StoreInvariance == Spec => []StoreInv
<1>1. Init => StoreInv
  BY StoreInit
<1>2. StoreInv /\ [Next]_vars => StoreInv'
  BY StoreStep
<1> QED BY <1>1, <1>2, PTL DEF Spec

\* The variables keep their types; in particular no update() that has not ended is
\* without an attempt left (update-txn.ts, the loop over attempts).
THEOREM StoreTypeOK == Spec => []TypeOK
<1>1. StoreInv => TypeOK
  BY DEF StoreInv
<1> QED BY <1>1, StoreInvariance, PTL

\* A change that write(), update(), updateWithVersion() or setWithTtl() has reported is
\* lost only with its entry, or to a call that had no watch on the entry: whatever calls
\* and expiries are interleaved with its commands, and on whatever connections.
THEOREM StoreNoLostUpdate == Spec => []NoLostUpdate
<1>1. StoreInv => NoLostUpdate
  BY DEF StoreInv
<1> QED BY <1>1, StoreInvariance, PTL

\* One version of a key is taken by one updateWithVersion() at most, unless one of that
\* key went on though its watch was gone.
THEOREM StoreOnePerVersion == Spec => []OnePerVersion
<1>1. StoreInv => OnePerVersion
  BY DEF StoreInv
<1> QED BY <1>1, StoreInvariance, PTL

\* A stored entry is in the index, although delete() removes the two in two commands;
\* unless a clear() took the index away after it had read it, or a call without a watch
\* brought the entry back between the two commands.
THEOREM StoreIndexComplete == Spec => []IndexComplete
<1>1. StoreInv => IndexComplete
  BY DEF StoreInv
<1> QED BY <1>1, StoreInvariance, PTL

\* repair() (compact.ts) takes no entry away that can be read, save one that a call
\* without a watch has brought back: for any number of calls, whatever they do after it
\* has read.
THEOREM StoreRepairSpares == Spec => RepairSpares
<1>1. StoreInv /\ [Next]_vars => [\A m \in Sweeps : pc[m] = "missing" /\ Sweep(m) =>
        stored \ stored' \subseteq revived]_vars
  BY DEF StoreInv, GapOK, Sweep, Delete, SweepEnd, ExecNull, server
<1> QED BY <1>1, StoreInvariance, PTL DEF Spec, RepairSpares
=============================================================================

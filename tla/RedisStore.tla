----------------------------- MODULE RedisStore -----------------------------
(***************************************************************************)
(* packages/redis: update() (update-txn.ts), compact() and repair()        *)
(* (compact.ts), and the other calls of index.ts. The Redis server is      *)
(* external: each command is atomic, and so is the batch that              *)
(* client.multi() sends at exec(); the watched keys, and the mark that one *)
(* of them was touched, belong to the connection, whatever calls use it. A *)
(* command may fail, with or without its effect. Fields, filters and TTLs  *)
(* are left out, save that an entry may expire; what is read in chunks is  *)
(* read in one, and so is what is deleted in chunks.                       *)
(***************************************************************************)
EXTENDS Naturals, FiniteSets

CONSTANTS Writes, Updates, Deletes,  \* calls about the entry of an id,
          Swaps, Sets,   \* about that of a key: updateWithVersion(), setWithTtl(),
          Sweeps,        \* and about all entries: compact(), repair() or clear()
          Ids, Target,   \* the ids; the one a call is passed, or draws for a new entry
          Keys, KeyOf,   \* the memory keys; the one of each entry
          Conns, Conn,   \* the connections; the one each call's client is
          PartialOk,     \* config.partialOk
          MaxRetries,    \* MAX_RETRIES
          MaxCalls       \* a bound of the model: how many of the calls are made

ByKey == Swaps \cup Sets
Makers == Writes \cup ByKey
Changes == Makers \cup Updates
Calls == Changes \cup Deletes \cup Sweeps

\* Each call is of one kind, and the ids drawn for new entries are new.
ASSUME StoreAssumption ==
  /\ Swaps \cap Sets = {} /\ Writes \cap ByKey = {} /\ Makers \cap Updates = {}
  /\ Changes \cap Deletes = {} /\ (Changes \cup Deletes) \cap Sweeps = {}
  /\ Target \in [Changes \cup Deletes -> Ids] /\ KeyOf \in [Ids -> Keys]
  /\ \A o, p \in Makers : Target[o] = Target[p] => o = p
  /\ Conn \in [Calls -> Conns] /\ PartialOk \in BOOLEAN
  /\ MaxRetries \in Nat \ {0} /\ MaxCalls \in Nat

VARIABLES stored,     \* the entries that exist
          content,    \* the calls whose change an entry carries, or last carried
          index,      \* the ids in the SET of ids
          version,    \* each key's version key
          watched,    \* the keys each connection watches
          dirty,      \* the connections that had a watched key touched
          pc,         \* how far each call is
          attempt,    \* the attempts an update() has used up
          expected,   \* the version an updateWithVersion() was passed
          place,      \* the entry a call is about: findLatestByKey() may change it
          base,       \* the content each call has read
          listing,    \* the ids a call by key or of Sweeps has read or chosen
          torn,       \* history: calls whose watch went before their EXEC
          dropped,    \* history: changes that went with their entry
          clobbered,  \* history: changes overwritten by a call without a watch on the entry
          revived,    \* history: entries that such a call wrote after they had gone
          orphaned    \* history: entries that lost their id in the index, by a clear()
                      \* in two commands or because they were revived

history == <<dropped, clobbered, revived, orphaned>>
server == <<stored, content, index, version, history>>
links == <<watched, dirty, torn>>
locals == <<attempt, expected, place, base, listing>>
vars == <<server, links, pc, locals>>

Entry(i) == <<"entry", i>>
Version(k) == <<"version", k>>
RedisKeys == ({"entry"} \X Ids) \cup ({"version"} \X Keys)
KeyFor(o) == KeyOf[Target[o]]

\* A "void" call returned without an error, and its batch was not executed.
Ended == {"done", "failed", "conflict", "refused", "void"}
Watching == {"watched", "versioned", "listed", "read"}
Phases == {"new", "again", "aborted", "failing", "refusing", "deleted", "chosen", "missing"}
            \cup Watching \cup Ended

TypeOK == /\ {stored, index, revived, orphaned} \subseteq SUBSET Ids
          /\ content \in [Ids -> SUBSET Calls]
          /\ version \in [Keys -> Nat]
          /\ watched \in [Conns -> SUBSET RedisKeys] /\ dirty \in SUBSET Conns
          /\ torn \in SUBSET (Updates \cup Swaps)
          /\ pc \in [Calls -> Phases]
          /\ attempt \in [Updates -> 0..MaxRetries]
          /\ expected \in [Swaps -> Nat]
          /\ place \in [Changes \cup Deletes -> Ids]
          /\ base \in [Changes -> SUBSET Calls]
          /\ listing \in [ByKey \cup Sweeps -> SUBSET Ids]
          /\ {dropped, clobbered} \subseteq SUBSET Changes

Init == /\ stored = {} /\ index = {} /\ torn = {}
        /\ dropped = {} /\ clobbered = {} /\ revived = {} /\ orphaned = {}
        /\ content = [i \in Ids |-> {}]
        /\ version = [k \in Keys |-> 0]
        /\ watched = [c \in Conns |-> {}] /\ dirty = {}
        /\ pc = [o \in Calls |-> "new"]
        /\ attempt = [u \in Updates |-> 0]
        /\ expected = [s \in Swaps |-> 0]
        /\ place = Target
        /\ base = [o \in Changes |-> {}]
        /\ listing = [o \in ByKey \cup Sweeps |-> {}]

-----------------------------------------------------------------------------
\* The call is made.
Begin(o) == pc[o] = "new" /\ Cardinality({p \in Calls : pc[p] # "new"}) < MaxCalls

Goto(o, phase) == pc' = [pc EXCEPT ![o] = phase]

\* The server. A change of a key marks every connection that watches it.
Watchers(keys) == {c \in Conns : watched[c] \cap keys # {}}

\* The calls of connection c whose watch goes with all that c watches.
Bared(c) == {p \in Updates \cup Swaps : Conn[p] = c /\ pc[p] \in Watching}

Watch(o, key) == /\ watched' = [watched EXCEPT ![Conn[o]] = watched[Conn[o]] \cup {key}]
                 /\ torn' = torn \ {o}
                 /\ UNCHANGED dirty

\* UNWATCH drops all that the connection watches, and its mark; so does EXEC.
Unwatch(o) == /\ watched' = [watched EXCEPT ![Conn[o]] = {}]
              /\ dirty' = dirty \ {Conn[o]}
              /\ torn' = torn \cup (Bared(Conn[o]) \ {o})

\* A lost connection comes back, and the server has forgotten what it watched.
Reconnect(c) == /\ watched[c] # {}
                /\ watched' = [watched EXCEPT ![c] = {}]
                /\ dirty' = dirty \ {c}
                /\ torn' = torn \cup Bared(c)
                /\ UNCHANGED <<server, pc, locals>>

\* The changes that entries of S carry.
Made(S) == {o \in Changes : place[o] \in S /\ pc[o] = "done"}

\* Calls by key do not watch the entry, and a torn call watches nothing.
Blind(o) == o \in ByKey \cup torn

\* What o overwrites without having seen it, and is no fault of its check: it made
\* none, or it is an updateWithVersion(), which looks out for its like alone.
Overwritten(o, carried) == {p \in Made({place[o]}) \ carried :
                              Blind(o) /\ (p \in Swaps => o \in Sets \cup torn)}

\* EXEC of a batch that sets the entry and its id in the index; the reply may get lost.
Exec(o, carried, keys, lost) ==
  LET i == place[o]
  IN /\ Conn[o] \notin dirty
     /\ stored' = stored \cup {i}
     /\ content' = [content EXCEPT ![i] = carried]
     /\ index' = index \cup {i}
     /\ watched' = [watched EXCEPT ![Conn[o]] = {}]
     /\ dirty' = dirty \cup (Watchers(keys) \ {Conn[o]})
     /\ torn' = torn \cup (Bared(Conn[o]) \ {o})
     /\ clobbered' = clobbered \cup Overwritten(o, carried)
     /\ revived' = IF Blind(o) /\ i \notin stored /\ content[i] # {}
                     THEN revived \cup {i} ELSE revived
     /\ orphaned' = orphaned \ {i}
     /\ Goto(o, "done") \/ Goto(o, lost)
     /\ UNCHANGED <<dropped, locals>>

\* EXEC on a marked connection: nothing is executed and the reply is null.
ExecNull(o, phase) == /\ Conn[o] \in dirty
                      /\ Unwatch(o)
                      /\ Goto(o, phase)
                      /\ UNCHANGED <<server, locals>>

\* The entry goes, by DEL or by its TTL.
Drop(i) == /\ i \in stored
           /\ stored' = stored \ {i}
           /\ dropped' = dropped \cup Made({i})
           /\ revived' = revived \ {i}
           /\ dirty' = dirty \cup Watchers({Entry(i)})
           /\ UNCHANGED <<content, index, version, clobbered, orphaned, watched, torn, locals>>

-----------------------------------------------------------------------------
\* write(): one batch, whose reply setEntry does not look at.
Write(w) == /\ Begin(w)
            /\ \/ Exec(w, {w}, {Entry(place[w])}, "failed") /\ UNCHANGED version
               \/ ExecNull(w, "void")

\* delete(): DEL, then SREM. An id is made by the write() of its entry, and passed
\* to delete() after that.
Del(d) == /\ Begin(d)
          /\ content[place[d]] # {}
          /\ Goto(d, "deleted")
          /\ \/ Drop(place[d])
             \/ place[d] \notin stored /\ UNCHANGED <<server, links, locals>>

Srem(d) == /\ pc[d] = "deleted"
           /\ Goto(d, "done")
           /\ index' = index \ {place[d]}
           /\ orphaned' = orphaned \cup ({place[d]} \cap revived)
           /\ UNCHANGED <<stored, content, version, dropped, clobbered, revived, links, locals>>

\* A TTL runs out. (That marks the watchers since Redis 6.0.9.)
Expire(i) == Drop(i) /\ UNCHANGED pc

-----------------------------------------------------------------------------
\* Mutant: the entry is not watched.
UpdateUnwatched(u) == /\ Begin(u) \/ pc[u] = "again"
                      /\ Goto(u, "watched")
                      /\ UNCHANGED <<server, links, locals>>

\* update(): WATCH, GET, then MULTI/EXEC; UNWATCH after whatever goes wrong but WATCH.
UpdateWatch(u) == /\ Begin(u) \/ pc[u] = "again"
                  /\ \/ Watch(u, Entry(place[u])) /\ (Goto(u, "watched") \/ Goto(u, "failed"))
                     \/ Goto(u, "failed") /\ UNCHANGED links
                  /\ UNCHANGED <<server, locals>>

\* GET may also fail, and what it returns be corrupt.
UpdateGet(u) == /\ pc[u] = "watched"
                /\ \/ Goto(u, "failing") /\ UNCHANGED base
                   \/ /\ place[u] \in stored
                      /\ base' = [base EXCEPT ![u] = content[place[u]]]
                      /\ Goto(u, "read")
                /\ UNCHANGED <<server, links, attempt, expected, place, listing>>

UpdateExec(u) ==
  /\ pc[u] = "read"
  /\ \/ Exec(u, base[u] \cup {u}, {Entry(place[u])}, "failing") /\ UNCHANGED version
     \/ ExecNull(u, "aborted")
     \/ Goto(u, "failing") /\ UNCHANGED <<server, links, locals>>

\* safeUnwatch() swallows a failure.
SafeUnwatch(u) == Unwatch(u) \/ UNCHANGED links

UpdateRetry(u) ==
  /\ pc[u] = "aborted"
  /\ SafeUnwatch(u)
  /\ attempt' = [attempt EXCEPT ![u] = attempt[u] + 1]
  /\ Goto(u, IF attempt[u] + 1 < MaxRetries THEN "again" ELSE "conflict")
  /\ UNCHANGED <<server, expected, place, base, listing>>

\* Mutant: an update whose entry is gone is retried, not given up.
UpdateFailAgain(u) == /\ pc[u] = "failing"
                      /\ SafeUnwatch(u)
                      /\ Goto(u, "again")
                      /\ UNCHANGED <<server, locals>>

UpdateFail(u) == /\ pc[u] = "failing"
                 /\ SafeUnwatch(u)
                 /\ Goto(u, "failed")
                 /\ UNCHANGED <<server, locals>>

-----------------------------------------------------------------------------
\* updateWithVersion(): WATCH of the version key. The caller passes a version
\* that it has seen, and only once: a null EXEC goes back to here.
SwapWatch(s) == /\ Begin(s)
                /\ Watch(s, Version(KeyFor(s)))
                /\ \E v \in 0..version[KeyFor(s)] : expected' = [expected EXCEPT ![s] = v]
                /\ Goto(s, "watched")
                /\ UNCHANGED <<server, attempt, place, base, listing>>

SwapAgain(s) == /\ pc[s] = "aborted"
                /\ Watch(s, Version(KeyFor(s)))
                /\ Goto(s, "watched")
                /\ UNCHANGED <<server, locals>>

SwapGet(s) == /\ pc[s] = "watched"
              /\ Goto(s, IF version[KeyFor(s)] = expected[s] THEN "versioned" ELSE "refusing")
              /\ UNCHANGED <<server, links, locals>>

SwapRefuse(s) == /\ pc[s] = "refusing"
                 /\ Unwatch(s)
                 /\ Goto(s, "refused")
                 /\ UNCHANGED <<server, locals>>

\* findLatestByKey(), of setWithTtl() too: the ids in the index,
FindIds(o) == /\ (o \in Sets /\ Begin(o)) \/ (o \in Swaps /\ pc[o] = "versioned")
              /\ listing' = [listing EXCEPT ![o] = index]
              /\ Goto(o, "listed")
              /\ UNCHANGED <<server, links, attempt, expected, place, base>>

\* then their entries: the latest, by the clocks of those who wrote them, is read; a
\* new one is made when there is none, or with partialOk when its chunk failed.
FindLatest(o) ==
  LET found == {i \in listing[o] \cap stored : KeyOf[i] = KeyFor(o)}
  IN /\ pc[o] = "listed"
     /\ \/ \E i \in found : /\ place' = [place EXCEPT ![o] = i]
                            /\ base' = [base EXCEPT ![o] = content[i]]
        \/ /\ found = {} \/ PartialOk
           /\ place' = [place EXCEPT ![o] = Target[o]]
           /\ base' = [base EXCEPT ![o] = {}]
     /\ Goto(o, "read")
     /\ UNCHANGED <<server, links, attempt, expected, listing>>

\* Mutant: the version key is not written with the entry.
SwapExecUnversioned(s) ==
  /\ pc[s] = "read"
  /\ \/ /\ Exec(s, base[s] \cup {s}, {Entry(place[s])}, "failed")
        /\ UNCHANGED version
     \/ ExecNull(s, "aborted")

SwapExec(s) ==
  /\ pc[s] = "read"
  /\ \/ /\ Exec(s, base[s] \cup {s}, {Entry(place[s]), Version(KeyFor(s))}, "failed")
        /\ version' = [version EXCEPT ![KeyFor(s)] = expected[s] + 1]
     \/ ExecNull(s, "aborted")

\* setWithTtl(): one batch, whose reply is not looked at; the rest of the entry is as
\* it was read.
SetExec(o) ==
  /\ pc[o] = "read"
  /\ \/ Exec(o, base[o] \cup {o}, {Entry(place[o])}, "failed") /\ UNCHANGED version
     \/ ExecNull(o, "void")

\* A command of a call other than update(), or the caller's updater, throws: what is
\* watched stays watched.
Throw(o) == /\ pc[o] \notin Ended \cup {"new"}
            /\ Goto(o, "failed")
            /\ UNCHANGED <<server, links, locals>>

-----------------------------------------------------------------------------
\* compact(), repair() and clear() go by what SMEMBERS returns,
List(m) == /\ Begin(m)
           /\ listing' = [listing EXCEPT ![m] = index]
           /\ Goto(m, "listed")
           /\ UNCHANGED <<server, links, attempt, expected, place, base>>

\* and the first two by what MGET then finds of it: compact() chooses entries, by age
\* and number, and repair() the ids without one. A chunk that fails is passed over.
Choose(m) ==
  /\ pc[m] = "listed"
  /\ \/ Goto(m, "chosen") /\ \E S \in SUBSET (listing[m] \cap stored) :
                               listing' = [listing EXCEPT ![m] = S]
     \/ Goto(m, "missing") /\ \E S \in SUBSET (listing[m] \ stored) :
                                listing' = [listing EXCEPT ![m] = S]
  /\ UNCHANGED <<server, links, attempt, expected, place, base>>

\* The entries of victims go; what a call of Sweeps has chosen is forgotten when it ends.
SweepEnd(m, victims) ==
  /\ Goto(m, "done")
  /\ stored' = stored \ victims
  /\ dropped' = dropped \cup Made(victims)
  /\ revived' = revived \ victims
  /\ listing' = [listing EXCEPT ![m] = {}]
  /\ UNCHANGED <<content, version, clobbered, attempt, expected, place, base>>

\* deleteVictims(): one batch takes away entries and ids, if there are any.
Delete(m) ==
  LET victims == listing[m]
      touched == Watchers({Entry(i) : i \in victims \cap stored}) \ {Conn[m]}
  IN /\ index' = index \ victims
     /\ SweepEnd(m, victims)
     /\ \/ /\ victims # {} /\ Conn[m] \notin dirty
           /\ watched' = [watched EXCEPT ![Conn[m]] = {}]
           /\ dirty' = dirty \cup touched
           /\ torn' = torn \cup Bared(Conn[m])
        \/ victims = {} /\ UNCHANGED links
     /\ UNCHANGED orphaned

Sweep(m) == /\ pc[m] \in {"chosen", "missing"}
            /\ Delete(m) \/ (listing[m] # {} /\ ExecNull(m, "void"))

\* clear(): one DEL of the entries that were listed and of the index; an entry that
\* was written in between is found by its id only.
Clear(m) ==
  LET none == listing[m] = {}
  IN /\ pc[m] = "listed"
     /\ SweepEnd(m, listing[m])
     /\ index' = IF none THEN index ELSE {}
     /\ orphaned' = IF none THEN orphaned ELSE orphaned \cup stored'
     /\ dirty' = dirty \cup Watchers({Entry(i) : i \in listing[m] \cap stored})
     /\ UNCHANGED <<watched, torn>>

UpdateStep(u) == UpdateWatch(u) \/ UpdateGet(u) \/ UpdateExec(u) \/ UpdateRetry(u) \/ UpdateFail(u)
SwapStep(s) == \/ SwapWatch(s) \/ SwapAgain(s) \/ SwapGet(s) \/ SwapRefuse(s)
               \/ FindIds(s) \/ FindLatest(s) \/ SwapExec(s) \/ Throw(s)

Next == \/ \E w \in Writes : Write(w)
        \/ \E d \in Deletes : Del(d) \/ Srem(d) \/ Throw(d)
        \/ \E u \in Updates : UpdateStep(u)
        \/ \E s \in Swaps : SwapStep(s)
        \/ \E o \in Sets : FindIds(o) \/ FindLatest(o) \/ SetExec(o) \/ Throw(o)
        \/ \E m \in Sweeps : List(m) \/ Choose(m) \/ Sweep(m) \/ Clear(m) \/ Throw(m)
        \/ \E i \in Ids : Expire(i)
        \/ \E c \in Conns : Reconnect(c)

Spec == Init /\ [][Next]_vars

\* The server answers each command, and each reply resumes its call.
Fairness == /\ \A u \in Updates : WF_vars(UpdateStep(u))
            /\ \A s \in Swaps : WF_vars(SwapStep(s))
FairSpec == Spec /\ Fairness

-----------------------------------------------------------------------------
\* A change that was reported as done stays in the entry until that goes, or until a
\* call overwrites it that has no watch on the entry: a setWithTtl(), one whose watch
\* another call of its connection has dropped, and of a change by id an
\* updateWithVersion(), which watches the version.
NoLostUpdate == \A o \in Changes : pc[o] = "done" /\ o \notin dropped \cup clobbered
                  => place[o] \in stored /\ o \in content[place[o]]

\* What is said of update(): a change that was reported as done is in the entry, until
\* that goes. It fails when two calls share a connection.
UpdateProtected == \A u \in Updates : pc[u] = "done" /\ u \notin dropped
                     => place[u] \in stored /\ u \in content[place[u]]

\* Two updateWithVersion() calls never succeed on one version of a key, unless one of
\* that key lost its watch and went on.
OnePerVersion == \A s, t \in Swaps :
  /\ pc[s] = "done"
  /\ pc[t] = "done"
  /\ KeyFor(s) = KeyFor(t)
  /\ expected[s] = expected[t]
  => s = t \/ \E x \in torn \cap Swaps : KeyFor(x) = KeyFor(s) /\ pc[x] \in {"done", "failed"}

\* No entry is missing from the SET of ids, which query(), count() and clear() go by,
\* although delete() takes the entry and its id away in two commands; unless it was
\* brought back between the two without a watch, or written between those of a clear().
IndexComplete == stored \subseteq index \cup orphaned

\* repair() deletes by what it has read some time ago, and still takes away no entry
\* that can be read, save those brought back without a watch: an id without an entry
\* does not get one again.
RepairSpares == [][\A m \in Sweeps : pc[m] = "missing" /\ Sweep(m)
                     => stored \ stored' \subseteq revived]_vars

\* Every update() and updateWithVersion() that has begun ends.
CallsEnd == \A o \in Updates \cup Swaps : pc[o] # "new" ~> pc[o] \in Ended
=============================================================================
